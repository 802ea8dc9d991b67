----------------------------- MODULE WireFormat -----------------------------
(***************************************************************************)
(* How the C++ library lays out what it sends: numbers, strings, lists,    *)
(* pairs, signed blocks and messages in a queue of bytes, and how they are *)
(* read back.                                                              *)
(*                                                                         *)
(* A queue is a sequence of atoms: a number with its own length (the bytes *)
(* of it are NumberCodec's), a byte, a text, a uuid, and the outputs of    *)
(* the cryptography, which can be opened or verified only with the key     *)
(* they name.  A std::string is the queue of its bytes: toString and       *)
(* toQueue do not show.  A reading returns a value and what is left of the *)
(* queue; reading past its end returns what was in an unset variable.      *)
(***************************************************************************)
EXTENDS Naturals, Sequences, SequencesExt

CONSTANTS Unset,     \* the number an exhausted queue yields
          Throws     \* the outcome of a decryption that fails

ASSUME UnsetAssumption == Unset \in Nat

Num(n) == [num |-> n]
Byte(b) == [byte |-> b]
Text(s) == [text |-> s]
Uuid(n) == [uuid |-> n]
UuidBytes(n) == <<Uuid(n)>>
Signature(data, key) == [signed |-> data, by |-> key]
Aes(data, key) == [aes |-> data, key |-> key]
Rsa(data, key) == [rsa |-> data, to |-> key]

Read(value, rest) == [val |-> value, rest |-> rest]
-----------------------------------------------------------------------------
(* Writing: toBytes of a queue or string, of a list, of a pair.            *)
Block(q) == <<Num(Len(q))>> \o q
List(qs) == <<Num(Len(qs))>> \o FlattenSeq(qs)
Pair(first, second) == first \o second

(* Reading.  An atom that is not a number is not one to toSize_T either.   *)
toSize_T(q) == IF q # <<>> /\ "num" \in DOMAIN Head(q)
               THEN Read(Head(q).num, Tail(q))
               ELSE Read(Unset, IF q = <<>> THEN q ELSE Tail(q))

extreactByte(q) == IF q # <<>> /\ "byte" \in DOMAIN Head(q)
                   THEN Read(Head(q).byte, Tail(q))
                   ELSE Read(Unset, IF q = <<>> THEN q ELSE Tail(q))

(* TransferTo moves no more than there is.                                 *)
extractConstantLengthQueue(q, size) ==
    LET n == IF size <= Len(q) THEN size ELSE Len(q)
    IN  Read(SubSeq(q, 1, n), SubSeq(q, n + 1, Len(q)))

extractDynamicLengthQueue(q) ==
    extractConstantLengthQueue(toSize_T(q).rest, toSize_T(q).val)

toPair(q, First(_), Second(_)) ==
    LET first == First(q)
        second == Second(first.rest)
    IN  Read(<<first.val, second.val>>, second.rest)

toIterable(q, Extract(_)) ==
    LET n == toSize_T(q)
        upTo[i \in 0 .. n.val] ==
            IF i = 0 THEN Read(<<>>, n.rest)
            ELSE LET before == upTo[i - 1]
                     next == Extract(before.rest)
                 IN  Read(Append(before.val, next.val), next.rest)
    IN  upTo[n.val]

toStringQueuePair(q) == toPair(q, extractDynamicLengthQueue, extractDynamicLengthQueue)
toChatKeyEntry(q) == toPair(q, toStringQueuePair, extractDynamicLengthQueue)

(* toMap: insert leaves the first entry of a key.                          *)
toMap(q) ==
    LET pairs == toIterable(q, toStringQueuePair)
        First(k) == CHOOSE i \in DOMAIN pairs.val :
                       /\ pairs.val[i][1] = k
                       /\ \A j \in 1 .. i - 1 : pairs.val[j][1] # k
    IN  Read([k \in {pairs.val[i][1] : i \in DOMAIN pairs.val} |-> pairs.val[First(k)][2]],
             pairs.rest)
-----------------------------------------------------------------------------
(* The classes of keys.  A map is written in any order: that of SetToSeq.  *)
MapToQueue(map) ==
    LET order == SetToSeq(DOMAIN map)
    IN  List([i \in DOMAIN order |-> Pair(Block(order[i]), Block(map[order[i]]))])

SignedKeyToQueue(k) == Block(k.key) \o MapToQueue(k.signatures)
SignedKey(q) ==
    LET key == extractDynamicLengthQueue(q)
        signatures == toMap(key.rest)
    IN  Read([key |-> key.val, signatures |-> signatures.val], signatures.rest)

PublicClientKeyToQueue(k) ==
    Block(k.id) \o SignedKeyToQueue(k.data_key) \o SignedKeyToQueue(k.sign_key)
PublicClientKey(q) ==
    LET id == extractDynamicLengthQueue(q)
        data == SignedKey(id.rest)
        sign == SignedKey(data.rest)
    IN  Read([id |-> id.val, data_key |-> data.val, sign_key |-> sign.val], sign.rest)

PrivateClientKeyToQueue(k) ==
    Block(k.sign_key) \o Block(k.data_key) \o Block(k.server_key)
        \o MapToQueue(k.ca_keys) \o Block(k.uid)
PrivateClientKey(q) ==
    LET sign == extractDynamicLengthQueue(q)
        data == extractDynamicLengthQueue(sign.rest)
        server == extractDynamicLengthQueue(data.rest)
        cas == toMap(server.rest)
        uid == extractDynamicLengthQueue(cas.rest)
    IN  Read([sign_key |-> sign.val, data_key |-> data.val, server_key |-> server.val,
              ca_keys |-> cas.val, uid |-> uid.val], uid.rest)
-----------------------------------------------------------------------------
(* Cryptography: who has the key can.  The length of a signature is one    *)
(* byte, a number to the reader as well.                                   *)
encript_rsa(q, key) == <<Rsa(q, key)>>
decript_rsa(q, key) == IF q # <<>> /\ "rsa" \in DOMAIN q[1] /\ q[1].to = key
                       THEN q[1].rsa ELSE Throws

encrypt(q, key) == <<Aes(q, key)>>
decrypt(q, key) == IF q # <<>> /\ "aes" \in DOMAIN q[1] /\ q[1].key = key
                   THEN q[1].aes ELSE Throws

\* Mutant: the signature covers a copy taken too late, and empty.
SignNothing(q, key) == Block(<<Signature(<<>>, key)>>) \o q
sign(q, key) == Block(<<Signature(q, key)>>) \o q
verify(q, key) ==
    LET signature == extractDynamicLengthQueue(q)
    IN  [safe |-> signature.val = <<Signature(signature.rest, key)>>, data |-> signature.rest]
-----------------------------------------------------------------------------
(* A message: as the sender uploads it, and as the server stores it.       *)
(* Sixteen bytes are a uuid, or the beginning of a signature, as good as   *)
(* all of it, with its length.                                             *)
ELONEF_UUID_SIZE(q) == IF Len(q) > 1 /\ "signed" \in DOMAIN q[2] THEN 2 ELSE 1

buildSignedMessageBlock(message, type, key_uuid, aes_key, now) ==
    <<Num(now), Byte(type)>> \o key_uuid \o encrypt(message, aes_key)

encode_message(message, type, chat_id, key_uuid, aes_key, signature_key, now) ==
    Block(chat_id)
        \o sign(buildSignedMessageBlock(message, type, key_uuid, aes_key, now), signature_key)

StoredMessage(uid, client_message, now) ==
    Block(uid) \o Block(client_message) \o <<Num(now), Byte(0)>>

(* A message being decoded; not valid after a step that fails.             *)
get_base_message(q) ==
    LET id == toSize_T(q)
        content == extractDynamicLengthQueue(id.rest)
    IN  Read([msg_id |-> id.val, message |-> content.val, invalid |-> FALSE], content.rest)

extract_server_and_user_data(m) ==
    LET sender == extractDynamicLengthQueue(m.message)
        signed == extractDynamicLengthQueue(sender.rest)
        upload == toSize_T(signed.rest)
    IN  [msg_id |-> m.msg_id, invalid |-> m.invalid, sender_id |-> sender.val,
         upload_time |-> upload.val, message |-> signed.val]

extract_client_data(m) ==
    LET time == toSize_T(m.message)
        type == extreactByte(time.rest)
    IN  [msg_id |-> m.msg_id, invalid |-> m.invalid, sender_id |-> m.sender_id,
         upload_time |-> m.upload_time, send_time |-> time.val, type |-> type.val,
         message |-> type.rest]

KeyId(m) == extractConstantLengthQueue(m.message, ELONEF_UUID_SIZE(m.message))
=============================================================================
