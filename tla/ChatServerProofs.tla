-------------------------- MODULE ChatServerProofs --------------------------
(***************************************************************************)
(* Theorems about ChatServer for any number of users and calls, any times  *)
(* and any connections that reconnect.                                     *)
(***************************************************************************)
EXTENDS ChatServer, WireFormatProofs, WellFoundedInduction

(* The greatest of a set of numbers with a bound.                          *)
LEMMA BelowWellFounded == IsWellFoundedOn({p \in Nat \X Nat : p[1] < p[2]}, Nat)
  BY NatLessThanWellFounded DEF OpToRel

LEMMA Greatest ==
    ASSUME NEW S, S \subseteq Nat, S # {}, NEW n \in Nat, \A i \in S : i <= n
    PROVE  \E i \in S : \A j \in S : j <= i
<1> DEFINE R == {p \in Nat \X Nat : p[1] < p[2]}
           T == {n - i : i \in S}
<1>1. \A i \in S : n - i \in Nat  OBVIOUS
<1>2. T \subseteq Nat /\ T # {}  BY <1>1
<1>3. IsWellFoundedOn(R, Nat)  BY BelowWellFounded
<1> HIDE DEF T, R
<1>4. PICK m \in T : \A k \in T : ~(<<k, m>> \in R)  BY <1>2, <1>3, WFMin
<1> USE DEF T, R
<1>5. PICK i \in S : m = n - i  OBVIOUS
<1>6. ASSUME NEW j \in S PROVE j <= i
  <2>1. n - j \in T  OBVIOUS
  <2>2. ~(n - j < m)  BY <1>1, <1>4, <1>5, <2>1
  <2>3. i \in Nat /\ j \in Nat /\ i <= n /\ j <= n  OBVIOUS
  <2> HIDE DEF T
  <2> QED  BY <1>5, <2>2, <2>3
<1> QED  BY <1>6
-----------------------------------------------------------------------------
(* What a call uploads, sealed with the key k at time t, and what the      *)
(* server stores of it.                                                    *)
Plain(c, k, t) == buildSignedMessageBlock(<<Text(c)>>, Type, UuidBytes(k.id), <<Text(k.by)>>, t)
Message(c, k, t) == sign(Plain(c, k, t), Sender[c])
UploadOf(c, k, t) == Block(Chat) \o Message(c, k, t)
StoredOf(c, k, t, now) == StoredMessage(Sender[c], Message(c, k, t), now)

Atoms(c, k, t) == {Num(t), Byte(Type), Uuid(k.id), Aes(<<Text(c)>>, <<Text(k.by)>>)}
                     \cup {Signature(Plain(c, k, t), Sender[c]), Num(1)}

LEMMA MessageParts ==
    ASSUME NEW c, NEW k, NEW t
    PROVE  /\ Plain(c, k, t) \in Seq(Atoms(c, k, t))
           /\ Message(c, k, t) \in Seq(Atoms(c, k, t))
<1> DEFINE atoms == {Num(t), Byte(Type), Uuid(k.id), Aes(<<Text(c)>>, <<Text(k.by)>>)}
           A == Atoms(c, k, t)
           s == Signature(Plain(c, k, t), Sender[c])
<1>1. Plain(c, k, t) \in Seq(atoms)  BY SignedBlockParts DEF Plain, UuidBytes
<1>2. atoms \subseteq A /\ s \in A /\ Num(1) \in A  BY DEF Atoms
<1> HIDE DEF atoms, A
<1>3. Plain(c, k, t) \in Seq(A)  BY <1>1, <1>2
<1>4. <<s>> \in Seq(A) /\ <<Num(1)>> \in Seq(A) /\ Len(<<s>>) = 1  BY <1>2
<1>5. Block(<<s>>) \o Plain(c, k, t) \in Seq(A)
  <2> HIDE DEF s
  <2> QED  BY <1>3, <1>4 DEF Block
<1> QED  BY <1>3, <1>5 DEF Message, sign, A

LEMMA UploadReads ==
    ASSUME NEW c \in Calls, NEW k, NEW t \in Nat
    PROVE  /\ extractDynamicLengthQueue(UploadOf(c, k, t)).rest = Message(c, k, t)
           /\ verify(Message(c, k, t), Sender[c]).safe
           /\ toSize_T(verify(Message(c, k, t), Sender[c]).data).val = t
<1> DEFINE A == Atoms(c, k, t) \cup Range(Chat)
<1>1. Chat \in Seq(A) /\ Message(c, k, t) \in Seq(A)
  BY QueuesAssumption, MessageParts
<1>2. extractDynamicLengthQueue(UploadOf(c, k, t)).rest = Message(c, k, t)
  <2> HIDE DEF A
  <2>1. extractDynamicLengthQueue(Block(Chat) \o Message(c, k, t)) = Read(Chat, Message(c, k, t))
    BY <1>1, BlockReadsBack
  <2> QED  BY <2>1 DEF UploadOf, Read
<1>3. /\ verify(Message(c, k, t), Sender[c]).safe
      /\ verify(Message(c, k, t), Sender[c]).data = Plain(c, k, t)
  BY MessageParts, SignedVerifies DEF Message
<1>4. toSize_T(Plain(c, k, t)).val = t
  <2> DEFINE m == [message |-> Plain(c, k, t), msg_id |-> 0, invalid |-> FALSE,
                   sender_id |-> 0, upload_time |-> 0]
  <2>1. m.message = buildSignedMessageBlock(<<Text(c)>>, Type, UuidBytes(k.id), <<Text(k.by)>>, t)
    BY DEF Plain
  <2> HIDE DEF m
  <2>2. toSize_T(m.message).val = t  BY <2>1, ClientDataOpens
  <2> QED  BY <2>2 DEF m
<1> QED  BY <1>2, <1>3, <1>4

LEMMA UploadOpens ==
    ASSUME NEW c \in Calls, NEW k, NEW t \in Nat, frame[c] = UploadOf(c, k, t)
    PROVE  /\ Signed(c) = Message(c, k, t) /\ SentAt(c) = t
           /\ verify(Signed(c), Sender[c]).safe
  BY UploadReads DEF Signed, SentAt

(* A stored message, taken apart.                                          *)
Cipher(c, g) == encrypt(<<Text(c)>>, <<Text(g)>>)

LEMMA StoredParts ==
    ASSUME NEW c \in Calls, NEW t \in Nat, NEW now \in Nat
    PROVE  \A k : LET m == Opened(StoredOf(c, k, t, now))
                 IN  /\ m.safe /\ m.sender = Sender[c] /\ m.type = Type /\ m.sent = t
                     /\ m.id = UuidBytes(k.id) /\ m.cipher = Cipher(c, k.by)
<1> TAKE k
<1> DEFINE q == StoredOf(c, k, t, now)
           m == [msg_id |-> 0, message |-> q, invalid |-> FALSE]
           base == extract_server_and_user_data(m)
           verified == verify(base.message, base.sender_id)
           signed == [base EXCEPT !.message = verified.data]
           data == extract_client_data(signed)
           cipher == encrypt(<<Text(c)>>, <<Text(k.by)>>)
<1>1. Sender[c] \in Seq(Range(Sender[c]))  BY QueuesAssumption, CallsAssumption
<1>2. m.message = StoredMessage(Sender[c], Message(c, k, t), now)  BY DEF StoredOf
<1> HIDE DEF m, cipher, q
<1>3. base = [msg_id |-> m.msg_id, invalid |-> m.invalid, sender_id |-> Sender[c],
              upload_time |-> now, message |-> Message(c, k, t)]
  BY <1>1, <1>2, MessageParts, StoredOpens
<1> HIDE DEF base
<1>4. base.sender_id = Sender[c] /\ base.message = Message(c, k, t) /\ base.upload_time = now
  BY <1>3
<1>5. verified.safe /\ verified.data = Plain(c, k, t)
  BY <1>4, MessageParts, SignedVerifies DEF Message
<1> HIDE DEF verified
<1>6. signed.message = buildSignedMessageBlock(<<Text(c)>>, Type, UuidBytes(k.id), <<Text(k.by)>>, t)
  BY <1>3, <1>5 DEF Plain
<1> HIDE DEF signed
<1>7. /\ data = [msg_id |-> signed.msg_id, invalid |-> signed.invalid,
                 sender_id |-> signed.sender_id, upload_time |-> signed.upload_time,
                 send_time |-> t, type |-> Type, message |-> UuidBytes(k.id) \o cipher]
      /\ KeyId(data) = Read(UuidBytes(k.id), cipher)
  BY <1>6, ClientDataOpens DEF cipher
<1> HIDE DEF data
<1>8. data.send_time = t /\ data.type = Type
      /\ KeyId(data).val = UuidBytes(k.id) /\ KeyId(data).rest = cipher
  BY <1>7 DEF Read
<1>9. Opened(q) = [safe |-> verified.safe, sender |-> base.sender_id, type |-> data.type,
                   sent |-> data.send_time, uploaded |-> base.upload_time,
                   id |-> KeyId(data).val, cipher |-> KeyId(data).rest]
  BY DEF Opened, m, base, verified, signed, data
<1> QED  BY <1>4, <1>5, <1>8, <1>9 DEF q, cipher, Cipher

LEMMA StoredReads ==
    ASSUME NEW c \in Calls, NEW k, NEW t \in Nat, NEW now \in Nat
    PROVE  /\ Opened(StoredOf(c, k, t, now)).safe
           /\ Opened(StoredOf(c, k, t, now)).sender = Sender[c]
           /\ Opened(StoredOf(c, k, t, now)).type = Type
           /\ Opened(StoredOf(c, k, t, now)).sent = t
<1>1. Opened(StoredOf(c, k, t, now)).safe  BY StoredParts
<1>2. Opened(StoredOf(c, k, t, now)).sender = Sender[c]  BY StoredParts
<1>3. Opened(StoredOf(c, k, t, now)).type = Type  BY StoredParts
<1>4. Opened(StoredOf(c, k, t, now)).sent = t  BY StoredParts
<1> QED  BY <1>1, <1>2, <1>3, <1>4

LEMMA StoredSecret ==
    ASSUME NEW c \in Calls, NEW k, NEW t \in Nat, NEW now \in Nat
    PROVE  /\ Opened(StoredOf(c, k, t, now)).id = UuidBytes(k.id)
           /\ Opened(StoredOf(c, k, t, now)).cipher = Cipher(c, k.by)
<1>1. Opened(StoredOf(c, k, t, now)).id = UuidBytes(k.id)  BY StoredParts
<1>2. Opened(StoredOf(c, k, t, now)).cipher = Cipher(c, k.by)  BY StoredParts
<1> QED  BY <1>1, <1>2
LEMMA CipherParts ==
    ASSUME NEW c, NEW g
    PROVE  Cipher(c, g)[1].aes[1].text = c /\ Cipher(c, g)[1].key[1].text = g
<1>1. Cipher(c, g)[1] = Aes(<<Text(c)>>, <<Text(g)>>)  BY DEF Cipher, encrypt
<1>2. Cipher(c, g)[1].aes = <<Text(c)>> /\ Cipher(c, g)[1].key = <<Text(g)>>  BY <1>1 DEF Aes
<1>3. <<Text(c)>>[1].text = c /\ <<Text(g)>>[1].text = g  BY DEF Text
<1> QED  BY <1>2, <1>3

(* The last atom but two of a stored message is what was encrypted.        *)
LEMMA LastOf ==
    ASSUME NEW S, NEW p \in Seq(S), NEW q \in Seq(S), q # <<>>
    PROVE  /\ p \o q \in Seq(S) /\ p \o q # <<>>
           /\ (p \o q)[Len(p \o q)] = q[Len(q)]
  OBVIOUS

LEMMA BeforeTwo ==
    ASSUME NEW S, NEW p \in Seq(S), p # <<>>, NEW a, NEW b
    PROVE  (p \o <<a, b>>)[Len(p \o <<a, b>>) - 2] = p[Len(p)]
<1> DEFINE T == S \cup {a, b}  q == <<a, b>>
<1>1. p \in Seq(T) /\ q \in Seq(T) /\ Len(q) = 2  OBVIOUS
<1> HIDE DEF T, q
<1> QED  BY <1>1 DEF q

LEMMA StoredSealed ==
    ASSUME NEW c \in Calls, NEW k, NEW t, NEW now
    PROVE  Sealed(StoredOf(c, k, t, now)) = Aes(<<Text(c)>>, <<Text(k.by)>>)
<1> DEFINE uid == Sender[c]
           plain == Plain(c, k, t)
           signed == Message(c, k, t)
           A == Atoms(c, k, t) \cup Range(uid) \cup {Num(Len(uid)), Num(Len(signed))}
           s == <<Signature(plain, uid)>>
           aes == Aes(<<Text(c)>>, <<Text(k.by)>>)
<1>1. uid \in Seq(A)  BY QueuesAssumption, CallsAssumption
<1>2. plain \in Seq(A) /\ plain # <<>> /\ plain[Len(plain)] = aes
  <2>1. plain = <<Num(t), Byte(Type), Uuid(k.id), aes>>
    BY SignedBlockParts DEF Plain, UuidBytes
  <2>2. plain # <<>> /\ plain[Len(plain)] = aes
    <3> HIDE DEF plain, aes
    <3> QED  BY <2>1
  <2> QED  BY <2>2, MessageParts
<1>3. Block(s) \in Seq(A)
  <2>1. Signature(plain, uid) \in A /\ Num(1) \in A  BY DEF Atoms
  <2> HIDE DEF A
  <2>2. s \in Seq(A) /\ Len(s) = 1 /\ <<Num(1)>> \in Seq(A)  BY <2>1
  <2> HIDE DEF s
  <2> QED  BY <2>2 DEF Block
<1>4. signed = Block(s) \o plain  BY DEF Message, sign
<1>5. signed \in Seq(A) /\ signed # <<>> /\ signed[Len(signed)] = aes
  <2> HIDE DEF A, signed, plain, s, aes
  <2> QED  BY <1>2, <1>3, <1>4, LastOf
<1>6. <<Num(Len(signed))>> \in Seq(A) /\ <<Num(Len(uid))>> \in Seq(A)  OBVIOUS
<1> HIDE DEF A, signed, plain, s, aes, uid
<1>7. Block(uid) \in Seq(A)  BY <1>1, <1>6 DEF Block
<1>8. Block(signed) \in Seq(A) /\ Block(signed) # <<>>
      /\ Block(signed)[Len(Block(signed))] = aes
  BY <1>5, <1>6, LastOf DEF Block
<1>9. Block(uid) \o Block(signed) \in Seq(A) /\ Block(uid) \o Block(signed) # <<>>
      /\ (Block(uid) \o Block(signed))[Len(Block(uid) \o Block(signed))] = aes
  BY <1>7, <1>8, LastOf
<1>10. StoredOf(c, k, t, now) = (Block(uid) \o Block(signed)) \o <<Num(now), Byte(0)>>
  BY DEF StoredOf, StoredMessage, signed, uid
<1> QED  BY <1>9, <1>10, BeforeTwo DEF Sealed, aes

(* A reply gives back the key it was made of; an empty one none.           *)
LEMMA ReplyOpens ==
    ASSUME NEW u, NEW k
    PROVE  LET sealed == extractDynamicLengthQueue(NewestReply(u, k))
           IN  /\ decript_rsa(sealed.val, u) = <<Text(k.by)>>
               /\ extractDynamicLengthQueue(sealed.rest).val = UuidBytes(k.id)
<1> DEFINE p == <<Rsa(<<Text(k.by)>>, u)>>
           q == UuidBytes(k.id)
           S == {Rsa(<<Text(k.by)>>, u), Uuid(k.id), Num(1)}
<1>1. p \in Seq(S) /\ q \in Seq(S) /\ <<Num(1)>> \in Seq(S) /\ Len(q) = 1
  BY DEF UuidBytes
<1>2. p # <<>> /\ p[1] = Rsa(<<Text(k.by)>>, u)  OBVIOUS
<1>3. decript_rsa(p, u) = <<Text(k.by)>>
  <2> HIDE DEF p
  <2> QED  BY <1>2 DEF decript_rsa, Rsa
<1>4. NewestReply(u, k) = Block(p) \o Block(q)
  BY DEF NewestReply, Pair, encript_rsa
<1> HIDE DEF p, q, S
<1>5. Block(q) \in Seq(S)  BY <1>1 DEF Block
<1>6. extractDynamicLengthQueue(Block(p) \o Block(q)) = Read(p, Block(q))
  BY <1>1, <1>5, BlockReadsBack
<1>7. extractDynamicLengthQueue(Block(q)) = Read(q, <<>>)
  BY <1>1, LastBlockReadsBack
<1>8. Read(p, Block(q)).val = p /\ Read(p, Block(q)).rest = Block(q) /\ Read(q, <<>>).val = q
  BY DEF Read
<1> QED  BY <1>3, <1>4, <1>6, <1>7, <1>8 DEF q

LEMMA EmptyReplyThrows ==
    ASSUME NEW u
    PROVE  decript_rsa(extractDynamicLengthQueue(<<>>).val, u) = Throws
<1>1. toSize_T(<<>>) = Read(Unset, <<>>)  BY DEF toSize_T
<1>2. Read(Unset, <<>>).rest = <<>> /\ Read(Unset, <<>>).val = Unset  BY DEF Read
<1>3. (IF Unset <= 0 THEN Unset ELSE 0) = 0  BY UnsetAssumption
<1>4. Len(<<>>) = 0 /\ SubSeq(<<>>, 1, 0) = <<>>  OBVIOUS
<1>5. extractConstantLengthQueue(<<>>, Unset).val = <<>>
  BY <1>3, <1>4 DEF extractConstantLengthQueue, Read
<1>6. extractDynamicLengthQueue(<<>>).val = <<>>
  BY <1>1, <1>2, <1>5 DEF extractDynamicLengthQueue
<1> QED  BY <1>6 DEF decript_rsa
-----------------------------------------------------------------------------
(* The two ways send_message goes on.                                      *)
Sealing(c) == extractDynamicLengthQueue(frame[c])
KeyIn(c) == decript_rsa(Sealing(c).val, Sender[c])

LEMMA UploadMoves ==
    ASSUME NEW c \in Calls, UploadMessage(c)
    PROVE  /\ stage[c] = "replied"
           /\ UNCHANGED <<drawn, floor, gen, keys, log, met, session, clock>>
           /\ \/ /\ KeyIn(c) = Throws /\ stage' = [stage EXCEPT ![c] = "threw"]
                 /\ UNCHANGED <<frame, trusted>>
              \/ /\ KeyIn(c) # Throws /\ stage' = [stage EXCEPT ![c] = "sent"]
                 /\ frame' = [frame EXCEPT ![c] =
                        Upload(c, extractDynamicLengthQueue(Sealing(c).rest).val, KeyIn(c))]
                 /\ trusted' = [trusted EXCEPT ![c] = session[Sender[c]]]
  BY DEF UploadMessage, Goto, SendFrame, storeVars, Sealing, KeyIn

(* Every step keeps the types: frames hold anything.                       *)
LEMMA TypeInit == Init => TypeOK
<1>1. <<>> \in Seq([id : Nat, by : Calls]) /\ 0 \in Nat  OBVIOUS
<1> HIDE DEF TypeOK
<1>2. ASSUME Init PROVE TypeOK
  <2>1. Start \in Nat  BY TimesAssumption
  <2> QED  BY <1>1, <1>2, <2>1 DEF Init, TypeOK
<1> QED  BY <1>2

LEMMA TypeStep ==
    ASSUME TypeOK, [Next]_vars
    PROVE  TypeOK'
<1> USE CallsAssumption, TimesAssumption DEF TypeOK
<1> USE DEF Goto, SendFrame, storeVars, callVars
<1>1. ASSUME NEW c \in Calls, generate_chat_key(c) PROVE TypeOK'
  BY <1>1 DEF generate_chat_key
<1>2. ASSUME NEW c \in Calls, send_message(c) PROVE TypeOK'
  BY <1>2 DEF send_message
<1>3. ASSUME NEW c \in Calls, UploadMessage(c) PROVE TypeOK'
  <2>1. UNCHANGED <<drawn, floor, gen, keys, log, met, session, clock>>
    BY <1>3, UploadMoves
  <2>2. CASE stage' = [stage EXCEPT ![c] = "threw"] /\ UNCHANGED <<frame, trusted>>
    BY <2>1, <2>2
  <2>3. CASE /\ stage' = [stage EXCEPT ![c] = "sent"]
             /\ frame' = [frame EXCEPT ![c] =
                      Upload(c, extractDynamicLengthQueue(Sealing(c).rest).val, KeyIn(c))]
             /\ trusted' = [trusted EXCEPT ![c] = session[Sender[c]]]
    BY <2>1, <2>3
  <2> QED  BY <1>3, <2>2, <2>3, UploadMoves
<1>4. ASSUME NEW c \in Calls, Drop(c) PROVE TypeOK'
  BY <1>4 DEF Drop
<1>5. ASSUME NEW c \in Calls, get_newest_chat_key(c) PROVE TypeOK'
  BY <1>5 DEF get_newest_chat_key
<1>6. ASSUME NEW c \in Calls, DrawBegin(c) PROVE TypeOK'
  BY <1>6 DEF DrawBegin
<1>7. ASSUME NEW c \in Calls, DrawEnd(c) PROVE TypeOK'
  BY <1>7 DEF DrawEnd
<1>8. ASSUME NEW c \in Calls, SetChatKey(c) PROVE TypeOK'
  BY <1>8 DEF SetChatKey
<1>9. ASSUME NEW c \in Calls, VerifyMessage(c) PROVE TypeOK'
  BY <1>9 DEF VerifyMessage
<1>10. ASSUME NEW c \in Calls, StampMessage(c) PROVE TypeOK'
  BY <1>10 DEF StampMessage
<1>11. ASSUME NEW c \in Calls, StoreMessage(c) PROVE TypeOK'
  BY <1>11 DEF StoreMessage
<1>12. ASSUME NEW u \in Users, Reconnect(u) PROVE TypeOK'
  BY <1>12 DEF Reconnect
<1>13. CASE Tick  BY <1>13 DEF Tick
<1>14. CASE UNCHANGED vars  BY <1>14 DEF vars
<1> QED
  BY <1>1, <1>2, <1>3, <1>4, <1>5, <1>6, <1>7, <1>8, <1>9, <1>10, <1>11, <1>12, <1>13, <1>14
  DEF Next, ClientStep, ServerStep

THEOREM TypeCorrect == Spec => []TypeOK
  BY TypeInit, TypeStep, PTL DEF Spec
-----------------------------------------------------------------------------
(* A step moves one call, or loses some, and leaves the others alone.      *)
Kept(c) == /\ stage'[c] = stage[c] /\ frame'[c] = frame[c] /\ trusted'[c] = trusted[c]
           /\ drawn'[c] = drawn[c] /\ floor'[c] = floor[c]
Lost(c) == /\ stage[c] \in {"asked", "replied", "sent"} /\ stage'[c] \in {"lost", "waiting"}
           /\ stage'[c] = "lost" <=> stage[c] = "sent"
           /\ frame'[c] = frame[c] /\ trusted'[c] = trusted[c]
           /\ drawn'[c] = drawn[c] /\ floor'[c] = floor[c]
           /\ UNCHANGED <<keys, log, gen, met>>

LEMMA EachCall ==
    ASSUME TypeOK, [Next]_vars, NEW c \in Calls
    PROVE  Kept(c) \/ Lost(c) \/ ClientStep(c) \/ ServerStep(c)
<1> USE DEF TypeOK, Goto, SendFrame, storeVars, callVars, Kept
<1>1. ASSUME NEW d \in Calls, d # c, ClientStep(d) \/ ServerStep(d) PROVE Kept(c)
  <2>1. CASE generate_chat_key(d)  BY <1>1, <2>1 DEF generate_chat_key
  <2>2. CASE send_message(d)  BY <1>1, <2>2 DEF send_message
  <2>3. CASE UploadMessage(d)
    <3>1. drawn' = drawn /\ floor' = floor  BY <2>3, UploadMoves
    <3>2. stage'[c] = stage[c]  BY <1>1, <2>3, UploadMoves
    <3>3. frame'[c] = frame[c] /\ trusted'[c] = trusted[c]
      <4>1. DOMAIN frame = Calls /\ DOMAIN trusted = Calls  OBVIOUS
      <4>2. \/ UNCHANGED <<frame, trusted>>
            \/ \E q, b : /\ frame' = [frame EXCEPT ![d] = q]
                         /\ trusted' = [trusted EXCEPT ![d] = b]
        BY <2>3, UploadMoves
      <4> HIDE DEF TypeOK, Kept
      <4> QED  BY <1>1, <4>1, <4>2
    <3> QED  BY <3>1, <3>2, <3>3
  <2>4. CASE Drop(d)  BY <1>1, <2>4 DEF Drop
  <2>5. CASE get_newest_chat_key(d)  BY <1>1, <2>5 DEF get_newest_chat_key
  <2>6. CASE DrawBegin(d)  BY <1>1, <2>6 DEF DrawBegin
  <2>7. CASE DrawEnd(d)  BY <1>1, <2>7 DEF DrawEnd
  <2>8. CASE SetChatKey(d)  BY <1>1, <2>8 DEF SetChatKey
  <2>9. CASE VerifyMessage(d)  BY <1>1, <2>9 DEF VerifyMessage
  <2>10. CASE StampMessage(d)  BY <1>1, <2>10 DEF StampMessage
  <2>11. CASE StoreMessage(d)  BY <1>1, <2>11 DEF StoreMessage
  <2> QED
    BY <1>1, <2>1, <2>2, <2>3, <2>4, <2>5, <2>6, <2>7, <2>8, <2>9, <2>10, <2>11
    DEF ClientStep, ServerStep
<1>2. ASSUME NEW u \in Users, Reconnect(u) PROVE Kept(c) \/ Lost(c)
  BY <1>2 DEF Reconnect, Underway, Lost
<1>3. CASE Tick  BY <1>3 DEF Tick
<1>4. CASE UNCHANGED vars  BY <1>4 DEF vars
<1> QED  BY <1>1, <1>2, <1>3, <1>4 DEF Next

(* Keys are only added, a connection stays unauthenticated, time goes on,  *)
(* and what a call that is under way was told of the keys stays.           *)
LEMMA Steady ==
    ASSUME TypeOK, [Next]_vars
    PROVE  /\ Len(keys) <= Len(keys')
           /\ \A i \in DOMAIN keys : i \in DOMAIN keys' /\ keys'[i] = keys[i]
           /\ \A u \in Users : session'[u] => session[u]
           /\ clock \in Nat /\ clock' \in Nat /\ clock <= clock'
           /\ \A c \in Calls : stage[c] # "idle" => floor'[c] = floor[c]
           /\ \A c \in Calls : Returned(c) => Returned(c)'
           /\ \A c \in Calls : stage[c] # "idle" => stage'[c] # "idle"
<1> USE DEF TypeOK, Goto, SendFrame, storeVars, callVars
<1>1. /\ Len(keys) <= Len(keys')
      /\ \A i \in DOMAIN keys : i \in DOMAIN keys' /\ keys'[i] = keys[i]
  <2>1. ASSUME NEW c \in Calls, SetChatKey(c) 
        PROVE  /\ Len(keys) <= Len(keys')
               /\ \A i \in DOMAIN keys : i \in DOMAIN keys' /\ keys'[i] = keys[i]
    BY <2>1 DEF SetChatKey
  <2>2. keys' = keys \/ \E c \in Calls : SetChatKey(c)
    BY DEF Next, ClientStep, ServerStep, generate_chat_key, send_message, UploadMessage, Drop,
           get_newest_chat_key, DrawBegin, DrawEnd, VerifyMessage, StampMessage, StoreMessage,
           Reconnect, Tick, vars
  <2> QED  BY <2>1, <2>2
<1>2. /\ \A u \in Users : session'[u] => session[u]
      /\ clock \in Nat /\ clock' \in Nat /\ clock <= clock'
  <2>1. ASSUME NEW u \in Users, Reconnect(u) 
        PROVE  /\ \A v \in Users : session'[v] => session[v]
               /\ clock' = clock
    BY <2>1 DEF Reconnect
  <2>2. CASE Tick  BY <2>2 DEF Tick
  <2>3. CASE session' = session /\ clock' = clock  BY <2>3
  <2>4. ASSUME NEW c \in Calls, ClientStep(c) \/ ServerStep(c)
        PROVE  session' = session /\ clock' = clock
    BY <2>4, UploadMoves
    DEF ClientStep, ServerStep, generate_chat_key, send_message, Drop,
        get_newest_chat_key, DrawBegin, DrawEnd, SetChatKey, VerifyMessage, StampMessage,
        StoreMessage
  <2>5. UNCHANGED vars => session' = session /\ clock' = clock  BY DEF vars
  <2> QED  BY <2>1, <2>2, <2>3, <2>4, <2>5 DEF Next
<1>3. ASSUME NEW c \in Calls
      PROVE  /\ stage[c] # "idle" => floor'[c] = floor[c] /\ stage'[c] # "idle"
             /\ Returned(c) => Returned(c)'
  <2>1. CASE Kept(c)  BY <2>1 DEF Kept, Returned
  <2>2. CASE Lost(c)  BY <2>2 DEF Lost, Returned
  <2>3. CASE ClientStep(c)
    <3>1. UploadMessage(c) => /\ stage[c] = "replied" /\ floor' = floor
                              /\ stage'[c] \in {"threw", "sent"}
      BY UploadMoves
    <3>2. UploadMessage(c) => ~Returned(c) /\ floor'[c] = floor[c] /\ stage'[c] # "idle"
      BY <3>1 DEF Returned
    <3> QED
      BY <2>3, <3>2 DEF ClientStep, generate_chat_key, send_message, MayCall, Returned
  <2>4. CASE ServerStep(c)
    BY <2>4
    DEF ServerStep, Drop, get_newest_chat_key, DrawBegin, DrawEnd, SetChatKey, VerifyMessage,
        StampMessage, StoreMessage, Returned
  <2> QED  BY <2>1, <2>2, <2>3, <2>4, EachCall
<1> QED  BY <1>1, <1>2, <1>3
-----------------------------------------------------------------------------
(* The invariant, for each call: what it is, whom it waited for, and what  *)
(* its frame holds.                                                        *)
CallInv(c) ==
    /\ floor[c] <= Len(keys)
    /\ stage[c] \in {"drawing", "drawn"} => Kind[c] = "generate"
    /\ stage[c] \in {"asked", "replied", "verified", "stamped", "threw", "refused"}
          => Kind[c] = "send"
    /\ stage[c] # "idle" /\ ~trusted[c] => ~session[Sender[c]]
    /\ stage[c] # "idle" => \A d \in Earlier[c] : Returned(d)

(* The key i is the newest, or newer than the newest, that the sender of c *)
(* had when she called.                                                    *)
KeyFor(c, i) == /\ i \in DOMAIN keys /\ Sender[c] \in Members[keys[i].by]
                /\ \A j \in KeysBefore(c) : j <= i
Timely(c, t) == t \in Nat /\ t <= clock + Skew[Sender[c]]

ReplyInv(c) ==
    stage[c] = "replied" =>
        \/ frame[c] = <<>> /\ (KeysBefore(c) = {} \/ ~session[Sender[c]])
        \/ \E i \in DOMAIN keys : KeyFor(c, i) /\ frame[c] = NewestReply(Sender[c], keys[i])

UploadInv(c) ==
    Kind[c] = "send" /\ stage[c] \in {"sent", "verified", "refused"} =>
        \E i \in DOMAIN keys, t \in Nat :
            KeyFor(c, i) /\ Timely(c, t) /\ frame[c] = UploadOf(c, keys[i], t)

StampInv(c) ==
    Kind[c] = "send" /\ stage[c] \in {"stamped", "stored"} =>
        \E i \in DOMAIN keys, t \in Nat, now \in Nat :
            KeyFor(c, i) /\ Timely(c, t) /\ frame[c] = StoredOf(c, keys[i], t, now)

EndInv(c) ==
    /\ stage[c] = "threw" => KeysBefore(c) = {} \/ ~session[Sender[c]]
    /\ stage[c] = "refused" => \/ clock >= SentAt(c) + Lower
                              \/ Skew[Sender[c]] >= Upper

FrameInv(c) == ReplyInv(c) /\ UploadInv(c) /\ StampInv(c) /\ EndInv(c)

LEMMA CallStep ==
    ASSUME TypeOK, [Next]_vars, NEW c \in Calls, CallInv(c)
    PROVE  CallInv(c)'
<1> DEFINE Place == {"drawing", "drawn"}
<1>1. /\ Len(keys) <= Len(keys') /\ Len(keys) \in Nat /\ Len(keys') \in Nat
      /\ \A u \in Users : session'[u] => session[u]
      /\ \A d \in Earlier[c] : Returned(d) => Returned(d)'
  <2>1. Len(keys) \in Nat /\ Len(keys') \in Nat  BY TypeStep DEF TypeOK
  <2> QED  BY <2>1, Steady, CallsAssumption
<1>2. Sender[c] \in Users /\ floor[c] \in Nat /\ Kind[c] \in {"generate", "send"}
      /\ c \in DOMAIN stage /\ c \in DOMAIN trusted /\ c \in DOMAIN floor
  BY CallsAssumption DEF TypeOK
<1>3. CASE Kept(c)
  BY <1>1, <1>2, <1>3 DEF CallInv, Kept
<1>4. CASE Lost(c)
  BY <1>1, <1>2, <1>4 DEF CallInv, Lost
<1>5. CASE generate_chat_key(c)
  BY <1>1, <1>2, <1>5 DEF CallInv, generate_chat_key, MayCall, Goto, SendFrame, storeVars
<1>6. CASE send_message(c)
  BY <1>1, <1>2, <1>6 DEF CallInv, send_message, MayCall, Goto, SendFrame, storeVars
<1>7. CASE UploadMessage(c)
  <2>1. stage[c] = "replied" /\ floor' = floor /\ session' = session
    BY <1>7, UploadMoves
  <2>2. \/ stage'[c] = "threw" /\ trusted'[c] = trusted[c]
        \/ stage'[c] = "sent" /\ trusted'[c] = session[Sender[c]]
    BY <1>2, <1>7, UploadMoves
  <2> QED  BY <1>1, <1>2, <2>1, <2>2 DEF CallInv
<1>8. CASE ServerStep(c)
  <2>1. /\ stage[c] # "idle" /\ UNCHANGED <<trusted, session, floor>>
        /\ stage'[c] \in Place => Kind[c] = "generate"
        /\ stage'[c] \in {"asked", "replied", "verified", "stamped", "threw", "refused"}
              => Kind[c] = "send"
    BY <1>2, <1>8
    DEF CallInv, ServerStep, Drop, get_newest_chat_key, DrawBegin, DrawEnd, SetChatKey,
        VerifyMessage, StampMessage, StoreMessage, Goto, storeVars
  <2> QED  BY <1>1, <1>2, <2>1 DEF CallInv
<1> QED  BY <1>3, <1>4, <1>5, <1>6, <1>7, <1>8, EachCall DEF ClientStep

LEMMA KeysTyped ==
    ASSUME TypeOK
    PROVE  /\ Len(keys) \in Nat /\ DOMAIN keys = 1 .. Len(keys)
           /\ \A i \in DOMAIN keys : keys[i].by \in Calls /\ keys[i].id \in Nat
<1>1. keys \in Seq([id : Nat, by : Calls])  BY DEF TypeOK
<1>2. Len(keys) \in Nat /\ DOMAIN keys = 1 .. Len(keys)  BY <1>1
<1>3. \A i \in 1 .. Len(keys) : keys[i] \in [id : Nat, by : Calls]  BY <1>1, ElementOfSeq
<1> QED  BY <1>2, <1>3

LEMMA KeyForStays ==
    ASSUME TypeOK, [Next]_vars, NEW c \in Calls, floor[c] <= Len(keys), stage[c] # "idle"
    PROVE  /\ KeysBefore(c)' = KeysBefore(c)
           /\ \A i \in DOMAIN keys : KeyFor(c, i) => KeyFor(c, i)'
<1>1. /\ Len(keys) <= Len(keys')
      /\ \A i \in DOMAIN keys : i \in DOMAIN keys' /\ keys'[i] = keys[i]
      /\ floor'[c] = floor[c]
  BY Steady
<1>2. DOMAIN keys = 1 .. Len(keys) /\ floor[c] \in Nat /\ Len(keys) \in Nat  BY DEF TypeOK
<1>3. KeysBefore(c)' = KeysBefore(c)
  <2>1. \A j \in 1 .. floor[c] : j \in DOMAIN keys  BY <1>2
  <2> QED  BY <1>1, <2>1 DEF KeysBefore
<1> QED  BY <1>1, <1>3 DEF KeyFor

LEMMA TimelyStays ==
    ASSUME TypeOK, [Next]_vars, NEW c \in Calls, NEW t, Timely(c, t)
    PROVE  Timely(c, t)'
<1>1. clock \in Nat /\ clock' \in Nat /\ clock <= clock'  BY Steady
<1>2. Skew[Sender[c]] \in Nat  BY CallsAssumption, TimesAssumption
<1> QED  BY <1>1, <1>2 DEF Timely

(* The frames, one kind after the other.                                   *)
LEMMA ReplyStep ==
    ASSUME TypeOK, [Next]_vars, NEW c \in Calls, CallInv(c), ReplyInv(c)
    PROVE  ReplyInv(c)'
<1> SUFFICES ASSUME stage'[c] = "replied" PROVE ReplyInv(c)'
  BY DEF ReplyInv
<1>1. Sender[c] \in Users /\ c \in DOMAIN stage /\ c \in DOMAIN frame
      /\ \A u \in Users : session'[u] => session[u]
  BY CallsAssumption, Steady DEF TypeOK
<1>2. /\ \A i \in DOMAIN keys : i \in DOMAIN keys' /\ keys'[i] = keys[i]
      /\ stage[c] # "idle" => /\ KeysBefore(c)' = KeysBefore(c)
                             /\ \A i \in DOMAIN keys : KeyFor(c, i) => KeyFor(c, i)'
  BY Steady, KeyForStays DEF CallInv
<1>3. \A i \in DOMAIN keys : NewestReply(Sender[c], keys[i])' = NewestReply(Sender[c], keys[i])
  BY <1>2 DEF NewestReply
<1>4. CASE Kept(c)
  <2>1. stage[c] = "replied" /\ frame'[c] = frame[c]  BY <1>4 DEF Kept
  <2> QED  BY <1>1, <1>2, <2>1 DEF ReplyInv, NewestReply
<1>5. CASE get_newest_chat_key(c)
  <2>1. stage[c] = "asked" /\ UNCHANGED <<keys, session, floor, trusted>>
    BY <1>5 DEF get_newest_chat_key, storeVars
  <2>2. frame'[c] = IF trusted[c] /\ Newest(Sender[c]) # 0
                    THEN NewestReply(Sender[c], keys[Newest(Sender[c])]) ELSE <<>>
    BY <1>1, <1>5 DEF get_newest_chat_key
  <2>3. ~trusted[c] => ~session[Sender[c]]  BY <2>1 DEF CallInv
  <2>4. KeysOf(Sender[c]) = {} => KeysBefore(c) = {} /\ Newest(Sender[c]) = 0
    <3>1. floor[c] <= Len(keys) /\ floor[c] \in Nat /\ DOMAIN keys = 1 .. Len(keys)
          /\ Len(keys) \in Nat
      BY DEF CallInv, TypeOK
    <3> QED  BY <3>1 DEF KeysOf, KeysBefore, Newest
  <2>5. KeysOf(Sender[c]) # {} => Newest(Sender[c]) \in DOMAIN keys /\ KeyFor(c, Newest(Sender[c]))
                                /\ Newest(Sender[c]) # 0
    <3>1. Len(keys) \in Nat /\ DOMAIN keys = 1 .. Len(keys) /\ floor[c] \in Nat
          /\ floor[c] <= Len(keys)
      BY DEF TypeOK, CallInv
    <3>2. KeysOf(Sender[c]) \subseteq Nat /\ \A i \in KeysOf(Sender[c]) : i <= Len(keys)
      BY <3>1 DEF KeysOf
    <3>3. ASSUME KeysOf(Sender[c]) # {}
          PROVE  /\ Newest(Sender[c]) \in KeysOf(Sender[c])
                 /\ \A j \in KeysOf(Sender[c]) : j <= Newest(Sender[c])
      <4>1. \E i \in KeysOf(Sender[c]) : \A j \in KeysOf(Sender[c]) : j <= i
        BY <3>1, <3>2, <3>3, Greatest
      <4> QED  BY <3>3, <4>1 DEF Newest
    <3>4. KeysBefore(c) \subseteq KeysOf(Sender[c])  BY <3>1 DEF KeysBefore, KeysOf
    <3> QED  BY <3>1, <3>3, <3>4 DEF KeyFor, KeysOf
  <2>6. CASE KeysOf(Sender[c]) = {} \/ ~trusted[c]
    <3>1. frame'[c] = <<>>  BY <2>2, <2>4, <2>6
    <3>2. (KeysBefore(c) = {} \/ ~session[Sender[c]])'
      BY <1>1, <1>2, <2>1, <2>3, <2>4, <2>6
    <3> QED  BY <3>1, <3>2 DEF ReplyInv
  <2>7. CASE KeysOf(Sender[c]) # {} /\ trusted[c]
    <3>1. PICK i \in DOMAIN keys : KeyFor(c, i) /\ frame'[c] = NewestReply(Sender[c], keys[i])
      BY <2>2, <2>5, <2>7
    <3>2. i \in DOMAIN keys' /\ KeyFor(c, i)' /\ frame'[c] = NewestReply(Sender[c], keys'[i])
      BY <1>2, <2>1, <3>1
    <3> QED  BY <3>2 DEF ReplyInv
  <2> QED  BY <2>6, <2>7
<1>6. CASE ~Kept(c) /\ ~get_newest_chat_key(c)
  <2>1. stage'[c] # "replied"
    <3>1. Lost(c) => stage'[c] # "replied"  BY DEF Lost
    <3>2. UploadMessage(c) => stage'[c] # "replied"  BY <1>1, UploadMoves
    <3>3. ClientStep(c) => stage'[c] # "replied"
      BY <1>1, <3>2 DEF ClientStep, generate_chat_key, send_message, Goto
    <3>4. ServerStep(c) => stage'[c] # "replied"
      BY <1>1, <1>6 DEF ServerStep, Drop, DrawBegin, DrawEnd, SetChatKey, VerifyMessage,
             StampMessage, StoreMessage, Goto
    <3> QED  BY <1>6, <3>1, <3>3, <3>4, EachCall
  <2> QED  BY <2>1
<1> QED  BY <1>4, <1>5, <1>6

LEMMA UploadStep ==
    ASSUME TypeOK, [Next]_vars, NEW c \in Calls, CallInv(c), ReplyInv(c), UploadInv(c)
    PROVE  UploadInv(c)'
<1> SUFFICES ASSUME Kind[c] = "send", stage'[c] \in {"sent", "verified", "refused"}
             PROVE  \E i \in DOMAIN keys', t \in Nat :
                       KeyFor(c, i)' /\ Timely(c, t)' /\ frame'[c] = UploadOf(c, keys'[i], t)
  BY DEF UploadInv, UploadOf, Message, Plain
<1>1. Sender[c] \in Users /\ c \in DOMAIN stage /\ c \in DOMAIN frame
      /\ clock \in Nat /\ Skew[Sender[c]] \in Nat
  BY CallsAssumption, TimesAssumption DEF TypeOK
<1>2. /\ \A i \in DOMAIN keys : i \in DOMAIN keys' /\ keys'[i] = keys[i]
      /\ stage[c] # "idle" => \A i \in DOMAIN keys : KeyFor(c, i) => KeyFor(c, i)'
      /\ \A t : Timely(c, t) => Timely(c, t)'
  BY Steady, KeyForStays, TimelyStays DEF CallInv
<1>3. CASE stage[c] \in {"sent", "verified", "refused"} /\ frame'[c] = frame[c]
  <2>1. PICK i \in DOMAIN keys, t \in Nat :
           KeyFor(c, i) /\ Timely(c, t) /\ frame[c] = UploadOf(c, keys[i], t)
    BY <1>3 DEF UploadInv
  <2> QED  BY <1>2, <1>3, <2>1
<1>4. CASE UploadMessage(c)
  <2>1. /\ stage[c] = "replied" /\ keys' = keys /\ clock' = clock
        /\ KeyIn(c) # Throws
        /\ frame'[c] = Upload(c, extractDynamicLengthQueue(Sealing(c).rest).val, KeyIn(c))
    BY <1>1, <1>4, UploadMoves
  <2>2. frame[c] # <<>>  BY <2>1, EmptyReplyThrows DEF KeyIn, Sealing
  <2>3. PICK i \in DOMAIN keys : KeyFor(c, i) /\ frame[c] = NewestReply(Sender[c], keys[i])
    BY <2>1, <2>2 DEF ReplyInv
  <2>4. /\ KeyIn(c) = <<Text(keys[i].by)>>
        /\ extractDynamicLengthQueue(Sealing(c).rest).val = UuidBytes(keys[i].id)
    BY <2>3, ReplyOpens DEF KeyIn, Sealing
  <2> DEFINE t == clock + Skew[Sender[c]]
  <2>5. frame'[c] = UploadOf(c, keys[i], t)
    BY <2>1, <2>4 DEF Upload, encode_message, UploadOf, Message, Plain
  <2>6. t \in Nat /\ Timely(c, t)  BY <1>1 DEF Timely
  <2> HIDE DEF t
  <2> QED  BY <1>2, <2>1, <2>3, <2>5, <2>6
<1>5. CASE ~(stage[c] \in {"sent", "verified", "refused"} /\ frame'[c] = frame[c]) /\ ~UploadMessage(c)
  <2>1. ~Kept(c)  BY <1>5 DEF Kept
  <2>2. ~Lost(c)  BY DEF Lost
  <2>3. ~ClientStep(c)
    BY <1>1, <1>5 DEF ClientStep, generate_chat_key, send_message, Goto
  <2>4. ~ServerStep(c)
    BY <1>1, <1>5 DEF ServerStep, Drop, get_newest_chat_key, DrawBegin, DrawEnd, SetChatKey,
           VerifyMessage, StampMessage, StoreMessage, Goto
  <2> QED  BY <2>1, <2>2, <2>3, <2>4, EachCall
<1> QED  BY <1>3, <1>4, <1>5

LEMMA StampStep ==
    ASSUME TypeOK, [Next]_vars, NEW c \in Calls, CallInv(c), UploadInv(c), StampInv(c)
    PROVE  StampInv(c)'
<1> SUFFICES ASSUME Kind[c] = "send", stage'[c] \in {"stamped", "stored"}
             PROVE  \E i \in DOMAIN keys', t \in Nat, now \in Nat :
                       /\ KeyFor(c, i)' /\ Timely(c, t)'
                       /\ frame'[c] = StoredOf(c, keys'[i], t, now)
  BY DEF StampInv, StoredOf, Message, Plain
<1>1. Sender[c] \in Users /\ c \in DOMAIN stage /\ c \in DOMAIN frame /\ clock \in Nat
  BY CallsAssumption DEF TypeOK
<1>2. /\ \A i \in DOMAIN keys : i \in DOMAIN keys' /\ keys'[i] = keys[i]
      /\ stage[c] # "idle" => \A i \in DOMAIN keys : KeyFor(c, i) => KeyFor(c, i)'
      /\ \A t : Timely(c, t) => Timely(c, t)'
  BY Steady, KeyForStays, TimelyStays DEF CallInv
<1>3. CASE stage[c] \in {"stamped", "stored"} /\ frame'[c] = frame[c]
  <2>1. PICK i \in DOMAIN keys, t \in Nat, now \in Nat :
           KeyFor(c, i) /\ Timely(c, t) /\ frame[c] = StoredOf(c, keys[i], t, now)
    BY <1>3 DEF StampInv
  <2> QED  BY <1>2, <1>3, <2>1
<1>4. CASE StampMessage(c)
  <2>1. /\ stage[c] = "verified" /\ frame'[c] = StoredMessage(Sender[c], Signed(c), clock)
    BY <1>1, <1>4 DEF StampMessage
  <2>2. PICK i \in DOMAIN keys, t \in Nat :
           KeyFor(c, i) /\ Timely(c, t) /\ frame[c] = UploadOf(c, keys[i], t)
    BY <2>1 DEF UploadInv
  <2>3. Signed(c) = Message(c, keys[i], t)  BY <2>2, UploadOpens
  <2>4. frame'[c] = StoredOf(c, keys[i], t, clock)  BY <2>1, <2>3 DEF StoredOf
  <2> QED  BY <1>1, <1>2, <2>1, <2>2, <2>4
<1>5. CASE ~(stage[c] \in {"stamped", "stored"} /\ frame'[c] = frame[c]) /\ ~StampMessage(c)
  <2>1. ~Kept(c)  BY <1>5 DEF Kept
  <2>2. ~Lost(c)  BY DEF Lost
  <2>3. ~UploadMessage(c)  BY <1>1, UploadMoves
  <2>4. ~ClientStep(c)
    BY <1>1, <2>3 DEF ClientStep, generate_chat_key, send_message, Goto
  <2>5. ~ServerStep(c)
    BY <1>1, <1>5 DEF ServerStep, Drop, get_newest_chat_key, DrawBegin, DrawEnd, SetChatKey,
           VerifyMessage, StoreMessage, Goto, CallInv
  <2> QED  BY <2>1, <2>2, <2>4, <2>5, EachCall
<1> QED  BY <1>3, <1>4, <1>5

LEMMA EndStep ==
    ASSUME TypeOK, [Next]_vars, NEW c \in Calls, CallInv(c), ReplyInv(c), UploadInv(c), EndInv(c)
    PROVE  EndInv(c)'
<1>1. /\ Sender[c] \in Users /\ c \in DOMAIN stage
      /\ Kind[c] \in {"generate", "send"}
      /\ Skew[Sender[c]] \in Nat /\ Lower \in Nat /\ Upper \in Nat
      /\ clock \in Nat /\ clock' \in Nat /\ clock <= clock'
      /\ \A u \in Users : session'[u] => session[u]
  BY CallsAssumption, TimesAssumption, Steady DEF TypeOK
<1>2. stage[c] # "idle" => KeysBefore(c)' = KeysBefore(c)  BY KeyForStays DEF CallInv
<1>3. Kind[c] = "send" /\ stage[c] \in {"sent", "verified", "refused"} =>
         /\ SentAt(c) \in Nat /\ SentAt(c) <= clock + Skew[Sender[c]]
         /\ verify(Signed(c), Sender[c]).safe
  <2> SUFFICES ASSUME Kind[c] = "send", stage[c] \in {"sent", "verified", "refused"}
               PROVE  /\ SentAt(c) \in Nat /\ SentAt(c) <= clock + Skew[Sender[c]]
                      /\ verify(Signed(c), Sender[c]).safe
    OBVIOUS
  <2>1. PICK i \in DOMAIN keys, t \in Nat :
           KeyFor(c, i) /\ Timely(c, t) /\ frame[c] = UploadOf(c, keys[i], t)
    BY DEF UploadInv
  <2>2. SentAt(c) = t /\ verify(Signed(c), Sender[c]).safe  BY <2>1, UploadOpens
  <2> QED  BY <2>1, <2>2 DEF Timely
<1>4. frame'[c] = frame[c] => SentAt(c)' = SentAt(c)  BY DEF SentAt, Signed
<1>5. stage'[c] = "threw" => (KeysBefore(c) = {} \/ ~session[Sender[c]])'
  <2> SUFFICES ASSUME stage'[c] = "threw"
               PROVE  /\ stage[c] # "idle"
                      /\ KeysBefore(c) = {} \/ ~session[Sender[c]]
    BY <1>1, <1>2
  <2>1. CASE Kept(c)  BY <2>1 DEF Kept, EndInv
  <2>2. CASE UploadMessage(c)
    <3>1. stage[c] = "replied" /\ KeyIn(c) = Throws  BY <1>1, <2>2, UploadMoves
    <3>2. ASSUME NEW i \in DOMAIN keys, frame[c] = NewestReply(Sender[c], keys[i])
          PROVE  FALSE
      <4>1. KeyIn(c) = <<Text(keys[i].by)>>  BY <3>2, ReplyOpens DEF KeyIn, Sealing
      <4>2. keys[i].by \in Calls  BY KeysTyped
      <4> QED  BY <3>1, <4>1, <4>2, ThrowsAssumption
    <3> QED  BY <3>1, <3>2 DEF ReplyInv
  <2>3. ~Lost(c)  BY DEF Lost
  <2>4. ClientStep(c) => UploadMessage(c)
    BY <1>1 DEF ClientStep, generate_chat_key, send_message, Goto
  <2>5. ~ServerStep(c)
    BY <1>1 DEF ServerStep, Drop, get_newest_chat_key, DrawBegin, DrawEnd, SetChatKey,
           VerifyMessage, StampMessage, StoreMessage, Goto
  <2> QED  BY <2>1, <2>2, <2>3, <2>4, <2>5, EachCall
<1>6. stage'[c] = "refused" => (clock >= SentAt(c) + Lower \/ Skew[Sender[c]] >= Upper)'
  <2> SUFFICES ASSUME stage'[c] = "refused"
               PROVE  clock' >= SentAt(c)' + Lower \/ Skew[Sender[c]] >= Upper
    OBVIOUS
  <2>1. CASE Kept(c)
    <3>1. stage[c] = "refused" /\ frame'[c] = frame[c]  BY <2>1 DEF Kept
    <3>2. Kind[c] = "send"  BY <3>1 DEF CallInv
    <3> QED  BY <1>1, <1>3, <1>4, <3>1, <3>2 DEF EndInv
  <2>2. CASE VerifyMessage(c)
    <3>1. stage[c] = "sent" /\ Kind[c] = "send" /\ clock' = clock /\ frame'[c] = frame[c]
      BY <2>2 DEF VerifyMessage
    <3>2. ~in_window(SentAt(c))
      BY <1>1, <1>3, <2>2, <3>1 DEF VerifyMessage, Goto, SentAt
    <3> QED  BY <1>1, <1>3, <1>4, <3>1, <3>2 DEF in_window
  <2>3. ~Lost(c)  BY DEF Lost
  <2>4. ~UploadMessage(c)  BY <1>1, UploadMoves
  <2>5. ~ClientStep(c)
    BY <1>1, <2>4 DEF ClientStep, generate_chat_key, send_message, Goto
  <2>6. ServerStep(c) => VerifyMessage(c)
    BY <1>1 DEF ServerStep, Drop, get_newest_chat_key, DrawBegin, DrawEnd, SetChatKey,
           StampMessage, StoreMessage, Goto
  <2> QED  BY <2>1, <2>2, <2>3, <2>5, <2>6, EachCall
<1> QED  BY <1>5, <1>6 DEF EndInv
-----------------------------------------------------------------------------
(* The invariant, for the store: every call that was stored made one key or*)
(* one message, and the log holds the frames of the messages.              *)
KeysInv ==
    /\ \A i \in DOMAIN keys : Kind[keys[i].by] = "generate" /\ stage[keys[i].by] = "stored"
    /\ \A i, j \in DOMAIN keys : keys[i].by = keys[j].by => i = j

Stored == {c \in Sends : stage[c] = "stored"}
LogInv == /\ log \in Seq({frame[c] : c \in Stored})
          /\ \A m, n \in DOMAIN log : log[m] = log[n] => m = n

FramesInv == \A c \in Calls : CallInv(c) /\ FrameInv(c)

LEMMA KeysStep ==
    ASSUME TypeOK, [Next]_vars, FramesInv, KeysInv
    PROVE  KeysInv'
<1>1. \A c \in Calls : stage[c] = "stored" => stage'[c] = "stored"
  <2> SUFFICES ASSUME NEW c \in Calls, stage[c] = "stored" PROVE stage'[c] = "stored"
    OBVIOUS
  <2>1. ~Lost(c)  BY DEF Lost
  <2>2. ~UploadMessage(c)  BY UploadMoves
  <2>3. ~ClientStep(c) /\ ~ServerStep(c)
    BY <2>2 DEF ClientStep, generate_chat_key, send_message, MayCall, ServerStep, Drop,
           get_newest_chat_key, DrawBegin, DrawEnd, SetChatKey, VerifyMessage, StampMessage,
           StoreMessage
  <2> QED  BY <2>1, <2>3, EachCall DEF Kept
<1>2. CASE keys' = keys  BY <1>1, <1>2, KeysTyped DEF KeysInv
<1>3. ASSUME NEW c \in Calls, SetChatKey(c) PROVE KeysInv'
  <2>1. /\ stage[c] = "drawn" /\ stage'[c] = "stored"
        /\ keys' = Append(keys, [id |-> drawn[c], by |-> c])
    BY <1>3 DEF SetChatKey, Goto, TypeOK
  <2>2. Kind[c] = "generate"  BY <2>1 DEF FramesInv, CallInv
  <2>3. /\ DOMAIN keys' = 1 .. Len(keys) + 1 /\ keys'[Len(keys) + 1].by = c
        /\ \A i \in 1 .. Len(keys) : keys'[i] = keys[i]
    BY <2>1 DEF TypeOK
  <2>4. \A i \in DOMAIN keys : keys[i].by # c  BY <2>1 DEF KeysInv
  <2> QED  BY <1>1, <2>1, <2>2, <2>3, <2>4, KeysTyped DEF KeysInv
<1>4. keys' = keys \/ \E c \in Calls : SetChatKey(c)
  BY DEF Next, ClientStep, ServerStep, generate_chat_key, send_message, UploadMessage, Drop,
         get_newest_chat_key, DrawBegin, DrawEnd, VerifyMessage, StampMessage, StoreMessage,
         Reconnect, Tick, vars, storeVars
<1> QED  BY <1>2, <1>3, <1>4

(* What is stored is told apart by the call it was made for.               *)
LEMMA StoredDiffer ==
    ASSUME FramesInv, NEW c \in Calls, NEW d \in Calls,
           Kind[c] = "send", stage[c] \in {"stamped", "stored"},
           Kind[d] = "send", stage[d] \in {"stamped", "stored"}, frame[c] = frame[d]
    PROVE  c = d
<1>1. PICK i \in DOMAIN keys, t \in Nat, now \in Nat : frame[c] = StoredOf(c, keys[i], t, now)
  BY DEF FramesInv, FrameInv, StampInv
<1>2. PICK j \in DOMAIN keys, s \in Nat, then \in Nat : frame[d] = StoredOf(d, keys[j], s, then)
  BY DEF FramesInv, FrameInv, StampInv
<1>3. Sealed(frame[c]) = Aes(<<Text(c)>>, <<Text(keys[i].by)>>)  BY <1>1, StoredSealed
<1>4. Sealed(frame[d]) = Aes(<<Text(d)>>, <<Text(keys[j].by)>>)  BY <1>2, StoredSealed
<1>5. Sealed(frame[c]).aes = <<Text(c)>> /\ Sealed(frame[d]).aes = <<Text(d)>>
  BY <1>3, <1>4 DEF Aes
<1>6. <<Text(c)>>[1].text = c /\ <<Text(d)>>[1].text = d  BY DEF Text
<1> QED  BY <1>5, <1>6

LEMMA LogStep ==
    ASSUME TypeOK, [Next]_vars, FramesInv, LogInv
    PROVE  LogInv'
<1> DEFINE F == {frame[c] : c \in Stored}
<1>1. F \subseteq F'
  <2> SUFFICES ASSUME NEW c \in Stored PROVE c \in Stored' /\ frame'[c] = frame[c]
    OBVIOUS
  <2>0. c \in Calls /\ c \in Sends /\ stage[c] = "stored"  BY DEF Stored, Sends
  <2>1. ~Lost(c)  BY <2>0 DEF Lost
  <2>2. ~UploadMessage(c)  BY <2>0, UploadMoves
  <2>3. ~ClientStep(c) /\ ~ServerStep(c)
    BY <2>0, <2>2 DEF ClientStep, generate_chat_key, send_message, MayCall, ServerStep, Drop,
           get_newest_chat_key, DrawBegin, DrawEnd, SetChatKey, VerifyMessage, StampMessage,
           StoreMessage
  <2> QED  BY <2>0, <2>1, <2>3, EachCall DEF Kept, Stored
<1>2. CASE log' = log
  <2>1. log \in Seq(F)  BY DEF LogInv
  <2>2. log \in Seq(F')
    <3> HIDE DEF F
    <3> QED  BY <1>1, <2>1
  <2> QED  BY <1>2, <2>2 DEF LogInv
<1>3. ASSUME NEW c \in Calls, StoreMessage(c) PROVE LogInv'
  <2>1. /\ stage[c] = "stamped" /\ stage'[c] = "stored" /\ frame'[c] = frame[c]
        /\ log' = Append(log, frame[c])
    BY <1>3 DEF StoreMessage, Goto, TypeOK
  <2>2. Kind[c] = "send"  BY <2>1 DEF FramesInv, CallInv
  <2>3. frame[c] \in F'  BY <2>1, <2>2 DEF Stored, Sends
  <2>4. ~(frame[c] \in F)
    <3> SUFFICES ASSUME NEW d \in Stored, frame[c] = frame[d] PROVE FALSE
      OBVIOUS
    <3>1. d \in Calls /\ Kind[d] = "send" /\ stage[d] = "stored"  BY DEF Stored, Sends
    <3> QED  BY <2>1, <2>2, <3>1, StoredDiffer
  <2>5. log \in Seq(F) /\ log \in Seq(F')  BY <1>1 DEF LogInv
  <2> HIDE DEF F
  <2>6. log' \in Seq(F')  BY <2>1, <2>3, <2>5
  <2>7. \A n \in 1 .. Len(log) : log[n] # frame[c]  BY <2>4, <2>5
  <2>8. \A m, n \in DOMAIN log' : log'[m] = log'[n] => m = n
    BY <2>1, <2>5, <2>7 DEF LogInv
  <2> QED  BY <2>6, <2>8 DEF LogInv, F
<1>4. log' = log \/ \E c \in Calls : StoreMessage(c)
  BY DEF Next, ClientStep, ServerStep, generate_chat_key, send_message, UploadMessage, Drop,
         get_newest_chat_key, DrawBegin, DrawEnd, SetChatKey, VerifyMessage, StampMessage,
         Reconnect, Tick, vars, storeVars
<1> QED  BY <1>2, <1>3, <1>4
-----------------------------------------------------------------------------
(* Ids drawn one at a time are told apart: all of them are below the state *)
(* of the generator, which every draw leaves one higher.                   *)
IdsInv ==
    ~met =>
      /\ \A c \in Calls : stage[c] = "drawing" => drawn[c] = gen
      /\ \A c, d \in Calls : stage[c] = "drawing" /\ stage[d] = "drawing" => c = d
      /\ \A c \in Calls : stage[c] = "drawn" =>
            drawn[c] < gen /\ \A i \in DOMAIN keys : keys[i].id # drawn[c]
      /\ \A c, d \in Calls : stage[c] = "drawn" /\ stage[d] = "drawn" /\ drawn[c] = drawn[d]
                             => c = d
      /\ \A i \in DOMAIN keys : keys[i].id < gen
      /\ \A i, j \in DOMAIN keys : keys[i].id = keys[j].id => i = j

LEMMA IdsStep ==
    ASSUME TypeOK, [Next]_vars, IdsInv
    PROVE  IdsInv'
<1>1. /\ gen \in Nat /\ \A c \in Calls : drawn[c] \in Nat
      /\ DOMAIN stage = Calls /\ DOMAIN drawn = Calls
  BY DEF TypeOK
<1>2. ASSUME NEW c \in Calls, DrawBegin(c) PROVE IdsInv'
  <2>1. /\ stage' = [stage EXCEPT ![c] = "drawing"] /\ drawn' = [drawn EXCEPT ![c] = gen]
        /\ UNCHANGED <<gen, keys>> /\ stage[c] = "sent"
        /\ met' = (met \/ \E d \in Calls : stage[d] = "drawing")
    BY <1>2 DEF DrawBegin, Goto
  <2> SUFFICES ASSUME ~met' PROVE IdsInv'
    BY DEF IdsInv
  <2>2. ~met /\ \A d \in Calls : stage[d] # "drawing"  BY <2>1
  <2> QED  BY <1>1, <2>1, <2>2 DEF IdsInv
<1>3. ASSUME NEW c \in Calls, DrawEnd(c) PROVE IdsInv'
  <2>1. /\ stage' = [stage EXCEPT ![c] = "drawn"] /\ stage[c] = "drawing"
        /\ UNCHANGED <<drawn, keys, met>> /\ gen' = drawn[c] + 1
    BY <1>3 DEF DrawEnd, Goto
  <2> SUFFICES ASSUME ~met PROVE IdsInv'
    BY <2>1 DEF IdsInv
  <2>2. gen' = gen + 1 /\ drawn[c] = gen  BY <2>1 DEF IdsInv
  <2>3. \A i \in DOMAIN keys : keys[i].id \in Nat  BY KeysTyped
  <2> QED  BY <1>1, <2>1, <2>2, <2>3 DEF IdsInv
<1>4. ASSUME NEW c \in Calls, SetChatKey(c) PROVE IdsInv'
  <2>1. /\ stage' = [stage EXCEPT ![c] = "stored"] /\ stage[c] = "drawn"
        /\ UNCHANGED <<drawn, gen, met>> /\ keys' = Append(keys, [id |-> drawn[c], by |-> c])
    BY <1>4 DEF SetChatKey, Goto
  <2>2. /\ DOMAIN keys' = 1 .. Len(keys) + 1 /\ keys'[Len(keys) + 1].id = drawn[c]
        /\ \A i \in 1 .. Len(keys) : keys'[i] = keys[i]
    BY <2>1 DEF TypeOK
  <2> SUFFICES ASSUME ~met PROVE IdsInv'
    BY <2>1 DEF IdsInv
  <2>3. /\ drawn[c] < gen /\ \A i \in DOMAIN keys : keys[i].id # drawn[c]
        /\ \A d \in Calls : stage'[d] = "drawn" => d # c /\ stage[d] = "drawn"
    BY <1>1, <2>1 DEF IdsInv
  <2>4. \A i \in DOMAIN keys' : i \in DOMAIN keys \/ i = Len(keys) + 1  BY <2>2, KeysTyped
  <2>5. \A i \in DOMAIN keys' : keys'[i].id < gen
    BY <2>2, <2>3, <2>4, KeysTyped DEF IdsInv
  <2>6. \A i, j \in DOMAIN keys' : keys'[i].id = keys'[j].id => i = j
    BY <2>2, <2>3, <2>4, KeysTyped DEF IdsInv
  <2>7. \A d \in Calls : stage'[d] = "drawn" =>
           drawn[d] < gen /\ \A i \in DOMAIN keys' : keys'[i].id # drawn[d]
    BY <2>1, <2>2, <2>3, <2>4, KeysTyped DEF IdsInv
  <2>8. \A d \in Calls : stage'[d] = "drawing" => stage[d] = "drawing"  BY <1>1, <2>1
  <2> QED  BY <2>1, <2>3, <2>5, <2>6, <2>7, <2>8 DEF IdsInv
<1>5. CASE ~\E c \in Calls : DrawBegin(c) \/ DrawEnd(c) \/ SetChatKey(c)
  <2>1. UNCHANGED <<gen, keys, met>>
    BY <1>5 DEF Next, ClientStep, ServerStep, generate_chat_key, send_message, UploadMessage, Drop,
         get_newest_chat_key, VerifyMessage, StampMessage, StoreMessage,
         Reconnect, Tick, vars, storeVars
  <2>2. ASSUME NEW c \in Calls, stage'[c] \in {"drawing", "drawn"}
        PROVE  stage'[c] = stage[c] /\ drawn'[c] = drawn[c]
    <3>1. ~Lost(c)  BY <2>2 DEF Lost
    <3>2. ~UploadMessage(c)  BY <1>1, <2>2, UploadMoves
    <3>3. ~ClientStep(c)
      BY <1>1, <2>2, <3>2 DEF ClientStep, generate_chat_key, send_message, Goto
    <3>4. ~ServerStep(c)
      BY <1>1, <1>5, <2>2 DEF ServerStep, Drop, get_newest_chat_key, VerifyMessage, StampMessage,
             StoreMessage, Goto
    <3> QED  BY <3>1, <3>3, <3>4, EachCall DEF Kept
  <2> QED  BY <2>1, <2>2 DEF IdsInv
<1> QED  BY <1>2, <1>3, <1>4, <1>5

(* The times in the messages of one thread grow.                           *)
Uploaded == {"sent", "verified", "refused", "stamped", "stored"}
FrameTime(c) == IF stage[c] \in {"stamped", "stored"} THEN Opened(frame[c]).sent ELSE SentAt(c)
OrderInv == \A c \in Sends : \A d \in Earlier[c] \cap Sends :
                stage[c] \in Uploaded /\ stage[d] \in Uploaded => FrameTime(d) <= FrameTime(c)

LEMMA FrameTimely ==
    ASSUME FramesInv, NEW c \in Sends, stage[c] \in Uploaded
    PROVE  Timely(c, FrameTime(c))
<1>1. c \in Calls /\ Kind[c] = "send"  BY DEF Sends
<1>2. CASE stage[c] \in {"stamped", "stored"}
  <2>1. PICK i \in DOMAIN keys, t \in Nat, now \in Nat :
           Timely(c, t) /\ frame[c] = StoredOf(c, keys[i], t, now)
    BY <1>1, <1>2 DEF FramesInv, FrameInv, StampInv
  <2>2. Opened(StoredOf(c, keys[i], t, now)).sent = t  BY <1>1, StoredReads
  <2> QED  BY <1>2, <2>1, <2>2 DEF FrameTime
<1>3. CASE stage[c] \in {"sent", "verified", "refused"}
  <2>1. PICK i \in DOMAIN keys, t \in Nat :
           Timely(c, t) /\ frame[c] = UploadOf(c, keys[i], t)
    BY <1>1, <1>3 DEF FramesInv, FrameInv, UploadInv
  <2>2. SentAt(c) = t  BY <1>1, <2>1, UploadOpens
  <2> QED  BY <1>3, <2>1, <2>2 DEF FrameTime
<1> QED  BY <1>2, <1>3 DEF Uploaded

LEMMA FrameTimeStays ==
    ASSUME TypeOK, [Next]_vars, FramesInv, NEW c \in Sends,
           stage[c] \in Uploaded, stage'[c] \in Uploaded
    PROVE  FrameTime(c)' = FrameTime(c)
<1>1. c \in Calls /\ Kind[c] = "send" /\ c \in DOMAIN stage /\ c \in DOMAIN frame
      /\ clock \in Nat
  BY DEF Sends, TypeOK
<1>2. CASE StampMessage(c)
  <2>1. stage[c] = "verified" /\ stage'[c] = "stamped"
        /\ frame'[c] = StoredMessage(Sender[c], Signed(c), clock)
    BY <1>1, <1>2 DEF StampMessage, Goto
  <2>2. PICK i \in DOMAIN keys, t \in Nat : frame[c] = UploadOf(c, keys[i], t)
    BY <1>1, <2>1 DEF FramesInv, FrameInv, UploadInv
  <2>3. Signed(c) = Message(c, keys[i], t) /\ SentAt(c) = t  BY <1>1, <2>2, UploadOpens
  <2>4. frame'[c] = StoredOf(c, keys[i], t, clock)  BY <2>1, <2>3 DEF StoredOf
  <2>5. Opened(StoredOf(c, keys[i], t, clock)).sent = t  BY <1>1, StoredReads
  <2>6. Opened(frame[c])' = Opened(frame'[c])  BY DEF Opened
  <2>7. FrameTime(c)' = Opened(frame[c])'.sent  BY <2>1 DEF FrameTime
  <2>8. FrameTime(c) = SentAt(c)  BY <2>1 DEF FrameTime
  <2> QED  BY <2>3, <2>4, <2>5, <2>6, <2>7, <2>8
<1>3. CASE ~StampMessage(c)
  <2>1. frame'[c] = frame[c] /\ (stage'[c] \in {"stamped", "stored"} <=> stage[c] \in {"stamped", "stored"})
    <3>1. ~Lost(c)  BY DEF Lost, Uploaded
    <3>2. ~UploadMessage(c)  BY <1>1, UploadMoves DEF Uploaded
    <3>3. ~ClientStep(c)
      BY <1>1, <3>2 DEF ClientStep, generate_chat_key, send_message, MayCall, Uploaded
    <3>4. ServerStep(c) => VerifyMessage(c) \/ StoreMessage(c)
      BY <1>1, <1>3 DEF ServerStep, Drop, get_newest_chat_key, DrawBegin, DrawEnd, SetChatKey, Goto,
             Uploaded
    <3>5. VerifyMessage(c) \/ StoreMessage(c) =>
             /\ frame'[c] = frame[c]
             /\ (stage'[c] \in {"stamped", "stored"} <=> stage[c] \in {"stamped", "stored"})
      <4>1. VerifyMessage(c) => /\ frame'[c] = frame[c] /\ stage[c] = "sent"
                                /\ stage'[c] \in {"verified", "refused"}
        BY <1>1 DEF VerifyMessage, Goto
      <4>2. StoreMessage(c) => /\ frame'[c] = frame[c] /\ stage[c] = "stamped"
                               /\ stage'[c] = "stored"
        BY <1>1 DEF StoreMessage, Goto
      <4> QED  BY <4>1, <4>2
    <3>6. Kept(c) => /\ frame'[c] = frame[c]
                     /\ (stage'[c] \in {"stamped", "stored"} <=> stage[c] \in {"stamped", "stored"})
      BY DEF Kept
    <3> QED  BY <1>1, <3>1, <3>3, <3>4, <3>5, <3>6, EachCall
  <2>2. SentAt(c)' = SentAt(c)  BY <2>1 DEF SentAt, Signed
  <2>3. Opened(frame[c])' = Opened(frame[c])  BY <2>1 DEF Opened
  <2> QED  BY <2>1, <2>2, <2>3 DEF FrameTime
<1> QED  BY <1>2, <1>3

LEMMA UploadTime ==
    ASSUME TypeOK, [Next]_vars, FramesInv, NEW c \in Sends,
           ~(stage[c] \in Uploaded), stage'[c] \in Uploaded
    PROVE  /\ UploadMessage(c) /\ stage[c] = "replied"
           /\ FrameTime(c)' = clock + Skew[Sender[c]]
<1>1. c \in Calls /\ Kind[c] = "send" /\ c \in DOMAIN stage /\ c \in DOMAIN frame
      /\ clock \in Nat /\ Skew[Sender[c]] \in Nat
  BY CallsAssumption, TimesAssumption DEF Sends, TypeOK
<1>2. UploadMessage(c)
  <2>1. ~Lost(c)  BY DEF Lost, Uploaded
  <2>2. ~generate_chat_key(c) /\ ~send_message(c)
    BY <1>1 DEF generate_chat_key, send_message, Goto, Uploaded
  <2>3. ~ServerStep(c)
    BY <1>1 DEF ServerStep, Drop, get_newest_chat_key, DrawBegin, DrawEnd, SetChatKey,
           VerifyMessage, StampMessage, StoreMessage, Goto, Uploaded, FramesInv, CallInv
  <2> QED  BY <1>1, <2>1, <2>2, <2>3, EachCall DEF Kept, ClientStep
<1>3. /\ stage[c] = "replied" /\ stage'[c] = "sent" /\ keys' = keys /\ clock' = clock
      /\ KeyIn(c) # Throws
      /\ frame'[c] = Upload(c, extractDynamicLengthQueue(Sealing(c).rest).val, KeyIn(c))
  BY <1>1, <1>2, UploadMoves DEF Uploaded
<1>4. frame[c] # <<>>  BY <1>3, EmptyReplyThrows DEF KeyIn, Sealing
<1>5. PICK i \in DOMAIN keys : frame[c] = NewestReply(Sender[c], keys[i])
  BY <1>1, <1>3, <1>4 DEF FramesInv, FrameInv, ReplyInv
<1>6. /\ KeyIn(c) = <<Text(keys[i].by)>>
      /\ extractDynamicLengthQueue(Sealing(c).rest).val = UuidBytes(keys[i].id)
  BY <1>5, ReplyOpens DEF KeyIn, Sealing
<1> DEFINE t == clock + Skew[Sender[c]]
<1>7. t \in Nat  BY <1>1
<1>8. frame'[c] = UploadOf(c, keys[i], t)
  BY <1>3, <1>6 DEF Upload, encode_message, UploadOf, Message, Plain
<1>9. /\ extractDynamicLengthQueue(UploadOf(c, keys[i], t)).rest = Message(c, keys[i], t)
      /\ toSize_T(verify(Message(c, keys[i], t), Sender[c]).data).val = t
  BY <1>1, <1>7, UploadReads
<1>10. SentAt(c)' = t
  <2> HIDE DEF t
  <2> QED  BY <1>8, <1>9 DEF SentAt, Signed
<1> QED  BY <1>2, <1>3, <1>10 DEF FrameTime

LEMMA OrderStep ==
    ASSUME TypeOK, [Next]_vars, FramesInv, OrderInv
    PROVE  OrderInv'
<1> SUFFICES ASSUME NEW c \in Sends, NEW d \in Earlier[c] \cap Sends,
                    stage'[c] \in Uploaded, stage'[d] \in Uploaded
             PROVE  FrameTime(d)' <= FrameTime(c)'
  BY DEF OrderInv
<1>1. c \in Calls /\ d \in Calls /\ d \in Sends /\ Sender[d] = Sender[c] /\ d \in Earlier[c]
  BY CallsAssumption DEF Sends
<1>2. stage[c] # "idle" => Returned(d)  BY <1>1 DEF FramesInv, CallInv
<1>3. CASE stage[c] \in Uploaded /\ stage[d] \in Uploaded
  BY <1>1, <1>3, FrameTimeStays DEF OrderInv
<1>4. CASE stage[c] \in Uploaded /\ ~(stage[d] \in Uploaded)
  BY <1>1, <1>2, <1>4, UploadTime DEF Returned, Uploaded
<1>5. CASE ~(stage[c] \in Uploaded)
  <2>1. /\ UploadMessage(c) /\ stage[c] = "replied"
        /\ FrameTime(c)' = clock + Skew[Sender[c]]
    BY <1>5, UploadTime
  <2>2. d # c /\ stage[d] # "replied"  BY <1>2, <2>1 DEF Returned
  <2>3. stage[d] \in Uploaded  BY <1>1, <2>2, UploadTime
  <2>4. FrameTime(d)' = FrameTime(d) /\ Timely(d, FrameTime(d))
    BY <1>1, <2>3, FrameTimeStays, FrameTimely
  <2> QED  BY <1>1, <2>1, <2>4 DEF Timely
<1> QED  BY <1>3, <1>4, <1>5
-----------------------------------------------------------------------------
Inv == TypeOK /\ FramesInv /\ KeysInv /\ LogInv /\ IdsInv /\ OrderInv

LEMMA InvInit == Init => Inv
<1> SUFFICES ASSUME Init PROVE Inv
  OBVIOUS
<1>1. TypeOK  BY TypeInit
<1>2. \A c \in Calls : stage[c] = "idle" /\ floor[c] = 0  BY DEF Init
<1>3. keys = <<>> /\ log = <<>>  BY DEF Init
<1>4. FramesInv
  <2>1. Len(keys) = 0  BY <1>3
  <2> QED
    BY <1>2, <2>1 DEF FramesInv, CallInv, FrameInv, ReplyInv, UploadInv, StampInv, EndInv
<1>5. KeysInv /\ IdsInv  BY <1>2, <1>3 DEF KeysInv, IdsInv
<1>6. LogInv  BY <1>3 DEF LogInv
<1>7. OrderInv  BY <1>2 DEF OrderInv, Sends, Uploaded
<1> QED  BY <1>1, <1>4, <1>5, <1>6, <1>7 DEF Inv

LEMMA InvStep ==
    ASSUME Inv, [Next]_vars
    PROVE  Inv'
<1>1. TypeOK /\ FramesInv /\ KeysInv /\ LogInv /\ IdsInv /\ OrderInv  BY DEF Inv
<1>2. FramesInv'
  <2> SUFFICES ASSUME NEW c \in Calls PROVE CallInv(c)' /\ FrameInv(c)'
    BY DEF FramesInv
  <2>1. CallInv(c) /\ ReplyInv(c) /\ UploadInv(c) /\ StampInv(c) /\ EndInv(c)
    BY <1>1 DEF FramesInv, FrameInv
  <2>2. CallInv(c)'  BY <1>1, <2>1, CallStep
  <2>3. ReplyInv(c)'  BY <1>1, <2>1, ReplyStep
  <2>4. UploadInv(c)'  BY <1>1, <2>1, UploadStep
  <2>5. StampInv(c)'  BY <1>1, <2>1, StampStep
  <2>6. EndInv(c)'  BY <1>1, <2>1, EndStep
  <2> QED  BY <2>2, <2>3, <2>4, <2>5, <2>6 DEF FrameInv
<1>3. TypeOK'  BY <1>1, TypeStep
<1>4. KeysInv'  BY <1>1, KeysStep
<1>5. LogInv'  BY <1>1, LogStep
<1>6. IdsInv'  BY <1>1, IdsStep
<1>7. OrderInv'  BY <1>1, OrderStep
<1> QED  BY <1>2, <1>3, <1>4, <1>5, <1>6, <1>7 DEF Inv

LEMMA InvAlways == Spec => []Inv
<1>1. Inv /\ UNCHANGED vars => Inv'  BY InvStep
<1>2. Inv /\ [Next]_vars => Inv'  BY InvStep
<1> QED  BY InvInit, <1>2, PTL DEF Spec

(* What an entry of the log is.                                            *)
EntryOf(m, c, i) ==
    /\ m.safe /\ m.sender = Sender[c] /\ m.type = Type /\ m.sent = FrameTime(c)
    /\ m.id = UuidBytes(keys[i].id) /\ m.cipher = Cipher(c, keys[i].by)
    /\ PostOf(m) = c /\ SecretOf(m) = keys[i].by

LEMMA LogEntry ==
    ASSUME Inv, NEW n \in DOMAIN log
    PROVE  \E c \in Sends : \E i \in DOMAIN keys :
              /\ stage[c] = "stored" /\ log[n] = frame[c] /\ KeyFor(c, i)
              /\ EntryOf(Opened(log[n]), c, i)
<1>1. log \in Seq({frame[c] : c \in Stored})  BY DEF Inv, LogInv
<1>2. n \in 1 .. Len(log)  BY <1>1
<1>3. log[n] \in {frame[c] : c \in Stored}  BY <1>1, <1>2, ElementOfSeq
<1>4. PICK c \in Stored : log[n] = frame[c]  BY <1>3
<1>5. c \in Sends /\ c \in Calls /\ Kind[c] = "send" /\ stage[c] = "stored"
  BY DEF Stored, Sends
<1>6. PICK i \in DOMAIN keys, t \in Nat, now \in Nat :
         KeyFor(c, i) /\ frame[c] = StoredOf(c, keys[i], t, now)
  BY <1>5 DEF Inv, FramesInv, FrameInv, StampInv
<1> DEFINE k == keys[i]
           m == Opened(StoredOf(c, k, t, now))
<1> HIDE DEF k
<1>7. m.safe /\ m.sender = Sender[c] /\ m.type = Type /\ m.sent = t
  BY <1>5, StoredReads
<1>8. m.id = UuidBytes(k.id) /\ m.cipher = Cipher(c, k.by)  BY <1>5, StoredSecret
<1>9. Opened(log[n]) = m  BY <1>4, <1>6 DEF k
<1>10. m.sent = FrameTime(c)  BY <1>4, <1>5, <1>9 DEF FrameTime
<1> HIDE DEF m
<1>11. PostOf(m) = c /\ SecretOf(m) = k.by  BY <1>8, CipherParts DEF PostOf, SecretOf
<1>12. EntryOf(m, c, i)  BY <1>7, <1>8, <1>10, <1>11 DEF EntryOf, k
<1> QED  BY <1>4, <1>5, <1>6, <1>9, <1>12

(* A stored message is one its sender sent, stored once, sealed with a key *)
(* that was made for her: the way from send_message to the log of the      *)
(* server neither changes nor repeats anything (encode_message, verify,    *)
(* add_message).                                                           *)
THEOREM StoredAsSentAlways == Spec => []StoredAsSent
<1>1. ASSUME Inv PROVE StoredAsSent
  <2>1. ASSUME NEW n \in DOMAIN log
        PROVE  \E c \in Sends, g \in Generates :
                 /\ Opened(log[n]).safe /\ Opened(log[n]).sender = Sender[c]
                 /\ Opened(log[n]).type = Type
                 /\ Opened(log[n]).cipher = encrypt(<<Text(c)>>, <<Text(g)>>)
                 /\ Sender[c] \in Members[g]
    <3>1. PICK c \in Sends : \E i \in DOMAIN keys :
             KeyFor(c, i) /\ EntryOf(Opened(log[n]), c, i)
      BY <1>1, <2>1, LogEntry
    <3>2. PICK i \in DOMAIN keys : KeyFor(c, i) /\ EntryOf(Opened(log[n]), c, i)  BY <3>1
    <3>3. keys[i].by \in Generates /\ Sender[c] \in Members[keys[i].by]
      BY <1>1, <3>2, KeysTyped DEF Inv, KeysInv, Generates, KeyFor
    <3>4. Opened(log[n]).cipher = encrypt(<<Text(c)>>, <<Text(keys[i].by)>>)
      BY <3>2 DEF EntryOf, Cipher
    <3> QED  BY <3>2, <3>3, <3>4 DEF EntryOf
  <2>2. ASSUME NEW m \in DOMAIN log, NEW n \in DOMAIN log,
               PostOf(Opened(log[m])) = PostOf(Opened(log[n]))
        PROVE  m = n
    <3>1. \E c \in Sends : log[m] = frame[c] /\ PostOf(Opened(log[m])) = c
      BY <1>1, LogEntry DEF EntryOf
    <3>2. \E c \in Sends : log[n] = frame[c] /\ PostOf(Opened(log[n])) = c
      BY <1>1, LogEntry DEF EntryOf
    <3>3. log[m] = log[n]  BY <2>2, <3>1, <3>2
    <3> QED  BY <1>1, <3>3 DEF Inv, LogInv
  <2> QED  BY <2>1, <2>2 DEF StoredAsSent, Entries
<1> QED  BY <1>1, InvAlways, PTL

(* Whom the key of a stored message was made for gets it under the id in   *)
(* the message, and no other key has that id, unless two ids were drawn at *)
(* once (set_chat_key, uuid).                                              *)
THEOREM MembersReadAlways == Spec => []MembersRead
<1>1. ASSUME Inv PROVE MembersRead
  <2> SUFFICES ASSUME NEW n \in DOMAIN log
               PROVE  \E i \in DOMAIN keys :
                         /\ keys[i].by = SecretOf(Opened(log[n]))
                         /\ Opened(log[n]).id = UuidBytes(keys[i].id)
                         /\ \A j \in DOMAIN keys : keys[j].id = keys[i].id => i = j \/ met
    BY DEF MembersRead, Entries
  <2>1. PICK i \in DOMAIN keys : /\ Opened(log[n]).id = UuidBytes(keys[i].id)
                                /\ SecretOf(Opened(log[n])) = keys[i].by
    BY <1>1, LogEntry DEF EntryOf
  <2>2. \A j \in DOMAIN keys : keys[j].id = keys[i].id => i = j \/ met
    BY <1>1 DEF Inv, IdsInv
  <2> QED  BY <2>1, <2>2
<1> QED  BY <1>1, InvAlways, PTL

(* No message is sealed with a key older than one its sender had when she  *)
(* called send_message (get_newest_chat_key of both sides).                *)
THEOREM NoStaleKeyAlways == Spec => []NoStaleKey
<1>1. ASSUME Inv PROVE NoStaleKey
  <2> SUFFICES ASSUME NEW n \in DOMAIN log, NEW i \in DOMAIN keys,
                      keys[i].by = SecretOf(Opened(log[n])),
                      NEW j \in KeysBefore(PostOf(Opened(log[n])))
               PROVE  j <= i
    BY DEF NoStaleKey, Entries
  <2>1. PICK c \in Sends : \E l \in DOMAIN keys :
           KeyFor(c, l) /\ EntryOf(Opened(log[n]), c, l)
    BY <1>1, LogEntry
  <2>2. PICK l \in DOMAIN keys : KeyFor(c, l) /\ EntryOf(Opened(log[n]), c, l)  BY <2>1
  <2>3. l = i  BY <1>1, <2>2 DEF EntryOf, Inv, KeysInv
  <2> QED  BY <2>2, <2>3 DEF EntryOf, KeyFor
<1> QED  BY <1>1, InvAlways, PTL

(* send_message throws only for want of a key or a connection; add_message *)
(* refuses only what comes too late or from too far ahead.                 *)
THEOREM FailureExplainedAlways == Spec => []FailureExplained
<1>1. ASSUME Inv PROVE FailureExplained
  BY <1>1 DEF Inv, FramesInv, FrameInv, EndInv, FailureExplained
<1> QED  BY <1>1, InvAlways, PTL

(* The times in the messages of one thread put them in the order they were *)
(* sent in, whatever order they were stored in (one task for each frame).  *)
THEOREM SendTimesKeepOrderAlways == Spec => []SendTimesKeepOrder
<1>1. ASSUME Inv PROVE SendTimesKeepOrder
  <2> SUFFICES ASSUME NEW m \in DOMAIN log, NEW n \in DOMAIN log,
                      PostOf(Opened(log[m])) \in Earlier[PostOf(Opened(log[n]))]
               PROVE  Opened(log[m]).sent <= Opened(log[n]).sent
    BY DEF SendTimesKeepOrder, Entries
  <2>1. PICK d \in Sends : /\ stage[d] = "stored" /\ PostOf(Opened(log[m])) = d
                          /\ Opened(log[m]).sent = FrameTime(d)
    BY <1>1, LogEntry DEF EntryOf
  <2>2. PICK c \in Sends : /\ stage[c] = "stored" /\ PostOf(Opened(log[n])) = c
                          /\ Opened(log[n]).sent = FrameTime(c)
    BY <1>1, LogEntry DEF EntryOf
  <2> QED  BY <1>1, <2>1, <2>2 DEF Inv, OrderInv, Uploaded
<1> QED  BY <1>1, InvAlways, PTL
-----------------------------------------------------------------------------
(* The refinement.                                                         *)
LEMMA SealedParts ==
    ASSUME FramesInv, NEW c \in Calls, Kind[c] = "send", stage[c] \in {"stamped", "stored"}
    PROVE  \E i \in DOMAIN keys :
              /\ Sender[c] \in Members[keys[i].by]
              /\ Sealed(frame[c]).aes[1].text = c /\ Sealed(frame[c]).key[1].text = keys[i].by
<1>1. PICK i \in DOMAIN keys, t \in Nat, now \in Nat :
         KeyFor(c, i) /\ frame[c] = StoredOf(c, keys[i], t, now)
  BY DEF FramesInv, FrameInv, StampInv
<1>2. Sealed(frame[c]) = Aes(<<Text(c)>>, <<Text(keys[i].by)>>)  BY <1>1, StoredSealed
<1>3. Sealed(frame[c]).aes = <<Text(c)>> /\ Sealed(frame[c]).key = <<Text(keys[i].by)>>
  BY <1>2 DEF Aes
<1>4. <<Text(c)>>[1].text = c /\ <<Text(keys[i].by)>>[1].text = keys[i].by  BY DEF Text
<1> QED  BY <1>1, <1>3, <1>4 DEF KeyFor

LEMMA AppendIs ==
    ASSUME NEW S, NEW s \in Seq(S), NEW e \in S, NEW n, Len(s) = n,
           NEW t, t = [i \in 1 .. n + 1 |-> IF i <= n THEN s[i] ELSE e]
    PROVE  t = Append(s, e)
<1>1. n \in Nat /\ DOMAIN s = 1 .. n  OBVIOUS
<1>2. \A i \in 1 .. n : s[i] \in S  BY <1>1
<1>3. Append(s, e) = [i \in 1 .. n + 1 |-> IF i <= n THEN s[i] ELSE e]
  <2>1. /\ Append(s, e) \in Seq(S) /\ Len(Append(s, e)) = n + 1
        /\ \A i \in 1 .. n : Append(s, e)[i] = s[i]
        /\ Append(s, e)[n + 1] = e
    BY AppendProperties
  <2>2. t \in Seq(S) /\ Len(t) = n + 1
    BY <1>1, <1>2
  <2>3. \A i \in 1 .. n + 1 : t[i] = Append(s, e)[i]
    BY <1>1, <2>1
  <2> QED  BY <2>1, <2>2, <2>3, SeqEqual
<1> QED  BY <1>3

LEMMA LogRefines ==
    ASSUME Inv, [Next]_vars
    PROVE  [Log!Next]_(Log!vars)
<1>1. TypeOK /\ FramesInv /\ KeysInv /\ LogInv  BY DEF Inv
<1>2. /\ DOMAIN keys = 1 .. Len(keys) /\ Len(keys) \in Nat
      /\ \A i \in DOMAIN keys : keys[i].by \in Calls
  BY <1>1, KeysTyped
<1>3. log \in Seq({frame[c] : c \in Stored}) /\ DOMAIN log = 1 .. Len(log) /\ Len(log) \in Nat
  BY <1>1 DEF LogInv
<1>4. ASSUME NEW c \in Calls, SetChatKey(c) PROVE Log!Next
  <2>1. /\ stage[c] = "drawn" /\ log' = log
        /\ keys' = Append(keys, [id |-> drawn[c], by |-> c])
    BY <1>4 DEF SetChatKey
  <2>2. c \in Generates  BY <1>1, <2>1 DEF FramesInv, CallInv, Generates
  <2>3. /\ DOMAIN keys' = 1 .. Len(keys) + 1 /\ keys'[Len(keys) + 1].by = c
        /\ \A i \in 1 .. Len(keys) : keys'[i] = keys[i]
    BY <1>1, <2>1 DEF TypeOK
  <2>4. KeysSeen \in Seq(Calls) /\ Len(KeysSeen) = Len(keys)
    BY <1>2 DEF KeysSeen
  <2>5. KeysSeen' = Append(KeysSeen, c)
    <3>1. KeysSeen' = [i \in 1 .. Len(keys) + 1 |-> IF i <= Len(keys) THEN KeysSeen[i] ELSE c]
      BY <1>2, <2>3 DEF KeysSeen
    <3>2. c \in Calls /\ Len(keys) \in Nat  BY <1>2
    <3> QED  BY <2>4, <3>1, <3>2, AppendIs
  <2>6. ~(c \in Range(KeysSeen))
    BY <1>1, <2>1 DEF Range, KeysSeen, KeysInv
  <2>7. Log!AddKey(c)
    <3>1. Log!AddKey(c) <=> /\ ~(c \in Range(KeysSeen))
                            /\ KeysSeen' = Append(KeysSeen, c) /\ PostsSeen' = PostsSeen
      BY DEF Log!AddKey, Log!Range, Range
    <3>2. PostsSeen' = PostsSeen  BY <2>1 DEF PostsSeen
    <3> QED  BY <2>5, <2>6, <3>1, <3>2
  <2> QED  BY <2>2, <2>7 DEF Log!Next
<1>5. ASSUME NEW c \in Calls, StoreMessage(c) PROVE Log!Next
  <2>1. stage[c] = "stamped" /\ keys' = keys /\ log' = Append(log, frame[c])
    BY <1>5 DEF StoreMessage
  <2>2. Kind[c] = "send" /\ c \in Sends  BY <1>1, <2>1 DEF FramesInv, CallInv, Sends
  <2>3. PICK i \in DOMAIN keys :
           /\ Sender[c] \in Members[keys[i].by]
           /\ Sealed(frame[c]).aes[1].text = c /\ Sealed(frame[c]).key[1].text = keys[i].by
    BY <1>1, <2>1, <2>2, SealedParts
  <2> DEFINE g == keys[i].by
             S == {Sealed(log[n]).aes[1].text : n \in DOMAIN log} \cup {c}
             T == {Sealed(log[n]).key[1].text : n \in DOMAIN log} \cup {g}
  <2>4. /\ DOMAIN log' = 1 .. Len(log) + 1 /\ log'[Len(log) + 1] = frame[c]
        /\ \A n \in 1 .. Len(log) : log'[n] = log[n]
    <3> DEFINE F == {frame[d] : d \in Stored} \cup {frame[c]}
    <3>1. log \in Seq(F) /\ frame[c] \in F  BY <1>3
    <3> HIDE DEF F
    <3> QED  BY <2>1, <3>1
  <2>5. PostsSeen \in Seq([post : S, under : T]) /\ Len(PostsSeen) = Len(log)
    BY <1>3 DEF PostsSeen
  <2>6. PostsSeen' = Append(PostsSeen, [post |-> c, under |-> g])
    <3>1. PostsSeen' = [n \in 1 .. Len(log) + 1 |->
                          IF n <= Len(log) THEN PostsSeen[n] ELSE [post |-> c, under |-> g]]
      BY <1>3, <2>3, <2>4 DEF PostsSeen
    <3>2. [post |-> c, under |-> g] \in [post : S, under : T]  OBVIOUS
    <3> HIDE DEF S, T, g
    <3> QED  BY <1>3, <2>5, <3>1, <3>2
  <2>7. \A n \in DOMAIN PostsSeen : PostsSeen[n].post # c
    <3> SUFFICES ASSUME NEW n \in DOMAIN log PROVE Sealed(log[n]).aes[1].text # c
      BY DEF PostsSeen
    <3>1. log[n] \in {frame[d] : d \in Stored}  BY <1>3, ElementOfSeq
    <3>2. PICK d \in Stored : log[n] = frame[d]  BY <3>1
    <3>3. d \in Calls /\ Kind[d] = "send" /\ stage[d] = "stored"  BY DEF Stored, Sends
    <3>4. Sealed(frame[d]).aes[1].text = d  BY <1>1, <3>3, SealedParts
    <3> QED  BY <2>1, <3>2, <3>3, <3>4
  <2>8. g \in Generates /\ g \in Range(KeysSeen) /\ Sender[c] \in Members[g]
    BY <1>1, <1>2, <2>3 DEF Range, KeysSeen, KeysInv, Generates
  <2>9. KeysSeen' = KeysSeen  BY <2>1 DEF KeysSeen
  <2>10. Log!Post(c, g)
    <3> HIDE DEF g
    <3>1. Log!Post(c, g) <=> /\ g \in Range(KeysSeen) /\ Sender[c] \in Members[g]
                             /\ \A n \in DOMAIN PostsSeen : PostsSeen[n].post # c
                             /\ PostsSeen' = Append(PostsSeen, [post |-> c, under |-> g])
                             /\ KeysSeen' = KeysSeen
      BY DEF Log!Post, Log!Range, Range
    <3> QED  BY <2>6, <2>7, <2>8, <2>9, <3>1
  <2> QED  BY <2>2, <2>8, <2>10 DEF Log!Next
<1>6. CASE ~\E c \in Calls : SetChatKey(c) \/ StoreMessage(c)
  <2>1. keys' = keys /\ log' = log
    BY <1>6 DEF Next, ClientStep, ServerStep, generate_chat_key, send_message, UploadMessage, Drop,
         get_newest_chat_key, DrawBegin, DrawEnd, VerifyMessage, StampMessage,
         Reconnect, Tick, vars, storeVars
  <2> QED  BY <2>1 DEF Log!vars, KeysSeen, PostsSeen
<1> QED  BY <1>4, <1>5, <1>6

(* The server implements the chat its users see: it adds keys and posts,   *)
(* each post once, under a key of its author, and never loses any          *)
(* (set_chat_key, add_message).                                            *)
THEOREM KeepsLogAlways == Spec => KeepsLog
<1>1. Init => Log!Init
  <2> SUFFICES ASSUME Init PROVE Log!Init
    OBVIOUS
  <2>1. keys = <<>> /\ log = <<>>  BY DEF Init
  <2>2. DOMAIN keys = {} /\ DOMAIN log = {}  BY <2>1
  <2>3. KeysSeen = <<>> /\ PostsSeen = <<>>  BY <2>2 DEF KeysSeen, PostsSeen
  <2> QED  BY <2>3 DEF Log!Init, KeysSeen, PostsSeen
<1>2. Inv /\ [Next]_vars => [Log!Next]_(Log!vars)  BY LogRefines
<1> QED  BY <1>1, <1>2, InvAlways, PTL DEF Spec, KeepsLog, Log!Spec
=============================================================================
