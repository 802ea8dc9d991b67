-------------------------- MODULE WireFormatProofs --------------------------
(***************************************************************************)
(* What the formats of WireFormat give back, for strings of any length and *)
(* contents: strings, pairs, signed blocks and messages are read as they   *)
(* were written.                                                           *)
(***************************************************************************)
EXTENDS WireFormat, TLAPS, SequenceTheorems

LEMMA ConcatParts ==
    ASSUME NEW S, NEW q \in Seq(S), NEW r \in Seq(S)
    PROVE  /\ q \o r \in Seq(S) /\ Len(q \o r) = Len(q) + Len(r)
           /\ SubSeq(q \o r, 1, Len(q)) = q
           /\ SubSeq(q \o r, Len(q) + 1, Len(q \o r)) = r
  OBVIOUS

LEMMA Associative ==
    ASSUME NEW S, NEW p \in Seq(S), NEW q \in Seq(S), NEW r \in Seq(S)
    PROVE  (p \o q) \o r = p \o (q \o r)
  OBVIOUS

LEMMA AppendOne ==
    ASSUME NEW S, NEW q \in Seq(S), NEW e \in S
    PROVE  q \o <<e>> = Append(q, e)
<1>1. <<e>> \in Seq(S) /\ Len(<<e>>) = 1 /\ <<e>>[1] = e  OBVIOUS
<1>2. /\ q \o <<e>> \in Seq(S) /\ Append(q, e) \in Seq(S)
      /\ Len(q \o <<e>>) = Len(q) + 1 /\ Len(Append(q, e)) = Len(q) + 1
  BY <1>1, ConcatProperties
<1>3. \A i \in 1 .. Len(q \o <<e>>) : (q \o <<e>>)[i] = Append(q, e)[i]
  BY <1>1, <1>2, ConcatProperties
<1> QED  BY <1>2, <1>3, SeqEqual

LEMMA TwoAtoms ==
    ASSUME NEW S, NEW a \in S, NEW b \in S
    PROVE  <<a>> \o <<b>> = <<a, b>>
<1>1. <<a, b>> = Append(<<a>>, b)  OBVIOUS
<1>2. <<a>> \in Seq(S)  OBVIOUS
<1> QED  BY <1>1, <1>2, AppendOne

(* A number, and a byte, is taken off the queue it leads.                  *)
LEMMA NumberReadsBack ==
    ASSUME NEW S, NEW n \in Nat, NEW r \in Seq(S)
    PROVE  toSize_T(<<Num(n)>> \o r) = Read(n, r)
<1> DEFINE T == S \cup {Num(n)}  q == <<Num(n)>> \o r
<1>1. r \in Seq(T) /\ <<Num(n)>> \in Seq(T)  OBVIOUS
<1> HIDE DEF T
<1>2. q # <<>> /\ Head(q) = Num(n) /\ Tail(q) = r  BY <1>1
<1>3. "num" \in DOMAIN Num(n) /\ Num(n).num = n  BY DEF Num
<1> HIDE DEF q
<1>4. toSize_T(q) = Read(n, r)  BY <1>2, <1>3 DEF toSize_T
<1> QED  BY <1>4 DEF q

LEMMA ByteReadsBack ==
    ASSUME NEW S, NEW b, NEW r \in Seq(S)
    PROVE  extreactByte(<<Byte(b)>> \o r) = Read(b, r)
<1> DEFINE T == S \cup {Byte(b)}  q == <<Byte(b)>> \o r
<1>1. r \in Seq(T) /\ <<Byte(b)>> \in Seq(T)  OBVIOUS
<1> HIDE DEF T
<1>2. q # <<>> /\ Head(q) = Byte(b) /\ Tail(q) = r  BY <1>1
<1>3. "byte" \in DOMAIN Byte(b) /\ Byte(b).byte = b  BY DEF Byte
<1> HIDE DEF q
<1>4. extreactByte(q) = Read(b, r)  BY <1>2, <1>3 DEF extreactByte
<1> QED  BY <1>4 DEF q

LEMMA PrefixReadsBack ==
    ASSUME NEW S, NEW q \in Seq(S), NEW r \in Seq(S)
    PROVE  extractConstantLengthQueue(q \o r, Len(q)) = Read(q, r)
<1>1. Len(q) \in Nat /\ Len(r) \in Nat  OBVIOUS
<1>2. Len(q) <= Len(q \o r)  BY <1>1, ConcatParts
<1>3. /\ SubSeq(q \o r, 1, Len(q)) = q
      /\ SubSeq(q \o r, Len(q) + 1, Len(q \o r)) = r
  BY ConcatParts
<1> QED  BY <1>2, <1>3 DEF extractConstantLengthQueue

(* A string is read as it was written, whatever follows it.                *)
THEOREM BlockReadsBack ==
    ASSUME NEW S, NEW q \in Seq(S), NEW r \in Seq(S)
    PROVE  extractDynamicLengthQueue(Block(q) \o r) = Read(q, r)
<1> DEFINE T == S \cup {Num(Len(q))}
<1>1. Len(q) \in Nat /\ q \o r \in Seq(S)  OBVIOUS
<1>2. q \in Seq(T) /\ r \in Seq(T) /\ <<Num(Len(q))>> \in Seq(T)  OBVIOUS
<1> HIDE DEF T
<1>3. Block(q) \o r = <<Num(Len(q))>> \o (q \o r)  BY <1>2 DEF Block
<1>4. toSize_T(Block(q) \o r) = Read(Len(q), q \o r)
  BY <1>1, <1>3, NumberReadsBack
<1>5. Read(Len(q), q \o r).rest = q \o r /\ Read(Len(q), q \o r).val = Len(q)
  BY DEF Read
<1>6. extractConstantLengthQueue(q \o r, Len(q)) = Read(q, r)  BY PrefixReadsBack
<1> QED  BY <1>4, <1>5, <1>6 DEF extractDynamicLengthQueue

(* So are two strings, and a string that ends the queue.                   *)
LEMMA LastBlockReadsBack ==
    ASSUME NEW S, NEW q \in Seq(S)
    PROVE  extractDynamicLengthQueue(Block(q)) = Read(q, <<>>)
<1>1. <<>> \in Seq(S)  OBVIOUS
<1>2. Block(q) \o <<>> = Block(q)
  <2> DEFINE T == S \cup {Num(Len(q))}
  <2>1. q \in Seq(T) /\ <<Num(Len(q))>> \in Seq(T)  OBVIOUS
  <2> HIDE DEF T
  <2> QED  BY <2>1 DEF Block
<1> QED  BY <1>1, <1>2, BlockReadsBack

THEOREM PairReadsBack ==
    ASSUME NEW S, NEW p \in Seq(S), NEW q \in Seq(S), NEW r \in Seq(S)
    PROVE  toStringQueuePair(Pair(Block(p), Block(q)) \o r) = Read(<<p, q>>, r)
<1> DEFINE T == S \cup {Num(Len(p)), Num(Len(q))}
           tail == Block(q) \o r
<1>1. /\ p \in Seq(T) /\ q \in Seq(T) /\ r \in Seq(T)
      /\ <<Num(Len(p))>> \in Seq(T) /\ <<Num(Len(q))>> \in Seq(T)
  OBVIOUS
<1> HIDE DEF T
<1>2. /\ Block(p) \in Seq(T) /\ Block(q) \in Seq(T) /\ tail \in Seq(T)
  BY <1>1 DEF Block
<1>3. Pair(Block(p), Block(q)) \o r = Block(p) \o tail  BY <1>1, <1>2 DEF Pair
<1>4. extractDynamicLengthQueue(Block(p) \o tail) = Read(p, tail)
  BY <1>1, <1>2, BlockReadsBack
<1>5. extractDynamicLengthQueue(tail) = Read(q, r)  BY BlockReadsBack
<1>6. Read(p, tail).rest = tail /\ Read(p, tail).val = p
      /\ Read(q, r).rest = r /\ Read(q, r).val = q
  BY DEF Read
<1> HIDE DEF tail
<1> QED  BY <1>3, <1>4, <1>5, <1>6 DEF toStringQueuePair, toPair

(* What was signed verifies with the key of the signer, only with it, and  *)
(* leaves the data.                                                        *)
THEOREM SignedVerifies ==
    ASSUME NEW S, NEW q \in Seq(S), NEW key, NEW other
    PROVE  /\ verify(sign(q, key), other).safe <=> key = other
           /\ verify(sign(q, key), other).data = q
<1> DEFINE T == S \cup {Signature(q, key)}  s == <<Signature(q, key)>>
<1>1. q \in Seq(T) /\ s \in Seq(T)  OBVIOUS
<1> HIDE DEF T
<1>2. extractDynamicLengthQueue(Block(s) \o q) = Read(s, q)  BY <1>1, BlockReadsBack
<1>3. Read(s, q).val = s /\ Read(s, q).rest = q  BY DEF Read
<1>4. s = <<Signature(q, other)>> <=> key = other
  <2>1. s = <<Signature(q, other)>> => Signature(q, key) = Signature(q, other)  OBVIOUS
  <2>2. Signature(q, key).by = key /\ Signature(q, other).by = other  BY DEF Signature
  <2> QED  BY <2>1, <2>2
<1>5. sign(q, key) = Block(s) \o q  BY DEF sign
<1> HIDE DEF s
<1> QED  BY <1>2, <1>3, <1>4, <1>5 DEF verify
-----------------------------------------------------------------------------
(* Messages.  The signed block of a message has four atoms: the time, the  *)
(* type, the id of the key and the sealed text.                            *)
LEMMA SignedBlockParts ==
    ASSUME NEW text, NEW type, NEW n, NEW key, NEW sent
    PROVE  LET atoms == {Num(sent), Byte(type), Uuid(n), Aes(text, key)}
               block == buildSignedMessageBlock(text, type, <<Uuid(n)>>, key, sent)
               rest == <<Uuid(n)>> \o encrypt(text, key)
           IN  /\ rest \in Seq(atoms) /\ <<Byte(type)>> \o rest \in Seq(atoms)
               /\ block \in Seq(atoms)
               /\ block = <<Num(sent)>> \o (<<Byte(type)>> \o rest)
               /\ block = <<Num(sent), Byte(type), Uuid(n), Aes(text, key)>>
<1> DEFINE a == Num(sent)  b == Byte(type)  c == Uuid(n)  d == Aes(text, key)
           T == {a, b, c, d}
<1>1. a \in T /\ b \in T /\ c \in T /\ d \in T  OBVIOUS
<1> HIDE DEF T, a, b, c, d
<1>2. <<a>> \in Seq(T) /\ <<b>> \in Seq(T) /\ <<c>> \in Seq(T) /\ <<d>> \in Seq(T)
      /\ <<a, b>> \in Seq(T) /\ <<a, b, c>> \in Seq(T)
  BY <1>1
<1>3. /\ <<c>> \o <<d>> \in Seq(T) /\ <<b>> \o (<<c>> \o <<d>>) \in Seq(T)
      /\ (<<a, b>> \o <<c>>) \o <<d>> \in Seq(T)
  BY <1>2
<1>4. (<<a, b>> \o <<c>>) \o <<d>> = <<a>> \o (<<b>> \o (<<c>> \o <<d>>))
  <2>1. <<a, b>> = <<a>> \o <<b>>  BY <1>1, TwoAtoms
  <2>2. (<<a, b>> \o <<c>>) \o <<d>> = <<a, b>> \o (<<c>> \o <<d>>)  BY <1>2, Associative
  <2>3. (<<a>> \o <<b>>) \o (<<c>> \o <<d>>) = <<a>> \o (<<b>> \o (<<c>> \o <<d>>))
    BY <1>2, <1>3, Associative
  <2> QED  BY <2>1, <2>2, <2>3
<1>5. (<<a, b>> \o <<c>>) \o <<d>> = <<a, b, c, d>>
  <2>1. <<a, b>> \o <<c>> = Append(<<a, b>>, c)  BY <1>1, <1>2, AppendOne
  <2>2. <<a, b, c>> = Append(<<a, b>>, c) /\ <<a, b, c, d>> = Append(<<a, b, c>>, d)
    BY <1>1
  <2>3. <<a, b, c>> \o <<d>> = Append(<<a, b, c>>, d)  BY <1>1, <1>2, AppendOne
  <2> QED  BY <2>1, <2>2, <2>3
<1> QED  BY <1>3, <1>4, <1>5 DEF T, a, b, c, d, buildSignedMessageBlock, encrypt

(* After the verification of a message the reader finds the time and the   *)
(* type the sender put in, the id of the key and the sealed text.          *)
THEOREM ClientDataOpens ==
    ASSUME NEW text, NEW type, NEW n, NEW key, NEW sent \in Nat,
           NEW m, m.message = buildSignedMessageBlock(text, type, UuidBytes(n), key, sent)
    PROVE  /\ toSize_T(m.message).val = sent
           /\ extract_client_data(m) =
                [msg_id |-> m.msg_id, invalid |-> m.invalid, sender_id |-> m.sender_id,
                 upload_time |-> m.upload_time, send_time |-> sent, type |-> type,
                 message |-> UuidBytes(n) \o encrypt(text, key)]
           /\ KeyId(extract_client_data(m)) = Read(UuidBytes(n), encrypt(text, key))
<1> DEFINE rest == UuidBytes(n) \o encrypt(text, key)
           atoms == {Num(sent), Byte(type), Uuid(n), Aes(text, key)}
<1>1. /\ rest \in Seq(atoms) /\ <<Byte(type)>> \o rest \in Seq(atoms)
      /\ m.message = <<Num(sent)>> \o (<<Byte(type)>> \o rest)
  BY SignedBlockParts DEF UuidBytes
<1>2. encrypt(text, key) \in Seq(atoms) /\ UuidBytes(n) \in Seq(atoms)
      /\ Len(UuidBytes(n)) = 1 /\ rest[2] = Aes(text, key)
  BY DEF encrypt, UuidBytes
<1>3. ~("signed" \in DOMAIN Aes(text, key))  BY DEF Aes
<1>4. ELONEF_UUID_SIZE(rest) = Len(UuidBytes(n))  BY <1>2, <1>3 DEF ELONEF_UUID_SIZE
<1> HIDE DEF atoms
<1>5. extractConstantLengthQueue(rest, ELONEF_UUID_SIZE(rest)) = Read(UuidBytes(n), encrypt(text, key))
  BY <1>2, <1>4, PrefixReadsBack
<1> HIDE DEF rest
<1>6. toSize_T(m.message) = Read(sent, <<Byte(type)>> \o rest)
  BY <1>1, NumberReadsBack
<1>7. extreactByte(<<Byte(type)>> \o rest) = Read(type, rest)  BY <1>1, ByteReadsBack
<1>8. /\ Read(sent, <<Byte(type)>> \o rest).val = sent
      /\ Read(sent, <<Byte(type)>> \o rest).rest = <<Byte(type)>> \o rest
      /\ Read(type, rest).val = type /\ Read(type, rest).rest = rest
  BY DEF Read
<1>9. extract_client_data(m) =
                [msg_id |-> m.msg_id, invalid |-> m.invalid, sender_id |-> m.sender_id,
                 upload_time |-> m.upload_time, send_time |-> sent, type |-> type,
                 message |-> rest]
  BY <1>6, <1>7, <1>8 DEF extract_client_data
<1>10. extract_client_data(m).message = rest  BY <1>9
<1>11. KeyId(extract_client_data(m)) = Read(UuidBytes(n), encrypt(text, key))
  BY <1>5, <1>10 DEF KeyId
<1> QED  BY <1>6, <1>8, <1>9, <1>11 DEF rest

(* What the server stores is taken apart into the sender, what she signed, *)
(* and the time of the upload.                                             *)
THEOREM StoredOpens ==
    ASSUME NEW S, NEW uid \in Seq(S), NEW R, NEW signed \in Seq(R), NEW now \in Nat,
           NEW m, m.message = StoredMessage(uid, signed, now)
    PROVE  extract_server_and_user_data(m) =
             [msg_id |-> m.msg_id, invalid |-> m.invalid, sender_id |-> uid,
              upload_time |-> now, message |-> signed]
<1> DEFINE T == S \cup R \cup {Num(Len(uid)), Num(Len(signed)), Num(now), Byte(0)}
           stamp == <<Num(now)>> \o <<Byte(0)>>
<1>1. /\ uid \in Seq(T) /\ signed \in Seq(T)
      /\ Num(Len(uid)) \in T /\ Num(Len(signed)) \in T /\ Num(now) \in T /\ Byte(0) \in T
  OBVIOUS
<1>2. <<Byte(0)>> \in Seq({Byte(0)})  OBVIOUS
<1> HIDE DEF T
<1>3. /\ stamp \in Seq(T) /\ Block(uid) \in Seq(T) /\ Block(signed) \in Seq(T)
      /\ Block(signed) \o stamp \in Seq(T)
  BY <1>1 DEF Block
<1>4. StoredMessage(uid, signed, now) = Block(uid) \o (Block(signed) \o stamp)
  <2>1. stamp = <<Num(now), Byte(0)>>  BY <1>1, TwoAtoms
  <2> HIDE DEF stamp
  <2> QED  BY <1>3, <2>1, Associative DEF StoredMessage
<1>5. toSize_T(stamp) = Read(now, <<Byte(0)>>)  BY <1>2, NumberReadsBack
<1> HIDE DEF stamp
<1>6. extractDynamicLengthQueue(Block(uid) \o (Block(signed) \o stamp)) = Read(uid, Block(signed) \o stamp)
  BY <1>1, <1>3, BlockReadsBack
<1>7. extractDynamicLengthQueue(Block(signed) \o stamp) = Read(signed, stamp)
  BY <1>1, <1>3, BlockReadsBack
<1>8. /\ Read(uid, Block(signed) \o stamp).val = uid
      /\ Read(uid, Block(signed) \o stamp).rest = Block(signed) \o stamp
      /\ Read(signed, stamp).val = signed /\ Read(signed, stamp).rest = stamp
      /\ Read(now, <<Byte(0)>>).val = now
  BY DEF Read
<1> QED  BY <1>4, <1>5, <1>6, <1>7, <1>8 DEF extract_server_and_user_data
=============================================================================
