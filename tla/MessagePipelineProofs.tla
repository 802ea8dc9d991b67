----------------------- MODULE MessagePipelineProofs -----------------------
(* Proofs of the safety of reading a chat, for any chat and any reads.     *)
EXTENDS MessagePipeline, WireFormatProofs

(* What becomes of the message numbered i in the passes.                   *)
BlockOf(i) == buildSignedMessageBlock(Posts[i].text, Posts[i].type, Posts[i].id,
                                      Posts[i].key, Posts[i].sent)
SignedForm(i) ==
    [msg_id |-> i, invalid |-> FALSE, sender_id |-> Posts[i].sender,
     upload_time |-> Posts[i].uploaded, message |-> sign(BlockOf(i), Posts[i].signer)]
VerifiedForm(i) ==
    [msg_id |-> i, invalid |-> FALSE, sender_id |-> Posts[i].sender,
     upload_time |-> Posts[i].uploaded, message |-> BlockOf(i)]
ReadForm(i, text) ==
    [msg_id |-> i, invalid |-> FALSE, sender_id |-> Posts[i].sender,
     upload_time |-> Posts[i].uploaded, send_time |-> Posts[i].sent,
     type |-> Posts[i].type, message |-> text]
OpenForm(i) == ReadForm(i, Posts[i].id \o encrypt(Posts[i].text, Posts[i].key))

IsSigned(m) == m.invalid \/ \E i \in DOMAIN Posts : m = SignedForm(i)
IsVerified(m) ==
    m.invalid \/ \E i \in DOMAIN Posts : SignedWell(Posts[i]) /\ m = VerifiedForm(i)
IsOpen(m) == m.invalid \/ \E i \in DOMAIN Posts : SignedWell(Posts[i]) /\ m = OpenForm(i)
IsRead(m) ==
    m.invalid \/ \E i \in DOMAIN Posts :
                    /\ SignedWell(Posts[i])
                    /\ \/ m = ReadForm(i, Posts[i].text)
                       \/ Clash(Posts[i]) /\ m = ReadForm(i, Garbage)

TrueKey(c, k) == IF c = "sign" THEN SignKeys[k] ELSE ChatKeys[k[2]]
GoodKey(c, k, v) == k \in Names(c) /\ v = TrueKey(c, k)

IsQueue(q) == DOMAIN q = 1 .. Len(q) /\ Len(q) \in Nat /\ \E S : q \in Seq(S)

(* The messages, pass by pass.                                             *)
MsgsInv ==
    /\ pc = "asked" => range \in Ranges
    /\ answer \in Seq(DOMAIN Posts) /\ IsQueue(msgs) /\ at \in Nat \ {0}
    /\ pc = "signers" => \A n \in DOMAIN msgs : IsSigned(msgs[n])
    /\ pc = "signatures" =>
          \A n \in DOMAIN msgs : IF n < at THEN IsVerified(msgs[n]) ELSE IsSigned(msgs[n])
    /\ pc = "ids" => \A n \in DOMAIN msgs : IsOpen(msgs[n])
    /\ pc = "decrypting" =>
          \A n \in DOMAIN msgs : IF n < at THEN IsRead(msgs[n]) ELSE IsOpen(msgs[n])

(* No cache holds a key that is not the server's for that name, nor does an*)
(* answer on its way bring one.                                            *)
KeysInv ==
    /\ DOMAIN cache = Caches
    /\ \A c \in Caches : \A k \in DOMAIN cache[c] :
          cache[c][k] \in {Null, Pending} \/ GoodKey(c, k, cache[c][k])
    /\ \A r \in asked :
          /\ r.cache \in Caches /\ r.stage \in {"request", "answer"}
          /\ r.stage = "answer" =>
                \A k \in DOMAIN r.keys : k \in Names(r.cache) /\ r.keys[k] = Key(r.cache, k)

(* What the reader has got is the key it asked for.                        *)
HeldInv ==
    held # None /\ pc # "crashed" =>
        \E c \in Caches :
           /\ pc = Pass(c) /\ at \in DOMAIN msgs /\ ~msgs[at].invalid
           /\ held \in {Pending, Rejected, Locked} \/ GoodKey(c, KeyOf(c, msgs[at]), held)

EndedInv ==
    /\ IsQueue(ended)
    /\ \A j \in DOMAIN ended :
          /\ IsQueue(ended[j].msgs)
          /\ ~ended[j].threw => \A n \in DOMAIN ended[j].msgs : IsRead(ended[j].msgs[n])

Inv == TypeOK /\ MsgsInv /\ KeysInv /\ HeldInv /\ EndedInv
-----------------------------------------------------------------------------
LEMMA PostsTyped ==
    /\ Len(Posts) \in Nat /\ DOMAIN Posts = 1 .. Len(Posts)
    /\ \A i \in DOMAIN Posts :
          /\ \E S : Posts[i].sender \in Seq(S)
          /\ Posts[i].sent \in Nat /\ Posts[i].uploaded \in Nat
          /\ \E n : Posts[i].id = UuidBytes(n)
          /\ Posts[i].text # Throws
  BY PostsAssumption

LEMMA BlockTyped ==
    ASSUME NEW i \in DOMAIN Posts
    PROVE  \E S : BlockOf(i) \in Seq(S)
<1>1. PICK n : Posts[i].id = UuidBytes(n)  BY PostsTyped
<1> DEFINE text == Posts[i].text  type == Posts[i].type  key == Posts[i].key
           sent == Posts[i].sent
<1>2. BlockOf(i) = buildSignedMessageBlock(text, type, <<Uuid(n)>>, key, sent)
  BY <1>1 DEF BlockOf, UuidBytes
<1> HIDE DEF text, type, key, sent
<1>3. buildSignedMessageBlock(text, type, <<Uuid(n)>>, key, sent)
        \in Seq({Num(sent), Byte(type), Uuid(n), Aes(text, key)})
  BY SignedBlockParts
<1> QED  BY <1>2, <1>3

LEMMA SignTyped ==
    ASSUME NEW S, NEW q \in Seq(S), NEW key
    PROVE  \E R : sign(q, key) \in Seq(R)
<1> DEFINE s == <<Signature(q, key)>>
           T == S \cup {Signature(q, key), Num(Len(s))}
<1>1. q \in Seq(T) /\ s \in Seq(T) /\ <<Num(Len(s))>> \in Seq(T)  OBVIOUS
<1> HIDE DEF T, s
<1>2. Block(s) \in Seq(T)  BY <1>1 DEF Block
<1>3. sign(q, key) = Block(s) \o q  BY DEF sign, s
<1> QED  BY <1>1, <1>2, <1>3

LEMMA ExtractedForm ==
    ASSUME NEW i \in DOMAIN Posts
    PROVE  Extracted[i] = SignedForm(i)
<1>1. PICK S : Posts[i].sender \in Seq(S)  BY PostsTyped
<1>2. PICK T : BlockOf(i) \in Seq(T)  BY BlockTyped
<1>3. PICK R : sign(BlockOf(i), Posts[i].signer) \in Seq(R)  BY <1>2, SignTyped
<1>4. Posts[i].uploaded \in Nat  BY PostsTyped
<1>5. Log[i] = StoredMessage(Posts[i].sender, sign(BlockOf(i), Posts[i].signer),
                             Posts[i].uploaded)
  BY DEF Log, BlockOf
<1>6. /\ BaseMessage(i).message = Log[i] /\ BaseMessage(i).msg_id = i
      /\ BaseMessage(i).invalid = FALSE
  BY DEF BaseMessage
<1>7. extract_server_and_user_data(BaseMessage(i)) =
        [msg_id |-> BaseMessage(i).msg_id, invalid |-> BaseMessage(i).invalid,
         sender_id |-> Posts[i].sender, upload_time |-> Posts[i].uploaded,
         message |-> sign(BlockOf(i), Posts[i].signer)]
  BY <1>1, <1>3, <1>4, <1>5, <1>6, StoredOpens
<1>8. DOMAIN Log = DOMAIN Posts  BY DEF Log
<1> QED  BY <1>6, <1>7, <1>8 DEF Extracted, SignedForm

LEMMA OpenedForm ==
    ASSUME NEW i \in DOMAIN Posts
    PROVE  /\ extract_client_data(VerifiedForm(i)) = OpenForm(i)
           /\ KeyId(OpenForm(i)).val = Posts[i].id
           /\ KeyId(OpenForm(i)).rest = encrypt(Posts[i].text, Posts[i].key)
<1>1. PICK n : Posts[i].id = UuidBytes(n)  BY PostsTyped
<1>2. Posts[i].sent \in Nat  BY PostsTyped
<1> DEFINE m == VerifiedForm(i)
           text == Posts[i].text  type == Posts[i].type  key == Posts[i].key
           sent == Posts[i].sent
<1>3. m.message = buildSignedMessageBlock(text, type, UuidBytes(n), key, sent)
  BY <1>1 DEF VerifiedForm, BlockOf
<1>4. /\ m.msg_id = i /\ m.invalid = FALSE /\ m.sender_id = Posts[i].sender
      /\ m.upload_time = Posts[i].uploaded
  BY DEF VerifiedForm
<1>5. OpenForm(i) = [msg_id |-> m.msg_id, invalid |-> m.invalid, sender_id |-> m.sender_id,
                     upload_time |-> m.upload_time, send_time |-> sent, type |-> type,
                     message |-> UuidBytes(n) \o encrypt(text, key)]
  BY <1>1, <1>4 DEF OpenForm, ReadForm
<1> HIDE DEF m, text, type, key, sent
<1>6. sent \in Nat  BY <1>2 DEF sent
<1>7. /\ extract_client_data(m) = OpenForm(i)
      /\ KeyId(extract_client_data(m)) = Read(UuidBytes(n), encrypt(text, key))
  BY <1>3, <1>5, <1>6, ClientDataOpens
<1>8. KeyId(OpenForm(i)) = Read(UuidBytes(n), encrypt(text, key))  BY <1>7
<1> QED  BY <1>1, <1>7, <1>8 DEF Read, m, text, key

(* Queues: a mapped one, one with an element replaced, a longer one.       *)
LEMMA QueueMapped ==
    ASSUME NEW q, IsQueue(q), NEW r, DOMAIN r = DOMAIN q,
           NEW E, r = [n \in DOMAIN q |-> E[n]]
    PROVE  IsQueue(r)
<1> DEFINE S == {E[n] : n \in DOMAIN q}
<1>1. r \in [1 .. Len(q) -> S] /\ Len(q) \in Nat  BY DEF IsQueue
<1> HIDE DEF S
<1>2. r \in Seq(S) /\ Len(r) = Len(q)  BY <1>1
<1> QED  BY <1>1, <1>2 DEF IsQueue

LEMMA QueueChanged ==
    ASSUME NEW q, IsQueue(q), NEW n, NEW e
    PROVE  /\ IsQueue([q EXCEPT ![n] = e])
           /\ DOMAIN [q EXCEPT ![n] = e] = DOMAIN q
           /\ \A i \in DOMAIN q : [q EXCEPT ![n] = e][i] = IF i = n THEN e ELSE q[i]
<1> DEFINE r == [q EXCEPT ![n] = e]
<1>1. PICK S : q \in Seq(S)  BY DEF IsQueue
<1> DEFINE T == S \cup {e}
<1>2. DOMAIN r = DOMAIN q /\ \A i \in DOMAIN q : r[i] = IF i = n THEN e ELSE q[i]
  OBVIOUS
<1>3. r \in [1 .. Len(q) -> T] /\ Len(q) \in Nat
  <2>1. DOMAIN q = 1 .. Len(q) /\ Len(q) \in Nat  BY DEF IsQueue
  <2>2. \A i \in DOMAIN q : q[i] \in S  BY <1>1, <2>1
  <2>3. r = [i \in 1 .. Len(q) |-> IF i = n THEN e ELSE q[i]]  BY <2>1
  <2> HIDE DEF r
  <2> QED  BY <2>1, <2>2, <2>3
<1> HIDE DEF T, r
<1>4. r \in Seq(T) /\ Len(r) = Len(q)  BY <1>3
<1> QED  BY <1>2, <1>3, <1>4 DEF IsQueue

LEMMA QueueExtended ==
    ASSUME NEW q, IsQueue(q), NEW e
    PROVE  /\ IsQueue(Append(q, e)) /\ DOMAIN Append(q, e) = 1 .. Len(q) + 1
           /\ \A i \in DOMAIN q : Append(q, e)[i] = q[i]
           /\ Append(q, e)[Len(q) + 1] = e
<1>1. PICK S : q \in Seq(S)  BY DEF IsQueue
<1> DEFINE T == S \cup {e}
<1>2. q \in Seq(T) /\ e \in T  BY <1>1
<1> HIDE DEF T
<1>3. /\ Append(q, e) \in Seq(T) /\ Len(Append(q, e)) = Len(q) + 1
      /\ DOMAIN Append(q, e) = 1 .. Len(q) + 1 /\ Len(q) + 1 \in Nat
      /\ \A i \in DOMAIN q : Append(q, e)[i] = q[i]
      /\ Append(q, e)[Len(q) + 1] = e
  BY <1>2
<1> QED  BY <1>3 DEF IsQueue

LEMMA EmptyQueue == IsQueue(<<>>)
<1>1. <<>> \in Seq({}) /\ DOMAIN <<>> = 1 .. Len(<<>>) /\ Len(<<>>) = 0  OBVIOUS
<1> QED  BY <1>1 DEF IsQueue

LEMMA InvInit == Init => Inv
<1> SUFFICES ASSUME Init PROVE Inv
  OBVIOUS
<1>1. TypeOK
  BY ReadsAssumption DEF Init, TypeOK, Caches, Range
<1>2. MsgsInv  BY EmptyQueue DEF Init, MsgsInv
<1>3. KeysInv  BY DEF Init, KeysInv
<1>4. HeldInv  BY DEF Init, HeldInv
<1>5. EndedInv  BY EmptyQueue DEF Init, EndedInv
<1> QED  BY <1>1, <1>2, <1>3, <1>4, <1>5 DEF Inv
-----------------------------------------------------------------------------
(* The server.                                                             *)
LEMMA LogTyped ==
    /\ Numbers \in Seq(DOMAIN Posts) /\ Len(Numbers) = Len(Log) /\ Len(Log) \in Nat
    /\ \A i \in 1 .. Len(Log) : Numbers[i] = i
    /\ DOMAIN Posts = 1 .. Len(Log)
<1> DEFINE P == DOMAIN Posts  n == Len(Posts)
           S == {Log[i] : i \in P}
<1>1. P = 1 .. n /\ n \in Nat  BY PostsTyped
<1>2. DOMAIN Log = P  BY DEF Log
<1>3. Log = [i \in P |-> Log[i]]  BY <1>2 DEF Log
<1> HIDE DEF P, n
<1>4. Log \in [1 .. n -> S]  BY <1>1, <1>3
<1> HIDE DEF S
<1>5. Len(Log) = n  BY <1>1, <1>4
<1>6. Numbers = [i \in 1 .. n |-> i]  BY <1>1, <1>2 DEF Numbers
<1>7. Numbers \in [1 .. n -> P]  BY <1>1, <1>6
<1>8. Numbers \in Seq(P) /\ Len(Numbers) = n  BY <1>1, <1>7
<1> QED  BY <1>1, <1>5, <1>6, <1>8 DEF P

LEMMA ReadMessageInv ==
    ASSUME Inv, read_message
    PROVE  Inv'
<1> USE DEF Inv, read_message
<1>1. TypeOK'  BY DEF TypeOK
<1>2. answer' \in Seq(DOMAIN Posts)
  <2> DEFINE first == range.first  size == Len(Log)
             upto == range.first + range.count - 1
             last == IF upto < size THEN upto ELSE size
  <2>1. first \in Nat \ {0} /\ upto \in Int
    BY ReadsAssumption DEF MsgsInv
  <2>2. /\ Numbers \in Seq(DOMAIN Posts) /\ Len(Numbers) = size /\ size \in Nat
        /\ \A i \in 1 .. size : Numbers[i] = i
        /\ DOMAIN Posts = 1 .. size
    BY LogTyped
  <2>3. answer' = SubSeq(Numbers, first, last)
    OBVIOUS
  <2>4. last \in Int /\ last <= size  BY <2>1, <2>2
  <2> HIDE DEF last, size, first, upto
  <2>5. \A i \in first .. last : Numbers[i] \in DOMAIN Posts
    BY <2>1, <2>2, <2>4
  <2>6. SubSeq(Numbers, first, last) \in Seq(DOMAIN Posts)
    BY <2>1, <2>4, <2>5, SubSeqProperties DEF first
  <2> QED  BY <2>3, <2>6
<1>3. MsgsInv'  BY <1>2 DEF MsgsInv
<1>4. KeysInv'  BY DEF KeysInv
<1>5. HeldInv'  BY DEF HeldInv, KeyOf, Pass
<1>6. EndedInv'  BY DEF EndedInv
<1> QED  BY <1>1, <1>3, <1>4, <1>5, <1>6

LEMMA AnswerInv ==
    ASSUME Inv, NEW r \in asked, buid_cache_request_return(r)
    PROVE  Inv'
<1> DEFINE found == r.missing \cap known \cap Names(r.cache)
           reply == [r EXCEPT !.stage = "answer", !.keys = [k \in found |-> Key(r.cache, k)]]
<1>1. /\ asked' = (asked \ {r}) \cup {reply}
      /\ UNCHANGED <<readerVars, held, cache, erasing, leaked, known>> /\ r.stage = "request"
  BY DEF buid_cache_request_return
<1>2. r.cache \in Caches /\ reply.cache = r.cache /\ reply.stage = "answer"
  BY DEF Inv, KeysInv
<1>3. /\ DOMAIN reply.keys = found
      /\ \A k \in found : reply.keys[k] = Key(r.cache, k) /\ k \in Names(r.cache)
  OBVIOUS
<1> HIDE DEF reply, found
<1>4. TypeOK'  BY <1>1, <1>2 DEF Inv, TypeOK, readerVars
<1>5. MsgsInv'  BY <1>1 DEF Inv, MsgsInv, readerVars
<1>6. KeysInv'
  <2>1. \A q \in asked' : q \in asked \/ q = reply  BY <1>1
  <2> QED  BY <1>1, <1>2, <1>3, <2>1 DEF Inv, KeysInv
<1>7. HeldInv'  BY <1>1 DEF Inv, HeldInv, KeyOf, Pass, readerVars
<1>8. EndedInv'  BY <1>1 DEF Inv, EndedInv, readerVars
<1> QED  BY <1>4, <1>5, <1>6, <1>7, <1>8 DEF Inv

LEMMA LearnInv ==
    ASSUME Inv, NEW k \in Late \ known, Learn(k)
    PROVE  Inv'
<1> USE DEF Inv, Learn, readerVars
<1>1. TypeOK'  BY DEF TypeOK
<1>2. MsgsInv'  BY DEF MsgsInv
<1>3. KeysInv'  BY DEF KeysInv
<1>4. HeldInv'  BY DEF HeldInv, KeyOf, Pass
<1>5. EndedInv'  BY DEF EndedInv
<1> QED  BY <1>1, <1>2, <1>3, <1>4, <1>5

LEMMA DecodedIsTrue ==
    ASSUME KeysInv, NEW r \in asked, r.stage = "answer", NEW k \in DOMAIN Decode(r)
    PROVE  k \in Names(r.cache) /\ Decode(r)[k] = TrueKey(r.cache, k)
<1>1. k \in DOMAIN r.keys  BY DEF Decode
<1>2. k \in Names(r.cache) /\ r.keys[k] = Key(r.cache, k)  BY <1>1 DEF KeysInv
<1>3. CASE r.cache = "sign"  BY <1>1, <1>2, <1>3 DEF Decode, Key, TrueKey
<1>4. CASE r.cache # "sign"
  <2> DEFINE q == ChatKeys[k[2]]
  <2>1. Decode(r)[k] = decript_rsa(encript_rsa(q, Reader), Reader)
    BY <1>1, <1>2, <1>4 DEF Decode, Key
  <2>2. decript_rsa(encript_rsa(q, Reader), Reader) = q
    BY DEF decript_rsa, encript_rsa, Rsa
  <2> QED  BY <1>2, <1>4, <2>1, <2>2 DEF TrueKey
<1> QED  BY <1>3, <1>4

(* The handler puts true keys into its cache, and takes others out; the    *)
(* reader that waits for one of them gets it, or an error.                 *)
LEMMA HandleInv ==
    ASSUME Inv, NEW r \in asked, handle(r)
    PROVE  Inv'
<1> DEFINE c == r.cache
<1>0. PICK value : value = Decode(r) /\ HandleAnswer(r, value)  BY DEF handle
<1>1. c \in Caches /\ r.stage = "answer"  BY DEF Inv, KeysInv, handle
<1>2. PICK fulfilled \in SUBSET DOMAIN value, rejected \in SUBSET (r.users \ DOMAIN value) :
        /\ cache' = [cache EXCEPT ![c] =
              [k \in DOMAIN cache[c] \ Erased(rejected, {}) |->
                  IF k \in fulfilled THEN value[k] ELSE cache[c][k]]]
        /\ erasing' = [erasing EXCEPT ![c] = [k \in rejected |-> "reject"]]
        /\ held' = IF \E k \in fulfilled : WaitsFor(c, k)
                   THEN value[KeyOf(c, msgs[at])] ELSE held
        /\ pc' \in {pc, "crashed"} /\ leaked' \subseteq leaked \cup {c}
  <2> DEFINE isPending(k) == Entry(c, k) = Pending
             unset == {k \in DOMAIN value : ~isPending(k)}
             rest == IF unset = {} THEN Rest(r.users, value) ELSE {}
             bad == unset \cup {k \in rest : ~isPending(k)}
  <2>1. PICK fulfilled \in SUBSET (DOMAIN value \ bad), rejected \in SUBSET (rest \ bad) :
           Settle(c, value, bad, fulfilled, rejected)
    BY <1>0 DEF HandleAnswer
  <2>2. fulfilled \in SUBSET DOMAIN value /\ rejected \in SUBSET (r.users \ DOMAIN value)
    BY <2>1 DEF Rest
  <2>3. Erased(rejected, bad) = rejected /\ Erased(rejected, {}) = rejected
    BY DEF Erased
  <2>4. pc' \in {pc, "crashed"} /\ leaked' \subseteq leaked \cup {c}  BY <2>1 DEF Settle
  <2> HIDE DEF bad, rest, c
  <2> QED  BY <2>1, <2>2, <2>3, <2>4 DEF Settle
<1>3. /\ asked' = asked \ {r}
      /\ UNCHANGED <<turn, range, answer, msgs, at, ended, known, missed>>
  BY DEF handle
<1>4. \A k \in DOMAIN value : k \in Names(c) /\ value[k] = TrueKey(c, k)
  BY <1>0, <1>1, DecodedIsTrue DEF Inv
<1> HIDE DEF c
<1>5. TypeOK'  BY <1>1, <1>2, <1>3 DEF Inv, TypeOK, Range
<1>6. MsgsInv'  BY <1>2, <1>3 DEF Inv, MsgsInv
<1>7. KeysInv'
  <2>1. DOMAIN cache' = Caches  BY <1>2 DEF Inv, KeysInv
  <2>2. ASSUME NEW d \in Caches, NEW k \in DOMAIN cache'[d]
        PROVE  cache'[d][k] \in {Null, Pending} \/ GoodKey(d, k, cache'[d][k])
    <3>1. CASE d # c  BY <1>2, <2>2, <3>1 DEF Inv, KeysInv
    <3>2. CASE d = c
      <4>1. k \in DOMAIN cache[c] /\ cache'[c][k] = IF k \in fulfilled THEN value[k] ELSE cache[c][k]
        BY <1>1, <1>2, <2>2, <3>2 DEF Inv, KeysInv
      <4> QED  BY <1>1, <1>2, <1>4, <3>2, <4>1 DEF Inv, KeysInv, GoodKey
    <3> QED  BY <3>1, <3>2
  <2> QED  BY <1>3, <2>1, <2>2 DEF Inv, KeysInv
<1>8. HeldInv'
  <2> SUFFICES ASSUME held' # None, pc' # "crashed"
               PROVE  HeldInv'
    BY DEF HeldInv
  <2>1. pc' = pc /\ msgs' = msgs /\ at' = at  BY <1>2, <1>3
  <2>2. held # None
    BY <1>2, StatesAssumption DEF WaitsFor
  <2>3. PICK d \in Caches :
          /\ pc = Pass(d) /\ at \in DOMAIN msgs /\ ~msgs[at].invalid
          /\ held \in {Pending, Rejected, Locked} \/ GoodKey(d, KeyOf(d, msgs[at]), held)
    BY <2>1, <2>2 DEF Inv, HeldInv
  <2>4. held' \in {Pending, Rejected, Locked} \/ GoodKey(d, KeyOf(d, msgs[at]), held')
    <3>1. CASE \E k \in fulfilled : WaitsFor(c, k)
      <4>1. held' = value[KeyOf(c, msgs[at])]  BY <1>2, <3>1
      <4>2. KeyOf(c, msgs[at]) \in DOMAIN value /\ pc = Pass(c)  BY <1>2, <3>1 DEF WaitsFor
      <4>3. c = d  BY <1>1, <2>3, <4>2 DEF Pass, Caches
      <4> QED  BY <1>4, <4>1, <4>2, <4>3 DEF GoodKey
    <3>2. CASE ~(\E k \in fulfilled : WaitsFor(c, k))  BY <1>2, <2>3, <3>2
    <3> QED  BY <3>1, <3>2
  <2>5. KeyOf(d, msgs'[at']) = KeyOf(d, msgs[at])  BY <2>1
  <2> QED  BY <2>1, <2>3, <2>4, <2>5 DEF HeldInv
<1>9. EndedInv'  BY <1>3 DEF Inv, EndedInv
<1> QED  BY <1>5, <1>6, <1>7, <1>8, <1>9 DEF Inv

LEMMA RejectInv ==
    ASSUME Inv, NEW c \in Caches, NEW k \in DOMAIN erasing[c], reject(c, k)
    PROVE  Inv'
<1>1. /\ erasing' = [erasing EXCEPT ![c] = [@ EXCEPT ![k] = "erase"]]
      /\ held' = IF WaitsFor(c, k) THEN Rejected ELSE held
      /\ UNCHANGED <<pc, turn, range, answer, msgs, at, ended, cache, leaked, asked, known>>
  BY DEF reject, readerVars
<1>2. TypeOK'  BY <1>1 DEF Inv, TypeOK, Range
<1>3. MsgsInv'  BY <1>1 DEF Inv, MsgsInv
<1>4. KeysInv'  BY <1>1 DEF Inv, KeysInv
<1>5. HeldInv'
  <2>1. held' # None => held # None  BY <1>1, StatesAssumption DEF WaitsFor
  <2>2. held' = held \/ held' = Rejected  BY <1>1
  <2>3. \A d \in Caches : KeyOf(d, msgs'[at']) = KeyOf(d, msgs[at])  BY <1>1
  <2> QED  BY <1>1, <2>1, <2>2, <2>3 DEF Inv, HeldInv, Pass
<1>6. EndedInv'  BY <1>1 DEF Inv, EndedInv
<1> QED  BY <1>2, <1>3, <1>4, <1>5, <1>6 DEF Inv

LEMMA EraseInv ==
    ASSUME Inv, NEW c \in Caches, NEW k \in DOMAIN erasing[c], erase(c, k)
    PROVE  Inv'
<1>1. /\ erasing' = [erasing EXCEPT ![c] = [l \in DOMAIN @ \ {k} |-> @[l]]]
      /\ UNCHANGED <<pc, turn, range, answer, msgs, at, ended, held, cache, leaked, asked, known>>
  BY DEF erase, readerVars
<1>2. TypeOK'  BY <1>1 DEF Inv, TypeOK, Range
<1>3. MsgsInv'  BY <1>1 DEF Inv, MsgsInv
<1>4. KeysInv'  BY <1>1 DEF Inv, KeysInv
<1>5. HeldInv'  BY <1>1 DEF Inv, HeldInv, KeyOf, Pass
<1>6. EndedInv'  BY <1>1 DEF Inv, EndedInv
<1> QED  BY <1>2, <1>3, <1>4, <1>5, <1>6 DEF Inv

LEMMA LoadFailsInv ==
    ASSUME Inv, NEW r \in asked, LoadFails(r)
    PROVE  Inv'
<1>1. /\ asked' = asked \ {r}
      /\ UNCHANGED <<pc, turn, range, answer, msgs, at, ended, held, cache, erasing, leaked,
                     known>>
  BY DEF LoadFails, readerVars
<1>2. TypeOK'  BY <1>1 DEF Inv, TypeOK
<1>3. MsgsInv'  BY <1>1 DEF Inv, MsgsInv
<1>4. KeysInv'  BY <1>1 DEF Inv, KeysInv
<1>5. HeldInv'  BY <1>1 DEF Inv, HeldInv, KeyOf, Pass
<1>6. EndedInv'  BY <1>1 DEF Inv, EndedInv
<1> QED  BY <1>2, <1>3, <1>4, <1>5, <1>6 DEF Inv
-----------------------------------------------------------------------------
(* The reader.                                                             *)
LEMMA BeginInv ==
    ASSUME Inv, NEW r \in Ranges, read_messages(r)
    PROVE  Inv'
<1> USE DEF Inv, read_messages
<1>1. TypeOK'  BY ReadsAssumption DEF TypeOK
<1>2. MsgsInv'  BY DEF MsgsInv
<1>3. KeysInv'  BY DEF KeysInv
<1>4. HeldInv'  BY DEF HeldInv, Pass
<1>5. EndedInv'  BY DEF EndedInv
<1> QED  BY <1>1, <1>2, <1>3, <1>4, <1>5

LEMMA MessagesFailInv ==
    ASSUME Inv, MessagesFail
    PROVE  Inv'
<1> USE DEF Inv, MessagesFail
<1>1. TypeOK'  BY DEF TypeOK
<1>2. MsgsInv'  BY DEF MsgsInv
<1>3. KeysInv'  BY DEF KeysInv
<1>4. HeldInv'  BY DEF HeldInv, Pass
<1>5. EndedInv'  BY DEF EndedInv
<1> QED  BY <1>1, <1>2, <1>3, <1>4, <1>5

LEMMA ParseInv ==
    ASSUME Inv, ParseMessages
    PROVE  Inv'
<1> USE DEF Inv, ParseMessages
<1>1. TypeOK'  BY DEF TypeOK
<1>2. MsgsInv'
  <2>1. answer \in Seq(DOMAIN Posts)  BY DEF MsgsInv
  <2>2. IsQueue(answer)  BY <2>1 DEF IsQueue
  <2>3. DOMAIN msgs' = DOMAIN answer  OBVIOUS
  <2> DEFINE E == [n \in DOMAIN answer |-> Extracted[answer[n]]]
  <2>4. msgs' = [n \in DOMAIN answer |-> E[n]]  OBVIOUS
  <2> HIDE DEF E
  <2>5. IsQueue(msgs')  BY <2>2, <2>3, <2>4, QueueMapped
  <2>6. ASSUME NEW n \in DOMAIN msgs' PROVE IsSigned(msgs'[n])
    <3>1. answer[n] \in DOMAIN Posts /\ msgs'[n] = Extracted[answer[n]]
      BY <2>1, <2>3 DEF E
    <3> QED  BY <3>1, ExtractedForm DEF IsSigned
  <2> QED  BY <2>5, <2>6 DEF MsgsInv
<1>3. KeysInv'  BY DEF KeysInv
<1>4. HeldInv'  BY DEF HeldInv, Pass
<1>5. EndedInv'  BY DEF EndedInv
<1> QED  BY <1>1, <1>2, <1>3, <1>4, <1>5

LEMMA EnsureInv ==
    ASSUME Inv, NEW c \in Caches, NEW from \in {"signers", "ids"}, ensure(c, from),
           from = "signers" <=> c = "sign"
    PROVE  Inv'
<1> DEFINE wanted == {KeyOf(c, msgs[n]) : n \in DOMAIN msgs}
           missing == Missing(c, wanted)
           request == [turn |-> turn, cache |-> c, users |-> wanted, missing |-> missing,
                       stage |-> "request", keys |-> <<>>]
<1>1. /\ pc = from /\ pc' = Pass(c) /\ at' = 1
      /\ cache' = [cache EXCEPT ![c] =
            [k \in DOMAIN @ \cup missing |-> IF k \in missing THEN Pending ELSE Entry(c, k)]]
      /\ asked' \in {asked, asked \cup {request}}
      /\ UNCHANGED <<turn, range, answer, msgs, ended, held, erasing, leaked, known, missed>>
  BY DEF ensure, ensure_presance
<1>2. request.cache = c /\ request.stage = "request"  OBVIOUS
<1> HIDE DEF missing, request
<1>3. TypeOK'  BY <1>1, <1>2 DEF Inv, TypeOK, Pass
<1>4. MsgsInv'
  <2>1. \A n \in DOMAIN msgs : n \in Nat /\ ~(n < 1)  BY DEF Inv, MsgsInv, IsQueue
  <2>2. CASE c = "sign"
    <3>1. pc = "signers" /\ pc' = "signatures"  BY <1>1, <2>2 DEF Pass
    <3> QED  BY <1>1, <2>1, <3>1 DEF Inv, MsgsInv
  <2>3. CASE c = "chat"
    <3>1. pc = "ids" /\ pc' = "decrypting"  BY <1>1, <2>3 DEF Pass
    <3> QED  BY <1>1, <2>1, <3>1 DEF Inv, MsgsInv
  <2> QED  BY <2>2, <2>3 DEF Caches
<1>5. KeysInv'
  <2>1. ASSUME NEW d \in Caches, NEW k \in DOMAIN cache'[d]
        PROVE  cache'[d][k] \in {Null, Pending} \/ GoodKey(d, k, cache'[d][k])
    <3>1. CASE d # c  BY <1>1, <2>1, <3>1 DEF Inv, KeysInv
    <3>2. CASE d = c
      <4>1. /\ cache'[c][k] = IF k \in missing THEN Pending ELSE Entry(c, k)
            /\ k \in missing \/ k \in DOMAIN cache[c]
        BY <1>1, <2>1, <3>2 DEF Inv, KeysInv
      <4> QED  BY <3>2, <4>1 DEF Inv, KeysInv, Entry
    <3> QED  BY <3>1, <3>2
  <2>2. DOMAIN cache' = Caches  BY <1>1 DEF Inv, KeysInv
  <2> QED  BY <1>1, <1>2, <2>1, <2>2 DEF Inv, KeysInv
<1>6. HeldInv'  BY <1>1 DEF Inv, HeldInv, Pass
<1>7. EndedInv'  BY <1>1 DEF Inv, EndedInv
<1> QED  BY <1>3, <1>4, <1>5, <1>6, <1>7 DEF Inv

LEMMA InvalidMessage ==
    ASSUME NEW m, IsSigned(m) \/ IsOpen(m), ~m.invalid
    PROVE  LET invalid == [m EXCEPT !.invalid = TRUE]
               emptied == [[m EXCEPT !.message = <<>>] EXCEPT !.invalid = TRUE]
           IN  /\ invalid.invalid /\ invalid.msg_id = m.msg_id /\ invalid.message = m.message
               /\ emptied.invalid /\ emptied.msg_id = m.msg_id /\ emptied.message = <<>>
<1>1. PICK i \in DOMAIN Posts : m = SignedForm(i) \/ m = OpenForm(i)
  BY DEF IsSigned, IsOpen
<1>2. CASE m = SignedForm(i)  BY <1>2 DEF SignedForm
<1>3. CASE m = OpenForm(i)  BY <1>3 DEF OpenForm, ReadForm
<1> QED  BY <1>1, <1>2, <1>3

(* One message is done with, and the pass goes on.                         *)
LEMMA DoneWith ==
    ASSUME Inv, NEW c \in Caches, InPass(c), NEW m, SetMessage(m),
           IF c = "sign" THEN IsVerified(m) ELSE IsRead(m),
           UNCHANGED <<pc, range, answer, ended>>
    PROVE  MsgsInv' /\ HeldInv' /\ EndedInv'
<1>1. /\ pc = Pass(c) /\ at \in DOMAIN msgs /\ at \in Nat \ {0} /\ IsQueue(msgs)
  BY DEF Inv, MsgsInv, InPass, IsQueue
<1>2. /\ IsQueue(msgs') /\ DOMAIN msgs' = DOMAIN msgs
      /\ \A n \in DOMAIN msgs : msgs'[n] = IF n = at THEN m ELSE msgs[n]
  BY <1>1, QueueChanged DEF SetMessage
<1>3. at' = at + 1 /\ held' = None  BY DEF SetMessage
<1>4. DOMAIN msgs \subseteq Nat  BY <1>1 DEF IsQueue
<1>5. MsgsInv'
  <2>1. CASE c = "sign"
    BY <1>1, <1>2, <1>3, <1>4, <2>1 DEF Inv, MsgsInv, Pass
  <2>2. CASE c = "chat"
    BY <1>1, <1>2, <1>3, <1>4, <2>2 DEF Inv, MsgsInv, Pass
  <2> QED  BY <2>1, <2>2 DEF Caches
<1>6. HeldInv'  BY <1>3 DEF HeldInv
<1>7. EndedInv'  BY DEF Inv, EndedInv
<1> QED  BY <1>5, <1>6, <1>7

(* What the message of a pass is before it is done with.                   *)
LEMMA InHand ==
    ASSUME Inv, NEW c \in Caches, InPass(c)
    PROVE  /\ at \in DOMAIN msgs /\ at \in Nat \ {0} /\ pc = Pass(c)
           /\ IF c = "sign" THEN IsSigned(msgs[at]) ELSE IsOpen(msgs[at])
<1>1. at \in DOMAIN msgs /\ at \in Nat \ {0} /\ pc = Pass(c) /\ ~(at < at)
  BY DEF Inv, MsgsInv, InPass, IsQueue
<1> QED  BY <1>1 DEF Inv, MsgsInv, Pass, Caches

LEMMA SkipInv ==
    ASSUME Inv, NEW c \in Caches, Skip(c)
    PROVE  Inv'
<1>1. /\ InPass(c) /\ msgs[at].invalid /\ at' = at + 1
      /\ UNCHANGED <<pc, turn, range, answer, msgs, ended, held, cache, erasing, leaked, asked, known, missed>>
  BY DEF Skip
<1>2. at \in DOMAIN msgs /\ at \in Nat \ {0} /\ pc = Pass(c)  BY <1>1, InHand
<1>3. DOMAIN msgs \subseteq Nat  BY DEF Inv, MsgsInv, IsQueue
<1>4. TypeOK'  BY <1>1, <1>2 DEF Inv, TypeOK
<1>5. MsgsInv'
  <2>1. IsVerified(msgs[at]) /\ IsRead(msgs[at])  BY <1>1 DEF IsVerified, IsRead
  <2> QED  BY <1>1, <1>2, <1>3, <2>1 DEF Inv, MsgsInv, Pass
<1>6. KeysInv'  BY <1>1 DEF Inv, KeysInv
<1>7. HeldInv'
  <2>1. held = None
    <3>1. pc # "crashed"  BY <1>2 DEF Pass
    <3> QED  BY <1>1, <3>1 DEF Inv, HeldInv
  <2> QED  BY <1>1, <2>1 DEF HeldInv
<1>8. EndedInv'  BY <1>1 DEF Inv, EndedInv
<1> QED  BY <1>4, <1>5, <1>6, <1>7, <1>8 DEF Inv

LEMMA GetInv ==
    ASSUME Inv, NEW c \in Caches, get(c)
    PROVE  Inv'
<1> DEFINE k == KeyOf(c, msgs[at])
<1>1. /\ InPass(c) /\ ~msgs[at].invalid
      /\ cache' = [cache EXCEPT ![c] = [l \in DOMAIN @ \cup {k} |-> Entry(c, l)]]
      /\ \/ Invalid(msgs[at])
         \/ Entry(c, k) # Null /\ held' = Entry(c, k) /\ UNCHANGED <<msgs, at>>
      /\ UNCHANGED <<pc, turn, range, answer, ended, erasing, leaked, asked, known, missed>>
  BY DEF get
<1>2. /\ at \in DOMAIN msgs /\ at \in Nat \ {0} /\ pc = Pass(c)
      /\ IF c = "sign" THEN IsSigned(msgs[at]) ELSE IsOpen(msgs[at])
  BY <1>1, InHand
<1>3. Entry(c, k) \in {Null, Pending} \/ GoodKey(c, k, Entry(c, k))
  BY DEF Inv, KeysInv, Entry
<1>4. KeyOf(c, msgs[at]) = k  OBVIOUS
<1> HIDE DEF k
<1>5. KeysInv'
  <2>1. ASSUME NEW d \in Caches, NEW l \in DOMAIN cache'[d]
        PROVE  cache'[d][l] \in {Null, Pending} \/ GoodKey(d, l, cache'[d][l])
    <3>1. CASE d # c  BY <1>1, <2>1, <3>1 DEF Inv, KeysInv
    <3>2. CASE d = c
      <4>1. cache'[c][l] = Entry(c, l) /\ (l = k \/ l \in DOMAIN cache[c])
        BY <1>1, <2>1, <3>2 DEF Inv, KeysInv
      <4> QED  BY <1>3, <3>2, <4>1 DEF Inv, KeysInv, Entry
    <3> QED  BY <3>1, <3>2
  <2>2. DOMAIN cache' = Caches  BY <1>1 DEF Inv, KeysInv
  <2> QED  BY <1>1, <2>1, <2>2 DEF Inv, KeysInv
<1>6. CASE Invalid(msgs[at])
  <2> DEFINE m == [msgs[at] EXCEPT !.invalid = TRUE]
  <2>1. m.invalid  BY <1>1, <1>2, InvalidMessage
  <2>2. SetMessage(m)  BY <1>6 DEF Invalid
  <2>3. IsVerified(m) /\ IsRead(m)  BY <2>1 DEF IsVerified, IsRead
  <2> HIDE DEF m
  <2>4. MsgsInv' /\ HeldInv' /\ EndedInv'  BY <1>1, <2>2, <2>3, DoneWith
  <2>5. TypeOK'  BY <1>1, <1>2, <2>2 DEF Inv, TypeOK, SetMessage
  <2> QED  BY <1>5, <2>4, <2>5 DEF Inv
<1>7. CASE Entry(c, k) # Null /\ held' = Entry(c, k) /\ UNCHANGED <<msgs, at>>
  <2>1. TypeOK'  BY <1>1, <1>7 DEF Inv, TypeOK
  <2>2. MsgsInv'  BY <1>1, <1>7 DEF Inv, MsgsInv
  <2>3. HeldInv'
    <3>1. held' \in {Pending, Rejected, Locked} \/ GoodKey(c, k, held')  BY <1>3, <1>7
    <3>2. pc' = Pass(c) /\ at' = at /\ msgs' = msgs  BY <1>1, <1>2, <1>7
    <3>3. KeyOf(c, msgs'[at']) = k  BY <1>4, <3>2
    <3> QED  BY <1>1, <1>2, <3>1, <3>2, <3>3 DEF HeldInv
  <2>4. EndedInv'  BY <1>1 DEF Inv, EndedInv
  <2> QED  BY <1>5, <2>1, <2>2, <2>3, <2>4 DEF Inv
<1> QED  BY <1>1, <1>6, <1>7

(* A waiter that is to be erased is got as it is.                          *)
LEMMA GotErasing ==
    ASSUME Inv, NEW c \in Caches, getErasing(c)
    PROVE  /\ KeyOf(c, msgs[at]) \in DOMAIN erasing[c]
           /\ held' \in {Pending, Rejected, Locked}
           /\ held' = Locked => erasing[c][KeyOf(c, msgs[at])] = "locked"
<1> DEFINE k == KeyOf(c, msgs[at])
<1>1. /\ k \in DOMAIN erasing[c]
      /\ held' = CASE erasing[c][k] = "reject" -> Pending
                   [] erasing[c][k] = "erase" -> Rejected
                   [] erasing[c][k] = "locked" -> Locked
  BY DEF getErasing
<1> HIDE DEF k
<1>2. erasing[c][k] \in {"reject", "erase", "locked"}
  BY <1>1 DEF Inv, TypeOK, Range
<1>3. CASE erasing[c][k] = "reject"  BY <1>1, <1>3, StatesAssumption DEF k
<1>4. CASE erasing[c][k] = "erase"  BY <1>1, <1>4, StatesAssumption DEF k
<1>5. CASE erasing[c][k] = "locked"  BY <1>1, <1>5 DEF k
<1> QED  BY <1>2, <1>3, <1>4, <1>5

LEMMA WaiterThrowsInv ==
    ASSUME Inv, NEW c \in Caches, WaiterThrows(c)
    PROVE  Inv'
<1> DEFINE m == [msgs[at] EXCEPT !.invalid = TRUE]
<1>1. /\ InPass(c) /\ held = Rejected /\ SetMessage(m)
      /\ erasing' = [erasing EXCEPT ![c] =
            [k \in DOMAIN @ |-> IF k = KeyOf(c, msgs[at]) THEN "locked" ELSE @[k]]]
      /\ UNCHANGED <<pc, turn, range, answer, ended, cache, leaked, asked, known, missed>>
  BY DEF WaiterThrows, Invalid
<1>2. /\ at \in DOMAIN msgs /\ at \in Nat \ {0} /\ pc = Pass(c)
      /\ IF c = "sign" THEN IsSigned(msgs[at]) ELSE IsOpen(msgs[at])
  BY <1>1, InHand
<1>3. ~msgs[at].invalid
  BY <1>1, <1>2, StatesAssumption DEF Inv, HeldInv, Pass
<1>4. m.invalid  BY <1>2, <1>3, InvalidMessage
<1>5. IsVerified(m) /\ IsRead(m)  BY <1>4 DEF IsVerified, IsRead
<1> HIDE DEF m
<1>6. MsgsInv' /\ HeldInv' /\ EndedInv'  BY <1>1, <1>5, DoneWith
<1>7. TypeOK'
  <2>1. ASSUME NEW d \in Caches PROVE Range(erasing'[d]) \subseteq {"reject", "erase", "locked"}
    <3>1. \A l \in DOMAIN erasing'[d] :
            /\ l \in DOMAIN erasing[d]
            /\ erasing'[d][l] = erasing[d][l] \/ erasing'[d][l] = "locked"
      BY <1>1 DEF Inv, TypeOK
    <3> QED  BY <3>1 DEF Inv, TypeOK, Range
  <2> QED  BY <1>1, <1>2, <2>1 DEF Inv, TypeOK, SetMessage
<1>8. KeysInv'  BY <1>1 DEF Inv, KeysInv
<1> QED  BY <1>6, <1>7, <1>8 DEF Inv

LEMMA GetErasingInv ==
    ASSUME Inv, NEW c \in Caches, getErasing(c)
    PROVE  Inv'
<1>1. /\ InPass(c) /\ ~msgs[at].invalid
      /\ UNCHANGED <<pc, turn, range, answer, msgs, at, ended, cache, erasing, leaked, asked,
                     known>>
  BY DEF getErasing, readerVars
<1>2. held' \in {Pending, Rejected, Locked}  BY GotErasing
<1>3. at \in DOMAIN msgs /\ pc = Pass(c)  BY <1>1, InHand
<1>4. TypeOK'  BY <1>1 DEF Inv, TypeOK
<1>5. MsgsInv'  BY <1>1 DEF Inv, MsgsInv
<1>6. KeysInv'  BY <1>1 DEF Inv, KeysInv
<1>7. HeldInv'  BY <1>1, <1>2, <1>3 DEF HeldInv
<1>8. EndedInv'  BY <1>1 DEF Inv, EndedInv
<1> QED  BY <1>4, <1>5, <1>6, <1>7, <1>8 DEF Inv

(* What the reader got and can use is the right key of the message.        *)
LEMMA KeyInHand ==
    ASSUME Inv, NEW c \in Caches, InPass(c), held \notin {None, Pending, Rejected, Locked}
    PROVE  ~msgs[at].invalid /\ GoodKey(c, KeyOf(c, msgs[at]), held)
<1>1. pc = Pass(c) /\ pc # "crashed"  BY InHand DEF Pass
<1>2. PICK d \in Caches :
        /\ pc = Pass(d) /\ at \in DOMAIN msgs /\ ~msgs[at].invalid
        /\ held \in {Pending, Rejected, Locked} \/ GoodKey(d, KeyOf(d, msgs[at]), held)
  BY <1>1 DEF Inv, HeldInv
<1>3. d = c  BY <1>1, <1>2 DEF Pass, Caches
<1> QED  BY <1>2, <1>3

LEMMA NewContents ==
    ASSUME NEW i, NEW m, NEW text
    PROVE  /\ m = SignedForm(i) => [m EXCEPT !.message = BlockOf(i)] = VerifiedForm(i)
           /\ m = OpenForm(i) => [m EXCEPT !.message = text] = ReadForm(i, text)
<1>1. ASSUME m = SignedForm(i) PROVE [m EXCEPT !.message = BlockOf(i)] = VerifiedForm(i)
  <2> DEFINE n == [m EXCEPT !.message = BlockOf(i)]
             T == {i, FALSE, Posts[i].sender, Posts[i].uploaded, BlockOf(i), m.message}
  <2>1. m \in [msg_id : T, invalid : T, sender_id : T, upload_time : T, message : T]
    BY <1>1 DEF SignedForm
  <2>2. n \in [msg_id : T, invalid : T, sender_id : T, upload_time : T, message : T]
    BY <2>1
  <2>3. /\ n.msg_id = i /\ n.invalid = FALSE /\ n.sender_id = Posts[i].sender
        /\ n.upload_time = Posts[i].uploaded /\ n.message = BlockOf(i)
    BY <1>1 DEF SignedForm
  <2> HIDE DEF n, T
  <2>4. n = [msg_id |-> n.msg_id, invalid |-> n.invalid, sender_id |-> n.sender_id,
             upload_time |-> n.upload_time, message |-> n.message]
    BY <2>2
  <2> QED  BY <2>3, <2>4 DEF n, VerifiedForm
<1>2. ASSUME m = OpenForm(i) PROVE [m EXCEPT !.message = text] = ReadForm(i, text)
  <2> DEFINE n == [m EXCEPT !.message = text]
             T == {i, FALSE, Posts[i].sender, Posts[i].uploaded, Posts[i].sent, Posts[i].type,
                   text, m.message}
  <2>1. m \in [msg_id : T, invalid : T, sender_id : T, upload_time : T, send_time : T,
               type : T, message : T]
    BY <1>2 DEF OpenForm, ReadForm
  <2>2. n \in [msg_id : T, invalid : T, sender_id : T, upload_time : T, send_time : T,
               type : T, message : T]
    BY <2>1
  <2>3. /\ n.msg_id = i /\ n.invalid = FALSE /\ n.sender_id = Posts[i].sender
        /\ n.upload_time = Posts[i].uploaded /\ n.send_time = Posts[i].sent
        /\ n.type = Posts[i].type /\ n.message = text
    BY <1>2 DEF OpenForm, ReadForm
  <2> HIDE DEF n, T
  <2>4. n = [msg_id |-> n.msg_id, invalid |-> n.invalid, sender_id |-> n.sender_id,
             upload_time |-> n.upload_time, send_time |-> n.send_time, type |-> n.type,
             message |-> n.message]
    BY <2>2
  <2> QED  BY <2>3, <2>4 DEF n, ReadForm
<1> QED  BY <1>1, <1>2

LEMMA Checked ==
    ASSUME Inv, check_signature
    PROVE  \E m : /\ SetMessage(m) /\ IsVerified(m) /\ m.msg_id = msgs[at].msg_id
                  /\ m.invalid => m.message = <<>> /\ ~SignedWell(Posts[m.msg_id])
<1>1. /\ InPass("sign") /\ held \notin {None, Pending, Rejected, Locked}
      /\ UNCHANGED <<pc, turn, range, answer, ended, cache, erasing, leaked, asked, known, missed>>
  BY DEF check_signature
<1>2. PICK verified : /\ verified = verify(msgs[at].message, held)
                     /\ \/ verified.safe /\ SetMessage([msgs[at] EXCEPT !.message = verified.data])
                        \/ ~verified.safe /\ Invalid([msgs[at] EXCEPT !.message = <<>>])
  BY DEF check_signature
<1>3. "sign" \in Caches  BY DEF Caches
<1>4. at \in DOMAIN msgs /\ at \in Nat \ {0} /\ IsSigned(msgs[at])  BY <1>1, <1>3, InHand
<1>5. ~msgs[at].invalid /\ GoodKey("sign", KeyOf("sign", msgs[at]), held)
  BY <1>1, <1>3, KeyInHand
<1>6. PICK i \in DOMAIN Posts : msgs[at] = SignedForm(i)  BY <1>4, <1>5 DEF IsSigned
<1>7. PICK S : BlockOf(i) \in Seq(S)  BY BlockTyped
<1>8. /\ verified.safe <=> Posts[i].signer = held
      /\ verified.data = BlockOf(i)
  <2>1. msgs[at].message = sign(BlockOf(i), Posts[i].signer)  BY <1>6 DEF SignedForm
  <2> QED  BY <1>2, <1>7, <2>1, SignedVerifies
<1>9. msgs[at].sender_id = Posts[i].sender /\ msgs[at].msg_id = i  BY <1>6 DEF SignedForm
<1>10. SignedWell(Posts[i]) <=> verified.safe
  BY <1>5, <1>8, <1>9 DEF GoodKey, KeyOf, Names, TrueKey, SignedWell
<1>11. CASE verified.safe
  <2>1. [msgs[at] EXCEPT !.message = BlockOf(i)] = VerifiedForm(i)  BY <1>6, NewContents
  <2>2. VerifiedForm(i).msg_id = i /\ ~VerifiedForm(i).invalid  BY DEF VerifiedForm
  <2> QED  BY <1>2, <1>8, <1>9, <1>10, <1>11, <2>1, <2>2 DEF IsVerified
<1>12. CASE ~verified.safe
  <2> DEFINE m == [[msgs[at] EXCEPT !.message = <<>>] EXCEPT !.invalid = TRUE]
  <2>1. m.invalid /\ m.msg_id = msgs[at].msg_id /\ m.message = <<>>
    BY <1>4, <1>5, InvalidMessage
  <2>2. SetMessage(m)  BY <1>2, <1>12 DEF Invalid
  <2> HIDE DEF m
  <2> QED  BY <1>9, <1>10, <1>12, <2>1, <2>2 DEF IsVerified
<1> QED  BY <1>11, <1>12

LEMMA CheckInv ==
    ASSUME Inv, check_signature
    PROVE  Inv'
<1>1. /\ InPass("sign")
      /\ UNCHANGED <<pc, turn, range, answer, ended, cache, erasing, leaked, asked, known, missed>>
  BY DEF check_signature
<1>2. "sign" \in Caches  BY DEF Caches
<1>3. PICK m : SetMessage(m) /\ IsVerified(m)  BY Checked
<1>4. MsgsInv' /\ HeldInv' /\ EndedInv'  BY <1>1, <1>2, <1>3, DoneWith
<1>5. at \in Nat \ {0}  BY DEF Inv, MsgsInv
<1>6. TypeOK'  BY <1>1, <1>3, <1>5 DEF Inv, TypeOK, SetMessage
<1>7. KeysInv'  BY <1>1 DEF Inv, KeysInv
<1> QED  BY <1>4, <1>6, <1>7 DEF Inv

LEMMA ExtractInv ==
    ASSUME Inv, ExtractClientData
    PROVE  Inv'
<1> DEFINE E == [n \in DOMAIN msgs |-> IF msgs[n].invalid THEN msgs[n]
                                       ELSE extract_client_data(msgs[n])]
<1>1. /\ pc = "signatures" /\ at > Len(msgs) /\ pc' = "ids" /\ msgs' = E
      /\ UNCHANGED <<turn, range, answer, at, ended, held, cache, erasing, leaked, asked, known, missed>>
  BY DEF ExtractClientData
<1>2. /\ IsQueue(msgs) /\ DOMAIN msgs = 1 .. Len(msgs) /\ Len(msgs) \in Nat
      /\ at \in Nat
  BY DEF Inv, MsgsInv, IsQueue
<1>3. \A n \in DOMAIN msgs : IsVerified(msgs[n])  BY <1>1, <1>2 DEF Inv, MsgsInv
<1>4. DOMAIN E = DOMAIN msgs /\ E = [n \in DOMAIN msgs |-> E[n]]  OBVIOUS
<1>5. IsQueue(msgs')
  <2> HIDE DEF E
  <2> QED  BY <1>1, <1>2, <1>4, QueueMapped
<1>6. ASSUME NEW n \in DOMAIN msgs' PROVE IsOpen(msgs'[n])
  <2>1. n \in DOMAIN msgs  BY <1>1, <1>4
  <2>2. CASE msgs[n].invalid
    <3>1. msgs'[n] = msgs[n]  BY <1>1, <2>1, <2>2
    <3> QED  BY <2>2, <3>1 DEF IsOpen
  <2>3. CASE ~msgs[n].invalid
    <3>1. msgs'[n] = extract_client_data(msgs[n])  BY <1>1, <2>1, <2>3
    <3>2. PICK i \in DOMAIN Posts : SignedWell(Posts[i]) /\ msgs[n] = VerifiedForm(i)
      BY <1>3, <2>1, <2>3 DEF IsVerified
    <3> QED  BY <3>1, <3>2, OpenedForm DEF IsOpen
  <2> QED  BY <2>2, <2>3
<1>7. MsgsInv'  BY <1>1, <1>5, <1>6 DEF Inv, MsgsInv
<1>8. TypeOK'  BY <1>1 DEF Inv, TypeOK
<1>9. KeysInv'  BY <1>1 DEF Inv, KeysInv
<1>10. HeldInv'
  <2>1. held = None  BY <1>1, <1>2 DEF Inv, HeldInv
  <2> QED  BY <1>1, <2>1 DEF HeldInv
<1>11. EndedInv'  BY <1>1 DEF Inv, EndedInv
<1> QED  BY <1>7, <1>8, <1>9, <1>10, <1>11 DEF Inv

(* A read ends: what it returns was read, message by message.              *)
LEMMA EndInv ==
    ASSUME Inv, NEW threw \in BOOLEAN, End(threw),
           threw \/ \A n \in DOMAIN msgs : IsRead(msgs[n]),
           UNCHANGED <<turn, range, cache, erasing, leaked, asked, known, missed>>
    PROVE  Inv'
<1> DEFINE e == [msgs |-> msgs, threw |-> threw]
<1>1. /\ ended' = Append(ended, e) /\ pc' = "idle" /\ at' = 1 /\ held' = None
      /\ msgs' = <<>> /\ answer' = <<>>
  BY DEF End
<1>2. TypeOK'  BY <1>1 DEF Inv, TypeOK
<1>3. MsgsInv'  BY <1>1, EmptyQueue DEF MsgsInv
<1>4. KeysInv'  BY DEF Inv, KeysInv
<1>5. HeldInv'  BY <1>1 DEF HeldInv
<1>6. EndedInv'
  <2>1. e.msgs = msgs /\ e.threw = threw  OBVIOUS
  <2>2. IsQueue(ended) /\ IsQueue(msgs)  BY DEF Inv, EndedInv, MsgsInv
  <2> HIDE DEF e
  <2>3. /\ IsQueue(ended') /\ DOMAIN ended' = 1 .. Len(ended) + 1
        /\ \A j \in DOMAIN ended : ended'[j] = ended[j]
        /\ ended'[Len(ended) + 1] = e
    BY <1>1, <2>2, QueueExtended
  <2>4. \A j \in DOMAIN ended' : j \in DOMAIN ended \/ j = Len(ended) + 1
    BY <2>2, <2>3 DEF IsQueue
  <2> QED  BY <2>1, <2>2, <2>3, <2>4 DEF Inv, EndedInv
<1> QED  BY <1>2, <1>3, <1>4, <1>5, <1>6 DEF Inv

(* The decryption of a message with the key the reader got.                *)
LEMMA DecryptTries ==
    ASSUME Inv, InPass("chat"), held \notin {None, Pending, Rejected, Locked}
    PROVE  \E i \in DOMAIN Posts :
              /\ SignedWell(Posts[i]) /\ msgs[at] = OpenForm(i) /\ msgs[at].msg_id = i
              /\ at \in DOMAIN msgs /\ at \in Nat \ {0}
              /\ LET text == decrypt(KeyId(msgs[at]).rest, held)
                 IN  IF Clash(Posts[i]) THEN text = Throws
                     ELSE text = Posts[i].text /\ text # Throws
<1>3. "chat" \in Caches  BY DEF Caches
<1>4. at \in DOMAIN msgs /\ at \in Nat \ {0} /\ IsOpen(msgs[at])  BY <1>3, InHand
<1>5. ~msgs[at].invalid /\ GoodKey("chat", KeyOf("chat", msgs[at]), held)
  BY <1>3, KeyInHand
<1>6. PICK i \in DOMAIN Posts : SignedWell(Posts[i]) /\ msgs[at] = OpenForm(i)
  BY <1>4, <1>5 DEF IsOpen
<1> DEFINE p == Posts[i]
<1>7. /\ KeyId(msgs[at]).val = p.id
      /\ KeyId(msgs[at]).rest = encrypt(p.text, p.key)
  BY <1>6, OpenedForm
<1>8. p.id \in DOMAIN ChatKeys /\ held = ChatKeys[p.id]
  <2>1. KeyOf("chat", msgs[at]) = ChatKey(p.id)  BY <1>7 DEF KeyOf
  <2>2. ChatKey(p.id) \in Names("chat") /\ held = TrueKey("chat", ChatKey(p.id))
    BY <1>5, <2>1 DEF GoodKey
  <2>3. \A id : ChatKey(id)[2] = id  BY DEF ChatKey
  <2>4. PICK id \in DOMAIN ChatKeys : ChatKey(p.id) = ChatKey(id)  BY <2>2 DEF Names
  <2>5. id = p.id  BY <2>3, <2>4
  <2> QED  BY <2>2, <2>3, <2>4, <2>5 DEF TrueKey
<1>9. decrypt(KeyId(msgs[at]).rest, held) = IF p.key = held THEN p.text ELSE Throws
  BY <1>7 DEF decrypt, encrypt, Aes
<1>10. p.text # Throws  BY PostsTyped
<1>11. Clash(p) <=> p.key # held  BY <1>8 DEF Clash
<1>12. msgs[at].msg_id = i  BY <1>6 DEF OpenForm, ReadForm
<1> QED  BY <1>4, <1>6, <1>9, <1>10, <1>11, <1>12

LEMMA Decrypted ==
    ASSUME Inv, decrypt_message, ~End(TRUE)
    PROVE  /\ UNCHANGED <<pc, answer, ended>>
           /\ \E m : /\ SetMessage(m) /\ IsRead(m)
                     /\ m.msg_id = msgs[at].msg_id /\ ~m.invalid
<1>1. InPass("chat") /\ held \notin {None, Pending, Rejected, Locked}  BY DEF decrypt_message
<1>2. PICK text : /\ text = decrypt(KeyId(msgs[at]).rest, held)
                 /\ \/ /\ text # Throws /\ UNCHANGED <<pc, answer, ended>>
                       /\ SetMessage([msgs[at] EXCEPT !.message = text])
                    \/ /\ text = Throws /\ UNCHANGED <<pc, answer, ended>>
                       /\ SetMessage([msgs[at] EXCEPT !.message = Garbage])
                    \/ End(TRUE)
  BY DEF decrypt_message
<1>3. PICK i \in DOMAIN Posts :
        /\ SignedWell(Posts[i]) /\ msgs[at] = OpenForm(i) /\ msgs[at].msg_id = i
        /\ IF Clash(Posts[i]) THEN text = Throws ELSE text = Posts[i].text /\ text # Throws
  BY <1>1, <1>2, DecryptTries
<1>4. \A t : /\ [msgs[at] EXCEPT !.message = t] = ReadForm(i, t)
             /\ ReadForm(i, t).msg_id = i /\ ~ReadForm(i, t).invalid
  BY <1>3, NewContents DEF ReadForm
<1>5. CASE text # Throws
  <2>1. SetMessage(ReadForm(i, Posts[i].text))  BY <1>2, <1>3, <1>4, <1>5
  <2> QED  BY <1>2, <1>3, <1>4, <2>1 DEF IsRead
<1>6. CASE text = Throws
  <2>1. SetMessage(ReadForm(i, Garbage))  BY <1>2, <1>4, <1>6
  <2> QED  BY <1>2, <1>3, <1>4, <1>6, <2>1 DEF IsRead
<1> QED  BY <1>5, <1>6

(* A read throws only on a message whose key id is that of another key.    *)
LEMMA ThrewOnClash ==
    ASSUME Inv, decrypt_message, End(TRUE)
    PROVE  \E m \in Range(msgs) : Clash(Posts[m.msg_id])
<1>1. InPass("chat") /\ held \notin {None, Pending, Rejected, Locked}  BY DEF decrypt_message
<1>2. PICK i \in DOMAIN Posts :
        /\ msgs[at].msg_id = i /\ at \in DOMAIN msgs
        /\ LET text == decrypt(KeyId(msgs[at]).rest, held)
           IN  IF Clash(Posts[i]) THEN text = Throws ELSE text = Posts[i].text /\ text # Throws
  BY <1>1, DecryptTries
<1>3. ended' # ended
  <2>1. IsQueue(ended)  BY DEF Inv, EndedInv
  <2>2. PICK e : ended' = Append(ended, e)  BY DEF End
  <2>3. DOMAIN ended' = 1 .. Len(ended) + 1 /\ DOMAIN ended = 1 .. Len(ended) /\ Len(ended) \in Nat
    BY <2>1, <2>2, QueueExtended DEF IsQueue
  <2> QED  BY <2>3
<1>4. decrypt(KeyId(msgs[at]).rest, held) = Throws  BY <1>3 DEF decrypt_message
<1> QED  BY <1>2, <1>4 DEF Range

LEMMA DecryptInv ==
    ASSUME Inv, decrypt_message
    PROVE  Inv'
<1>1. /\ InPass("chat")
      /\ UNCHANGED <<turn, range, cache, erasing, leaked, asked, known, missed>>
  BY DEF decrypt_message
<1>2. "chat" \in Caches  BY DEF Caches
<1>3. CASE End(TRUE)  BY <1>1, <1>3, EndInv
<1>4. CASE ~End(TRUE)
  <2>1. UNCHANGED <<pc, answer, ended>>  BY <1>4, Decrypted
  <2>2. PICK m : SetMessage(m) /\ IsRead(m)  BY <1>4, Decrypted
  <2>3. MsgsInv' /\ HeldInv' /\ EndedInv'  BY <1>1, <1>2, <2>1, <2>2, DoneWith
  <2>4. at \in Nat \ {0}  BY DEF Inv, MsgsInv
  <2>5. TypeOK'  BY <1>1, <2>1, <2>2, <2>4 DEF Inv, TypeOK, SetMessage
  <2>6. KeysInv'  BY <1>1 DEF Inv, KeysInv
  <2> QED  BY <2>3, <2>5, <2>6 DEF Inv
<1> QED  BY <1>3, <1>4

LEMMA ReturnInv ==
    ASSUME Inv, Return
    PROVE  Inv'
<1>1. /\ pc = "decrypting" /\ at > Len(msgs) /\ End(FALSE)
      /\ UNCHANGED <<turn, range, cache, erasing, leaked, asked, known, missed>>
  BY DEF Return
<1>2. \A n \in DOMAIN msgs : n < at  BY <1>1 DEF Inv, MsgsInv, IsQueue
<1>3. \A n \in DOMAIN msgs : IsRead(msgs[n])  BY <1>1, <1>2 DEF Inv, MsgsInv
<1> QED  BY <1>1, <1>3, EndInv
-----------------------------------------------------------------------------
LEMMA InvNext == Inv /\ [Next]_vars => Inv'
<1> SUFFICES ASSUME Inv, [Next]_vars PROVE Inv'
  OBVIOUS
<1> "sign" \in Caches /\ "chat" \in Caches  BY DEF Caches
<1>1. ASSUME NEW r \in Ranges, read_messages(r) PROVE Inv'  BY <1>1, BeginInv
<1>2. CASE ReaderStep
  <2>1. CASE ensure_ecdsa_key_presance  BY <2>1, EnsureInv DEF ensure_ecdsa_key_presance
  <2>2. CASE ensure_aes_key_presance  BY <2>2, EnsureInv DEF ensure_aes_key_presance
  <2> QED  BY <1>2, <2>1, <2>2, ParseInv, CheckInv, ExtractInv, DecryptInv, ReturnInv, SkipInv,
              GetInv, GetErasingInv, WaiterThrowsInv DEF ReaderStep
<1>3. CASE TaskStep
  BY <1>3, ReadMessageInv, AnswerInv, HandleInv, RejectInv, EraseInv DEF TaskStep
<1>4. ASSUME NEW k \in Late \ known, Learn(k) PROVE Inv'  BY <1>4, LearnInv
<1>6. CASE MessagesFail \/ \E r \in asked : LoadFails(r)
  BY <1>6, MessagesFailInv, LoadFailsInv
<1>5. CASE UNCHANGED vars
  BY <1>5 DEF vars, readerVars, Inv, TypeOK, MsgsInv, KeysInv, HeldInv, EndedInv, KeyOf, Pass
<1> QED  BY <1>1, <1>2, <1>3, <1>4, <1>5, <1>6 DEF Next

THEOREM InvAlways == Spec => []Inv
<1> QED  BY InvInit, InvNext, PTL DEF Spec

(* Every variable of the reader and of the server keeps its type.          *)
THEOREM TypeCorrect == Spec => []TypeOK
<1>1. Inv => TypeOK  BY DEF Inv
<1> QED  BY <1>1, InvAlways, PTL

(* No message is shown as valid that was not signed with the key the server*)
(* has of its sender, and none with another time, type or text than she    *)
(* signed, unless two chat keys share their id (decode_message).           *)
THEOREM ValidAsSignedAlways == Spec => []ValidAsSigned
<1>1. ASSUME Inv PROVE ValidAsSigned
  <2> SUFFICES ASSUME NEW j \in DOMAIN ended, NEW m \in Valid(j)
               PROVE  LET p == Posts[m.msg_id]
                      IN  /\ m.sender_id = p.sender /\ SignedWell(p)
                          /\ m.upload_time = p.uploaded /\ m.send_time = p.sent
                          /\ m.type = p.type
                          /\ m.message = p.text \/ (Clash(p) /\ m.message = Garbage)
    BY DEF ValidAsSigned
  <2>1. ~m.invalid /\ ~ended[j].threw /\ \E n \in DOMAIN ended[j].msgs : m = ended[j].msgs[n]
    BY DEF Valid, Range
  <2>2. IsRead(m)  BY <1>1, <2>1 DEF Inv, EndedInv
  <2>3. PICK i \in DOMAIN Posts :
          /\ SignedWell(Posts[i])
          /\ \/ m = ReadForm(i, Posts[i].text)
             \/ Clash(Posts[i]) /\ m = ReadForm(i, Garbage)
    BY <2>1, <2>2 DEF IsRead
  <2> QED  BY <2>3 DEF ReadForm
<1> QED  BY <1>1, InvAlways, PTL
-----------------------------------------------------------------------------
(* What was read stays readable: its keys are in the caches, and what is in*)
(* a cache is neither erased nor changed.                                  *)
HasKey(c, k) == k \in DOMAIN cache[c] /\ cache[c][k] \notin {Null, Pending}
IdKey(i) == ChatKey(Posts[i].id)
ValidIds == {i \in DOMAIN Posts : \E j \in DOMAIN ended : \E m \in Valid(j) : m.msg_id = i}

(* The keys of the messages of this read, as far as they were needed.      *)
UsedInv ==
    \A n \in DOMAIN msgs : ~msgs[n].invalid =>
        /\ pc = "signatures" /\ n < at => HasKey("sign", Posts[msgs[n].msg_id].sender)
        /\ pc \in {"ids", "decrypting"} => HasKey("sign", Posts[msgs[n].msg_id].sender)
        /\ pc = "decrypting" /\ n < at => HasKey("chat", IdKey(msgs[n].msg_id))

KeptInv ==
    \A i \in ValidIds :
        /\ SignedWell(Posts[i]) /\ HasKey("sign", Posts[i].sender) /\ HasKey("chat", IdKey(i))
        /\ \A n \in DOMAIN msgs : msgs[n].msg_id = i => ~msgs[n].invalid

GotInv ==
    pc # "crashed" =>
        /\ held \in {Pending, Rejected, Locked} => msgs[at].msg_id \notin ValidIds
        /\ held \notin {None, Pending, Rejected, Locked} =>
              \A c \in Caches : pc = Pass(c) => HasKey(c, KeyOf(c, msgs[at]))

(* What is to be erased has no entry any more.                             *)
ErasingInv == \A c \in Caches : DOMAIN erasing[c] \cap DOMAIN cache[c] = {}

StayInv == Inv /\ ErasingInv /\ UsedInv /\ KeptInv /\ GotInv /\ ValidStaysValid
-----------------------------------------------------------------------------
LEMMA GoodKeysAreKeys ==
    ASSUME NEW c \in Caches, NEW k, NEW v, GoodKey(c, k, v)
    PROVE  v \notin {None, Null, Pending, Rejected, Locked}
<1>1. CASE c = "sign"
  <2>1. k \in DOMAIN SignKeys /\ v = SignKeys[k]  BY <1>1 DEF GoodKey, Names, TrueKey
  <2>2. v \in Range(SignKeys)  BY <2>1 DEF Range
  <2> QED  BY <2>2, StatesAssumption
<1>2. CASE c # "sign"
  <2>1. PICK id \in DOMAIN ChatKeys : k = ChatKey(id)  BY <1>2 DEF GoodKey, Names
  <2>2. v = ChatKeys[id]  BY <1>2, <2>1 DEF GoodKey, TrueKey, ChatKey
  <2>3. v \in Range(ChatKeys)  BY <2>2 DEF Range
  <2> QED  BY <2>3, StatesAssumption
<1> QED  BY <1>1, <1>2

(* The name under which the key of a message is looked for.                *)
LEMMA NameOf ==
    ASSUME Inv, NEW c \in Caches, InPass(c), ~msgs[at].invalid
    PROVE  /\ msgs[at].msg_id \in DOMAIN Posts
           /\ KeyOf(c, msgs[at]) = IF c = "sign" THEN Posts[msgs[at].msg_id].sender
                                   ELSE IdKey(msgs[at].msg_id)
<1>1. IF c = "sign" THEN IsSigned(msgs[at]) ELSE IsOpen(msgs[at])  BY InHand
<1>2. CASE c = "sign"
  <2>1. PICK i \in DOMAIN Posts : msgs[at] = SignedForm(i)  BY <1>1, <1>2 DEF IsSigned
  <2>2. msgs[at].msg_id = i /\ msgs[at].sender_id = Posts[i].sender  BY <2>1 DEF SignedForm
  <2> QED  BY <1>2, <2>2 DEF KeyOf
<1>3. CASE c # "sign"
  <2>1. PICK i \in DOMAIN Posts : msgs[at] = OpenForm(i)  BY <1>1, <1>3 DEF IsOpen
  <2>2. msgs[at].msg_id = i  BY <2>1 DEF OpenForm, ReadForm
  <2>3. KeyId(msgs[at]).val = Posts[i].id  BY <2>1, OpenedForm
  <2> QED  BY <1>3, <2>2, <2>3 DEF KeyOf, IdKey
<1> QED  BY <1>2, <1>3

(* A key that is in a cache is there after any step.                       *)
LEMMA SettleKeeps ==
    ASSUME Inv, NEW r \in asked, handle(r), NEW c \in Caches, NEW k, HasKey(c, k)
    PROVE  /\ HasKey(c, k)'
<1>1. PICK value : HandleAnswer(r, value)  BY DEF handle
<1> DEFINE isPending(l) == Entry(r.cache, l) = Pending
           unset == {l \in DOMAIN value : ~isPending(l)}
           rest == IF unset = {} THEN Rest(r.users, value) ELSE {}
           bad == unset \cup {l \in rest : ~isPending(l)}
<1>2. PICK fulfilled \in SUBSET (DOMAIN value \ bad), rejected \in SUBSET (rest \ bad) :
         Settle(r.cache, value, bad, fulfilled, rejected)
  BY <1>1 DEF HandleAnswer
<1>3. \A l \in fulfilled \cup rejected : Entry(r.cache, l) = Pending
  BY <1>2
<1> HIDE DEF bad, rest
<1>4. cache' = [cache EXCEPT ![r.cache] =
        [l \in DOMAIN cache[r.cache] \ rejected |->
            IF l \in fulfilled THEN value[l] ELSE cache[r.cache][l]]]
  BY <1>2 DEF Settle, Erased
<1>5. DOMAIN cache = Caches  BY DEF Inv, KeysInv
<1>6. CASE c # r.cache  BY <1>4, <1>5, <1>6 DEF HasKey
<1>7. CASE c = r.cache
  <2>1. k \notin fulfilled \cup rejected  BY <1>3, <1>7 DEF HasKey, Entry
  <2>2. k \in DOMAIN cache'[c] /\ cache'[c][k] = cache[c][k]
    BY <1>4, <1>5, <1>7, <2>1 DEF HasKey
  <2> QED  BY <2>2 DEF HasKey
<1> QED  BY <1>6, <1>7

LEMMA EnsureKeeps ==
    ASSUME Inv, NEW d \in Caches, NEW wanted, ensure_presance(d, wanted),
           NEW c \in Caches, NEW k, HasKey(c, k)
    PROVE  HasKey(c, k)'
<1> DEFINE missing == Missing(d, wanted)
<1>1. cache' = [cache EXCEPT ![d] =
        [l \in DOMAIN @ \cup missing |-> IF l \in missing THEN Pending ELSE Entry(d, l)]]
  BY DEF ensure_presance
<1>2. missing \cap DOMAIN cache[d] = {}  BY DEF Missing
<1> HIDE DEF missing
<1> QED  BY <1>1, <1>2 DEF Inv, KeysInv, HasKey, Entry

LEMMA GetKeeps ==
    ASSUME Inv, NEW d \in Caches, get(d), NEW c \in Caches, NEW k, HasKey(c, k)
    PROVE  HasKey(c, k)'
<1>1. PICK l : cache' = [cache EXCEPT ![d] = [x \in DOMAIN @ \cup {l} |-> Entry(d, x)]]
  BY DEF get
<1> QED  BY <1>1 DEF Inv, KeysInv, HasKey, Entry

LEMMA KeysStay ==
    ASSUME Inv, [Next]_vars, NEW c \in Caches, NEW k, HasKey(c, k)
    PROVE  HasKey(c, k)'
<1> "sign" \in Caches /\ "chat" \in Caches  BY DEF Caches
<1>1. CASE \E r \in asked : handle(r)  BY <1>1, SettleKeeps
<1>2. CASE ensure_ecdsa_key_presance \/ ensure_aes_key_presance
  BY <1>2, EnsureKeeps DEF ensure_ecdsa_key_presance, ensure_aes_key_presance, ensure
<1>3. CASE \E d \in Caches : get(d)  BY <1>3, GetKeeps
<1>4. CASE cache' = cache  BY <1>4 DEF HasKey
<1> QED
  BY <1>1, <1>2, <1>3, <1>4 DEF Next, ReaderStep, TaskStep, vars, read_messages, ParseMessages,
     check_signature, ExtractClientData, decrypt_message, Return, Skip, WaiterThrows,
     read_message, buid_cache_request_return, Learn, getErasing, reject, erase, LoadFails,
     MessagesFail

LEMMA ErasingNext ==
    ASSUME Inv, ErasingInv, [Next]_vars
    PROVE  ErasingInv'
<1> "sign" \in Caches /\ "chat" \in Caches  BY DEF Caches
<1>0. DOMAIN cache = Caches /\ DOMAIN erasing = Caches  BY DEF Inv, TypeOK
<1>1. ASSUME NEW r \in asked, handle(r) PROVE ErasingInv'
  <2> DEFINE c == r.cache
  <2>0. PICK value : HandleAnswer(r, value)  BY <1>1 DEF handle
  <2>1. PICK bad, fulfilled, rejected : Settle(c, value, bad, fulfilled, rejected)
    BY <2>0 DEF HandleAnswer
  <2>2. c \in Caches  BY DEF Inv, KeysInv
  <2> HIDE DEF c
  <2>3. /\ DOMAIN erasing'[c] = rejected /\ DOMAIN cache'[c] = DOMAIN cache[c] \ rejected
        /\ \A d \in Caches : d # c => cache'[d] = cache[d] /\ erasing'[d] = erasing[d]
    BY <1>0, <2>1, <2>2 DEF Settle, Erased
  <2> QED  BY <2>3 DEF ErasingInv
<1>2. ASSUME NEW c \in Caches, NEW from, ensure(c, from) PROVE ErasingInv'
  <2>1. /\ DOMAIN erasing[c] = {} /\ erasing' = erasing
        /\ \A d \in Caches : d # c => cache'[d] = cache[d]
    BY <1>0, <1>2 DEF ensure, ensure_presance, Free
  <2> QED  BY <2>1 DEF ErasingInv
<1>3. ASSUME NEW c \in Caches, get(c) PROVE ErasingInv'
  <2>1. PICK k : /\ k \notin DOMAIN erasing[c] /\ erasing' = erasing
                 /\ cache' = [cache EXCEPT ![c] = [l \in DOMAIN @ \cup {k} |-> Entry(c, l)]]
    BY <1>3 DEF get
  <2> QED  BY <1>0, <2>1 DEF ErasingInv
<1>4. CASE cache' = cache /\ \A c \in Caches : DOMAIN erasing'[c] \subseteq DOMAIN erasing[c]
  BY <1>4 DEF ErasingInv
<1>5. ASSUME NEW c \in Caches, NEW k \in DOMAIN erasing[c], reject(c, k) \/ erase(c, k)
      PROVE  ErasingInv'
  BY <1>0, <1>4, <1>5 DEF reject, erase
<1>6. ASSUME NEW c \in Caches, WaiterThrows(c) PROVE ErasingInv'
  BY <1>0, <1>4, <1>6 DEF WaiterThrows
<1>7. CASE cache' = cache /\ erasing' = erasing  BY <1>7 DEF ErasingInv
<1> QED
  BY <1>1, <1>2, <1>3, <1>5, <1>6, <1>7 DEF Next, ReaderStep, TaskStep, vars, read_messages,
     ParseMessages, ensure_ecdsa_key_presance, ensure_aes_key_presance, check_signature,
     ExtractClientData, decrypt_message, Return, Skip, read_message,
     buid_cache_request_return, Learn, getErasing, LoadFails, MessagesFail
-----------------------------------------------------------------------------
LEMMA SameEnded ==
    ASSUME ended' = ended
    PROVE  ValidIds' = ValidIds /\ (ValidStaysValid <=> ValidStaysValid')
  BY DEF ValidIds, Valid, ValidStaysValid

LEMMA IdleHolds ==
    ASSUME Inv, \A c \in Caches : pc # Pass(c), pc # "crashed"
    PROVE  held = None
  BY DEF Inv, HeldInv

(* A message that was read has all its keys.                               *)
LEMMA KeptKey ==
    ASSUME StayInv, NEW c \in Caches, InPass(c), ~msgs[at].invalid,
           msgs[at].msg_id \in ValidIds
    PROVE  HasKey(c, KeyOf(c, msgs[at]))
<1>1. KeyOf(c, msgs[at]) = IF c = "sign" THEN Posts[msgs[at].msg_id].sender
                          ELSE IdKey(msgs[at].msg_id)
  BY NameOf DEF StayInv
<1> QED  BY <1>1 DEF StayInv, KeptInv, Caches

(* The steps of a pass that are done with a message.                       *)
LEMMA PassStays ==
    ASSUME StayInv, [Next]_vars, NEW c \in Caches, InPass(c), NEW m, SetMessage(m),
           UNCHANGED <<pc, ended>>, m.msg_id = msgs[at].msg_id, ~msgs[at].invalid,
           m.invalid => m.msg_id \notin ValidIds,
           ~m.invalid => HasKey(c, KeyOf(c, msgs[at]))
    PROVE  UsedInv' /\ KeptInv' /\ GotInv' /\ ValidStaysValid'
<1>1. Inv /\ UsedInv /\ KeptInv /\ ValidStaysValid  BY DEF StayInv
<1>2. ValidIds' = ValidIds /\ ValidStaysValid'  BY <1>1, SameEnded
<1>3. /\ at \in DOMAIN msgs /\ at \in Nat \ {0} /\ pc = Pass(c) /\ IsQueue(msgs)
  BY <1>1, InHand DEF Inv, MsgsInv
<1>4. /\ DOMAIN msgs' = DOMAIN msgs /\ DOMAIN msgs \subseteq Nat
      /\ \A n \in DOMAIN msgs : msgs'[n] = IF n = at THEN m ELSE msgs[n]
  BY <1>3, QueueChanged DEF SetMessage, IsQueue
<1>5. at' = at + 1 /\ held' = None /\ pc' = pc  BY DEF SetMessage
<1>6. KeyOf(c, msgs[at]) = IF c = "sign" THEN Posts[m.msg_id].sender ELSE IdKey(m.msg_id)
  BY <1>1, NameOf
<1>7. \A d \in Caches : \A k : HasKey(d, k) => HasKey(d, k)'  BY <1>1, KeysStay
<1>8. "sign" \in Caches /\ "chat" \in Caches  BY DEF Caches
<1>9. UsedInv'
  <2> SUFFICES ASSUME NEW n \in DOMAIN msgs, ~msgs'[n].invalid, NEW i, i = msgs'[n].msg_id
               PROVE  /\ pc' = "signatures" /\ n < at' => HasKey("sign", Posts[i].sender)'
                      /\ pc' \in {"ids", "decrypting"} => HasKey("sign", Posts[i].sender)'
                      /\ pc' = "decrypting" /\ n < at' => HasKey("chat", IdKey(i))'
    BY <1>4 DEF UsedInv, HasKey, IdKey, ChatKey
  <2>1. CASE n = at
    <3>1. msgs'[n] = m /\ i = m.msg_id  BY <1>4, <2>1
    <3>2. CASE c = "sign"
      <4>1. HasKey("sign", Posts[i].sender)  BY <1>6, <3>1, <3>2
      <4>2. HasKey("sign", Posts[i].sender)'  BY <1>7, <1>8, <4>1
      <4> QED  BY <1>3, <1>5, <3>2, <4>2 DEF Pass
    <3>3. CASE c = "chat"
      <4>1. HasKey("chat", IdKey(i))  BY <1>6, <3>1, <3>3
      <4>2. HasKey("sign", Posts[i].sender)  BY <1>1, <1>3, <3>1, <3>3 DEF UsedInv, Pass
      <4>3. HasKey("chat", IdKey(i))' /\ HasKey("sign", Posts[i].sender)'
        BY <1>7, <1>8, <4>1, <4>2
      <4> QED  BY <1>3, <1>5, <3>3, <4>3 DEF Pass
    <3> QED  BY <3>2, <3>3 DEF Caches
  <2>2. CASE n # at
    <3>1. msgs'[n] = msgs[n] /\ n \in Nat /\ (n < at' => n < at)
      BY <1>3, <1>4, <1>5, <2>2
    <3>2. /\ pc = "signatures" /\ n < at => HasKey("sign", Posts[i].sender)
          /\ pc \in {"ids", "decrypting"} => HasKey("sign", Posts[i].sender)
          /\ pc = "decrypting" /\ n < at => HasKey("chat", IdKey(i))
      BY <1>1, <3>1 DEF UsedInv
    <3>3. /\ HasKey("sign", Posts[i].sender) => HasKey("sign", Posts[i].sender)'
          /\ HasKey("chat", IdKey(i)) => HasKey("chat", IdKey(i))'
      BY <1>7, <1>8
    <3> QED  BY <1>5, <3>1, <3>2, <3>3
  <2> QED  BY <2>1, <2>2
<1>10. KeptInv'
  <2> SUFFICES ASSUME NEW i \in ValidIds
               PROVE  /\ SignedWell(Posts[i])
                      /\ HasKey("sign", Posts[i].sender)' /\ HasKey("chat", IdKey(i))'
                      /\ \A n \in DOMAIN msgs : msgs'[n].msg_id = i => ~msgs'[n].invalid
    BY <1>2, <1>4 DEF KeptInv, SignedWell, IdKey, ChatKey
  <2> QED  BY <1>1, <1>4, <1>7, <1>8 DEF KeptInv
<1>11. GotInv'  BY <1>5, StatesAssumption DEF GotInv
<1> QED  BY <1>2, <1>9, <1>10, <1>11

(* The steps after which a cache may hold more, and the rest is as it was. *)
LEMMA OthersStay ==
    ASSUME StayInv, [Next]_vars, UNCHANGED <<msgs, ended>>, at' \in {at, 1},
           pc' # pc => \/ pc' \notin {"signatures", "ids", "decrypting"}
                       \/ at' = 1 /\ (pc' = "decrypting" => pc = "ids") /\ pc' # "ids",
           at' # at => pc' # pc
    PROVE  UsedInv' /\ KeptInv' /\ ValidStaysValid'
<1>1. Inv /\ UsedInv /\ KeptInv /\ ValidStaysValid  BY DEF StayInv
<1>2. ValidIds' = ValidIds /\ ValidStaysValid'  BY <1>1, SameEnded
<1>3. \A d \in Caches : \A k : HasKey(d, k) => HasKey(d, k)'  BY <1>1, KeysStay
<1>4. "sign" \in Caches /\ "chat" \in Caches  BY DEF Caches
<1>5. \A n \in DOMAIN msgs : n \in Nat /\ ~(n < 1)  BY <1>1 DEF Inv, MsgsInv, IsQueue
<1>6. UsedInv'
  <2> SUFFICES ASSUME NEW n \in DOMAIN msgs, ~msgs[n].invalid
               PROVE  /\ pc' = "signatures" /\ n < at' =>
                            HasKey("sign", Posts[msgs[n].msg_id].sender)'
                      /\ pc' \in {"ids", "decrypting"} =>
                            HasKey("sign", Posts[msgs[n].msg_id].sender)'
                      /\ pc' = "decrypting" /\ n < at' => HasKey("chat", IdKey(msgs[n].msg_id))'
    BY DEF UsedInv, IdKey, ChatKey
  <2>1. CASE pc' = pc  BY <1>1, <1>3, <1>4, <2>1 DEF UsedInv
  <2>2. CASE pc' # pc  BY <1>1, <1>3, <1>4, <1>5, <2>2 DEF UsedInv
  <2> QED  BY <2>1, <2>2
<1>7. KeptInv'
  <2> SUFFICES ASSUME NEW i \in ValidIds
               PROVE  /\ SignedWell(Posts[i])
                      /\ HasKey("sign", Posts[i].sender)' /\ HasKey("chat", IdKey(i))'
                      /\ \A n \in DOMAIN msgs : msgs[n].msg_id = i => ~msgs[n].invalid
    BY <1>2 DEF KeptInv, SignedWell, IdKey, ChatKey
  <2> QED  BY <1>1, <1>3, <1>4 DEF KeptInv
<1> QED  BY <1>2, <1>6, <1>7
-----------------------------------------------------------------------------
LEMMA StayInit == Init => StayInv
<1> SUFFICES ASSUME Init PROVE StayInv
  OBVIOUS
<1>1. ended = <<>> /\ msgs = <<>> /\ DOMAIN ended = {} /\ DOMAIN msgs = {}  BY DEF Init
<1>2. ValidIds = {} /\ ValidStaysValid  BY <1>1 DEF ValidIds, ValidStaysValid
<1>3. held = None  BY DEF Init
<1>4. ErasingInv  BY DEF Init, ErasingInv
<1> QED
  BY <1>1, <1>2, <1>3, <1>4, InvInit, StatesAssumption DEF StayInv, UsedInv, KeptInv, GotInv

LEMMA GetStays ==
    ASSUME StayInv, [Next]_vars, NEW c \in Caches, get(c)
    PROVE  UsedInv' /\ KeptInv' /\ GotInv' /\ ValidStaysValid'
<1>0. PICK k : k = KeyOf(c, msgs[at])  OBVIOUS
<1>1. /\ InPass(c) /\ ~msgs[at].invalid
      /\ \/ Entry(c, k) = Null /\ Invalid(msgs[at])
         \/ Entry(c, k) # Null /\ held' = Entry(c, k) /\ UNCHANGED <<msgs, at>>
      /\ UNCHANGED <<pc, turn, range, answer, ended, erasing, leaked, asked, known, missed>>
  BY <1>0 DEF get
<1>2. pc = Pass(c) /\ IF c = "sign" THEN IsSigned(msgs[at]) ELSE IsOpen(msgs[at])
  BY <1>1, InHand DEF StayInv
<1>3. HasKey(c, k) <=> Entry(c, k) \notin {Null, Pending}  BY DEF HasKey, Entry
<1>4. Entry(c, k) \in {Null, Pending} \/ GoodKey(c, k, Entry(c, k))
  BY DEF StayInv, Inv, KeysInv, Entry
<1>5. msgs[at].msg_id \in ValidIds => HasKey(c, k)  BY <1>1, <1>0, KeptKey
<1>7. CASE Entry(c, k) = Null /\ Invalid(msgs[at])
  <2> DEFINE m == [msgs[at] EXCEPT !.invalid = TRUE]
  <2>1. m.invalid /\ m.msg_id = msgs[at].msg_id  BY <1>1, <1>2, InvalidMessage
  <2>2. SetMessage(m)  BY <1>7 DEF Invalid
  <2> HIDE DEF m
  <2> QED  BY <1>1, <1>3, <1>5, <1>0, <1>7, <2>1, <2>2, PassStays
<1>8. CASE Entry(c, k) # Null /\ held' = Entry(c, k) /\ UNCHANGED <<msgs, at>>
  <2>1. UsedInv' /\ KeptInv' /\ ValidStaysValid'  BY <1>1, <1>8, OthersStay
  <2>2. held' # Pending => HasKey(c, k) /\ held' \notin {None, Pending, Rejected, Locked}
    BY <1>3, <1>4, <1>8, GoodKeysAreKeys
  <2>3. ValidIds' = ValidIds  BY <1>1, SameEnded
  <2>4. held' \in {Pending, Rejected, Locked} => msgs'[at'].msg_id \notin ValidIds'
    BY <1>3, <1>5, <1>8, <2>2, <2>3
  <2>5. held' \notin {None, Pending, Rejected, Locked} => HasKey(c, k)'
    <3>1. Inv  BY DEF StayInv
    <3>2. held' \notin {None, Pending, Rejected, Locked} => HasKey(c, k)  BY <2>2
    <3>3. HasKey(c, k) => HasKey(c, k)'  BY <3>1, KeysStay
    <3> QED  BY <3>2, <3>3
  <2>6. \A d \in Caches : pc' = Pass(d) => d = c  BY <1>1, <1>2 DEF Pass, Caches
  <2>7. \A d \in Caches : pc' = Pass(d) => d = c /\ KeyOf(d, msgs'[at']) = k
    BY <1>0, <1>8, <2>6
  <2>8. GotInv'
    <3>1. ASSUME NEW d \in Caches, pc' = Pass(d), held' \notin {None, Pending, Rejected, Locked}
          PROVE  HasKey(d, KeyOf(d, msgs[at]))'
      <4>1. d = c /\ KeyOf(d, msgs'[at']) = k  BY <2>7, <3>1
      <4>2. HasKey(c, k)'  BY <2>5, <3>1
      <4> QED  BY <4>1, <4>2 DEF HasKey
    <3> QED  BY <2>4, <3>1 DEF GotInv, Pass
  <2> QED  BY <2>1, <2>8
<1> QED  BY <1>1, <1>7, <1>8

LEMMA GetErasingStays ==
    ASSUME StayInv, [Next]_vars, NEW c \in Caches, getErasing(c)
    PROVE  UsedInv' /\ KeptInv' /\ GotInv' /\ ValidStaysValid'
<1>0. PICK k : k = KeyOf(c, msgs[at])  OBVIOUS
<1>1. /\ InPass(c) /\ ~msgs[at].invalid
      /\ UNCHANGED <<pc, msgs, at, ended, cache>>
  BY DEF getErasing, readerVars
<1>2. k \in DOMAIN erasing[c] /\ held' \in {Pending, Rejected, Locked}
  BY <1>0, GotErasing DEF StayInv
<1>3. ~HasKey(c, k)  BY <1>2 DEF StayInv, ErasingInv, HasKey
<1>4. msgs[at].msg_id \notin ValidIds  BY <1>0, <1>1, <1>3, KeptKey
<1>5. UsedInv' /\ KeptInv' /\ ValidStaysValid'  BY <1>1, OthersStay
<1>6. ValidIds' = ValidIds  BY <1>1, SameEnded
<1>7. GotInv'  BY <1>1, <1>2, <1>4, <1>6 DEF GotInv
<1> QED  BY <1>5, <1>7

LEMMA RejectStays ==
    ASSUME StayInv, [Next]_vars, NEW c \in Caches, NEW k, reject(c, k)
    PROVE  UsedInv' /\ KeptInv' /\ GotInv' /\ ValidStaysValid'
<1>1. /\ held' = IF WaitsFor(c, k) THEN Rejected ELSE held
      /\ UNCHANGED <<pc, msgs, at, ended, cache>>
  BY DEF reject, readerVars
<1>2. UsedInv' /\ KeptInv' /\ ValidStaysValid'  BY <1>1, OthersStay
<1>3. ValidIds' = ValidIds  BY <1>1, SameEnded
<1>4. GotInv'
  <2>1. CASE WaitsFor(c, k)
    BY <1>1, <1>3, <2>1, StatesAssumption DEF StayInv, GotInv, WaitsFor
  <2>2. CASE ~WaitsFor(c, k)
    BY <1>1, <1>3, <2>2 DEF StayInv, GotInv, HasKey, KeyOf, Pass
  <2> QED  BY <2>1, <2>2
<1> QED  BY <1>2, <1>4

LEMMA ThrowStays ==
    ASSUME StayInv, [Next]_vars, NEW c \in Caches, WaiterThrows(c)
    PROVE  UsedInv' /\ KeptInv' /\ GotInv' /\ ValidStaysValid'
<1> DEFINE m == [msgs[at] EXCEPT !.invalid = TRUE]
<1>1. InPass(c) /\ held = Rejected /\ SetMessage(m) /\ UNCHANGED <<pc, ended>>
  BY DEF WaiterThrows, Invalid
<1>2. pc = Pass(c) /\ IF c = "sign" THEN IsSigned(msgs[at]) ELSE IsOpen(msgs[at])
  BY <1>1, InHand DEF StayInv
<1>3. ~msgs[at].invalid
  BY <1>1, <1>2, StatesAssumption DEF StayInv, Inv, HeldInv, Pass
<1>4. m.invalid /\ m.msg_id = msgs[at].msg_id  BY <1>2, <1>3, InvalidMessage
<1>5. msgs[at].msg_id \notin ValidIds  BY <1>1, <1>2 DEF StayInv, GotInv, Pass
<1> HIDE DEF m
<1> QED  BY <1>1, <1>3, <1>4, <1>5, PassStays

LEMMA CheckStays ==
    ASSUME StayInv, [Next]_vars, check_signature
    PROVE  UsedInv' /\ KeptInv' /\ GotInv' /\ ValidStaysValid'
<1>1. /\ InPass("sign") /\ held \notin {None, Pending, Rejected, Locked} /\ UNCHANGED <<pc, ended>>
      /\ "sign" \in Caches
  BY DEF check_signature, Caches
<1>2. PICK m : /\ SetMessage(m) /\ m.msg_id = msgs[at].msg_id
               /\ m.invalid => ~SignedWell(Posts[m.msg_id])
  BY Checked DEF StayInv
<1>3. ~msgs[at].invalid  BY <1>1, KeyInHand DEF StayInv
<1>4. pc = Pass("sign") /\ pc # "crashed"  BY <1>1, InHand DEF StayInv, Pass
<1>5. HasKey("sign", KeyOf("sign", msgs[at]))  BY <1>1, <1>4 DEF StayInv, GotInv
<1>6. \A i \in ValidIds : SignedWell(Posts[i])  BY DEF StayInv, KeptInv
<1>7. m.invalid => m.msg_id \notin ValidIds  BY <1>2, <1>6
<1>8. SetMessage(m) /\ m.msg_id = msgs[at].msg_id  BY <1>2
<1> QED  BY <1>1, <1>3, <1>5, <1>7, <1>8, PassStays

LEMMA SkipStays ==
    ASSUME StayInv, [Next]_vars, NEW c \in Caches, Skip(c)
    PROVE  UsedInv' /\ KeptInv' /\ GotInv' /\ ValidStaysValid'
<1>1. /\ InPass(c) /\ msgs[at].invalid /\ at' = at + 1
      /\ UNCHANGED <<pc, turn, range, answer, msgs, ended, held, cache, erasing, leaked, asked, known, missed>>
  BY DEF Skip
<1>2. at \in DOMAIN msgs /\ at \in Nat \ {0} /\ pc = Pass(c)  BY <1>1, InHand DEF StayInv
<1>3. DOMAIN msgs \subseteq Nat  BY DEF StayInv, Inv, MsgsInv, IsQueue
<1>4. ValidIds' = ValidIds /\ ValidStaysValid'  BY <1>1, SameEnded DEF StayInv
<1>5. UsedInv'
  <2>1. \A n \in DOMAIN msgs : ~msgs[n].invalid /\ n < at + 1 => n < at
    BY <1>1, <1>2, <1>3
  <2> QED  BY <1>1, <2>1 DEF StayInv, UsedInv, HasKey, IdKey, ChatKey
<1>6. KeptInv'  BY <1>1, <1>4 DEF StayInv, KeptInv, HasKey, IdKey, ChatKey, SignedWell
<1>7. GotInv'
  <2>1. held = None
    <3>1. pc # "crashed"  BY <1>2 DEF Pass
    <3> QED  BY <1>1, <3>1 DEF StayInv, Inv, HeldInv
  <2> QED  BY <1>1, <2>1, StatesAssumption DEF GotInv
<1> QED  BY <1>4, <1>5, <1>6, <1>7

LEMMA HandleStays ==
    ASSUME StayInv, [Next]_vars, NEW r \in asked, handle(r)
    PROVE  UsedInv' /\ KeptInv' /\ GotInv' /\ ValidStaysValid'
<1> DEFINE c == r.cache
<1>1. PICK value : value = Decode(r) /\ HandleAnswer(r, value)  BY DEF handle
<1> DEFINE isPending(l) == Entry(c, l) = Pending
           unset == {l \in DOMAIN value : ~isPending(l)}
           rest == IF unset = {} THEN Rest(r.users, value) ELSE {}
           bad == unset \cup {l \in rest : ~isPending(l)}
<1>2. PICK fulfilled \in SUBSET (DOMAIN value \ bad), rejected \in SUBSET (rest \ bad) :
         Settle(c, value, bad, fulfilled, rejected)
  BY <1>1 DEF HandleAnswer
<1>3. \A l \in fulfilled : /\ Entry(c, l) = Pending /\ l \in DOMAIN value /\ l \notin rejected
  BY <1>2 DEF Rest
<1> HIDE DEF bad, rest
<1>4. /\ cache' = [cache EXCEPT ![c] =
            [l \in DOMAIN cache[c] \ rejected |->
                IF l \in fulfilled THEN value[l] ELSE cache[c][l]]]
      /\ held' = IF \E k \in fulfilled : WaitsFor(c, k)
                 THEN value[KeyOf(c, msgs[at])] ELSE held
      /\ pc' \in {pc, "crashed"}
  BY <1>2 DEF Settle, Erased
<1>5. UNCHANGED <<turn, range, answer, msgs, at, ended, known, missed>>  BY DEF handle
<1>6. c \in Caches /\ r.stage = "answer"  BY DEF StayInv, Inv, KeysInv, handle
<1>7. \A k \in DOMAIN value : GoodKey(c, k, value[k])
  BY <1>1, <1>6, DecodedIsTrue DEF StayInv, Inv, GoodKey
<1> HIDE DEF c
<1>8. UsedInv' /\ KeptInv' /\ ValidStaysValid'  BY <1>4, <1>5, OthersStay
<1>9. GotInv'
  <2> SUFFICES ASSUME pc' # "crashed" PROVE GotInv'
    BY DEF GotInv
  <2>1. pc' = pc /\ pc # "crashed" /\ GotInv /\ ValidIds' = ValidIds
    BY <1>4, <1>5, SameEnded DEF StayInv
  <2>2. CASE \E k \in fulfilled : WaitsFor(c, k)
    <3> DEFINE k == KeyOf(c, msgs[at])
    <3>1. k \in fulfilled /\ held' = value[k] /\ pc = Pass(c)  BY <1>4, <2>2 DEF WaitsFor
    <3>2. k \in DOMAIN value /\ value[k] \notin {None, Null, Pending, Rejected, Locked}
      BY <1>3, <1>6, <1>7, <3>1, GoodKeysAreKeys
    <3>3. k \in DOMAIN cache[c] \ rejected  BY <1>3, <3>1, StatesAssumption DEF Entry
    <3>4. k \in DOMAIN cache'[c] /\ cache'[c][k] = value[k]
      BY <1>4, <1>6, <3>1, <3>3 DEF StayInv, Inv, KeysInv
    <3>5. \A d \in Caches : pc' = Pass(d) => d = c  BY <1>6, <2>1, <3>1 DEF Pass, Caches
    <3>6. KeyOf(c, msgs'[at']) = k  BY <1>5
    <3> HIDE DEF k
    <3> QED  BY <3>1, <3>2, <3>4, <3>5, <3>6 DEF GotInv, HasKey
  <2>3. CASE ~(\E k \in fulfilled : WaitsFor(c, k))
    <3>1. held' = held  BY <1>4, <2>3
    <3>2. \A d \in Caches : KeyOf(d, msgs'[at']) = KeyOf(d, msgs[at])  BY <1>5
    <3>3. \A d \in Caches : \A k : HasKey(d, k) => HasKey(d, k)'  BY KeysStay DEF StayInv
    <3>4. held \notin {None, Pending, Rejected, Locked} =>
             \A d \in Caches : pc' = Pass(d) => HasKey(d, KeyOf(d, msgs[at]))'
      <4> SUFFICES ASSUME held \notin {None, Pending, Rejected, Locked},
                          NEW d \in Caches, pc' = Pass(d), NEW k, k = KeyOf(d, msgs[at])
                   PROVE  HasKey(d, k)'
        BY <1>5, <3>2 DEF HasKey
      <4> QED  BY <2>1, <3>3 DEF GotInv
    <3> QED  BY <1>5, <2>1, <3>1, <3>4 DEF GotInv
  <2> QED  BY <2>2, <2>3
<1> QED  BY <1>8, <1>9

(* A read ends: the messages it read are those whose keys it used.         *)
LEMMA EndStays ==
    ASSUME StayInv, [Next]_vars, NEW threw \in BOOLEAN, End(threw), UNCHANGED cache,
           threw \/ (pc = "decrypting" /\ at > Len(msgs))
    PROVE  UsedInv' /\ KeptInv' /\ GotInv' /\ ValidStaysValid'
<1> DEFINE e == [msgs |-> msgs, threw |-> threw]
<1>0. PICK last : last = Len(ended) + 1  OBVIOUS
<1>1. /\ ended' = Append(ended, e) /\ pc' = "idle" /\ at' = 1 /\ held' = None
      /\ msgs' = <<>> /\ DOMAIN msgs' = {}
  BY DEF End
<1>2. e.msgs = msgs /\ e.threw = threw  OBVIOUS
<1>3. IsQueue(ended) /\ IsQueue(msgs)  BY DEF StayInv, Inv, EndedInv, MsgsInv
<1> HIDE DEF e
<1>4. /\ DOMAIN ended' = 1 .. last
      /\ \A j \in DOMAIN ended : ended'[j] = ended[j]
      /\ ended'[last] = e
  BY <1>0, <1>1, <1>3, QueueExtended
<1>5. /\ last \in Nat /\ DOMAIN ended' = DOMAIN ended \cup {last}
      /\ \A j \in DOMAIN ended : j < last /\ j # last /\ j \in Nat
  BY <1>0, <1>3, <1>4 DEF IsQueue
<1>6. \A j \in DOMAIN ended : Valid(j)' = Valid(j)  BY <1>4 DEF Valid
<1>7. Valid(last)' = IF threw THEN {} ELSE {m \in Range(msgs) : ~m.invalid}
  BY <1>2, <1>4 DEF Valid
<1>8. ASSUME NEW n \in DOMAIN msgs, ~msgs[n].invalid, ~threw,
             NEW i, i = msgs[n].msg_id
      PROVE  /\ i \in DOMAIN Posts /\ SignedWell(Posts[i])
             /\ HasKey("sign", Posts[i].sender) /\ HasKey("chat", IdKey(i))
  <2>1. n < at /\ pc = "decrypting"  BY <1>3, <1>8 DEF StayInv, Inv, MsgsInv, IsQueue
  <2>2. IsRead(msgs[n])  BY <2>1 DEF StayInv, Inv, MsgsInv
  <2>3. i \in DOMAIN Posts /\ SignedWell(Posts[i])  BY <1>8, <2>2 DEF IsRead, ReadForm
  <2>4. HasKey("sign", Posts[i].sender) /\ HasKey("chat", IdKey(i))
    BY <1>8, <2>1 DEF StayInv, UsedInv
  <2> QED  BY <2>3, <2>4
<1>9. UsedInv'  BY <1>1 DEF UsedInv
<1>10. GotInv'  BY <1>1, StatesAssumption DEF GotInv
<1>11. KeptInv'
  <2> SUFFICES ASSUME NEW i \in DOMAIN Posts, NEW j \in DOMAIN ended', NEW m \in Valid(j)',
                      m.msg_id = i
               PROVE  /\ SignedWell(Posts[i])
                      /\ HasKey("sign", Posts[i].sender) /\ HasKey("chat", IdKey(i))
    BY <1>1 DEF KeptInv, ValidIds, HasKey, IdKey, ChatKey, SignedWell
  <2>1. CASE j \in DOMAIN ended
    <3>1. i \in ValidIds  BY <1>6, <2>1 DEF ValidIds
    <3> QED  BY <3>1 DEF StayInv, KeptInv
  <2>2. CASE j = last
    <3>1. ~threw /\ ~m.invalid /\ m \in Range(msgs)  BY <1>7, <2>2
    <3>2. PICK n \in DOMAIN msgs : m = msgs[n]  BY <3>1 DEF Range
    <3> QED  BY <1>8, <3>1, <3>2
  <2> QED  BY <1>5, <2>1, <2>2
<1>12. ValidStaysValid'
  <2> SUFFICES ASSUME NEW j \in DOMAIN ended', NEW k \in DOMAIN ended', j < k, ~ended'[k].threw,
                      NEW m \in Valid(j)', NEW n \in Range(ended'[k].msgs), m.msg_id = n.msg_id
               PROVE  ~n.invalid
    BY DEF ValidStaysValid
  <2>1. j \in DOMAIN ended /\ m \in Valid(j)
    <3>1. j \in DOMAIN ended  BY <1>0, <1>3, <1>4, <1>5 DEF IsQueue
    <3> QED  BY <1>6, <3>1
  <2>2. CASE k \in DOMAIN ended
    BY <1>4, <2>1, <2>2 DEF StayInv, ValidStaysValid
  <2>3. CASE k = last
    <3>1. n \in Range(msgs)  BY <1>2, <1>4, <2>3
    <3>2. PICK l \in DOMAIN msgs : n = msgs[l]  BY <3>1 DEF Range
    <3>3. \E l1 \in DOMAIN ended[j].msgs : m = ended[j].msgs[l1]  BY <2>1 DEF Valid, Range
    <3>4. IsRead(m) /\ ~m.invalid
      BY <2>1, <3>3 DEF StayInv, Inv, EndedInv, Valid
    <3>5. m.msg_id \in DOMAIN Posts  BY <3>4 DEF IsRead, ReadForm
    <3>6. m.msg_id \in ValidIds  BY <2>1, <3>5 DEF ValidIds
    <3> QED  BY <3>2, <3>6 DEF StayInv, KeptInv
  <2> QED  BY <1>5, <2>2, <2>3
<1> QED  BY <1>9, <1>10, <1>11, <1>12

LEMMA DecryptStays ==
    ASSUME StayInv, [Next]_vars, decrypt_message
    PROVE  UsedInv' /\ KeptInv' /\ GotInv' /\ ValidStaysValid'
<1>1. /\ InPass("chat") /\ held \notin {None, Pending, Rejected, Locked} /\ UNCHANGED cache
      /\ "chat" \in Caches
  BY DEF decrypt_message, Caches
<1>2. CASE End(TRUE)  BY <1>1, <1>2, EndStays
<1>3. CASE ~End(TRUE)
  <2>1. Inv  BY DEF StayInv
  <2>2. PICK m : SetMessage(m) /\ m.msg_id = msgs[at].msg_id /\ ~m.invalid
    BY <1>3, <2>1, Decrypted
  <2>3. UNCHANGED <<pc, ended>>  BY <1>3, <2>1, Decrypted
  <2>4. ~msgs[at].invalid  BY <1>1, <2>1, KeyInHand
  <2>5. pc = Pass("chat") /\ pc # "crashed"  BY <1>1, <2>1, InHand DEF Pass
  <2>6. HasKey("chat", KeyOf("chat", msgs[at]))  BY <1>1, <2>5 DEF StayInv, GotInv
  <2> QED  BY <1>1, <2>2, <2>3, <2>4, <2>6, PassStays
<1> QED  BY <1>2, <1>3

(* The steps that take all messages further at once.                       *)
LEMMA AllStay ==
    ASSUME StayInv, [Next]_vars, UNCHANGED <<ended, cache>>, held = None, held' = None,
           \/ pc' = "signers"
           \/ /\ pc' = "ids" /\ DOMAIN msgs' = DOMAIN msgs
              /\ \A n \in DOMAIN msgs : ~msgs[n].invalid => HasKey("sign", Posts[msgs[n].msg_id].sender),
           \A n \in DOMAIN msgs' :
              \/ ~msgs'[n].invalid /\ pc' = "signers"
              \/ /\ n \in DOMAIN msgs /\ msgs'[n].msg_id = msgs[n].msg_id
                 /\ msgs'[n].invalid = msgs[n].invalid
    PROVE  UsedInv' /\ KeptInv' /\ GotInv' /\ ValidStaysValid'
<1>1. ValidIds' = ValidIds /\ ValidStaysValid'  BY SameEnded DEF StayInv
<1>2. UsedInv'  BY DEF UsedInv, HasKey
<1>3. KeptInv'
  BY <1>1 DEF StayInv, KeptInv, HasKey, IdKey, ChatKey, SignedWell
<1>4. GotInv'  BY StatesAssumption DEF GotInv
<1> QED  BY <1>1, <1>2, <1>3, <1>4

LEMMA ParseStays ==
    ASSUME StayInv, [Next]_vars, ParseMessages
    PROVE  UsedInv' /\ KeptInv' /\ GotInv' /\ ValidStaysValid'
<1>1. /\ pc = "answered" /\ pc' = "signers" /\ UNCHANGED <<ended, cache, held>>
      /\ msgs' = [n \in DOMAIN answer |-> Extracted[answer[n]]]
  BY DEF ParseMessages
<1>2. held = None  BY <1>1, IdleHolds DEF StayInv, Pass
<1>3. \A n \in DOMAIN msgs' : ~msgs'[n].invalid
  <2>1. answer \in Seq(DOMAIN Posts)  BY DEF StayInv, Inv, MsgsInv
  <2>2. \A n \in DOMAIN answer : answer[n] \in DOMAIN Posts  BY <2>1
  <2>3. \A i \in DOMAIN Posts : ~SignedForm(i).invalid  BY DEF SignedForm
  <2>4. \A i \in DOMAIN Posts : ~Extracted[i].invalid  BY <2>3, ExtractedForm
  <2> QED  BY <1>1, <2>2, <2>4
<1> QED  BY <1>1, <1>2, <1>3, AllStay

LEMMA ExtractStays ==
    ASSUME StayInv, [Next]_vars, ExtractClientData
    PROVE  UsedInv' /\ KeptInv' /\ GotInv' /\ ValidStaysValid'
<1>1. /\ pc = "signatures" /\ at > Len(msgs) /\ pc' = "ids" /\ UNCHANGED <<ended, cache, held>>
      /\ DOMAIN msgs' = DOMAIN msgs
      /\ \A n \in DOMAIN msgs : msgs'[n] = IF msgs[n].invalid THEN msgs[n]
                                           ELSE extract_client_data(msgs[n])
  BY DEF ExtractClientData
<1>2. \A n \in DOMAIN msgs : n \in Nat /\ n < at
  BY <1>1 DEF StayInv, Inv, MsgsInv, IsQueue
<1>3. held = None
  <2>1. at \notin DOMAIN msgs  BY <1>2
  <2> QED  BY <1>1, <2>1 DEF StayInv, Inv, HeldInv
<1>4. \A n \in DOMAIN msgs : ~msgs[n].invalid => HasKey("sign", Posts[msgs[n].msg_id].sender)
  BY <1>1, <1>2 DEF StayInv, UsedInv
<1>5. \A n \in DOMAIN msgs : msgs'[n].msg_id = msgs[n].msg_id /\ msgs'[n].invalid = msgs[n].invalid
  <2> SUFFICES ASSUME NEW n \in DOMAIN msgs, ~msgs[n].invalid
               PROVE  msgs'[n].msg_id = msgs[n].msg_id /\ msgs'[n].invalid = msgs[n].invalid
    BY <1>1
  <2>1. IsVerified(msgs[n])  BY <1>1, <1>2 DEF StayInv, Inv, MsgsInv
  <2>2. PICK i \in DOMAIN Posts : msgs[n] = VerifiedForm(i)  BY <2>1 DEF IsVerified
  <2>3. msgs'[n] = OpenForm(i)  BY <1>1, <2>2, OpenedForm
  <2> QED  BY <2>2, <2>3 DEF OpenForm, ReadForm, VerifiedForm
<1> QED  BY <1>1, <1>3, <1>4, <1>5, AllStay

(* The steps outside of the passes, and those of the server.               *)
LEMMA OutsideStays ==
    ASSUME StayInv, [Next]_vars,
           \/ \E r \in Ranges : read_messages(r)
           \/ read_message \/ MessagesFail
           \/ ensure_ecdsa_key_presance \/ ensure_aes_key_presance
    PROVE  UsedInv' /\ KeptInv' /\ GotInv' /\ ValidStaysValid'
<1> DEFINE before == {"idle", "asked", "signers", "ids"}
<1>1. /\ UNCHANGED <<msgs, ended, held>> /\ pc \in before
      /\ at' = at \/ (at' = 1 /\ pc' # pc)
      /\ \/ pc' \in {"asked", "answered", "idle", "lost"} /\ at' = at
         \/ pc' = "signatures" /\ at' = 1
         \/ pc' = "decrypting" /\ at' = 1 /\ pc = "ids"
  BY DEF read_messages, read_message, MessagesFail, ensure_ecdsa_key_presance,
         ensure_aes_key_presance, ensure, Pass
<1>2. held = None  BY <1>1, IdleHolds DEF StayInv, Pass
<1>3. UsedInv' /\ KeptInv' /\ ValidStaysValid'  BY <1>1, OthersStay
<1>4. GotInv'  BY <1>1, <1>2, StatesAssumption DEF GotInv
<1> QED  BY <1>3, <1>4

LEMMA ServerStays ==
    ASSUME StayInv, [Next]_vars, UNCHANGED <<readerVars, held, cache>>
    PROVE  UsedInv' /\ KeptInv' /\ GotInv' /\ ValidStaysValid'
<1>1. UNCHANGED <<pc, msgs, at, ended, held, cache>>  BY DEF readerVars
<1>2. UsedInv' /\ KeptInv' /\ ValidStaysValid'  BY <1>1, OthersStay
<1>3. ValidIds' = ValidIds  BY <1>1, SameEnded
<1>4. GotInv'  BY <1>1, <1>3 DEF StayInv, GotInv, HasKey, KeyOf, Pass
<1> QED  BY <1>2, <1>4

LEMMA StayNext == StayInv /\ [Next]_vars => StayInv'
<1> SUFFICES ASSUME StayInv, [Next]_vars PROVE StayInv'
  OBVIOUS
<1> "sign" \in Caches /\ "chat" \in Caches  BY DEF Caches
<1>1. Inv'  BY InvNext DEF StayInv
<1>2. UsedInv' /\ KeptInv' /\ GotInv' /\ ValidStaysValid'
  <2>1. CASE \/ \E r \in Ranges : read_messages(r)
             \/ read_message \/ MessagesFail
             \/ ensure_ecdsa_key_presance \/ ensure_aes_key_presance
    BY <2>1, OutsideStays
  <2>2. CASE \/ UNCHANGED vars \/ \E k \in Late \ known : Learn(k)
             \/ \E r \in asked : buid_cache_request_return(r) \/ LoadFails(r)
             \/ \E c \in Caches : \E k \in DOMAIN erasing[c] : erase(c, k)
    BY <2>2, ServerStays DEF vars, Learn, buid_cache_request_return, LoadFails, erase
  <2>3. CASE Return
    BY <2>3, EndStays DEF Return
  <2>4. CASE check_signature \/ decrypt_message  BY <2>4, CheckStays, DecryptStays
  <2>5. CASE ParseMessages \/ ExtractClientData  BY <2>5, ParseStays, ExtractStays
  <2>6. CASE \E c \in Caches : Skip(c) \/ get(c) \/ getErasing(c) \/ WaiterThrows(c)
    BY <2>6, SkipStays, GetStays, GetErasingStays, ThrowStays
  <2>7. CASE \E r \in asked : handle(r)  BY <2>7, HandleStays
  <2>8. CASE \E c \in Caches : \E k \in DOMAIN erasing[c] : reject(c, k)
    BY <2>8, RejectStays
  <2> QED
    BY <2>1, <2>2, <2>3, <2>4, <2>5, <2>6, <2>7, <2>8 DEF Next, ReaderStep, TaskStep
<1>3. ErasingInv'  BY ErasingNext DEF StayInv
<1> QED  BY <1>1, <1>2, <1>3 DEF StayInv

(* What was read once is read again, by every later read that does not     *)
(* throw, whatever the server leaves out of its answers meanwhile.         *)
THEOREM ValidStaysValidAlways == Spec => []ValidStaysValid
<1>1. StayInv => ValidStaysValid  BY DEF StayInv
<1> QED  BY <1>1, StayInit, StayNext, PTL DEF Spec
-----------------------------------------------------------------------------
(* Why a message is invalid: a key that the server left out is gone, and   *)
(* after a read that threw any key may be.  Behind that stands what is     *)
(* known of the requests under way, of the keys that are waited for, and of*)
(* those that a cache holds a null for.                                    *)
KeyFor(c, i) == IF c = "sign" THEN Posts[i].sender ELSE IdKey(i)
Proper(c) == {KeyFor(c, i) : i \in DOMAIN Posts}

Threw == \E j \in DOMAIN ended : ended[j].threw
Gone(k) == Threw \/ k \in missed
Blamed(i) == ~SignedWell(Posts[i]) \/ Gone(Posts[i].sender) \/ Gone(IdKey(i))

CountInv ==
    /\ Len(ended) <= turn
    /\ pc \notin {"idle", "crashed"} => Len(ended) < turn

AskedInv ==
    \A r \in asked :
        /\ r.missing # {} /\ r.missing \subseteq r.users
        /\ \A k \in r.users : k \in Proper(r.cache) \/ k \notin Names(r.cache)
        /\ r.stage = "answer" => /\ DOMAIN r.keys \subseteq r.missing
                                 /\ r.missing \ DOMAIN r.keys \subseteq missed
        /\ \A k \in (r.users \ r.missing) \cap Proper(r.cache) :
              Threw \/ (k \in DOMAIN cache[r.cache] /\ Entry(r.cache, k) # Pending)

Wanted(c, k) ==
    /\ pc = Pass(c)
    /\ \E n \in DOMAIN msgs : n >= at /\ ~msgs[n].invalid /\ KeyOf(c, msgs[n]) = k

PendingInv ==
    pc # "crashed" =>
        \A c \in Caches : \A k \in Proper(c) : Entry(c, k) = Pending => Threw \/ Wanted(c, k)

NullInv ==
    \A c \in Caches : \A k :
        /\ k \in DOMAIN cache[c] /\ Entry(c, k) = Null => Gone(k)
        /\ Wanted(c, k) /\ Entry(c, k) = Null => Gone(k)

RejectedInv ==
    \A c \in Caches :
       held \in {Rejected, Locked} /\ pc = Pass(c) => Entry(c, KeyOf(c, msgs[at])) = Null

BlameInv == \A n \in DOMAIN msgs : msgs[n].invalid => Blamed(msgs[n].msg_id)

(* What is left of a message that failed in the first pass.                *)
IsGarbled(m) ==
    m.message = <<>> \/ \E i \in DOMAIN Posts : m.message = SignedForm(i).message
GarbledInv ==
    /\ pc = "signers" => \A n \in DOMAIN msgs : ~msgs[n].invalid
    /\ pc \in {"signatures", "ids"} =>
          \A n \in DOMAIN msgs : msgs[n].invalid => IsGarbled(msgs[n])

FailParts == /\ CountInv /\ AskedInv /\ PendingInv /\ NullInv /\ RejectedInv
             /\ BlameInv /\ GarbledInv /\ FailureExplained
FailInv == StayInv /\ FailParts
-----------------------------------------------------------------------------
(* The name a message that has not failed has for its key.                 *)
LEMMA NameIn ==
    ASSUME NEW c \in Caches, NEW m, ~m.invalid, IF c = "sign" THEN IsSigned(m) ELSE IsOpen(m)
    PROVE  m.msg_id \in DOMAIN Posts /\ KeyOf(c, m) = KeyFor(c, m.msg_id)
<1>1. CASE c = "sign"
  <2>1. PICK i \in DOMAIN Posts : m = SignedForm(i)  BY <1>1 DEF IsSigned
  <2> QED  BY <1>1, <2>1 DEF SignedForm, KeyOf, KeyFor
<1>2. CASE c # "sign"
  <2>1. PICK i \in DOMAIN Posts : m = OpenForm(i)  BY <1>2 DEF IsOpen
  <2>2. m.msg_id = i  BY <2>1 DEF OpenForm, ReadForm
  <2>3. KeyId(m).val = Posts[i].id  BY <2>1, OpenedForm
  <2> QED  BY <1>2, <2>2, <2>3 DEF KeyOf, KeyFor, IdKey
<1> QED  BY <1>1, <1>2

LEMMA Ahead ==
    ASSUME Inv, NEW c \in Caches, NEW n \in DOMAIN msgs, ~msgs[n].invalid,
           \/ pc = Pass(c) /\ n >= at
           \/ pc = IF c = "sign" THEN "signers" ELSE "ids"
    PROVE  msgs[n].msg_id \in DOMAIN Posts /\ KeyOf(c, msgs[n]) = KeyFor(c, msgs[n].msg_id)
<1>1. n \in Nat /\ at \in Nat /\ (n >= at => ~(n < at))  BY DEF Inv, MsgsInv, IsQueue
<1>2. IF c = "sign" THEN IsSigned(msgs[n]) ELSE IsOpen(msgs[n])
  BY <1>1 DEF Inv, MsgsInv, Pass, Caches
<1> QED  BY <1>2, NameIn

LEMMA SizeOfSign ==
    ASSUME NEW S, NEW q \in Seq(S), NEW key
    PROVE  /\ sign(q, key) # <<>> /\ Len(sign(q, key)) \in Nat /\ Len(sign(q, key)) > 1
           /\ sign(q, key)[2] = Signature(q, key)
           /\ \E R : sign(q, key) \in Seq(R)
<1> DEFINE s == Signature(q, key)
           n == Num(Len(<<s>>))
           T == S \cup {s, n}
           two == <<n>> \o <<s>>
<1>1. q \in Seq(T) /\ <<s>> \in Seq(T) /\ <<n>> \in Seq(T)  OBVIOUS
<1>2. sign(q, key) = two \o q  BY DEF sign, Block
<1>3. two \in Seq(T) /\ Len(two) = 2 /\ two[2] = s
  <2> HIDE DEF T, s, n
  <2> QED  BY <1>1
<1> HIDE DEF T, s, n, two
<1>4. /\ two \o q \in Seq(T) /\ Len(two \o q) = 2 + Len(q) /\ Len(q) \in Nat
      /\ (two \o q)[2] = s
  <2>1. Len(q) \in Nat  BY LenProperties
  <2>2. two \o q \in Seq(T)  BY <1>1, <1>3, ConcatProperties
  <2>3. Len(two \o q) = Len(two) + Len(q)  BY <1>1, <1>3, ConcatProperties
  <2>4. (two \o q)[2] = two[2]
    BY <1>1, <1>3, <2>1, ConcatProperties
  <2> QED  BY <1>3, <2>1, <2>2, <2>3, <2>4
<1>5. two \o q # <<>>  BY <1>4
<1> QED  BY <1>2, <1>4, <1>5 DEF s

(* It has no name of a key, whatever is taken for one.                     *)
LEMMA GarbledName ==
    ASSUME NEW m, IsGarbled(m)
    PROVE  KeyOf("chat", m) \notin Proper("chat") /\ KeyOf("chat", m) \notin Names("chat")
<1> DEFINE id == KeyId(m).val
<1>1. ASSUME NEW n PROVE id # UuidBytes(n)
  <2>1. CASE m.message = <<>>
    <3>1. id = SubSeq(<<>>, 1, 0)
      BY <2>1 DEF KeyId, extractConstantLengthQueue, ELONEF_UUID_SIZE, Read
    <3>2. SubSeq(<<>>, 1, 0) = <<>> /\ UuidBytes(n) # <<>>  BY DEF UuidBytes
    <3> QED  BY <3>1, <3>2
  <2>2. ASSUME NEW i \in DOMAIN Posts, m.message = SignedForm(i).message
        PROVE  id # UuidBytes(n)
    <3>1. PICK S : BlockOf(i) \in Seq(S)  BY BlockTyped
    <3>2. PICK q : q = sign(BlockOf(i), Posts[i].signer)  OBVIOUS
    <3>3. m.message = q  BY <2>2, <3>2 DEF SignedForm
    <3>4. PICK R : q \in Seq(R)  BY <3>1, <3>2, SizeOfSign
    <3>5. Len(q) \in Nat /\ Len(q) > 1 /\ q[2] = Signature(BlockOf(i), Posts[i].signer)
      BY <3>1, <3>2, SizeOfSign
    <3>6. ELONEF_UUID_SIZE(q) = 2  BY <3>5 DEF ELONEF_UUID_SIZE, Signature
    <3>7. id = SubSeq(q, 1, 2)
      BY <3>3, <3>5, <3>6 DEF KeyId, extractConstantLengthQueue, Read
    <3>8. Len(SubSeq(q, 1, 2)) = 2  BY <3>4, <3>5
    <3>9. Len(UuidBytes(n)) = 1  BY DEF UuidBytes
    <3> QED  BY <3>7, <3>8, <3>9
  <2> QED  BY <2>1, <2>2 DEF IsGarbled
<1>2. KeyOf("chat", m) = ChatKey(id)  BY DEF KeyOf
<1> HIDE DEF id
<1>3. ASSUME NEW d PROVE ChatKey(id) = ChatKey(d) <=> id = d  BY DEF ChatKey
<1>4. \A i \in DOMAIN Posts : \E n : Posts[i].id = UuidBytes(n)  BY PostsTyped
<1>5. \A d \in DOMAIN ChatKeys : \E n : d = UuidBytes(n)  BY IdsAssumption
<1>6. KeyOf("chat", m) \notin Proper("chat")
  BY <1>1, <1>2, <1>3, <1>4 DEF Proper, KeyFor, IdKey
<1>7. KeyOf("chat", m) \notin Names("chat")
  BY <1>1, <1>2, <1>3, <1>5 DEF Names
<1> QED  BY <1>6, <1>7

LEMMA Grows ==
    ASSUME Inv, [Next]_vars
    PROVE  /\ missed \subseteq missed' /\ (Threw => Threw')
           /\ \A k : Gone(k) => Gone(k)'
           /\ \A i : Blamed(i) => Blamed(i)'
<1>1. missed \subseteq missed'
  BY DEF Next, ReaderStep, TaskStep, vars, readerVars, read_messages, ParseMessages,
     ensure_ecdsa_key_presance, ensure_aes_key_presance, ensure, get, handle,
     check_signature, ExtractClientData, decrypt_message, Return, Skip, WaiterThrows,
     read_message, buid_cache_request_return, Learn, getErasing, reject, erase, LoadFails,
     MessagesFail
<1>2. ended' = ended \/ \E e : ended' = Append(ended, e)
  BY DEF Next, ReaderStep, TaskStep, vars, readerVars, read_messages, ParseMessages,
     ensure_ecdsa_key_presance, ensure_aes_key_presance, ensure, get, handle, End,
     check_signature, ExtractClientData, decrypt_message, Return, Skip, WaiterThrows,
     read_message, buid_cache_request_return, Learn, getErasing, reject, erase, LoadFails,
     MessagesFail
<1>3. IsQueue(ended)  BY DEF Inv, EndedInv
<1>4. Threw => Threw'
  <2>1. ASSUME NEW e, ended' = Append(ended, e) PROVE Threw => Threw'
    <3>1. \A j \in DOMAIN ended : j \in DOMAIN ended' /\ ended'[j] = ended[j]
      BY <1>3, <2>1, QueueExtended DEF IsQueue
    <3> QED  BY <3>1 DEF Threw
  <2> QED  BY <1>2, <2>1 DEF Threw
<1>5. \A k : Gone(k) => Gone(k)'  BY <1>1, <1>4 DEF Gone
<1>6. \A i : Blamed(i) => Blamed(i)'
  <2> SUFFICES ASSUME NEW i, Blamed(i) PROVE Blamed(i)'
    OBVIOUS
  <2> DEFINE a == Posts[i].sender  b == IdKey(i)
  <2>1. (Gone(a) => Gone(a)') /\ (Gone(b) => Gone(b)')  BY <1>5
  <2> QED  BY <2>1 DEF Blamed, SignedWell, IdKey, ChatKey
<1> QED  BY <1>1, <1>4, <1>5, <1>6
-----------------------------------------------------------------------------
(* What the steps do to the entries of the caches.                         *)
LEMMA EntryIn ==
    ASSUME NEW c \in Caches, NEW k, KeysInv
    PROVE  /\ Entry(c, k) # Null => k \in DOMAIN cache[c]
           /\ Entry(c, k) \in {Null, Pending} \/ GoodKey(c, k, Entry(c, k))
  BY DEF KeysInv, Entry

LEMMA EnsureEffects ==
    ASSUME Inv, NEW c \in Caches, NEW from, ensure(c, from)
    PROVE  \E wanted, missing, request :
              /\ wanted = {KeyOf(c, msgs[n]) : n \in DOMAIN msgs}
              /\ missing = wanted \ DOMAIN cache[c]
              /\ request.cache = c /\ request.users = wanted /\ request.missing = missing
              /\ request.stage = "request"
              /\ asked' = IF missing = {} THEN asked ELSE asked \cup {request}
              /\ \A d \in Caches : \A k :
                    /\ Entry(d, k)' = IF d = c /\ k \in missing THEN Pending ELSE Entry(d, k)
                    /\ k \in DOMAIN cache'[d] <=> k \in DOMAIN cache[d] \/ (d = c /\ k \in missing)
              /\ Free(c) /\ pc = from /\ pc' = Pass(c) /\ at' = 1
              /\ UNCHANGED <<turn, range, answer, msgs, ended, held, erasing, leaked, known, missed>>
<1> DEFINE wanted == {KeyOf(c, msgs[n]) : n \in DOMAIN msgs}
           missing == Missing(c, wanted)
           request == [turn |-> turn, cache |-> c, users |-> wanted, missing |-> missing,
                       stage |-> "request", keys |-> <<>>]
<1>1. /\ pc = from /\ pc' = Pass(c) /\ at' = 1 /\ Free(c)
      /\ cache' = [cache EXCEPT ![c] =
            [k \in DOMAIN @ \cup missing |-> IF k \in missing THEN Pending ELSE Entry(c, k)]]
      /\ asked' = IF missing = {} THEN asked ELSE asked \cup {request}
      /\ UNCHANGED <<turn, range, answer, msgs, ended, held, erasing, leaked, known, missed>>
  BY DEF ensure, ensure_presance
<1>2. /\ request.cache = c /\ request.users = wanted /\ request.missing = missing
      /\ request.stage = "request"
  OBVIOUS
<1>3. missing = wanted \ DOMAIN cache[c]  BY DEF Missing
<1> HIDE DEF missing, request, wanted
<1>4. ASSUME NEW d \in Caches, NEW k
      PROVE  /\ Entry(d, k)' = IF d = c /\ k \in missing THEN Pending ELSE Entry(d, k)
             /\ k \in DOMAIN cache'[d] <=> k \in DOMAIN cache[d] \/ (d = c /\ k \in missing)
  <2>1. DOMAIN cache = Caches  BY DEF Inv, KeysInv
  <2>2. CASE d # c  BY <1>1, <2>1, <2>2 DEF Entry
  <2>3. CASE d = c
    <3>1. cache'[c] = [l \in DOMAIN cache[c] \cup missing |->
                         IF l \in missing THEN Pending ELSE Entry(c, l)]
      BY <1>1, <2>1
    <3> QED  BY <2>3, <3>1 DEF Entry
  <2> QED  BY <2>2, <2>3
<1>5. wanted = {KeyOf(c, msgs[n]) : n \in DOMAIN msgs}  BY DEF wanted
<1> QED  BY <1>1, <1>2, <1>3, <1>4, <1>5

LEMMA GetEffects ==
    ASSUME Inv, NEW c \in Caches, get(c)
    PROVE  \A d \in Caches : \A k :
              /\ Entry(d, k)' = Entry(d, k)
              /\ k \in DOMAIN cache'[d] <=>
                    k \in DOMAIN cache[d] \/ (d = c /\ k = KeyOf(c, msgs[at]))
<1> DEFINE q == KeyOf(c, msgs[at])
<1>1. cache' = [cache EXCEPT ![c] = [l \in DOMAIN @ \cup {q} |-> Entry(c, l)]]
  BY DEF get
<1> HIDE DEF q
<1>2. ASSUME NEW d \in Caches, NEW k
      PROVE  /\ Entry(d, k)' = Entry(d, k)
             /\ k \in DOMAIN cache'[d] <=> k \in DOMAIN cache[d] \/ (d = c /\ k = q)
  <2>1. DOMAIN cache = Caches  BY DEF Inv, KeysInv
  <2>2. CASE d # c  BY <1>1, <2>1, <2>2 DEF Entry
  <2>3. CASE d = c
    <3>1. cache'[c] = [l \in DOMAIN cache[c] \cup {q} |-> Entry(c, l)]  BY <1>1, <2>1
    <3> QED  BY <2>3, <3>1 DEF Entry
  <2> QED  BY <2>2, <2>3
<1> QED  BY <1>2 DEF q

(* The handler: what it settled, and why it stopped if it did.             *)
Settled(r, value, fulfilled, rejected) ==
    /\ DOMAIN value = DOMAIN r.keys /\ fulfilled \subseteq DOMAIN value
    /\ rejected \subseteq r.users \ DOMAIN value
    /\ \A k \in fulfilled \cup rejected : Entry(r.cache, k) = Pending
    /\ \A k \in DOMAIN value : GoodKey(r.cache, k, value[k])
    /\ \A d \in Caches : \A k :
          /\ Entry(d, k)' = IF d = r.cache /\ k \in rejected THEN Null
                            ELSE IF d = r.cache /\ k \in fulfilled THEN value[k] ELSE Entry(d, k)
          /\ k \in DOMAIN cache'[d] <=> k \in DOMAIN cache[d] /\ (d # r.cache \/ k \notin rejected)
    /\ erasing' = [erasing EXCEPT ![r.cache] = [k \in rejected |-> "reject"]]
    /\ held' = IF \E k \in fulfilled : WaitsFor(r.cache, k)
               THEN value[KeyOf(r.cache, msgs[at])] ELSE held
    /\ pc' = pc \/ (pc' = "crashed" /\ \E k \in r.users \cup DOMAIN value : Entry(r.cache, k) = Null)
    /\ leaked' = leaked \/ \E k \in r.users \cup DOMAIN value : Entry(r.cache, k) \notin {Null, Pending}

LEMMA HandleEffects ==
    ASSUME Inv, NEW r \in asked, handle(r)
    PROVE  /\ r.stage = "answer" /\ r.cache \in Caches /\ asked' = asked \ {r}
           /\ UNCHANGED <<turn, range, answer, msgs, at, ended, known, missed>>
           /\ \E value, fulfilled, rejected : Settled(r, value, fulfilled, rejected)
<1> DEFINE c == r.cache
<1>1. PICK value : value = Decode(r) /\ HandleAnswer(r, value)  BY DEF handle
<1>2. /\ c \in Caches /\ r.stage = "answer" /\ asked' = asked \ {r}
      /\ UNCHANGED <<turn, range, answer, msgs, at, ended, known, missed>>
  BY DEF Inv, KeysInv, handle
<1> DEFINE isPending(k) == Entry(c, k) = Pending
           unset == {k \in DOMAIN value : ~isPending(k)}
           rest == IF unset = {} THEN Rest(r.users, value) ELSE {}
           bad == unset \cup {k \in rest : ~isPending(k)}
<1>3. PICK fulfilled \in SUBSET (DOMAIN value \ bad), rejected \in SUBSET (rest \ bad) :
         Settle(c, value, bad, fulfilled, rejected)
  BY <1>1 DEF HandleAnswer
<1>4. /\ fulfilled \subseteq DOMAIN value /\ rejected \subseteq r.users \ DOMAIN value
      /\ \A k \in fulfilled \cup rejected : Entry(c, k) = Pending
      /\ \A k \in bad : k \in r.users \cup DOMAIN value /\ Entry(c, k) # Pending
  BY <1>3 DEF Rest
<1> HIDE DEF bad, rest
<1>5. /\ cache' = [cache EXCEPT ![c] =
            [k \in DOMAIN cache[c] \ rejected |->
                IF k \in fulfilled THEN value[k] ELSE cache[c][k]]]
      /\ erasing' = [erasing EXCEPT ![c] = [k \in rejected |-> "reject"]]
      /\ held' = IF \E k \in fulfilled : WaitsFor(c, k)
                 THEN value[KeyOf(c, msgs[at])] ELSE held
  BY <1>3 DEF Settle, Erased
<1>6. pc' = pc \/ (pc' = "crashed" /\ \E k \in r.users \cup DOMAIN value : Entry(c, k) = Null)
  BY <1>3, <1>4 DEF Settle
<1>7. leaked' = leaked \/ \E k \in r.users \cup DOMAIN value : Entry(c, k) \notin {Null, Pending}
  BY <1>3, <1>4 DEF Settle
<1>8. DOMAIN value = DOMAIN r.keys  BY <1>1 DEF Decode
<1>9. \A k \in DOMAIN value : GoodKey(c, k, value[k])
  BY <1>1, <1>2, DecodedIsTrue DEF Inv, GoodKey
<1> HIDE DEF c
<1>10. ASSUME NEW d \in Caches, NEW k
       PROVE  /\ Entry(d, k)' = IF d = c /\ k \in rejected THEN Null
                                ELSE IF d = c /\ k \in fulfilled THEN value[k] ELSE Entry(d, k)
              /\ k \in DOMAIN cache'[d] <=> k \in DOMAIN cache[d] /\ (d # c \/ k \notin rejected)
  <2>1. DOMAIN cache = Caches  BY DEF Inv, KeysInv
  <2>2. CASE d # c  BY <1>5, <2>1, <2>2 DEF Entry
  <2>3. CASE d = c
    <3>1. cache'[c] = [l \in DOMAIN cache[c] \ rejected |->
                         IF l \in fulfilled THEN value[l] ELSE cache[c][l]]
      BY <1>2, <1>5, <2>1
    <3>2. \A l \in fulfilled : l \in DOMAIN cache[c] \ rejected
      BY <1>4, StatesAssumption DEF Entry
    <3> QED  BY <2>3, <3>1, <3>2 DEF Entry
  <2> QED  BY <2>2, <2>3
<1>11. Settled(r, value, fulfilled, rejected)
  BY <1>4, <1>5, <1>6, <1>7, <1>8, <1>9, <1>10 DEF c, Settled
<1> QED  BY <1>2, <1>11 DEF c
-----------------------------------------------------------------------------
LEMMA FailInit == Init => FailInv
<1> SUFFICES ASSUME Init PROVE FailInv
  OBVIOUS
<1>1. /\ ended = <<>> /\ msgs = <<>> /\ DOMAIN ended = {} /\ DOMAIN msgs = {} /\ Len(ended) = 0
      /\ turn = 0 /\ pc = "idle" /\ asked = {} /\ held = None
      /\ cache = [c \in Caches |-> <<>>] /\ DOMAIN <<>> = {}
  BY DEF Init
<1>2. \A c \in Caches : \A k : Entry(c, k) = Null /\ k \notin DOMAIN cache[c] /\ ~Wanted(c, k)
  BY <1>1 DEF Entry, Wanted, Pass
<1>3. CountInv  BY <1>1 DEF CountInv
<1>4. AskedInv  BY <1>1 DEF AskedInv
<1>5. PendingInv  BY <1>2, StatesAssumption DEF PendingInv
<1>6. NullInv  BY <1>2 DEF NullInv
<1>7. RejectedInv  BY <1>1, StatesAssumption DEF RejectedInv
<1>8. BlameInv /\ GarbledInv /\ FailureExplained
  BY <1>1 DEF BlameInv, GarbledInv, FailureExplained
<1> QED  BY <1>3, <1>4, <1>5, <1>6, <1>7, <1>8, StayInit DEF FailInv, FailParts

(* The steps that change no entry: all that is wanted stays so, until its  *)
(* key has come.                                                           *)
LEMMA KeysKept ==
    ASSUME FailInv, [Next]_vars, pc # "crashed",
           \A d \in Caches : \A k :
              /\ Entry(d, k)' = Entry(d, k)
              /\ k \in DOMAIN cache'[d] => k \in DOMAIN cache[d] \/ Wanted(d, k)
              /\ Wanted(d, k)' => Wanted(d, k)
              /\ Wanted(d, k) /\ Entry(d, k) = Pending => Wanted(d, k)' \/ Threw'
    PROVE  PendingInv' /\ NullInv'
<1>1. Inv /\ PendingInv /\ NullInv  BY DEF FailInv, FailParts, StayInv
<1>2. (Threw => Threw') /\ \A k : Gone(k) => Gone(k)'  BY <1>1, Grows
<1>3. PendingInv'
  <2> SUFFICES ASSUME NEW d \in Caches, NEW k \in Proper(d), Entry(d, k)' = Pending
               PROVE  Threw' \/ Wanted(d, k)'
    BY DEF PendingInv, Proper, KeyFor, IdKey, ChatKey
  <2>1. Entry(d, k) = Pending  OBVIOUS
  <2>2. Threw \/ Wanted(d, k)  BY <1>1, <2>1 DEF PendingInv
  <2> QED  BY <1>2, <2>1, <2>2
<1>4. NullInv'
  <2> SUFFICES ASSUME NEW d \in Caches, NEW k
               PROVE  /\ k \in DOMAIN cache'[d] /\ Entry(d, k)' = Null => Gone(k)'
                      /\ Wanted(d, k)' /\ Entry(d, k)' = Null => Gone(k)'
    BY DEF NullInv
  <2>1. /\ k \in DOMAIN cache[d] /\ Entry(d, k) = Null => Gone(k)
        /\ Wanted(d, k) /\ Entry(d, k) = Null => Gone(k)
    BY <1>1 DEF NullInv
  <2> QED  BY <1>2, <2>1
<1> QED  BY <1>3, <1>4

LEMMA AskedKept ==
    ASSUME FailInv, [Next]_vars, asked' = asked,
           \A d \in Caches : \A k :
              /\ Entry(d, k)' = Entry(d, k)
              /\ k \in DOMAIN cache[d] => k \in DOMAIN cache'[d]
    PROVE  AskedInv'
<1>1. Inv /\ AskedInv  BY DEF FailInv, FailParts, StayInv
<1>2. (Threw => Threw') /\ missed \subseteq missed'  BY <1>1, Grows
<1>3. \A r \in asked : r.cache \in Caches  BY <1>1 DEF Inv, KeysInv
<1>4. ASSUME NEW r \in asked, NEW k \in (r.users \ r.missing) \cap Proper(r.cache)
      PROVE  Threw' \/ (k \in DOMAIN cache'[r.cache] /\ Entry(r.cache, k)' # Pending)
  <2>1. Threw \/ (k \in DOMAIN cache[r.cache] /\ Entry(r.cache, k) # Pending)
    BY <1>1, <1>4 DEF AskedInv
  <2> QED  BY <1>2, <1>3, <2>1
<1> QED
  BY <1>1, <1>2, <1>4 DEF AskedInv, Proper, KeyFor, IdKey, ChatKey, Names

LEMMA FailureKept ==
    ASSUME Inv, FailureExplained, UNCHANGED ended, [Next]_vars
    PROVE  FailureExplained'
<1>1. missed \subseteq missed'  BY Grows
<1> QED  BY <1>1 DEF FailureExplained, ThrewBefore, ChatKey, SignedWell, Clash

LEMMA BlameKept ==
    ASSUME FailInv, [Next]_vars, UNCHANGED msgs
    PROVE  BlameInv'
<1>1. Inv /\ BlameInv  BY DEF FailInv, FailParts, StayInv
<1>2. \A i : Blamed(i) => Blamed(i)'  BY <1>1, Grows
<1> QED  BY <1>1, <1>2 DEF BlameInv
-----------------------------------------------------------------------------
(* The steps outside of the passes, and those of the server.               *)
LEMMA ServerFails ==
    ASSUME FailInv, [Next]_vars, pc # "crashed", UNCHANGED <<msgs, at, cache, ended>>,
           \/ pc' = pc
           \/ pc \in {"idle", "asked"} /\ pc' \in {"asked", "answered", "idle", "lost"},
           held' = held \/ RejectedInv', CountInv', AskedInv'
    PROVE  FailParts'
<1>1. /\ Inv /\ PendingInv /\ NullInv /\ RejectedInv /\ GarbledInv /\ FailureExplained
  BY DEF FailInv, FailParts, StayInv
<1>2. \A d \in Caches : \A k :
        /\ Entry(d, k)' = Entry(d, k) /\ DOMAIN cache'[d] = DOMAIN cache[d]
        /\ Wanted(d, k)' <=> Wanted(d, k)
  BY DEF Entry, Wanted, Pass, KeyOf
<1>3. PendingInv' /\ NullInv'  BY <1>2, KeysKept
<1>4. RejectedInv'
  <2>1. \A d \in Caches : pc' = Pass(d) => pc = Pass(d)  BY DEF Pass
  <2>2. \A d \in Caches : KeyOf(d, msgs'[at']) = KeyOf(d, msgs[at])  OBVIOUS
  <2>3. CASE held' = held  BY <1>1, <1>2, <2>1, <2>2, <2>3 DEF RejectedInv
  <2> QED  BY <2>3
<1>5. BlameInv'  BY BlameKept
<1>6. GarbledInv'  BY <1>1 DEF GarbledInv
<1>7. FailureExplained'  BY <1>1, FailureKept
<1> QED  BY <1>3, <1>4, <1>5, <1>6, <1>7 DEF FailParts

LEMMA OutsideFails ==
    ASSUME FailInv, [Next]_vars, pc # "crashed",
           \/ \E r \in Ranges : read_messages(r)
           \/ read_message \/ MessagesFail
           \/ (\E k \in Late \ known : Learn(k)) \/ UNCHANGED vars
    PROVE  FailParts'
<1>1. /\ UNCHANGED <<msgs, at, held, cache, ended, asked>>
      /\ \/ pc' = pc /\ turn' = turn
         \/ pc = "idle" /\ pc' = "asked" /\ turn' = turn + 1
         \/ pc = "asked" /\ pc' \in {"answered", "idle", "lost"} /\ turn' = turn
  BY DEF read_messages, read_message, MessagesFail, Learn, vars, readerVars
<1>2. CountInv /\ Inv  BY DEF FailInv, FailParts, StayInv
<1>3. turn \in Nat /\ Len(ended) \in Nat
  BY <1>2, ReadsAssumption DEF Inv, TypeOK, EndedInv, IsQueue
<1>4. CountInv'  BY <1>1, <1>2, <1>3 DEF CountInv
<1>5. AskedInv'
  <2>1. \A d \in Caches : \A k : Entry(d, k)' = Entry(d, k) /\ DOMAIN cache'[d] = DOMAIN cache[d]
    BY <1>1 DEF Entry
  <2> QED  BY <1>1, <2>1, AskedKept
<1> QED  BY <1>1, <1>4, <1>5, ServerFails

LEMMA AnswerFails ==
    ASSUME FailInv, [Next]_vars, pc # "crashed", NEW r \in asked, buid_cache_request_return(r)
    PROVE  FailParts'
<1> DEFINE found == r.missing \cap known \cap Names(r.cache)
           reply == [r EXCEPT !.stage = "answer", !.keys = [k \in found |-> Key(r.cache, k)]]
<1>1. /\ asked' = (asked \ {r}) \cup {reply} /\ missed' = missed \cup (r.missing \ found)
      /\ UNCHANGED <<readerVars, held, cache, erasing, leaked, known>>
  BY DEF buid_cache_request_return
<1>2. UNCHANGED <<pc, turn, msgs, at, ended, held, cache>>  BY <1>1 DEF readerVars
<1>3. CountInv /\ AskedInv /\ Inv  BY DEF FailInv, FailParts, StayInv
<1>4. CountInv'  BY <1>2, <1>3 DEF CountInv
<1>5. /\ reply.cache = r.cache /\ reply.users = r.users /\ reply.missing = r.missing
      /\ DOMAIN reply.keys = found
  OBVIOUS
<1>6. found \subseteq r.missing  OBVIOUS
<1> HIDE DEF reply, found
<1>7. AskedInv'
  <2>1. ASSUME NEW q \in asked'
        PROVE  /\ q.missing # {} /\ q.missing \subseteq q.users
               /\ \A k \in q.users : k \in Proper(q.cache) \/ k \notin Names(q.cache)
               /\ q.stage = "answer" => /\ DOMAIN q.keys \subseteq q.missing
                                        /\ q.missing \ DOMAIN q.keys \subseteq missed'
               /\ \A k \in (q.users \ q.missing) \cap Proper(q.cache) :
                     Threw \/ (k \in DOMAIN cache[q.cache] /\ Entry(q.cache, k) # Pending)
    <3>1. CASE q \in asked  BY <1>1, <1>3, <3>1 DEF AskedInv
    <3>2. CASE q = reply  BY <1>1, <1>3, <1>5, <1>6, <3>2 DEF AskedInv
    <3> QED  BY <1>1, <3>1, <3>2
  <2>2. Threw' = Threw  BY <1>2 DEF Threw
  <2> QED  BY <1>2, <2>1, <2>2 DEF AskedInv, Proper, KeyFor, IdKey, ChatKey, Names, Entry
<1> QED  BY <1>2, <1>4, <1>7, ServerFails

LEMMA LoadFailsFails ==
    ASSUME FailInv, [Next]_vars, pc # "crashed", NEW r \in asked, LoadFails(r)
    PROVE  FailParts'
<1>1. /\ asked' = asked \ {r}
      /\ UNCHANGED <<pc, turn, msgs, at, ended, held, cache, missed>>
  BY DEF LoadFails, readerVars
<1>2. CountInv /\ AskedInv  BY DEF FailInv, FailParts
<1>3. CountInv'  BY <1>1, <1>2 DEF CountInv
<1>4. AskedInv'
  BY <1>1, <1>2 DEF AskedInv, Proper, KeyFor, IdKey, ChatKey, Names, Entry, Threw
<1> QED  BY <1>1, <1>3, <1>4, ServerFails

(* Rejecting and erasing: the entry of the key is gone already.            *)
LEMMA EraseFails ==
    ASSUME FailInv, [Next]_vars, pc # "crashed", NEW c \in Caches,
           NEW k \in DOMAIN erasing[c], reject(c, k) \/ erase(c, k)
    PROVE  FailParts'
<1>1. /\ UNCHANGED <<pc, turn, msgs, at, ended, cache, asked>>
      /\ held' = held \/ (held' = Rejected /\ WaitsFor(c, k))
  BY DEF reject, erase, readerVars
<1>2. CountInv /\ ErasingInv  BY DEF FailInv, FailParts, StayInv
<1>3. CountInv'  BY <1>1, <1>2 DEF CountInv
<1>4. AskedInv'
  <2>1. \A d \in Caches : \A l : Entry(d, l)' = Entry(d, l) /\ DOMAIN cache'[d] = DOMAIN cache[d]
    BY <1>1 DEF Entry
  <2> QED  BY <1>1, <2>1, AskedKept
<1>5. ASSUME WaitsFor(c, k), held' = Rejected PROVE RejectedInv'
  <2>1. \A d \in Caches : pc' = Pass(d) => d = c  BY <1>1, <1>5 DEF WaitsFor, Pass, Caches
  <2>2. KeyOf(c, msgs'[at']) = k  BY <1>1, <1>5 DEF WaitsFor
  <2>3. Entry(c, k)' = Null  BY <1>1, <1>2 DEF ErasingInv, Entry
  <2> QED  BY <2>1, <2>2, <2>3 DEF RejectedInv, Entry
<1> QED  BY <1>1, <1>3, <1>4, <1>5, ServerFails

(* The messages of the answer are taken apart: none is invalid.            *)
LEMMA ParseFails ==
    ASSUME FailInv, [Next]_vars, ParseMessages
    PROVE  FailParts'
<1>1. /\ pc = "answered" /\ pc' = "signers"
      /\ UNCHANGED <<turn, at, ended, held, cache, asked, missed>>
      /\ msgs' = [n \in DOMAIN answer |-> Extracted[answer[n]]]
  BY DEF ParseMessages
<1>2. /\ Inv /\ CountInv /\ FailureExplained  BY DEF FailInv, FailParts, StayInv
<1>3. \A d \in Caches : \A k :
        /\ Entry(d, k)' = Entry(d, k) /\ DOMAIN cache'[d] = DOMAIN cache[d]
        /\ ~Wanted(d, k)' /\ ~Wanted(d, k)
  BY <1>1 DEF Entry, Wanted, Pass
<1>4. AskedInv'  BY <1>1, <1>3, AskedKept
<1>5. PendingInv' /\ NullInv'  BY <1>1, <1>3, KeysKept
<1>6. CountInv'  BY <1>1, <1>2 DEF CountInv
<1>7. \A n \in DOMAIN msgs' : ~msgs'[n].invalid
  <2>1. answer \in Seq(DOMAIN Posts)  BY <1>2 DEF Inv, MsgsInv
  <2>2. \A n \in DOMAIN answer : answer[n] \in DOMAIN Posts  BY <2>1
  <2>3. \A i \in DOMAIN Posts : ~SignedForm(i).invalid  BY DEF SignedForm
  <2>4. \A i \in DOMAIN Posts : ~Extracted[i].invalid  BY <2>3, ExtractedForm
  <2> QED  BY <1>1, <2>2, <2>4
<1>8. RejectedInv' /\ GarbledInv' /\ BlameInv'
  BY <1>1, <1>7 DEF RejectedInv, GarbledInv, BlameInv, Pass
<1>9. FailureExplained'  BY <1>1, <1>2, FailureKept
<1> QED  BY <1>4, <1>5, <1>6, <1>8, <1>9 DEF FailParts

(* The keys of a pass are asked for.                                       *)
LEMMA WantedNames ==
    ASSUME FailInv, NEW c \in Caches, pc = IF c = "sign" THEN "signers" ELSE "ids",
           NEW n \in DOMAIN msgs
    PROVE  /\ ~msgs[n].invalid => KeyOf(c, msgs[n]) \in Proper(c)
           /\ msgs[n].invalid => KeyOf(c, msgs[n]) \notin Proper(c) \cup Names(c)
<1>1. Inv /\ GarbledInv  BY DEF FailInv, FailParts, StayInv
<1>2. CASE ~msgs[n].invalid  BY <1>1, <1>2, Ahead DEF Proper
<1>3. CASE msgs[n].invalid
  <2>1. c = "chat" /\ IsGarbled(msgs[n])  BY <1>1, <1>3 DEF GarbledInv, Caches
  <2> QED  BY <1>3, <2>1, GarbledName
<1> QED  BY <1>2, <1>3

LEMMA EnsureFails ==
    ASSUME FailInv, [Next]_vars, NEW c \in Caches,
           ensure(c, IF c = "sign" THEN "signers" ELSE "ids")
    PROVE  FailParts'
<1>0. PICK from : from = IF c = "sign" THEN "signers" ELSE "ids"  OBVIOUS
<1>1. PICK wanted, missing, request :
        /\ wanted = {KeyOf(c, msgs[n]) : n \in DOMAIN msgs}
        /\ missing = wanted \ DOMAIN cache[c]
        /\ request.cache = c /\ request.users = wanted /\ request.missing = missing
        /\ request.stage = "request"
        /\ asked' = IF missing = {} THEN asked ELSE asked \cup {request}
        /\ \A d \in Caches : \A k :
              /\ Entry(d, k)' = IF d = c /\ k \in missing THEN Pending ELSE Entry(d, k)
              /\ k \in DOMAIN cache'[d] <=> k \in DOMAIN cache[d] \/ (d = c /\ k \in missing)
        /\ Free(c) /\ pc = from /\ pc' = Pass(c) /\ at' = 1
        /\ UNCHANGED <<turn, range, answer, msgs, ended, held, erasing, leaked, known, missed>>
  <2>1. Inv /\ ensure(c, from)  BY <1>0 DEF FailInv, StayInv
  <2> QED  BY <2>1, EnsureEffects
<1>2. /\ Inv /\ CountInv /\ AskedInv /\ PendingInv /\ NullInv /\ GarbledInv
      /\ FailureExplained /\ KeysInv
  BY DEF FailInv, FailParts, StayInv, Inv
<1>3. pc # "crashed" /\ \A d \in Caches : pc # Pass(d)  BY <1>0, <1>1 DEF Pass, Caches
<1>4. \A d \in Caches : \A k : k \in Proper(d) /\ Entry(d, k) = Pending => Threw
  BY <1>2, <1>3 DEF PendingInv, Wanted
<1>5. ASSUME NEW k \in wanted
      PROVE  /\ k \in Proper(c) \/ k \notin Names(c)
             /\ k \in Proper(c) => \E n \in DOMAIN msgs : ~msgs[n].invalid /\ KeyOf(c, msgs[n]) = k
  BY <1>0, <1>1, WantedNames
<1>6. Threw' = Threw /\ missed' = missed /\ \A k : Gone(k)' = Gone(k)
  BY <1>1 DEF Threw, Gone
<1>7. AskedInv'
  <2>1. ASSUME NEW q \in asked'
        PROVE  /\ q.missing # {} /\ q.missing \subseteq q.users
               /\ \A k \in q.users : k \in Proper(q.cache) \/ k \notin Names(q.cache)
               /\ q.stage = "answer" => /\ DOMAIN q.keys \subseteq q.missing
                                        /\ q.missing \ DOMAIN q.keys \subseteq missed
               /\ \A k \in (q.users \ q.missing) \cap Proper(q.cache) :
                     Threw \/ (k \in DOMAIN cache'[q.cache] /\ Entry(q.cache, k)' # Pending)
    <3>1. CASE q \in asked
      <4>1. q.cache \in Caches  BY <1>2, <3>1 DEF KeysInv
      <4> QED  BY <1>1, <1>2, <3>1, <4>1 DEF AskedInv
    <3>2. CASE q = request /\ missing # {}
      <4>1. ASSUME NEW k \in (wanted \ missing) \cap Proper(c)
            PROVE  Threw \/ (k \in DOMAIN cache'[c] /\ Entry(c, k)' # Pending)
        BY <1>1, <1>4
      <4> QED  BY <1>1, <1>5, <3>2, <4>1
    <3> QED  BY <1>1, <3>1, <3>2
  <2> QED  BY <1>6, <2>1 DEF AskedInv, Proper, KeyFor, IdKey, ChatKey, Names
<1>8. ASSUME NEW d \in Caches, NEW k \in Proper(d), Entry(d, k)' = Pending
      PROVE  Threw' \/ Wanted(d, k)'
  <2>1. CASE d = c /\ k \in missing
    <3>1. PICK n \in DOMAIN msgs : ~msgs[n].invalid /\ KeyOf(c, msgs[n]) = k  BY <1>1, <1>5, <2>1
    <3>2. n >= 1  BY <1>2 DEF Inv, MsgsInv, IsQueue
    <3>3. msgs' = msgs /\ at' = 1 /\ pc' = Pass(c)  BY <1>1
    <3> QED  BY <2>1, <3>1, <3>2, <3>3 DEF Wanted, Pass, KeyOf
  <2>2. CASE ~(d = c /\ k \in missing)  BY <1>1, <1>4, <1>6, <1>8, <2>2
  <2> QED  BY <2>1, <2>2
<1>9. PendingInv'  BY <1>8 DEF PendingInv, Proper, KeyFor, IdKey, ChatKey
<1>10. ASSUME NEW d \in Caches, NEW k, Entry(d, k)' = Null
       PROVE  /\ k \in DOMAIN cache'[d] => Gone(k)
              /\ Wanted(d, k)' => Gone(k)
  <2>1. Entry(d, k) = Null /\ ~(d = c /\ k \in missing)  BY <1>1, <1>10, StatesAssumption
  <2>2. k \in DOMAIN cache[d] => Gone(k)  BY <1>2, <2>1 DEF NullInv
  <2>3. ASSUME Wanted(d, k)' PROVE d = c /\ k \in wanted /\ k \in Proper(c)
    <3>1. d = c  BY <1>1, <2>3 DEF Wanted, Pass, Caches
    <3>2. PICK n \in DOMAIN msgs : ~msgs[n].invalid /\ KeyOf(c, msgs[n]) = k
      BY <1>1, <2>3, <3>1 DEF Wanted, KeyOf
    <3> QED  BY <1>0, <1>1, <3>1, <3>2, WantedNames
  <2> QED  BY <1>1, <2>1, <2>2, <2>3
<1>11. NullInv'  BY <1>6, <1>10 DEF NullInv
<1>12. RejectedInv'
  <2>1. held' = None  BY <1>1, <1>2, <1>3, IdleHolds
  <2> QED  BY <2>1, StatesAssumption DEF RejectedInv
<1>13. CountInv'  BY <1>0, <1>1, <1>2 DEF CountInv
<1>14. GarbledInv'
  <2>1. c = "sign" => \A n \in DOMAIN msgs : ~msgs[n].invalid  BY <1>0, <1>1, <1>2 DEF GarbledInv
  <2> QED  BY <1>1, <2>1 DEF GarbledInv, Pass
<1>15. BlameInv' /\ FailureExplained'  BY <1>1, <1>2, BlameKept, FailureKept
<1> QED  BY <1>7, <1>9, <1>11, <1>12, <1>13, <1>14, <1>15 DEF FailParts
-----------------------------------------------------------------------------
(* A message is done with: its key is not waited for any more.             *)
LEMMA DoneFails ==
    ASSUME FailInv, [Next]_vars, NEW c \in Caches, InPass(c), at' = at + 1, held' = None,
           UNCHANGED <<pc, turn, ended, asked>>,
           DOMAIN msgs' = DOMAIN msgs,
           \A n \in DOMAIN msgs : n # at => msgs'[n] = msgs[n],
           \A d \in Caches : \A k :
              /\ Entry(d, k)' = Entry(d, k)
              /\ k \in DOMAIN cache[d] => k \in DOMAIN cache'[d]
              /\ k \in DOMAIN cache'[d] => k \in DOMAIN cache[d] \/ Wanted(d, k),
           msgs[at].invalid \/ Entry(c, KeyOf(c, msgs[at])) # Pending,
           msgs'[at].invalid => /\ Blamed(msgs'[at].msg_id)
                                /\ c = "sign" => IsGarbled(msgs'[at])
    PROVE  FailParts'
<1>1. /\ Inv /\ CountInv /\ BlameInv /\ GarbledInv /\ FailureExplained
  BY DEF FailInv, FailParts, StayInv
<1>2. at \in DOMAIN msgs /\ at \in Nat \ {0} /\ pc = Pass(c)  BY <1>1, InHand
<1>3. \A n \in DOMAIN msgs : n \in Nat  BY <1>1 DEF Inv, MsgsInv, IsQueue
<1>4. ASSUME NEW d \in Caches, NEW k
      PROVE  /\ Wanted(d, k)' => Wanted(d, k)
             /\ Wanted(d, k) /\ Entry(d, k) = Pending => Wanted(d, k)'
  <2>1. ASSUME Wanted(d, k)' PROVE Wanted(d, k)
    <3>1. PICK n \in DOMAIN msgs : n >= at + 1 /\ ~msgs'[n].invalid /\ KeyOf(d, msgs'[n]) = k
      BY <2>1 DEF Wanted, KeyOf
    <3>2. n >= at /\ msgs'[n] = msgs[n]  BY <1>2, <1>3, <3>1
    <3> QED  BY <2>1, <3>1, <3>2 DEF Wanted, Pass
  <2>2. ASSUME Wanted(d, k), Entry(d, k) = Pending PROVE Wanted(d, k)'
    <3>1. PICK n \in DOMAIN msgs : n >= at /\ ~msgs[n].invalid /\ KeyOf(d, msgs[n]) = k
      BY <2>2 DEF Wanted
    <3>2. d = c  BY <1>2, <2>2 DEF Wanted, Pass, Caches
    <3>3. n # at  BY <2>2, <3>1, <3>2
    <3>4. n >= at + 1 /\ msgs'[n] = msgs[n]  BY <1>2, <1>3, <3>1, <3>3
    <3> QED  BY <2>2, <3>1, <3>4 DEF Wanted, Pass, KeyOf
  <2> QED  BY <2>1, <2>2
<1>5. PendingInv' /\ NullInv'
  <2>1. pc # "crashed"  BY <1>2 DEF Pass
  <2> QED  BY <1>4, <2>1, KeysKept
<1>6. AskedInv'  BY AskedKept
<1>7. CountInv'  BY <1>1 DEF CountInv
<1>8. RejectedInv'  BY StatesAssumption DEF RejectedInv
<1>9. BlameInv'
  <2>1. \A i : Blamed(i) => Blamed(i)'  BY <1>1, Grows
  <2>2. ASSUME NEW n \in DOMAIN msgs, msgs'[n].invalid, NEW i, i = msgs'[n].msg_id
        PROVE  Blamed(i)
    BY <1>1, <2>2 DEF BlameInv
  <2> QED  BY <2>1, <2>2 DEF BlameInv
<1>10. GarbledInv'
  <2>1. pc # "signers" /\ (pc \in {"signatures", "ids"} => c = "sign")
    BY <1>2 DEF Pass
  <2> QED  BY <1>1, <2>1 DEF GarbledInv, IsGarbled, SignedForm, BlockOf
<1>11. FailureExplained'  BY <1>1, FailureKept
<1> QED  BY <1>5, <1>6, <1>7, <1>8, <1>9, <1>10, <1>11 DEF FailParts

LEMMA SkipFails ==
    ASSUME FailInv, [Next]_vars, NEW c \in Caches, Skip(c)
    PROVE  FailParts'
<1>1. /\ InPass(c) /\ msgs[at].invalid /\ at' = at + 1
      /\ UNCHANGED <<pc, turn, range, answer, msgs, ended, held, cache, erasing, leaked, asked, known, missed>>
  BY DEF Skip
<1>2. Inv /\ BlameInv /\ GarbledInv  BY DEF FailInv, FailParts, StayInv
<1>3. at \in DOMAIN msgs /\ pc = Pass(c)  BY <1>1, <1>2, InHand
<1>4. held = None
  <2>1. pc # "crashed"  BY <1>3 DEF Pass
  <2> QED  BY <1>1, <1>2, <2>1 DEF Inv, HeldInv
<1>5. Blamed(msgs[at].msg_id) /\ (c = "sign" => IsGarbled(msgs[at]))
  BY <1>1, <1>2, <1>3 DEF BlameInv, GarbledInv, Pass
<1>6. \A d \in Caches : \A k : Entry(d, k)' = Entry(d, k) /\ DOMAIN cache'[d] = DOMAIN cache[d]
  BY <1>1 DEF Entry
<1> QED  BY <1>1, <1>4, <1>5, <1>6, DoneFails

(* A null, or a rejected waiter: the key is gone.                          *)
LEMMA NullFails ==
    ASSUME FailInv, [Next]_vars, NEW c \in Caches, InPass(c), ~msgs[at].invalid,
           Entry(c, KeyOf(c, msgs[at])) = Null, Invalid(msgs[at]),
           UNCHANGED <<pc, turn, ended, asked>>,
           \A d \in Caches : \A k :
              /\ Entry(d, k)' = Entry(d, k)
              /\ k \in DOMAIN cache'[d] <=>
                    k \in DOMAIN cache[d] \/ (cache' # cache /\ d = c /\ k = KeyOf(c, msgs[at]))
    PROVE  FailParts'
<1> DEFINE m == [msgs[at] EXCEPT !.invalid = TRUE]
<1>1. Inv /\ NullInv  BY DEF FailInv, FailParts, StayInv
<1>2. /\ at \in DOMAIN msgs /\ at \in Nat \ {0} /\ pc = Pass(c) /\ IsQueue(msgs)
      /\ IF c = "sign" THEN IsSigned(msgs[at]) ELSE IsOpen(msgs[at])
  BY <1>1, InHand DEF Inv, MsgsInv
<1>3. m.invalid /\ m.msg_id = msgs[at].msg_id /\ m.message = msgs[at].message
  BY <1>2, InvalidMessage
<1>4. SetMessage(m)  BY DEF Invalid
<1> HIDE DEF m
<1>5. /\ DOMAIN msgs' = DOMAIN msgs /\ at' = at + 1 /\ held' = None
      /\ \A n \in DOMAIN msgs : msgs'[n] = IF n = at THEN m ELSE msgs[n]
  BY <1>2, <1>4, QueueChanged DEF SetMessage
<1>6. KeyOf(c, msgs[at]) = KeyFor(c, m.msg_id)  BY <1>2, <1>3, NameIn
<1>7. Wanted(c, KeyOf(c, msgs[at]))  BY <1>2 DEF Wanted
<1>8. Gone(KeyOf(c, msgs[at]))  BY <1>1, <1>7 DEF NullInv
<1>9. Blamed(m.msg_id)  BY <1>6, <1>8 DEF Blamed, KeyFor
<1>10. c = "sign" => IsGarbled(m)  BY <1>2, <1>3 DEF IsSigned, IsGarbled
<1> QED  BY <1>2, <1>3, <1>5, <1>7, <1>9, <1>10, StatesAssumption, DoneFails

LEMMA GetFails ==
    ASSUME FailInv, [Next]_vars, NEW c \in Caches, get(c)
    PROVE  FailParts'
<1>0. PICK k : k = KeyOf(c, msgs[at])  OBVIOUS
<1>1. /\ InPass(c) /\ ~msgs[at].invalid
      /\ \/ Entry(c, k) = Null /\ Invalid(msgs[at])
         \/ Entry(c, k) # Null /\ held' = Entry(c, k) /\ UNCHANGED <<msgs, at>>
      /\ UNCHANGED <<pc, turn, range, answer, ended, erasing, leaked, asked, known, missed>>
  BY <1>0 DEF get
<1>2. /\ Inv /\ CountInv /\ GarbledInv /\ FailureExplained /\ KeysInv
  BY DEF FailInv, FailParts, StayInv, Inv
<1>3. \A d \in Caches : \A l :
        /\ Entry(d, l)' = Entry(d, l)
        /\ l \in DOMAIN cache'[d] <=> l \in DOMAIN cache[d] \/ (d = c /\ l = k)
  BY <1>0, <1>2, GetEffects
<1>4. at \in DOMAIN msgs /\ at \in Nat \ {0} /\ pc = Pass(c)  BY <1>1, <1>2, InHand
<1>5. CASE Entry(c, k) = Null /\ Invalid(msgs[at])
  <2>1. \A d \in Caches : \A l :
          l \in DOMAIN cache'[d] <=>
             l \in DOMAIN cache[d] \/ (cache' # cache /\ d = c /\ l = k)
    BY <1>3
  <2> QED  BY <1>0, <1>1, <1>3, <1>5, <2>1, NullFails
<1>6. CASE Entry(c, k) # Null /\ held' = Entry(c, k) /\ UNCHANGED <<msgs, at>>
  <2>1. Wanted(c, k)  BY <1>0, <1>1, <1>4 DEF Wanted
  <2>2. \A d \in Caches : \A l : Wanted(d, l)' <=> Wanted(d, l)
    BY <1>1, <1>6 DEF Wanted, Pass, KeyOf
  <2>3. pc # "crashed"  BY <1>4 DEF Pass
  <2>4. PendingInv' /\ NullInv'  BY <1>3, <2>1, <2>2, <2>3, KeysKept
  <2>5. AskedInv'  BY <1>1, <1>3, AskedKept
  <2>6. RejectedInv'
    <3>1. Entry(c, k) = Pending \/ GoodKey(c, k, Entry(c, k))  BY <1>2, <1>6, EntryIn
    <3>2. held' \notin {Rejected, Locked}
      BY <1>6, <3>1, GoodKeysAreKeys, StatesAssumption
    <3> QED  BY <3>2 DEF RejectedInv
  <2>7. CountInv' /\ GarbledInv'
    BY <1>1, <1>2, <1>6 DEF CountInv, GarbledInv
  <2>8. BlameInv' /\ FailureExplained'  BY <1>1, <1>2, <1>6, BlameKept, FailureKept
  <2> QED  BY <2>4, <2>5, <2>6, <2>7, <2>8 DEF FailParts
<1> QED  BY <1>1, <1>5, <1>6

LEMMA GetErasingFails ==
    ASSUME FailInv, [Next]_vars, NEW c \in Caches, getErasing(c)
    PROVE  FailParts'
<1>0. PICK k : k = KeyOf(c, msgs[at])  OBVIOUS
<1>1. InPass(c) /\ UNCHANGED <<pc, turn, msgs, at, ended, cache, asked>>
  BY DEF getErasing, readerVars
<1>2. CountInv /\ ErasingInv /\ Inv  BY DEF FailInv, FailParts, StayInv
<1>3. k \in DOMAIN erasing[c]  BY <1>0, <1>2, GotErasing
<1>4. pc = Pass(c) /\ pc # "crashed"  BY <1>1, <1>2, InHand DEF Pass
<1>5. CountInv'  BY <1>1, <1>2 DEF CountInv
<1>6. AskedInv'
  <2>1. \A d \in Caches : \A l : Entry(d, l)' = Entry(d, l) /\ DOMAIN cache'[d] = DOMAIN cache[d]
    BY <1>1 DEF Entry
  <2> QED  BY <1>1, <2>1, AskedKept
<1>7. RejectedInv'
  <2>1. \A d \in Caches : pc' = Pass(d) => d = c  BY <1>1, <1>4 DEF Pass, Caches
  <2>2. KeyOf(c, msgs'[at']) = k  BY <1>0, <1>1
  <2>3. Entry(c, k)' = Null  BY <1>1, <1>2, <1>3 DEF ErasingInv, Entry
  <2> QED  BY <2>1, <2>2, <2>3 DEF RejectedInv, Entry
<1> QED  BY <1>1, <1>4, <1>5, <1>6, <1>7, ServerFails

LEMMA ThrowFails ==
    ASSUME FailInv, [Next]_vars, NEW c \in Caches, WaiterThrows(c)
    PROVE  FailParts'
<1>1. /\ InPass(c) /\ held = Rejected /\ Invalid(msgs[at])
      /\ UNCHANGED <<pc, turn, range, answer, ended, cache, leaked, asked, known, missed>>
  BY DEF WaiterThrows
<1>2. Inv /\ RejectedInv  BY DEF FailInv, FailParts, StayInv
<1>3. at \in DOMAIN msgs /\ pc = Pass(c)  BY <1>1, <1>2, InHand
<1>4. ~msgs[at].invalid
  BY <1>1, <1>2, <1>3, StatesAssumption DEF Inv, HeldInv, Pass
<1>5. Entry(c, KeyOf(c, msgs[at])) = Null  BY <1>1, <1>2, <1>3 DEF RejectedInv
<1>6. \A d \in Caches : \A k : Entry(d, k)' = Entry(d, k) /\ DOMAIN cache'[d] = DOMAIN cache[d]
  BY <1>1 DEF Entry
<1> QED  BY <1>1, <1>4, <1>5, <1>6, NullFails

(* The key has come, and the message is read with it.                      *)
LEMMA ReadFails ==
    ASSUME FailInv, [Next]_vars, NEW c \in Caches, InPass(c), UNCHANGED cache,
           held \notin {None, Pending, Rejected, Locked}, NEW m, SetMessage(m),
           UNCHANGED <<pc, turn, ended, asked>>,
           m.invalid => c = "sign" /\ m.message = <<>> /\ ~SignedWell(Posts[m.msg_id])
    PROVE  FailParts'
<1>1. Inv /\ StayInv  BY DEF FailInv, StayInv
<1>2. at \in DOMAIN msgs /\ at \in Nat \ {0} /\ pc = Pass(c) /\ IsQueue(msgs)
  BY <1>1, InHand DEF Inv, MsgsInv
<1>3. /\ DOMAIN msgs' = DOMAIN msgs /\ at' = at + 1 /\ held' = None
      /\ \A n \in DOMAIN msgs : msgs'[n] = IF n = at THEN m ELSE msgs[n]
  BY <1>2, QueueChanged DEF SetMessage
<1>4. Entry(c, KeyOf(c, msgs[at])) # Pending
  <2>1. HasKey(c, KeyOf(c, msgs[at]))  BY <1>1, <1>2 DEF StayInv, GotInv, Pass
  <2> QED  BY <2>1 DEF HasKey, Entry
<1>5. m.invalid => Blamed(m.msg_id) /\ IsGarbled(m)  BY DEF Blamed, IsGarbled
<1>6. \A d \in Caches : \A k : Entry(d, k)' = Entry(d, k) /\ DOMAIN cache'[d] = DOMAIN cache[d]
  BY DEF Entry
<1> QED  BY <1>2, <1>3, <1>4, <1>5, <1>6, DoneFails

LEMMA CheckFails ==
    ASSUME FailInv, [Next]_vars, check_signature
    PROVE  FailParts'
<1>1. /\ InPass("sign") /\ held \notin {None, Pending, Rejected, Locked} /\ "sign" \in Caches
      /\ UNCHANGED <<pc, turn, range, answer, ended, cache, erasing, leaked, asked, known, missed>>
  BY DEF check_signature, Caches
<1>2. PICK m : /\ SetMessage(m)
               /\ m.invalid => m.message = <<>> /\ ~SignedWell(Posts[m.msg_id])
  BY Checked DEF FailInv, StayInv
<1> QED  BY <1>1, <1>2, ReadFails

LEMMA ExtractFails ==
    ASSUME FailInv, [Next]_vars, ExtractClientData
    PROVE  FailParts'
<1>1. /\ pc = "signatures" /\ at > Len(msgs) /\ pc' = "ids"
      /\ UNCHANGED <<turn, ended, cache, asked, missed, held>>
      /\ DOMAIN msgs' = DOMAIN msgs
      /\ \A n \in DOMAIN msgs : msgs'[n] = IF msgs[n].invalid THEN msgs[n]
                                           ELSE extract_client_data(msgs[n])
  BY DEF ExtractClientData
<1>2. /\ Inv /\ CountInv /\ BlameInv /\ GarbledInv /\ FailureExplained
  BY DEF FailInv, FailParts, StayInv
<1>3. \A n \in DOMAIN msgs : n \in Nat /\ n < at /\ ~(n >= at)
  BY <1>1, <1>2 DEF Inv, MsgsInv, IsQueue
<1>4. \A d \in Caches : \A k :
        /\ Entry(d, k)' = Entry(d, k) /\ DOMAIN cache'[d] = DOMAIN cache[d]
        /\ ~Wanted(d, k) /\ ~Wanted(d, k)'
  <2>1. \A d \in Caches : pc' # Pass(d)  BY <1>1 DEF Pass
  <2> QED  BY <1>1, <1>3, <2>1 DEF Entry, Wanted, Pass
<1>5. PendingInv' /\ NullInv'  BY <1>1, <1>4, KeysKept
<1>6. AskedInv'  BY <1>1, <1>4, AskedKept
<1>7. ASSUME NEW n \in DOMAIN msgs, msgs'[n].invalid
      PROVE  msgs[n].invalid /\ msgs'[n] = msgs[n]
  <2>1. IsVerified(msgs[n])  BY <1>1, <1>2, <1>3 DEF Inv, MsgsInv
  <2>2. ASSUME ~msgs[n].invalid PROVE FALSE
    <3>1. PICK i \in DOMAIN Posts : msgs[n] = VerifiedForm(i)  BY <2>1, <2>2 DEF IsVerified
    <3>2. msgs'[n] = OpenForm(i)  BY <1>1, <2>2, <3>1, OpenedForm
    <3> QED  BY <1>7, <3>2 DEF OpenForm, ReadForm
  <2> QED  BY <1>1, <2>2
<1>8. BlameInv'
  <2>1. \A i : Blamed(i) => Blamed(i)'  BY <1>2, Grows
  <2>2. ASSUME NEW n \in DOMAIN msgs, msgs'[n].invalid, NEW i, i = msgs'[n].msg_id
        PROVE  Blamed(i)
    BY <1>2, <1>7, <2>2 DEF BlameInv
  <2> QED  BY <1>1, <2>1, <2>2 DEF BlameInv
<1>9. GarbledInv'
  BY <1>1, <1>2, <1>7 DEF GarbledInv, IsGarbled, SignedForm, BlockOf
<1>10. RejectedInv'  BY <1>1 DEF RejectedInv, Pass
<1>11. CountInv' /\ FailureExplained'  BY <1>1, <1>2, FailureKept DEF CountInv
<1> QED  BY <1>5, <1>6, <1>8, <1>9, <1>10, <1>11 DEF FailParts

LEMMA EndFails ==
    ASSUME FailInv, [Next]_vars, NEW threw \in BOOLEAN, End(threw), pc = "decrypting",
           UNCHANGED <<turn, cache, asked, missed>>,
           threw \/ at > Len(msgs),
           threw => \E m \in Range(msgs) : Clash(Posts[m.msg_id])
    PROVE  FailParts'
<1> DEFINE e == [msgs |-> msgs, threw |-> threw]
<1>0. PICK last : last = Len(ended) + 1  OBVIOUS
<1>1. /\ ended' = Append(ended, e) /\ pc' = "idle" /\ at' = 1 /\ held' = None
      /\ msgs' = <<>> /\ DOMAIN msgs' = {}
  BY DEF End
<1>2. e.msgs = msgs /\ e.threw = threw  OBVIOUS
<1>3. /\ Inv /\ CountInv /\ BlameInv /\ FailureExplained /\ IsQueue(ended) /\ IsQueue(msgs)
      /\ turn \in Nat
  BY ReadsAssumption DEF FailInv, FailParts, StayInv, Inv, EndedInv, MsgsInv, TypeOK
<1> HIDE DEF e
<1>4. /\ DOMAIN ended' = 1 .. last /\ IsQueue(ended')
      /\ \A j \in DOMAIN ended : ended'[j] = ended[j]
      /\ ended'[last] = e
  BY <1>0, <1>1, <1>3, QueueExtended
<1>5. /\ last \in Nat /\ DOMAIN ended' = DOMAIN ended \cup {last} /\ Len(ended') = last
      /\ \A j \in DOMAIN ended : j < last /\ j # last /\ j \in Nat
  BY <1>0, <1>3, <1>4 DEF IsQueue
<1>6. \A j \in DOMAIN ended : ThrewBefore(j) => ThrewBefore(j)'
  BY <1>4, <1>5 DEF ThrewBefore
<1>7. Threw => ThrewBefore(last)'
  BY <1>4, <1>5 DEF ThrewBefore, Threw
<1>8. threw => Threw'  BY <1>2, <1>4, <1>5 DEF Threw
<1>9. \A d \in Caches : \A k :
        /\ Entry(d, k)' = Entry(d, k) /\ DOMAIN cache'[d] = DOMAIN cache[d]
        /\ ~Wanted(d, k)' /\ (Wanted(d, k) => Threw')
  <2>1. at > Len(msgs) => \A n \in DOMAIN msgs : ~(n >= at)
    BY <1>3 DEF Inv, MsgsInv, IsQueue
  <2> QED  BY <1>1, <1>8, <2>1 DEF Entry, Wanted, Pass
<1>10. PendingInv' /\ NullInv'  BY <1>9, KeysKept
<1>11. AskedInv'  BY <1>9, AskedKept
<1>12. CountInv'  BY <1>0, <1>1, <1>3, <1>5 DEF CountInv, IsQueue
<1>13. RejectedInv' /\ BlameInv' /\ GarbledInv'
  BY <1>1, StatesAssumption DEF RejectedInv, BlameInv, GarbledInv
<1>14. FailureExplained'
  <2>1. ASSUME NEW j \in DOMAIN ended', NEW m \in Range(ended'[j].msgs), m.invalid
        PROVE  LET p == Posts[m.msg_id]
               IN  \/ ~SignedWell(p) \/ ThrewBefore(j)'
                   \/ p.sender \in missed \/ ChatKey(p.id) \in missed
    <3>1. CASE j \in DOMAIN ended
      BY <1>3, <1>4, <1>6, <2>1, <3>1 DEF FailureExplained
    <3>2. CASE j = last
      <4>1. m \in Range(msgs)  BY <1>2, <1>4, <2>1, <3>2
      <4>2. Blamed(m.msg_id)  BY <1>3, <2>1, <4>1 DEF BlameInv, Range
      <4> QED  BY <1>7, <3>2, <4>2 DEF Blamed, Gone, IdKey
    <3> QED  BY <1>5, <3>1, <3>2
  <2>2. ASSUME NEW j \in DOMAIN ended', ended'[j].threw
        PROVE  \E m \in Range(ended'[j].msgs) : Clash(Posts[m.msg_id])
    <3>1. CASE j \in DOMAIN ended  BY <1>3, <1>4, <2>2, <3>1 DEF FailureExplained
    <3>2. CASE j = last  BY <1>2, <1>4, <2>2, <3>2
    <3> QED  BY <1>5, <3>1, <3>2
  <2> QED  BY <2>1, <2>2 DEF FailureExplained, Clash, SignedWell, ChatKey
<1> QED  BY <1>10, <1>11, <1>12, <1>13, <1>14 DEF FailParts

LEMMA DecryptFails ==
    ASSUME FailInv, [Next]_vars, decrypt_message
    PROVE  FailParts'
<1>1. /\ InPass("chat") /\ held \notin {None, Pending, Rejected, Locked} /\ "chat" \in Caches
      /\ UNCHANGED <<turn, range, cache, erasing, leaked, asked, known, missed>>
  BY DEF decrypt_message, Caches
<1>2. Inv  BY DEF FailInv, StayInv
<1>3. CASE End(TRUE)
  <2>1. pc = "decrypting"  BY <1>1 DEF InPass, Pass
  <2>2. \E m \in Range(msgs) : Clash(Posts[m.msg_id])  BY <1>2, <1>3, ThrewOnClash
  <2> QED  BY <1>1, <1>3, <2>1, <2>2, EndFails
<1>4. CASE ~End(TRUE)
  <2>1. UNCHANGED <<pc, answer, ended>>  BY <1>2, <1>4, Decrypted
  <2>2. PICK m : SetMessage(m) /\ ~m.invalid  BY <1>2, <1>4, Decrypted
  <2> QED  BY <1>1, <2>1, <2>2, ReadFails
<1> QED  BY <1>3, <1>4

(* A key is rejected only if the server has left it out, or if two requests*)
(* were under way for it, after a read that threw.                         *)
LEMMA RejectedIsGone ==
    ASSUME AskedInv, NEW r \in asked, r.stage = "answer", NEW value, NEW fulfilled, NEW rejected,
           Settled(r, value, fulfilled, rejected), NEW k \in rejected, k \in Proper(r.cache)
    PROVE  Gone(k)
<1>1. k \in r.users /\ k \notin DOMAIN r.keys /\ Entry(r.cache, k) = Pending  BY DEF Settled
<1>2. CASE k \in r.missing  BY <1>1, <1>2 DEF AskedInv, Gone
<1>3. CASE k \notin r.missing  BY <1>1, <1>3 DEF AskedInv, Gone
<1> QED  BY <1>2, <1>3

LEMMA HandleFails ==
    ASSUME FailInv, [Next]_vars, pc # "crashed", NEW r \in asked, handle(r)
    PROVE  FailParts'
<1> DEFINE c == r.cache
<1>1. /\ Inv /\ CountInv /\ AskedInv /\ PendingInv /\ NullInv /\ RejectedInv /\ GarbledInv
      /\ FailureExplained /\ KeysInv
  BY DEF FailInv, FailParts, StayInv, Inv
<1>2. /\ r.stage = "answer" /\ c \in Caches /\ asked' = asked \ {r}
      /\ UNCHANGED <<turn, range, answer, msgs, at, ended, known, missed>>
  BY <1>1, HandleEffects
<1>3. PICK value, fulfilled, rejected : Settled(r, value, fulfilled, rejected)
  BY <1>1, HandleEffects
<1>4. /\ fulfilled \subseteq DOMAIN value /\ rejected \subseteq r.users \ DOMAIN value
      /\ \A k \in fulfilled \cup rejected : Entry(c, k) = Pending
      /\ \A d \in Caches : \A k :
            /\ Entry(d, k)' = IF d = c /\ k \in rejected THEN Null
                              ELSE IF d = c /\ k \in fulfilled THEN value[k] ELSE Entry(d, k)
            /\ k \in DOMAIN cache'[d] <=> k \in DOMAIN cache[d] /\ (d # c \/ k \notin rejected)
      /\ held' = IF \E k \in fulfilled : WaitsFor(c, k)
                 THEN value[KeyOf(c, msgs[at])] ELSE held
      /\ pc' = pc \/ pc' = "crashed"
  BY <1>3 DEF Settled
<1>5. \A k \in fulfilled : value[k] \notin {None, Null, Pending, Rejected, Locked}
  <2>1. \A k \in fulfilled : GoodKey(c, k, value[k])  BY <1>3 DEF Settled
  <2> QED  BY <1>2, <2>1, GoodKeysAreKeys
<1>6. \A k \in rejected : k \in Proper(c) => Gone(k)  BY <1>1, <1>2, <1>3, RejectedIsGone
<1> HIDE DEF c
<1>7. Threw' = Threw /\ (\A k : Gone(k)' = Gone(k)) /\ Pending # Null /\ Rejected # Null
  BY <1>2, StatesAssumption DEF Threw, Gone
<1>8. \A d \in Caches : \A k : Wanted(d, k)' => pc' = pc /\ Wanted(d, k)
  BY <1>2, <1>4 DEF Wanted, Pass, KeyOf
<1>9. AskedInv'
  <2>1. ASSUME NEW q \in asked', NEW k \in (q.users \ q.missing) \cap Proper(q.cache)
        PROVE  Threw \/ (k \in DOMAIN cache'[q.cache] /\ Entry(q.cache, k)' # Pending)
    <3>1. q \in asked /\ q.cache \in Caches  BY <1>1, <1>2, <2>1 DEF KeysInv
    <3>2. Threw \/ (k \in DOMAIN cache[q.cache] /\ Entry(q.cache, k) # Pending)
      BY <1>1, <2>1, <3>1 DEF AskedInv
    <3> QED  BY <1>4, <3>1, <3>2
  <2> QED
    BY <1>1, <1>2, <1>7, <2>1 DEF AskedInv, Proper, KeyFor, IdKey, ChatKey, Names
<1>10. PendingInv'
  <2> SUFFICES ASSUME pc' = pc, NEW d \in Caches, NEW k \in Proper(d), Entry(d, k)' = Pending
               PROVE  Threw' \/ Wanted(d, k)'
    BY <1>4 DEF PendingInv, Proper, KeyFor, IdKey, ChatKey
  <2>1. Entry(d, k) = Pending  BY <1>4, <1>5, <1>7
  <2>2. Threw \/ Wanted(d, k)  BY <1>1, <2>1 DEF PendingInv
  <2>3. Wanted(d, k)' = Wanted(d, k)  BY <1>2 DEF Wanted, Pass, KeyOf
  <2> QED  BY <1>7, <2>2, <2>3
<1>11. NullInv'
  <2> SUFFICES ASSUME NEW d \in Caches, NEW k, Entry(d, k)' = Null
               PROVE  /\ k \in DOMAIN cache'[d] => Gone(k)
                      /\ Wanted(d, k)' => Gone(k)
    BY <1>7 DEF NullInv
  <2>1. (d = c /\ k \in rejected) \/ Entry(d, k) = Null  BY <1>4, <1>5
  <2>2. Wanted(d, k) => k \in Proper(d)
    <3>1. ASSUME NEW n \in DOMAIN msgs, n >= at, ~msgs[n].invalid, pc = Pass(d)
          PROVE  KeyOf(d, msgs[n]) \in Proper(d)
      BY <1>1, <3>1, Ahead DEF Proper
    <3> QED  BY <3>1 DEF Wanted
  <2>3. CASE d = c /\ k \in rejected  BY <1>4, <1>6, <1>8, <2>2, <2>3
  <2>4. CASE Entry(d, k) = Null /\ ~(d = c /\ k \in rejected)
    BY <1>1, <1>4, <1>8, <2>4 DEF NullInv
  <2> QED  BY <2>1, <2>3, <2>4
<1>12. RejectedInv'
  <2> SUFFICES ASSUME NEW d \in Caches, held' \in {Rejected, Locked}, pc' = Pass(d)
               PROVE  Entry(d, KeyOf(d, msgs[at]))' = Null
    BY <1>2 DEF RejectedInv
  <2>0. PICK k : k = KeyOf(d, msgs[at])  OBVIOUS
  <2>1. pc = Pass(d)  BY <1>4 DEF Pass
  <2>2. Entry(d, k)' = Null
    <3>1. CASE \E l \in fulfilled : WaitsFor(c, l)
      <4>1. KeyOf(c, msgs[at]) \in fulfilled  BY <3>1 DEF WaitsFor
      <4> QED  BY <1>4, <1>5, <3>1, <4>1
    <3>2. CASE ~(\E l \in fulfilled : WaitsFor(c, l))
      <4>1. held \in {Rejected, Locked}  BY <1>4, <3>2
      <4>2. Entry(d, k) = Null  BY <1>1, <2>0, <2>1, <4>1 DEF RejectedInv
      <4> QED  BY <1>4, <1>7, <4>2
    <3> QED  BY <3>1, <3>2
  <2> QED  BY <1>2, <2>0, <2>2
<1>13. CountInv' /\ GarbledInv'
  BY <1>1, <1>2, <1>4 DEF CountInv, GarbledInv
<1>14. BlameInv' /\ FailureExplained'  BY <1>1, <1>2, BlameKept, FailureKept
<1> QED  BY <1>9, <1>10, <1>11, <1>12, <1>13, <1>14 DEF FailParts
-----------------------------------------------------------------------------
LEMMA FailNext == FailInv /\ [Next]_vars => FailInv'
<1> SUFFICES ASSUME FailInv, [Next]_vars PROVE FailInv'
  OBVIOUS
<1> "sign" \in Caches /\ "chat" \in Caches  BY DEF Caches
<1>1. StayInv'  BY StayNext DEF FailInv
<1>2. FailParts'
  <2>1. CASE UNCHANGED vars
    <3>1. UNCHANGED <<msgs, at, held, cache, ended, asked, pc, turn, missed>>
      BY <2>1 DEF vars, readerVars
    <3> QED
      BY <3>1 DEF FailInv, FailParts, CountInv, AskedInv, PendingInv, NullInv, RejectedInv,
         BlameInv, GarbledInv, FailureExplained, ThrewBefore, Entry, Wanted, KeyOf, Pass, Gone,
         Threw, Blamed, IdKey, ChatKey, SignedWell, Clash, Proper, KeyFor, Names, IsGarbled,
         SignedForm, BlockOf
  <2>2. CASE Next
    <3>1. pc # "crashed"  BY <2>2 DEF Next
    <3>2. CASE \/ \E r \in Ranges : read_messages(r)
               \/ read_message \/ MessagesFail \/ \E k \in Late \ known : Learn(k)
      BY <3>1, <3>2, OutsideFails
    <3>3. CASE \E r \in asked : buid_cache_request_return(r) \/ LoadFails(r)
      BY <3>1, <3>3, AnswerFails, LoadFailsFails
    <3>4. CASE \E r \in asked : handle(r)  BY <3>1, <3>4, HandleFails
    <3>5. CASE ParseMessages \/ ExtractClientData \/ check_signature \/ decrypt_message
      BY <3>5, ParseFails, ExtractFails, CheckFails, DecryptFails
    <3>6. CASE ensure_ecdsa_key_presance
      <4>1. ensure("sign", IF "sign" = "sign" THEN "signers" ELSE "ids")
        BY <3>6 DEF ensure_ecdsa_key_presance
      <4> QED  BY <4>1, EnsureFails
    <3>7. CASE ensure_aes_key_presance
      <4>1. ensure("chat", IF "chat" = "sign" THEN "signers" ELSE "ids")
        BY <3>7 DEF ensure_aes_key_presance
      <4> QED  BY <4>1, EnsureFails
    <3>8. CASE Return
      <4>1. /\ pc = "decrypting" /\ at > Len(msgs) /\ End(FALSE)
            /\ UNCHANGED <<turn, range, cache, erasing, leaked, asked, known, missed>>
        BY <3>8 DEF Return
      <4> QED  BY <4>1, EndFails
    <3>9. CASE \E c \in Caches : Skip(c) \/ get(c) \/ getErasing(c) \/ WaiterThrows(c)
      BY <3>9, SkipFails, GetFails, GetErasingFails, ThrowFails
    <3>10. CASE \E c \in Caches : \E k \in DOMAIN erasing[c] : reject(c, k) \/ erase(c, k)
      BY <3>1, <3>10, EraseFails
    <3> QED
      BY <2>2, <3>2, <3>3, <3>4, <3>5, <3>6, <3>7, <3>8, <3>9, <3>10
         DEF Next, ReaderStep, TaskStep
  <2> QED  BY <2>1, <2>2
<1> QED  BY <1>1, <1>2 DEF FailInv

(* A message is invalid only for its signature, for a key the server left  *)
(* out of an answer, or after a read that threw; and a read throws only on *)
(* a message whose key has the id of another (check_signatures,            *)
(* decrypt_messages, DataWaiter::get).                                     *)
THEOREM FailureExplainedAlways == Spec => []FailureExplained
<1>1. FailInv => FailureExplained  BY DEF FailInv, FailParts
<1> QED  BY <1>1, FailInit, FailNext, PTL DEF Spec
-----------------------------------------------------------------------------
(* Trouble: the process crashes, or a mutex stays locked.  As long as the  *)
(* server has every key and no read threw, only one request at a time is   *)
(* for keys of messages, and these are pending; as long as no message is   *)
(* invalid either, it is for keys no earlier read has loaded.              *)
Whole == ~Threw /\ missed = {}
Useful(r) == r.missing \cap Proper(r.cache) # {}

WholeInv ==
    pc # "crashed" /\ Whole => \A r \in asked :
        /\ \A k \in r.missing \cap Proper(r.cache) : Entry(r.cache, k) = Pending
        /\ Useful(r) => /\ \A k \in r.users \ r.missing : Entry(r.cache, k) # Null
                        /\ \A q \in asked : q.cache = r.cache /\ Useful(q) => q = r
CrashInv == pc = "crashed" => ~Whole

Ids(ms) == {m.msg_id : m \in Range(ms)}
KeysIn(c, ms) == {KeyFor(c, i) : i \in Ids(ms)}
Runs == {msgs} \cup {ended[j].msgs : j \in DOMAIN ended}
Share(c) == \E a, b \in Runs : /\ KeysIn(c, a) \cap KeysIn(c, b) # {}
                               /\ ~(KeysIn(c, b) \subseteq KeysIn(c, a))

Calm == ~Threw /\ \A m \in Results \cup Range(msgs) : ~m.invalid
ReadBefore(c, k) == \E j \in DOMAIN ended : k \in KeysIn(c, ended[j].msgs)
Entered(c) == pc = "decrypting" \/ (c = "sign" /\ pc \in {"signatures", "ids"})

IdsInv == /\ pc \in {"idle", "asked", "answered"} => msgs = <<>>
          /\ Ids(msgs) \subseteq DOMAIN Posts

LoadedInv ==
    pc # "crashed" /\ Calm => \A c \in Caches : \A k \in DOMAIN cache[c] :
        ReadBefore(c, k) \/ (Entered(c) /\ k \in KeysIn(c, msgs))
LoadingInv ==
    pc # "crashed" /\ Calm => \A r \in asked :
        /\ pc = Pass(r.cache) /\ r.users = KeysIn(r.cache, msgs)
        /\ \A k \in r.missing : Entry(r.cache, k) = Pending /\ ~ReadBefore(r.cache, k)
        /\ \A k \in r.users \ r.missing : ReadBefore(r.cache, k)
        /\ \A q \in asked : q = r
LeakInv == leaked # {} => ~Calm \/ Share("sign") \/ Share("chat")

(* A waiter whose mutex is locked has thrown at the reader, in this pass.  *)
ThrewFor(c, k) ==
    \E n \in DOMAIN msgs : n < at /\ msgs[n].invalid /\ KeyFor(c, msgs[n].msg_id) = k
LockedInv ==
    \A c \in Caches : pc = Pass(c) =>
        \A k \in DOMAIN erasing[c] : erasing[c][k] = "locked" => ThrewFor(c, k)
StuckInv ==
    \A c \in Caches : pc = Pass(c) /\ held = Locked => ThrewFor(c, KeyOf(c, msgs[at]))

TroubleParts == /\ WholeInv /\ CrashInv /\ IdsInv /\ LoadedInv /\ LoadingInv /\ LeakInv
                /\ LockedInv /\ StuckInv
TroubleInv == FailInv /\ TroubleParts
-----------------------------------------------------------------------------
LEMMA TroubleInit == Init => TroubleInv
<1> SUFFICES ASSUME Init PROVE TroubleInv
  OBVIOUS
<1>1. /\ msgs = <<>> /\ DOMAIN msgs = {} /\ pc = "idle" /\ asked = {} /\ leaked = {}
      /\ cache = [c \in Caches |-> <<>>] /\ DOMAIN <<>> = {}
      /\ \A c \in Caches : pc # Pass(c)
  BY DEF Init, Pass
<1>2. Ids(msgs) = {}  BY <1>1 DEF Ids, Range
<1>3. \A c \in Caches : DOMAIN cache[c] = {}  BY <1>1
<1> QED
  BY <1>1, <1>2, <1>3, FailInit DEF TroubleInv, TroubleParts, WholeInv, CrashInv, IdsInv,
     LoadedInv, LoadingInv, LeakInv, LockedInv, StuckInv

(* The trouble of the model, said of Posts, is that of the messages' keys. *)
LEMMA ShareIsShare ==
    /\ Share("sign") => SharePart(SenderOf)
    /\ Share("chat") => SharePart(IdOf)
<1>1. ASSUME Share("sign") PROVE SharePart(SenderOf)
  <2>1. ASSUME NEW ms PROVE KeysIn("sign", ms) = {SenderOf(Posts[m.msg_id]) : m \in Range(ms)}
    BY DEF KeysIn, Ids, KeyFor, SenderOf
  <2> QED  BY <1>1, <2>1 DEF Share, SharePart, Runs
<1>2. ASSUME Share("chat") PROVE SharePart(IdOf)
  <2> DEFINE Of(ms) == {IdOf(Posts[m.msg_id]) : m \in Range(ms)}
  <2>1. ASSUME NEW ms PROVE KeysIn("chat", ms) = {ChatKey(d) : d \in Of(ms)}
    BY DEF KeysIn, Ids, KeyFor, IdOf, IdKey
  <2>2. \A d, e : ChatKey(d) = ChatKey(e) => d = e  BY DEF ChatKey
  <2>3. PICK a \in Runs, b \in Runs : /\ KeysIn("chat", a) \cap KeysIn("chat", b) # {}
                                   /\ ~(KeysIn("chat", b) \subseteq KeysIn("chat", a))
    BY <1>2 DEF Share
  <2>4. Of(a) \cap Of(b) # {} /\ ~(Of(b) \subseteq Of(a))
    <3> HIDE DEF Of
    <3> QED  BY <2>1, <2>2, <2>3
  <2> QED  BY <2>3, <2>4 DEF SharePart, Runs
<1> QED  BY <1>1, <1>2

(* The messages of a read stay the same messages, and invalid if they are. *)
SameMessages ==
    /\ DOMAIN msgs' = DOMAIN msgs /\ ended' = ended
    /\ \A n \in DOMAIN msgs : /\ msgs'[n].msg_id = msgs[n].msg_id
                              /\ msgs[n].invalid => msgs'[n].invalid

LEMMA SameMeansSame ==
    ASSUME SameMessages
    PROVE  /\ Ids(msgs') = Ids(msgs) /\ (Calm' => Calm)
           /\ \A c : KeysIn(c, msgs)' = KeysIn(c, msgs)
           /\ \A c : Share(c) => Share(c)'
           /\ \A c, k : ReadBefore(c, k)' = ReadBefore(c, k)
<1>1. Ids(msgs') = Ids(msgs)  BY DEF SameMessages, Ids, Range
<1>2. Calm' => Calm  BY DEF SameMessages, Calm, Threw, Results, Range
<1>3. \A c : KeysIn(c, msgs') = KeysIn(c, msgs)  BY <1>1 DEF KeysIn
<1>4. ASSUME NEW c, Share(c) PROVE Share(c)'
  <2>1. PICK a \in Runs, b \in Runs : /\ KeysIn(c, a) \cap KeysIn(c, b) # {}
                                   /\ ~(KeysIn(c, b) \subseteq KeysIn(c, a))
    BY <1>4 DEF Share
  <2>2. \A x \in Runs : \E y \in Runs' : KeysIn(c, y) = KeysIn(c, x)
    BY <1>3 DEF SameMessages, Runs
  <2> QED  BY <2>1, <2>2 DEF Share, KeysIn, Ids, KeyFor, IdKey, ChatKey
<1>5. \A c, k : ReadBefore(c, k)' = ReadBefore(c, k)
  BY DEF SameMessages, ReadBefore, KeysIn, KeyFor, IdKey, ChatKey, Ids
<1> QED  BY <1>1, <1>2, <1>3, <1>4, <1>5 DEF KeysIn, KeyFor, IdKey, ChatKey, Ids

LEMMA SetSame ==
    ASSUME Inv, NEW c \in Caches, InPass(c), NEW m, SetMessage(m), ~msgs[at].invalid,
           m.msg_id = msgs[at].msg_id, ended' = ended
    PROVE  SameMessages /\ at \in DOMAIN msgs /\ msgs'[at] = m
<1>1. at \in DOMAIN msgs /\ IsQueue(msgs)  BY InHand DEF Inv, MsgsInv
<1>2. /\ DOMAIN msgs' = DOMAIN msgs
      /\ \A n \in DOMAIN msgs : msgs'[n] = IF n = at THEN m ELSE msgs[n]
  BY <1>1, QueueChanged DEF SetMessage
<1> QED  BY <1>1, <1>2 DEF SameMessages

LEMMA NullSame ==
    ASSUME Inv, NEW c \in Caches, InPass(c), ~msgs[at].invalid, Invalid(msgs[at]), ended' = ended
    PROVE  SameMessages /\ ~Calm'
<1> DEFINE m == [msgs[at] EXCEPT !.invalid = TRUE]
<1>1. IF c = "sign" THEN IsSigned(msgs[at]) ELSE IsOpen(msgs[at])  BY InHand
<1>2. m.invalid /\ m.msg_id = msgs[at].msg_id  BY <1>1, InvalidMessage
<1>3. SetMessage(m)  BY DEF Invalid
<1> HIDE DEF m
<1>4. SameMessages /\ at \in DOMAIN msgs /\ msgs'[at] = m  BY <1>2, <1>3, SetSame
<1> QED  BY <1>2, <1>4 DEF SameMessages, Calm, Range

LEMMA PassSame ==
    ASSUME Inv,
           \/ check_signature \/ (decrypt_message /\ ~End(TRUE))
           \/ \E c \in Caches : Skip(c) \/ get(c) \/ getErasing(c) \/ WaiterThrows(c)
    PROVE  SameMessages /\ pc' = pc /\ at \in DOMAIN msgs /\ \E c \in Caches : pc = Pass(c)
<1> "sign" \in Caches /\ "chat" \in Caches  BY DEF Caches
<1>1. CASE check_signature
  <2>1. /\ InPass("sign") /\ held \notin {None, Pending, Rejected, Locked}
        /\ ended' = ended /\ pc' = pc
    BY <1>1 DEF check_signature
  <2>2. PICK m : SetMessage(m) /\ m.msg_id = msgs[at].msg_id  BY <1>1, Checked
  <2>3. ~msgs[at].invalid  BY <2>1, KeyInHand
  <2> QED  BY <2>1, <2>2, <2>3, SetSame, InHand
<1>2. CASE decrypt_message /\ ~End(TRUE)
  <2>1. InPass("chat") /\ held \notin {None, Pending, Rejected, Locked}  BY <1>2 DEF decrypt_message
  <2>2. ended' = ended /\ pc' = pc  BY <1>2, Decrypted
  <2>3. PICK m : SetMessage(m) /\ m.msg_id = msgs[at].msg_id  BY <1>2, Decrypted
  <2>4. ~msgs[at].invalid  BY <2>1, KeyInHand
  <2> QED  BY <2>1, <2>2, <2>3, <2>4, SetSame, InHand
<1>3. ASSUME NEW c \in Caches, Skip(c)
      PROVE  SameMessages /\ pc' = pc /\ at \in DOMAIN msgs /\ pc = Pass(c)
  BY <1>3, InHand DEF Skip, SameMessages
<1>4. ASSUME NEW c \in Caches, get(c)
      PROVE  SameMessages /\ pc' = pc /\ at \in DOMAIN msgs /\ pc = Pass(c)
  <2>1. /\ InPass(c) /\ ~msgs[at].invalid /\ ended' = ended /\ pc' = pc
        /\ Invalid(msgs[at]) \/ UNCHANGED msgs
    BY <1>4 DEF get
  <2>2. CASE Invalid(msgs[at])  BY <2>1, <2>2, NullSame, InHand
  <2>3. CASE UNCHANGED msgs  BY <2>1, <2>3, InHand DEF SameMessages
  <2> QED  BY <2>1, <2>2, <2>3
<1>5. ASSUME NEW c \in Caches, WaiterThrows(c)
      PROVE  SameMessages /\ pc' = pc /\ at \in DOMAIN msgs /\ pc = Pass(c)
  <2>1. InPass(c) /\ held = Rejected /\ Invalid(msgs[at]) /\ ended' = ended /\ pc' = pc
    BY <1>5 DEF WaiterThrows
  <2>2. pc = Pass(c)  BY <2>1, InHand
  <2>3. ~msgs[at].invalid
    BY <2>1, <2>2, StatesAssumption DEF Inv, HeldInv, Pass
  <2> QED  BY <2>1, <2>2, <2>3, NullSame, InHand
<1>6. ASSUME NEW c \in Caches, getErasing(c)
      PROVE  SameMessages /\ pc' = pc /\ at \in DOMAIN msgs /\ pc = Pass(c)
  BY <1>6, InHand DEF getErasing, readerVars, SameMessages
<1> QED  BY <1>1, <1>2, <1>3, <1>4, <1>5, <1>6

LEMMA ExtractSame ==
    ASSUME Inv, ExtractClientData
    PROVE  SameMessages
<1>1. /\ pc = "signatures" /\ at > Len(msgs) /\ ended' = ended
      /\ DOMAIN msgs' = DOMAIN msgs
      /\ \A n \in DOMAIN msgs : msgs'[n] = IF msgs[n].invalid THEN msgs[n]
                                           ELSE extract_client_data(msgs[n])
  BY DEF ExtractClientData
<1>2. \A n \in DOMAIN msgs : n < at /\ IsVerified(msgs[n])
  BY <1>1 DEF Inv, MsgsInv, IsQueue
<1>3. ASSUME NEW n \in DOMAIN msgs, ~msgs[n].invalid
      PROVE  msgs'[n].msg_id = msgs[n].msg_id
  <2>1. PICK i \in DOMAIN Posts : msgs[n] = VerifiedForm(i)  BY <1>2, <1>3 DEF IsVerified
  <2>2. msgs'[n] = OpenForm(i)  BY <1>1, <1>3, <2>1, OpenedForm
  <2> QED  BY <2>1, <2>2 DEF OpenForm, ReadForm, VerifiedForm
<1> QED  BY <1>1, <1>3 DEF SameMessages

(* A read ends, or a new one begins.                                       *)
LEMMA EndChanges ==
    ASSUME Inv, NEW threw \in BOOLEAN, End(threw)
    PROVE  /\ Calm' => Calm /\ ~threw
           /\ \A c : Share(c) => Share(c)'
           /\ \A c, k : ReadBefore(c, k)' <=> ReadBefore(c, k) \/ k \in KeysIn(c, msgs)
<1> DEFINE e == [msgs |-> msgs, threw |-> threw]
<1>0. PICK last : last = Len(ended) + 1  OBVIOUS
<1>1. ended' = Append(ended, e) /\ msgs' = <<>>  BY DEF End
<1>2. e.msgs = msgs /\ e.threw = threw  OBVIOUS
<1>3. IsQueue(ended)  BY DEF Inv, EndedInv
<1> HIDE DEF e
<1>4. /\ DOMAIN ended' = 1 .. last
      /\ \A j \in DOMAIN ended : ended'[j] = ended[j]
      /\ ended'[last] = e
  BY <1>0, <1>1, <1>3, QueueExtended
<1>5. DOMAIN ended' = DOMAIN ended \cup {last}  BY <1>0, <1>3, <1>4 DEF IsQueue
<1>6. Calm' => Calm /\ ~threw
  BY <1>2, <1>4, <1>5 DEF Calm, Threw, Results
<1>7. Runs \subseteq Runs'  BY <1>2, <1>4, <1>5 DEF Runs
<1>8. ASSUME NEW c, Share(c) PROVE Share(c)'
  BY <1>7, <1>8 DEF Share, KeysIn, Ids, KeyFor, IdKey, ChatKey
<1>9. ASSUME NEW c, NEW k
      PROVE  ReadBefore(c, k)' <=> ReadBefore(c, k) \/ k \in KeysIn(c, msgs)
  BY <1>2, <1>4, <1>5 DEF ReadBefore, KeysIn, Ids, KeyFor, IdKey, ChatKey
<1> QED  BY <1>6, <1>8, <1>9

LEMMA ParseChanges ==
    ASSUME TroubleInv, ParseMessages
    PROVE  /\ Calm' => Calm
           /\ \A c : Share(c) => Share(c)'
           /\ \A c, k : ReadBefore(c, k)' = ReadBefore(c, k)
           /\ Ids(msgs') \subseteq DOMAIN Posts
<1>1. /\ pc = "answered" /\ ended' = ended
      /\ msgs' = [n \in DOMAIN answer |-> Extracted[answer[n]]]
  BY DEF ParseMessages
<1>2. msgs = <<>> /\ DOMAIN msgs = {}
  BY <1>1 DEF TroubleInv, TroubleParts, IdsInv
<1>3. Calm' => Calm  BY <1>1, <1>2 DEF Calm, Threw, Results, Range
<1>4. ASSUME NEW c, Share(c) PROVE Share(c)'
  <2>1. \A a \in Runs : KeysIn(c, a) # {} => a \in Runs'
    BY <1>1, <1>2 DEF Runs, KeysIn, Ids, Range
  <2> QED  BY <1>4, <2>1 DEF Share, KeysIn, Ids, KeyFor, IdKey, ChatKey
<1>5. \A c, k : ReadBefore(c, k)' = ReadBefore(c, k)
  BY <1>1 DEF ReadBefore, KeysIn, Ids, KeyFor, IdKey, ChatKey
<1>6. Ids(msgs') \subseteq DOMAIN Posts
  <2>1. answer \in Seq(DOMAIN Posts)
    BY DEF TroubleInv, FailInv, StayInv, Inv, MsgsInv
  <2>2. \A n \in DOMAIN answer : answer[n] \in DOMAIN Posts  BY <2>1
  <2>3. \A i \in DOMAIN Posts : SignedForm(i).msg_id = i  BY DEF SignedForm
  <2>4. \A i \in DOMAIN Posts : Extracted[i].msg_id = i  BY <2>3, ExtractedForm
  <2> QED  BY <1>1, <2>2, <2>4 DEF Ids, Range
<1> QED  BY <1>3, <1>4, <1>5, <1>6
-----------------------------------------------------------------------------
(* The server has every key and no read threw.                             *)
LEMMA WholeBefore ==
    ASSUME Inv, [Next]_vars, Whole'
    PROVE  Whole
  BY Grows DEF Whole

LEMMA WholeKept ==
    ASSUME TroubleInv, [Next]_vars, pc # "crashed", pc' # "crashed", asked' \subseteq asked,
           \A d \in Caches : \A k : Entry(d, k)' = Entry(d, k)
    PROVE  WholeInv' /\ CrashInv'
<1>1. Inv /\ WholeInv  BY DEF TroubleInv, TroubleParts, FailInv, StayInv
<1>2. \A r \in asked : r.cache \in Caches  BY <1>1 DEF Inv, KeysInv
<1>3. Whole' => Whole  BY <1>1, WholeBefore
<1>4. \A r : Useful(r)' = Useful(r) /\ Proper(r.cache)' = Proper(r.cache)
  BY DEF Useful, Proper, KeyFor, IdKey, ChatKey
<1> QED  BY <1>1, <1>2, <1>3, <1>4 DEF WholeInv, CrashInv

LEMMA WholeAnswer ==
    ASSUME TroubleInv, [Next]_vars, pc # "crashed", NEW r \in asked, buid_cache_request_return(r)
    PROVE  WholeInv' /\ CrashInv'
<1> DEFINE found == r.missing \cap known \cap Names(r.cache)
           reply == [r EXCEPT !.stage = "answer", !.keys = [k \in found |-> Key(r.cache, k)]]
<1>1. /\ asked' = (asked \ {r}) \cup {reply}
      /\ UNCHANGED <<readerVars, held, cache, erasing, leaked, known>>
  BY DEF buid_cache_request_return
<1>2. reply.cache = r.cache /\ reply.users = r.users /\ reply.missing = r.missing
  OBVIOUS
<1> HIDE DEF reply, found
<1>3. Inv /\ WholeInv  BY DEF TroubleInv, TroubleParts, FailInv, StayInv
<1>4. pc' = pc /\ \A d, k : Entry(d, k)' = Entry(d, k)  BY <1>1 DEF readerVars, Entry
<1>5. Whole' => Whole  BY <1>3, WholeBefore
<1>6. \A q : Useful(q)' = Useful(q) /\ Proper(q.cache)' = Proper(q.cache)
  BY DEF Useful, Proper, KeyFor, IdKey, ChatKey
<1>7. Useful(reply) = Useful(r)  BY <1>2 DEF Useful
<1>8. \A q \in asked' : (q \in asked /\ q # r) \/ q = reply  BY <1>1
<1>9. ASSUME Whole, NEW q \in asked'
      PROVE  /\ \A k \in q.missing \cap Proper(q.cache) : Entry(q.cache, k) = Pending
             /\ Useful(q) => /\ \A k \in q.users \ q.missing : Entry(q.cache, k) # Null
                             /\ \A p \in asked' : p.cache = q.cache /\ Useful(p) => p = q
  <2>1. PICK s \in asked : /\ q.cache = s.cache /\ q.users = s.users /\ q.missing = s.missing
                           /\ Useful(q) = Useful(s)
                           /\ (q = s /\ q # r) \/ (q = reply /\ s = r)
    <3>1. CASE q \in asked /\ q # r  BY <3>1
    <3>2. CASE q = reply
      <4>1. Useful(q) = Useful(r)  BY <1>7, <3>2
      <4> QED  BY <1>2, <3>2, <4>1
    <3> QED  BY <1>8, <3>1, <3>2
  <2>2. /\ \A k \in s.missing \cap Proper(s.cache) : Entry(s.cache, k) = Pending
        /\ Useful(s) => /\ \A k \in s.users \ s.missing : Entry(s.cache, k) # Null
                        /\ \A p \in asked : p.cache = s.cache /\ Useful(p) => p = s
    BY <1>3, <1>9 DEF WholeInv
  <2>3. ASSUME Useful(q), NEW p \in asked', p.cache = q.cache, Useful(p) PROVE p = q
    BY <1>2, <1>7, <1>8, <2>1, <2>2, <2>3
  <2> QED  BY <2>1, <2>2, <2>3
<1> QED  BY <1>4, <1>5, <1>6, <1>9 DEF WholeInv, CrashInv

LEMMA WholeEnsure ==
    ASSUME TroubleInv, [Next]_vars, NEW c \in Caches,
           ensure(c, IF c = "sign" THEN "signers" ELSE "ids")
    PROVE  WholeInv' /\ CrashInv'
<1>0. PICK from : from = IF c = "sign" THEN "signers" ELSE "ids"  OBVIOUS
<1>1. PICK wanted, missing, request :
        /\ wanted = {KeyOf(c, msgs[n]) : n \in DOMAIN msgs}
        /\ missing = wanted \ DOMAIN cache[c]
        /\ request.cache = c /\ request.users = wanted /\ request.missing = missing
        /\ request.stage = "request"
        /\ asked' = IF missing = {} THEN asked ELSE asked \cup {request}
        /\ \A d \in Caches : \A k :
              /\ Entry(d, k)' = IF d = c /\ k \in missing THEN Pending ELSE Entry(d, k)
              /\ k \in DOMAIN cache'[d] <=> k \in DOMAIN cache[d] \/ (d = c /\ k \in missing)
        /\ Free(c) /\ pc = from /\ pc' = Pass(c) /\ at' = 1
        /\ UNCHANGED <<turn, range, answer, msgs, ended, held, erasing, leaked, known, missed>>
  <2>1. Inv /\ ensure(c, from)  BY <1>0 DEF TroubleInv, FailInv, StayInv
  <2> QED  BY <2>1, EnsureEffects
<1>2. /\ Inv /\ PendingInv /\ NullInv /\ WholeInv
  BY DEF TroubleInv, TroubleParts, FailInv, FailParts, StayInv
<1>3. /\ pc # "crashed" /\ pc' # "crashed" /\ \A d \in Caches : pc # Pass(d)
  BY <1>0, <1>1 DEF Pass, Caches
<1>4. \A r \in asked : r.cache \in Caches  BY <1>2 DEF Inv, KeysInv
<1>5. Whole' = Whole  BY <1>1 DEF Whole, Threw
<1>6. \A q : Useful(q)' = Useful(q) /\ Proper(q.cache)' = Proper(q.cache)
  BY DEF Useful, Proper, KeyFor, IdKey, ChatKey
<1>7. ASSUME Whole, NEW q \in asked
      PROVE  /\ ~Useful(q)
             /\ q.missing \cap Proper(q.cache) = {}
  <2>1. ASSUME NEW k \in q.missing \cap Proper(q.cache) PROVE FALSE
    <3>1. Entry(q.cache, k) = Pending  BY <1>2, <1>3, <1>7, <2>1 DEF WholeInv
    <3>2. ~Threw /\ ~Wanted(q.cache, k)  BY <1>3, <1>4, <1>7 DEF Whole, Wanted
    <3> QED  BY <1>2, <1>3, <1>4, <2>1, <3>1, <3>2 DEF PendingInv
  <2> QED  BY <2>1 DEF Useful
<1>8. ASSUME Whole, NEW k \in wanted \ missing PROVE Entry(c, k)' # Null
  <2>1. k \in DOMAIN cache[c] /\ ~Gone(k)  BY <1>1, <1>8 DEF Gone, Whole
  <2> QED  BY <1>1, <1>2, <1>8, <2>1 DEF NullInv
<1>9. ASSUME Whole, NEW q \in asked'
      PROVE  /\ \A k \in q.missing \cap Proper(q.cache) : Entry(q.cache, k)' = Pending
             /\ Useful(q) => /\ \A k \in q.users \ q.missing : Entry(q.cache, k)' # Null
                             /\ \A p \in asked' : p.cache = q.cache /\ Useful(p) => p = q
  BY <1>1, <1>7, <1>8, <1>9
<1> QED  BY <1>3, <1>5, <1>6, <1>9 DEF WholeInv, CrashInv

LEMMA WholeHandle ==
    ASSUME TroubleInv, [Next]_vars, pc # "crashed", NEW r \in asked, handle(r)
    PROVE  WholeInv' /\ CrashInv'
<1>1. /\ Inv /\ AskedInv /\ WholeInv
  BY DEF TroubleInv, TroubleParts, FailInv, FailParts, StayInv
<1>2. /\ r.stage = "answer" /\ r.cache \in Caches /\ asked' = asked \ {r}
      /\ UNCHANGED <<ended, missed>>
  BY <1>1, HandleEffects
<1>3. PICK value, fulfilled, rejected : Settled(r, value, fulfilled, rejected)
  BY <1>1, HandleEffects
<1>4. \A r1 \in asked : r1.cache \in Caches  BY <1>1 DEF Inv, KeysInv
<1>5. Whole' = Whole  BY <1>2 DEF Whole, Threw
<1>6. \A q : Useful(q)' = Useful(q) /\ Proper(q.cache)' = Proper(q.cache)
  BY DEF Useful, Proper, KeyFor, IdKey, ChatKey
<1>7. /\ r.missing # {} /\ r.missing \subseteq r.users /\ DOMAIN r.keys \subseteq r.missing
      /\ r.missing \ DOMAIN r.keys \subseteq missed
      /\ \A k \in r.users : k \in Proper(r.cache) \/ k \notin Names(r.cache)
  BY <1>1, <1>2 DEF AskedInv
<1>8. DOMAIN value = DOMAIN r.keys /\ \A k \in DOMAIN value : k \in Names(r.cache)
  BY <1>3 DEF Settled, GoodKey
<1>9. ASSUME Whole
      PROVE  /\ r.missing \subseteq Proper(r.cache) /\ Useful(r)
             /\ \A k \in r.users \cup DOMAIN value : Entry(r.cache, k) # Null
             /\ \A q \in asked \ {r} : q.cache = r.cache => q.missing \cap Proper(q.cache) = {}
  <2>1. r.missing = DOMAIN value  BY <1>7, <1>8, <1>9 DEF Whole
  <2>2. r.missing \subseteq Proper(r.cache)  BY <1>7, <1>8, <2>1
  <2>3. Useful(r)  BY <1>7, <2>2 DEF Useful
  <2>4. /\ \A k \in r.missing : Entry(r.cache, k) = Pending
        /\ \A k \in r.users \ r.missing : Entry(r.cache, k) # Null
        /\ \A q \in asked : q.cache = r.cache /\ Useful(q) => q = r
    BY <1>1, <1>9, <2>2, <2>3 DEF WholeInv
  <2> QED  BY <1>7, <2>1, <2>2, <2>3, <2>4, StatesAssumption DEF Useful
<1>10. CrashInv'
  BY <1>3, <1>5, <1>9 DEF CrashInv, Settled
<1>11. ASSUME Whole, NEW q \in asked \ {r}
       PROVE  /\ \A k \in q.missing \cap Proper(q.cache) : Entry(q.cache, k)' = Pending
              /\ Useful(q) => /\ \A k \in q.users \ q.missing : Entry(q.cache, k)' # Null
                              /\ \A p \in asked \ {r} : p.cache = q.cache /\ Useful(p) => p = q
  <2>1. CASE q.cache = r.cache  BY <1>9, <1>11, <2>1 DEF Useful
  <2>2. CASE q.cache # r.cache
    <3>1. \A k : Entry(q.cache, k)' = Entry(q.cache, k)
      BY <1>3, <1>4, <2>2 DEF Settled
    <3> QED  BY <1>1, <1>11, <3>1 DEF WholeInv
  <2> QED  BY <2>1, <2>2
<1> QED  BY <1>2, <1>5, <1>6, <1>10, <1>11 DEF WholeInv
-----------------------------------------------------------------------------
(* No message is invalid: what is loaded, and by whom.                     *)
LoadParts == IdsInv /\ LoadedInv /\ LoadingInv /\ LeakInv

LEMMA LoadKept ==
    ASSUME TroubleInv, pc # "crashed", leaked' = leaked, Ids(msgs') \subseteq DOMAIN Posts,
           pc' \in {"idle", "asked", "answered"} => msgs' = <<>>,
           Calm' => Calm,
           \A c : Share(c) => Share(c)',
           \A c, k : ReadBefore(c, k) => ReadBefore(c, k)',
           Calm' => \A c \in Caches : \A k \in DOMAIN cache'[c] :
              \/ k \in DOMAIN cache[c] /\ (Entered(c) => Entered(c)')
                 /\ KeysIn(c, msgs)' = KeysIn(c, msgs)
              \/ ReadBefore(c, k)' \/ (Entered(c)' /\ k \in KeysIn(c, msgs)'),
           LoadingInv'
    PROVE  LoadParts'
<1>1. LoadedInv /\ LeakInv  BY DEF TroubleInv, TroubleParts
<1>2. IdsInv'  BY DEF IdsInv, Ids
<1>3. LoadedInv'
  <2> SUFFICES ASSUME Calm', NEW c \in Caches, NEW k \in DOMAIN cache'[c]
               PROVE  ReadBefore(c, k)' \/ (Entered(c)' /\ k \in KeysIn(c, msgs)')
    BY DEF LoadedInv
  <2>1. k \in DOMAIN cache[c] => ReadBefore(c, k) \/ (Entered(c) /\ k \in KeysIn(c, msgs))
    BY <1>1 DEF LoadedInv
  <2> QED  BY <2>1
<1>4. LeakInv'  BY <1>1 DEF LeakInv
<1> QED  BY <1>2, <1>3, <1>4 DEF LoadParts

(* No request is under way when the last message of a pass has its key.    *)
LEMMA NoneAsked ==
    ASSUME TroubleInv, Calm, pc # "crashed",
           \/ at > Len(msgs)
           \/ \A c \in Caches : pc # Pass(c)
    PROVE  asked = {}
<1>1. /\ Inv /\ AskedInv /\ PendingInv /\ LoadingInv /\ IdsInv
  BY DEF TroubleInv, TroubleParts, FailInv, FailParts, StayInv
<1>2. ASSUME NEW r \in asked PROVE FALSE
  <2>1. /\ r.cache \in Caches /\ pc = Pass(r.cache) /\ r.users = KeysIn(r.cache, msgs)
        /\ \A k \in r.missing : Entry(r.cache, k) = Pending
        /\ r.missing # {} /\ r.missing \subseteq r.users
    BY <1>1 DEF LoadingInv, AskedInv, Inv, KeysInv
  <2>2. KeysIn(r.cache, msgs) \subseteq Proper(r.cache)
    BY <1>1 DEF IdsInv, KeysIn, Proper
  <2>3. PICK k \in r.missing : k \in Proper(r.cache) /\ Entry(r.cache, k) = Pending
    BY <2>1, <2>2
  <2>4. Wanted(r.cache, k)  BY <1>1, <2>1, <2>3 DEF PendingInv, Calm
  <2>5. \A n \in DOMAIN msgs : at > Len(msgs) => ~(n >= at)
    BY <1>1 DEF Inv, MsgsInv, IsQueue
  <2> QED  BY <2>1, <2>4, <2>5 DEF Wanted
<1> QED  BY <1>2

(* The steps that ask for nothing and put no key into a cache.             *)
LEMMA LoadingKept ==
    ASSUME TroubleInv, pc # "crashed", asked' \subseteq asked, Calm' => Calm,
           \/ Calm' => asked = {}
           \/ /\ SameMessages /\ pc' = pc /\ \A d \in Caches : \A k : Entry(d, k)' = Entry(d, k)
    PROVE  LoadingInv'
<1>1. Inv /\ LoadingInv  BY DEF TroubleInv, TroubleParts, FailInv, StayInv
<1>2. \A r \in asked : r.cache \in Caches  BY <1>1 DEF Inv, KeysInv
<1>3. CASE Calm' => asked = {}  BY <1>3 DEF LoadingInv
<1>4. CASE SameMessages /\ pc' = pc /\ \A d \in Caches : \A k : Entry(d, k)' = Entry(d, k)
  <2>1. /\ \A c : KeysIn(c, msgs)' = KeysIn(c, msgs)
        /\ \A c, k : ReadBefore(c, k)' = ReadBefore(c, k)
    BY <1>4, SameMeansSame
  <2> QED  BY <1>1, <1>2, <1>4, <2>1 DEF LoadingInv, Pass
<1> QED  BY <1>3, <1>4

LEMMA SameLoad ==
    ASSUME TroubleInv, pc # "crashed", SameMessages, asked' \subseteq asked, leaked' = leaked,
           pc' \in {"idle", "asked", "answered"} => msgs' = <<>>,
           Calm' => \A c \in Caches : DOMAIN cache'[c] \subseteq DOMAIN cache[c],
           \A c \in Caches : Entered(c) => Entered(c)',
           \/ Calm' => asked = {}
           \/ pc' = pc /\ \A d \in Caches : \A k : Entry(d, k)' = Entry(d, k)
    PROVE  LoadParts'
<1>1. /\ Ids(msgs') = Ids(msgs) /\ (Calm' => Calm)
      /\ \A c : KeysIn(c, msgs)' = KeysIn(c, msgs)
      /\ \A c : Share(c) => Share(c)'
      /\ \A c, k : ReadBefore(c, k)' = ReadBefore(c, k)
  BY SameMeansSame
<1>2. IdsInv  BY DEF TroubleInv, TroubleParts
<1>3. LoadingInv'  BY <1>1, LoadingKept
<1>4. Ids(msgs') \subseteq DOMAIN Posts  BY <1>1, <1>2 DEF IdsInv
<1> QED  BY <1>1, <1>3, <1>4, LoadKept

(* The steps of a pass over the messages.                                  *)
LEMMA PassLoads ==
    ASSUME TroubleInv, pc # "crashed",
           \/ check_signature \/ (decrypt_message /\ ~End(TRUE))
           \/ \E c \in Caches : Skip(c) \/ get(c) \/ getErasing(c) \/ WaiterThrows(c)
    PROVE  LoadParts'
<1>1. Inv /\ KeysInv  BY DEF TroubleInv, FailInv, StayInv, Inv
<1>2. SameMessages /\ pc' = pc /\ at \in DOMAIN msgs /\ \E c \in Caches : pc = Pass(c)
  BY <1>1, PassSame
<1>3. UNCHANGED <<asked, leaked>>
  BY DEF check_signature, decrypt_message, Skip, get, getErasing, WaiterThrows
<1>4. pc' \notin {"idle", "asked", "answered"} /\ \A c \in Caches : Entered(c) => Entered(c)'
  BY <1>2 DEF Entered, Pass
<1>5. /\ \A d \in Caches : \A k : Entry(d, k)' = Entry(d, k)
      /\ Calm' => \A d \in Caches : DOMAIN cache'[d] \subseteq DOMAIN cache[d]
  <2>1. CASE cache' = cache  BY <2>1 DEF Entry
  <2>2. ASSUME NEW c \in Caches, get(c)
        PROVE  /\ \A d \in Caches : \A k : Entry(d, k)' = Entry(d, k)
               /\ Calm' => \A d \in Caches : DOMAIN cache'[d] \subseteq DOMAIN cache[d]
    <3>1. \A d \in Caches : \A k :
             /\ Entry(d, k)' = Entry(d, k)
             /\ k \in DOMAIN cache'[d] <=>
                   k \in DOMAIN cache[d] \/ (d = c /\ k = KeyOf(c, msgs[at]))
      BY <1>1, <2>2, GetEffects
    <3>2. /\ InPass(c) /\ ~msgs[at].invalid /\ ended' = ended
          /\ \/ Entry(c, KeyOf(c, msgs[at])) = Null /\ Invalid(msgs[at])
             \/ Entry(c, KeyOf(c, msgs[at])) # Null
      BY <2>2 DEF get
    <3>3. CASE Entry(c, KeyOf(c, msgs[at])) # Null
      <4>1. KeyOf(c, msgs[at]) \in DOMAIN cache[c]  BY <1>1, <3>3, EntryIn
      <4> QED  BY <3>1, <4>1
    <3>4. CASE Invalid(msgs[at])
      <4>1. ~Calm'  BY <1>1, <3>2, <3>4, NullSame
      <4> QED  BY <3>1, <4>1
    <3> QED  BY <3>2, <3>3, <3>4
  <2> QED
    BY <2>1, <2>2 DEF check_signature, decrypt_message, Skip, getErasing, WaiterThrows
<1> QED  BY <1>2, <1>3, <1>4, <1>5, SameLoad

LEMMA OutsideLoads ==
    ASSUME TroubleInv, pc # "crashed",
           \/ \E r \in Ranges : read_messages(r)
           \/ read_message \/ MessagesFail \/ (\E k \in Late \ known : Learn(k))
           \/ \E r \in asked : LoadFails(r)
           \/ \E c \in Caches : \E k \in DOMAIN erasing[c] : reject(c, k) \/ erase(c, k)
    PROVE  LoadParts'
<1>1. /\ UNCHANGED <<msgs, ended, cache, leaked>> /\ asked' \subseteq asked
      /\ \/ pc' = pc
         \/ pc \in {"idle", "asked"} /\ pc' \in {"idle", "asked", "answered", "lost"}
  BY DEF read_messages, read_message, MessagesFail, Learn, LoadFails, reject, erase, readerVars
<1>2. SameMessages  BY <1>1 DEF SameMessages
<1>3. \A d \in Caches : \A k : Entry(d, k)' = Entry(d, k)  BY <1>1 DEF Entry
<1>4. Calm' => Calm  BY <1>2, SameMeansSame
<1>5. pc' # pc => \A c \in Caches : pc # Pass(c)  BY <1>1 DEF Pass
<1>6. (Calm' => asked = {}) \/ pc' = pc  BY <1>4, <1>5, NoneAsked
<1>7. \A c \in Caches : Entered(c) => Entered(c)'  BY <1>1 DEF Entered
<1>8. pc' \in {"idle", "asked", "answered"} => msgs' = <<>>
  BY <1>1 DEF TroubleInv, TroubleParts, IdsInv
<1> QED  BY <1>1, <1>2, <1>3, <1>6, <1>7, <1>8, SameLoad

LEMMA ParseLoads ==
    ASSUME TroubleInv, ParseMessages
    PROVE  LoadParts'
<1>1. /\ pc = "answered" /\ pc' = "signers" /\ UNCHANGED <<cache, asked, leaked>>
  BY DEF ParseMessages
<1>2. /\ Calm' => Calm
      /\ \A c : Share(c) => Share(c)'
      /\ \A c, k : ReadBefore(c, k)' = ReadBefore(c, k)
      /\ Ids(msgs') \subseteq DOMAIN Posts
  BY ParseChanges
<1>3. pc # "crashed" /\ \A c \in Caches : pc # Pass(c)  BY <1>1 DEF Pass
<1>4. Calm' => asked = {}  BY <1>2, <1>3, NoneAsked
<1>5. LoadingInv'  BY <1>1, <1>2, <1>3, <1>4, LoadingKept
<1>6. Calm' => \A c \in Caches : \A k \in DOMAIN cache'[c] : ReadBefore(c, k)'
  <2>1. LoadedInv /\ \A c : ~Entered(c)
    BY <1>1 DEF TroubleInv, TroubleParts, Entered
  <2> QED  BY <1>1, <1>2, <1>3, <2>1 DEF LoadedInv
<1> QED  BY <1>1, <1>2, <1>3, <1>5, <1>6, LoadKept

LEMMA ExtractLoads ==
    ASSUME TroubleInv, ExtractClientData
    PROVE  LoadParts'
<1>1. /\ pc = "signatures" /\ pc' = "ids" /\ UNCHANGED <<cache, asked, leaked>>
      /\ at > Len(msgs)
  BY DEF ExtractClientData
<1>2. SameMessages  BY ExtractSame DEF TroubleInv, FailInv, StayInv
<1>3. Calm' => Calm  BY <1>2, SameMeansSame
<1>4. Calm' => asked = {}  BY <1>1, <1>3, NoneAsked
<1>5. \A c \in Caches : Entered(c) => Entered(c)'  BY <1>1 DEF Entered
<1> QED  BY <1>1, <1>2, <1>4, <1>5, SameLoad

LEMMA EndLoads ==
    ASSUME TroubleInv, pc = "decrypting", NEW threw \in BOOLEAN, End(threw),
           threw \/ at > Len(msgs), UNCHANGED <<cache, asked, leaked>>
    PROVE  LoadParts'
<1>1. pc # "crashed" /\ pc' = "idle" /\ msgs' = <<>> /\ Ids(msgs') = {}
  BY DEF End, Ids, Range
<1>2. /\ Calm' => Calm /\ ~threw
      /\ \A c : Share(c) => Share(c)'
      /\ \A c, k : ReadBefore(c, k)' <=> ReadBefore(c, k) \/ k \in KeysIn(c, msgs)
  BY EndChanges DEF TroubleInv, FailInv, StayInv
<1>3. Calm' => asked = {}  BY <1>1, <1>2, NoneAsked
<1>4. LoadingInv'  BY <1>1, <1>2, <1>3, LoadingKept
<1>5. Calm' => \A c \in Caches : \A k \in DOMAIN cache'[c] : ReadBefore(c, k)'
  <2>1. LoadedInv  BY DEF TroubleInv, TroubleParts
  <2> QED  BY <1>1, <1>2, <2>1 DEF LoadedInv
<1> QED  BY <1>1, <1>2, <1>4, <1>5, LoadKept

LEMMA AnswerLoads ==
    ASSUME TroubleInv, pc # "crashed", NEW r \in asked, buid_cache_request_return(r)
    PROVE  LoadParts'
<1> DEFINE found == r.missing \cap known \cap Names(r.cache)
           reply == [r EXCEPT !.stage = "answer", !.keys = [k \in found |-> Key(r.cache, k)]]
<1>1. /\ asked' = (asked \ {r}) \cup {reply}
      /\ UNCHANGED <<pc, msgs, ended, held, cache, erasing, leaked, known>>
  BY DEF buid_cache_request_return, readerVars
<1>2. reply.cache = r.cache /\ reply.users = r.users /\ reply.missing = r.missing
  OBVIOUS
<1> HIDE DEF reply, found
<1>3. SameMessages  BY <1>1 DEF SameMessages
<1>4. /\ Ids(msgs') = Ids(msgs) /\ (Calm' => Calm)
      /\ \A c : KeysIn(c, msgs)' = KeysIn(c, msgs)
      /\ \A c : Share(c) => Share(c)'
      /\ \A c, k : ReadBefore(c, k)' = ReadBefore(c, k)
  BY <1>3, SameMeansSame
<1>5. LoadingInv /\ IdsInv  BY DEF TroubleInv, TroubleParts
<1>6. LoadingInv'
  <2> SUFFICES ASSUME Calm, NEW q \in asked'
               PROVE  /\ pc = Pass(q.cache) /\ q.users = KeysIn(q.cache, msgs)
                      /\ \A k \in q.missing :
                            Entry(q.cache, k) = Pending /\ ~ReadBefore(q.cache, k)
                      /\ \A k \in q.users \ q.missing : ReadBefore(q.cache, k)
                      /\ \A p \in asked' : p = q
    BY <1>1, <1>4 DEF LoadingInv, Pass, Entry
  <2>1. asked = {r} /\ asked' = {reply}  BY <1>1, <1>5 DEF LoadingInv
  <2> QED  BY <1>2, <1>5, <2>1 DEF LoadingInv
<1>7. Ids(msgs') \subseteq DOMAIN Posts /\ (pc' \in {"idle", "asked", "answered"} => msgs' = <<>>)
  BY <1>1, <1>5 DEF IdsInv, Ids
<1>8. \A c : Entered(c)' = Entered(c)  BY <1>1 DEF Entered
<1> QED  BY <1>1, <1>4, <1>6, <1>7, <1>8, LoadKept

(* What was read, and nothing failed, is in the caches.                    *)
LEMMA ReadIsLoaded ==
    ASSUME StayInv, Calm, NEW c \in Caches, NEW k, ReadBefore(c, k)
    PROVE  HasKey(c, k)
<1>1. PICK j \in DOMAIN ended : k \in KeysIn(c, ended[j].msgs)  BY DEF ReadBefore
<1>2. PICK m \in Range(ended[j].msgs) : k = KeyFor(c, m.msg_id)  BY <1>1 DEF KeysIn, Ids
<1>3. ~ended[j].threw /\ ~m.invalid  BY DEF Calm, Threw, Results
<1>4. m \in Valid(j)  BY <1>3 DEF Valid
<1>5. IsRead(m)  BY <1>3 DEF StayInv, Inv, EndedInv, Range
<1>6. m.msg_id \in DOMAIN Posts  BY <1>3, <1>5 DEF IsRead, ReadForm
<1>7. m.msg_id \in ValidIds  BY <1>4, <1>6 DEF ValidIds
<1> QED  BY <1>2, <1>7 DEF StayInv, KeptInv, KeyFor, Caches

LEMMA EnsureLoads ==
    ASSUME TroubleInv, NEW c \in Caches,
           ensure(c, IF c = "sign" THEN "signers" ELSE "ids")
    PROVE  LoadParts'
<1>0. PICK from : from = IF c = "sign" THEN "signers" ELSE "ids"  OBVIOUS
<1>1. PICK wanted, missing, request :
        /\ wanted = {KeyOf(c, msgs[n]) : n \in DOMAIN msgs}
        /\ missing = wanted \ DOMAIN cache[c]
        /\ request.cache = c /\ request.users = wanted /\ request.missing = missing
        /\ request.stage = "request"
        /\ asked' = IF missing = {} THEN asked ELSE asked \cup {request}
        /\ \A d \in Caches : \A k :
              /\ Entry(d, k)' = IF d = c /\ k \in missing THEN Pending ELSE Entry(d, k)
              /\ k \in DOMAIN cache'[d] <=> k \in DOMAIN cache[d] \/ (d = c /\ k \in missing)
        /\ Free(c) /\ pc = from /\ pc' = Pass(c) /\ at' = 1
        /\ UNCHANGED <<turn, range, answer, msgs, ended, held, erasing, leaked, known, missed>>
  <2>1. Inv /\ ensure(c, from)  BY <1>0 DEF TroubleInv, FailInv, StayInv
  <2> QED  BY <2>1, EnsureEffects
<1>2. /\ StayInv /\ Inv /\ LoadedInv /\ IdsInv
  BY DEF TroubleInv, TroubleParts, FailInv, StayInv
<1>3. /\ pc # "crashed" /\ \A d \in Caches : pc # Pass(d)
      /\ pc' \notin {"idle", "asked", "answered"} /\ ~Entered(c) /\ Entered(c)'
      /\ \A d \in Caches : Entered(d) => Entered(d)'
  BY <1>0, <1>1 DEF Pass, Caches, Entered
<1>4. SameMessages  BY <1>1 DEF SameMessages
<1>5. /\ Ids(msgs') = Ids(msgs) /\ (Calm' => Calm)
      /\ \A d : KeysIn(d, msgs)' = KeysIn(d, msgs)
      /\ \A d : Share(d) => Share(d)'
      /\ \A d, k : ReadBefore(d, k)' = ReadBefore(d, k)
  BY <1>4, SameMeansSame
<1>6. ASSUME Calm PROVE wanted = KeysIn(c, msgs)
  <2>1. ASSUME NEW n \in DOMAIN msgs PROVE KeyOf(c, msgs[n]) = KeyFor(c, msgs[n].msg_id)
    <3>1. ~msgs[n].invalid  BY <1>6 DEF Calm, Range
    <3> QED  BY <1>0, <1>1, <1>2, <3>1, Ahead
  <2> QED  BY <1>1, <2>1 DEF KeysIn, Ids, Range
<1>7. ASSUME Calm, NEW k \in missing PROVE ~ReadBefore(c, k)
  BY <1>1, <1>2, <1>7, ReadIsLoaded DEF HasKey
<1>8. ASSUME Calm, NEW k \in wanted \ missing PROVE ReadBefore(c, k)
  BY <1>1, <1>2, <1>3, <1>8 DEF LoadedInv
<1>9. LoadingInv'
  <2> SUFFICES ASSUME Calm, NEW q \in asked'
               PROVE  /\ Pass(c) = Pass(q.cache) /\ q.users = KeysIn(q.cache, msgs)
                      /\ \A k \in q.missing :
                            Entry(q.cache, k)' = Pending /\ ~ReadBefore(q.cache, k)
                      /\ \A k \in q.users \ q.missing : ReadBefore(q.cache, k)
                      /\ \A p \in asked' : p = q
    BY <1>1, <1>5 DEF LoadingInv, Pass
  <2>1. asked = {}  BY <1>3, NoneAsked
  <2>2. asked' = {request} /\ q = request  BY <1>1, <2>1
  <2> QED  BY <1>1, <1>6, <1>7, <1>8, <2>2
<1>10. Calm' => \A d \in Caches : \A k \in DOMAIN cache'[d] :
          \/ k \in DOMAIN cache[d] /\ (Entered(d) => Entered(d)')
             /\ KeysIn(d, msgs)' = KeysIn(d, msgs)
          \/ ReadBefore(d, k)' \/ (Entered(d)' /\ k \in KeysIn(d, msgs)')
  BY <1>1, <1>3, <1>5, <1>6
<1> QED  BY <1>1, <1>2, <1>3, <1>5, <1>9, <1>10, LoadKept DEF IdsInv

LEMMA HandleLoads ==
    ASSUME TroubleInv, pc # "crashed", NEW r \in asked, handle(r)
    PROVE  LoadParts'
<1>1. /\ Inv /\ AskedInv /\ LoadedInv /\ LoadingInv /\ LeakInv /\ IdsInv
  BY DEF TroubleInv, TroubleParts, FailInv, FailParts, StayInv
<1>2. /\ r.stage = "answer" /\ r.cache \in Caches /\ asked' = asked \ {r}
      /\ UNCHANGED <<msgs, ended>>
  BY <1>1, HandleEffects
<1>3. PICK value, fulfilled, rejected : Settled(r, value, fulfilled, rejected)
  BY <1>1, HandleEffects
<1>4. SameMessages  BY <1>2 DEF SameMessages
<1>5. /\ Ids(msgs') = Ids(msgs) /\ (Calm' => Calm)
      /\ \A d : KeysIn(d, msgs)' = KeysIn(d, msgs)
      /\ \A d : Share(d) => Share(d)'
      /\ \A d, k : ReadBefore(d, k)' = ReadBefore(d, k)
  BY <1>4, SameMeansSame
<1>6. pc' = pc \/ pc' = "crashed"  BY <1>3 DEF Settled
<1>7. IdsInv'  BY <1>1, <1>2, <1>6 DEF IdsInv, Ids
<1>8. LoadingInv'
  <2>1. Calm => asked' = {}  BY <1>1, <1>2 DEF LoadingInv
  <2> QED  BY <1>5, <2>1 DEF LoadingInv
<1>9. LoadedInv'
  <2> SUFFICES ASSUME pc' = pc, Calm, NEW d \in Caches, NEW k \in DOMAIN cache'[d]
               PROVE  ReadBefore(d, k) \/ (Entered(d) /\ k \in KeysIn(d, msgs))
    BY <1>5, <1>6 DEF LoadedInv, Entered
  <2>1. k \in DOMAIN cache[d]  BY <1>3 DEF Settled
  <2> QED  BY <1>1, <2>1 DEF LoadedInv
<1>10. ASSUME Calm, NEW k \in r.users \cup DOMAIN value, Entry(r.cache, k) # Pending
       PROVE  Share(r.cache)
  <2>1. /\ DOMAIN value \subseteq r.missing /\ r.missing \subseteq r.users /\ r.missing # {}
    BY <1>1, <1>2, <1>3 DEF AskedInv, Settled
  <2>2. /\ r.users = KeysIn(r.cache, msgs)
        /\ \A l \in r.missing : Entry(r.cache, l) = Pending /\ ~ReadBefore(r.cache, l)
        /\ \A l \in r.users \ r.missing : ReadBefore(r.cache, l)
    BY <1>1, <1>10 DEF LoadingInv
  <2>3. k \in KeysIn(r.cache, msgs) /\ ReadBefore(r.cache, k)  BY <1>10, <2>1, <2>2
  <2>4. PICK j \in DOMAIN ended : k \in KeysIn(r.cache, ended[j].msgs)  BY <2>3 DEF ReadBefore
  <2>5. PICK l \in r.missing : l \in KeysIn(r.cache, msgs)  BY <2>1, <2>2
  <2>6. l \notin KeysIn(r.cache, ended[j].msgs)  BY <2>2 DEF ReadBefore
  <2>7. msgs \in Runs /\ ended[j].msgs \in Runs  BY DEF Runs
  <2> QED  BY <2>3, <2>4, <2>5, <2>6, <2>7 DEF Share
<1>11. LeakInv'
  <2>1. CASE leaked' = leaked  BY <1>1, <1>5, <2>1 DEF LeakInv
  <2>2. CASE \E k \in r.users \cup DOMAIN value : Entry(r.cache, k) \notin {Null, Pending}
    <3>1. Calm => Share("sign") \/ Share("chat")  BY <1>2, <1>10, <2>2 DEF Caches
    <3> QED  BY <1>5, <3>1 DEF LeakInv
  <2> QED  BY <1>3, <2>1, <2>2 DEF Settled
<1> QED  BY <1>7, <1>8, <1>9, <1>11 DEF LoadParts
-----------------------------------------------------------------------------
(* The mutexes of the waiters.  What threw in a pass has thrown in it still*)
(* one message later.                                                      *)
LEMMA ThrewForKept ==
    ASSUME Inv, SameMessages, at' \in {at, at + 1}, NEW c, NEW k, ThrewFor(c, k)
    PROVE  ThrewFor(c, k)'
<1>1. PICK n \in DOMAIN msgs : n < at /\ msgs[n].invalid /\ KeyFor(c, msgs[n].msg_id) = k
  BY DEF ThrewFor
<1>2. n \in Nat /\ at \in Nat  BY DEF Inv, MsgsInv, IsQueue
<1>3. n < at'  BY <1>1, <1>2
<1>4. n \in DOMAIN msgs' /\ msgs'[n].invalid /\ msgs'[n].msg_id = msgs[n].msg_id
  BY <1>1 DEF SameMessages
<1> QED  BY <1>1, <1>3, <1>4 DEF ThrewFor, KeyFor, IdKey, ChatKey

LEMMA LockedKept ==
    ASSUME Inv, LockedInv, SameMessages, pc' = pc, at' \in {at, at + 1},
           \A c \in Caches : \A k \in DOMAIN erasing'[c] :
              erasing'[c][k] = "locked" => k \in DOMAIN erasing[c] /\ erasing[c][k] = "locked"
    PROVE  LockedInv'
<1> SUFFICES ASSUME NEW c \in Caches, pc = Pass(c),
                    NEW k \in DOMAIN erasing'[c], erasing'[c][k] = "locked"
             PROVE  ThrewFor(c, k)'
  BY DEF LockedInv, Pass
<1>1. ThrewFor(c, k)  BY DEF LockedInv
<1> QED  BY <1>1, ThrewForKept

(* The waiter that has just thrown is that of the message now invalid.     *)
LEMMA ThrowLocks ==
    ASSUME Inv, LockedInv, NEW c \in Caches, WaiterThrows(c)
    PROVE  LockedInv' /\ StuckInv'
<1> DEFINE m == [msgs[at] EXCEPT !.invalid = TRUE]
<1>0. PICK q : q = KeyOf(c, msgs[at])  OBVIOUS
<1>1. /\ InPass(c) /\ held = Rejected /\ SetMessage(m) /\ ended' = ended /\ pc' = pc
      /\ erasing' = [erasing EXCEPT ![c] =
            [k \in DOMAIN @ |-> IF k = q THEN "locked" ELSE @[k]]]
      /\ at' = at + 1 /\ held' = None
  BY <1>0 DEF WaiterThrows, Invalid, SetMessage
<1>2. /\ at \in DOMAIN msgs /\ at \in Nat /\ pc = Pass(c)
      /\ IF c = "sign" THEN IsSigned(msgs[at]) ELSE IsOpen(msgs[at])
  BY <1>1, InHand
<1>3. ~msgs[at].invalid
  BY <1>1, <1>2, StatesAssumption DEF Inv, HeldInv, Pass
<1>4. m.invalid /\ m.msg_id = msgs[at].msg_id  BY <1>2, <1>3, InvalidMessage
<1>5. q = KeyFor(c, msgs[at].msg_id)  BY <1>0, <1>2, <1>3, NameIn
<1> HIDE DEF m
<1>6. SameMessages /\ msgs'[at] = m  BY <1>1, <1>3, <1>4, SetSame
<1>7. ThrewFor(c, q)'
  <2>1. at \in DOMAIN msgs' /\ at < at'  BY <1>1, <1>2, <1>6 DEF SameMessages
  <2>2. msgs'[at].invalid /\ msgs'[at].msg_id = msgs[at].msg_id  BY <1>4, <1>6
  <2> QED  BY <1>5, <2>1, <2>2 DEF ThrewFor, KeyFor, IdKey, ChatKey
<1>8. LockedInv'
  <2> SUFFICES ASSUME NEW d \in Caches, pc = Pass(d),
                      NEW k \in DOMAIN erasing'[d], erasing'[d][k] = "locked"
               PROVE  ThrewFor(d, k)'
    BY <1>1 DEF LockedInv, Pass
  <2>1. d = c  BY <1>2 DEF Pass, Caches
  <2>2. k \in DOMAIN erasing[c] /\ (k = q \/ erasing[c][k] = "locked")
    BY <1>1, <2>1 DEF Inv, TypeOK
  <2>3. k # q => ThrewFor(c, k)  BY <1>2, <2>2 DEF LockedInv
  <2> QED  BY <1>1, <1>6, <1>7, <2>1, <2>3, ThrewForKept
<1>9. StuckInv'  BY <1>1, StatesAssumption DEF StuckInv
<1> QED  BY <1>8, <1>9

(* The other steps of the reader in a pass.                                *)
LEMMA PassLocks ==
    ASSUME Inv, LockedInv, StuckInv,
           \/ check_signature \/ (decrypt_message /\ ~End(TRUE))
           \/ \E c \in Caches : Skip(c) \/ get(c) \/ getErasing(c)
    PROVE  LockedInv' /\ StuckInv'
<1>1. SameMessages /\ pc' = pc /\ \E c \in Caches : pc = Pass(c)  BY PassSame
<1>2. erasing' = erasing /\ at' \in {at, at + 1}
  <2>1. CASE check_signature  BY <2>1, Checked DEF check_signature, SetMessage
  <2>2. CASE decrypt_message /\ ~End(TRUE)  BY <2>2, Decrypted DEF decrypt_message, SetMessage
  <2>3. CASE \E c \in Caches : Skip(c) \/ get(c) \/ getErasing(c)
    BY <2>3 DEF Skip, get, getErasing, readerVars, Invalid, SetMessage
  <2> QED  BY <2>1, <2>2, <2>3
<1>3. LockedInv'  BY <1>1, <1>2, LockedKept
<1>4. held' = Locked => \E c \in Caches : get(c) \/ getErasing(c)
  <2>1. CASE check_signature  BY <2>1, Checked, StatesAssumption DEF SetMessage
  <2>2. CASE decrypt_message /\ ~End(TRUE)
    BY <2>2, Decrypted, StatesAssumption DEF SetMessage
  <2>3. ASSUME NEW c \in Caches, Skip(c) PROVE held' # Locked
    <3>1. InPass(c) /\ msgs[at].invalid /\ held' = held  BY <2>3 DEF Skip
    <3>2. pc = Pass(c) /\ pc # "crashed"  BY <3>1, InHand DEF Pass
    <3>3. held = None  BY <3>1, <3>2 DEF Inv, HeldInv
    <3> QED  BY <3>1, <3>3, StatesAssumption
  <2> QED  BY <2>1, <2>2, <2>3
<1>5. ASSUME NEW c \in Caches, get(c) PROVE held' # Locked
  <2>1. PICK k : held' \in {None, Entry(c, k)}  BY <1>5 DEF get, Invalid, SetMessage
  <2>2. Entry(c, k) \in {Null, Pending} \/ GoodKey(c, k, Entry(c, k))
    BY EntryIn DEF Inv
  <2>3. Entry(c, k) # Locked  BY <2>2, GoodKeysAreKeys, StatesAssumption
  <2> QED  BY <2>1, <2>3, StatesAssumption
<1>6. ASSUME NEW c \in Caches, getErasing(c), held' = Locked PROVE StuckInv'
  <2>1. InPass(c) /\ UNCHANGED <<pc, msgs, at, ended>>  BY <1>6 DEF getErasing, readerVars
  <2>2. pc = Pass(c) /\ \A d \in Caches : pc = Pass(d) => d = c
    BY <2>1, InHand DEF Pass, Caches
  <2>3. PICK q : q = KeyOf(c, msgs[at])  OBVIOUS
  <2>4. ThrewFor(c, q)
    BY <1>6, <2>2, <2>3, GotErasing DEF LockedInv
  <2>5. ThrewFor(c, q)'  BY <1>1, <2>1, <2>4, ThrewForKept
  <2>6. q = KeyOf(c, msgs[at])'  BY <2>1, <2>3 DEF KeyOf, ChatKey
  <2> QED  BY <1>1, <2>2, <2>5, <2>6 DEF StuckInv, Pass
<1>7. StuckInv'
  <2>1. CASE held' = Locked  BY <1>4, <1>5, <1>6, <2>1
  <2>2. CASE held' # Locked  BY <2>2 DEF StuckInv
  <2> QED  BY <2>1, <2>2
<1> QED  BY <1>3, <1>7

(* The steps of the tasks.                                                 *)
LEMMA TaskLocks ==
    ASSUME Inv, LockedInv, StuckInv, UNCHANGED <<msgs, at, ended>>, pc' \in {pc, "crashed"},
           held' = Locked => held = Locked,
           \A c \in Caches : \A k \in DOMAIN erasing'[c] :
              erasing'[c][k] = "locked" => k \in DOMAIN erasing[c] /\ erasing[c][k] = "locked"
    PROVE  LockedInv' /\ StuckInv'
<1>1. SameMessages  BY DEF SameMessages
<1>2. CASE pc' = pc
  <2>1. LockedInv'  BY <1>1, <1>2, LockedKept
  <2>2. ASSUME NEW c \in Caches, pc = Pass(c), held' = Locked
        PROVE  ThrewFor(c, KeyOf(c, msgs[at]))'
    <3>1. PICK q : q = KeyOf(c, msgs[at])  OBVIOUS
    <3>2. ThrewFor(c, q)  BY <2>2, <3>1 DEF StuckInv
    <3>3. ThrewFor(c, q)'  BY <1>1, <3>2, ThrewForKept
    <3>4. q = KeyOf(c, msgs[at])'  BY <3>1 DEF KeyOf, ChatKey
    <3> QED  BY <3>3, <3>4
  <2>3. StuckInv'  BY <1>2, <2>2 DEF StuckInv, Pass
  <2> QED  BY <2>1, <2>3
<1>3. CASE pc' = "crashed"  BY <1>3 DEF LockedInv, StuckInv, Pass
<1> QED  BY <1>2, <1>3

LEMMA HandleLocks ==
    ASSUME Inv, LockedInv, StuckInv, NEW r \in asked, handle(r)
    PROVE  LockedInv' /\ StuckInv'
<1>1. r.cache \in Caches /\ UNCHANGED <<msgs, at, ended>>  BY HandleEffects
<1>2. PICK value, fulfilled, rejected : Settled(r, value, fulfilled, rejected)
  BY HandleEffects
<1>3. pc' \in {pc, "crashed"}  BY <1>2 DEF Settled
<1>4. held' = Locked => held = Locked
  <2>1. CASE \E k \in fulfilled : WaitsFor(r.cache, k)
    <3>1. KeyOf(r.cache, msgs[at]) \in DOMAIN value  BY <1>2, <2>1 DEF Settled, WaitsFor
    <3>2. GoodKey(r.cache, KeyOf(r.cache, msgs[at]), value[KeyOf(r.cache, msgs[at])])
      BY <1>2, <3>1 DEF Settled
    <3>3. held' = value[KeyOf(r.cache, msgs[at])]  BY <1>2, <2>1 DEF Settled
    <3> QED  BY <1>1, <3>2, <3>3, GoodKeysAreKeys
  <2>2. CASE ~(\E k \in fulfilled : WaitsFor(r.cache, k))  BY <1>2, <2>2 DEF Settled
  <2> QED  BY <2>1, <2>2
<1>5. ASSUME NEW c \in Caches, NEW k \in DOMAIN erasing'[c], erasing'[c][k] = "locked"
      PROVE  k \in DOMAIN erasing[c] /\ erasing[c][k] = "locked"
  <2>1. DOMAIN erasing = Caches /\ erasing' = [erasing EXCEPT ![r.cache] = [l \in rejected |-> "reject"]]
    BY <1>2 DEF Settled, Inv, TypeOK
  <2>2. c # r.cache  BY <1>1, <1>5, <2>1
  <2> QED  BY <1>5, <2>1, <2>2
<1> QED  BY <1>1, <1>3, <1>4, <1>5, TaskLocks

LEMMA LockedNext ==
    ASSUME TroubleInv, [Next]_vars
    PROVE  LockedInv' /\ StuckInv'
<1> "sign" \in Caches /\ "chat" \in Caches  BY DEF Caches
<1>1. Inv /\ LockedInv /\ StuckInv  BY DEF TroubleInv, TroubleParts, FailInv, StayInv
<1>2. CASE \/ check_signature \/ (decrypt_message /\ ~End(TRUE))
           \/ \E c \in Caches : Skip(c) \/ get(c) \/ getErasing(c)
  BY <1>1, <1>2, PassLocks
<1>3. CASE \E c \in Caches : WaiterThrows(c)  BY <1>1, <1>3, ThrowLocks
<1>4. CASE \E r \in asked : handle(r)  BY <1>1, <1>4, HandleLocks
<1>5. ASSUME NEW c \in Caches, NEW k \in DOMAIN erasing[c], reject(c, k) \/ erase(c, k)
      PROVE  LockedInv' /\ StuckInv'
  <2>1. UNCHANGED <<pc, msgs, at, ended>> /\ held' \in {held, Rejected}
    BY <1>5 DEF reject, erase, readerVars
  <2>2. \A d \in Caches : \A l \in DOMAIN erasing'[d] :
           erasing'[d][l] = "locked" => l \in DOMAIN erasing[d] /\ erasing[d][l] = "locked"
    BY <1>1, <1>5 DEF reject, erase, Inv, TypeOK
  <2> QED  BY <1>1, <2>1, <2>2, StatesAssumption, TaskLocks
<1>6. CASE UNCHANGED <<pc, msgs, at, ended, held, erasing>>  BY <1>1, <1>6, TaskLocks
<1>7. CASE \A c \in Caches : pc' # Pass(c)
  BY <1>7 DEF LockedInv, StuckInv, Pass
<1>8. ASSUME NEW c \in Caches, NEW from \in {"signers", "ids"}, ensure(c, from)
      PROVE  LockedInv' /\ StuckInv'
  <2>1. /\ pc = from /\ pc' = Pass(c) /\ DOMAIN erasing[c] = {} /\ erasing' = erasing
        /\ held' = held
    BY <1>8 DEF ensure, ensure_presance, Free
  <2>2. \A d \in Caches : pc # Pass(d) /\ (pc' = Pass(d) => d = c)  BY <2>1 DEF Pass, Caches
  <2>3. held = None  BY <1>1, <2>1, <2>2, IdleHolds
  <2> QED  BY <2>1, <2>2, <2>3, StatesAssumption DEF LockedInv, StuckInv, Pass
<1>9. ASSUME read_message \/ MessagesFail \/ (\E r \in Ranges : read_messages(r))
             \/ ParseMessages \/ ExtractClientData \/ Return \/ End(TRUE)
      PROVE  LockedInv' /\ StuckInv'
  <2>1. \A c \in Caches : pc' # Pass(c)
    BY <1>9 DEF read_message, MessagesFail, read_messages, ParseMessages, ExtractClientData,
       Return, End, Pass
  <2> QED  BY <1>7, <2>1
<1>10. CASE \/ (\E r \in asked : buid_cache_request_return(r) \/ LoadFails(r))
            \/ (\E k \in Late \ known : Learn(k)) \/ UNCHANGED vars
  BY <1>6, <1>10 DEF buid_cache_request_return, LoadFails, Learn, vars, readerVars
<1>11. CASE ensure_ecdsa_key_presance \/ ensure_aes_key_presance
  BY <1>8, <1>11 DEF ensure_ecdsa_key_presance, ensure_aes_key_presance
<1> QED
  BY <1>2, <1>3, <1>4, <1>5, <1>9, <1>10, <1>11 DEF Next, ReaderStep, TaskStep
-----------------------------------------------------------------------------
LEMMA TroubleNext == TroubleInv /\ [Next]_vars => TroubleInv'
<1> SUFFICES ASSUME TroubleInv, [Next]_vars PROVE TroubleInv'
  OBVIOUS
<1> "sign" \in Caches /\ "chat" \in Caches  BY DEF Caches
<1>1. FailInv'  BY FailNext DEF TroubleInv
<1>2. LockedInv' /\ StuckInv'  BY LockedNext
<1>3. CASE UNCHANGED vars
  <2>1. UNCHANGED <<pc, msgs, ended, cache, leaked, asked, missed>>
    BY <1>3 DEF vars, readerVars
  <2>2. TroubleParts  BY DEF TroubleInv
  <2>3. WholeInv' /\ CrashInv'
    BY <2>1, <2>2 DEF TroubleParts, WholeInv, CrashInv, Whole, Threw, Useful, Proper, KeyFor,
       IdKey, ChatKey, Entry
  <2>4. SameMessages  BY <2>1 DEF SameMessages
  <2>5. /\ Ids(msgs') = Ids(msgs) /\ (Calm' => Calm)
        /\ \A d : KeysIn(d, msgs)' = KeysIn(d, msgs)
        /\ \A d : Share(d) => Share(d)'
        /\ \A d, k : ReadBefore(d, k)' = ReadBefore(d, k)
    BY <2>4, SameMeansSame
  <2>6. (\A d : Entered(d)' = Entered(d)) /\ \A d, k : Entry(d, k)' = Entry(d, k)
    BY <2>1 DEF Entered, Entry
  <2>7. IdsInv' /\ LoadedInv' /\ LoadingInv' /\ LeakInv'
    BY <2>1, <2>2, <2>5, <2>6 DEF TroubleParts, IdsInv, LoadedInv, LoadingInv, LeakInv, Pass, Ids
  <2> QED  BY <1>1, <1>2, <2>3, <2>7 DEF TroubleInv, TroubleParts
<1>4. CASE Next
  <2>1. pc # "crashed" /\ Inv  BY <1>4 DEF Next, TroubleInv, FailInv, StayInv
  <2>2. WholeInv' /\ CrashInv' /\ LoadParts'
    <3>1. CASE \/ \E r \in Ranges : read_messages(r)
               \/ read_message \/ MessagesFail \/ (\E k \in Late \ known : Learn(k))
               \/ \E r \in asked : LoadFails(r)
               \/ \E c \in Caches : \E k \in DOMAIN erasing[c] : reject(c, k) \/ erase(c, k)
      <4>1. asked' \subseteq asked /\ cache' = cache /\ pc' # "crashed"
        BY <2>1, <3>1 DEF read_messages, read_message, MessagesFail, Learn, LoadFails, reject,
           erase, readerVars
      <4>2. \A d \in Caches : \A k : Entry(d, k)' = Entry(d, k)  BY <4>1 DEF Entry
      <4> QED  BY <2>1, <3>1, <4>1, <4>2, WholeKept, OutsideLoads
    <3>2. CASE \E r \in asked : buid_cache_request_return(r)
      BY <2>1, <3>2, WholeAnswer, AnswerLoads
    <3>3. CASE \E r \in asked : handle(r)  BY <2>1, <3>3, WholeHandle, HandleLoads
    <3>4. CASE ensure_ecdsa_key_presance
      <4>1. ensure("sign", IF "sign" = "sign" THEN "signers" ELSE "ids")
        BY <3>4 DEF ensure_ecdsa_key_presance
      <4> QED  BY <4>1, WholeEnsure, EnsureLoads
    <3>5. CASE ensure_aes_key_presance
      <4>1. ensure("chat", IF "chat" = "sign" THEN "signers" ELSE "ids")
        BY <3>5 DEF ensure_aes_key_presance
      <4> QED  BY <4>1, WholeEnsure, EnsureLoads
    <3>6. CASE ParseMessages \/ ExtractClientData
      <4>1. asked' = asked /\ cache' = cache /\ pc' # "crashed"
        BY <3>6 DEF ParseMessages, ExtractClientData
      <4>2. \A d \in Caches : \A k : Entry(d, k)' = Entry(d, k)  BY <4>1 DEF Entry
      <4> QED  BY <2>1, <3>6, <4>1, <4>2, WholeKept, ParseLoads, ExtractLoads
    <3>7. CASE Return \/ (decrypt_message /\ End(TRUE))
      <4>1. /\ asked' = asked /\ cache' = cache /\ pc' # "crashed" /\ leaked' = leaked
            /\ pc = "decrypting" /\ \E threw \in BOOLEAN : End(threw) /\ (threw \/ at > Len(msgs))
        BY <3>7 DEF Return, decrypt_message, End, InPass, Pass
      <4>2. \A d \in Caches : \A k : Entry(d, k)' = Entry(d, k)  BY <4>1 DEF Entry
      <4>3. PICK threw \in BOOLEAN : End(threw) /\ (threw \/ at > Len(msgs))  BY <4>1
      <4> QED  BY <2>1, <4>1, <4>2, <4>3, WholeKept, EndLoads
    <3>8. CASE \/ check_signature \/ (decrypt_message /\ ~End(TRUE))
               \/ \E c \in Caches : Skip(c) \/ get(c) \/ getErasing(c) \/ WaiterThrows(c)
      <4>1. pc' = pc  BY <2>1, <3>8, PassSame
      <4>2. asked' = asked
        BY <3>8 DEF check_signature, decrypt_message, Skip, get, getErasing, WaiterThrows
      <4>3. \A d \in Caches : \A k : Entry(d, k)' = Entry(d, k)
        <5>1. CASE cache' = cache  BY <5>1 DEF Entry
        <5>2. ASSUME NEW c \in Caches, get(c)
              PROVE  \A d \in Caches : \A k : Entry(d, k)' = Entry(d, k)
          BY <2>1, <5>2, GetEffects
        <5> QED
          BY <3>8, <5>1, <5>2
             DEF check_signature, decrypt_message, Skip, getErasing, WaiterThrows
      <4> QED  BY <2>1, <3>8, <4>1, <4>2, <4>3, WholeKept, PassLoads
    <3> QED
      BY <1>4, <3>1, <3>2, <3>3, <3>4, <3>5, <3>6, <3>7, <3>8 DEF Next, ReaderStep, TaskStep
  <2> QED  BY <1>1, <1>2, <2>2 DEF TroubleInv, TroubleParts, LoadParts
<1> QED  BY <1>3, <1>4

(* The process crashes only after the server has left a key out or a read  *)
(* threw, and a mutex is left locked only when a message was invalid, a    *)
(* read threw, or two reads shared some senders or chat keys and not all   *)
(* of them; the reader blocks on the mutex of a waiter only at the second  *)
(* message of a sender or chat key it has waited for in vain (Cache::handle*)
(* and get, CacheHandlerData, DataWaiter::get).                            *)
THEOREM TroubleExplainedAlways == Spec => []TroubleExplained
<1>1. TroubleInv => TroubleExplained
  <2> SUFFICES ASSUME TroubleInv PROVE TroubleExplained
    OBVIOUS
  <2>1. CrashInv /\ LeakInv /\ CountInv /\ IsQueue(ended) /\ turn \in 0 .. MaxReads
    BY DEF TroubleInv, TroubleParts, FailInv, FailParts, StayInv, Inv, EndedInv, TypeOK
  <2>2. Threw => ThrewBefore(MaxReads + 1)
    <3>1. \A j \in DOMAIN ended : j < MaxReads + 1
      BY <2>1, ReadsAssumption DEF CountInv, IsQueue
    <3> QED  BY <3>1 DEF Threw, ThrewBefore
  <2>3. pc = "crashed" => missed # {} \/ ThrewBefore(MaxReads + 1)
    BY <2>1, <2>2 DEF CrashInv, Whole
  <2>4. leaked # {} => \/ ThrewBefore(MaxReads + 1)
                       \/ \E m \in Results \cup Range(msgs) : m.invalid
                       \/ SharePart(SenderOf) \/ SharePart(IdOf)
    BY <2>1, <2>2, ShareIsShare DEF LeakInv, Calm
  <2>5. ASSUME NEW c \in Caches, InPass(c), held = Locked
        PROVE  /\ msgs[at].msg_id \in DOMAIN Posts
               /\ ThrewFor(c, KeyFor(c, msgs[at].msg_id))
               /\ InVain(KeyFor(c, msgs[at].msg_id))
    <3> DEFINE k == KeyOf(c, msgs[at])
    <3>1. Inv /\ NullInv /\ RejectedInv /\ StuckInv
      BY DEF TroubleInv, TroubleParts, FailInv, FailParts, StayInv
    <3>2. at \in DOMAIN msgs /\ at \in Nat /\ pc = Pass(c)  BY <2>5, <3>1, InHand
    <3>3. ~msgs[at].invalid
      BY <2>5, <3>1, <3>2, StatesAssumption DEF Inv, HeldInv, Pass
    <3>4. msgs[at].msg_id \in DOMAIN Posts /\ k = KeyFor(c, msgs[at].msg_id)
      BY <3>1, <3>2, <3>3, Ahead
    <3>5. ThrewFor(c, k)  BY <2>5, <3>1, <3>2 DEF StuckInv
    <3>6. Entry(c, k) = Null  BY <2>5, <3>1, <3>2 DEF RejectedInv
    <3>7. Wanted(c, k)  BY <3>2, <3>3 DEF Wanted
    <3>8. Gone(k)  BY <3>1, <3>6, <3>7 DEF NullInv
    <3> QED  BY <2>2, <3>4, <3>5, <3>8 DEF Gone, InVain
  <2>6. ASSUME InPass("sign"), held = Locked
        PROVE  SecondOf(SenderOf) /\ InVain(Posts[msgs[at].msg_id].sender)
    <3>1. "sign" \in Caches  BY DEF Caches
    <3> QED  BY <2>5, <2>6, <3>1 DEF KeyFor, ThrewFor, SecondOf, SenderOf
  <2>7. ASSUME InPass("chat"), held = Locked
        PROVE  SecondOf(IdOf) /\ InVain(ChatKey(Posts[msgs[at].msg_id].id))
    <3>1. "chat" \in Caches  BY DEF Caches
    <3>2. \A d, e : ChatKey(d) = ChatKey(e) => d = e  BY DEF ChatKey
    <3> QED  BY <2>5, <2>7, <3>1, <3>2 DEF KeyFor, IdKey, ThrewFor, SecondOf, IdOf
  <2> QED  BY <2>3, <2>4, <2>6, <2>7 DEF TroubleExplained
<1> QED  BY <1>1, TroubleInit, TroubleNext, PTL DEF Spec
=============================================================================
