----------------------------- MODULE NodeProofs -----------------------------
(***************************************************************************)
(* Proofs about NodeKeys, NodeChat and NumberCodec, for all values of their*)
(* constants.                                                              *)
(*                                                                         *)
(* NodeKeys, for any number of calls, users and kinds of servers: that keys*)
(* are requested once, why a promise is pending, and whose key a call      *)
(* returns.  Inv adds to those properties which promises a call has entered*)
(* or found (KnownInv), whose key a promise was resolved with (KeyInv), and*)
(* whose key a call has at the places of its request and at the others     *)
(* (ResultInv).                                                            *)
(*                                                                         *)
(* NodeChat: what a read returns, and that it implements ChatLog.  ChatInv *)
(* follows a message from its call to the log.  NumberCodec: which numbers *)
(* arrive, and what the windows accept.  CodecInv follows a number by its  *)
(* digits.  The three modules share no name, so that one can extend them;  *)
(* no theorem is about more than one of them.                              *)
(***************************************************************************)
EXTENDS NodeKeys, NodeChat, NumberCodec, FiniteSetTheorems, WellFoundedInduction, TLAPS

(* A reply left out the user k, or someone before her in its request.      *)
Excuse(k) == \E d \in Calls : \E q \in Places(d) : \E r \in 1 .. q :
                 Users[d][q] = k /\ LeftOut(d, r)

KnownInv ==
    \A c \in Calls :
        /\ pc[c] = "idle" => unknown[c] = {}
        /\ pc[c] # "idle" => \A p \in Places(c) : key[Users[c][p]] # Absent
        /\ chatReq[c] # "none" => /\ pc[c] \in {"chat", "done"}
                                  /\ ChatKey[c] \in ChatKeys
                                  /\ chat[ChatKey[c]] # Absent

KeyInv == \A k \in Names : key[k] \in Names => key[k] = k \/ Excuse(k)

(* What call c has at place p, once it has something to show.              *)
Own(c, p) == \/ pc[c] \in {"idle", "known", "lost", "failed"}
             \/ pc[c] \in {"sent", "replied"} /\ p \in unknown[c]
             \/ result[c][p] = Users[c][p]
             \/ Excuse(Users[c][p])

ResultInv ==
    \A c \in Calls : \A p \in Places(c) : Own(c, p)

Inv == TypeOK /\ KnownInv /\ RequestedOnce /\ PendingExplained /\ KeyInv /\ ResultInv
-----------------------------------------------------------------------------
LEMMA PlacesType ==
    ASSUME NEW c \in Calls
    PROVE  /\ Places(c) = 1 .. Len(Users[c]) /\ Places(c) \in SUBSET Nat
           /\ IsFiniteSet(Places(c))
           /\ \A p \in Places(c) : Users[c][p] \in Names
<1>1. Users[c] \in Seq(Names)
  BY UsersAssumption
<1>2. Places(c) = 1 .. Len(Users[c]) /\ Len(Users[c]) \in Nat
  BY <1>1 DEF Places
<1>3. IsFiniteSet(1 .. Len(Users[c]))
  BY <1>2, FS_Interval
<1> QED BY <1>1, <1>2, <1>3

(* A place is served with its own key when every place up to it is served. *)
LEMMA KeyForSelf ==
    ASSUME NEW places \in SUBSET Nat, IsFiniteSet(places), NEW served \in SUBSET places,
           NEW p \in served, \A r \in places : r <= p => r \in served
    PROVE  KeyFor(places, served, p) = {p}
<1> DEFINE upTo(q) == {r \in served : r <= q}
<1>0. \A r \in served : r \in Nat
  OBVIOUS
<1>1. {r \in places : r <= p} = upTo(p)
  OBVIOUS
<1>2. IsFiniteSet(served)
  BY FS_Subset
<1>3. \A q \in served : IsFiniteSet(upTo(q))
  BY <1>2, FS_Subset
<1>4. ASSUME NEW q \in served, Cardinality(upTo(q)) = Cardinality(upTo(p)) PROVE q = p
  <2>1. CASE q <= p
    <3>1. upTo(q) \in SUBSET upTo(p)
      <4>1. ASSUME NEW r \in served, r <= q PROVE r <= p
        BY <1>0, <2>1, <4>1
      <4> QED BY <4>1
    <3>2. upTo(p) = upTo(q)
      BY <1>3, <1>4, <3>1, FS_Subset
    <3>3. p \in upTo(q)
      BY <3>2
    <3> QED BY <2>1, <3>3
  <2>2. CASE p <= q
    <3>1. upTo(p) \in SUBSET upTo(q)
      <4>1. ASSUME NEW r \in served, r <= p PROVE r <= q
        BY <1>0, <2>2, <4>1
      <4> QED BY <4>1
    <3>2. upTo(q) = upTo(p)
      BY <1>3, <1>4, <3>1, FS_Subset
    <3>3. q \in upTo(p)
      BY <3>2
    <3> QED BY <2>2, <3>3
  <2> QED BY <2>1, <2>2
<1>5. KeyFor(places, served, p) = {q \in served : Cardinality(upTo(q)) = Cardinality(upTo(p))}
  BY <1>1 DEF KeyFor, Rank
<1> HIDE DEF upTo
<1> QED BY <1>4, <1>5

(* What the reply resolves: places of the request, with someone's key.     *)
LEMMA ResolvedType ==
    ASSUME TypeOK, NEW c \in Calls
    PROVE  /\ Resolved(c) \in SUBSET unknown[c]
           /\ \A p \in Resolved(c) : KeyOf(c, p) \in Names
<1>1. ASSUME NEW p \in Resolved(c) PROVE KeyOf(c, p) \in Names
  <2> DEFINE q == CHOOSE q \in KeyFor(unknown[c], reply[c].served, p) : TRUE
  <2>1. q \in reply[c].served
    BY <1>1 DEF Resolved, KeyFor
  <2>2. q \in Places(c)
    BY <2>1 DEF TypeOK
  <2> QED BY <2>2, PlacesType DEF KeyOf
<1> QED BY <1>1 DEF Resolved

(* A place of the request is resolved with its own user's key, unless the  *)
(* reply left out that place or one before it.                             *)
LEMMA ResolvedOwn ==
    ASSUME TypeOK, NEW c \in Calls, NEW p \in unknown[c]
    PROVE  \/ p \in Resolved(c) /\ KeyOf(c, p) = Users[c][p]
           \/ \E r \in 1 .. p : r \in unknown[c] \ reply[c].served
<1>1. /\ unknown[c] \in SUBSET Nat /\ IsFiniteSet(unknown[c])
      /\ unknown[c] \in SUBSET Places(c) /\ reply[c].served \in SUBSET unknown[c]
  BY PlacesType, FS_Subset DEF TypeOK
<1>2. \A r \in unknown[c] : r \in Nat /\ r >= 1
  BY <1>1, PlacesType
<1>3. CASE \A r \in unknown[c] : r <= p => r \in reply[c].served
  <2>1. KeyFor(unknown[c], reply[c].served, p) = {p}
    BY <1>1, <1>2, <1>3, KeyForSelf
  <2> QED BY <2>1 DEF Resolved, KeyOf
<1>4. CASE \E r \in unknown[c] : r <= p /\ r \notin reply[c].served
  BY <1>2, <1>4
<1> QED BY <1>3, <1>4
-----------------------------------------------------------------------------
LEMMA InitInv == Init => Inv
<1> SUFFICES ASSUME Init PROVE Inv
  OBVIOUS
<1>1. TypeOK
  BY DistinctAssumption DEF Init, TypeOK
<1>2. KnownInv /\ RequestedOnce /\ ResultInv
  BY DEF Init, KnownInv, RequestedOnce, ResultInv, Own
<1>3. PendingExplained /\ KeyInv
  BY DistinctAssumption DEF Init, PendingExplained, KeyInv
<1> QED BY <1>1, <1>2, <1>3 DEF Inv

LEMMA TypeStep == TypeOK /\ KnownInv /\ [Next]_vars => TypeOK'
<1> SUFFICES ASSUME TypeOK, KnownInv, [Next]_vars PROVE TypeOK'
  OBVIOUS
<1>1. ASSUME NEW c \in Calls, Ask(c) PROVE TypeOK'
  <2>1. {p \in Places(c) : key[Users[c][p]] = Absent} \in SUBSET Nat
    BY PlacesType
  <2>2. reply[c].served \subseteq unknown'[c]
    BY <1>1 DEF TypeOK, KnownInv, Ask, Move
  <2> QED BY <1>1, <2>1, <2>2 DEF TypeOK, Ask, Move, EnterPromises, chatVars
<1>2. ASSUME NEW c \in Calls, Request(c) PROVE TypeOK'
  BY <1>2, PlacesType DEF TypeOK, Request, Move, chatVars
<1>3. ASSUME NEW c \in Calls, Answer(c) PROVE TypeOK'
  BY <1>3, ServersAssumption DEF TypeOK, Answer, Answers, Move, chatVars
<1>4. ASSUME NEW c \in Calls, LoseReply(c) \/ ReceiveThrows(c) \/ Generate(c) \/ VerifyFails(c)
                                 \/ Decode(c)
      PROVE TypeOK'
  BY <1>4 DEF TypeOK, LoseReply, ReceiveThrows, Generate, VerifyFails, Decode, Move, keyVars, chatVars
<1>5. ASSUME NEW c \in Calls, ReceiveKeys(c) PROVE TypeOK'
  BY <1>5, PlacesType, ResolvedType DEF TypeOK, ReceiveKeys, Resolve, Move, chatVars
<1>6. ASSUME NEW c \in Calls, AskChatKey(c) PROVE TypeOK'
  BY <1>6 DEF TypeOK, AskChatKey, EnterChatKey, Move, keyVars, chatVars
<1>7. ASSUME NEW c \in Calls, ChatServer(c) PROVE TypeOK'
  BY <1>7 DEF TypeOK, ChatServer, ChatKeyArrives, ChatKeyMissing, keyVars
<1>8. CASE UNCHANGED vars
  BY <1>8 DEF TypeOK, vars, keyVars, chatVars
<1> QED BY <1>1, <1>2, <1>3, <1>4, <1>5, <1>6, <1>7, <1>8 DEF Next, Client, Server
-----------------------------------------------------------------------------
(* A reply that left someone out stays so: excuses do not go away.         *)
LEMMA ExcuseStays ==
    ASSUME TypeOK, [Next]_vars, NEW d \in Calls, NEW r, LeftOut(d, r)
    PROVE  LeftOut(d, r)'
<1>1. ASSUME NEW c \in Calls, Client(c) PROVE LeftOut(d, r)'
  BY <1>1 DEF TypeOK, LeftOut, Client, Ask, Request, ReceiveKeys, ReceiveThrows, Generate,
              VerifyFails, AskChatKey, Decode, Move, keyVars
<1>2. ASSUME NEW c \in Calls, Server(c) PROVE LeftOut(d, r)'
  BY <1>2 DEF TypeOK, LeftOut, Server, Answer, LoseReply, Move, keyVars
<1>3. ASSUME NEW c \in Calls, ChatServer(c) PROVE LeftOut(d, r)'
  BY <1>3 DEF LeftOut, ChatServer, ChatKeyArrives, ChatKeyMissing, keyVars
<1>4. CASE UNCHANGED vars
  BY <1>4 DEF LeftOut, vars, keyVars
<1> QED BY <1>1, <1>2, <1>3, <1>4 DEF Next

(* The actions that change no promise of a key and no request for one.     *)
Quiet(c) == \/ LoseReply(c) \/ ReceiveThrows(c) \/ Generate(c) \/ VerifyFails(c)
            \/ AskChatKey(c) \/ Decode(c)

LEMMA KnownStep == TypeOK /\ KnownInv /\ [Next]_vars => KnownInv'
<1> SUFFICES ASSUME TypeOK, KnownInv, [Next]_vars PROVE KnownInv'
  OBVIOUS
<1> USE DistinctAssumption DEF TypeOK, KnownInv
<1>1. ASSUME NEW c \in Calls, Ask(c) PROVE KnownInv'
  <2>1. \A p \in Places(c) : key'[Users[c][p]] # Absent
    BY <1>1, PlacesType DEF Ask, Move, EnterPromises, Named
  <2>2. \A k \in Names : key[k] # Absent => key'[k] # Absent
    BY <1>1 DEF Ask, EnterPromises
  <2> QED BY <1>1, <2>1, <2>2, PlacesType DEF Ask, Move, chatVars
<1>2. ASSUME NEW c \in Calls, Request(c) \/ Answer(c) PROVE KnownInv'
  BY <1>2 DEF Request, Answer, Move, chatVars
<1>3. ASSUME NEW c \in Calls, ReceiveKeys(c) PROVE KnownInv'
  <2>1. \A k \in Names : key[k] # Absent => key'[k] # Absent
    BY <1>3, ResolvedType DEF ReceiveKeys, Resolve
  <2> QED BY <1>3, <2>1, PlacesType DEF ReceiveKeys, Move, chatVars
<1>4. ASSUME NEW c \in Calls, Quiet(c), ~AskChatKey(c) PROVE KnownInv'
  BY <1>4 DEF Quiet, LoseReply, ReceiveThrows, Generate, VerifyFails, Decode, Move, keyVars, chatVars
<1>5. ASSUME NEW c \in Calls, AskChatKey(c) PROVE KnownInv'
  <2>1. ChatKey[c] \in ChatKeys
    BY <1>5, ChatKeyAssumption DEF AskChatKey
  <2>2. CASE chat[ChatKey[c]] = Absent /\ EnterChatKey(c)
    <3>1. chat'[ChatKey[c]] = Pending
      BY <2>1, <2>2 DEF EnterChatKey
    <3>2. \A k \in ChatKeys : chat[k] # Absent => chat'[k] # Absent
      BY <2>2 DEF EnterChatKey
    <3>3. \A d \in Calls : d # c => pc'[d] = pc[d] /\ chatReq'[d] = chatReq[d]
      BY <1>5 DEF AskChatKey, Move, chatVars
    <3>4. pc[c] = "keys" /\ pc'[c] = "chat" /\ UNCHANGED <<key, unknown>>
      BY <1>5 DEF AskChatKey, Move, keyVars
    <3> QED BY <2>1, <3>1, <3>2, <3>3, <3>4
  <2>3. CASE UNCHANGED chatVars
    BY <1>5, <2>3 DEF AskChatKey, Move, keyVars, chatVars
  <2> QED BY <1>5, <2>2, <2>3 DEF AskChatKey
<1>6. ASSUME NEW c \in Calls, ChatServer(c) PROVE KnownInv'
  BY <1>6 DEF ChatServer, ChatKeyArrives, ChatKeyMissing, keyVars
<1>7. CASE UNCHANGED vars
  BY <1>7 DEF vars, keyVars, chatVars
<1> QED BY <1>1, <1>2, <1>3, <1>4, <1>5, <1>6, <1>7 DEF Next, Client, Server, Quiet

LEMMA RequestedStep == TypeOK /\ KnownInv /\ RequestedOnce /\ [Next]_vars => RequestedOnce'
<1> SUFFICES ASSUME TypeOK, KnownInv, RequestedOnce, [Next]_vars PROVE RequestedOnce'
  OBVIOUS
<1> USE DEF TypeOK, KnownInv, RequestedOnce
<1>1. ASSUME NEW c \in Calls, Ask(c) PROVE RequestedOnce'
  <2>1. \A d \in Calls : \A p \in unknown[d] : key[Users[d][p]] # Absent
    OBVIOUS
  <2> QED BY <1>1, <2>1 DEF Ask, Move, chatVars
<1>2. ASSUME NEW c \in Calls, Request(c) \/ Answer(c) \/ ReceiveKeys(c) PROVE RequestedOnce'
  BY <1>2 DEF Request, Answer, ReceiveKeys, chatVars
<1>3. ASSUME NEW c \in Calls, Quiet(c), ~AskChatKey(c) PROVE RequestedOnce'
  BY <1>3 DEF Quiet, LoseReply, ReceiveThrows, Generate, VerifyFails, Decode, keyVars, chatVars
<1>4. ASSUME NEW c \in Calls, AskChatKey(c) PROVE RequestedOnce'
  BY <1>4 DEF AskChatKey, EnterChatKey, Move, keyVars, chatVars
<1>5. ASSUME NEW c \in Calls, ChatServer(c) PROVE RequestedOnce'
  BY <1>5 DEF ChatServer, ChatKeyArrives, ChatKeyMissing, keyVars
<1>6. CASE UNCHANGED vars
  BY <1>6 DEF vars, keyVars, chatVars
<1> QED BY <1>1, <1>2, <1>3, <1>4, <1>5, <1>6 DEF Next, Client, Server, Quiet

(* Once the reply is there, a place of the request whose promise is not    *)
(* resolved shows that the reply left someone out.                         *)
LEMMA PendingStep == TypeOK /\ KnownInv /\ PendingExplained /\ [Next]_vars => PendingExplained'
<1> SUFFICES ASSUME TypeOK, KnownInv, PendingExplained, [Next]_vars PROVE PendingExplained'
  OBVIOUS
<1> DEFINE Open(c) == \/ pc[c] \in {"known", "sent", "replied", "lost", "failed"}
                      \/ \E p \in Places(c) : LeftOut(c, p)
           For(c, k) == \E p \in unknown[c] : Users[c][p] = k
<1>0. \A d \in Calls : (\E p \in Places(d) : LeftOut(d, p)) => (\E p \in Places(d) : LeftOut(d, p))'
  BY ExcuseStays DEF Places
<1>1. ASSUME NEW c \in Calls, Ask(c) PROVE PendingExplained'
  <2>1. ASSUME NEW k \in Names, key'[k] = Pending, key[k] # Pending PROVE For(c, k)' /\ Open(c)'
    BY <1>1, <2>1 DEF TypeOK, Ask, Move, EnterPromises, Named
  <2>2. ASSUME NEW k \in Names, NEW d \in Calls, For(d, k), Open(d) PROVE For(d, k)' /\ Open(d)'
    <3>1. d # c
      BY <1>1, <2>2 DEF KnownInv, Ask, Move
    <3> QED BY <1>0, <1>1, <2>2, <3>1 DEF TypeOK, Ask, Move
  <2> QED BY <2>1, <2>2 DEF PendingExplained
<1>2. ASSUME NEW c \in Calls, Request(c) \/ Answer(c) \/ LoseReply(c) \/ ReceiveThrows(c)
      PROVE PendingExplained'
  <2>1. \A d \in Calls : Open(d) => Open(d)'
    BY <1>0, <1>2 DEF TypeOK, Request, Answer, LoseReply, ReceiveThrows, Move
  <2>2. UNCHANGED <<key, unknown>>
    BY <1>2 DEF Request, Answer, LoseReply, ReceiveThrows, keyVars
  <2> QED BY <2>1, <2>2 DEF PendingExplained
<1>3. ASSUME NEW c \in Calls, ReceiveKeys(c) PROVE PendingExplained'
  <2>1. UNCHANGED <<unknown, reply>> /\ pc' = [pc EXCEPT ![c] = "keys"]
    BY <1>3 DEF ReceiveKeys, Move
  <2>2. ASSUME NEW k \in Names, key'[k] = Pending PROVE key[k] = Pending
    BY <1>3, <2>2, ResolvedType, DistinctAssumption DEF TypeOK, ReceiveKeys, Resolve
  <2>3. ASSUME NEW k \in Names, key'[k] = Pending, For(c, k) PROVE Open(c)'
    <3>1. PICK p \in unknown[c] : Users[c][p] = k
      BY <2>3
    <3>2. p \notin Resolved(c)
      BY <1>3, <2>3, <3>1, ResolvedType, DistinctAssumption DEF TypeOK, ReceiveKeys, Resolve
    <3>3. PICK r \in unknown[c] : r \notin reply[c].served
      BY <3>2, ResolvedOwn
    <3>4. r \in Places(c) /\ LeftOut(c, r)'
      BY <2>1, <3>3 DEF TypeOK, LeftOut
    <3> QED BY <3>4 DEF Places
  <2>4. ASSUME NEW d \in Calls, d # c, Open(d) PROVE Open(d)'
    BY <1>0, <2>1, <2>4 DEF TypeOK
  <2>5. SUFFICES ASSUME NEW k \in Names, key'[k] = Pending
                 PROVE  \E d \in Calls : For(d, k)' /\ Open(d)'
    BY DEF PendingExplained
  <2>6. PICK d \in Calls : For(d, k) /\ Open(d)
    BY <2>2, <2>5 DEF PendingExplained
  <2>7. For(d, k)'
    BY <2>1, <2>6
  <2>8. Open(d)'
    BY <2>3, <2>4, <2>5, <2>6
  <2> QED BY <2>7, <2>8
<1>4. ASSUME NEW c \in Calls, Generate(c) \/ VerifyFails(c) \/ AskChatKey(c) \/ Decode(c)
      PROVE PendingExplained'
  <2>1. \A d \in Calls : Open(d) => Open(d)'
    BY <1>0, <1>4 DEF TypeOK, Generate, VerifyFails, AskChatKey, Decode, Move
  <2>2. UNCHANGED <<key, unknown>>
    BY <1>4 DEF Generate, VerifyFails, AskChatKey, Decode, keyVars
  <2> QED BY <2>1, <2>2 DEF PendingExplained
<1>5. ASSUME UNCHANGED <<pc, keyVars>> PROVE PendingExplained'
  BY <1>5 DEF PendingExplained, LeftOut, Places, keyVars
<1> QED BY <1>1, <1>2, <1>3, <1>4, <1>5
        DEF Next, Client, Server, ChatServer, ChatKeyArrives, ChatKeyMissing, vars
-----------------------------------------------------------------------------
LEMMA ExcuseMonotone == TypeOK /\ [Next]_vars => \A k : Excuse(k) => Excuse(k)'
BY ExcuseStays DEF Excuse, Places

(* A key at a place that was resolved with someone else's is excused.      *)
LEMMA ResolvedExcused ==
    ASSUME TypeOK, [Next]_vars, NEW c \in Calls, ReceiveKeys(c), NEW p \in unknown[c]
    PROVE  (p \in Resolved(c) /\ KeyOf(c, p) = Users[c][p]) \/ Excuse(Users[c][p])'
<1>1. ASSUME NEW r \in 1 .. p, r \in unknown[c] \ reply[c].served PROVE Excuse(Users[c][p])'
  <2>1. LeftOut(c, r)'
    BY <1>1 DEF TypeOK, LeftOut, ReceiveKeys, Move
  <2>2. p \in Places(c)
    BY DEF TypeOK
  <2> QED BY <2>1, <2>2 DEF Excuse, Places
<1> QED BY <1>1, ResolvedOwn

LEMMA KeyStep == TypeOK /\ KnownInv /\ KeyInv /\ [Next]_vars => KeyInv'
<1> SUFFICES ASSUME TypeOK, KnownInv, KeyInv, [Next]_vars PROVE KeyInv'
  OBVIOUS
<1>1. ASSUME NEW c \in Calls, ReceiveKeys(c) PROVE KeyInv'
  <2>1. SUFFICES ASSUME NEW k \in Names, key'[k] \in Names PROVE key'[k] = k \/ Excuse(k)'
    BY DEF KeyInv
  <2>2. CASE \E p \in Resolved(c) : Users[c][p] = k
    <3> DEFINE p == CHOOSE p \in Resolved(c) : Users[c][p] = k
    <3>1. p \in Resolved(c) /\ Users[c][p] = k /\ p \in unknown[c]
      BY <2>2, ResolvedType
    <3>2. key'[k] = KeyOf(c, p)
      BY <1>1, <2>2 DEF ReceiveKeys, Resolve
    <3> HIDE DEF p
    <3> QED BY <1>1, <3>1, <3>2, ResolvedExcused
  <2>3. CASE ~\E p \in Resolved(c) : Users[c][p] = k
    BY <1>1, <2>1, <2>3, ExcuseMonotone DEF KeyInv, ReceiveKeys, Resolve
  <2> QED BY <2>2, <2>3
<1>2. ASSUME NEW c \in Calls, Ask(c) PROVE KeyInv'
  <2>1. \A k \in Names : key'[k] = key[k] \/ key'[k] = Pending
    BY <1>2 DEF Ask, EnterPromises
  <2> QED BY <2>1, ExcuseMonotone, DistinctAssumption DEF KeyInv
<1>3. CASE UNCHANGED key
  BY <1>3, ExcuseMonotone DEF KeyInv
<1> QED BY <1>1, <1>2, <1>3 DEF Next, Client, Server, ChatServer, Request, Answer, LoseReply,
        ReceiveThrows, Generate, VerifyFails, AskChatKey, ChatKeyArrives, ChatKeyMissing, Decode,
        vars, keyVars

LEMMA ResultStep == TypeOK /\ KnownInv /\ KeyInv /\ ResultInv /\ [Next]_vars => ResultInv'
<1> SUFFICES ASSUME TypeOK, KnownInv, KeyInv, ResultInv, [Next]_vars,
                    NEW d \in Calls, NEW p \in Places(d)
             PROVE  Own(d, p)'
  BY DEF ResultInv, Places
<1>0. Own(d, p) /\ (Excuse(Users[d][p]) => Excuse(Users[d][p])')
  BY ExcuseMonotone DEF ResultInv
<1>1. ASSUME NEW c \in Calls, Ask(c) PROVE Own(d, p)'
  BY <1>0, <1>1 DEF TypeOK, Own, Ask, Move
<1>2. ASSUME NEW c \in Calls, Request(c) PROVE Own(d, p)'
  <2>1. CASE d = c /\ p \in unknown[d]
    BY <1>2, <2>1 DEF TypeOK, Own, Request, Move
  <2>2. CASE d = c /\ p \notin unknown[d]
    <3>1. result'[d][p] = key[Users[d][p]] /\ key[Users[d][p]] # Pending
      BY <1>2, <2>2 DEF TypeOK, Request
    <3>2. Users[d][p] \in Names
      BY PlacesType
    <3>3. key[Users[d][p]] # Absent
      BY <1>2, <2>2 DEF KnownInv, Request, Move
    <3> QED BY <1>0, <3>1, <3>2, <3>3 DEF TypeOK, KeyInv, Own
  <2>3. CASE d # c
    BY <1>0, <1>2, <2>3 DEF TypeOK, Own, Request, Move
  <2> QED BY <2>1, <2>2, <2>3
<1>3. ASSUME NEW c \in Calls, Answer(c) \/ LoseReply(c) \/ ReceiveThrows(c) PROVE Own(d, p)'
  BY <1>0, <1>3 DEF TypeOK, Own, Answer, LoseReply, ReceiveThrows, Move, keyVars
<1>4. ASSUME NEW c \in Calls, ReceiveKeys(c) PROVE Own(d, p)'
  <2>1. CASE d = c /\ p \in unknown[d]
    <3>1. p \in Resolved(d) => result'[d][p] = KeyOf(d, p)
      BY <1>4, <2>1 DEF TypeOK, ReceiveKeys
    <3> QED BY <1>4, <2>1, <3>1, ResolvedExcused DEF Own
  <2>2. CASE d = c /\ p \notin unknown[d]
    <3>1. result'[d][p] = result[d][p] /\ pc[d] = "replied"
      BY <1>4, <2>2, ResolvedType DEF TypeOK, ReceiveKeys, Move
    <3> QED BY <1>0, <2>2, <3>1 DEF Own
  <2>3. CASE d # c
    BY <1>0, <1>4, <2>3 DEF TypeOK, Own, ReceiveKeys, Move
  <2> QED BY <2>1, <2>2, <2>3
<1>5. ASSUME NEW c \in Calls, Generate(c) \/ VerifyFails(c) \/ AskChatKey(c) \/ Decode(c)
      PROVE Own(d, p)'
  BY <1>0, <1>5 DEF TypeOK, Own, Generate, VerifyFails, AskChatKey, Decode, Move, keyVars
<1>6. CASE UNCHANGED <<pc, keyVars>>
  BY <1>0, <1>6 DEF Own, keyVars
<1> QED BY <1>1, <1>2, <1>3, <1>4, <1>5, <1>6
        DEF Next, Client, Server, ChatServer, ChatKeyArrives, ChatKeyMissing, vars
-----------------------------------------------------------------------------
LEMMA InvStep == Inv /\ [Next]_vars => Inv'
BY TypeStep, KnownStep, RequestedStep, PendingStep, KeyStep, ResultStep DEF Inv

LEMMA Invariance == Spec => []Inv
<1>1. Init /\ [][Next]_vars => []Inv
  BY InitInv, InvStep, PTL
<1> QED BY <1>1, PTL DEF Spec

(* TypeOK: the variables of the calls, both maps and the replies keep      *)
(* their types.                                                            *)
THEOREM TypeCorrect == Spec => []TypeOK
BY Invariance, PTL DEF Inv

(* RequestedOnce: a promise is entered in signature_keys and aes_keys      *)
(* before its request is sent, so no two calls ask for the same key.       *)
THEOREM KeysRequestedOnce == Spec => []RequestedOnce
BY Invariance, PTL DEF Inv

(* PendingExplained: a promise of get_key is left pending only by a call   *)
(* that goes on, failed, lost its reply or got too few keys.               *)
THEOREM PendingIsExplained == Spec => []PendingExplained
BY Invariance, PTL DEF Inv

(* OwnKeys: get_key gives each user her own key, unless a reply left out   *)
(* her or a user before her in its request.                                *)
THEOREM ReturnedKeysAreOwn == Spec => []OwnKeys
<1>1. Inv => OwnKeys
  BY DEF Inv, ResultInv, Own, OwnKeys, Excuse
<1> QED BY <1>1, Invariance, PTL
-----------------------------------------------------------------------------
(* The chat: what holds of a message from its call to the log.             *)

(* A message on its way, or stored: its id is that of its key, which is its*)
(* author's and was set, and not replaced, before send_message was called. *)
Set(c, id) == id \in Generates /\ \E n \in DOMAIN keys : keys[n] = id /\ n >= floor[c]
Uploaded(c) == stage[c] \in {"sent", "adding", "stored"}
IsUpload(c, m) ==
    /\ m.sender = Sender[c] /\ m.data.text = c /\ m.data.key = m.id
    /\ Set(c, m.id) /\ Sender[c] \in Members[m.id]
    /\ m.sent \in Nat /\ m.sent <= clock + Skew[Sender[c]]

ChatTypes ==
    /\ DOMAIN stage = ChatCalls /\ DOMAIN frame = ChatCalls
    /\ keys \in Seq(Generates) /\ log \in Seq({log[i] : i \in DOMAIN log})
    /\ clock \in Nat /\ floor \in [ChatCalls -> Nat]
    /\ \A c \in ChatCalls : /\ floor[c] <= Len(keys)
                            /\ stage[c] \in {"found", "adding"} => c \in Sends
(* Whose call has set its key is not about to set it again.                *)
KeysStored == \A n \in DOMAIN keys : stage[keys[n]] \in {"stored", "waiting"}

(* A send at each of its places: it holds the id of a key, then the key as *)
(* well, then the message it uploads, or uploaded.                         *)
SendInv ==
    \A c \in Sends :
        /\ stage[c] = "found" => Set(c, frame[c].id)
        /\ stage[c] = "replied" /\ frame[c].id # NoKey =>
              /\ Set(c, frame[c].id) /\ Sender[c] \in Members[frame[c].id]
              /\ frame[c].key = frame[c].id
        /\ Uploaded(c) => IsUpload(c, frame[c])
(* A later send of a user is stamped no earlier.                           *)
OrderInv ==
    \A c \in Sends : \A d \in Earlier[c] \cap Sends :
        /\ stage[c] # "idle" => Awaited(d)
        /\ Uploaded(c) /\ Uploaded(d) => frame[d].sent <= frame[c].sent
(* A message of the log is that of one stored call, and is there once.     *)
StoredInv ==
    \A i \in DOMAIN log : \E c \in Sends :
        /\ stage[c] = "stored" /\ log[i] = frame[c]
        /\ \A j \in DOMAIN log : log[j] = frame[c] => i = j
(* What a read was answered with is still at the start of the log.         *)
ReadInv ==
    \A r \in Reads : stage[r] \in {"replied", "decoding", "returned"} =>
        \A i \in DOMAIN frame[r] : i \in DOMAIN log /\ frame[r][i] = log[i]

ChatInv == ChatTypes /\ KeysStored /\ SendInv /\ OrderInv /\ StoredInv /\ ReadInv
-----------------------------------------------------------------------------
LEMMA ChatGivens ==
    /\ \A c \in ChatCalls : c # NoKey /\ c # Garbage /\ Sender[c] \in ChatUsers
    /\ \A c \in ChatCalls : \A d \in Earlier[c] : d \in ChatCalls /\ Sender[d] = Sender[c]
    /\ \A c \in ChatCalls : Kind[c] \in {"generate", "send", "read"}
    /\ \A u \in ChatUsers : Skew[u] \in Nat
    /\ Start \in Nat
  BY CallsAssumption, TimesAssumption

LEMMA KindsDiffer ==
    /\ Sends \subseteq ChatCalls /\ Generates \subseteq ChatCalls
    /\ Reads \subseteq ChatCalls
    /\ \A c \in ChatCalls : /\ Kind[c] = "send" <=> c \in Sends
                            /\ Kind[c] = "generate" <=> c \in Generates
                            /\ Kind[c] = "read" <=> c \in Reads
    /\ \A c \in Sends : c \notin Generates /\ c \notin Reads
    /\ \A c \in Generates : c \notin Reads
  BY DEF Sends, Generates, Reads

LEMMA ChatInvInit ==
    ASSUME ChatInit
    PROVE  ChatInv
<1>1. /\ \A c \in ChatCalls : stage[c] = "idle"
      /\ DOMAIN stage = ChatCalls /\ DOMAIN frame = ChatCalls
      /\ keys = <<>> /\ log = <<>> /\ DOMAIN keys = {} /\ DOMAIN log = {} /\ clock = Start
      /\ floor = [c \in ChatCalls |-> 0] /\ Len(keys) = 0
  BY DEF ChatInit
<1>2. ChatTypes  BY <1>1, ChatGivens DEF ChatTypes
<1>3. SendInv /\ OrderInv /\ ReadInv  BY <1>1, KindsDiffer DEF SendInv, OrderInv, ReadInv, Uploaded
<1> QED  BY <1>1, <1>2, <1>3 DEF ChatInv, KeysStored, StoredInv

(* The steps by which nothing is given, set or stored.                     *)
QuietMove(d) ==
    \/ stage'[d] = stage[d] /\ floor'[d] = floor[d]
    \/ /\ stage[d] = "idle" /\ \A e \in Earlier[d] : Awaited(e)
       /\ stage'[d] \in IF d \in Generates THEN {"sent", "waiting"} ELSE {"asked", "waiting"}
    \/ /\ stage[d] \in {"asked", "found", "replied"} /\ stage'[d] = "waiting"
       /\ floor'[d] = floor[d]
    \/ /\ d \notin Sends /\ stage[d] = "sent" /\ stage'[d] = "waiting"
       /\ floor'[d] = floor[d]
    \/ /\ d \in Sends /\ floor'[d] = floor[d]
       /\ \/ stage[d] = "sent" /\ stage'[d] \in {"adding", "refused", "unstored", "lost"}
          \/ stage[d] = "adding" /\ stage'[d] = "unstored"
    \/ /\ floor'[d] = floor[d]
       /\ \/ d \in Reads /\ stage[d] = "replied" /\ stage'[d] = "decoding"
          \/ stage[d] = "decoding" /\ stage'[d] = "returned"

LEMMA QuietKeeps ==
    ASSUME ChatInv, UNCHANGED <<frame, keys, log>>,
           clock' \in Nat, clock' >= clock, DOMAIN stage' = ChatCalls,
           floor' \in [ChatCalls -> Nat], \A c \in ChatCalls : floor'[c] <= Len(keys),
           \A d \in ChatCalls : QuietMove(d)
    PROVE  ChatInv'
<1>1. ChatTypes'
  <2>1. \A c \in ChatCalls : stage'[c] \in {"found", "adding"} => c \in Sends
    BY DEF QuietMove, ChatInv, ChatTypes
  <2> QED  BY <2>1 DEF ChatInv, ChatTypes, Sends, Generates
<1>2. KeysStored'
  <2>1. ASSUME NEW n \in DOMAIN keys PROVE keys[n] \in Generates /\ keys[n] \in ChatCalls
    BY KindsDiffer DEF ChatInv, ChatTypes
  <2>2. \A n \in DOMAIN keys : stage[keys[n]] \in {"stored", "waiting"}  BY DEF ChatInv, KeysStored
  <2>3. ASSUME NEW n \in DOMAIN keys PROVE stage'[keys[n]] = stage[keys[n]]
    BY <2>1, <2>2 DEF QuietMove
  <2> QED  BY <2>2, <2>3 DEF KeysStored
<1>3. ASSUME NEW c \in Sends
      PROVE  /\ c \in ChatCalls /\ QuietMove(c)
             /\ stage'[c] \in {"found", "replied", "sent", "adding", "stored"} =>
                   /\ floor'[c] = floor[c]
                   /\ stage[c] = stage'[c] \/ (stage[c] = "sent" /\ stage'[c] = "adding")
             /\ Uploaded(c)' => Uploaded(c)
             /\ Awaited(c) => Awaited(c)'
             /\ \A d \in Earlier[c] : stage'[c] # "idle" => stage[c] # "idle" \/ Awaited(d)
  <2>1. /\ c \in ChatCalls /\ QuietMove(c) /\ c \notin Generates /\ c \notin Reads
        /\ Kind[c] = "send"
    BY KindsDiffer
  <2> QED  BY <2>1 DEF QuietMove, Uploaded, Awaited
<1>4. SendInv'
  <2> SUFFICES ASSUME NEW c \in Sends
               PROVE  /\ stage'[c] = "found" => Set(c, frame[c].id)'
                      /\ stage'[c] = "replied" /\ frame[c].id # NoKey =>
                            /\ Set(c, frame[c].id)' /\ Sender[c] \in Members[frame[c].id]
                            /\ frame[c].key = frame[c].id
                      /\ Uploaded(c)' => IsUpload(c, frame[c])'
    BY DEF SendInv, Sends
  <2>1. \A id : Set(c, id) /\ floor'[c] = floor[c] => Set(c, id)'
    BY DEF Set, Generates
  <2>2. /\ stage[c] = "found" => Set(c, frame[c].id)
        /\ stage[c] = "replied" /\ frame[c].id # NoKey =>
              /\ Set(c, frame[c].id) /\ Sender[c] \in Members[frame[c].id]
              /\ frame[c].key = frame[c].id
        /\ Uploaded(c) => IsUpload(c, frame[c])
    BY DEF ChatInv, SendInv
  <2>3. Sender[c] \in ChatUsers /\ Skew[Sender[c]] \in Nat /\ clock \in Nat
    BY <1>3, ChatGivens DEF ChatInv, ChatTypes
  <2>4. IsUpload(c, frame[c]) /\ floor'[c] = floor[c] => IsUpload(c, frame[c])'
    BY <2>1, <2>3 DEF IsUpload
  <2> QED  BY <1>3, <2>1, <2>2, <2>4 DEF Uploaded
<1>5. OrderInv'
  BY <1>3 DEF ChatInv, OrderInv, Sends
<1>6. StoredInv'
  BY <1>3, KindsDiffer DEF ChatInv, StoredInv, QuietMove, Sends
<1>7. ReadInv'
  BY KindsDiffer DEF ChatInv, ReadInv, QuietMove, Reads
<1> QED  BY <1>1, <1>2, <1>4, <1>5, <1>6, <1>7 DEF ChatInv

LEMMA QuietSteps ==
    ASSUME ChatInv,
           \/ \E c \in ChatCalls :
                 \/ generate_chat_keys(c) \/ send_message(c) \/ get_message(c)
                 \/ decode_messages(c) \/ MessagesDecoded(c) \/ add_message_handler(c)
                 \/ Rejected(c)
           \/ \E u \in ChatUsers : \/ Close(u)
                                   \/ \E k \in Generates : get_chat_key_handler(u, k)
           \/ Tick \/ UNCHANGED chatState
    PROVE  ChatInv'
<1>0. ChatTypes /\ Len(keys) \in Nat  BY DEF ChatInv, ChatTypes
<1>1. ASSUME NEW c \in ChatCalls, NEW kind, NEW place, Begin(c, kind, place),
             place = IF c \in Generates THEN "sent" ELSE "asked"
      PROVE  ChatInv'
  <2>1. /\ stage[c] = "idle" /\ \A e \in Earlier[c] : Awaited(e)
        /\ stage' = [stage EXCEPT ![c] = IF Hears(c) THEN place ELSE "waiting"]
        /\ floor' = [floor EXCEPT ![c] = Len(keys)]
        /\ UNCHANGED <<frame, keys, log, clock>>
    BY <1>1 DEF Begin, Goto, storeVars
  <2>a. /\ stage'[c] \in IF c \in Generates THEN {"sent", "waiting"} ELSE {"asked", "waiting"}
        /\ \A d \in ChatCalls : d # c => stage'[d] = stage[d] /\ floor'[d] = floor[d]
    BY <1>0, <1>1, <2>1 DEF ChatTypes
  <2>2. ASSUME NEW d \in ChatCalls PROVE QuietMove(d)
    <3>1. CASE d = c  BY <2>1, <2>a, <3>1 DEF QuietMove
    <3>2. CASE d # c  BY <2>a, <3>2 DEF QuietMove
    <3> QED  BY <3>1, <3>2
  <2>3. DOMAIN stage' = ChatCalls /\ clock' \in Nat /\ clock' >= clock
    BY <1>0, <2>1 DEF ChatTypes
  <2>4. floor' \in [ChatCalls -> Nat] /\ \A d \in ChatCalls : floor'[d] <= Len(keys)
    BY <1>0, <2>1 DEF ChatTypes
  <2> QED  BY <2>1, <2>2, <2>3, <2>4, QuietKeeps
<1>2. ASSUME NEW c \in ChatCalls, NEW place, Goto(c, place),
             UNCHANGED <<frame, keys, log, clock, floor>>,
             \/ stage[c] \in {"asked", "found"} /\ place = "waiting"
             \/ c \in Generates /\ stage[c] = "sent" /\ place = "waiting"
             \/ /\ c \in Sends
                /\ \/ stage[c] = "sent" /\ place \in {"adding", "refused", "unstored"}
                   \/ stage[c] = "adding" /\ place = "unstored"
             \/ c \in Reads /\ stage[c] = "replied" /\ place = "decoding"
             \/ stage[c] = "decoding" /\ place = "returned"
      PROVE  ChatInv'
  <2>1. /\ DOMAIN stage' = ChatCalls /\ stage'[c] = place
        /\ \A d \in ChatCalls : d # c => stage'[d] = stage[d]
    BY <1>0, <1>2 DEF Goto, ChatTypes
  <2>2. ASSUME NEW d \in ChatCalls PROVE QuietMove(d)
    <3>1. CASE d = c  BY <1>2, <2>1, <3>1, KindsDiffer DEF QuietMove
    <3>2. CASE d # c  BY <1>2, <2>1, <3>2 DEF QuietMove
    <3> QED  BY <3>1, <3>2
  <2>3. /\ clock' \in Nat /\ clock' >= clock /\ floor' \in [ChatCalls -> Nat]
        /\ \A d \in ChatCalls : floor'[d] <= Len(keys)
    BY <1>0, <1>2 DEF ChatTypes
  <2> QED  BY <1>2, <2>1, <2>2, <2>3, QuietKeeps
<1>3. ASSUME UNCHANGED <<frame, keys, log, floor>>, clock' \in Nat, clock' >= clock,
             DOMAIN stage' = ChatCalls, \A d \in ChatCalls : QuietMove(d)
      PROVE  ChatInv'
  <2>1. /\ floor' \in [ChatCalls -> Nat] /\ \A d \in ChatCalls : floor'[d] <= Len(keys)
    BY <1>0, <1>3 DEF ChatTypes
  <2> QED  BY <1>3, <2>1, QuietKeeps
<1>4. ASSUME NEW c \in ChatCalls,
             generate_chat_keys(c) \/ send_message(c) \/ get_message(c)
      PROVE  ChatInv'
  BY <1>1, <1>4, KindsDiffer
  DEF generate_chat_keys, send_message, get_message, Begin
<1>5. ASSUME NEW c \in ChatCalls, Rejected(c) PROVE ChatInv'
  BY <1>2, <1>5, KindsDiffer DEF Rejected, storeVars
<1>6. ASSUME NEW c \in ChatCalls, decode_messages(c) \/ add_message_handler(c)
      PROVE  ChatInv'
  BY <1>2, <1>6, KindsDiffer DEF decode_messages, add_message_handler, storeVars
<1>7. ASSUME NEW c \in ChatCalls, MessagesDecoded(c) PROVE ChatInv'
  BY <1>2, <1>7, KindsDiffer DEF MessagesDecoded, storeVars
<1>8. ASSUME NEW u \in ChatUsers, Close(u) PROVE ChatInv'
  <2>1. PICK lost \in SUBSET Underway(u) :
           stage' = [c \in ChatCalls |-> IF c \notin lost THEN stage[c]
                       ELSE IF Kind[c] = "send" /\ stage[c] = "sent" THEN "lost" ELSE "waiting"]
    BY <1>8 DEF Close
  <2>2. UNCHANGED <<frame, keys, log, clock, floor>>  BY <1>8 DEF Close, storeVars
  <2>3. \A c \in lost : stage[c] \in {"asked", "found", "replied", "sent"}
    BY DEF Underway
  <2>4. \A d \in ChatCalls : QuietMove(d)  BY <2>1, <2>2, <2>3, KindsDiffer DEF QuietMove
  <2> QED  BY <1>0, <1>3, <2>1, <2>2, <2>4 DEF ChatTypes
<1>9. ASSUME UNCHANGED <<stage, frame, keys, log, floor>>, clock' = clock \/ clock' = clock + 1
      PROVE  ChatInv'
  <2>1. clock' \in Nat /\ clock' >= clock  BY <1>0, <1>9 DEF ChatTypes
  <2> QED  BY <1>0, <1>3, <1>9, <2>1 DEF ChatTypes, QuietMove
<1>10. CASE \/ Tick \/ UNCHANGED chatState
            \/ \E u \in ChatUsers, k \in Generates : get_chat_key_handler(u, k)
  BY <1>9, <1>10 DEF Tick, chatState, get_chat_key_handler, storeVars
<1> QED  BY <1>4, <1>5, <1>6, <1>7, <1>8, <1>10

-----------------------------------------------------------------------------
(* A key is set: it was not there, and what was set before still is.       *)
LEMMA SetKeyKeeps ==
    ASSUME ChatInv, NEW c \in ChatCalls, set_chat_key_handler(c)
    PROVE  ChatInv' /\ \A n \in DOMAIN keys : keys[n] # c
<1>1. /\ c \in Generates /\ stage[c] = "sent" /\ keys' = Append(keys, c)
      /\ UNCHANGED <<frame, log, clock, floor>>
      /\ DOMAIN stage' = ChatCalls /\ stage'[c] \in {"stored", "waiting"}
      /\ \A d \in ChatCalls : d # c => stage'[d] = stage[d]
  BY KindsDiffer DEF set_chat_key_handler, Goto, ChatInv, ChatTypes
<1>2. /\ keys \in Seq(Generates) /\ keys' \in Seq(Generates)
      /\ Len(keys) \in Nat /\ Len(keys') = Len(keys) + 1
      /\ \A n \in DOMAIN keys : keys'[n] = keys[n] /\ n \in DOMAIN keys' /\ n \in Nat
      /\ \A n \in DOMAIN keys' : n \in DOMAIN keys \/ keys'[n] = c
  BY <1>1 DEF ChatInv, ChatTypes
<1>3. ASSUME NEW n \in DOMAIN keys
      PROVE  /\ keys[n] \in ChatCalls /\ keys[n] # c
             /\ stage'[keys[n]] \in {"stored", "waiting"}
  <2>1. keys[n] \in Generates /\ stage[keys[n]] \in {"stored", "waiting"}
    BY <1>2 DEF ChatInv, KeysStored
  <2> QED  BY <1>1, <2>1, KindsDiffer
<1>4. ChatTypes'
  <2>1. \A d \in ChatCalls : floor[d] \in Nat /\ floor[d] <= Len(keys)
    BY DEF ChatInv, ChatTypes
  <2>2. \A d \in ChatCalls : floor'[d] <= Len(keys')  BY <1>1, <1>2, <2>1
  <2>3. \A d \in ChatCalls : stage'[d] \in {"found", "adding"} => d \in Sends
    BY <1>1 DEF ChatInv, ChatTypes
  <2> QED  BY <1>1, <1>2, <2>2, <2>3 DEF ChatInv, ChatTypes, Sends, Generates
<1>5. KeysStored'  BY <1>1, <1>2, <1>3 DEF KeysStored
<1>6. ASSUME NEW d \in Sends
      PROVE  d \in ChatCalls /\ stage'[d] = stage[d] /\ \A id : Set(d, id) => Set(d, id)'
  BY <1>1, <1>2, KindsDiffer DEF Set, Generates
<1>7. ASSUME NEW d \in Sends PROVE IsUpload(d, frame[d]) => IsUpload(d, frame[d])'
  BY <1>1, <1>6 DEF IsUpload
<1>8. SendInv'
  BY <1>1, <1>6, <1>7 DEF ChatInv, SendInv, Uploaded, Sends
<1>9. OrderInv'
  BY <1>1, <1>6 DEF ChatInv, OrderInv, Uploaded, Awaited, Sends
<1>10. StoredInv'
  BY <1>1, <1>6 DEF ChatInv, StoredInv, Sends
<1>11. ReadInv'
  <2>1. \A r \in Reads : r \in ChatCalls /\ r # c  BY <1>1, KindsDiffer
  <2> QED  BY <1>1, <2>1 DEF ChatInv, ReadInv, Reads
<1> QED  BY <1>3, <1>4, <1>5, <1>8, <1>9, <1>10, <1>11 DEF ChatInv

(* A call of send_message goes on, from one awaited answer to the next, and*)
(* to its upload.                                                          *)
LEMMA SendMoves ==
    ASSUME ChatInv, NEW c \in Sends,
           stage[c] \in {"asked", "found", "replied"},
           DOMAIN stage' = ChatCalls, DOMAIN frame' = ChatCalls,
           stage'[c] \in {"found", "replied", "threw", "waiting", "sent", "lost"},
           \A d \in ChatCalls : d # c => stage'[d] = stage[d] /\ frame'[d] = frame[d],
           UNCHANGED <<keys, log, clock, floor>>,
           stage'[c] = "found" => Set(c, frame'[c].id),
           stage'[c] = "replied" /\ frame'[c].id # NoKey =>
              /\ Set(c, frame'[c].id) /\ Sender[c] \in Members[frame'[c].id]
              /\ frame'[c].key = frame'[c].id,
           stage'[c] = "sent" =>
              /\ IsUpload(c, frame'[c])
              /\ \A d \in Earlier[c] \cap Sends :
                    Uploaded(d) => frame[d].sent <= frame'[c].sent
    PROVE  ChatInv'
<1>1. c \in ChatCalls /\ Kind[c] = "send" /\ ~Awaited(c) /\ ~Uploaded(c)
  BY KindsDiffer DEF Awaited, Uploaded
<1>2. ChatTypes'
  <2>1. \A d \in ChatCalls : stage'[d] \in {"found", "adding"} => d \in Sends
    BY DEF ChatInv, ChatTypes
  <2> QED  BY <2>1 DEF ChatInv, ChatTypes, Sends, Generates
<1>3. KeysStored'
  <2>1. ASSUME NEW n \in DOMAIN keys
        PROVE  /\ keys[n] \in ChatCalls /\ keys[n] # c
               /\ stage[keys[n]] \in {"stored", "waiting"}
    <3>1. keys[n] \in Generates  BY DEF ChatInv, ChatTypes
    <3> QED  BY <3>1, KindsDiffer DEF ChatInv, KeysStored
  <2> QED  BY <2>1 DEF KeysStored
<1>4. \A d, m : (Set(d, m) <=> Set(d, m)') /\ (IsUpload(d, m) <=> IsUpload(d, m)')
  BY DEF Set, IsUpload, Generates
<1>5. SendInv'
  <2> SUFFICES ASSUME NEW d \in Sends
               PROVE  /\ stage'[d] = "found" => Set(d, frame'[d].id)
                      /\ stage'[d] = "replied" /\ frame'[d].id # NoKey =>
                            /\ Set(d, frame'[d].id) /\ Sender[d] \in Members[frame'[d].id]
                            /\ frame'[d].key = frame'[d].id
                      /\ stage'[d] \in {"sent", "adding", "stored"} => IsUpload(d, frame'[d])
    BY <1>4 DEF SendInv, Uploaded, Sends, Set, IsUpload, Generates
  <2>1. CASE d = c  BY <2>1
  <2>2. CASE d # c  BY <2>2, KindsDiffer DEF ChatInv, SendInv, Uploaded
  <2> QED  BY <2>1, <2>2
<1>6. OrderInv'
  <2> SUFFICES ASSUME NEW b \in Sends, NEW d \in Earlier[b] \cap Sends
               PROVE  /\ stage'[b] # "idle" => Awaited(d)'
                      /\ Uploaded(b)' /\ Uploaded(d)' => frame'[d].sent <= frame'[b].sent
    BY DEF OrderInv, Sends
  <2>1. /\ stage[b] # "idle" => Awaited(d)
        /\ Uploaded(b) /\ Uploaded(d) => frame[d].sent <= frame[b].sent
        /\ b \in ChatCalls /\ d \in ChatCalls
    BY KindsDiffer DEF ChatInv, OrderInv
  <2>2. stage[b] # "idle" => d # c  BY <1>1, <2>1
  <2>3. d # c => /\ Awaited(d) => Awaited(d)'
                 /\ frame'[d] = frame[d] /\ (Uploaded(d)' <=> Uploaded(d))
    BY <2>1 DEF Awaited, Uploaded
  <2>4. CASE b = c  BY <1>1, <2>1, <2>2, <2>3, <2>4 DEF Uploaded
  <2>5. CASE b # c
    <3>1. stage'[b] = stage[b] /\ frame'[b] = frame[b] /\ (Uploaded(b)' <=> Uploaded(b))
      BY <2>1, <2>5 DEF Uploaded
    <3>2. Uploaded(b) => stage[b] # "idle"  BY DEF Uploaded
    <3> QED  BY <2>1, <2>2, <2>3, <3>1, <3>2
  <2> QED  BY <2>4, <2>5
<1>7. StoredInv'  BY <1>1, KindsDiffer DEF ChatInv, StoredInv, Sends
<1>8. ReadInv'
  <2>1. \A r \in Reads : r \in ChatCalls /\ r # c  BY KindsDiffer
  <2> QED  BY <2>1 DEF ChatInv, ReadInv, Reads
<1> QED  BY <1>2, <1>3, <1>5, <1>6, <1>7, <1>8 DEF ChatInv

LEMMA NewestKeyIdKeeps ==
    ASSUME ChatInv, NEW c \in ChatCalls, NewestKeyId(c)
    PROVE  ChatInv'
<1>0. DOMAIN stage = ChatCalls /\ DOMAIN frame = ChatCalls /\ keys \in Seq(Generates)
  BY DEF ChatInv, ChatTypes
<1>1. /\ c \in Sends /\ stage[c] = "asked" /\ UNCHANGED <<keys, log, clock, floor>>
  BY KindsDiffer DEF NewestKeyId, storeVars
<1>2. /\ DOMAIN stage' = ChatCalls /\ DOMAIN frame' = ChatCalls
      /\ \A d \in ChatCalls : d # c => stage'[d] = stage[d] /\ frame'[d] = frame[d]
  BY <1>0 DEF NewestKeyId, Give, Goto
<1>3. CASE keys = <<>>
  <2>1. stage'[c] = "replied" /\ frame'[c].id = NoKey
    BY <1>0, <1>3 DEF NewestKeyId, Give, Goto
  <2> QED  BY <1>1, <1>2, <2>1, SendMoves
<1>4. CASE keys # <<>>
  <2>1. stage'[c] = "found" /\ frame'[c].id = Last(keys)
    BY <1>0, <1>4 DEF NewestKeyId, Give, Goto
  <2>2. /\ Len(keys) \in DOMAIN keys /\ Last(keys) = keys[Len(keys)]
        /\ Last(keys) \in Generates
    BY <1>0, <1>4 DEF Last
  <2>3. Set(c, Last(keys))  BY <2>2 DEF Set, ChatInv, ChatTypes
  <2> QED  BY <1>1, <1>2, <2>1, <2>3, SendMoves
<1> QED  BY <1>3, <1>4

LEMMA NewestKeyKeeps ==
    ASSUME ChatInv, NEW c \in ChatCalls, NewestKey(c)
    PROVE  ChatInv'
<1>0. DOMAIN stage = ChatCalls /\ DOMAIN frame = ChatCalls  BY DEF ChatInv, ChatTypes
<1>1. /\ stage[c] = "found" /\ c \in Sends /\ UNCHANGED <<keys, log, clock, floor>>
  BY DEF NewestKey, storeVars, ChatInv, ChatTypes
<1>2. Set(c, frame[c].id)  BY <1>1 DEF ChatInv, SendInv
<1>3. /\ DOMAIN stage' = ChatCalls /\ DOMAIN frame' = ChatCalls
      /\ \A d \in ChatCalls : d # c => stage'[d] = stage[d] /\ frame'[d] = frame[d]
  BY <1>0 DEF NewestKey, Give, Goto
<1>4. \/ stage'[c] = "waiting"
      \/ /\ stage'[c] = "replied" /\ Sender[c] \in Members[frame[c].id]
         /\ frame'[c].id = frame[c].id /\ frame'[c].key = frame[c].id
  BY <1>0 DEF NewestKey, Give, Goto, KeyUnder
<1> QED  BY <1>1, <1>2, <1>3, <1>4, SendMoves

(* The clocks are never put back: a message is sent no earlier than those  *)
(* its user sent before.                                                   *)
LEMMA UploadKeeps ==
    ASSUME ChatInv, NEW c \in ChatCalls, UploadMessage(c)
    PROVE  ChatInv'
<1>0. DOMAIN stage = ChatCalls /\ DOMAIN frame = ChatCalls  BY DEF ChatInv, ChatTypes
<1>1. c \in Sends /\ stage[c] = "replied" /\ UNCHANGED <<keys, log, clock, floor>>
  BY KindsDiffer DEF UploadMessage, storeVars
<1>2. /\ DOMAIN stage' = ChatCalls /\ DOMAIN frame' = ChatCalls
      /\ \A d \in ChatCalls : d # c => stage'[d] = stage[d] /\ frame'[d] = frame[d]
  BY <1>0 DEF UploadMessage, Give, Goto
<1>3. CASE frame[c].id = NoKey
  <2>1. stage'[c] = "threw"  BY <1>0, <1>3 DEF UploadMessage, Goto
  <2> QED  BY <1>1, <1>2, <2>1, SendMoves
<1>4. CASE frame[c].id # NoKey
  <2> DEFINE m == [sender |-> Sender[c], sent |-> clock + Skew[Sender[c]], id |-> frame[c].id,
                   data |-> [key |-> frame[c].key, text |-> c]]
  <2>1. frame'[c] = m /\ stage'[c] \in {"sent", "lost"}
    BY <1>0, <1>4 DEF UploadMessage, Give, Goto
  <2>2. clock \in Nat /\ Skew[Sender[c]] \in Nat
    BY ChatGivens DEF ChatInv, ChatTypes
  <2>3. /\ Set(c, frame[c].id) /\ Sender[c] \in Members[frame[c].id]
        /\ frame[c].key = frame[c].id
    BY <1>1, <1>4 DEF ChatInv, SendInv
  <2>4. IsUpload(c, m)  BY <2>2, <2>3 DEF IsUpload
  <2>5. ASSUME NEW d \in Earlier[c] \cap Sends, Uploaded(d)
        PROVE  frame[d].sent <= m.sent
    <3>1. IsUpload(d, frame[d])  BY <2>5 DEF ChatInv, SendInv
    <3>2. Sender[d] = Sender[c]  BY ChatGivens
    <3> QED  BY <2>2, <3>1, <3>2 DEF IsUpload
  <2> HIDE DEF m
  <2> QED  BY <1>1, <1>2, <2>1, <2>4, <2>5, SendMoves
<1> QED  BY <1>3, <1>4

LEMMA AddMessageKeeps ==
    ASSUME ChatInv, NEW c \in ChatCalls, AddMessage(c)
    PROVE  /\ ChatInv'
           /\ c \in Sends /\ IsUpload(c, frame[c])
           /\ \A i \in DOMAIN log : log[i].data.text # c
<1>0. /\ DOMAIN stage = ChatCalls /\ log \in Seq({log[i] : i \in DOMAIN log})
      /\ c \in Sends /\ stage[c] = "adding"
  BY DEF ChatInv, ChatTypes, AddMessage
<1>1. /\ UNCHANGED <<frame, keys, clock, floor>> /\ log' = Append(log, frame[c])
      /\ DOMAIN stage' = ChatCalls /\ stage'[c] = "stored"
      /\ \A d \in ChatCalls : d # c => stage'[d] = stage[d]
  BY <1>0 DEF AddMessage, Goto
<1>2. IsUpload(c, frame[c])  BY <1>0 DEF ChatInv, SendInv, Uploaded
<1>3. ASSUME NEW i \in DOMAIN log
      PROVE  /\ log[i].data.text # c
             /\ \E d \in Sends \ {c} : /\ stage[d] = "stored" /\ log[i] = frame[d]
                                            /\ \A j \in DOMAIN log : log[j] = frame[d] => i = j
  <2>1. PICK d \in Sends : /\ stage[d] = "stored" /\ log[i] = frame[d]
                                /\ \A j \in DOMAIN log : log[j] = frame[d] => i = j
    BY DEF ChatInv, StoredInv
  <2>2. d # c /\ frame[d].data.text = d  BY <1>0, <2>1 DEF ChatInv, SendInv, IsUpload, Uploaded
  <2> QED  BY <2>1, <2>2
<1>4. /\ Len(log) \in Nat /\ DOMAIN log' = 1 .. Len(log) + 1 /\ DOMAIN log = 1 .. Len(log)
      /\ \A i \in DOMAIN log : log'[i] = log[i] /\ i \in DOMAIN log'
      /\ log'[Len(log) + 1] = frame[c]
      /\ log' \in Seq({log'[i] : i \in DOMAIN log'})
  <2> DEFINE T == {log[i] : i \in DOMAIN log} \cup {frame[c]}
  <2>1. log \in Seq(T)
    <3>1. Len(log) \in Nat /\ DOMAIN log = 1 .. Len(log) /\ \A i \in DOMAIN log : log[i] \in T
      BY <1>0
    <3>2. log = [i \in 1 .. Len(log) |-> log[i]]  BY <1>0
    <3> QED  BY <3>1, <3>2
  <2>2. frame[c] \in T  OBVIOUS
  <2> HIDE DEF T
  <2>3. log' \in Seq(T) /\ Len(log) \in Nat /\ Len(log') = Len(log) + 1
        /\ log'[Len(log) + 1] = frame[c] /\ DOMAIN log = 1 .. Len(log)
        /\ \A i \in 1 .. Len(log) : log'[i] = log[i]
    BY <1>1, <2>1, <2>2
  <2>4. DOMAIN log' = 1 .. Len(log) + 1  BY <2>3
  <2>5. log' \in Seq({log'[i] : i \in DOMAIN log'})
    <3>1. log' = [i \in 1 .. Len(log') |-> log'[i]]  BY <2>3
    <3>2. \A i \in 1 .. Len(log') : log'[i] \in {log'[j] : j \in DOMAIN log'}  BY <2>3, <2>4
    <3>3. Len(log') \in Nat  BY <2>3
    <3> DEFINE U == {log'[i] : i \in DOMAIN log'}  q == log'
    <3>4. /\ q = [i \in 1 .. Len(q) |-> q[i]] /\ Len(q) \in Nat
          /\ \A i \in 1 .. Len(q) : q[i] \in U
      BY <3>1, <3>2, <3>3
    <3> HIDE DEF U, q
    <3>5. q \in Seq(U)  BY <3>4
    <3> QED  BY <3>5 DEF U, q
  <2> QED  BY <2>3, <2>4, <2>5
<1>5. ASSUME NEW d \in Sends
      PROVE  /\ d \in ChatCalls /\ frame'[d] = frame[d] /\ (Uploaded(d)' <=> Uploaded(d))
             /\ stage[d] = "stored" => stage'[d] = "stored"
             /\ stage'[d] # "stored" => stage'[d] = stage[d]
             /\ (stage'[d] # "idle" <=> stage[d] # "idle")
             /\ Awaited(d) => Awaited(d)'
             /\ \A m : (Set(d, m) <=> Set(d, m)') /\ (IsUpload(d, m) <=> IsUpload(d, m)')
  <2>1. d \in ChatCalls /\ (stage'[d] = stage[d] \/ (stage[d] = "adding" /\ stage'[d] = "stored"))
    BY <1>0, <1>1, KindsDiffer
  <2>2. \A m : (Set(d, m) <=> Set(d, m)') /\ (IsUpload(d, m) <=> IsUpload(d, m)')
    BY <1>1 DEF Set, IsUpload, Generates
  <2> QED  BY <1>1, <2>1, <2>2 DEF Uploaded, Awaited
<1>6. ChatTypes'
  <2>1. \A d \in ChatCalls : stage'[d] \in {"found", "adding"} => d \in Sends
    BY <1>1 DEF ChatInv, ChatTypes
  <2> QED  BY <1>1, <1>4, <2>1 DEF ChatInv, ChatTypes, Sends, Generates
<1>7. KeysStored'
  <2>1. ASSUME NEW n \in DOMAIN keys
        PROVE  keys[n] \in ChatCalls /\ stage[keys[n]] \in {"stored", "waiting"}
    <3>1. keys[n] \in Generates  BY DEF ChatInv, ChatTypes
    <3> QED  BY <3>1, KindsDiffer DEF ChatInv, KeysStored
  <2> QED  BY <1>0, <1>1, <2>1 DEF KeysStored
<1>8. SendInv'
  <2> SUFFICES ASSUME NEW d \in Sends
               PROVE  /\ stage'[d] = "found" => Set(d, frame[d].id)
                      /\ stage'[d] = "replied" /\ frame[d].id # NoKey =>
                            /\ Set(d, frame[d].id) /\ Sender[d] \in Members[frame[d].id]
                            /\ frame[d].key = frame[d].id
                      /\ Uploaded(d)' => IsUpload(d, frame[d])
    BY <1>1 DEF SendInv, Uploaded, Set, IsUpload, Sends, Generates
  <2> QED  BY <1>5 DEF ChatInv, SendInv
<1>9. OrderInv'
  BY <1>5 DEF ChatInv, OrderInv, Sends
<1>10. StoredInv'
  <2> SUFFICES ASSUME NEW i \in DOMAIN log'
               PROVE  \E d \in Sends :
                         /\ stage'[d] = "stored" /\ log'[i] = frame[d]
                         /\ \A j \in DOMAIN log' : log'[j] = frame[d] => i = j
    BY <1>1 DEF StoredInv, Sends
  <2>1. frame[c].data.text = c  BY <1>2 DEF IsUpload
  <2>2. CASE i = Len(log) + 1
    <3>1. \A j \in DOMAIN log' : log'[j] = frame[c] => i = j
      BY <1>3, <1>4, <2>1, <2>2
    <3> QED  BY <1>0, <1>1, <1>4, <2>2, <3>1
  <2>3. CASE i # Len(log) + 1
    <3>1. i \in DOMAIN log /\ log'[i] = log[i]  BY <1>4, <2>3
    <3>2. PICK d \in Sends \ {c} :
                 /\ stage[d] = "stored" /\ log[i] = frame[d]
                 /\ \A j \in DOMAIN log : log[j] = frame[d] => i = j
      BY <1>3, <3>1
    <3>3. frame[d].data.text # c  BY <1>3, <3>1, <3>2
    <3>4. \A j \in DOMAIN log' : log'[j] = frame[d] => i = j
      BY <1>4, <2>1, <3>2, <3>3
    <3> QED  BY <1>5, <3>1, <3>2, <3>4
  <2> QED  BY <2>2, <2>3
<1>11. ReadInv'
  <2>1. \A r \in Reads : r \in ChatCalls /\ r # c  BY <1>0, KindsDiffer
  <2> QED  BY <1>1, <1>4, <2>1 DEF ChatInv, ReadInv, Reads
<1> QED  BY <1>0, <1>2, <1>3, <1>6, <1>7, <1>8, <1>9, <1>10, <1>11 DEF ChatInv

LEMMA ReadKeeps ==
    ASSUME ChatInv, NEW c \in ChatCalls, read_messages_handler(c)
    PROVE  ChatInv'
<1>0. DOMAIN stage = ChatCalls /\ DOMAIN frame = ChatCalls  BY DEF ChatInv, ChatTypes
<1>1. /\ c \in Reads /\ stage[c] = "asked" /\ UNCHANGED <<keys, log, clock, floor>>
      /\ c \notin Sends /\ c \notin Generates
  BY KindsDiffer DEF read_messages_handler, storeVars
<1>2. /\ DOMAIN stage' = ChatCalls /\ DOMAIN frame' = ChatCalls
      /\ stage'[c] = "replied" /\ frame'[c] = log
      /\ \A d \in ChatCalls : d # c => stage'[d] = stage[d] /\ frame'[d] = frame[d]
  BY <1>0 DEF read_messages_handler, Give, Goto
<1>3. \A d \in Sends : d \in ChatCalls /\ stage'[d] = stage[d] /\ frame'[d] = frame[d]
  BY <1>1, <1>2, KindsDiffer
<1>4. ChatTypes'
  <2>1. \A d \in ChatCalls : stage'[d] \in {"found", "adding"} => d \in Sends
    BY <1>2 DEF ChatInv, ChatTypes
  <2> QED  BY <1>1, <1>2, <2>1 DEF ChatInv, ChatTypes, Sends, Generates
<1>5. KeysStored'
  <2>1. \A n \in DOMAIN keys : keys[n] \in ChatCalls /\ keys[n] # c
    <3>1. \A n \in DOMAIN keys : keys[n] \in Generates  BY DEF ChatInv, ChatTypes
    <3> QED  BY <1>1, <3>1, KindsDiffer
  <2> QED  BY <1>1, <1>2, <2>1 DEF ChatInv, KeysStored
<1>6. SendInv'
  BY <1>1, <1>3 DEF ChatInv, SendInv, Uploaded, Set, IsUpload, Sends, Generates
<1>7. OrderInv'
  BY <1>3 DEF ChatInv, OrderInv, Uploaded, Awaited, Sends
<1>8. StoredInv'
  BY <1>1, <1>3 DEF ChatInv, StoredInv, Sends
<1>9. ReadInv'
  <2> SUFFICES ASSUME NEW r \in Reads, stage'[r] \in {"replied", "decoding", "returned"},
                      NEW i \in DOMAIN frame'[r]
               PROVE  i \in DOMAIN log /\ frame'[r][i] = log[i]
    BY <1>1 DEF ReadInv, Reads
  <2>1. r \in ChatCalls  BY KindsDiffer
  <2>2. CASE r = c  BY <1>2, <2>2
  <2>3. CASE r # c  BY <1>2, <2>1, <2>3 DEF ChatInv, ReadInv
  <2> QED  BY <2>2, <2>3
<1> QED  BY <1>4, <1>5, <1>6, <1>7, <1>8, <1>9 DEF ChatInv

LEMMA ChatInvNext ==
    ASSUME ChatInv, [ChatNext]_chatState
    PROVE  ChatInv'
<1>1. CASE ChatNext
  BY <1>1, QuietSteps, SetKeyKeeps, NewestKeyIdKeeps, NewestKeyKeeps, UploadKeeps,
     AddMessageKeeps, ReadKeeps
  DEF ChatNext, ClientStep, ServerStep
<1> QED  BY <1>1, QuietSteps

(* ReadAsSent: what get_message returns was sent by the users it names,    *)
(* each message once, under a key that was not replaced by then, and with  *)
(* the times that put the messages of one user in order.                   *)
THEOREM ReadAsSentAlways == ChatSpec => []ReadAsSent
<1>1. ChatInit => ChatInv  BY ChatInvInit
<1>2. ChatInv /\ [ChatNext]_chatState => ChatInv'  BY ChatInvNext
<1>3. ChatInv => ReadAsSent
  <2> SUFFICES ASSUME ChatInv, NEW r \in Reads, stage[r] = "returned",
                      NEW i \in DOMAIN frame[r], NEW j \in DOMAIN frame[r]
               PROVE  /\ Genuine(frame[r][i]) /\ Fresh(frame[r][i])
                      /\ TextOf(frame[r][i]) = TextOf(frame[r][j]) => i = j
                      /\ TextOf(frame[r][i]) \in Earlier[TextOf(frame[r][j])]
                            => frame[r][i].sent <= frame[r][j].sent
    BY DEF ReadAsSent
  <2>1. ASSUME NEW n \in DOMAIN frame[r]
        PROVE  \E c \in Sends :
                  /\ stage[c] = "stored" /\ frame[r][n] = frame[c]
                  /\ TextOf(frame[c]) = c /\ IsUpload(c, frame[c])
                  /\ \A m \in DOMAIN frame[r] : frame[r][m] = frame[c] => n = m
    <3>1. /\ n \in DOMAIN log
          /\ \A m \in DOMAIN frame[r] : m \in DOMAIN log /\ frame[r][m] = log[m]
      BY DEF ChatInv, ReadInv
    <3>2. PICK c \in Sends : /\ stage[c] = "stored" /\ log[n] = frame[c]
                                  /\ \A m \in DOMAIN log : log[m] = frame[c] => n = m
      BY <3>1 DEF ChatInv, StoredInv
    <3>3. IsUpload(c, frame[c])  BY <3>2 DEF ChatInv, SendInv, Uploaded
    <3>4. TextOf(frame[c]) = c  BY <3>3 DEF IsUpload, TextOf, decript_aes
    <3> QED  BY <3>1, <3>2, <3>3, <3>4
  <2>2. PICK c \in Sends :
               /\ stage[c] = "stored" /\ frame[r][i] = frame[c]
               /\ TextOf(frame[c]) = c /\ IsUpload(c, frame[c])
               /\ \A m \in DOMAIN frame[r] : frame[r][m] = frame[c] => i = m
    BY <2>1
  <2>3. PICK d \in Sends :
               /\ stage[d] = "stored" /\ frame[r][j] = frame[d]
               /\ TextOf(frame[d]) = d /\ IsUpload(d, frame[d])
               /\ \A m \in DOMAIN frame[r] : frame[r][m] = frame[d] => j = m
    BY <2>1
  <2>4. Genuine(frame[r][i])  BY <2>2 DEF Genuine, IsUpload
  <2>5. Fresh(frame[r][i])  BY <2>2 DEF Fresh, IsUpload, Set
  <2>6. TextOf(frame[r][i]) = TextOf(frame[r][j]) => i = j  BY <2>2, <2>3
  <2>7. c \in Earlier[d] => frame[c].sent <= frame[d].sent
    BY <2>2, <2>3 DEF ChatInv, OrderInv, Uploaded
  <2> QED  BY <2>2, <2>3, <2>4, <2>5, <2>6, <2>7
<1> QED  BY <1>1, <1>2, <1>3, PTL DEF ChatSpec
-----------------------------------------------------------------------------
(* The implementation of ChatLog.                                          *)
LogImage == [i \in DOMAIN log |-> [post |-> log[i].data.text, under |-> log[i].data.key]]

LEMMA LogQuiet ==
    ASSUME UNCHANGED <<keys, log>>
    PROVE  UNCHANGED Log!vars
  BY DEF Log!vars

LEMMA LogAddsKey ==
    ASSUME ChatInv, NEW c \in ChatCalls, set_chat_key_handler(c)
    PROVE  Log!Next
<1>1. c \in Generates /\ keys' = Append(keys, c) /\ log' = log
  BY KindsDiffer DEF set_chat_key_handler
<1>2. c \notin Log!Range(keys)  BY SetKeyKeeps DEF Log!Range
<1> QED  BY <1>1, <1>2 DEF Log!Next, Log!AddKey

LEMMA LogPosts ==
    ASSUME ChatInv, NEW c \in ChatCalls, AddMessage(c)
    PROVE  Log!Next
<1> DEFINE m == [post |-> frame[c].data.text, under |-> frame[c].data.key]
<1>1. /\ c \in Sends /\ IsUpload(c, frame[c])
      /\ \A i \in DOMAIN log : log[i].data.text # c
      /\ keys' = keys /\ log' = Append(log, frame[c])
  BY AddMessageKeeps DEF AddMessage
<1>2. /\ m.post = c /\ m = [post |-> c, under |-> m.under]
      /\ m.under \in Generates /\ Sender[c] \in Members[m.under]
      /\ m.under \in Log!Range(keys)
  BY <1>1 DEF IsUpload, Set, Log!Range
<1>3. \A i \in DOMAIN LogImage : LogImage[i].post # c  BY <1>1 DEF LogImage
<1>4. LogImage' = Append(LogImage, m)
  <2>1. /\ Len(log) \in Nat /\ DOMAIN log = 1 .. Len(log)
        /\ log \in Seq({log[i] : i \in DOMAIN log})
    BY DEF ChatInv, ChatTypes
  <2>2. /\ DOMAIN log' = 1 .. Len(log) + 1 /\ log'[Len(log) + 1] = frame[c]
        /\ \A i \in DOMAIN log : log'[i] = log[i]
    BY <1>1, <2>1
  <2>3. /\ LogImage = [i \in 1 .. Len(log) |-> LogImage[i]] /\ Len(LogImage) = Len(log)
    BY <2>1 DEF LogImage
  <2>4. LogImage' = [i \in 1 .. Len(log) + 1 |->
                       IF i = Len(log) + 1 THEN m ELSE LogImage[i]]
    BY <2>1, <2>2 DEF LogImage
  <2>5. \A q, e : q = [i \in 1 .. Len(log) |-> q[i]] /\ Len(q) = Len(log) =>
           Append(q, e) = [i \in 1 .. Len(log) + 1 |-> IF i = Len(log) + 1 THEN e ELSE q[i]]
    BY <2>1
  <2> HIDE DEF m
  <2> QED  BY <2>3, <2>4, <2>5
<1> HIDE DEF m
<1> QED
  BY <1>1, <1>2, <1>3, <1>4 DEF LogImage, Log!Next, Log!Post

LEMMA LogSteps ==
    ASSUME ChatInv, [ChatNext]_chatState
    PROVE  [Log!Next]_(Log!vars)
<1>1. ASSUME NEW c \in ChatCalls,
             \/ generate_chat_keys(c) \/ send_message(c) \/ get_message(c)
             \/ UploadMessage(c) \/ decode_messages(c) \/ MessagesDecoded(c)
             \/ NewestKeyId(c) \/ NewestKey(c) \/ add_message_handler(c)
             \/ read_messages_handler(c) \/ Rejected(c)
      PROVE  UNCHANGED <<keys, log>>
  BY <1>1
  DEF generate_chat_keys, send_message, get_message, Begin,
      UploadMessage, decode_messages, MessagesDecoded, NewestKeyId,
      NewestKey, add_message_handler, read_messages_handler,
      Rejected, storeVars
<1>2. ASSUME \/ Tick \/ UNCHANGED chatState
             \/ \E u \in ChatUsers : \/ Close(u)
                                     \/ \E k \in Generates : get_chat_key_handler(u, k)
      PROVE  UNCHANGED <<keys, log>>
  BY <1>2
  DEF Tick, chatState, Close, get_chat_key_handler, storeVars
<1> QED
  BY <1>1, <1>2, LogQuiet, LogAddsKey, LogPosts
  DEF ChatNext, ClientStep, ServerStep

(* KeepsLog: the keys and messages the handlers of the server give to the  *)
(* callbacks are those of a ChatLog, in every interleaving of their awaits.*)
THEOREM KeepsLogAlways == ChatSpec => KeepsLog
<1>1. ChatInit => ChatInv  BY ChatInvInit
<1>2. ChatInv /\ [ChatNext]_chatState => ChatInv'  BY ChatInvNext
<1>3. ChatInit => Log!Init  BY DEF ChatInit, Log!Init
<1>4. ChatInv /\ [ChatNext]_chatState => [Log!Next]_(Log!vars)  BY LogSteps
<1> QED  BY <1>1, <1>2, <1>3, <1>4, PTL DEF ChatSpec, KeepsLog, Log!Spec
-----------------------------------------------------------------------------
(* The numbers: what the module assumes, then powers, digits, the loops.   *)
LEMMA CodecGivens ==
    /\ Base \in Nat /\ Base >= 2 /\ Base % 2 = 0
    /\ IntDigits \in Nat /\ IntDigits >= 1
    /\ SizeDigits \in Nat /\ SizeDigits > IntDigits /\ SizeDigits <= 2 * IntDigits
    /\ Numbers \subseteq Nat /\ Delays \subseteq Int /\ Past \in Nat /\ Future \in Nat
<1>1. /\ Base \in Nat \ {0} /\ Base % 2 = 0 /\ IntDigits \in Nat \ {0}
      /\ SizeDigits \in IntDigits + 1 .. 2 * IntDigits
      /\ Numbers \subseteq Nat /\ Delays \subseteq Int /\ Past \in Nat /\ Future \in Nat
  BY WidthAssumption, NumberAssumption, WindowAssumption
<1> QED  BY <1>1

(* Induction over the numbers, stated of a set.                            *)
LEMMA SetInduction ==
    ASSUME NEW T, 0 \in T, \A n \in Nat : n \in T => n + 1 \in T
    PROVE  Nat \subseteq T
<1> DEFINE R == {p \in Nat \X Nat : p[1] < p[2]}  Rest == Nat \ T
<1>1. IsWellFoundedOn(R, Nat)  BY NatLessThanWellFounded DEF OpToRel
<1> HIDE DEF R
<1>2. SUFFICES ASSUME Rest # {} PROVE FALSE  OBVIOUS
<1>3. PICK m \in Rest : \A k \in Rest : ~(<<k, m>> \in R)  BY <1>1, <1>2, WFMin
<1>4. m \in Nat /\ m # 0 /\ m \notin T  OBVIOUS
<1>5. m - 1 \in Nat /\ (m - 1) + 1 = m  BY <1>4
<1>6. m - 1 \in Rest  BY <1>4, <1>5
<1>7. <<m - 1, m>> \in R  BY <1>4, <1>5 DEF R
<1> QED  BY <1>3, <1>6, <1>7

(* There is a function that Power's equation defines: for each n one that  *)
(* obeys it up to n, and any two of these agree there.                     *)
LEMMA PowerExists ==
    ASSUME NEW b \in Nat
    PROVE  \E g : g = [n \in Nat |-> IF n = 0 THEN 1 ELSE b * g[n - 1]] /\ g \in [Nat -> Nat]
<1> DEFINE Good(h, n) == h[0] = 1 /\ \A i \in 1 .. n : h[i] = b * h[i - 1]
           T == {n \in Nat : \E h \in [Nat -> Nat] : Good(h, n)}
           A == {n \in Nat : \A h, k \in [Nat -> Nat] : Good(h, n) /\ Good(k, n) => h[n] = k[n]}
<1>1. Nat \subseteq T
  <2>1. 0 \in T
    <3>1. [n \in Nat |-> 1] \in [Nat -> Nat] /\ Good([n \in Nat |-> 1], 0)  OBVIOUS
    <3> QED  BY <3>1
  <2>2. ASSUME NEW n \in Nat, n \in T PROVE n + 1 \in T
    <3>1. PICK h \in [Nat -> Nat] : Good(h, n)  BY <2>2
    <3> DEFINE k == [h EXCEPT ![n + 1] = b * h[n]]
    <3>2. k \in [Nat -> Nat]
      <4>1. b * h[n] \in Nat  OBVIOUS
      <4> QED  BY <4>1
    <3>3. k[n + 1] = b * h[n] /\ \A i \in 0 .. n : k[i] = h[i]  OBVIOUS
    <3> HIDE DEF k
    <3>4. Good(k, n + 1)
      <4>1. ASSUME NEW i \in 1 .. n PROVE k[i] = b * k[i - 1]
        <5>1. i \in 0 .. n /\ i - 1 \in 0 .. n  OBVIOUS
        <5> QED  BY <3>1, <3>3, <5>1
      <4>2. k[n + 1] = b * k[(n + 1) - 1]
        <5>1. (n + 1) - 1 = n /\ n \in 0 .. n  OBVIOUS
        <5> QED  BY <3>3, <5>1
      <4>3. \A i \in 1 .. n + 1 : i = n + 1 \/ i \in 1 .. n  OBVIOUS
      <4>4. k[0] = 1  BY <3>1, <3>3
      <4> QED  BY <4>1, <4>2, <4>3, <4>4
    <3> QED  BY <3>2, <3>4
  <2> HIDE DEF T
  <2> QED  BY <2>1, <2>2, SetInduction
<1>2. Nat \subseteq A
  <2>1. 0 \in A  OBVIOUS
  <2>2. ASSUME NEW n \in Nat, n \in A PROVE n + 1 \in A
    <3>1. n + 1 \in 1 .. n + 1 /\ (n + 1) - 1 = n /\ \A i \in 1 .. n : i \in 1 .. n + 1
      OBVIOUS
    <3>2. ASSUME NEW h \in [Nat -> Nat], NEW k \in [Nat -> Nat], Good(h, n + 1), Good(k, n + 1)
          PROVE  h[n + 1] = k[n + 1]
      <4>1. Good(h, n) /\ Good(k, n)  BY <3>1, <3>2
      <4>2. h[n] = k[n]  BY <2>2, <4>1
      <4>3. h[n + 1] = b * h[n] /\ k[n + 1] = b * k[n]  BY <3>1, <3>2
      <4> QED  BY <4>2, <4>3
    <3> HIDE DEF Good
    <3> QED  BY <3>2
  <2> HIDE DEF A
  <2> QED  BY <2>1, <2>2, SetInduction
<1> DEFINE H(n) == CHOOSE h \in [Nat -> Nat] : Good(h, n)
           g == [n \in Nat |-> H(n)[n]]
<1>3. \A n \in Nat : H(n) \in [Nat -> Nat] /\ Good(H(n), n)
  <2>1. \A n \in Nat : \E h \in [Nat -> Nat] : Good(h, n)  BY <1>1
  <2> HIDE DEF Good
  <2> QED  BY <2>1
<1> HIDE DEF H
<1>4. g \in [Nat -> Nat] /\ \A n \in Nat : g[n] = H(n)[n]  BY <1>3
<1>5. g[0] = 1  BY <1>3, <1>4
<1>6. ASSUME NEW n \in Nat, n # 0 PROVE g[n] = b * g[n - 1]
  <2>1. n \in 1 .. n /\ n - 1 \in Nat /\ \A i \in 1 .. n - 1 : i \in 1 .. n  BY <1>6
  <2>2. H(n)[n] = b * H(n)[n - 1]  BY <1>3, <2>1
  <2>3. Good(H(n), n - 1) /\ Good(H(n - 1), n - 1)  BY <1>3, <2>1
  <2>4. H(n)[n - 1] = H(n - 1)[n - 1]  BY <1>2, <1>3, <2>1, <2>3
  <2> QED  BY <1>4, <2>1, <2>2, <2>4
<1> HIDE DEF g
<1>7. g = [n \in Nat |-> IF n = 0 THEN 1 ELSE b * g[n - 1]]
  <2>1. g = [n \in Nat |-> g[n]]  BY <1>4
  <2>2. \A n \in Nat : g[n] = IF n = 0 THEN 1 ELSE b * g[n - 1]  BY <1>5, <1>6
  <2> QED  BY <2>1, <2>2
<1> QED  BY <1>4, <1>7

LEMMA PowerStep ==
    ASSUME Base \in Nat
    PROVE  /\ Power[0] = 1
           /\ \A n \in Nat : Power[n + 1] = Base * Power[n] /\ Power[n] \in Nat
<1>1. Power = [n \in Nat |-> IF n = 0 THEN 1 ELSE Base * Power[n - 1]]
  <2>1. \E g : g = [n \in Nat |-> IF n = 0 THEN 1 ELSE Base * g[n - 1]]  BY PowerExists
  <2> QED  BY <2>1 DEF Power
<1>2. Power[0] = 1  BY <1>1
<1>3. ASSUME NEW n \in Nat PROVE Power[n + 1] = Base * Power[n]
  <2>1. n + 1 \in Nat /\ n + 1 # 0 /\ (n + 1) - 1 = n  OBVIOUS
  <2> QED  BY <1>1, <2>1
<1>4. Nat \subseteq {n \in Nat : Power[n] \in Nat}
  <2> DEFINE T == {n \in Nat : Power[n] \in Nat}
  <2>1. 0 \in T  BY <1>2
  <2>2. ASSUME NEW n \in Nat, n \in T PROVE n + 1 \in T
    <3>1. Power[n] \in Nat  BY <2>2
    <3>2. Base * Power[n] \in Nat  BY <3>1
    <3> QED  BY <1>3, <3>2
  <2> HIDE DEF T
  <2>3. Nat \subseteq T  BY <2>1, <2>2, SetInduction
  <2> QED  BY <2>3 DEF T
<1> QED  BY <1>2, <1>3, <1>4

LEMMA DivMod ==
    ASSUME NEW n \in Int, NEW m \in Int, m > 0
    PROVE  /\ n = m * (n \div m) + (n % m)
           /\ n \div m \in Int /\ n % m \in Int /\ 0 <= n % m /\ n % m < m
           /\ n >= 0 => n \div m >= 0
<1>1. n = m * (n \div m) + (n % m)  BY SMTT(60)
<1>2. n \div m \in Int /\ n % m \in Int /\ 0 <= n % m /\ n % m < m  OBVIOUS
<1>3. n >= 0 => n \div m >= 0  OBVIOUS
<1> QED  BY <1>1, <1>2, <1>3

LEMMA DivModIs ==
    ASSUME NEW n \in Int, NEW m \in Int, m > 0, NEW q \in Int, NEW r \in Int,
           0 <= r, r < m, n = m * q + r
    PROVE  n \div m = q /\ n % m = r
<1>1. m \in Nat \ {0} /\ r \in 0 .. m - 1  OBVIOUS
<1> QED  BY <1>1, SMTT(20)

LEMMA Times ==
    ASSUME NEW a \in Int, NEW b \in Int, NEW c \in Int
    PROVE  /\ a * b \in Int /\ a * b = b * a /\ a * (b * c) = (a * b) * c
           /\ a * (b + c) = a * b + a * c /\ a * (b - c) = a * b - a * c
           /\ a >= 0 /\ b <= c => a * b <= a * c
           /\ a >= 0 /\ b >= 0 => a * b >= 0
<1>1. a * b \in Int /\ a * b = b * a /\ a * (b * c) = (a * b) * c  OBVIOUS
<1>2. a * (b + c) = a * b + a * c /\ a * (b - c) = a * b - a * c  OBVIOUS
<1>3. a >= 0 /\ b <= c => a * b <= a * c  OBVIOUS
<1>4. a >= 0 /\ b >= 0 => a * b >= 0  OBVIOUS
<1> QED  BY <1>1, <1>2, <1>3, <1>4

LEMMA DivDiv ==
    ASSUME NEW n \in Int, NEW m \in Int, m > 0, NEW b \in Int, b > 0
    PROVE  /\ m * b \in Int /\ m * b > 0
           /\ n \div (m * b) = (n \div m) \div b
           /\ n % (m * b) = (n % m) + m * ((n \div m) % b)
<1> DEFINE q == n \div m  r == n % m  s == q \div b  d == q % b
<1>1. n = m * q + r /\ q \in Int /\ r \in Int /\ 0 <= r /\ r < m  BY DivMod
<1> HIDE DEF q, r
<1>2. q = b * s + d /\ s \in Int /\ d \in Int /\ 0 <= d /\ d <= b - 1  BY <1>1, DivMod
<1> HIDE DEF s, d
<1>3. /\ m * b \in Int /\ m * d \in Int /\ (m * b) * s \in Int
      /\ m * q = m * (b * s) + m * d /\ m * (b * s) = (m * b) * s
  BY <1>2, Times
<1>4. /\ 0 <= m * d /\ m * d <= m * (b - 1) /\ m * (b - 1) = m * b - m * 1 /\ m * 1 = m
      /\ m * b >= 0 /\ m * b > 0
  BY <1>2, Times
<1>5. n = (m * b) * s + (r + m * d) /\ 0 <= r + m * d /\ r + m * d < m * b
  BY <1>1, <1>3, <1>4
<1> DEFINE mb == m * b  x == r + m * d
<1>6. n = mb * s + x /\ 0 <= x /\ x < mb /\ mb \in Int /\ x \in Int /\ mb > 0
  BY <1>1, <1>3, <1>4, <1>5
<1> HIDE DEF mb, x
<1>7. n \div mb = s /\ n % mb = x  BY <1>2, <1>6, DivModIs
<1> QED  BY <1>4, <1>3, <1>7 DEF mb, x, s, d, q, r

LEMMA PowersGrow ==
    ASSUME Base \in Nat, Base >= 2
    PROVE  /\ Power[0] = 1 /\ Power[1] = Base
           /\ \A n \in Nat : /\ Power[n] \in Int /\ Power[n] >= 1
                             /\ Power[n + 1] = Base * Power[n] /\ Power[n + 1] = Power[n] * Base
           /\ \A m, n \in Nat : /\ Power[m + n] = Power[m] * Power[n]
                                /\ Power[m] <= Power[m + n]
<1>1. /\ Power[0] = 1 /\ \A n \in Nat : Power[n] \in Nat /\ Power[n + 1] = Base * Power[n]
  BY PowerStep
<1>2. ASSUME NEW n \in Nat PROVE Power[n] >= 1
  <2> DEFINE T == {k \in Nat : Power[k] >= 1}
  <2>1. 0 \in T  BY <1>1
  <2>2. ASSUME NEW k \in Nat, k \in T PROVE k + 1 \in T
    <3>1. Power[k] \in Nat /\ Power[k] >= 1 /\ Power[k + 1] = Base * Power[k]  BY <1>1, <2>2
    <3>2. Base * Power[k] >= Base * 1  BY <3>1, Times
    <3> QED  BY <3>1, <3>2
  <2> HIDE DEF T
  <2>3. Nat \subseteq T  BY <2>1, <2>2, SetInduction
  <2> QED  BY <2>3 DEF T
<1>3. ASSUME NEW m \in Nat PROVE \A n \in Nat : Power[m + n] = Power[m] * Power[n]
  <2> DEFINE T == {n \in Nat : Power[m + n] = Power[m] * Power[n]}
  <2>1. 0 \in T  BY <1>1
  <2>2. ASSUME NEW n \in Nat, n \in T PROVE n + 1 \in T
    <3>1. m + n \in Nat /\ m + (n + 1) = (m + n) + 1  OBVIOUS
    <3>2. Power[m + (n + 1)] = Base * Power[m + n]  BY <1>1, <3>1
    <3>3. Power[m + n] = Power[m] * Power[n]  BY <2>2
    <3>4. /\ Power[m] \in Int /\ Power[n] \in Int /\ Base \in Int
          /\ Power[n + 1] = Base * Power[n]
      BY <1>1
    <3>5. /\ Base * (Power[m] * Power[n]) = (Base * Power[m]) * Power[n]
          /\ Base * Power[m] = Power[m] * Base
          /\ (Power[m] * Base) * Power[n] = Power[m] * (Base * Power[n])
      BY <3>4, Times
    <3> QED  BY <3>2, <3>3, <3>4, <3>5
  <2> HIDE DEF T
  <2>3. Nat \subseteq T  BY <2>1, <2>2, SetInduction
  <2> QED  BY <2>3 DEF T
<1>4. ASSUME NEW m \in Nat, NEW n \in Nat PROVE Power[m] <= Power[m + n]
  <2>1. Power[m] \in Int /\ Power[m] >= 1 /\ Power[n] \in Int /\ Power[n] >= 1  BY <1>1, <1>2
  <2>2. Power[m] * 1 <= Power[m] * Power[n]  BY <2>1, Times
  <2>3. Power[m] * 1 = Power[m]  BY <2>1
  <2>4. Power[m + n] = Power[m] * Power[n]  BY <1>3
  <2> QED  BY <2>2, <2>3, <2>4
<1>5. Power[1] = Base
  <2>1. Power[0 + 1] = Base * Power[0]  BY <1>1
  <2> QED  BY <1>1, <2>1
<1>6. \A n \in Nat : Base * Power[n] = Power[n] * Base  BY <1>1, Times
<1>7. \A n \in Nat : /\ Power[n] \in Int /\ Power[n] >= 1
                     /\ Power[n + 1] = Base * Power[n] /\ Power[n + 1] = Power[n] * Base
  <2> SUFFICES ASSUME NEW n \in Nat
               PROVE  /\ Power[n] \in Int /\ Power[n] >= 1
                      /\ Power[n + 1] = Base * Power[n] /\ Power[n + 1] = Power[n] * Base
    OBVIOUS
  <2>1. Power[n] \in Int  BY <1>1
  <2>2. Power[n + 1] = Base * Power[n]  BY <1>1
  <2>3. Power[n + 1] = Power[n] * Base  BY <1>6, <2>2
  <2> QED  BY <1>2, <2>1, <2>2, <2>3
<1>8. \A m, n \in Nat : Power[m + n] = Power[m] * Power[n]  BY <1>3
<1>9. \A m, n \in Nat : Power[m] <= Power[m + n]  BY <1>4
<1> QED  BY <1>1, <1>5, <1>7, <1>8, <1>9, Zenon

LEMMA PowersOrder ==
    ASSUME Base \in Nat, Base >= 2, NEW m \in Nat, NEW n \in Nat
    PROVE  /\ m <= n => Power[m] <= Power[n]
           /\ Power[m] < Power[n] => m < n
<1>1. ASSUME NEW a \in Nat, NEW b \in Nat, a <= b PROVE Power[a] <= Power[b]
  <2>1. b - a \in Nat /\ a + (b - a) = b  BY <1>1
  <2>2. Power[a] <= Power[a + (b - a)]  BY <2>1, PowersGrow
  <2> QED  BY <2>1, <2>2
<1>2. Power[m] \in Int /\ Power[n] \in Int  BY PowersGrow
<1>3. n <= m => Power[n] <= Power[m]  BY <1>1
<1> QED  BY <1>1, <1>2, <1>3

(* How many values an int has, and a size_t.                               *)
Ints == Power[IntDigits]
Sizes == Power[SizeDigits]

LEMMA Widths ==
    /\ Half \in Int /\ Ints \in Int /\ Sizes \in Int
    /\ Ints = 2 * Half /\ Half >= 1 /\ Base <= Ints
    /\ IntDigits - 1 \in Nat /\ (IntDigits - 1) + 1 = IntDigits
    /\ Base \div 2 \in Int /\ Base = 2 * (Base \div 2)
    /\ Half = (Base \div 2) * Power[IntDigits - 1] /\ Power[IntDigits - 1] <= Half
    /\ Ints = Base * Power[IntDigits - 1]
    /\ 2 * Ints <= Sizes
    /\ Sizes = Ints * Power[SizeDigits - IntDigits] /\ SizeDigits - IntDigits \in Nat
<1>0. /\ Base \in Nat /\ Base >= 2 /\ Base % 2 = 0 /\ IntDigits \in Nat /\ IntDigits >= 1
      /\ SizeDigits \in Nat /\ SizeDigits >= IntDigits + 1
  BY CodecGivens
<1> DEFINE k == IntDigits - 1  h == Base \div 2
<1>1. k \in Nat /\ k + 1 = IntDigits  BY <1>0
<1>2. h \in Int /\ Base = 2 * h /\ h >= 1  BY <1>0
<1> HIDE DEF k, h
<1>3. Power[k] \in Int /\ Power[k] >= 1 /\ Ints = Base * Power[k] /\ Ints \in Int
  BY <1>0, <1>1, PowersGrow DEF Ints
<1>4. /\ h * Power[k] \in Int /\ (2 * h) * Power[k] = 2 * (h * Power[k])
      /\ Power[k] * 1 <= Power[k] * h /\ Power[k] * h = h * Power[k]
  BY <1>2, <1>3, Times
<1>5. Half = h * Power[k] /\ Ints = 2 * Half
  <2>1. Ints = 2 * (h * Power[k])  BY <1>2, <1>3, <1>4
  <2>2. Half = Ints \div 2  BY DEF Half, Ints, Power
  <2> QED  BY <1>4, <2>1, <2>2
<1>6. Base <= Ints
  <2>1. Power[1] <= Power[IntDigits]  BY <1>0, PowersOrder
  <2> QED  BY <1>0, <2>1, PowersGrow DEF Ints
<1>7. 2 * Ints <= Sizes /\ Sizes \in Int
  <2>0. IntDigits + 1 \in Nat /\ IntDigits + 1 <= SizeDigits  BY <1>0
  <2>1. Power[IntDigits + 1] <= Sizes /\ Sizes \in Int
    BY <1>0, <2>0, PowersOrder, PowersGrow DEF Sizes
  <2>2. Power[IntDigits + 1] = Ints * Base  BY <1>0, PowersGrow DEF Ints
  <2>3. Ints * 2 <= Ints * Base /\ Ints * 2 = 2 * Ints /\ Ints * Base \in Int
    <3>1. Ints >= 0  BY <1>3, <1>6, <1>0
    <3> QED  BY <3>1, <1>3, <1>0, Times
  <2> QED  BY <1>3, <2>1, <2>2, <2>3
<1>8. SizeDigits - IntDigits \in Nat /\ Sizes = Ints * Power[SizeDigits - IntDigits]
  <2>1. SizeDigits - IntDigits \in Nat /\ IntDigits + (SizeDigits - IntDigits) = SizeDigits
    BY <1>0
  <2>2. Power[IntDigits + (SizeDigits - IntDigits)]
           = Power[IntDigits] * Power[SizeDigits - IntDigits]
    BY <1>0, <2>1, PowersGrow
  <2> QED  BY <2>1, <2>2 DEF Sizes, Ints
<1> QED  BY <1>0, <1>1, <1>2, <1>3, <1>4, <1>5, <1>6, <1>7, <1>8 DEF k, h


LEMMA ToIntIs ==
    ASSUME NEW n \in Int
    PROVE  /\ ToInt(n) \in Int /\ -Half <= ToInt(n) /\ ToInt(n) < Half
           /\ n % Ints < Half => ToInt(n) = n % Ints
           /\ n % Ints >= Half => ToInt(n) = (n % Ints) - Ints
           /\ 0 <= n /\ n < Half => ToInt(n) = n
           /\ 0 <= n /\ n < Ints => n % Ints = n
<1>1. Half \in Int /\ Ints \in Int /\ Ints = 2 * Half /\ Half >= 1  BY Widths
<1>2. n % Ints \in Int /\ 0 <= n % Ints /\ n % Ints < Ints
  <2>1. Ints > 0  BY <1>1
  <2> QED  BY <1>1, <2>1, DivMod
<1>3. 0 <= n /\ n < Ints => n % Ints = n
  <2> SUFFICES ASSUME 0 <= n, n < Ints PROVE n % Ints = n  OBVIOUS
  <2>1. Ints > 0 /\ n = Ints * 0 + n  BY <1>1
  <2> QED  BY <1>1, <2>1, DivModIs
<1>4. ToInt(n) = IF n % Ints < Half THEN n % Ints ELSE (n % Ints) - Ints
  <2>1. ToInt(n) = IF n % (2 * Half) < Half THEN n % (2 * Half) ELSE (n % (2 * Half)) - 2 * Half
    BY DEF ToInt, Half
  <2> QED  BY <1>1, <2>1
<1> DEFINE r == n % Ints
<1> HIDE DEF r
<1>5. /\ r \in Int /\ 0 <= r /\ r < Ints /\ ToInt(n) = IF r < Half THEN r ELSE r - Ints
      /\ 0 <= n /\ n < Ints => r = n
  BY <1>2, <1>3, <1>4 DEF r
<1>6. /\ ToInt(n) \in Int /\ -Half <= ToInt(n) /\ ToInt(n) < Half
      /\ r < Half => ToInt(n) = r
      /\ r >= Half => ToInt(n) = r - Ints
      /\ 0 <= n /\ n < Half => ToInt(n) = n
      /\ 0 <= n /\ n < Ints => r = n
  BY <1>1, <1>5
<1> QED  BY <1>6 DEF r

LEMMA SizeTIs ==
    ASSUME NEW w \in Int
    PROVE  /\ SizeT(w) \in Int /\ 0 <= SizeT(w)
           /\ 0 <= w /\ w < Sizes => SizeT(w) = w
           /\ -Sizes <= w /\ w < 0 => SizeT(w) = Sizes + w
           /\ \A t \in Int : SizeT(SizeT(w) + t) = SizeT(w + t)
<1>1. Sizes \in Int /\ Sizes > 0 /\ \A n : SizeT(n) = n % Sizes
  <2>1. \A n : SizeT(n) = n % Sizes  BY DEF SizeT, Sizes, Power
  <2> QED  BY <2>1, Widths
<1> HIDE DEF Sizes
<1>2. SizeT(w) \in Int /\ 0 <= SizeT(w)  BY <1>1, DivMod
<1>3. 0 <= w /\ w < Sizes => SizeT(w) = w
  <2> SUFFICES ASSUME 0 <= w, w < Sizes PROVE SizeT(w) = w  OBVIOUS
  <2>1. w = Sizes * 0 + w  BY <1>1
  <2> QED  BY <1>1, <2>1, DivModIs
<1>4. -Sizes <= w /\ w < 0 => SizeT(w) = Sizes + w
  <2> SUFFICES ASSUME -Sizes <= w, w < 0 PROVE SizeT(w) = Sizes + w  OBVIOUS
  <2>1. w = Sizes * (-1) + (Sizes + w) /\ 0 <= Sizes + w /\ Sizes + w < Sizes /\ -1 \in Int
    BY <1>1
  <2> QED  BY <1>1, <2>1, DivModIs
<1>5. ASSUME NEW t \in Int PROVE SizeT(SizeT(w) + t) = SizeT(w + t)
  <2> DEFINE q == w \div Sizes  r == w % Sizes  p == (r + t) \div Sizes  s == (r + t) % Sizes
  <2>1. w = Sizes * q + r /\ q \in Int /\ r \in Int  BY <1>1, DivMod
  <2>2. r + t \in Int  BY <2>1
  <2>3. r + t = Sizes * p + s /\ p \in Int /\ s \in Int /\ 0 <= s /\ s < Sizes
    BY <1>1, <2>2, DivMod
  <2> HIDE DEF q, p, s
  <2>4. Sizes * (q + p) = Sizes * q + Sizes * p /\ Sizes * q \in Int /\ Sizes * p \in Int
    BY <1>1, <2>1, <2>3, Times
  <2>5. w + t = Sizes * (q + p) + s /\ q + p \in Int /\ w + t \in Int
    BY <2>1, <2>3, <2>4
  <2>6. (w + t) % Sizes = s  BY <1>1, <2>3, <2>5, DivModIs
  <2> QED  BY <1>1, <2>6 DEF s
<1> QED  BY <1>2, <1>3, <1>4, <1>5

(* What a digit d adds, shifted by k digits, as an int.                    *)
LEMMA TermIs ==
    ASSUME NEW d \in Int, 0 <= d, d < Base, NEW k \in Nat, k < IntDigits
    PROVE  /\ d * Power[k] \in Int /\ 0 <= d * Power[k]
           /\ d * Power[k] <= Power[k + 1] - Power[k]
           /\ Power[k] \in Int /\ Power[k] >= 1 /\ Power[k + 1] \in Int
           /\ Power[k] <= Half
           /\ k + 1 < IntDigits => ToInt(d * Power[k]) = d * Power[k]
           /\ k + 1 = IntDigits =>
                 \/ ToInt(d * Power[k]) = d * Power[k] /\ d * Power[k] <= Half - Power[k]
                 \/ ToInt(d * Power[k]) = d * Power[k] - Ints /\ d * Power[k] >= Half
<1>0. /\ Base \in Nat /\ Base >= 2 /\ IntDigits \in Nat /\ k + 1 \in Nat
      /\ Half \in Int /\ Ints \in Int /\ Ints = 2 * Half /\ Half >= 1
  BY CodecGivens, Widths
<1> DEFINE p == Power[k]  x == d * p
<1>1. p \in Int /\ p >= 1 /\ Power[k + 1] = Base * p /\ Power[k + 1] \in Int
  BY <1>0, PowersGrow
<1>2. p <= Half
  <2>1. IntDigits - 1 \in Nat /\ k <= IntDigits - 1  BY <1>0
  <2>2. p <= Power[IntDigits - 1]  BY <1>0, <2>1, PowersOrder
  <2>3. Power[IntDigits - 1] <= Half /\ Power[IntDigits - 1] \in Int
    BY <1>0, <2>1, Widths, PowersGrow
  <2> QED  BY <1>0, <1>1, <2>2, <2>3
<1> HIDE DEF p
<1>3. /\ x \in Int /\ 0 <= x /\ x = p * d /\ p * d <= p * (Base - 1)
      /\ p * (Base - 1) = p * Base - p * 1 /\ p * Base = Base * p /\ p * 1 = p
  BY <1>0, <1>1, Times
<1>4. x <= Power[k + 1] - p  BY <1>1, <1>3
<1> HIDE DEF x
<1>5. ASSUME k + 1 < IntDigits PROVE ToInt(x) = x
  <2>1. k + 1 \in Nat /\ k + 1 <= IntDigits - 1 /\ IntDigits - 1 \in Nat  BY <1>0, <1>5
  <2>2. Power[k + 1] <= Power[IntDigits - 1]  BY <1>0, <2>1, PowersOrder
  <2>3. Power[IntDigits - 1] <= Half /\ Power[IntDigits - 1] \in Int
    BY <1>0, <2>1, Widths, PowersGrow
  <2>4. x < Half  BY <1>0, <1>1, <1>3, <1>4, <2>2, <2>3
  <2> QED  BY <1>3, <2>4, ToIntIs
<1>6. ASSUME k + 1 = IntDigits
      PROVE  \/ ToInt(x) = x /\ x <= Half - p
             \/ ToInt(x) = x - Ints /\ x >= Half
  <2> DEFINE h == Base \div 2
  <2>1. IntDigits - 1 = k  BY <1>0, <1>6
  <2>2. h \in Int /\ Base = 2 * h /\ Half = h * p /\ Ints = Base * p
    BY <2>1, Widths DEF p
  <2> HIDE DEF h
  <2>3. x < Ints  BY <1>0, <1>1, <1>3, <1>4, <2>2
  <2>4. x % Ints = x  BY <1>3, <2>3, ToIntIs
  <2>5. CASE d < h
    <3>1. d <= h - 1 /\ h - 1 \in Int  BY <2>2, <2>5
    <3>2. /\ p * d <= p * (h - 1) /\ p * (h - 1) = p * h - p * 1 /\ p * h = h * p
          /\ p * 1 = p /\ p * h \in Int
      BY <1>1, <2>2, <3>1, Times
    <3>3. x <= Half - p  BY <1>3, <2>2, <3>2
    <3>4. x < Half  BY <1>0, <1>1, <1>3, <3>3
    <3> QED  BY <1>3, <2>4, <3>3, <3>4, ToIntIs
  <2>6. CASE d >= h
    <3>1. p * h <= p * d /\ p * h = h * p  BY <1>1, <2>2, <2>6, Times
    <3>2. x >= Half  BY <1>0, <1>3, <2>2, <3>1
    <3> QED  BY <1>3, <2>4, <3>2, ToIntIs
  <2> QED  BY <2>2, <2>5, <2>6
<1>7. /\ x \in Int /\ 0 <= x /\ x <= Power[k + 1] - p /\ p \in Int /\ p >= 1
      /\ Power[k + 1] \in Int /\ p <= Half
      /\ k + 1 < IntDigits => ToInt(x) = x
      /\ k + 1 = IntDigits => \/ ToInt(x) = x /\ x <= Half - p
                              \/ ToInt(x) = x - Ints /\ x >= Half
  BY <1>1, <1>2, <1>3, <1>4, <1>5, <1>6
<1> QED  BY <1>7 DEF x, p

(* The digits of a number, one by one.                                     *)
DigitOf(n, k) == (n \div Power[k]) % Base

LEMMA DigitIs ==
    ASSUME NEW n \in Nat, NEW k \in Nat
    PROVE  /\ DigitOf(n, k) \in Int /\ 0 <= DigitOf(n, k) /\ DigitOf(n, k) < Base
           /\ n \div Power[k] \in Int /\ 0 <= n \div Power[k]
           /\ n % Power[k] \in Int /\ 0 <= n % Power[k] /\ n % Power[k] < Power[k]
           /\ n = Power[k] * (n \div Power[k]) + (n % Power[k])
           /\ n \div Power[k + 1] = (n \div Power[k]) \div Base
           /\ n % Power[k + 1] = (n % Power[k]) + DigitOf(n, k) * Power[k]
<1>1. /\ Base \in Int /\ Base > 0 /\ Power[k] \in Int /\ Power[k] > 0
      /\ Power[k + 1] = Power[k] * Base
  <2>1. Base \in Nat /\ Base >= 2  BY CodecGivens
  <2>2. Power[k] \in Int /\ Power[k] >= 1 /\ Power[k + 1] = Power[k] * Base
    BY <2>1, PowersGrow
  <2> QED  BY <2>1, <2>2
<1>2. /\ n \div Power[k] \in Int /\ 0 <= n \div Power[k]
      /\ n % Power[k] \in Int /\ 0 <= n % Power[k] /\ n % Power[k] < Power[k]
      /\ n = Power[k] * (n \div Power[k]) + (n % Power[k])
  BY <1>1, DivMod
<1>3. DigitOf(n, k) \in Int /\ 0 <= DigitOf(n, k) /\ DigitOf(n, k) < Base
  BY <1>1, <1>2, DivMod DEF DigitOf
<1>4. /\ n \div (Power[k] * Base) = (n \div Power[k]) \div Base
      /\ n % (Power[k] * Base) = (n % Power[k]) + Power[k] * DigitOf(n, k)
  <2> DEFINE p == Power[k]
  <2>1. n \in Int /\ p \in Int /\ p > 0  BY <1>1
  <2> HIDE DEF p
  <2>2. /\ n \div (p * Base) = (n \div p) \div Base
        /\ n % (p * Base) = (n % p) + p * ((n \div p) % Base)
    BY <1>1, <2>1, DivDiv
  <2> QED  BY <2>2 DEF p, DigitOf
<1>5. Power[k] * DigitOf(n, k) = DigitOf(n, k) * Power[k]  BY <1>1, <1>3, Times
<1> QED  BY <1>1, <1>2, <1>3, <1>4, <1>5

LEMMA LowDigits ==
    ASSUME NEW n \in Nat, NEW k \in Nat, k < IntDigits
    PROVE  (n % Power[k]) + ToInt(DigitOf(n, k) * Power[k])
              = IF k + 1 < IntDigits THEN n % Power[k + 1] ELSE ToInt(n)
<1> DEFINE d == DigitOf(n, k)  x == d * Power[k]  r == n % Power[k]
<1>1. /\ d \in Int /\ 0 <= d /\ d < Base /\ r \in Int /\ 0 <= r /\ r < Power[k]
      /\ n % Power[k + 1] = r + x
  BY DigitIs
<1> HIDE DEF d, r
<1>2. /\ x \in Int /\ 0 <= x /\ Power[k] \in Int
      /\ k + 1 < IntDigits => ToInt(x) = x
      /\ k + 1 = IntDigits => \/ ToInt(x) = x /\ x <= Half - Power[k]
                              \/ ToInt(x) = x - Ints /\ x >= Half
  BY <1>1, TermIs
<1> HIDE DEF x
<1>3. CASE k + 1 < IntDigits  BY <1>1, <1>2, <1>3 DEF x, d, r
<1>4. CASE k + 1 = IntDigits
  <2>1. n % Ints = r + x  BY <1>1, <1>4 DEF Ints
  <2>2. Half \in Int /\ Ints \in Int  BY Widths
  <2>3. CASE ToInt(x) = x /\ x <= Half - Power[k]
    <3>1. r + x < Half  BY <1>1, <1>2, <2>2, <2>3
    <3>2. ToInt(n) = r + x  BY <2>1, <3>1, ToIntIs
    <3> QED  BY <1>4, <2>3, <3>2 DEF x, d, r
  <2>4. CASE ToInt(x) = x - Ints /\ x >= Half
    <3>1. r + x >= Half  BY <1>1, <1>2, <2>2, <2>4
    <3>2. ToInt(n) = (r + x) - Ints  BY <2>1, <3>1, ToIntIs
    <3>3. r + ToInt(x) = ToInt(n)  BY <1>1, <1>2, <2>2, <2>4, <3>2
    <3> QED  BY <1>4, <3>3 DEF x, d, r
  <2> QED  BY <1>2, <1>4, <2>3, <2>4
<1> QED
  <2>1. k + 1 < IntDigits \/ k + 1 = IntDigits  BY CodecGivens
  <2> QED  BY <1>3, <1>4, <2>1

(* What the digits beyond those of an int can add up to.                   *)
High(m) == IF m < IntDigits THEN 0 .. Power[m] - 1 ELSE -Half .. Half - 1

LEMMA HighDigits ==
    ASSUME NEW m \in Nat, m < IntDigits, NEW high \in High(m),
           NEW d \in Int, 0 <= d, d < Base,
           NEW term, term = 0 \/ term = ToInt(d * Power[m])
    PROVE  high + term \in High(m + 1)
<1> DEFINE x == d * Power[m]
<1>1. /\ x \in Int /\ 0 <= x /\ x <= Power[m + 1] - Power[m]
      /\ Power[m] \in Int /\ Power[m] >= 1 /\ Power[m + 1] \in Int /\ Power[m] <= Half
      /\ m + 1 < IntDigits => ToInt(x) = x
      /\ m + 1 = IntDigits => \/ ToInt(x) = x /\ x <= Half - Power[m]
                              \/ ToInt(x) = x - Ints /\ x >= Half
  BY TermIs
<1>2. term = 0 \/ term = ToInt(x)  OBVIOUS
<1> HIDE DEF x
<1>3. high \in Int /\ 0 <= high /\ high <= Power[m] - 1  BY <1>1 DEF High
<1>4. IntDigits \in Nat /\ Half \in Int /\ Ints \in Int /\ Ints = 2 * Half
  BY CodecGivens, Widths
<1>5. CASE m + 1 < IntDigits
  <2>1. high + term \in Int /\ 0 <= high + term /\ high + term <= Power[m + 1] - 1
    BY <1>1, <1>2, <1>3, <1>5
  <2> QED  BY <1>5, <2>1, <1>1 DEF High
<1>6. CASE m + 1 = IntDigits
  <2>0. m + 1 \in Nat /\ ~(m + 1 < IntDigits)  BY <1>4, <1>6
  <2>1. CASE term = 0
    <3>1. high + term \in Int /\ -Half <= high + term /\ high + term <= Half - 1
      BY <1>1, <1>3, <1>4, <2>1
    <3> QED  BY <2>0, <3>1, <1>4 DEF High
  <2>2. CASE term = x /\ x <= Half - Power[m]
    <3>1. high + term \in Int /\ -Half <= high + term /\ high + term <= Half - 1
      BY <1>1, <1>3, <1>4, <2>2
    <3> QED  BY <2>0, <3>1, <1>4 DEF High
  <2>3. CASE term = x - Ints /\ x >= Half
    <3>0. Power[m + 1] = Ints  BY <1>6 DEF Ints
    <3>1. high + term \in Int /\ -Half <= high + term /\ high + term <= Half - 1
      BY <1>1, <1>3, <1>4, <2>3, <3>0
    <3> QED  BY <2>0, <3>1, <1>4 DEF High
  <2> QED  BY <1>1, <1>2, <1>6, <2>1, <2>2, <2>3
<1> QED  BY <1>4, <1>5, <1>6
-----------------------------------------------------------------------------
(* The number whose digits are written: the one to send, unless the loop   *)
(* of numberToBuffer meets one that an int cannot hold.                    *)
Faithful == encoder = "cpp" \/ number < Half
Sent == IF Faithful THEN number
        ELSE IF ToInt(number) >= Base THEN ToInt(number) ELSE number % Base
Wrap(w) == IF decoder = "cpp" THEN SizeT(w) ELSE w

(* The bytes are the lowest digits of Sent, and rest is what remains.      *)
EncodeInv ==
    /\ \A i \in 1 .. Len(bytes) : bytes[i] = DigitOf(Sent, i - 1)
    /\ bytes # <<>> => Sent \div Power[Len(bytes) - 1] > 0 \/ (Len(bytes) = 1 /\ ~Faithful)
    /\ phase = "encode" =>
          /\ idx = 0 /\ value = 0 /\ (bytes = <<>> => rest = number)
          /\ bytes # <<>> \/ Faithful =>
                Sent \div Power[Len(bytes)] = IF rest < 0 THEN 0 ELSE rest
    /\ phase # "encode" => Sent < Power[Len(bytes)]

(* What was decoded so far: the low digits, which as many as an int has    *)
(* make a signed int, then whatever the digits beyond may add.             *)
DecodeInv ==
    /\ phase \notin {"encode", "decode"} => idx = Len(bytes)
    /\ number < Sizes - Half =>
          IF idx < IntDigits THEN value = Sent % Power[idx]
          ELSE \E high \in High(idx - IntDigits) : value = Wrap(ToInt(Sent) + high)

(* Where a number's use ended is what its test said.                       *)
UseInv ==
    /\ phase = "assertion" => decoder = "node" /\ value <= 0
    /\ phase = "accepted" => IF decoder = "cpp" THEN InWindow(number + delay)
                                                ELSE InTolerance(number + delay)
    /\ phase = "refused" => ~ IF decoder = "cpp" THEN InWindow(number + delay)
                                                 ELSE InTolerance(number + delay)

CodecInv == CodecTypeOK /\ EncodeInv /\ DecodeInv /\ UseInv

(* A number and the int it is cut to have the same lowest digit.           *)
LEMMA SameLowDigit ==
    ASSUME NEW n \in Nat
    PROVE  ToInt(n) % Base = n % Base
<1> DEFINE p == Power[IntDigits - 1]  q == n \div Ints  r == n % Ints
           s == r \div Base  t == r % Base
<1>0. /\ Base \in Int /\ Base > 0 /\ Ints \in Int /\ Ints > 0 /\ p \in Int /\ Ints = Base * p
  <2>1. Base \in Nat /\ Base >= 2 /\ IntDigits - 1 \in Nat  BY CodecGivens, Widths
  <2>2. p \in Int  BY <2>1, PowersGrow
  <2>3. Ints \in Int /\ Base <= Ints /\ Ints = Base * p  BY Widths
  <2> HIDE DEF p
  <2> QED  BY <2>1, <2>2, <2>3
<1>1. n = Ints * q + r /\ q \in Int /\ r \in Int /\ n \in Int  BY <1>0, DivMod
<1>2. ToInt(n) = r \/ ToInt(n) = r - Ints  BY Widths, ToIntIs, <1>0, <1>1
<1> HIDE DEF p, q, r
<1>3. r = Base * s + t /\ s \in Int /\ t \in Int /\ 0 <= t /\ t < Base  BY <1>0, <1>1, DivMod
<1> HIDE DEF s, t
<1>4. /\ p * q \in Int /\ Base * (p * q) = Ints * q
      /\ Base * (p * q + s) = Base * (p * q) + Base * s
      /\ Base * (s - p) = Base * s - Base * p /\ Base * s \in Int /\ Ints * q \in Int
  <2>1. p * q \in Int  BY <1>0, <1>1, Times
  <2> QED  BY <1>0, <1>1, <1>3, <2>1, Times
<1> DEFINE u == p * q + s
<1>5. n = Base * u + t /\ u \in Int  BY <1>1, <1>3, <1>4
<1> HIDE DEF u
<1>6. n % Base = t  BY <1>0, <1>1, <1>3, <1>5, DivModIs
<1>7. r % Base = t  BY <1>0, <1>1, <1>3, DivModIs
<1>8. (r - Ints) % Base = t
  <2>1. r - Ints = Base * (s - p) + t /\ s - p \in Int /\ r - Ints \in Int
    BY <1>0, <1>1, <1>3, <1>4
  <2> QED  BY <1>0, <1>3, <2>1, DivModIs
<1> QED  BY <1>2, <1>6, <1>7, <1>8

LEMMA SentIs ==
    ASSUME CodecTypeOK
    PROVE  /\ number \in Nat /\ Sent \in Nat
           /\ Faithful => Sent = number
           /\ ~Faithful => /\ encoder = "node" /\ number >= Half
                           /\ Sent < Ints /\ (Sent >= Base => Sent < Half)
                           /\ Sent % Base = number % Base
                           /\ Sent \div Base = IF ToInt(number) \div Base < 0 THEN 0
                                               ELSE ToInt(number) \div Base
<1>1. /\ number \in Nat /\ encoder \in {"cpp", "node"}
      /\ Base \in Nat /\ Base >= 2 /\ Half \in Int /\ Ints \in Int /\ Ints = 2 * Half /\ Half >= 1
      /\ Base <= Ints
  BY CodecGivens, Widths DEF CodecTypeOK, Libraries
<1>2. Faithful => Sent = number  BY DEF Sent
<1>3. ASSUME ~Faithful
      PROVE  /\ encoder = "node" /\ number >= Half /\ Sent \in Nat
             /\ Sent < Ints /\ (Sent >= Base => Sent < Half)
             /\ Sent % Base = number % Base
             /\ Sent \div Base = IF ToInt(number) \div Base < 0 THEN 0
                                 ELSE ToInt(number) \div Base
  <2>1. encoder = "node" /\ number >= Half  BY <1>1, <1>3 DEF Faithful
  <2> DEFINE t == ToInt(number)  b == number % Base
  <2>2. t \in Int /\ t < Half /\ t % Base = b  BY <1>1, ToIntIs, SameLowDigit
  <2>3. b \in Int /\ 0 <= b /\ b < Base  BY <1>1, DivMod
  <2>4. Sent = IF t >= Base THEN t ELSE b  BY <1>3 DEF Sent
  <2>5. t = Base * (t \div Base) + (t % Base) /\ t \div Base \in Int
    <3> HIDE DEF t
    <3> QED  BY <1>1, <2>2, DivMod
  <2> HIDE DEF t, b
  <2>6. b % Base = b /\ b \div Base = 0
    <3>1. b = Base * 0 + b  BY <1>1, <2>3
    <3> QED  BY <1>1, <2>3, <3>1, DivModIs
  <2>7. CASE t >= Base
    <3>1. t \div Base >= 0  BY <1>1, <2>2, <2>7, DivMod
    <3>2. Sent = t /\ t \in Nat /\ t < Ints  BY <1>1, <2>2, <2>4, <2>7
    <3>3. ~(t \div Base < 0)  BY <2>5, <3>1
    <3>4. Sent \div Base = IF t \div Base < 0 THEN 0 ELSE t \div Base  BY <3>2, <3>3
    <3>5. Sent % Base = b  BY <2>2, <3>2
    <3> QED  BY <2>1, <2>2, <3>2, <3>4, <3>5 DEF t, b
  <2>8. CASE t < Base
    <3>1. Sent = b /\ b \in Nat /\ b < Ints /\ ~(b >= Base)  BY <1>1, <2>2, <2>3, <2>4, <2>8
    <3>2. t \div Base <= 0
      <4> DEFINE q == t \div Base
      <4>1. t = Base * q + b /\ q \in Int  BY <2>2, <2>5
      <4> HIDE DEF q
      <4>2. SUFFICES ASSUME q >= 1 PROVE FALSE  BY <4>1 DEF q
      <4>3. Base * 1 <= Base * q /\ Base * 1 = Base /\ Base * q \in Int
        BY <1>1, <4>1, <4>2, Times
      <4> QED  BY <1>1, <2>2, <2>3, <2>8, <4>1, <4>3
    <3>3. Sent \div Base = 0 /\ Sent % Base = b  BY <2>6, <3>1
    <3>4. Sent \div Base = IF t \div Base < 0 THEN 0 ELSE t \div Base  BY <2>5, <3>2, <3>3
    <3> QED  BY <2>1, <3>1, <3>3, <3>4 DEF t, b
  <2> QED  BY <1>1, <2>2, <2>7, <2>8
<1> QED  BY <1>1, <1>2, <1>3

(* A number is written with no more digits than it has.                    *)
LEMMA Lengths ==
    ASSUME CodecTypeOK, EncodeInv
    PROVE  /\ Len(bytes) \in Nat
           /\ Sent < Ints => Len(bytes) <= IntDigits
           /\ number < Sizes => Len(bytes) <= SizeDigits
           /\ Len(bytes) > IntDigits => Faithful /\ Sent >= Ints
<1>0. /\ Base \in Nat /\ Base >= 2 /\ IntDigits \in Nat /\ IntDigits >= 1
      /\ SizeDigits \in Nat /\ SizeDigits > IntDigits
      /\ Len(bytes) \in Nat /\ bytes \in Seq(0 .. Base - 1)
  BY CodecGivens DEF CodecTypeOK
<1>4. Len(bytes) # 0 => bytes # <<>>  BY DEF CodecTypeOK
<1>1. /\ number \in Nat /\ Sent \in Nat /\ Ints \in Int /\ Sizes \in Int /\ 2 * Ints <= Sizes
      /\ Ints >= 0 /\ (Faithful => Sent = number) /\ (~Faithful => Sent < Ints)
  BY SentIs, Widths
<1>2. CASE Len(bytes) <= 1  BY <1>0, <1>1, <1>2
<1>3. CASE Len(bytes) > 1
  <2> DEFINE n == Len(bytes)  k == n - 1
  <2>a. n \in Nat /\ n > 1  BY <1>0, <1>3
  <2> HIDE DEF n
  <2>0. n # 0 /\ n # 1 /\ n - 1 \in Nat  BY <2>a
  <2>1. k \in Nat /\ bytes # <<>> /\ Len(bytes) # 1  BY <1>4, <2>0 DEF n
  <2> HIDE DEF k
  <2>2. Sent \div Power[k] > 0  BY <2>1 DEF EncodeInv, k, n
  <2> DEFINE q == Sent \div Power[k]  r == Sent % Power[k]  p == Power[k]
  <2>3. Sent = p * q + r /\ q \in Int /\ r \in Int /\ 0 <= r /\ p \in Int /\ p >= 1
    BY <1>0, <1>1, <2>1, DigitIs, PowersGrow
  <2>4. q >= 1  BY <2>2, <2>3
  <2> HIDE DEF q, r, p
  <2>5. p * 1 <= p * q /\ p * 1 = p /\ p * q \in Int  BY <2>3, <2>4, Times
  <2>6. p <= Sent  BY <1>1, <2>3, <2>5
  <2>7. /\ Power[k] < Power[IntDigits] => k < IntDigits
        /\ Power[k] < Power[SizeDigits] => k < SizeDigits
    BY <1>0, <2>1, PowersOrder
  <2>8. (p < Ints => k < IntDigits) /\ (p < Sizes => k < SizeDigits)
    BY <2>7 DEF p, Ints, Sizes
  <2>9. k = Len(bytes) - 1  BY DEF k, n
  <2>10. Sent < Ints => Len(bytes) <= IntDigits  BY <1>0, <1>1, <2>3, <2>6, <2>8, <2>9
  <2>11. number < Sizes => Len(bytes) <= SizeDigits
    BY <1>0, <1>1, <2>3, <2>6, <2>8, <2>9
  <2>12. Len(bytes) > IntDigits => Faithful /\ Sent >= Ints  BY <1>0, <1>1, <2>10
  <2> QED  BY <1>0, <2>10, <2>11, <2>12
<1> QED  BY <1>0, <1>2, <1>3

LEMMA CodecInvInit ==
    ASSUME CodecInit
    PROVE  CodecInv
<1>1. /\ number \in Numbers /\ number \in Nat /\ use \in {"length", "time"}
      /\ encoder \in {"cpp", "node"} /\ decoder \in {"cpp", "node"}
      /\ rest = number /\ bytes = <<>> /\ idx = 0 /\ value = 0
      /\ phase = "encode" /\ delay \in Delays
  BY CodecGivens DEF CodecInit, Libraries
<1>2. /\ Base \in Nat /\ Base >= 2 /\ Power[0] = 1 /\ IntDigits >= 1 /\ IntDigits \in Nat
  <2>1. Base \in Nat /\ Base >= 2  BY CodecGivens
  <2> QED  BY <2>1, CodecGivens, PowersGrow
<1>3. CodecTypeOK  BY <1>1 DEF CodecTypeOK, Libraries
<1>4. Sent \in Nat /\ (Faithful => Sent = number)  BY <1>3, SentIs
<1>5. Sent \div 1 = Sent /\ Sent % 1 = 0  BY <1>4
<1>6. EncodeInv
  <2>1. Len(bytes) = 0 /\ 1 .. Len(bytes) = {}  BY <1>1
  <2>2. rest = IF rest < 0 THEN 0 ELSE rest  BY <1>1
  <2> QED  BY <1>1, <1>2, <1>4, <1>5, <2>1, <2>2 DEF EncodeInv
<1>7. DecodeInv  BY <1>1, <1>2, <1>5 DEF DecodeInv
<1> QED  BY <1>1, <1>3, <1>6, <1>7 DEF CodecInv, UseInv

LEMMA EncodeKeeps ==
    ASSUME CodecInv, EncodeStep
    PROVE  CodecInv'
<1>0. CodecTypeOK /\ EncodeInv /\ DecodeInv  BY DEF CodecInv
<1>1. /\ phase = "encode" /\ rest > 0 /\ bytes' = Append(bytes, rest % Base)
      /\ rest' = IF encoder = "cpp" THEN rest \div Base ELSE ToInt(rest) \div Base
      /\ UNCHANGED <<number, use, encoder, decoder, idx, value, phase, delay>>
  BY DEF EncodeStep, Digit, ShiftSize, ShiftNumber, ToInt
<1>2. Sent' = Sent /\ (Faithful' <=> Faithful)
  BY <1>1 DEF Sent, Faithful, ToInt, Half
<1>3. /\ Base \in Nat /\ Base >= 2 /\ rest \in Int /\ number \in Nat /\ Sent \in Nat
      /\ bytes \in Seq(0 .. Base - 1) /\ idx = 0 /\ value = 0
      /\ IntDigits \in Nat /\ IntDigits >= 1
  BY <1>0, <1>1, SentIs, CodecGivens DEF CodecTypeOK, EncodeInv
<1>4. rest % Base \in 0 .. Base - 1 /\ rest' \in Int
  <2>1. rest % Base \in Int /\ 0 <= rest % Base /\ rest % Base < Base /\ rest \div Base \in Int
    BY <1>3, DivMod
  <2>2. ToInt(rest) \in Int  BY <1>3, ToIntIs
  <2>3. ToInt(rest) \div Base \in Int  BY <1>3, <2>2, DivMod
  <2> QED  BY <1>1, <1>3, <2>1, <2>3
<1> DEFINE k == Len(bytes)
<1>5. /\ bytes' \in Seq(0 .. Base - 1) /\ Len(bytes') = k + 1 /\ k \in Nat
      /\ bytes'[k + 1] = rest % Base /\ bytes' # <<>> /\ (k = 0 <=> bytes = <<>>)
      /\ \A i \in 1 .. k : bytes'[i] = bytes[i]
  BY <1>1, <1>3, <1>4
<1> HIDE DEF k
<1>6. /\ rest % Base = DigitOf(Sent, k)
      /\ Sent \div Power[k + 1] = IF rest' < 0 THEN 0 ELSE rest'
      /\ Sent \div Power[k] > 0 \/ (k = 0 /\ ~Faithful)
  <2>1. CASE bytes # <<>> \/ Faithful
    <3>1. Sent \div Power[k] = rest  BY <1>0, <1>1, <1>3, <2>1 DEF EncodeInv, k
    <3>2. rest % Base = DigitOf(Sent, k)  BY <3>1 DEF DigitOf
    <3>3. Sent \div Power[k + 1] = rest \div Base  BY <1>3, <1>5, <3>1, DigitIs
    <3>4. rest \div Base \in Int /\ rest \div Base >= 0  BY <1>1, <1>3, DivMod
    <3>5. ASSUME encoder # "cpp" PROVE ToInt(rest) = rest
      <4> DEFINE p == Power[k]  r == Sent % Power[k]
      <4>1. Sent = p * rest + r /\ r \in Int /\ 0 <= r /\ p \in Int /\ p >= 1
        BY <1>3, <1>5, <3>1, DigitIs, PowersGrow
      <4>2. bytes # <<>> => p >= Base
        <5> SUFFICES ASSUME bytes # <<>> PROVE p >= Base  OBVIOUS
        <5>1. k \in Nat /\ 1 \in Nat /\ 1 <= k  BY <1>5
        <5>2. Power[1] <= Power[k]  BY <1>3, <5>1, PowersOrder
        <5> QED  BY <1>3, <5>2, PowersGrow
      <4> HIDE DEF p, r
      <4>3. /\ rest * 1 <= rest * p /\ rest * p = p * rest /\ rest * 1 = rest
            /\ p * rest \in Int /\ p * 1 <= p * rest /\ p * 1 = p
        BY <1>1, <1>3, <4>1, Times
      <4>4. rest <= Sent /\ p <= Sent  BY <1>3, <4>1, <4>3
      <4>5. Sent < Half
        <5>1. CASE Faithful
          <6>1. number < Half /\ Sent = number  BY <1>0, <3>5, <5>1, SentIs DEF Faithful
          <6> QED  BY <6>1
        <5>2. CASE ~Faithful
          <6>1. Sent >= Base  BY <1>3, <2>1, <4>1, <4>2, <4>4, <5>2
          <6> QED  BY <1>0, <5>2, <6>1, SentIs
        <5> QED  BY <5>1, <5>2
      <4>6. rest < Half /\ 0 <= rest  BY <1>1, <1>3, <4>4, <4>5, Widths
      <4> QED  BY <1>3, <4>6, ToIntIs
    <3>6. rest' = rest \div Base  BY <1>1, <3>5
    <3> QED  BY <1>1, <3>1, <3>2, <3>3, <3>4, <3>6
  <2>2. CASE bytes = <<>> /\ ~Faithful
    <3>1. k = 0 /\ rest = number /\ encoder = "node"
      BY <1>0, <1>1, <1>5, <2>2, SentIs DEF EncodeInv
    <3>2. Power[0] = 1 /\ Power[0 + 1] = Base  BY <1>3, PowersGrow
    <3>3. Sent \div 1 = Sent  BY <1>3
    <3>4. /\ Sent % Base = number % Base
          /\ Sent \div Base = IF ToInt(number) \div Base < 0 THEN 0 ELSE ToInt(number) \div Base
      BY <1>0, <2>2, SentIs
    <3> QED  BY <1>1, <2>2, <3>1, <3>2, <3>3, <3>4 DEF DigitOf
  <2> QED  BY <2>1, <2>2
<1>7. EncodeInv'
  <2>1. ASSUME NEW i \in 1 .. k + 1 PROVE bytes'[i] = DigitOf(Sent, i - 1)
    <3>1. CASE i = k + 1
      <4>1. i - 1 = k  BY <1>5, <3>1
      <4> QED  BY <1>5, <1>6, <3>1, <4>1
    <3>2. CASE i # k + 1
      <4>1. i \in 1 .. k  BY <1>5, <3>2
      <4>2. bytes[i] = DigitOf(Sent, i - 1)  BY <1>0, <4>1 DEF EncodeInv, k
      <4> QED  BY <1>5, <4>1, <4>2
    <3> QED  BY <3>1, <3>2
  <2>2. DigitOf(Sent, 0)' = DigitOf(Sent, 0) /\ \A i : DigitOf(Sent, i)' = DigitOf(Sent, i)
    BY <1>2 DEF DigitOf, Power
  <2>3. (k + 1) - 1 = k /\ (k = 0 => k + 1 = 1)  BY <1>5
  <2>4. Sent \div Power[k] > 0 \/ (k + 1 = 1 /\ ~Faithful)  BY <1>6, <2>3
  <2>5. \A i \in 1 .. Len(bytes') : bytes'[i] = DigitOf(Sent', i - 1)
    BY <1>2, <1>5, <2>1
  <2>6. Sent' \div Power[Len(bytes') - 1] > 0 \/ (Len(bytes') = 1 /\ ~Faithful')
    BY <1>2, <1>5, <2>3, <2>4
  <2>7. Sent' \div Power[Len(bytes')] = IF rest' < 0 THEN 0 ELSE rest'
    BY <1>2, <1>5, <1>6
  <2> QED  BY <1>1, <1>3, <1>5, <2>5, <2>6, <2>7 DEF EncodeInv
<1>8. CodecTypeOK'
  <2>1. Len(bytes') = k + 1 /\ k \in Nat /\ idx' = 0 /\ idx' \in 0 .. Len(bytes')
    BY <1>1, <1>3, <1>5
  <2> QED  BY <1>0, <1>1, <1>4, <1>5, <2>1 DEF CodecTypeOK, Libraries
<1>9. DecodeInv'
  <2>1. number < Sizes - Half => value = Sent % Power[idx]  BY <1>0, <1>3 DEF DecodeInv
  <2>2. idx' < IntDigits  BY <1>1, <1>3
  <2>3. number' < Sizes - Half => value' = Sent' % Power[idx']  BY <1>1, <1>2, <2>1
  <2> QED  BY <1>1, <2>2, <2>3 DEF DecodeInv
<1> QED  BY <1>1, <1>7, <1>8, <1>9 DEF CodecInv, UseInv

(* The steps that write no digit and read none.                            *)
LEMMA SameDigits ==
    ASSUME CodecInv,
           UNCHANGED <<number, use, encoder, decoder, bytes, idx, value, delay>>,
           phase # "encode" => phase' # "encode",
           phase = "encode" /\ phase' # "encode" => rest <= 0,
           phase' = "encode" => rest' = rest,
           rest' \in Int,
           phase' \in {"encode", "decode", "use", "accepted", "refused", "read", "assertion"},
           phase' \in {"encode", "decode"} \/ idx = Len(bytes)
    PROVE  CodecTypeOK' /\ EncodeInv' /\ DecodeInv'
<1>0. CodecTypeOK /\ EncodeInv /\ DecodeInv  BY DEF CodecInv
<1>1. Sent' = Sent /\ (Faithful' <=> Faithful) /\ \A w : Wrap(w)' = Wrap(w)
  BY DEF Sent, Faithful, ToInt, Half, Wrap, SizeT
<1>2. CodecTypeOK'  BY <1>0 DEF CodecTypeOK, Libraries
<1>3. ASSUME phase = "encode", phase' # "encode" PROVE Sent < Power[Len(bytes)]
  <2>1. Base \in Nat /\ Base >= 2 /\ Len(bytes) \in Nat /\ rest \in Int /\ rest <= 0
    BY <1>0, <1>3, CodecGivens, Lengths DEF CodecTypeOK
  <2>2. Sent \in Nat /\ number \in Nat /\ Half >= 1 /\ Half \in Int /\ (~Faithful => number >= Half)
    BY <1>0, SentIs, Widths
  <2>3. bytes # <<>> \/ Faithful
    <3>1. bytes = <<>> => number <= 0  BY <1>0, <1>3, <2>1 DEF EncodeInv
    <3> QED  BY <2>2, <3>1
  <2>4. Sent \div Power[Len(bytes)] = 0  BY <1>0, <1>3, <2>1, <2>3 DEF EncodeInv
  <2> DEFINE p == Power[Len(bytes)]  r == Sent % Power[Len(bytes)]
  <2>5. Sent = p * 0 + r /\ r < p /\ p \in Int /\ r \in Int
    BY <2>1, <2>2, <2>4, DigitIs, PowersGrow
  <2> HIDE DEF p, r
  <2>6. Sent < p  BY <2>2, <2>5
  <2> QED  BY <2>6 DEF p
<1>4. EncodeInv'
  <2>1. \A i : DigitOf(Sent, i)' = DigitOf(Sent, i)
    BY <1>1 DEF DigitOf, Power
  <2>2. \A i \in 1 .. Len(bytes') : bytes'[i] = DigitOf(Sent', i - 1)
    BY <1>0, <1>1 DEF EncodeInv
  <2>3. bytes' # <<>> => Sent' \div Power[Len(bytes') - 1] > 0 \/ (Len(bytes') = 1 /\ ~Faithful')
    BY <1>0, <1>1 DEF EncodeInv
  <2>4. phase' = "encode" => /\ idx' = 0 /\ value' = 0 /\ (bytes' = <<>> => rest' = number')
                             /\ bytes' # <<>> \/ Faithful' =>
                                   Sent' \div Power[Len(bytes')] = IF rest' < 0 THEN 0 ELSE rest'
    BY <1>0, <1>1 DEF EncodeInv
  <2>5. phase' # "encode" => Sent' < Power[Len(bytes')]
    BY <1>0, <1>1, <1>3 DEF EncodeInv
  <2> QED  BY <2>2, <2>3, <2>4, <2>5 DEF EncodeInv
<1>5. DecodeInv'
  <2>1. phase' \notin {"encode", "decode"} => idx' = Len(bytes')  OBVIOUS
  <2>2. number' < Sizes - Half =>
          IF idx' < IntDigits THEN value' = Sent' % Power[idx']
          ELSE \E high \in High(idx' - IntDigits) : value' = Wrap(ToInt(Sent) + high)'
    BY <1>0, <1>1 DEF DecodeInv
  <2>3. ToInt(Sent)' = ToInt(Sent)  BY <1>1 DEF ToInt
  <2>4. \A h : Wrap(ToInt(Sent) + h)' = Wrap(ToInt(Sent) + h)
    BY <1>1 DEF Wrap, ToInt, SizeT
  <2> QED  BY <1>0, <1>1, <2>1, <2>2, <2>3, <2>4 DEF DecodeInv, Wrap
<1> QED  BY <1>2, <1>4, <1>5

LEMMA DecodeKeeps ==
    ASSUME CodecInv, DecodeStep
    PROVE  CodecInv'
<1>0. CodecTypeOK /\ EncodeInv /\ DecodeInv  BY DEF CodecInv
<1>1. /\ phase = "decode" /\ idx < Len(bytes) /\ idx' = idx + 1
      /\ UNCHANGED <<number, use, encoder, decoder, rest, bytes, phase, delay>>
  BY DEF DecodeStep
<1>2. Sent' = Sent /\ (Faithful' <=> Faithful)
  BY <1>1 DEF Sent, Faithful, ToInt, Half
<1>3. /\ Base \in Nat /\ Base >= 2 /\ IntDigits \in Nat /\ IntDigits >= 1
      /\ SizeDigits \in Nat /\ SizeDigits <= 2 * IntDigits
      /\ idx \in Nat /\ Len(bytes) \in Nat /\ idx + 1 \in 1 .. Len(bytes)
      /\ value \in Int /\ number \in Nat /\ Sent \in Nat /\ decoder \in {"cpp", "node"}
      /\ Half \in Int /\ Half >= 1 /\ Sizes \in Int
  <2>1. Base \in Nat /\ Base >= 2 /\ IntDigits \in Nat /\ IntDigits >= 1
        /\ SizeDigits \in Nat /\ SizeDigits <= 2 * IntDigits
    BY CodecGivens
  <2>2. Half \in Int /\ Half >= 1 /\ Sizes \in Int  BY Widths
  <2>3. number \in Nat /\ Sent \in Nat  BY <1>0, SentIs
  <2>4. /\ Len(bytes) \in Nat /\ idx \in 0 .. Len(bytes) /\ value \in Int
        /\ decoder \in {"cpp", "node"}
    BY <1>0 DEF CodecTypeOK, Libraries
  <2>5. idx \in Nat /\ idx + 1 \in 1 .. Len(bytes)  BY <1>1, <2>4
  <2> QED  BY <2>1, <2>2, <2>3, <2>4, <2>5
<1> DEFINE d == DigitOf(Sent, idx)
           k == idx % IntDigits
           x == ToInt(d * Power[k])
<1>4. bytes[idx + 1] = d
  <2>1. (idx + 1) - 1 = idx  BY <1>3
  <2>2. bytes[idx + 1] = DigitOf(Sent, (idx + 1) - 1)  BY <1>0, <1>3 DEF EncodeInv
  <2> QED  BY <2>1, <2>2
<1>5. d \in Int /\ 0 <= d /\ d < Base /\ k \in Nat /\ k < IntDigits
  <2>1. IntDigits > 0 /\ idx \in Int  BY <1>3
  <2>2. k \in Int /\ 0 <= k /\ k < IntDigits  BY <1>3, <2>1, DivMod
  <2>3. d \in Int /\ 0 <= d /\ d < Base  BY <1>3, DigitIs
  <2> HIDE DEF k, d
  <2> QED  BY <2>2, <2>3
<1>6. idx < IntDigits => k = idx
  <2> SUFFICES ASSUME idx < IntDigits PROVE k = idx  OBVIOUS
  <2>1. idx = IntDigits * 0 + idx  BY <1>3
  <2> QED  BY <1>3, <2>1, DivModIs
<1>7. x \in Int
  <2>1. d * Power[k] \in Int
    <3> HIDE DEF d, k
    <3> QED  BY <1>3, <1>5, TermIs
  <2> QED  BY <2>1, ToIntIs
<1>8. \E term \in Int : /\ term = x \/ (term = 0 /\ idx >= IntDigits)
                        /\ value' = Wrap(value + term)
  <2>1. CASE decoder = "node"
    <3>1. value' = value + x
      BY <1>4, <2>1 DEF DecodeStep, ShiftLeftNode, ToInt, Power
    <3> QED  BY <1>7, <2>1, <3>1 DEF Wrap
  <2>2. CASE decoder = "cpp"
    <3>1. \E term \in ShiftsLeftCpp(bytes[idx + 1]) : value' = SizeT(value + term)
      BY <2>2 DEF DecodeStep, SizeT
    <3>2. \A term \in ShiftsLeftCpp(bytes[idx + 1]) :
             term = x \/ (term = 0 /\ idx >= IntDigits)
      <4>1. ShiftLeftNode(bytes[idx + 1]) = x
        BY <1>4 DEF ShiftLeftNode, ToInt, Power
      <4>2. idx < IntDigits => ToInt(bytes[idx + 1] * Power[idx]) = x
        BY <1>4, <1>6 DEF ToInt, Power
      <4> HIDE DEF x, d, k
      <4>3. ShiftsLeftCpp(bytes[idx + 1]) \subseteq IF idx < IntDigits THEN {x} ELSE {0, x}
        BY <4>1, <4>2 DEF ShiftsLeftCpp
      <4> QED  BY <1>3, <4>3
    <3> HIDE DEF x, d, k
    <3> QED  BY <1>7, <2>2, <3>1, <3>2 DEF Wrap
  <2> QED  BY <1>3, <2>1, <2>2
<1> HIDE DEF x, d, k
<1>9. PICK term \in Int : /\ term = x \/ (term = 0 /\ idx >= IntDigits)
                          /\ value' = Wrap(value + term)
  BY <1>8
<1>10. value' \in Int
  <2>1. value + term \in Int  BY <1>3
  <2> QED  BY <1>9, <2>1, SizeTIs DEF Wrap
<1>11. CodecTypeOK'
  <2>1. idx' \in 0 .. Len(bytes)  BY <1>1, <1>3
  <2> QED  BY <1>0, <1>1, <1>10, <2>1 DEF CodecTypeOK, Libraries
<1>12. EncodeInv'
  <2>1. \A i \in 1 .. Len(bytes') : bytes'[i] = DigitOf(Sent', i - 1)
    BY <1>0, <1>1, <1>2 DEF EncodeInv
  <2>2. bytes' # <<>> => Sent' \div Power[Len(bytes') - 1] > 0 \/ (Len(bytes') = 1 /\ ~Faithful')
    BY <1>0, <1>1, <1>2 DEF EncodeInv
  <2>3. Sent' < Power[Len(bytes')]  BY <1>0, <1>1, <1>2 DEF EncodeInv
  <2> QED  BY <1>1, <2>1, <2>2, <2>3 DEF EncodeInv
<1>13. ASSUME number < Sizes - Half
       PROVE  IF idx + 1 < IntDigits THEN value' = Sent % Power[idx + 1]
              ELSE \E high \in High((idx + 1) - IntDigits) : value' = Wrap(ToInt(Sent) + high)
  <2>1. CASE idx < IntDigits
    <3>1. k = idx /\ value = Sent % Power[idx] /\ term = x
      BY <1>0, <1>3, <1>6, <1>9, <1>13, <2>1 DEF DecodeInv
    <3>2. value + term = IF idx + 1 < IntDigits THEN Sent % Power[idx + 1] ELSE ToInt(Sent)
      BY <1>3, <2>1, <3>1, LowDigits DEF x, d
    <3>3. CASE idx + 1 < IntDigits
      <4>1. idx + 1 \in Nat /\ SizeDigits \in Nat /\ idx + 1 <= SizeDigits
        BY <1>3, <3>3, CodecGivens
      <4>2. Power[idx + 1] <= Sizes  BY <1>3, <4>1, PowersOrder DEF Sizes
      <4>3. Power[idx + 1] \in Int  BY <1>3, <4>1, PowersGrow
      <4> DEFINE r == Sent % Power[idx + 1]
      <4>4. r \in Int /\ 0 <= r /\ r < Power[idx + 1]  BY <1>3, <4>1, DigitIs
      <4> HIDE DEF r
      <4>5. r < Sizes  BY <1>3, <4>2, <4>3, <4>4
      <4>6. Wrap(r) = r  BY <4>4, <4>5, SizeTIs DEF Wrap
      <4>7. value + term = r  BY <3>2, <3>3 DEF r
      <4>8. value' = r  BY <1>9, <4>6, <4>7
      <4> QED  BY <3>3, <4>8 DEF r
    <3>4. CASE ~(idx + 1 < IntDigits)
      <4>1. (idx + 1) - IntDigits = 0  BY <1>3, <2>1, <3>4
      <4>2. 0 \in High(0)
        <5>1. Power[0] = 1  BY <1>3, PowersGrow
        <5> QED  BY <1>3, <5>1 DEF High
      <4>3. ToInt(Sent) + 0 = ToInt(Sent)  BY <1>3, ToIntIs
      <4>4. value + term = ToInt(Sent)  BY <3>2, <3>4
      <4>5. value' = Wrap(ToInt(Sent) + 0)  BY <1>9, <4>3, <4>4
      <4> QED  BY <3>4, <4>1, <4>2, <4>5
    <3> QED  BY <3>3, <3>4
  <2>2. CASE idx >= IntDigits
    <3> DEFINE m == idx - IntDigits
    <3>1. PICK high \in High(m) : value = Wrap(ToInt(Sent) + high)
      BY <1>0, <1>3, <1>13, <2>2 DEF DecodeInv
    <3>2. Len(bytes) <= SizeDigits
      <4>1. number < Sizes  BY <1>3, <1>13
      <4> QED  BY <1>0, <4>1, Lengths
    <3>3. m \in Nat /\ m < IntDigits /\ idx = IntDigits * 1 + m  BY <1>1, <1>3, <2>2, <3>2
    <3>4. m = k
      <4> HIDE DEF m
      <4>1. idx \in Int /\ IntDigits \in Int /\ IntDigits > 0 /\ m \in Int /\ 0 <= m
        BY <1>3, <3>3
      <4>2. idx % IntDigits = m  BY <3>3, <4>1, DivModIs
      <4> QED  BY <4>2 DEF k
    <3>5. m + 1 = (idx + 1) - IntDigits /\ ~(idx + 1 < IntDigits)  BY <1>3, <2>2
    <3> HIDE DEF m
    <3>6. term = 0 \/ term = ToInt(d * Power[m])  BY <1>9, <3>4 DEF x
    <3>7. high + term \in High(m + 1)  BY <1>5, <3>3, <3>6, HighDigits
    <3>8. high \in Int /\ ToInt(Sent) \in Int
      <4>1. Power[m] \in Int  BY <1>3, <3>3, PowersGrow
      <4> QED  BY <1>3, <4>1, ToIntIs DEF High
    <3>9. value' = Wrap(ToInt(Sent) + (high + term))
      <4> DEFINE w == ToInt(Sent) + high
      <4>1. w \in Int /\ w + term = ToInt(Sent) + (high + term)  BY <3>8
      <4> HIDE DEF w
      <4>2. value = Wrap(w)  BY <3>1 DEF w
      <4>3. Wrap(Wrap(w) + term) = Wrap(w + term)  BY <4>1, SizeTIs DEF Wrap
      <4> QED  BY <1>9, <4>1, <4>2, <4>3
    <3> QED  BY <3>5, <3>7, <3>9
  <2> QED  BY <1>3, <2>1, <2>2
<1>14. DecodeInv'
  <2>1. phase' = "decode" /\ number' = number /\ decoder' = decoder  BY <1>1
  <2>2. \A w : Wrap(w)' = Wrap(w)  BY <1>1 DEF Wrap, SizeT
  <2>3. number' < Sizes - Half =>
          IF idx' < IntDigits THEN value' = Sent' % Power[idx']
          ELSE \E high \in High(idx' - IntDigits) :
                  value' = IF decoder' = "cpp" THEN SizeT(ToInt(Sent') + high)
                           ELSE ToInt(Sent') + high
    BY <1>1, <1>2, <1>13 DEF Wrap
  <2> QED  BY <2>1, <2>3 DEF DecodeInv, Wrap
<1> QED  BY <1>1, <1>11, <1>12, <1>14 DEF CodecInv, UseInv

LEMMA CodecInvNext ==
    ASSUME CodecInv, [CodecNext]_codecState
    PROVE  CodecInv'
<1>0. CodecTypeOK /\ EncodeInv /\ DecodeInv /\ UseInv  BY DEF CodecInv
<1>1. CASE EncodeStep  BY <1>1, EncodeKeeps
<1>2. CASE DecodeStep  BY <1>2, DecodeKeeps
<1>3. rest \in Int /\ (phase \notin {"encode", "decode"} => idx = Len(bytes))
  BY <1>0 DEF CodecTypeOK, DecodeInv
<1>4. CASE EncodeDone \/ DecodeDone
  <2>1. /\ UNCHANGED <<number, use, encoder, decoder, rest, bytes, idx, value, delay>>
        /\ \/ phase = "encode" /\ phase' = "decode" /\ rest <= 0
           \/ phase = "decode" /\ phase' = "use" /\ idx = Len(bytes)
    BY <1>4 DEF EncodeDone, DecodeDone
  <2>2. CodecTypeOK' /\ EncodeInv' /\ DecodeInv'  BY <1>3, <2>1, SameDigits
  <2> QED  BY <2>1, <2>2 DEF CodecInv, UseInv
<1>5. CASE Read
  <2>1. /\ UNCHANGED <<number, use, encoder, decoder, rest, bytes, idx, value, delay>>
        /\ phase = "use" /\ phase' \in {"read", "assertion"}
        /\ phase' = "assertion" => decoder # "cpp" /\ ~(value > 0)
    BY <1>5 DEF Read, Readable
  <2>2. CodecTypeOK' /\ EncodeInv' /\ DecodeInv'  BY <1>3, <2>1, SameDigits
  <2>3. phase' = "assertion" => decoder' = "node" /\ value' <= 0
    BY <1>0, <2>1 DEF CodecTypeOK, Libraries
  <2> QED  BY <2>1, <2>2, <2>3 DEF CodecInv, UseInv
<1>6. CASE CheckTime
  <2> DEFINE C == IF decoder = "cpp" THEN InWindow(number + delay)
                                     ELSE InTolerance(number + delay)
  <2>1. /\ UNCHANGED <<number, use, encoder, decoder, rest, bytes, idx, value, delay>>
        /\ phase = "use" /\ phase' = IF C THEN "accepted" ELSE "refused"
    BY <1>6 DEF CheckTime
  <2>2. CodecTypeOK' /\ EncodeInv' /\ DecodeInv'  BY <1>3, <2>1, SameDigits
  <2>3. C' <=> C  BY <2>1 DEF InWindow, InTolerance, SizeT
  <2> HIDE DEF C
  <2>4. (phase' = "accepted" => C') /\ (phase' = "refused" => ~C') /\ phase' # "assertion"
    BY <2>1, <2>3
  <2> QED  BY <2>2, <2>4 DEF CodecInv, UseInv, C
<1>7. CASE UNCHANGED codecState
  <2>1. UNCHANGED <<number, use, encoder, decoder, rest, bytes, idx, value, phase, delay>>
    BY <1>7 DEF codecState
  <2>2. phase \in {"encode", "decode", "use", "accepted", "refused", "read", "assertion"}
    BY <1>0 DEF CodecTypeOK
  <2>3. CodecTypeOK' /\ EncodeInv' /\ DecodeInv'  BY <1>3, <2>1, <2>2, SameDigits
  <2>4. UseInv'
    BY <1>0, <2>1 DEF UseInv, InWindow, InTolerance, SizeT
  <2> QED  BY <2>3, <2>4 DEF CodecInv
<1> QED  BY <1>1, <1>2, <1>4, <1>5, <1>6, <1>7 DEF CodecNext

(* What has been decoded.                                                  *)
LEMMA IntArrives ==
    ASSUME CodecInv, phase \notin {"encode", "decode"}, number < Half
    PROVE  value = number
<1>0. CodecTypeOK /\ EncodeInv /\ DecodeInv  BY DEF CodecInv
<1>1. /\ number \in Nat /\ Sent = number /\ Half \in Int /\ Ints = 2 * Half /\ 2 * Ints <= Sizes
      /\ Sizes \in Int /\ Half >= 1 /\ Ints \in Int
  BY <1>0, SentIs, Widths DEF Faithful
<1>2. number < Sizes - Half /\ Sent < Ints /\ number < Sizes  BY <1>1
<1>3. Len(bytes) \in Nat /\ Len(bytes) <= IntDigits /\ idx = Len(bytes) /\ Sent < Power[idx]
  BY <1>0, <1>2, Lengths DEF DecodeInv, EncodeInv
<1>4. Base \in Nat /\ Base >= 2 /\ IntDigits \in Nat  BY CodecGivens
<1>5. CASE idx < IntDigits
  <2>1. value = Sent % Power[idx]  BY <1>0, <1>2, <1>5 DEF DecodeInv
  <2>2. Power[idx] \in Int /\ Power[idx] >= 1  BY <1>3, <1>4, PowersGrow
  <2>3. Sent = Power[idx] * 0 + Sent  BY <1>1, <2>2
  <2>4. Sent % Power[idx] = Sent  BY <1>1, <1>3, <2>2, <2>3, DivModIs
  <2> QED  BY <1>1, <2>1, <2>4
<1>6. CASE idx = IntDigits
  <2>1. PICK high \in High(0) : value = Wrap(ToInt(Sent) + high)
    <3>1. idx - IntDigits = 0 /\ ~(idx < IntDigits)  BY <1>3, <1>4, <1>6
    <3> QED  BY <1>0, <1>2, <3>1 DEF DecodeInv
  <2>2. high = 0
    <3>1. 0 < IntDigits /\ Power[0] = 1  BY <1>4, CodecGivens, PowersGrow
    <3> QED  BY <3>1 DEF High
  <2>3. ToInt(Sent) + high = Sent  BY <1>1, <2>2, ToIntIs
  <2>4. Wrap(Sent) = Sent  BY <1>1, <1>2, SizeTIs DEF Wrap
  <2> QED  BY <1>1, <2>1, <2>3, <2>4
<1> QED  BY <1>3, <1>4, <1>5, <1>6

LEMMA OthersDoNot ==
    ASSUME CodecInv, phase \notin {"encode", "decode"},
           number >= Half, number < Sizes - Half
    PROVE  value # number
<1>0. CodecTypeOK /\ EncodeInv /\ DecodeInv  BY DEF CodecInv
<1>1. /\ number \in Nat /\ Sent \in Nat /\ Half \in Int /\ Ints = 2 * Half /\ 2 * Ints <= Sizes
      /\ Sizes \in Int /\ Half >= 1 /\ Ints \in Int /\ number < Sizes
  <2>1. /\ Half \in Int /\ Ints = 2 * Half /\ 2 * Ints <= Sizes /\ Sizes \in Int /\ Half >= 1
        /\ Ints \in Int
    BY Widths
  <2>2. number \in Nat /\ Sent \in Nat  BY <1>0, SentIs
  <2> QED  BY <2>1, <2>2
<1>2. /\ Len(bytes) \in Nat /\ Len(bytes) <= SizeDigits /\ idx = Len(bytes)
      /\ Sent < Power[idx]
      /\ Len(bytes) > IntDigits => Faithful /\ Sent >= Ints
  BY <1>0, <1>1, Lengths DEF DecodeInv, EncodeInv
<1>3. /\ Base \in Nat /\ Base >= 2 /\ IntDigits \in Nat /\ IntDigits >= 1 /\ SizeDigits \in Nat
      /\ SizeDigits <= 2 * IntDigits
  BY CodecGivens
<1>4. CASE idx < IntDigits
  <2>1. value = Sent % Power[idx]  BY <1>0, <1>4 DEF DecodeInv
  <2>2. Power[idx] \in Int /\ Power[idx] >= 1  BY <1>2, <1>3, PowersGrow
  <2>3. Sent = Power[idx] * 0 + Sent  BY <1>1, <2>2
  <2>4. Sent % Power[idx] = Sent  BY <1>1, <1>2, <2>2, <2>3, DivModIs
  <2>5. idx <= IntDigits - 1 /\ IntDigits - 1 \in Nat /\ idx \in Nat  BY <1>2, <1>3, <1>4
  <2>6. Power[idx] <= Power[IntDigits - 1] /\ Power[IntDigits - 1] \in Int
    BY <1>3, <2>5, PowersOrder, PowersGrow
  <2>7. Power[IntDigits - 1] <= Half  BY Widths
  <2> QED  BY <1>1, <1>2, <2>1, <2>2, <2>4, <2>6, <2>7
<1>5. CASE idx >= IntDigits
  <2> DEFINE t == ToInt(Sent)  m == idx - IntDigits
  <2>1. PICK high \in High(m) : value = Wrap(t + high)
    <3>1. ~(idx < IntDigits)  BY <1>2, <1>3, <1>5
    <3> QED  BY <1>0, <3>1 DEF DecodeInv
  <2>2. m \in Nat /\ m <= IntDigits  BY <1>2, <1>3, <1>5
  <2>3. t \in Int /\ -Half <= t /\ t < Half  BY <1>1, ToIntIs
  <2>4. high \in Int /\ -Half <= high /\ high < Half /\ (m = 0 => high = 0)
    <3> HIDE DEF m
    <3>1. CASE m < IntDigits
      <4>1. Power[m] \in Int /\ Power[m] <= Power[IntDigits - 1] /\ Power[IntDigits - 1] \in Int
        <5>1. IntDigits - 1 \in Nat /\ m <= IntDigits - 1  BY <1>3, <2>2, <3>1
        <5> QED  BY <1>3, <2>2, <5>1, PowersOrder, PowersGrow
      <4>2. Power[IntDigits - 1] <= Half  BY Widths
      <4>3. high \in Int /\ 0 <= high /\ high <= Power[m] - 1  BY <3>1, <4>1 DEF High
      <4>4. m = 0 => Power[m] = 1  BY <1>3, PowersGrow
      <4> QED  BY <1>1, <4>1, <4>2, <4>3, <4>4
    <3>2. CASE m = IntDigits
      <4>1. high \in -Half .. Half - 1 /\ m # 0  BY <1>3, <2>2, <3>2 DEF High
      <4> QED  BY <1>1, <4>1
    <3> QED  BY <1>3, <2>2, <3>1, <3>2
  <2> DEFINE w == t + high
  <2>5. w \in Int /\ -Ints <= w /\ w < Ints  BY <1>1, <2>3, <2>4
  <2>6. value = w \/ (value = Sizes + w /\ w < 0 /\ decoder = "cpp")
    <3> HIDE DEF t
    <3>1. value = Wrap(w)  BY <2>1
    <3> HIDE DEF w
    <3>2. (0 <= w => SizeT(w) = w) /\ (w < 0 => SizeT(w) = Sizes + w)
      BY <1>1, <2>5, SizeTIs
    <3> QED  BY <2>5, <3>1, <3>2 DEF Wrap
  <2>7. w # number
    <3>1. CASE idx = IntDigits
      <4>1. w < Half
        <5>1. m = 0  BY <1>2, <1>3, <3>1
        <5> QED  BY <2>3, <2>4, <5>1
      <4> QED  BY <1>1, <2>5, <4>1
    <3>2. CASE idx # IntDigits
      <4>1. Sent >= Ints /\ Sent = number
        <5>1. Len(bytes) > IntDigits  BY <1>2, <1>3, <1>5, <3>2
        <5> QED  BY <1>0, <1>2, <5>1, SentIs
      <4> QED  BY <1>1, <2>5, <4>1
    <3> QED  BY <3>1, <3>2
  <2>8. Sizes + w # number
    <3> SUFFICES ASSUME Sizes + w = number PROVE FALSE  OBVIOUS
    <3>1. w < -Half  BY <1>1, <2>5
    <3>2. high # 0  BY <1>1, <2>3, <3>1
    <3>3. idx # IntDigits
      <4>1. m # 0  BY <2>4, <3>2
      <4> QED  BY <1>2, <1>3, <4>1
    <3>4. Sent = number
      <4>1. Len(bytes) > IntDigits  BY <1>2, <1>3, <1>5, <3>3
      <4> QED  BY <1>0, <1>2, <4>1, SentIs
    <3> DEFINE e == SizeDigits - IntDigits
    <3>5. /\ Power[e] \in Int /\ Sizes = Ints * Power[e] /\ Ints > 0
      <4>1. e \in Nat /\ Sizes = Ints * Power[e]  BY Widths
      <4>2. Power[e] \in Int  BY <1>3, <4>1, PowersGrow
      <4> QED  BY <1>1, <4>1, <4>2
    <3> HIDE DEF e
    <3>6. number = Ints * (Power[e] - 1) + (Ints + w)
      <4>1. Ints * (Power[e] - 1) = Ints * Power[e] - Ints * 1 /\ Ints * 1 = Ints
        BY <1>1, <3>5, Times
      <4> QED  BY <1>1, <2>5, <3>5, <4>1
    <3> DEFINE r == Ints + w  q == Power[e] - 1
    <3>7. r \in Int /\ 0 <= r /\ r < Half /\ q \in Int  BY <1>1, <2>5, <3>1, <3>5
    <3>8. number % Ints = r
      <4>1. number \in Int /\ number = Ints * q + r /\ r < Ints  BY <1>1, <3>6, <3>7
      <4> HIDE DEF q, r
      <4> QED  BY <1>1, <3>5, <3>7, <4>1, DivModIs
    <3>9. t = r
      <4> HIDE DEF r, t
      <4>1. ToInt(number) = r  BY <1>1, <3>7, <3>8, ToIntIs
      <4> QED  BY <3>4, <4>1 DEF t
    <3>10. high = -Ints  BY <1>1, <2>3, <2>4, <3>9
    <3> QED  BY <1>1, <2>4, <3>10
  <2> QED  BY <2>6, <2>7, <2>8
<1> QED  BY <1>2, <1>3, <1>4, <1>5

LEMMA NoLeadingZero ==
    ASSUME CodecInv, phase # "encode", number < Half, bytes # <<>>
    PROVE  bytes[Len(bytes)] # 0
<1>0. CodecTypeOK /\ EncodeInv  BY DEF CodecInv
<1> DEFINE n == Len(bytes)  k == n - 1
<1>1. n \in Nat /\ n # 0  BY <1>0 DEF CodecTypeOK
<1>2. Faithful /\ Sent \in Nat  BY <1>0, SentIs DEF Faithful
<1>3. Sent \div Power[k] > 0 /\ Sent < Power[n]  BY <1>0, <1>2 DEF EncodeInv
<1> HIDE DEF n
<1>4. k \in Nat /\ k + 1 = n /\ n \in 1 .. n  BY <1>1
<1>5. bytes[n] = DigitOf(Sent, k)  BY <1>0, <1>4 DEF EncodeInv, n
<1> HIDE DEF k
<1> DEFINE q == Sent \div Power[k]
<1>6. Base \in Nat /\ Base >= 2  BY CodecGivens
<1>7. q \in Int /\ q > 0 /\ Sent \div Power[k + 1] = q \div Base  BY <1>2, <1>3, <1>4, DigitIs
<1>8. Sent \div Power[k + 1] = 0
  <2>1. Power[k + 1] \in Int /\ Power[k + 1] >= 1
    <3>1. k + 1 \in Nat  BY <1>4
    <3> QED  BY <1>6, <3>1, PowersGrow
  <2>2. Sent = Power[k + 1] * 0 + Sent /\ Sent < Power[k + 1]  BY <1>2, <1>3, <1>4, <2>1
  <2> QED  BY <1>2, <2>1, <2>2, DivModIs
<1>9. DigitOf(Sent, k) = q % Base  BY DEF DigitOf
<1> HIDE DEF q
<1>10. q = Base * (q \div Base) + (q % Base)  BY <1>6, <1>7, DivMod
<1>11. q \div Base = 0  BY <1>7, <1>8
<1>12. q % Base # 0  BY <1>6, <1>7, <1>10, <1>11
<1> QED  BY <1>5, <1>9, <1>12 DEF n

(* OnlyIntsArrive: between any two ends, a number arrives exactly if an int*)
(* can hold it, whatever the C++ shift by too many bits yields; it is      *)
(* written without leading zeros, and BufferReader asserts on 0 only.      *)
THEOREM OnlyIntsArriveAlways == CodecSpec => []OnlyIntsArrive
<1>1. CodecInit => CodecInv  BY CodecInvInit
<1>2. CodecInv /\ [CodecNext]_codecState => CodecInv'  BY CodecInvNext
<1>3. CodecInv => OnlyIntsArrive
  <2> SUFFICES ASSUME CodecInv, Decoded
               PROVE  /\ number < SizeT(-Half) => (value = number <=> number < Half)
                      /\ number < Half /\ bytes # <<>> => bytes[Len(bytes)] # 0
                      /\ number < Half /\ phase = "assertion" => number = 0 /\ decoder = "node"
    BY DEF OnlyIntsArrive, Half
  <2>1. phase \notin {"encode", "decode"} /\ phase # "encode"  BY DEF Decoded
  <2>2. number \in Nat /\ Half \in Int /\ Half >= 1 /\ Sizes \in Int /\ Sizes >= Half
    BY SentIs, Widths DEF CodecInv
  <2>3. SizeT(-Half) = Sizes - Half
    <3>1. -Half \in Int /\ -Sizes <= -Half /\ -Half < 0 /\ Sizes + (-Half) = Sizes - Half  BY <2>2
    <3>2. SizeT(-Half) = Sizes + (-Half)  BY <3>1, SizeTIs
    <3> QED  BY <3>1, <3>2 DEF SizeT
  <2>4. number < Half => value = number  BY <2>1, IntArrives
  <2>5. number < Sizes - Half /\ ~(number < Half) => value # number
    BY <2>1, <2>2, OthersDoNot
  <2>6. number < Half /\ phase = "assertion" => number = 0 /\ decoder = "node"
    BY <2>2, <2>4 DEF CodecInv, UseInv
  <2> QED  BY <2>1, <2>3, <2>4, <2>5, <2>6, NoLeadingZero
<1> QED  BY <1>1, <1>2, <1>3, PTL DEF CodecSpec

(* NumberCodec keeps its types: the loops write bytes only.                *)
THEOREM CodecTypeCorrect == CodecSpec => []CodecTypeOK
<1>1. CodecInit => CodecInv  BY CodecInvInit
<1>2. CodecInv /\ [CodecNext]_codecState => CodecInv'  BY CodecInvNext
<1>3. CodecInv => CodecTypeOK  BY DEF CodecInv
<1> QED  BY <1>1, <1>2, <1>3, PTL DEF CodecSpec

(* WindowRespected: while an int can hold the time it was sent, a message  *)
(* is accepted only inside the window of either library and refused only   *)
(* outside, or at its edge.                                                *)
THEOREM WindowRespectedAlways == CodecSpec => []WindowRespected
<1>1. CodecInit => CodecInv  BY CodecInvInit
<1>2. CodecInv /\ [CodecNext]_codecState => CodecInv'  BY CodecInvNext
<1>3. CodecInv => WindowRespected
  <2> SUFFICES ASSUME CodecInv, number < Half, number + delay \in Past .. Sizes - Future - 1
               PROVE  /\ phase = "accepted" => -Future <= delay /\ delay <= Past
                      /\ phase = "refused" => delay <= -Future \/ delay >= Past
    BY DEF WindowRespected, Half, Sizes, Power
  <2>1. /\ number \in Nat /\ delay \in Int /\ Past \in Nat /\ Future \in Nat /\ Sizes \in Int
    BY SentIs, Widths, CodecGivens DEF CodecInv, CodecTypeOK
  <2> DEFINE c == number + delay
  <2>2. c \in Int /\ Past <= c /\ c + Future < Sizes  BY <2>1
  <2>3. SizeT(c - Past) = c - Past
    <3>1. c - Past \in Int /\ 0 <= c - Past /\ c - Past < Sizes  BY <2>1, <2>2
    <3> QED  BY <3>1, SizeTIs
  <2>4. SizeT(c + Future) = c + Future
    <3>1. c + Future \in Int /\ 0 <= c + Future /\ c + Future < Sizes  BY <2>1, <2>2
    <3> QED  BY <3>1, SizeTIs
  <2>5. phase \in {"accepted", "refused"} => value = number  BY IntArrives
  <2>6. phase \in {"accepted", "refused"} =>
          /\ InWindow(c) <=> c - Past < number /\ c + Future > number
          /\ InTolerance(c) <=> ~(number + Past < c \/ number - Future > c)
    BY <2>3, <2>4, <2>5 DEF InWindow, InTolerance, SizeT
  <2>7. /\ phase = "accepted" => InWindow(c) \/ InTolerance(c)
        /\ phase = "refused" => ~InWindow(c) \/ ~InTolerance(c)
    BY DEF CodecInv, UseInv
  <2> QED  BY <2>1, <2>6, <2>7
<1> QED  BY <1>1, <1>2, <1>3, PTL DEF CodecSpec
=============================================================================
