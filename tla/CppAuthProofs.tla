---------------------------- MODULE CppAuthProofs ----------------------------
(***************************************************************************)
(* Proofs about CppAuth, for any number of threads, requests, users, keys  *)
(* and connections.                                                        *)
(*                                                                         *)
(* Inv follows the handshake: what a call of authenticate holds            *)
(* (ThreadInv), that its end leaves no other call in progress unless calls *)
(* overlapped (OverlapInv), that answers and what the server checks were   *)
(* signed by some call (AnswerInv), what the server knows at each point of *)
(* auth (ServerInv), and what a ready client may rely on (ReadyInv).       *)
(***************************************************************************)
EXTENDS CppAuth, TLAPS

ThreadInv ==
    \A t \in Threads :
        /\ Within(t) => key[t] \in Keys /\ sign_key \in Keys
        /\ pc[t] \in {"idle", "checked"} => sig[t] = NoSignature
        /\ pc[t] \in {"signed", "sent"} => sig[t] \in Signatures
        /\ sig[t] # NoSignature => sig[t].challenge = given

OverlapInv ==
    \A t \in Threads : Within(t) => \/ overlapped
                                    \/ ~gone /\ \A u \in Threads : Within(u) => u = t

ConnInv == /\ given # 0 => challenge[given] = "handled"
           /\ \A n \in Conns : n > conn => auth[n] = "none"

Signed(answer) == answer \in Signatures /\ \E t \in Threads : sig[t] = answer

AnswerInv ==
    \A n \in Conns :
        /\ \A answer \in answers[n] : answer = Error \/ Signed(answer)
        /\ checked[n] # NoSignature => Signed(checked[n]) /\ checked[n].challenge = n
        /\ auth[n] \in {"checking", "verified", "named"} => checked[n] # NoSignature

ServerInv ==
    \A n \in Conns :
        /\ auth[n] \in {"none", "open", "checking"} => ~authenticated[n]
        /\ auth[n] = "verified" => authenticated[n] /\ uid[n] = NoUser
        /\ auth[n] = "named" => uid[n] # NoUser
        /\ authenticated[n] => checked[n] # NoSignature /\ Verified(n)
        /\ uid[n] # NoUser => authenticated[n] /\ uid[n] = UserOf(n)
        /\ announce[n] # "none" => uid[n] # NoUser

ReadyInv == /\ ready # 0 => uid[ready] # NoUser
            /\ \A c \in Calls : handled[c] = "sent" => sentOn[c] \in Conns
            /\ \A c \in Held : handled[c] = "no" \/ (ready # 0 /\ sentOn[c] >= ready)

Inv == /\ TypeOK /\ ThreadInv /\ OverlapInv /\ ConnInv /\ AnswerInv /\ ServerInv
       /\ ReadyInv /\ HeldServedAsUser /\ CrashExplained
-----------------------------------------------------------------------------
LEMMA ConnsType == Conns \subseteq Nat /\ 0 \notin Conns
BY MaxOpensAssumption DEF Conns

LEMMA InitInv == Init => Inv
<1> SUFFICES ASSUME Init PROVE Inv
  OBVIOUS
<1>1. TypeOK
  <2>1. conn \in 0 .. MaxOpens /\ given \in 0 .. conn /\ ready \in 0 .. conn
    BY MaxOpensAssumption DEF Init
  <2>2. sentOn \in [Calls -> 0 .. conn]
    BY DEF Init
  <2> QED BY <2>1, <2>2 DEF Init, TypeOK
<1>2. ThreadInv /\ OverlapInv /\ ConnInv /\ AnswerInv
  BY DEF Init, ThreadInv, OverlapInv, Within, ConnInv, AnswerInv
<1>3. ServerInv /\ ReadyInv /\ HeldServedAsUser /\ CrashExplained
  BY CallsAssumption DEF Init, ServerInv, ReadyInv, HeldServedAsUser, CrashExplained
<1> QED BY <1>1, <1>2, <1>3 DEF Inv
-----------------------------------------------------------------------------
LEMMA ReplyType ==
    ASSUME TypeOK, NEW answer \in Signatures \cup {Error}, Reply(answer)
    PROVE  answers' \in [Conns -> SUBSET (Signatures \cup {Error})]
<1>1. CASE up
  <2>1. \A n \in Conns : answers'[n] \in SUBSET (Signatures \cup {Error})
    BY <1>1 DEF TypeOK, Reply
  <2> QED BY <1>1, <2>1 DEF TypeOK, Reply
<1>2. CASE ~up
  BY <1>2 DEF TypeOK, Reply
<1> QED BY <1>1, <1>2

LEMMA SignatureType ==
    ASSUME TypeOK, ThreadInv, NEW t \in Threads, Sign(t)
    PROVE  [challenge |-> given, key |-> key[t], by |-> sign_key] \in Signatures
<1>1. key[t] \in Keys /\ sign_key \in Keys
  BY DEF ThreadInv, Within, Sign
<1>2. given \in Conns
  BY MaxOpensAssumption DEF TypeOK, Sign, Conns
<1> QED BY <1>1, <1>2 DEF Signatures

LEMMA TypeStep == TypeOK /\ ThreadInv /\ AnswerInv /\ ReadyInv /\ [Next]_vars => TypeOK'
<1> SUFFICES ASSUME TypeOK, ThreadInv, AnswerInv, ReadyInv, [Next]_vars PROVE TypeOK'
  OBVIOUS
<1> USE MaxOpensAssumption DEF TypeOK
<1>0. ASSUME Open PROVE TypeOK'
  <2>1. conn' \in 0 .. MaxOpens /\ \A n \in 0 .. conn : n \in 0 .. conn'
    BY <1>0 DEF Open
  <2>2. given' \in 0 .. conn' /\ ready' \in 0 .. conn' /\ sentOn' \in [Calls -> 0 .. conn']
    BY <1>0, <2>1 DEF Open, clientVars, callVars
  <2>3. /\ challenge' \in [Conns -> {"none", "sent", "handled"}]
        /\ auth' \in [Conns -> {"none", "open", "checking", "verified", "named", "ended"}]
    BY <1>0 DEF Open
  <2> QED BY <1>0, <2>1, <2>2, <2>3 DEF Open, clientVars, threadVars, callVars
<1>1. ASSUME Break PROVE TypeOK'
  BY <1>1 DEF Break, clientVars, threadVars, serverVars, callVars, netVars
<1>2. ASSUME handle_auth PROVE TypeOK'
  <2>1. answers' \in [Conns -> SUBSET (Signatures \cup {Error})]
    BY <1>2, ReplyType DEF handle_auth, Give
  <2>2. given' = given \/ given' = conn
    BY <1>2 DEF handle_auth, Give
  <2>4. given' \in 0 .. conn
    BY <2>2
  <2>5. UNCHANGED gone /\ (crashed' = TRUE \/ UNCHANGED crashed)
    BY <1>2 DEF handle_auth, Give
  <2>3. challenge' \in [Conns -> {"none", "sent", "handled"}]
    BY <1>2 DEF handle_auth
  <2> QED BY <1>2, <2>1, <2>3, <2>4, <2>5 DEF handle_auth, threadVars, serverVars, callVars
<1>3. ASSUME HandleReady PROVE TypeOK'
  <2>1. ready' \in 0 .. conn
    BY <1>3 DEF HandleReady
  <2>2. announce' \in [Conns -> {"none", "sent", "handled"}]
    BY <1>3 DEF HandleReady
  <2> QED BY <1>3, <2>1, <2>2 DEF HandleReady, threadVars, serverVars, callVars
<1>4. ASSUME NEW t \in Threads, NEW k \in Keys, authenticate(t, k) PROVE TypeOK'
  BY <1>4 DEF authenticate, SetKeys, clientVars, serverVars, callVars, netVars
<1>5. ASSUME NEW t \in Threads, Sign(t) PROVE TypeOK'
  <2>1. [challenge |-> given, key |-> key[t], by |-> sign_key] \in Signatures
    BY <1>5, SignatureType
  <2>2. sig' \in [Threads -> Signatures \cup {NoSignature}]
    BY <1>5, <2>1 DEF Sign
  <2>3. pc' \in [Threads -> {"idle", "checked", "signed", "sent", "done"}]
    BY <1>5 DEF Sign
  <2> QED BY <1>5, <2>2, <2>3 DEF Sign, clientVars, serverVars, callVars, netVars
<1>6. ASSUME NEW t \in Threads, UseAfterReset(t) \/ Reset(t) PROVE TypeOK'
  BY <1>6 DEF UseAfterReset, Reset, threadVars, serverVars, callVars, netVars
<1>7. ASSUME NEW t \in Threads, SendAnswer(t) PROVE TypeOK'
  <2>1. answers' \in [Conns -> SUBSET (Signatures \cup {Error})]
    BY <1>7, ReplyType DEF SendAnswer, ThreadInv
  <2> QED BY <1>7, <2>1 DEF SendAnswer, clientVars, serverVars, callVars
<1>8. ASSUME NEW n \in Conns, TakeAnswer(n) PROVE TypeOK'
  BY <1>8 DEF TakeAnswer, clientVars, threadVars, callVars
<1>9. ASSUME NEW n \in Conns, Verify(n) PROVE TypeOK'
  BY <1>9 DEF Verify, clientVars, threadVars, callVars, netVars
<1>10. ASSUME NEW n \in Conns, SetUid(n) PROVE TypeOK'
  <2>1. checked[n] \in Signatures
    BY <1>10 DEF SetUid, AnswerInv, Signed
  <2>2. UserOf(n) \in Users
    BY <2>1, KeysAssumption DEF UserOf, Signatures
  <2> QED BY <1>10, <2>2 DEF SetUid, clientVars, threadVars, callVars, netVars
<1>11. ASSUME NEW n \in Conns, Announce(n) PROVE TypeOK'
  BY <1>11 DEF Announce, clientVars, threadVars, callVars
<1>12. ASSUME NEW c \in Calls, Request(c) PROVE TypeOK'
  BY <1>12 DEF Request, clientVars, threadVars, serverVars, netVars
<1>13. ASSUME NEW c \in Calls, Serve(c) PROVE TypeOK'
  <2>1. uid[sentOn[c]] \in Users \cup {NoUser}
    BY <1>13 DEF Serve, ReadyInv
  <2> QED BY <1>13, <2>1 DEF Serve, clientVars, threadVars, serverVars, netVars
<1>14. CASE UNCHANGED vars
  BY <1>14 DEF vars, clientVars, threadVars, serverVars, callVars, netVars
<1> QED BY <1>0, <1>1, <1>2, <1>3, <1>4, <1>5, <1>6, <1>7, <1>8, <1>9, <1>10, <1>11, <1>12, <1>13, <1>14
        DEF Next, Handle, Thread, Server
-----------------------------------------------------------------------------
(* auth_data is given one challenge, and no thread changes its signature.  *)
LEMMA ThreadStep == TypeOK /\ ThreadInv /\ [Next]_vars => ThreadInv'
<1> SUFFICES ASSUME TypeOK, ThreadInv, [Next]_vars PROVE ThreadInv'
  OBVIOUS
<1> USE DEF TypeOK, ThreadInv, Within
<1>1. CASE UNCHANGED <<given, threadVars>>
  BY <1>1 DEF threadVars
<1>2. ASSUME handle_auth PROVE ThreadInv'
  <2>1. \A t \in Threads : sig[t] # NoSignature => given # 0
    <3>1. ASSUME NEW t \in Threads, sig[t] # NoSignature PROVE given # 0
      BY <3>1, ConnsType DEF Signatures
    <3> QED BY <3>1
  <2> QED BY <1>2, <2>1 DEF handle_auth, Give, threadVars
<1>3. ASSUME NEW t \in Threads, NEW k \in Keys, authenticate(t, k) PROVE ThreadInv'
  BY <1>3 DEF authenticate, SetKeys, clientVars
<1>4. ASSUME NEW t \in Threads, Sign(t) PROVE ThreadInv'
  <2>1. [challenge |-> given, key |-> key[t], by |-> sign_key] \in Signatures
    BY <1>4, SignatureType
  <2>2. \A u \in Threads : u # t => pc'[u] = pc[u] /\ sig'[u] = sig[u]
    BY <1>4 DEF Sign
  <2> QED BY <1>4, <2>1, <2>2 DEF Sign, clientVars
<1>5. ASSUME NEW t \in Threads, SendAnswer(t) \/ Reset(t) PROVE ThreadInv'
  BY <1>5 DEF SendAnswer, Reset, clientVars
<1> QED BY <1>1, <1>2, <1>3, <1>4, <1>5
        DEF Next, Handle, Thread, Server, Open, Break, HandleReady, UseAfterReset, TakeAnswer, Verify,
            SetUid, Announce, Request, Serve, vars, clientVars

LEMMA OverlapStep == TypeOK /\ OverlapInv /\ [Next]_vars => OverlapInv'
<1> SUFFICES ASSUME TypeOK, OverlapInv, [Next]_vars PROVE OverlapInv'
  OBVIOUS
<1> USE DEF TypeOK, OverlapInv, Within
<1>1. CASE UNCHANGED <<gone, threadVars>>
  BY <1>1 DEF threadVars
<1>2. ASSUME NEW t \in Threads, NEW k \in Keys, authenticate(t, k) PROVE OverlapInv'
  <2>1. UNCHANGED gone /\ ~Within(t)
    BY <1>2 DEF authenticate, clientVars
  <2>2. CASE pc' = [pc EXCEPT ![t] = "done"] /\ UNCHANGED overlapped
    <3>1. \A u \in Threads : Within(u)' => Within(u)
      BY <2>2
    <3> QED BY <2>1, <2>2, <3>1
  <2>3. CASE /\ ~gone /\ pc' = [pc EXCEPT ![t] = "checked"]
             /\ overlapped' = (overlapped \/ \E u \in Threads : Within(u))
    <3>1. \A u \in Threads : Within(u)' => u = t \/ Within(u)
      BY <2>3
    <3>2. CASE \E u \in Threads : Within(u)
      <4> HIDE DEF Within
      <4>1. overlapped'
        BY <2>3, <3>2
      <4> QED BY <4>1
    <3>3. CASE ~\E u \in Threads : Within(u)
      <4>1. ~gone' /\ \A u \in Threads : Within(u)' => u = t
        BY <2>1, <2>3, <3>1, <3>3
      <4> HIDE DEF Within
      <4> QED BY <4>1
    <3> QED BY <3>2, <3>3
  <2> QED BY <1>2, <2>2, <2>3 DEF authenticate, MayAuthenticate
<1>3. ASSUME NEW t \in Threads, Sign(t) \/ SendAnswer(t) PROVE OverlapInv'
  BY <1>3 DEF Sign, SendAnswer, clientVars
<1>5. ASSUME NEW t \in Threads, Reset(t) PROVE OverlapInv'
  <2>1. \A u \in Threads : Within(u)' => u # t /\ Within(u)
    BY <1>5 DEF Reset
  <2>2. Within(t) /\ UNCHANGED overlapped
    BY <1>5 DEF Reset
  <2> QED BY <2>1, <2>2
<1>4. ASSUME handle_auth PROVE OverlapInv'
  BY <1>1, <1>4 DEF handle_auth, Give
<1> QED BY <1>1, <1>2, <1>3, <1>4, <1>5
        DEF Next, Handle, Thread, Server, Open, Break, HandleReady, UseAfterReset, TakeAnswer, Verify,
            SetUid, Announce, Request, Serve, vars, clientVars

LEMMA ConnStep == TypeOK /\ ConnInv /\ [Next]_vars => ConnInv'
<1> SUFFICES ASSUME TypeOK, ConnInv, [Next]_vars PROVE ConnInv'
  OBVIOUS
<1> USE ConnsType DEF TypeOK, ConnInv
<1>1. CASE UNCHANGED <<conn, given, challenge, auth>>
  BY <1>1
<1>2. ASSUME Open PROVE ConnInv'
  <2>1. conn + 1 \in Conns /\ given # conn + 1
    BY <1>2, MaxOpensAssumption DEF Open, Conns
  <2> QED BY <1>2, <2>1 DEF Open, clientVars
<1>3. ASSUME handle_auth PROVE ConnInv'
  <2>1. conn \in Conns
    BY <1>3, MaxOpensAssumption DEF handle_auth, Conns
  <2>2. given' = given \/ given' = conn
    BY <1>3 DEF handle_auth, Give
  <2> QED BY <1>3, <2>1, <2>2 DEF handle_auth, serverVars
<1>4. ASSUME NEW n \in Conns, auth[n] # "none", \E step \in {"ended", "checking", "verified", "named"} :
                 auth' = [auth EXCEPT ![n] = step], UNCHANGED <<conn, given, challenge>>
      PROVE ConnInv'
  BY <1>4
<1>5. ASSUME NEW n \in Conns, Server(n) PROVE ConnInv'
  <2>1. CASE TakeAnswer(n)
    BY <1>1, <1>4, <2>1 DEF TakeAnswer, Known, clientVars
  <2>2. CASE Verify(n) \/ SetUid(n)
    BY <1>4, <2>2 DEF Verify, SetUid, clientVars, netVars
  <2>3. CASE Announce(n)
    BY <1>4, <2>3 DEF Announce, Announceable, clientVars
  <2> QED BY <1>5, <2>1, <2>2, <2>3 DEF Server
<1> QED BY <1>1, <1>2, <1>3, <1>5
        DEF Next, Handle, Thread, Break, HandleReady, authenticate, Sign, UseAfterReset, SendAnswer,
            Reset, Request, Serve, vars, clientVars, threadVars, serverVars, callVars, netVars
-----------------------------------------------------------------------------
(* No thread changes a signature it has made.                              *)
LEMMA SignedStays ==
    ASSUME TypeOK, ThreadInv, [Next]_vars, NEW answer, answer # NoSignature, Signed(answer)
    PROVE  Signed(answer)'
<1>1. PICK t \in Threads : sig[t] = answer
  BY DEF Signed
<1>2. sig'[t] = sig[t]
  <2>1. CASE UNCHANGED sig
    BY <2>1
  <2>2. ASSUME NEW u \in Threads, Sign(u) PROVE sig'[t] = sig[t]
    BY <1>1, <2>2 DEF TypeOK, ThreadInv, Sign
  <2> QED BY <2>1, <2>2
          DEF Next, Handle, Thread, Server, Open, Break, handle_auth, HandleReady, authenticate,
              UseAfterReset, SendAnswer, Reset, TakeAnswer, Verify, SetUid, Announce, Request, Serve,
              vars, threadVars
<1> QED BY <1>1, <1>2 DEF Signed

LEMMA AnswerStep == TypeOK /\ ThreadInv /\ AnswerInv /\ [Next]_vars => AnswerInv'
<1> SUFFICES ASSUME TypeOK, ThreadInv, AnswerInv, [Next]_vars PROVE AnswerInv'
  OBVIOUS
<1> USE SignatureAssumption
<1>0. \A answer : Signed(answer) => Signed(answer)'
  BY SignedStays DEF Signed
<1>1. ASSUME UNCHANGED <<answers, auth, checked>> PROVE AnswerInv'
  BY <1>0, <1>1 DEF AnswerInv
<1>2. ASSUME Open PROVE AnswerInv'
  <2>1. \A n \in Conns : auth'[n] \in {auth[n], "open"} /\ checked'[n] = checked[n]
                                                    /\ answers'[n] = answers[n]
    BY <1>2 DEF TypeOK, Open
  <2> QED BY <1>0, <2>1 DEF AnswerInv
<1>3. ASSUME NEW answer \in Signatures \cup {Error}, answer = Error \/ Signed(answer),
             Reply(answer), UNCHANGED <<auth, checked>>
      PROVE AnswerInv'
  <2>1. \A n \in Conns : \A a \in answers'[n] : a \in answers[n] \/ a = answer
    BY <1>3 DEF TypeOK, Reply
  <2> QED BY <1>0, <1>3, <2>1 DEF AnswerInv
<1>4. ASSUME handle_auth PROVE AnswerInv'
  BY <1>1, <1>3, <1>4 DEF handle_auth, Give, serverVars
<1>5. ASSUME NEW t \in Threads, SendAnswer(t) PROVE AnswerInv'
  <2>1. Signed(sig[t])
    BY <1>5 DEF ThreadInv, SendAnswer, Signed
  <2>2. sig[t] \in Signatures
    BY <2>1 DEF Signed
  <2> QED BY <1>3, <1>5, <2>1, <2>2 DEF SendAnswer, serverVars
<1>6. ASSUME NEW n \in Conns, TakeAnswer(n) PROVE AnswerInv'
  <2>1. PICK answer \in answers[n] :
            /\ answers' = [answers EXCEPT ![n] = @ \ {answer}]
            /\ \/ UNCHANGED <<auth, checked>>
               \/ auth' = [auth EXCEPT ![n] = "ended"] /\ UNCHANGED checked
               \/ /\ answer # Error /\ answer.challenge = n
                  /\ auth' = [auth EXCEPT ![n] = "checking"]
                  /\ checked' = [checked EXCEPT ![n] = answer]
    BY <1>6 DEF TakeAnswer, Known
  <2>2. \A m \in Conns : \A a \in answers'[m] : a = Error \/ Signed(a)'
    BY <1>0, <2>1 DEF TypeOK, AnswerInv
  <2>3. CASE UNCHANGED <<auth, checked>>
    BY <1>0, <2>2, <2>3 DEF AnswerInv
  <2>4. CASE auth' = [auth EXCEPT ![n] = "ended"] /\ UNCHANGED checked
    BY <1>0, <2>2, <2>4 DEF TypeOK, AnswerInv
  <2>5. CASE /\ answer # Error /\ answer.challenge = n
             /\ auth' = [auth EXCEPT ![n] = "checking"]
             /\ checked' = [checked EXCEPT ![n] = answer]
    <3>1. Signed(answer)' /\ answer # NoSignature
      BY <1>0, <2>5 DEF AnswerInv, Signed
    <3>2. \A m \in Conns : m # n => auth'[m] = auth[m] /\ checked'[m] = checked[m]
      BY <2>5
    <3>3. checked'[n] = answer
      BY <2>5 DEF TypeOK
    <3> QED BY <1>0, <2>2, <2>5, <3>1, <3>2, <3>3 DEF AnswerInv
  <2> QED BY <2>1, <2>3, <2>4, <2>5
<1>7. ASSUME NEW n \in Conns, Verify(n) \/ SetUid(n) \/ Announce(n) PROVE AnswerInv'
  <2>1. UNCHANGED <<answers, checked>>
    BY <1>7 DEF Verify, SetUid, Announce, netVars
  <2>2. \A m \in Conns : auth'[m] \in {"checking", "verified", "named"} =>
                              auth[m] \in {"checking", "verified", "named"}
    BY <1>7 DEF TypeOK, Verify, SetUid, Announce, Announceable
  <2> QED BY <1>0, <2>1, <2>2 DEF AnswerInv
<1> QED BY <1>1, <1>2, <1>4, <1>5, <1>6, <1>7
        DEF Next, Handle, Thread, Server, Break, HandleReady, authenticate, Sign, UseAfterReset,
            Reset, Request, Serve, vars, serverVars, netVars
-----------------------------------------------------------------------------
LEMMA ServerStep == TypeOK /\ ConnInv /\ AnswerInv /\ ServerInv /\ [Next]_vars => ServerInv'
<1> SUFFICES ASSUME TypeOK, ConnInv, AnswerInv, ServerInv, [Next]_vars PROVE ServerInv'
  OBVIOUS
<1>1. ASSUME UNCHANGED <<serverVars, announce>> PROVE ServerInv'
  BY <1>1 DEF ServerInv, Verified, UserOf, serverVars
<1>2. ASSUME NEW n \in Conns, \A m \in Conns : m # n =>
                 /\ auth'[m] = auth[m] /\ checked'[m] = checked[m] /\ uid'[m] = uid[m]
                 /\ authenticated'[m] = authenticated[m] /\ announce'[m] = announce[m]
      PROVE  \A m \in Conns : m # n =>
        /\ auth'[m] \in {"none", "open", "checking"} => ~authenticated'[m]
        /\ auth'[m] = "verified" => authenticated'[m] /\ uid'[m] = NoUser
        /\ auth'[m] = "named" => uid'[m] # NoUser
        /\ authenticated'[m] => checked'[m] # NoSignature /\ Verified(m)'
        /\ uid'[m] # NoUser => authenticated'[m] /\ uid'[m] = UserOf(m)'
        /\ announce'[m] # "none" => uid'[m] # NoUser
  BY <1>2 DEF ServerInv, Verified, UserOf
<1>3. ASSUME Open PROVE ServerInv'
  <2>1. conn + 1 \in Conns /\ auth[conn + 1] = "none"
    BY <1>3, MaxOpensAssumption DEF TypeOK, Open, ConnInv, Conns
  <2>2. auth'[conn + 1] = "open" /\ UNCHANGED <<checked, uid, authenticated, announce>>
    BY <1>3, <2>1 DEF TypeOK, Open
  <2>3. ~authenticated[conn + 1] /\ uid[conn + 1] = NoUser
    BY <2>1 DEF ServerInv
  <2>4. \A m \in Conns : m # conn + 1 => auth'[m] = auth[m]
    BY <1>3 DEF TypeOK, Open
  <2> QED BY <1>2, <2>1, <2>2, <2>3, <2>4 DEF ServerInv
<1>4. ASSUME NEW n \in Conns, TakeAnswer(n) PROVE ServerInv'
  <2>1. UNCHANGED <<authenticated, uid, announce>>
    BY <1>4 DEF TakeAnswer
  <2>2. CASE UNCHANGED <<auth, checked>>
    BY <1>1, <2>1, <2>2 DEF serverVars
  <2>3. CASE /\ auth[n] = "open" /\ auth'[n] \in {"checking", "ended"}
             /\ \A m \in Conns : m # n => auth'[m] = auth[m] /\ checked'[m] = checked[m]
    <3>1. ~authenticated[n] /\ uid[n] = NoUser
      BY <2>3 DEF ServerInv
    <3> QED BY <1>2, <2>1, <2>3, <3>1 DEF ServerInv
  <2> QED BY <1>4, <2>2, <2>3 DEF TypeOK, TakeAnswer, Known
<1>5. ASSUME NEW n \in Conns, Verify(n) PROVE ServerInv'
  <2>1. UNCHANGED <<checked, uid, announce>> /\ auth[n] = "checking"
    BY <1>5 DEF Verify, netVars
  <2>2. ~authenticated[n] /\ uid[n] = NoUser /\ checked[n] # NoSignature
    BY <2>1 DEF ServerInv, AnswerInv
  <2>3. CASE auth' = [auth EXCEPT ![n] = "ended"] /\ UNCHANGED authenticated
    BY <1>2, <2>1, <2>2, <2>3 DEF TypeOK, ServerInv
  <2>4. CASE /\ Verified(n) /\ auth' = [auth EXCEPT ![n] = "verified"]
             /\ authenticated' = [authenticated EXCEPT ![n] = TRUE]
    <3>1. Verified(n)'
      BY <2>1, <2>4 DEF Verified, UserOf
    <3>2. auth'[n] = "verified" /\ authenticated'[n] /\ uid'[n] = NoUser /\ checked'[n] # NoSignature
      BY <2>1, <2>2, <2>4 DEF TypeOK
    <3>3. announce'[n] = "none"
      BY <2>1, <2>2 DEF ServerInv
    <3>4. \A m \in Conns : m # n => auth'[m] = auth[m] /\ authenticated'[m] = authenticated[m]
      BY <2>4 DEF TypeOK
    <3> QED BY <1>2, <2>1, <3>1, <3>2, <3>3, <3>4 DEF ServerInv
  <2> QED BY <1>5, <2>3, <2>4 DEF Verify
<1>6. ASSUME NEW n \in Conns, SetUid(n) PROVE ServerInv'
  <2>1. UNCHANGED <<checked, authenticated, announce>> /\ auth[n] = "verified"
    BY <1>6 DEF SetUid, netVars
  <2>2. authenticated[n] /\ checked[n] # NoSignature /\ Verified(n)
    BY <2>1 DEF ServerInv
  <2>3. UserOf(n) \in Users /\ UserOf(n)' = UserOf(n) /\ Verified(n)'
    BY <2>1, <2>2, KeysAssumption DEF AnswerInv, Signed, Signatures, UserOf, Verified
  <2>4. uid'[n] = UserOf(n) /\ UserOf(n) # NoUser /\ auth'[n] = "named"
    BY <1>6, <2>3, KeysAssumption DEF TypeOK, SetUid
  <2>6. authenticated'[n] /\ checked'[n] # NoSignature /\ uid'[n] = UserOf(n)'
    BY <2>1, <2>2, <2>3, <2>4
  <2>7. uid'[n] # NoUser
    BY <2>4
  <2>5. \A m \in Conns : m # n => auth'[m] = auth[m] /\ uid'[m] = uid[m]
    BY <1>6 DEF TypeOK, SetUid
  <2> QED BY <1>2, <2>1, <2>3, <2>4, <2>5, <2>6, <2>7 DEF ServerInv
<1>7. ASSUME NEW n \in Conns, Announce(n) PROVE ServerInv'
  <2>1. UNCHANGED <<checked, authenticated, uid>> /\ auth[n] = "named" /\ uid[n] # NoUser
    BY <1>7 DEF Announce, Announceable, ServerInv
  <2>2. auth'[n] = "ended" /\ \A m \in Conns : m # n => auth'[m] = auth[m] /\ announce'[m] = announce[m]
    BY <1>7, <2>1 DEF TypeOK, Announce
  <2>3. authenticated[n] /\ uid[n] = UserOf(n) /\ checked[n] # NoSignature /\ Verified(n)
    BY <2>1 DEF ServerInv
  <2>4. Verified(n)' /\ uid'[n] = UserOf(n)'
    BY <2>1, <2>3 DEF Verified, UserOf
  <2> QED BY <1>2, <2>1, <2>2, <2>3, <2>4 DEF ServerInv
<1>8. CASE UNCHANGED <<auth, checked, authenticated, uid, announce>>
  BY <1>1, <1>8 DEF serverVars
<1>9. ASSUME HandleReady PROVE ServerInv'
  <2>1. UNCHANGED serverVars /\ \A m \in Conns : announce'[m] # "none" => announce[m] # "none"
    BY <1>9 DEF TypeOK, HandleReady
  <2> QED BY <2>1 DEF ServerInv, Verified, UserOf, serverVars
<1> QED BY <1>3, <1>4, <1>5, <1>6, <1>7, <1>8, <1>9
        DEF Next, Handle, Thread, Server, Break, handle_auth, authenticate, Sign, UseAfterReset,
            SendAnswer, Reset, Request, Serve, vars, serverVars, netVars
-----------------------------------------------------------------------------
LEMMA ReadyStep ==
    TypeOK /\ ServerInv /\ ReadyInv /\ [Next]_vars => ReadyInv'
<1> SUFFICES ASSUME TypeOK, ServerInv, ReadyInv, [Next]_vars PROVE ReadyInv'
  OBVIOUS
<1> USE CallsAssumption, ConnsType
<1>1. ASSUME UNCHANGED <<ready, callVars>>, ready # 0 => uid'[ready] # NoUser PROVE ReadyInv'
  BY <1>1 DEF ReadyInv, callVars
<1>2. ASSUME HandleReady PROVE ReadyInv'
  <2>1. conn \in Conns /\ uid[conn] # NoUser /\ UNCHANGED <<uid, callVars>>
    BY <1>2, MaxOpensAssumption DEF TypeOK, HandleReady, ServerInv, Conns, serverVars
  <2>2. CASE ready = 0
    BY <1>2, <2>1, <2>2 DEF HandleReady, ReadyInv, callVars
  <2>3. CASE ready # 0
    BY <1>1, <1>2, <2>1, <2>3 DEF HandleReady, ReadyInv
  <2> QED BY <2>2, <2>3
<1>3. ASSUME NEW n \in Conns, SetUid(n) PROVE ReadyInv'
  <2>1. uid[n] = NoUser
    BY <1>3 DEF SetUid, ServerInv
  <2>2. \A m \in Conns : m # n => uid'[m] = uid[m]
    BY <1>3 DEF TypeOK, SetUid
  <2>3. ready # 0 => ready \in Conns
    BY MaxOpensAssumption DEF TypeOK, Conns
  <2> QED BY <1>1, <1>3, <2>1, <2>2, <2>3 DEF SetUid, ReadyInv, clientVars
<1>4. ASSUME NEW c \in Calls, Request(c) PROVE ReadyInv'
  <2>1. conn \in Conns /\ conn >= ready
    BY <1>4, MaxOpensAssumption DEF TypeOK, Request, Conns
  <2>2. /\ sentOn'[c] = conn /\ (c \in Held => ready # 0) /\ UNCHANGED <<ready, uid>>
        /\ \A d \in Calls : d # c => sentOn'[d] = sentOn[d] /\ handled'[d] = handled[d]
    BY <1>4 DEF TypeOK, Request, clientVars, serverVars
  <2> QED BY <2>1, <2>2 DEF ReadyInv
<1>5. ASSUME NEW c \in Calls, Serve(c) PROVE ReadyInv'
  <2>1. /\ UNCHANGED <<ready, uid, sentOn>> /\ handled[c] = "sent"
        /\ \A d \in Calls : d # c => handled'[d] = handled[d]
    BY <1>5 DEF TypeOK, Serve, clientVars, serverVars
  <2> QED BY <2>1 DEF ReadyInv
<1>6. CASE UNCHANGED <<ready, uid, callVars>>
  BY <1>1, <1>6 DEF ReadyInv
<1> QED BY <1>2, <1>3, <1>4, <1>5, <1>6
        DEF Next, Handle, Thread, Server, Open, Break, handle_auth, authenticate, Sign, UseAfterReset,
            SendAnswer, Reset, TakeAnswer, Verify, Announce, vars, clientVars, serverVars

(* When a held request is served on the connection that ready speaks of,   *)
(* the server has the uid of the user who authenticated.                   *)
ServedAsUser(c) == \/ handled[c] \in {"no", "sent", "lost"}
                   \/ sentOn[c] > ready
                   \/ handled[c] = uid[ready] /\ handled[c] # NoUser

LEMMA HeldStep ==
    TypeOK /\ ServerInv /\ ReadyInv /\ HeldServedAsUser /\ [Next]_vars => HeldServedAsUser'
<1> SUFFICES ASSUME TypeOK, ServerInv, ReadyInv, HeldServedAsUser, [Next]_vars,
                    NEW c \in Held
             PROVE  ServedAsUser(c)'
  BY DEF HeldServedAsUser, ServedAsUser
<1> USE CallsAssumption, ConnsType
<1>0. ServedAsUser(c)
  BY DEF HeldServedAsUser, ServedAsUser
<1>1. CASE UNCHANGED <<ready, uid, callVars>>
  BY <1>0, <1>1 DEF ServedAsUser, callVars
<1>2. ASSUME HandleReady PROVE handled[c] # "no" => UNCHANGED <<ready, uid, callVars>>
  BY <1>2 DEF HandleReady, ReadyInv, serverVars
<1>3. ASSUME NEW n \in Conns, SetUid(n)
      PROVE  UNCHANGED <<ready, callVars>> /\ (handled[c] # "no" => uid'[ready] = uid[ready])
  <2>1. uid[n] = NoUser
    BY <1>3 DEF SetUid, ServerInv
  <2>2. \A m \in Conns : m # n => uid'[m] = uid[m]
    BY <1>3 DEF TypeOK, SetUid
  <2>3. ready # 0 => ready \in Conns /\ ready # n
    BY <2>1, MaxOpensAssumption DEF TypeOK, ReadyInv, Conns
  <2>4. handled[c] # "no" => ready # 0
    BY DEF ReadyInv
  <2> QED BY <1>3, <2>2, <2>3, <2>4 DEF SetUid, clientVars
<1>4. ASSUME NEW d \in Calls, Request(d)
      PROVE  handled'[c] \in {"sent", "lost"} \/ UNCHANGED <<ready, uid, handled[c], sentOn[c]>>
  BY <1>4 DEF TypeOK, Request, clientVars, serverVars
<1>5. ASSUME NEW d \in Calls, Serve(d), d # c PROVE UNCHANGED <<ready, uid, handled[c], sentOn>>
  BY <1>5 DEF TypeOK, Serve, clientVars, serverVars
<1>6. ASSUME Serve(c), sentOn[c] = ready PROVE handled'[c] = uid[ready] /\ uid[ready] # NoUser
  <2>1. ready \in Conns /\ authenticated[ready] /\ uid[ready] # NoUser
    BY <1>6, MaxOpensAssumption DEF TypeOK, ReadyInv, ServerInv, Serve, Conns
  <2> QED BY <1>6, <2>1 DEF TypeOK, Serve
<1>7. ASSUME Serve(c) PROVE sentOn[c] >= ready /\ UNCHANGED <<ready, uid, sentOn>>
  BY <1>7 DEF Serve, ReadyInv, clientVars, serverVars
<1>8. ASSUME Serve(c) PROVE sentOn[c] \in Nat /\ ready \in Nat
  BY MaxOpensAssumption DEF TypeOK
<1>9. ASSUME Serve(c) PROVE ServedAsUser(c)'
  BY <1>6, <1>7, <1>8, <1>9 DEF ServedAsUser
<1>10. ASSUME NEW n \in Conns, SetUid(n) PROVE ServedAsUser(c)'
  BY <1>0, <1>3, <1>10 DEF ServedAsUser, callVars
<1>11. ASSUME HandleReady PROVE ServedAsUser(c)'
  BY <1>0, <1>2, <1>11 DEF ServedAsUser, HandleReady, callVars
<1>12. ASSUME NEW d \in Calls, Request(d) PROVE ServedAsUser(c)'
  BY <1>0, <1>4, <1>12 DEF ServedAsUser
<1>13. ASSUME NEW d \in Calls, Serve(d) PROVE ServedAsUser(c)'
  BY <1>0, <1>5, <1>9, <1>13 DEF ServedAsUser
<1> QED BY <1>1, <1>9, <1>10, <1>11, <1>12, <1>13
        DEF Next, Handle, Thread, Server, Open, Break, handle_auth, authenticate, Sign, UseAfterReset,
            SendAnswer, Reset, TakeAnswer, Verify, Announce, vars, clientVars, serverVars

LEMMA CrashStep ==
    TypeOK /\ ConnInv /\ OverlapInv /\ CrashExplained /\ [Next]_vars => CrashExplained'
<1> SUFFICES ASSUME TypeOK, ConnInv, OverlapInv, CrashExplained, [Next]_vars PROVE CrashExplained'
  OBVIOUS
<1>1. CASE UNCHANGED <<crashed, overlapped, conn, given>>
  BY <1>1 DEF CrashExplained
<1>2. ASSUME Open PROVE CrashExplained'
  BY <1>2 DEF Open, CrashExplained, clientVars
<1>3. ASSUME handle_auth PROVE CrashExplained'
  <2>1. conn # given /\ conn >= given
    BY <1>3 DEF TypeOK, handle_auth, ConnInv
  <2>2. ~crashed /\ UNCHANGED <<conn, overlapped>> /\ (crashed' => UNCHANGED given)
    BY <1>3 DEF handle_auth, Give, threadVars
  <2>3. conn \in Nat /\ given \in Nat
    BY MaxOpensAssumption DEF TypeOK
  <2> QED BY <2>1, <2>2, <2>3 DEF CrashExplained
<1>4. ASSUME NEW t \in Threads, UseAfterReset(t) PROVE CrashExplained'
  BY <1>4 DEF UseAfterReset, OverlapInv, Within, CrashExplained, threadVars
<1>5. ASSUME NEW t \in Threads, NEW k \in Keys, authenticate(t, k) PROVE CrashExplained'
  BY <1>5 DEF authenticate, CrashExplained, clientVars
<1> QED BY <1>1, <1>2, <1>3, <1>4, <1>5
        DEF Next, Handle, Thread, Server, Break, HandleReady, Sign, SendAnswer, Reset, TakeAnswer,
            Verify, SetUid, Announce, Request, Serve, vars, clientVars, threadVars
-----------------------------------------------------------------------------
LEMMA InvStep == Inv /\ [Next]_vars => Inv'
BY TypeStep, ThreadStep, OverlapStep, ConnStep, AnswerStep, ServerStep, ReadyStep, HeldStep, CrashStep
   DEF Inv

LEMMA Invariance == Spec => []Inv
<1>1. Init /\ [][Next]_vars => []Inv
  BY InitInv, InvStep, PTL
<1> QED BY <1>1, PTL DEF Spec

(* TypeOK: the variables of both ends of the handshake keep their types;   *)
(* in particular nothing is signed before a key is set.                    *)
THEOREM TypeCorrect == Spec => []TypeOK
BY Invariance, PTL DEF Inv

(* AuthenticatedBySigner: the server authenticates a connection only after *)
(* authenticate signed its challenge with the key enrolled for the user.   *)
THEOREM SignerAuthenticated == Spec => []AuthenticatedBySigner
<1>1. Inv => AuthenticatedBySigner
  <2> SUFFICES ASSUME Inv, NEW n \in Conns
               PROVE  /\ authenticated[n] =>
                          /\ n = given
                          /\ \E t \in Threads : /\ sig[t] # NoSignature /\ sig[t].challenge = n
                                                /\ sig[t].by = Enrolled[User[sig[t].key]]
                                                /\ uid[n] \in {NoUser, User[sig[t].key]}
                      /\ uid[n] # NoUser => authenticated[n]
    BY DEF AuthenticatedBySigner
  <2>1. uid[n] # NoUser => authenticated[n] /\ uid[n] = UserOf(n)
    BY DEF Inv, ServerInv
  <2>2. ASSUME authenticated[n]
        PROVE  n = given /\ \E t \in Threads : sig[t] = checked[n] /\ checked[n] # NoSignature
                                              /\ checked[n].challenge = n
    BY <2>2 DEF Inv, ServerInv, AnswerInv, Signed, ThreadInv
  <2>3. authenticated[n] => checked[n].by = Enrolled[UserOf(n)]
    BY DEF Inv, ServerInv, Verified
  <2> QED BY <2>1, <2>2, <2>3 DEF UserOf
<1> QED BY <1>1, Invariance, PTL

(* HeldServedAsUser: auth sets authenticated and uid before it sends 0x10, *)
(* so a request that waited for ready runs for its user.                   *)
THEOREM HeldRequestsServed == Spec => []HeldServedAsUser
BY Invariance, PTL DEF Inv

(* CrashExplained: the pointer auth_data is used after its reset only by a *)
(* later connection's challenge or by overlapping calls of authenticate.   *)
THEOREM CrashesExplained == Spec => []CrashExplained
BY Invariance, PTL DEF Inv
=============================================================================
