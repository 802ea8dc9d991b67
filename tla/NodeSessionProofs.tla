------------------------- MODULE NodeSessionProofs --------------------------
(***************************************************************************)
(* Proofs about NodeSession, for any number of sockets, calls and pushes:  *)
(* what the two ends know of each other's authentication, when connections *)
(* is exact, and that the session keeps the promise of RequestReply.       *)
(*                                                                         *)
(* Inv adds to the properties where the one token of the handshake is (the *)
(* challenge, the signed reply, message 16: HandshakeInv) and where each   *)
(* call is (CallInv).                                                      *)
(***************************************************************************)
EXTENDS NodeSession, TLAPS

HandshakeInv(k) ==
    /\ sock[k] = "new" => auth[k] = "none" /\ challenge[k] = "none"
    /\ auth[k] = "none" => sock[k] = "new" /\ <<"AUTH", k, None>> \notin toClient
    /\ <<"AUTH", k, None>> \in toClient => challenge[k] = "none"
    /\ challenge[k] # "signed" => /\ auth[k] \in {"none", "challenged"}
                                  /\ <<"SIGNATURE", k, None>> \notin toServer
    /\ <<"SIGNATURE", k, None>> \in toServer =>
           auth[k] = "challenged" /\ sock[k] \in {"open", "closing"}
    /\ challenge[k] = "signed" => k \in keyed
    /\ <<"READY", k, None>> \in toClient => Authenticated(k)
    /\ k \in ready => Authenticated(k)

RegistryInv(k) ==
    /\ sock[k] # "closed" => (k \in connections <=> Authenticated(k))
    /\ sock[k] = "closed" => (k \in connections \/ auth[k] = "lookup" => k \in raced)

CallInv(c) ==
    /\ pc[c] # "sent" => <<"call", ConnOf[c], c>> \notin toServer /\ seenAs[c] = "nobody"
    /\ <<"call", ConnOf[c], c>> \in toServer =>
           /\ seenAs[c] = "nobody"
           /\ c \in Held => ConnOf[c] \in ready
    /\ seenAs[c] = "nobody" => c \notin serving /\ answer[c] = None
    /\ c \in Held => seenAs[c] # "anonymous"
    /\ c \in serving => answer[c] = None
    /\ answer[c] = None => delivered[c] = None /\ <<"reply", ConnOf[c], c>> \notin toClient
    /\ <<"reply", ConnOf[c], c>> \in toClient => delivered[c] = None

Inv == /\ TypeOK
       /\ \A k \in Conns : HandshakeInv(k) /\ RegistryInv(k)
       /\ \A c \in Calls : CallInv(c)
-----------------------------------------------------------------------------
LEMMA InitInv == Init => Inv
<1> SUFFICES ASSUME Init PROVE Inv
  OBVIOUS
<1>1. TypeOK
  BY DEF Init, TypeOK
<1>2. \A k \in Conns : HandshakeInv(k) /\ RegistryInv(k)
  BY DEF Init, HandshakeInv, RegistryInv, Authenticated
<1>3. \A c \in Calls : CallInv(c)
  BY DEF Init, CallInv
<1> QED BY <1>1, <1>2, <1>3 DEF Inv

LEMMA TypeStep == TypeOK /\ [Next]_vars => TypeOK'
<1> SUFFICES ASSUME TypeOK, [Next]_vars PROVE TypeOK'
  OBVIOUS
<1> USE CallAssumption DEF TypeOK, Messages, Outcomes
<1>1. ASSUME NEW k \in Conns, Connect(k) PROVE TypeOK'
  BY <1>1 DEF Connect, clientVars
<1>2. ASSUME NEW k \in Conns, Close(k) PROVE TypeOK'
  BY <1>2 DEF Close, Unlisted, clientVars
<1>3. ASSUME NEW k \in Conns, ReceiveSignature(k) PROVE TypeOK'
  BY <1>3 DEF ReceiveSignature, clientVars
<1>4. ASSUME NEW k \in Conns, LookupDone(k) PROVE TypeOK'
  BY <1>4 DEF LookupDone, FromServer, clientVars
<1>5. ASSUME NEW k \in Conns, LookupFails(k) PROVE TypeOK'
  BY <1>5 DEF LookupFails, clientVars
<1>6. ASSUME NEW c \in Calls, ReceiveCall(c) PROVE TypeOK'
  BY <1>6 DEF ReceiveCall, Caller, CheckAuth, Authenticated, clientVars
<1>7. ASSUME NEW c \in Calls, NEW o \in Outcomes, Reply(c, o) PROVE TypeOK'
  BY <1>7 DEF Reply, FromServer, clientVars
<1>8. ASSUME NEW c \in Calls, HandlerThrows(c) PROVE TypeOK'
  BY <1>8 DEF HandlerThrows, clientVars
<1>9. ASSUME NEW p \in Pushes, Push(p) PROVE TypeOK'
  BY <1>9 DEF Push, clientVars
<1>10. ASSUME NEW p \in Pushes, NEW k \in Conns, NEW o \in Outcomes, ReceivePushReply(p, k, o) PROVE TypeOK'
  BY <1>10 DEF ReceivePushReply, PushOutcome, CheckAuth, Authenticated, clientVars
<1>11. ASSUME NEW k \in Conns, Authenticate(k) PROVE TypeOK'
  BY <1>11 DEF Authenticate, serverVars
<1>12. ASSUME NEW k \in Conns, HandleAuth(k) PROVE TypeOK'
  BY <1>12 DEF HandleAuth, AfterChallenge, serverVars
<1>13. ASSUME NEW k \in Conns, Sign(k) PROVE TypeOK'
  BY <1>13 DEF Sign, FromClient, serverVars
<1>14. ASSUME NEW k \in Conns, HandleReady(k) PROVE TypeOK'
  BY <1>14 DEF HandleReady, serverVars
<1>15. ASSUME NEW c \in Calls, StartCall(c) PROVE TypeOK'
  BY <1>15 DEF StartCall, serverVars
<1>16. ASSUME NEW c \in Calls, SendCall(c) PROVE TypeOK'
  BY <1>16 DEF SendCall, MaySend, FromClient, serverVars
<1>17. ASSUME NEW c \in Calls, ReceiveReply(c) PROVE TypeOK'
  BY <1>17 DEF ReceiveReply, Result, serverVars
<1>18. ASSUME NEW p \in Pushes, NEW k \in Conns, NEW o \in Outcomes, HandlePush(p, k, o) PROVE TypeOK'
  BY <1>18 DEF HandlePush, FromClient, clientVars, serverVars
<1>19. ASSUME NEW p \in Pushes, NEW k \in Conns, PushThrows(p, k) PROVE TypeOK'
  BY <1>19 DEF PushThrows, clientVars, serverVars
<1>20. CASE UNCHANGED vars
  BY <1>20 DEF vars, serverVars, clientVars
<1> HIDE DEF TypeOK, Messages, Outcomes
<1> QED
  BY <1>1, <1>2, <1>3, <1>4, <1>5, <1>6, <1>7, <1>8, <1>9, <1>10, <1>11,
     <1>12, <1>13, <1>14, <1>15, <1>16, <1>17, <1>18, <1>19, <1>20
     DEF Next, ServerStep, ClientStep

(* The token of the handshake, and what its last holder knows.             *)
LEMMA HandshakeStep == Inv /\ [Next]_vars => \A h \in Conns : HandshakeInv(h)'
<1> SUFFICES ASSUME Inv, [Next]_vars, NEW h \in Conns PROVE HandshakeInv(h)'
  OBVIOUS
<1>a. TypeOK /\ HandshakeInv(h)
  BY DEF Inv
<1> USE <1>a DEF TypeOK, HandshakeInv, Outcomes, Authenticated
<1>1. ASSUME NEW k \in Conns, Connect(k) PROVE HandshakeInv(h)'
  BY <1>1 DEF Connect, clientVars
<1>2. ASSUME NEW k \in Conns, Close(k) PROVE HandshakeInv(h)'
  BY <1>2 DEF Close, Unlisted, clientVars
<1>3. ASSUME NEW k \in Conns, ReceiveSignature(k) PROVE HandshakeInv(h)'
  BY <1>3 DEF ReceiveSignature, clientVars
<1>4. ASSUME NEW k \in Conns, LookupDone(k) PROVE HandshakeInv(h)'
  BY <1>4 DEF LookupDone, FromServer, clientVars
<1>5. ASSUME NEW k \in Conns, LookupFails(k) PROVE HandshakeInv(h)'
  BY <1>5 DEF LookupFails, clientVars
<1>6. ASSUME NEW c \in Calls, ReceiveCall(c) PROVE HandshakeInv(h)'
  BY <1>6 DEF ReceiveCall, Caller, CheckAuth, Authenticated, clientVars
<1>7. ASSUME NEW c \in Calls, NEW o \in Outcomes, Reply(c, o) PROVE HandshakeInv(h)'
  BY <1>7 DEF Reply, FromServer, clientVars
<1>8. ASSUME NEW c \in Calls, HandlerThrows(c) PROVE HandshakeInv(h)'
  BY <1>8 DEF HandlerThrows, clientVars
<1>9. ASSUME NEW p \in Pushes, Push(p) PROVE HandshakeInv(h)'
  BY <1>9 DEF Push, clientVars
<1>10. ASSUME NEW p \in Pushes, NEW k \in Conns, NEW o \in Outcomes, ReceivePushReply(p, k, o) PROVE HandshakeInv(h)'
  BY <1>10 DEF ReceivePushReply, PushOutcome, CheckAuth, Authenticated, clientVars
<1>11. ASSUME NEW k \in Conns, Authenticate(k) PROVE HandshakeInv(h)'
  BY <1>11 DEF Authenticate, serverVars
<1>12. ASSUME NEW k \in Conns, HandleAuth(k) PROVE HandshakeInv(h)'
  BY <1>12 DEF HandleAuth, AfterChallenge, serverVars
<1>13. ASSUME NEW k \in Conns, Sign(k) PROVE HandshakeInv(h)'
  BY <1>13 DEF Sign, FromClient, serverVars
<1>14. ASSUME NEW k \in Conns, HandleReady(k) PROVE HandshakeInv(h)'
  BY <1>14 DEF HandleReady, serverVars
<1>15. ASSUME NEW c \in Calls, StartCall(c) PROVE HandshakeInv(h)'
  BY <1>15 DEF StartCall, serverVars
<1>16. ASSUME NEW c \in Calls, SendCall(c) PROVE HandshakeInv(h)'
  BY <1>16 DEF SendCall, MaySend, FromClient, serverVars
<1>17. ASSUME NEW c \in Calls, ReceiveReply(c) PROVE HandshakeInv(h)'
  BY <1>17 DEF ReceiveReply, Result, serverVars
<1>18. ASSUME NEW p \in Pushes, NEW k \in Conns, NEW o \in Outcomes, HandlePush(p, k, o) PROVE HandshakeInv(h)'
  BY <1>18 DEF HandlePush, FromClient, clientVars, serverVars
<1>19. ASSUME NEW p \in Pushes, NEW k \in Conns, PushThrows(p, k) PROVE HandshakeInv(h)'
  BY <1>19 DEF PushThrows, clientVars, serverVars
<1>20. CASE UNCHANGED vars
  BY <1>20 DEF vars, serverVars, clientVars
<1> HIDE DEF TypeOK, HandshakeInv, Outcomes, Authenticated
<1> QED
  BY <1>1, <1>2, <1>3, <1>4, <1>5, <1>6, <1>7, <1>8, <1>9, <1>10, <1>11,
     <1>12, <1>13, <1>14, <1>15, <1>16, <1>17, <1>18, <1>19, <1>20
     DEF Next, ServerStep, ClientStep

(* What connections holds, by the state of the socket.                     *)
LEMMA RegistryStep == Inv /\ [Next]_vars => \A h \in Conns : RegistryInv(h)'
<1> SUFFICES ASSUME Inv, [Next]_vars, NEW h \in Conns PROVE RegistryInv(h)'
  OBVIOUS
<1>a. TypeOK /\ RegistryInv(h) /\ HandshakeInv(h)
  BY DEF Inv
<1> USE <1>a DEF TypeOK, RegistryInv, HandshakeInv, Authenticated
<1>1. ASSUME NEW k \in Conns, Connect(k) PROVE RegistryInv(h)'
  BY <1>1 DEF Connect, clientVars
<1>2. ASSUME NEW k \in Conns, Close(k) PROVE RegistryInv(h)'
  BY <1>2 DEF Close, Unlisted, clientVars
<1>3. ASSUME NEW k \in Conns, ReceiveSignature(k) PROVE RegistryInv(h)'
  BY <1>3 DEF ReceiveSignature, clientVars
<1>4. ASSUME NEW k \in Conns, LookupDone(k) PROVE RegistryInv(h)'
  BY <1>4 DEF LookupDone, FromServer, clientVars
<1>5. ASSUME NEW k \in Conns, LookupFails(k) PROVE RegistryInv(h)'
  BY <1>5 DEF LookupFails, clientVars
<1>6. ASSUME NEW c \in Calls, ReceiveCall(c) PROVE RegistryInv(h)'
  BY <1>6 DEF ReceiveCall, Caller, CheckAuth, Authenticated, clientVars
<1>7. ASSUME NEW c \in Calls, NEW o \in Outcomes, Reply(c, o) PROVE RegistryInv(h)'
  BY <1>7 DEF Reply, FromServer, clientVars
<1>8. ASSUME NEW c \in Calls, HandlerThrows(c) PROVE RegistryInv(h)'
  BY <1>8 DEF HandlerThrows, clientVars
<1>9. ASSUME NEW p \in Pushes, Push(p) PROVE RegistryInv(h)'
  BY <1>9 DEF Push, clientVars
<1>10. ASSUME NEW p \in Pushes, NEW k \in Conns, NEW o \in Outcomes, ReceivePushReply(p, k, o) PROVE RegistryInv(h)'
  BY <1>10 DEF ReceivePushReply, PushOutcome, CheckAuth, Authenticated, clientVars
<1>11. ASSUME NEW k \in Conns, Authenticate(k) PROVE RegistryInv(h)'
  BY <1>11 DEF Authenticate, serverVars
<1>12. ASSUME NEW k \in Conns, HandleAuth(k) PROVE RegistryInv(h)'
  BY <1>12 DEF HandleAuth, AfterChallenge, serverVars
<1>13. ASSUME NEW k \in Conns, Sign(k) PROVE RegistryInv(h)'
  BY <1>13 DEF Sign, FromClient, serverVars
<1>14. ASSUME NEW k \in Conns, HandleReady(k) PROVE RegistryInv(h)'
  BY <1>14 DEF HandleReady, serverVars
<1>15. ASSUME NEW c \in Calls, StartCall(c) PROVE RegistryInv(h)'
  BY <1>15 DEF StartCall, serverVars
<1>16. ASSUME NEW c \in Calls, SendCall(c) PROVE RegistryInv(h)'
  BY <1>16 DEF SendCall, MaySend, FromClient, serverVars
<1>17. ASSUME NEW c \in Calls, ReceiveReply(c) PROVE RegistryInv(h)'
  BY <1>17 DEF ReceiveReply, Result, serverVars
<1>18. ASSUME NEW p \in Pushes, NEW k \in Conns, NEW o \in Outcomes, HandlePush(p, k, o) PROVE RegistryInv(h)'
  BY <1>18 DEF HandlePush, FromClient, clientVars, serverVars
<1>19. ASSUME NEW p \in Pushes, NEW k \in Conns, PushThrows(p, k) PROVE RegistryInv(h)'
  BY <1>19 DEF PushThrows, clientVars, serverVars
<1>20. CASE UNCHANGED vars
  BY <1>20 DEF vars, serverVars, clientVars
<1> HIDE DEF TypeOK, RegistryInv, HandshakeInv, Authenticated
<1> QED
  BY <1>1, <1>2, <1>3, <1>4, <1>5, <1>6, <1>7, <1>8, <1>9, <1>10, <1>11,
     <1>12, <1>13, <1>14, <1>15, <1>16, <1>17, <1>18, <1>19, <1>20
     DEF Next, ServerStep, ClientStep

(* Where a call is.  A held call is sent after its client is ready, when   *)
(* the server has authenticated the socket, so it is captured as a user's. *)
LEMMA CallStep == Inv /\ [Next]_vars => \A d \in Calls : CallInv(d)'
<1> SUFFICES ASSUME Inv, [Next]_vars, NEW d \in Calls PROVE CallInv(d)'
  OBVIOUS
<1>a. /\ TypeOK /\ CallInv(d)
      /\ ConnOf[d] \in Conns
      /\ HandshakeInv(ConnOf[d])
  BY CallAssumption DEF Inv
<1> USE <1>a, NSNoneAssumption DEF TypeOK, CallInv, HandshakeInv, Outcomes, Authenticated
<1>1. ASSUME NEW k \in Conns, Connect(k) PROVE CallInv(d)'
  BY <1>1 DEF Connect, clientVars
<1>2. ASSUME NEW k \in Conns, Close(k) PROVE CallInv(d)'
  BY <1>2 DEF Close, Unlisted, clientVars
<1>3. ASSUME NEW k \in Conns, ReceiveSignature(k) PROVE CallInv(d)'
  BY <1>3 DEF ReceiveSignature, clientVars
<1>4. ASSUME NEW k \in Conns, LookupDone(k) PROVE CallInv(d)'
  BY <1>4 DEF LookupDone, FromServer, clientVars
<1>5. ASSUME NEW k \in Conns, LookupFails(k) PROVE CallInv(d)'
  BY <1>5 DEF LookupFails, clientVars
<1>6. ASSUME NEW c \in Calls, ReceiveCall(c) PROVE CallInv(d)'
  BY <1>6 DEF ReceiveCall, Caller, CheckAuth, Authenticated, clientVars
<1>7. ASSUME NEW c \in Calls, NEW o \in Outcomes, Reply(c, o) PROVE CallInv(d)'
  BY <1>7 DEF Reply, FromServer, clientVars
<1>8. ASSUME NEW c \in Calls, HandlerThrows(c) PROVE CallInv(d)'
  BY <1>8 DEF HandlerThrows, clientVars
<1>9. ASSUME NEW p \in Pushes, Push(p) PROVE CallInv(d)'
  BY <1>9 DEF Push, clientVars
<1>10. ASSUME NEW p \in Pushes, NEW k \in Conns, NEW o \in Outcomes, ReceivePushReply(p, k, o) PROVE CallInv(d)'
  BY <1>10 DEF ReceivePushReply, PushOutcome, CheckAuth, Authenticated, clientVars
<1>11. ASSUME NEW k \in Conns, Authenticate(k) PROVE CallInv(d)'
  BY <1>11 DEF Authenticate, serverVars
<1>12. ASSUME NEW k \in Conns, HandleAuth(k) PROVE CallInv(d)'
  BY <1>12 DEF HandleAuth, AfterChallenge, serverVars
<1>13. ASSUME NEW k \in Conns, Sign(k) PROVE CallInv(d)'
  BY <1>13 DEF Sign, FromClient, serverVars
<1>14. ASSUME NEW k \in Conns, HandleReady(k) PROVE CallInv(d)'
  BY <1>14 DEF HandleReady, serverVars
<1>15. ASSUME NEW c \in Calls, StartCall(c) PROVE CallInv(d)'
  BY <1>15 DEF StartCall, serverVars
<1>16. ASSUME NEW c \in Calls, SendCall(c) PROVE CallInv(d)'
  BY <1>16 DEF SendCall, MaySend, FromClient, serverVars
<1>17. ASSUME NEW c \in Calls, ReceiveReply(c) PROVE CallInv(d)'
  BY <1>17 DEF ReceiveReply, Result, serverVars
<1>18. ASSUME NEW p \in Pushes, NEW k \in Conns, NEW o \in Outcomes, HandlePush(p, k, o) PROVE CallInv(d)'
  BY <1>18 DEF HandlePush, FromClient, clientVars, serverVars
<1>19. ASSUME NEW p \in Pushes, NEW k \in Conns, PushThrows(p, k) PROVE CallInv(d)'
  BY <1>19 DEF PushThrows, clientVars, serverVars
<1>20. CASE UNCHANGED vars
  BY <1>20 DEF vars, serverVars, clientVars
<1> HIDE DEF TypeOK, CallInv, HandshakeInv, Outcomes, Authenticated
<1> QED
  BY <1>1, <1>2, <1>3, <1>4, <1>5, <1>6, <1>7, <1>8, <1>9, <1>10, <1>11,
     <1>12, <1>13, <1>14, <1>15, <1>16, <1>17, <1>18, <1>19, <1>20
     DEF Next, ServerStep, ClientStep
-----------------------------------------------------------------------------
LEMMA InductiveInv == Spec => []Inv
<1>1. Inv /\ [Next]_vars => Inv'
  BY TypeStep, HandshakeStep, RegistryStep, CallStep DEF Inv
<1> QED BY InitInv, <1>1, PTL DEF Spec

(* Every variable keeps its type.                                          *)
THEOREM TypeCorrect == Spec => []TypeOK
BY InductiveInv, PTL DEF Inv

(* A held call is handled with the uid of its user.                        *)
THEOREM HeldCallsSafe == Spec => []HeldCallsArriveAuthenticated
<1>1. Inv => HeldCallsArriveAuthenticated
  BY CallAssumption DEF Inv, CallInv, HeldCallsArriveAuthenticated
<1> QED BY InductiveInv, <1>1, PTL

(* connections has exactly the authenticated ones of the open sockets, and *)
(* an entry goes stale only by the race with get_pub_key.                  *)
THEOREM RegistryIsTruthful == Spec => []RegistryTruthful
<1>1. Inv => RegistryTruthful
  BY DEF Inv, TypeOK, RegistryInv, RegistryTruthful
<1> QED BY InductiveInv, <1>1, PTL

(* A ready client is authenticated at the server, by its user's key.       *)
THEOREM ReadySafe == Spec => []ReadyIsAuthenticated
<1>1. Inv => ReadyIsAuthenticated
  BY DEF Inv, TypeOK, HandshakeInv, ReadyIsAuthenticated, Authenticated
<1> QED BY InductiveInv, <1>1, PTL

(* Each step issues a call, answers it, delivers its answer, or leaves all *)
(* three alone.                                                            *)
LEMMA PromiseStep == Inv /\ [Next]_vars => [Promise!Next]_(Promise!vars)
<1> SUFFICES ASSUME Inv, [Next]_vars PROVE [Promise!Next]_(Promise!vars)
  OBVIOUS
<1>a. TypeOK /\ \A c \in Calls : CallInv(c)
  BY DEF Inv
<1> DEFINE issued == {c \in Calls : pc[c] # "idle"}
           Unchanged == issued' = issued /\ answer' = answer /\ delivered' = delivered
<1>b. Unchanged => [Promise!Next]_(Promise!vars)
  BY DEF Promise!vars
<1>1. ASSUME NEW c \in Calls, StartCall(c) PROVE [Promise!Next]_(Promise!vars)
  <2>1. Promise!Issue(c)
    BY <1>1, <1>a DEF StartCall, Promise!Issue, TypeOK
  <2> QED BY <2>1 DEF Promise!Next
<1>2. ASSUME NEW c \in Calls, NEW o \in Outcomes, Reply(c, o)
      PROVE  [Promise!Next]_(Promise!vars)
  <2>1. Promise!Answer(c, o)
    BY <1>2, <1>a DEF Reply, Promise!Answer, CallInv, TypeOK, clientVars
  <2> QED BY <2>1 DEF Promise!Next
<1>3. ASSUME NEW c \in Calls, ReceiveReply(c) PROVE [Promise!Next]_(Promise!vars)
  <2>1. Promise!Deliver(c)
    BY <1>3, <1>a DEF ReceiveReply, Result, Promise!Deliver, CallInv, TypeOK
  <2> QED BY <2>1 DEF Promise!Next
<1>4. ASSUME NEW c \in Calls, SendCall(c) PROVE Unchanged
  BY <1>4, <1>a DEF SendCall, MaySend, TypeOK
<1>5. ASSUME NEW c \in Calls, ReceiveCall(c) \/ HandlerThrows(c) PROVE Unchanged
  BY <1>5 DEF ReceiveCall, Caller, HandlerThrows, clientVars
<1>6. ASSUME NEW k \in Conns, Connect(k) \/ Close(k) \/ ReceiveSignature(k) \/ LookupDone(k)
                              \/ LookupFails(k)
      PROVE  Unchanged
  BY <1>6 DEF Connect, Close, ReceiveSignature, LookupDone, LookupFails, clientVars
<1>7. ASSUME NEW k \in Conns, Authenticate(k) \/ HandleAuth(k) \/ Sign(k) \/ HandleReady(k)
      PROVE  Unchanged
  BY <1>7 DEF Authenticate, HandleAuth, Sign, HandleReady
<1>8. ASSUME NEW p \in Pushes, NEW k \in Conns, NEW o \in Outcomes,
             ReceivePushReply(p, k, o) \/ HandlePush(p, k, o)
      PROVE  Unchanged
  BY <1>8 DEF ReceivePushReply, PushOutcome, HandlePush, clientVars
<1>9. ASSUME NEW p \in Pushes, NEW k \in Conns, PushThrows(p, k) PROVE Unchanged
  BY <1>9 DEF PushThrows, clientVars
<1>10. ASSUME NEW p \in Pushes, Push(p) PROVE Unchanged
  BY <1>10 DEF Push, clientVars
<1>11. CASE UNCHANGED vars
  BY <1>11, <1>b DEF vars, clientVars
<1> HIDE DEF Unchanged
<1> QED
  BY <1>1, <1>2, <1>3, <1>4, <1>5, <1>6, <1>7, <1>8, <1>9, <1>10, <1>11, <1>b
     DEF Next, ServerStep, ClientStep

(* The session implements RequestReply: what a client's promise is settled *)
(* with is what the server answered, at most once, to a call it made.      *)
THEOREM SessionKeepsPromise == Spec => KeepsPromise
<1>1. Init => Promise!Init
  BY DEF Init, Promise!Init
<1> QED BY InductiveInv, PromiseStep, <1>1, PTL DEF Spec, Promise!Spec, KeepsPromise
=============================================================================
