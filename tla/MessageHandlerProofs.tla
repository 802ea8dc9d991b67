------------------------ MODULE MessageHandlerProofs ------------------------
(***************************************************************************)
(* Proofs about MessageHandler, for every value of its constants: that     *)
(* active_processes is exact, that no task outlives the Close callback,    *)
(* that replies are lost only where the code loses them, and that the      *)
(* handler keeps the promise of RequestReply.                              *)
(*                                                                         *)
(* The properties are not inductive by themselves.  What makes them so is  *)
(* Inv: where the reply to a call may be at each point of the call's life  *)
(* (CallInv), that nothing travels on a socket that is not open (NetInv),  *)
(* which callbacks go with which states of the socket (CallbackInv), and   *)
(* that a call of onOpen is not registered only while onOpen runs.         *)
(***************************************************************************)
EXTENDS MessageHandler, FiniteSetTheorems, TLAPS

CallInv(c) ==
    /\ pc[c] = "idle" => /\ c \notin atPeer /\ Ret(c) \notin inFlight
                         /\ taskPc[Ret(c)] = "none" /\ answer[c] = None
    /\ c \in atPeer => /\ taskPc[Ret(c)] = "none" /\ Ret(c) \notin inFlight
                       /\ answer[c] = None
    /\ Ret(c) \in inFlight => answer[c] # None
    /\ taskPc[Ret(c)] \in {"none", "run", "invoke"} => delivered[c] = None
    /\ taskPc[Ret(c)] \in {"run", "invoke"} => answer[c] # None
    /\ pc[c] = "registered" /\ taskPc[Ret(c)] \in {"none", "run"} => c \in returnMap
    /\ pc[c] # "idle" /\ taskPc[Ret(c)] = "none" =>
           c \in atPeer \/ Ret(c) \in inFlight \cup lost
    /\ taskPc[Ret(c)] \in {"clean", "leave", "done"} => delivered[c] # None \/ c \in early

NetInv == /\ conn # "open" => inFlight = {} /\ atPeer = {}
          /\ \A m \in inFlight : taskPc[m] = "none"

CallbackInv == /\ callback = "onOpen" => conn \in {"open", "broken"}
               /\ callback = "onClose" => conn = "closed"

OnOpenInv == \A c \in OnOpenCalls :
                 /\ pc[c] = "sent" => callback = "onOpen" /\ taskPc[Ret(c)] = "none"
                 /\ c \notin early

Inv == /\ TypeOK
       /\ ActiveProcessesExact
       /\ \A c \in Calls : CallInv(c)
       /\ NetInv
       /\ CallbackInv
       /\ OnOpenInv
       /\ EveryLiveTaskIsTracked
       /\ NoUseAfterClose
-----------------------------------------------------------------------------
(* The set of unfinished tasks, and how the steps of a task change it.     *)

LEMMA TasksFinite == IsFiniteSet(Tasks) /\ IsFiniteSet(Unfinished)
<1>1. IsFiniteSet(Rets)
  BY FiniteAssumption, FS_Singleton, FS_Product DEF Rets
<1>2. IsFiniteSet(Reqs)
  BY FiniteAssumption, FS_Singleton, FS_Product DEF Reqs
<1>3. IsFiniteSet(Tasks)
  BY <1>1, <1>2, FS_Union DEF Tasks
<1>4. Unfinished \subseteq Tasks
  BY DEF Unfinished
<1> QED BY <1>3, <1>4, FS_Subset

(* Facts about the names of tasks, for the steps of the provers.           *)
LEMMA TaskNames ==
    /\ \A c \in Calls : Ret(c) \in Tasks
    /\ \A i \in Incoming : Req(i) \in Tasks
    /\ \A c, d \in Calls : Ret(c) = Ret(d) => c = d
    /\ \A c \in Calls, i \in Incoming : Ret(c) # Req(i)
BY DEF Ret, Req, Tasks, Rets, Reqs

(* A task begins.                                                          *)
LEMMA UnfinishedBegin ==
    ASSUME TypeOK, NEW m \in Tasks, taskPc[m] = "none",
           taskPc' = [taskPc EXCEPT ![m] = "run"]
    PROVE  /\ Unfinished' = Unfinished \cup {m}
           /\ Cardinality(Unfinished') = Cardinality(Unfinished) + 1
<1>1. Unfinished' = Unfinished \cup {m} /\ m \notin Unfinished
  BY DEF Unfinished, TypeOK
<1> QED BY <1>1, TasksFinite, FS_AddElement

(* A task goes from one of its steps to another.                           *)
LEMMA UnfinishedStep ==
    ASSUME TypeOK, NEW m \in Tasks, taskPc[m] \in {"run", "invoke", "clean"},
           NEW s \in {"invoke", "clean", "leave"},
           taskPc' = [taskPc EXCEPT ![m] = s]
    PROVE  Unfinished' = Unfinished
BY DEF Unfinished, TypeOK

(* A task ends.                                                            *)
LEMMA UnfinishedEnd ==
    ASSUME TypeOK, NEW m \in Tasks, taskPc[m] = "leave",
           taskPc' = [taskPc EXCEPT ![m] = "done"]
    PROVE  /\ Unfinished' = Unfinished \ {m}
           /\ Cardinality(Unfinished') = Cardinality(Unfinished) - 1
<1>1. Unfinished' = Unfinished \ {m} /\ m \in Unfinished
  BY DEF Unfinished, TypeOK
<1> QED BY <1>1, TasksFinite, FS_RemoveElement
-----------------------------------------------------------------------------
LEMMA InitInv == Init => Inv
<1> SUFFICES ASSUME Init PROVE Inv
  OBVIOUS
<1>1. Unfinished = {}
  BY DEF Init, Unfinished
<1>2. TypeOK
  <2>1. sendReady \in BOOLEAN
    BY DEF Init
  <2> QED BY <2>1, BoundAssumption DEF Init, TypeOK
<1>3. ActiveProcessesExact
  BY <1>1, FS_EmptySet DEF Init, ActiveProcessesExact
<1>4. \A c \in Calls : CallInv(c)
  BY TaskNames DEF Init, CallInv
<1>5. NetInv /\ CallbackInv /\ OnOpenInv /\ EveryLiveTaskIsTracked /\ NoUseAfterClose
  BY <1>1 DEF Init, NetInv, CallbackInv, OnOpenInv, OnOpenCalls,
              EveryLiveTaskIsTracked, NoUseAfterClose
<1> QED BY <1>2, <1>3, <1>4, <1>5 DEF Inv

(* The counter: every step changes active as it changes what it counts.    *)
LEMMA ActiveStep == Inv /\ [Next]_vars => ActiveProcessesExact'
<1> SUFFICES ASSUME Inv, [Next]_vars PROVE ActiveProcessesExact'
  OBVIOUS
<1> USE DEF Inv, ActiveProcessesExact, Enter, Exit
<1>a. Cardinality(Unfinished) \in Nat
  BY TasksFinite, FS_CardinalityType
<1>b. ASSUME taskPc' = taskPc PROVE Unfinished' = Unfinished
  BY <1>b DEF Unfinished
<1>1. CASE OpenBegin
  BY <1>1, <1>a, <1>b DEF OpenBegin, taskVars, TypeOK
<1>2. CASE OpenEnd
  BY <1>2, <1>a, <1>b DEF OpenEnd, taskVars, TypeOK
<1>3. CASE CloseBegin
  BY <1>3, <1>a, <1>b DEF CloseBegin, taskVars, procVars
<1>4. CASE CloseEnd
  BY <1>4, <1>a, <1>b DEF CloseEnd, taskVars, procVars
<1>5. CASE ControlFrame
  BY <1>5, <1>a, <1>b DEF ControlFrame, taskVars, connVars, TypeOK
<1>6. ASSUME NEW m \in Tasks, Receive(m) PROVE ActiveProcessesExact'
  <2>1. taskPc[m] = "none" /\ taskPc' = [taskPc EXCEPT ![m] = "run"]
    BY <1>6 DEF Receive, NetInv
  <2>2. Cardinality(Unfinished') = Cardinality(Unfinished) + 1
    BY <2>1, UnfinishedBegin
  <2> QED BY <1>6, <1>a, <2>2 DEF Receive, connVars, TypeOK
<1>7. ASSUME NEW c \in Calls, SendBinary(c) PROVE ActiveProcessesExact'
  BY <1>7, <1>b DEF SendBinary, taskVars, procVars, connVars
<1>8. ASSUME NEW c \in Calls, Insert(c) PROVE ActiveProcessesExact'
  BY <1>8, <1>b DEF Insert, taskVars, procVars, connVars
<1>9. ASSUME NEW c \in Calls, Lookup(c) PROVE ActiveProcessesExact'
  <2>1. Unfinished' = Unfinished
    BY <1>9, UnfinishedStep, TaskNames DEF Lookup
  <2> QED BY <1>9, <2>1 DEF Lookup, procVars, connVars
<1>10. ASSUME NEW c \in Calls, Invoke(c) PROVE ActiveProcessesExact'
  <2>1. Unfinished' = Unfinished
    BY <1>10, UnfinishedStep, TaskNames DEF Invoke, Settle
  <2> QED BY <1>10, <2>1 DEF Invoke, Settle, procVars, connVars
<1>11. ASSUME NEW i \in Incoming, Serve(i) PROVE ActiveProcessesExact'
  <2>1. Unfinished' = Unfinished
    BY <1>11, UnfinishedStep, TaskNames DEF Serve
  <2> QED BY <1>11, <2>1 DEF Serve, procVars, connVars
<1>12. ASSUME NEW t \in Tasks, Clean(t) PROVE ActiveProcessesExact'
  <2>1. Unfinished' = Unfinished
    BY <1>12, UnfinishedStep DEF Clean, Ready
  <2> QED BY <1>12, <2>1 DEF Clean, Ready, procVars, connVars
<1>13. ASSUME NEW t \in Tasks, Leave(t) PROVE ActiveProcessesExact'
  <2>1. Cardinality(Unfinished') = Cardinality(Unfinished) - 1
    BY <1>13, UnfinishedEnd DEF Leave
  <2> QED BY <1>13, <1>a, <2>1 DEF Leave, connVars, TypeOK
<1>14. CASE PeerStep
  BY <1>14, <1>b DEF PeerStep, PeerAnswer, PeerRequest, LinkBreak, taskVars, procVars, connVars
<1>15. CASE UNCHANGED vars
  BY <1>15, <1>b DEF vars, taskVars, procVars, connVars
<1> QED
  BY <1>1, <1>2, <1>3, <1>4, <1>5, <1>6, <1>7, <1>8, <1>9, <1>10, <1>11, <1>12,
     <1>13, <1>14, <1>15 DEF Next, SocketStep, CallStep, TaskStep

(* What the environment, the calls and the tasks do to the types.          *)
LEMMA TypeStep == Inv /\ [Next]_vars => TypeOK'
<1> SUFFICES ASSUME Inv, [Next]_vars PROVE TypeOK'
  OBVIOUS
<1>a. TypeOK
  BY DEF Inv
<1>b. active' \in Nat
  <2>1. ActiveProcessesExact'
    BY ActiveStep
  <2>2. Cardinality(Unfinished)' \in Nat
    <3>1. Unfinished' \subseteq Tasks
      BY DEF Unfinished
    <3> QED BY <3>1, TasksFinite, FS_Subset, FS_CardinalityType
  <2>3. control' \in Nat
    BY <1>a, BoundAssumption DEF TypeOK, Next, SocketStep, CallStep, TaskStep, PeerStep,
       OpenBegin, OpenEnd, CloseBegin, CloseEnd, ControlFrame, Receive, SendBinary, Insert,
       Lookup, Invoke, Settle, Serve, Clean, Ready, Leave, PeerAnswer, PeerRequest, LinkBreak,
       vars, procVars
  <2> QED BY <2>1, <2>2, <2>3 DEF ActiveProcessesExact
<1> USE DEF TypeOK
<1>1. CASE OpenBegin
  <2>1. sendReady' \in BOOLEAN
    BY <1>1 DEF OpenBegin
  <2> QED BY <1>1, <1>a, <1>b, <2>1, BoundAssumption
          DEF OpenBegin, callVars, netVars, taskVars
<1>2. CASE OpenEnd
  BY <1>2, <1>a, <1>b DEF OpenEnd, callVars, netVars, taskVars
<1>3. CASE CloseBegin
  BY <1>3, <1>a, <1>b DEF CloseBegin, procVars, callVars, netVars, taskVars
<1>4. CASE CloseEnd
  BY <1>4, <1>a, <1>b DEF CloseEnd, procVars, callVars, netVars, taskVars
<1>5. CASE ControlFrame
  BY <1>5, <1>a, <1>b, BoundAssumption DEF ControlFrame, connVars, callVars, netVars, taskVars
<1>6. ASSUME NEW m \in Tasks, Receive(m) PROVE TypeOK'
  BY <1>6, <1>a, <1>b DEF Receive, connVars, callVars
<1>7. ASSUME NEW c \in Calls, SendBinary(c) PROVE TypeOK'
  BY <1>7, <1>a, <1>b, TaskNames DEF SendBinary, connVars, procVars, taskVars
<1>8. ASSUME NEW c \in Calls, Insert(c) PROVE TypeOK'
  BY <1>8, <1>a, <1>b DEF Insert, connVars, procVars, netVars, taskVars
<1>9. ASSUME NEW c \in Calls, Lookup(c) PROVE TypeOK'
  BY <1>9, <1>a, <1>b, TaskNames DEF Lookup, connVars, procVars, netVars
<1>10. ASSUME NEW c \in Calls, Invoke(c) PROVE TypeOK'
  BY <1>10, <1>a, <1>b, TaskNames DEF Invoke, Settle, connVars, procVars, netVars
<1>11. ASSUME NEW i \in Incoming, Serve(i) PROVE TypeOK'
  BY <1>11, <1>a, <1>b, TaskNames DEF Serve, connVars, procVars, callVars, netVars
<1>12. ASSUME NEW t \in Tasks, Clean(t) PROVE TypeOK'
  BY <1>12, <1>a, <1>b DEF Clean, Ready, connVars, procVars, callVars, netVars
<1>13. ASSUME NEW t \in Tasks, Leave(t) PROVE TypeOK'
  BY <1>13, <1>a, <1>b DEF Leave, connVars, callVars, netVars
<1>14. ASSUME NEW c \in Calls, NEW o \in Outcomes, PeerAnswer(c, o) PROVE TypeOK'
  BY <1>14, <1>a, <1>b, TaskNames DEF PeerAnswer, connVars, procVars, taskVars
<1>15. ASSUME NEW i \in Incoming, PeerRequest(i) PROVE TypeOK'
  BY <1>15, <1>a, <1>b, TaskNames DEF PeerRequest, connVars, procVars, callVars, taskVars
<1>16. CASE LinkBreak
  BY <1>16, <1>a, <1>b, TaskNames DEF LinkBreak, procVars, callVars, taskVars
<1>17. CASE UNCHANGED vars
  BY <1>17, <1>a DEF vars, connVars, procVars, callVars, netVars, taskVars
<1> QED
  BY <1>1, <1>2, <1>3, <1>4, <1>5, <1>6, <1>7, <1>8, <1>9, <1>10, <1>11, <1>12,
     <1>13, <1>14, <1>15, <1>16, <1>17 DEF Next, SocketStep, CallStep, TaskStep, PeerStep

(* Where the reply to a call is.  The steps of other calls and of requests *)
(* of the remote end change other tasks and messages (TaskNames).          *)
LEMMA CallInvStep == Inv /\ [Next]_vars => \A d \in Calls : CallInv(d)'
<1> SUFFICES ASSUME Inv, [Next]_vars, NEW d \in Calls PROVE CallInv(d)'
  OBVIOUS
<1>a. TypeOK /\ CallInv(d) /\ NetInv
  BY DEF Inv
<1>b. Ret(d) \in Tasks
  BY TaskNames
<1>c. /\ \A c \in Calls : Ret(c) = Ret(d) => c = d
      /\ \A i \in Incoming : Ret(d) # Req(i)
  BY TaskNames
<1> USE <1>a, <1>b, <1>c DEF TypeOK, CallInv
<1>1. CASE OpenBegin \/ OpenEnd \/ CloseBegin \/ CloseEnd \/ ControlFrame
  BY <1>1 DEF OpenBegin, OpenEnd, CloseBegin, CloseEnd, ControlFrame,
              callVars, netVars, taskVars
<1>2. ASSUME NEW m \in Tasks, Receive(m) PROVE CallInv(d)'
  BY <1>2 DEF Receive, callVars, NetInv
<1>3. ASSUME NEW c \in Calls, SendBinary(c) PROVE CallInv(d)'
  BY <1>3 DEF SendBinary, taskVars
<1>4. ASSUME NEW c \in Calls, Insert(c) PROVE CallInv(d)'
  BY <1>4 DEF Insert, netVars, taskVars
<1>5. ASSUME NEW c \in Calls, Lookup(c) PROVE CallInv(d)'
  BY <1>5 DEF Lookup, netVars
<1>6. ASSUME NEW c \in Calls, Invoke(c) PROVE CallInv(d)'
  BY <1>6 DEF Invoke, Settle, netVars
<1>7. ASSUME NEW i \in Incoming, Serve(i) PROVE CallInv(d)'
  BY <1>7 DEF Serve, callVars, netVars
<1>8. ASSUME NEW t \in Tasks, Clean(t) PROVE CallInv(d)'
  BY <1>8 DEF Clean, Ready, callVars, netVars
<1>9. ASSUME NEW t \in Tasks, Leave(t) PROVE CallInv(d)'
  BY <1>9 DEF Leave, callVars, netVars
<1>10. ASSUME NEW c \in Calls, NEW o \in Outcomes, PeerAnswer(c, o) PROVE CallInv(d)'
  BY <1>10, MHNoneAssumption DEF PeerAnswer, taskVars
<1>11. ASSUME NEW i \in Incoming, PeerRequest(i) PROVE CallInv(d)'
  BY <1>11 DEF PeerRequest, callVars, taskVars
<1>12. CASE LinkBreak
  BY <1>12 DEF LinkBreak, callVars, taskVars
<1>13. CASE UNCHANGED vars
  BY <1>13 DEF vars, callVars, netVars, taskVars
<1> QED
  BY <1>1, <1>2, <1>3, <1>4, <1>5, <1>6, <1>7, <1>8, <1>9, <1>10, <1>11, <1>12, <1>13
     DEF Next, SocketStep, CallStep, TaskStep, PeerStep

(* Nothing is on its way on a socket that is not open, a message on its    *)
(* way has started no task, and callbacks go with states of the socket.    *)
LEMMA NetInvStep == Inv /\ [Next]_vars => NetInv' /\ CallbackInv'
<1> SUFFICES ASSUME Inv, [Next]_vars PROVE NetInv' /\ CallbackInv'
  OBVIOUS
<1>a. TypeOK /\ NetInv /\ CallbackInv /\ \A c \in Calls : CallInv(c)
  BY DEF Inv
<1> USE <1>a, TaskNames DEF TypeOK, NetInv, CallbackInv
<1>1. CASE OpenBegin \/ OpenEnd \/ CloseBegin \/ CloseEnd \/ ControlFrame
  BY <1>1 DEF OpenBegin, OpenEnd, CloseBegin, CloseEnd, ControlFrame,
              connVars, netVars, taskVars
<1>2. ASSUME NEW m \in Tasks, Receive(m) PROVE NetInv' /\ CallbackInv'
  BY <1>2 DEF Receive, connVars
<1>3. ASSUME NEW c \in Calls, SendBinary(c) PROVE NetInv' /\ CallbackInv'
  BY <1>3 DEF SendBinary, connVars, taskVars
<1>4. ASSUME NEW c \in Calls, Insert(c) PROVE NetInv' /\ CallbackInv'
  BY <1>4 DEF Insert, connVars, netVars, taskVars
<1>5. ASSUME NEW c \in Calls, Lookup(c) \/ Invoke(c) PROVE NetInv' /\ CallbackInv'
  BY <1>5 DEF Lookup, Invoke, Settle, connVars, netVars
<1>6. ASSUME NEW i \in Incoming, Serve(i) PROVE NetInv' /\ CallbackInv'
  BY <1>6 DEF Serve, connVars, netVars
<1>7. ASSUME NEW t \in Tasks, Clean(t) \/ Leave(t) PROVE NetInv' /\ CallbackInv'
  BY <1>7 DEF Clean, Ready, Leave, connVars, netVars
<1>8. ASSUME NEW c \in Calls, NEW o \in Outcomes, PeerAnswer(c, o) PROVE NetInv' /\ CallbackInv'
  BY <1>8 DEF PeerAnswer, CallInv, connVars, taskVars
<1>9. ASSUME NEW i \in Incoming, PeerRequest(i) PROVE NetInv' /\ CallbackInv'
  BY <1>9 DEF PeerRequest, connVars, taskVars
<1>10. CASE LinkBreak
  BY <1>10 DEF LinkBreak, taskVars
<1>11. CASE UNCHANGED vars
  BY <1>11 DEF vars, connVars, netVars, taskVars
<1> QED
  BY <1>1, <1>2, <1>3, <1>4, <1>5, <1>6, <1>7, <1>8, <1>9, <1>10, <1>11
     DEF Next, SocketStep, CallStep, TaskStep, PeerStep

(* A call of onOpen is registered before the socket thread leaves onOpen,  *)
(* and until it leaves no task for the call's reply is started.            *)
LEMMA OnOpenInvStep == Inv /\ [Next]_vars => OnOpenInv'
<1> SUFFICES ASSUME Inv, [Next]_vars, NEW d \in OnOpenCalls
             PROVE  /\ pc'[d] = "sent" => callback' = "onOpen" /\ taskPc'[Ret(d)] = "none"
                    /\ d \notin early'
  BY DEF OnOpenInv, OnOpenCalls
<1> DEFINE Goal == /\ pc'[d] = "sent" => callback' = "onOpen" /\ taskPc'[Ret(d)] = "none"
                   /\ d \notin early'
<1>a. /\ d \in Calls /\ Origin[d] = "onOpen"
      /\ TypeOK /\ CallInv(d)
      /\ pc[d] = "sent" => callback = "onOpen" /\ taskPc[Ret(d)] = "none"
      /\ d \notin early
  BY DEF Inv, OnOpenInv, OnOpenCalls
<1> USE <1>a, TaskNames DEF TypeOK
<1>1. CASE OpenBegin \/ OpenEnd \/ CloseBegin \/ CloseEnd \/ ControlFrame
  BY <1>1 DEF OpenBegin, OpenEnd, CloseBegin, CloseEnd, ControlFrame, OnOpenCalls,
              connVars, callVars, taskVars
<1>2. ASSUME NEW m \in Tasks, Receive(m) PROVE Goal
  BY <1>2 DEF Receive, connVars, callVars
<1>3. ASSUME NEW c \in Calls, SendBinary(c) PROVE Goal
  BY <1>3, FiniteAssumption DEF SendBinary, MayRun, CallInv, connVars, taskVars
<1>4. ASSUME NEW c \in Calls, Insert(c) PROVE Goal
  BY <1>4 DEF Insert, connVars, taskVars
<1>5. ASSUME NEW c \in Calls, Lookup(c) PROVE Goal
  BY <1>5 DEF Lookup, CallInv, connVars
<1>6. ASSUME NEW c \in Calls, Invoke(c) PROVE Goal
  BY <1>6 DEF Invoke, Settle, connVars
<1>7. ASSUME NEW i \in Incoming, Serve(i) PROVE Goal
  BY <1>7 DEF Serve, connVars, callVars
<1>8. ASSUME NEW t \in Tasks, Clean(t) \/ Leave(t) PROVE Goal
  BY <1>8 DEF Clean, Ready, Leave, connVars, callVars
<1>9. CASE PeerStep
  BY <1>9 DEF PeerStep, PeerAnswer, PeerRequest, LinkBreak, connVars, callVars, taskVars
<1>10. CASE UNCHANGED vars
  BY <1>10 DEF vars, connVars, callVars, taskVars
<1> QED
  BY <1>1, <1>2, <1>3, <1>4, <1>5, <1>6, <1>7, <1>8, <1>9, <1>10
     DEF Next, SocketStep, CallStep, TaskStep

LEMMA TrackedStep == Inv /\ [Next]_vars => EveryLiveTaskIsTracked'
<1> SUFFICES ASSUME Inv, [Next]_vars PROVE EveryLiveTaskIsTracked'
  OBVIOUS
<1>a. TypeOK /\ EveryLiveTaskIsTracked
  BY DEF Inv
<1> USE <1>a, TaskNames DEF TypeOK, EveryLiveTaskIsTracked, Unfinished
<1>1. CASE OpenBegin \/ OpenEnd \/ CloseBegin \/ CloseEnd \/ ControlFrame
  BY <1>1 DEF OpenBegin, OpenEnd, CloseBegin, CloseEnd, ControlFrame, taskVars
<1>2. ASSUME NEW m \in Tasks, Receive(m) PROVE EveryLiveTaskIsTracked'
  BY <1>2 DEF Receive
<1>3. CASE CallStep
  BY <1>3 DEF CallStep, SendBinary, Insert, taskVars
<1>4. ASSUME NEW c \in Calls, Lookup(c) \/ Invoke(c) PROVE EveryLiveTaskIsTracked'
  BY <1>4 DEF Lookup, Invoke, Settle
<1>5. ASSUME NEW i \in Incoming, Serve(i) PROVE EveryLiveTaskIsTracked'
  BY <1>5 DEF Serve
<1>6. ASSUME NEW t \in Tasks, Clean(t) PROVE EveryLiveTaskIsTracked'
  BY <1>6 DEF Clean, Ready
<1>7. ASSUME NEW t \in Tasks, Leave(t) PROVE EveryLiveTaskIsTracked'
  BY <1>7 DEF Leave
<1>8. CASE PeerStep
  BY <1>8 DEF PeerStep, PeerAnswer, PeerRequest, LinkBreak, taskVars
<1>9. CASE UNCHANGED vars
  BY <1>9 DEF vars, taskVars
<1> QED
  BY <1>1, <1>2, <1>3, <1>4, <1>5, <1>6, <1>7, <1>8, <1>9
     DEF Next, SocketStep, TaskStep

(* CloseEnd finds active_processes at 0, so it counts no unfinished task;  *)
(* and while the socket stays closed no message arrives to start one.      *)
LEMMA NoUseAfterCloseStep == Inv /\ [Next]_vars => NoUseAfterClose'
<1> SUFFICES ASSUME Inv, [Next]_vars, conn' = "closed", callback' = "none"
             PROVE  Unfinished' = {}
  BY DEF NoUseAfterClose
<1>a. TypeOK /\ ActiveProcessesExact /\ NetInv /\ CallbackInv /\ NoUseAfterClose
  BY DEF Inv
<1>b. IsFiniteSet(Unfinished) /\ Cardinality(Unfinished) \in Nat
  BY TasksFinite, FS_CardinalityType
<1>c. ASSUME taskPc' = taskPc PROVE Unfinished' = Unfinished
  BY <1>c DEF Unfinished
<1>1. CASE CloseEnd
  <2>1. Cardinality(Unfinished) = 0
    BY <1>1, <1>a, <1>b DEF CloseEnd, ActiveProcessesExact, TypeOK
  <2>2. Unfinished = {}
    BY <2>1, <1>b, FS_EmptySet
  <2> QED BY <1>1, <1>c, <2>2 DEF CloseEnd, taskVars
<1>2. CASE OpenBegin \/ OpenEnd \/ CloseBegin \/ LinkBreak
  BY <1>2, <1>a DEF OpenBegin, OpenEnd, CloseBegin, LinkBreak, CallbackInv
<1>3. CASE ControlFrame \/ CallStep
  BY <1>3, <1>a, <1>c DEF ControlFrame, CallStep, SendBinary, Insert, NoUseAfterClose,
                          connVars, taskVars
<1>4. CASE \E m \in Tasks : Receive(m)
  BY <1>4, <1>a DEF Receive, NetInv, connVars
<1>5. CASE TaskStep
  <2>1. Unfinished = {}
    BY <1>5, <1>a DEF TaskStep, Lookup, Invoke, Settle, Serve, Clean, Ready, Leave, NoUseAfterClose, connVars
  <2>2. \A t \in Tasks : taskPc[t] \in {"none", "done"}
    BY <2>1 DEF Unfinished
  <2> QED BY <1>5, <2>2, TaskNames DEF TaskStep, Lookup, Invoke, Settle, Serve, Clean, Ready, Leave
<1>6. CASE \E c \in Calls, o \in Outcomes : PeerAnswer(c, o)
  BY <1>6, <1>a, <1>c DEF PeerAnswer, NoUseAfterClose, connVars, taskVars
<1>7. CASE \E i \in Incoming : PeerRequest(i)
  BY <1>7, <1>a, <1>c DEF PeerRequest, NoUseAfterClose, connVars, taskVars
<1>8. CASE UNCHANGED vars
  BY <1>8, <1>a, <1>c DEF vars, NoUseAfterClose, connVars, taskVars
<1> QED
  BY <1>1, <1>2, <1>3, <1>4, <1>5, <1>6, <1>7, <1>8 DEF Next, SocketStep, PeerStep
-----------------------------------------------------------------------------
LEMMA InductiveInv == Spec => []Inv
<1>1. Inv /\ [Next]_vars => Inv'
  BY ActiveStep, TypeStep, CallInvStep, NetInvStep, OnOpenInvStep, TrackedStep,
     NoUseAfterCloseStep DEF Inv
<1> QED BY InitInv, <1>1, PTL DEF Spec

(* Every variable keeps its type; active_processes is never negative.      *)
THEOREM TypeCorrect == Spec => []TypeOK
BY InductiveInv, PTL DEF Inv

(* active_processes counts what it is for, and the callbacks that leak it. *)
THEOREM CounterExact == Spec => []ActiveProcessesExact
BY InductiveInv, PTL DEF Inv

(* When the Close callback has returned, no task uses the connection.      *)
THEOREM CloseIsSafe == Spec => []NoUseAfterClose
BY InductiveInv, PTL DEF Inv

(* running_handlers holds the future of every unfinished task.             *)
THEOREM LiveTasksTracked == Spec => []EveryLiveTaskIsTracked
BY InductiveInv, PTL DEF Inv

(* The reply to a request of onOpen never overtakes its registration.      *)
THEOREM OpenCallSafe == Spec => []OpenCallNeverEarly
<1>1. Inv => OpenCallNeverEarly
  BY DEF Inv, OnOpenInv, OpenCallNeverEarly
<1> QED BY InductiveInv, <1>1, PTL

(* A registered call that is not settled lost its reply to the breaking of *)
(* the socket or to the race of send and handle_return, or will get it.    *)
THEOREM LossAccounted == Spec => []NoSilentLoss
<1>1. Inv => NoSilentLoss
  BY DEF Inv, CallInv, TypeOK, NoSilentLoss, Tasks, Rets, Ret
<1> QED BY InductiveInv, <1>1, PTL

(* Each step of the handler issues a request, answers it, delivers its     *)
(* answer, or leaves all three alone.                                      *)
LEMMA PromiseStep == Inv /\ [Next]_vars => [Promise!Next]_(Promise!vars)
<1> SUFFICES ASSUME Inv, [Next]_vars PROVE [Promise!Next]_(Promise!vars)
  OBVIOUS
<1>a. TypeOK /\ \A c \in Calls : CallInv(c)
  BY DEF Inv
<1> DEFINE issued == {c \in Calls : pc[c] # "idle"}
           Unchanged == issued' = issued /\ answer' = answer /\ delivered' = delivered
<1>b. Unchanged => [Promise!Next]_(Promise!vars)
  BY DEF Promise!vars
<1>1. ASSUME NEW c \in Calls, SendBinary(c) PROVE [Promise!Next]_(Promise!vars)
  <2>1. Promise!Issue(c)
    BY <1>1, <1>a DEF SendBinary, Promise!Issue, TypeOK
  <2> QED BY <2>1 DEF Promise!Next
<1>2. ASSUME NEW c \in Calls, Insert(c) PROVE Unchanged
  BY <1>2, <1>a DEF Insert, TypeOK
<1>3. ASSUME NEW c \in Calls, Lookup(c) PROVE Unchanged
  BY <1>3 DEF Lookup
<1>4. ASSUME NEW c \in Calls, Invoke(c) PROVE [Promise!Next]_(Promise!vars)
  <2>1. Promise!Deliver(c)
    BY <1>4, <1>a, TaskNames DEF Invoke, Settle, Promise!Deliver, CallInv, TypeOK
  <2> QED BY <2>1 DEF Promise!Next
<1>5. ASSUME NEW c \in Calls, NEW o \in Outcomes, PeerAnswer(c, o)
      PROVE  [Promise!Next]_(Promise!vars)
  <2>1. Promise!Answer(c, o)
    BY <1>5, <1>a DEF PeerAnswer, Promise!Answer, CallInv, TypeOK
  <2> QED BY <2>1 DEF Promise!Next
<1>6. CASE SocketStep
  BY <1>6, <1>b DEF SocketStep, OpenBegin, OpenEnd, CloseBegin, CloseEnd, ControlFrame,
                    Receive, callVars
<1>7. ASSUME NEW i \in Incoming, Serve(i) \/ PeerRequest(i) PROVE Unchanged
  BY <1>7 DEF Serve, PeerRequest, callVars
<1>8. ASSUME NEW t \in Tasks, Clean(t) \/ Leave(t) PROVE Unchanged
  BY <1>8 DEF Clean, Ready, Leave, callVars
<1>9. CASE LinkBreak \/ UNCHANGED vars
  BY <1>9, <1>b DEF LinkBreak, vars, callVars
<1> QED
  BY <1>1, <1>2, <1>3, <1>4, <1>5, <1>6, <1>7, <1>8, <1>9, <1>b
     DEF Next, CallStep, TaskStep, PeerStep

(* The handler implements RequestReply: a call is answered at most once,   *)
(* after it was made, and its caller is given that answer at most once.    *)
THEOREM HandlerKeepsPromise == Spec => KeepsPromise
<1>1. Init => Promise!Init
  BY DEF Init, Promise!Init
<1> QED BY InductiveInv, PromiseStep, <1>1, PTL DEF Spec, Promise!Spec, KeepsPromise
=============================================================================
