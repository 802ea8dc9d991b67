--------------------------- MODULE MessageHandler ---------------------------
(***************************************************************************)
(* One endpoint of a connection of the C++ library: the MessageHandler     *)
(* template that ClientConnectionHandler and ServerConnectionHandler share *)
(* (cpp/include/elonef-communication/handlers/messageHandler.hpp).         *)
(*                                                                         *)
(* Three kinds of thread run its code:                                     *)
(*   - the socket thread of ixwebsocket, which runs one callback at a time *)
(*     (Open, Close, Message, and the ones the handler has no case for),   *)
(*   - one std::async task per message received,                           *)
(*   - threads of the application, which make requests.                    *)
(* A request is sent and only then entered in return_uid_map, by two steps *)
(* of the thread that makes it; a reply is looked up by a task.            *)
(*                                                                         *)
(* The remote end is the environment: it answers each request it receives  *)
(* at most once and makes the requests of Incoming.  Contents are left out *)
(* except for the success byte of a reply.                                 *)
(***************************************************************************)
EXTENDS Integers, FiniteSets

CONSTANTS Calls,         \* the requests made at this end
          Origin,        \* Origin[c]: "user" (an application thread), "onOpen"
                         \* (the Open callback), or the request of Incoming
                         \* whose handler makes c and waits for its result
          Incoming,      \* the requests the remote end makes
          Blocking,      \* the calls and requests whose handler may never
                         \* return: it locks the mutex of a cache or waits
                         \* for a user, not only for replies
          MaxOpens,      \* bound: times the socket (re)connects
          MaxControl,    \* bound: callbacks that are not Open, Close, Message
          None           \* no answer

Outcomes == {"handle", "reject"}   \* success byte 1; any other byte

ASSUME FiniteAssumption ==
    /\ IsFiniteSet(Calls) /\ IsFiniteSet(Incoming)
    /\ "user" \notin Incoming /\ "onOpen" \notin Incoming
ASSUME OriginAssumption == Origin \in [Calls -> Incoming \cup {"user", "onOpen"}]
ASSUME BlockingAssumption == Blocking \subseteq Calls \cup Incoming
ASSUME BoundAssumption == MaxOpens \in Nat /\ MaxControl \in Nat
ASSUME MHNoneAssumption == None \notin Outcomes
(* Only the server makes a request from onOpen, and each of its sockets is *)
(* opened once; the socket of a client reconnects and its onOpen is empty. *)
ASSUME ServerOpensOnce == (\E c \in Calls : Origin[c] = "onOpen") => MaxOpens <= 1

VARIABLES
  conn,       \* the socket: "connecting", "open", "broken" (no frame passes
              \* any more, Close not yet called back), "closed"
  callback,   \* the callback the socket thread is in: "none", "onOpen", "onClose"
  opens,      \* Open callbacks so far
  sendReady,  \* send_ready
  active,     \* connData->active_processes
  control,    \* callbacks of other types so far
  pc,         \* each call: "idle", "sent", "registered"
  returnMap,  \* the calls in connData->return_uid_map
  answer,     \* the success byte the remote end answered each call with
  delivered,  \* what the ReturnHandler of each call was given
  atPeer,     \* calls the remote end has received and not answered
  inFlight,   \* messages on their way to this end
  taskPc,     \* each task: "none", "run", "invoke", "clean", "leave", "done"
  running,    \* running_handlers: the tasks whose future is kept
  early,      \* history: calls whose reply was looked up before the call
              \* was entered in return_uid_map
  lost        \* history: messages the breaking of a socket destroyed

connVars == <<conn, callback, opens, sendReady>>
procVars == <<active, control>>
callVars == <<pc, returnMap, answer, delivered, early>>
netVars  == <<atPeer, inFlight, lost>>
taskVars == <<taskPc, running>>
vars == <<connVars, procVars, callVars, netVars, taskVars>>

Ret(c) == <<"ret", c>>           \* the reply to call c, and the task it starts
Req(i) == <<"req", i>>           \* request i of the remote end, and its task
Rets == {"ret"} \X Calls
Reqs == {"req"} \X Incoming
Tasks == Rets \cup Reqs

Unfinished == {t \in Tasks : taskPc[t] \notin {"none", "done"}}

(* The handler of i waits for the result of a request it made itself.      *)
Waiting(i) == \E c \in Calls : /\ Origin[c] = i
                               /\ pc[c] # "idle"
                               /\ delivered[c] = None

OnOpenCalls == {c \in Calls : Origin[c] = "onOpen"}

Init == /\ conn = "connecting" /\ callback = "none"
        /\ opens = 0 /\ sendReady = FALSE
        /\ active = 0 /\ control = 0
        /\ pc = [c \in Calls |-> "idle"]
        /\ returnMap = {}
        /\ answer = [c \in Calls |-> None]
        /\ delivered = [c \in Calls |-> None]
        /\ early = {} /\ lost = {}
        /\ atPeer = {} /\ inFlight = {}
        /\ taskPc = [t \in Tasks |-> "none"]
        /\ running = {}

(* active_processes++ and active_processes--.                              *)
\* Mutant: a decrement left out.
ExitForgotten == UNCHANGED active
Enter == active' = active + 1
Exit == active' = active - 1
-----------------------------------------------------------------------------
(* The socket thread.  The definitions that follow a line "Mutant" are     *)
(* faults for the checks of the properties, used by no action.             *)

OpenBegin == /\ callback = "none"
             /\ conn \in {"connecting", "closed"}
             /\ opens < MaxOpens
             /\ conn' = "open" /\ callback' = "onOpen"
             /\ opens' = opens + 1 /\ sendReady' = TRUE
             /\ Enter
             /\ UNCHANGED <<control, callVars, netVars, taskVars>>

OpenEnd == /\ callback = "onOpen"
           /\ \A c \in OnOpenCalls : pc[c] = "registered"
           /\ callback' = "none"
           /\ Exit
           /\ UNCHANGED <<conn, opens, sendReady, control, callVars, netVars, taskVars>>

(* active_processes is incremented and decremented around onClose, empty   *)
(* at both ends; then the thread spins until it is 0 (CloseEnd).           *)
CloseBegin == /\ callback = "none"
              /\ conn = "broken"
              /\ conn' = "closed" /\ callback' = "onClose"
              /\ UNCHANGED <<opens, sendReady, procVars, callVars, netVars, taskVars>>

\* Mutant: the Close callback does not wait for the tasks.
CloseEndAtOnce == /\ callback = "onClose"
                  /\ callback' = "none"
                  /\ UNCHANGED <<conn, opens, sendReady, procVars, callVars, netVars, taskVars>>
CloseEnd == /\ callback = "onClose"
            /\ active = 0
            /\ callback' = "none"
            /\ UNCHANGED <<conn, opens, sendReady, procVars, callVars, netVars, taskVars>>

(* A Ping, Pong, Fragment or Error callback: the counter goes up, the      *)
(* switch has no case for it, and the counter never comes down.            *)
ControlFrame == /\ callback = "none"
                /\ conn # "broken"
                /\ control < MaxControl
                /\ control' = control + 1
                /\ Enter
                /\ UNCHANGED <<connVars, callVars, netVars, taskVars>>

Receive(m) == /\ callback = "none"
              /\ m \in inFlight
              /\ inFlight' = inFlight \ {m}
              /\ Enter
              /\ taskPc' = [taskPc EXCEPT ![m] = "run"]
              /\ running' = running \cup {m}
              /\ UNCHANGED <<connVars, control, callVars, atPeer, lost>>
-----------------------------------------------------------------------------
(* The thread that makes a request.                                        *)

MayRun(c) == \/ Origin[c] = "user"
             \/ Origin[c] = "onOpen" /\ callback = "onOpen"
             \/ /\ Origin[c] \in Incoming
                /\ taskPc[Req(Origin[c])] = "run"
                /\ ~ Waiting(Origin[c])

(* send: waitForReady, then sendBinary, which drops the frame when the     *)
(* socket is not open and reports that in a result nobody reads.           *)
SendBinary(c) == /\ pc[c] = "idle"
                 /\ sendReady
                 /\ MayRun(c)
                 /\ pc' = [pc EXCEPT ![c] = "sent"]
                 /\ IF conn = "open"
                    THEN atPeer' = atPeer \cup {c} /\ UNCHANGED lost
                    ELSE lost' = lost \cup {Ret(c)} /\ UNCHANGED atPeer
                 /\ UNCHANGED <<connVars, procVars, returnMap, answer, delivered,
                                early, inFlight, taskVars>>

\* Mutant: entering a call forgets the others.
InsertAlone(c) == /\ pc[c] = "sent"
                  /\ pc' = [pc EXCEPT ![c] = "registered"]
                  /\ returnMap' = {c}
                  /\ UNCHANGED <<connVars, procVars, answer, delivered, early, netVars, taskVars>>
Insert(c) == /\ pc[c] = "sent"
             /\ pc' = [pc EXCEPT ![c] = "registered"]
             /\ returnMap' = returnMap \cup {c}
             /\ UNCHANGED <<connVars, procVars, answer, delivered, early, netVars, taskVars>>
-----------------------------------------------------------------------------
(* The tasks.                                                              *)

(* handle_return, under uuid_map_mu: a reply no call is entered for is     *)
(* dropped.                                                                *)
Lookup(c) == /\ taskPc[Ret(c)] = "run"
             /\ \/ /\ c \in returnMap
                   /\ returnMap' = returnMap \ {c}
                   /\ taskPc' = [taskPc EXCEPT ![Ret(c)] = "invoke"]
                   /\ UNCHANGED early
                \/ /\ c \notin returnMap
                   /\ early' = early \cup {c}
                   /\ taskPc' = [taskPc EXCEPT ![Ret(c)] = "clean"]
                   /\ UNCHANGED returnMap
             /\ UNCHANGED <<connVars, procVars, pc, answer, delivered, netVars, running>>

(* handle_return after the unlock: handle or reject by the success byte.   *)
Settle(c, value) ==
    /\ taskPc[Ret(c)] = "invoke"
    /\ delivered' = [delivered EXCEPT ![c] = value]
    /\ taskPc' = [taskPc EXCEPT ![Ret(c)] = "clean"]
    /\ UNCHANGED <<connVars, procVars, pc, returnMap, answer, early, netVars, running>>
\* Mutant: the success byte is not looked at.
InvokeAlwaysHandles(c) == Settle(c, "handle")
Invoke(c) == Settle(c, answer[c])

(* _handle_message_switch for an API request, a message of the derived     *)
(* class or an AUTH request.  The handler may have made requests of its    *)
(* own and returns when they have.  The reply sent after it (none for an   *)
(* AUTH request) goes to the remote end and changes nothing here.  When the*)
(* callback of a reply throws, an end sends a RETURN frame with no uuid,   *)
(* for handle_return has emptied it: the receiver takes all of it for a    *)
(* short uuid and finds no type.  Its task handles whatever the unset type *)
(* byte says: here a request without calls.                                *)
Serve(i) == /\ taskPc[Req(i)] = "run"
            /\ ~ Waiting(i)
            /\ taskPc' = [taskPc EXCEPT ![Req(i)] = "clean"]
            /\ UNCHANGED <<connVars, procVars, callVars, netVars, running>>

\* Mutant: the future of a task still about to leave passes for ready.
ReadyTooSoon(t) == taskPc[t] \in {"leave", "done"}
(* check_if_future_is_ready.                                               *)
Ready(t) == taskPc[t] = "done"

(* clean_executors: drops the futures that are ready, unless another       *)
(* thread holds cleaning_mu.  The future of t itself is not ready yet.     *)
Clean(t) == /\ taskPc[t] = "clean"
            /\ taskPc' = [taskPc EXCEPT ![t] = "leave"]
            /\ \/ running' = {u \in running : ~ Ready(u)}
               \/ UNCHANGED running
            /\ UNCHANGED <<connVars, procVars, callVars, netVars>>

Leave(t) == /\ taskPc[t] = "leave"
            /\ taskPc' = [taskPc EXCEPT ![t] = "done"]
            /\ Exit
            /\ UNCHANGED <<connVars, control, callVars, netVars, running>>
-----------------------------------------------------------------------------
(* The remote end and the network.                                         *)

PeerAnswer(c, o) == /\ c \in atPeer
                    /\ atPeer' = atPeer \ {c}
                    /\ answer' = [answer EXCEPT ![c] = o]
                    /\ inFlight' = inFlight \cup {Ret(c)}
                    /\ UNCHANGED <<connVars, procVars, pc, returnMap, delivered, early,
                                   lost, taskVars>>

PeerRequest(i) == /\ conn = "open"
                  /\ Req(i) \notin inFlight \cup lost
                  /\ taskPc[Req(i)] = "none"
                  /\ inFlight' = inFlight \cup {Req(i)}
                  /\ UNCHANGED <<connVars, procVars, callVars, atPeer, lost, taskVars>>

LinkBreak == /\ conn = "open"
             /\ conn' = "broken"
             /\ lost' = lost \cup inFlight \cup {Ret(c) : c \in atPeer}
             /\ inFlight' = {} /\ atPeer' = {}
             /\ UNCHANGED <<callback, opens, sendReady, procVars, callVars, taskVars>>
-----------------------------------------------------------------------------
SocketStep == \/ OpenBegin \/ OpenEnd \/ CloseBegin \/ CloseEnd \/ ControlFrame
              \/ \E m \in Tasks : Receive(m)
CallStep == \E c \in Calls : SendBinary(c) \/ Insert(c)
TaskStep == \/ \E c \in Calls : Lookup(c) \/ Invoke(c)
            \/ \E i \in Incoming : Serve(i)
            \/ \E t \in Tasks : Clean(t) \/ Leave(t)
PeerStep == \/ \E c \in Calls, o \in Outcomes : PeerAnswer(c, o)
            \/ \E i \in Incoming : PeerRequest(i)
            \/ LinkBreak

Next == SocketStep \/ CallStep \/ TaskStep \/ PeerStep

Spec == Init /\ [][Next]_vars

(* Every thread that can run does: the tasks are launched, the thread that *)
(* sent a request goes on to enter it, and the socket thread takes the     *)
(* next event.  The remote end answers what it received, except the AUTH   *)
(* request of onOpen, whose answer waits for a user to authenticate.  A    *)
(* handler returns, unless it is one of Blocking: Cache::handle locks the  *)
(* mutex of the cache (cache.hpp:77), and so does a handler that loads     *)
(* keys (cache.hpp:48); a reply whose handling threw may have left that    *)
(* mutex locked for ever (KeyCache).  No fairness for what the application,*)
(* the network and the remote user do of their own will.                   *)
Fairness ==
    /\ WF_vars(OpenEnd) /\ WF_vars(CloseBegin) /\ WF_vars(CloseEnd)
    /\ \A t \in Tasks : WF_vars(Receive(t)) /\ WF_vars(Clean(t)) /\ WF_vars(Leave(t))
    /\ \A c \in Calls : WF_vars(Insert(c)) /\ WF_vars(Lookup(c))
    /\ \A c \in Calls \ Blocking : WF_vars(Invoke(c))
    /\ \A c \in OnOpenCalls : WF_vars(SendBinary(c))
    /\ \A c \in Calls \ OnOpenCalls : WF_vars(\E o \in Outcomes : PeerAnswer(c, o))
    /\ \A i \in Incoming \ Blocking : WF_vars(Serve(i))

FairSpec == Spec /\ Fairness
-----------------------------------------------------------------------------
(* Every variable keeps its type; in particular active_processes never     *)
(* goes below zero, where the spin of the Close callback would not end.    *)
TypeOK ==
    /\ conn \in {"connecting", "open", "broken", "closed"}
    /\ callback \in {"none", "onOpen", "onClose"}
    /\ opens \in 0..MaxOpens /\ sendReady \in BOOLEAN
    /\ active \in Nat /\ control \in 0..MaxControl
    /\ pc \in [Calls -> {"idle", "sent", "registered"}]
    /\ returnMap \subseteq Calls /\ early \subseteq Calls
    /\ answer \in [Calls -> Outcomes \cup {None}]
    /\ delivered \in [Calls -> Outcomes \cup {None}]
    /\ atPeer \subseteq Calls
    /\ inFlight \subseteq Tasks /\ lost \subseteq Tasks
    /\ taskPc \in [Tasks -> {"none", "run", "invoke", "clean", "leave", "done"}]
    /\ running \subseteq Tasks

(* active_processes counts the unfinished tasks, the Open callback in      *)
(* progress and, for ever, the callbacks the switch has no case for.       *)
ActiveProcessesExact ==
    active = Cardinality(Unfinished) + control + (IF callback = "onOpen" THEN 1 ELSE 0)

(* Once the Close callback has returned, and until the socket opens again, *)
(* no task still uses the socket or its ConnectionData, which ixwebsocket  *)
(* may then free: what the spin of handle_message is for.                  *)
NoUseAfterClose == conn = "closed" /\ callback = "none" => Unfinished = {}

(* clean_executors never drops the future of a task that still runs, whose *)
(* destructor would make the cleaning thread wait for that task; so the    *)
(* destructor of the handler, which waits for the futures in               *)
(* running_handlers, waits for every unfinished task.                      *)
EveryLiveTaskIsTracked == Unfinished \subseteq running

(* The reply to a request made from the Open callback is never looked up   *)
(* before the request is entered in return_uid_map, although it is sent    *)
(* first: the socket thread cannot take the reply before onOpen returns.   *)
OpenCallNeverEarly == early \cap OnOpenCalls = {}

(* A call that is entered in return_uid_map and not settled still has a    *)
(* way to settle (the remote end holds it, its reply is on the way or a    *)
(* task is about to look it up) unless the socket broke under it or its    *)
(* reply was looked up too early: nothing else loses a reply.              *)
NoSilentLoss ==
    \A c \in Calls : pc[c] = "registered" /\ delivered[c] = None =>
        \/ c \in atPeer
        \/ Ret(c) \in inFlight \cup lost
        \/ taskPc[Ret(c)] = "run" /\ c \in returnMap
        \/ taskPc[Ret(c)] = "invoke"
        \/ c \in early

(* The handler implements the promise of RequestReply.                     *)
Promise == INSTANCE RequestReply WITH Requests <- Calls,
               issued <- {c \in Calls : pc[c] # "idle"}
KeepsPromise == Promise!Spec

(* The Close callback returns, unless a callback of another type left      *)
(* active_processes too high, or a task stays for ever where it is: in a   *)
(* handler that waits for the result of a request of its own, whose reply  *)
(* can no longer come, or in one that may block.                           *)
CloseReturns ==
    callback = "onClose" ~>
        \/ callback = "none"
        \/ control > 0
        \/ \E i \in Incoming :
              [](taskPc[Req(i)] = "run" /\ (Waiting(i) \/ i \in Blocking))
        \/ \E c \in Calls \cap Blocking : [](taskPc[Ret(c)] = "invoke")

(* What the test program relies on when it prints the size of what         *)
(* read_messages returned (cpp/test/main_test.cpp:81): a request made      *)
(* while the socket is open, and not overtaken by its breaking, returns.   *)
RequestsReturn ==
    \A c \in Calls : c \in atPeer ~> delivered[c] # None \/ Ret(c) \in lost
=============================================================================
