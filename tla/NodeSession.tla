---------------------------- MODULE NodeSession -----------------------------
(***************************************************************************)
(* Sessions of the Node library: one ServerConnectionHandler and, at the   *)
(* other end of each of its sockets, one ClientConnectionHandler; both are *)
(* ConnectionHandlers (node/src/handlers/*.ts).                            *)
(*                                                                         *)
(* Each program is single-threaded: an action is a handler from the event  *)
(* that starts it to its next await that really waits (for a message, for  *)
(* the database behind a callback, for the key of the user, for the        *)
(* application), with everything a resolved promise runs at once.          *)
(*                                                                         *)
(* Messages of a socket are kept in sets: the server handles them as they  *)
(* come, the client after an await of buffer_getter, which is given by the *)
(* application and may finish in any order.  A handler that is still       *)
(* waiting when its socket closes goes on when it is resumed; what is sent *)
(* on a socket that is not open is dropped without an error.               *)
(***************************************************************************)
EXTENDS FiniteSets

CONSTANTS Conns,      \* the sockets, each with its client
          User,       \* User[k]: the uid the client of k authenticates as
          Enrolled,   \* the sockets whose client signs with the key that
                      \* get_pub_key returns for its user
          Calls,      \* requests made by clients
          ConnOf,     \* ConnOf[c]: the socket c is made on
          Held,       \* the calls sent with hold (waitForAuth)
          AuthNeeded, \* the calls whose handler at the server runs check_auth
          Pushes,     \* requests the server makes (make_api_request)
          Targets,    \* Targets[p]: the users p is addressed to
          None        \* no value (yet)

Outcomes == {"ok", "forwarded"}  \* success byte 1; 0, for a ForwardedError

ASSUME CallAssumption == /\ ConnOf \in [Calls -> Conns]
                         /\ Held \subseteq Calls
                         /\ AuthNeeded \subseteq Calls
ASSUME ConnAssumption == Enrolled \subseteq Conns
ASSUME NSNoneAssumption == None \notin Outcomes

VARIABLES
  sock,       \* each socket: "new", "open", "closing" (the server called
              \* close and sends nothing more), "closed"
  auth,       \* authanticate at the server: "none", "challenged", "lookup"
              \* (waiting for get_pub_key), "done", "failed"
  connections,\* the sockets in connections (each under its user)
  seenAs,     \* what on_message captured for each call that arrived:
              \* "nobody" (not arrived), "anonymous", "user"
  serving,    \* the calls whose handler is waiting at the server
  pushTo,     \* each push: the sockets it was sent on, None before
  got,        \* each push and socket: what the resolver was called with
  keyed,      \* the clients that called authenticate
  challenge,  \* handle_auth at each client: "none", "pending", "signed"
  ready,      \* the clients whose promise ready is resolved
  pc,         \* each call: "idle", "holding" (in send's awaits), "sent"
  answer,     \* what the server replied to each call
  delivered,  \* what the promise of each call was settled with
  threw,      \* the calls, and the <<push, socket>> pairs, whose handler threw
              \* an error that is not forwarded: nothing is replied
  toServer,   \* messages on their way: <<kind, socket, call or push>>
  toClient,
  raced       \* history: sockets that closed while get_pub_key was awaited

serverVars == <<auth, connections, seenAs, serving, pushTo, got>>
clientVars == <<keyed, challenge, ready, pc, delivered>>
vars == <<sock, serverVars, clientVars, answer, threw, toServer, toClient, raced>>

Authenticated(k) == auth[k] = "done"

(* ws.send: a frame reaches the network only from an open socket.  The     *)
(* client learns of the server's close when its own socket closes.         *)
FromServer(k, kind, x) ==
    toClient' = IF sock[k] = "open" THEN toClient \cup {<<kind, k, x>>} ELSE toClient
FromClient(k, kind, x) ==
    toServer' = IF sock[k] \in {"open", "closing"}
                THEN toServer \cup {<<kind, k, x>>} ELSE toServer

Init == /\ sock = [k \in Conns |-> "new"]
        /\ auth = [k \in Conns |-> "none"]
        /\ connections = {} /\ raced = {}
        /\ seenAs = [c \in Calls |-> "nobody"] /\ serving = {}
        /\ pushTo = [p \in Pushes |-> None]
        /\ got = [p \in Pushes |-> [k \in Conns |-> None]]
        /\ keyed = {} /\ ready = {}
        /\ challenge = [k \in Conns |-> "none"]
        /\ pc = [c \in Calls |-> "idle"]
        /\ answer = [c \in Calls |-> None]
        /\ delivered = [c \in Calls |-> None]
        /\ threw = {} /\ toServer = {} /\ toClient = {}
-----------------------------------------------------------------------------
(* The server.  The definitions that follow a line "Mutant" are faults for *)
(* the checks of the properties, used by no action.                        *)

(* on_connection: the message listener is attached and authanticate sends  *)
(* its challenge and waits for the reply.                                  *)
Connect(k) == /\ sock[k] = "new"
              /\ sock' = [sock EXCEPT ![k] = "open"]
              /\ auth' = [auth EXCEPT ![k] = "challenged"]
              /\ toClient' = toClient \cup {<<"AUTH", k, None>>}
              /\ UNCHANGED <<connections, seenAs, serving, pushTo, got, clientVars,
                             answer, threw, toServer, raced>>

(* recv of the reply to the challenge: authanticate goes on to get_pub_key.*)
ReceiveSignature(k) ==
    /\ <<"SIGNATURE", k, None>> \in toServer
    /\ toServer' = toServer \ {<<"SIGNATURE", k, None>>}
    /\ auth' = [auth EXCEPT ![k] = "lookup"]
    /\ UNCHANGED <<sock, connections, seenAs, serving, pushTo, got, clientVars, answer, threw,
                   toClient, raced>>

(* get_pub_key has returned: the signature is verified, the state of the   *)
(* connection set, message 16 sent, the socket entered in connections and  *)
(* its close listener attached, with nothing awaited in between.           *)
LookupDone(k) ==
    /\ auth[k] = "lookup" /\ k \in Enrolled
    /\ auth' = [auth EXCEPT ![k] = "done"]
    /\ FromServer(k, "READY", None)
    /\ connections' = connections \cup {k}
    /\ UNCHANGED <<sock, seenAs, serving, pushTo, got, clientVars, answer, threw,
                   toServer, raced>>

(* get_pub_key was rejected or has no key, or the key is not the one that  *)
(* signed: authanticate throws; the socket stays open, neither             *)
(* authenticated nor entered.                                              *)
LookupFails(k) ==
    /\ auth[k] = "lookup"
    /\ auth' = [auth EXCEPT ![k] = "failed"]
    /\ UNCHANGED <<sock, connections, seenAs, serving, pushTo, got, clientVars,
                   answer, threw, toServer, toClient, raced>>

(* check_auth: closes the socket; its caller goes on nevertheless.         *)
CheckAuth(k, needed) ==
    sock' = IF needed /\ ~ Authenticated(k) /\ sock[k] = "open"
            THEN [sock EXCEPT ![k] = "closing"] ELSE sock

Caller(k) == IF Authenticated(k) THEN "user" ELSE "anonymous"

(* on_message captures uid and authenticated, handle_message starts the    *)
(* handler of the request.                                                 *)
ReceiveCall(c) == LET k == ConnOf[c] IN
    /\ <<"call", k, c>> \in toServer
    /\ toServer' = toServer \ {<<"call", k, c>>}
    /\ seenAs' = [seenAs EXCEPT ![c] = Caller(k)]
    /\ CheckAuth(k, c \in AuthNeeded)
    /\ serving' = serving \cup {c}
    /\ UNCHANGED <<auth, connections, pushTo, got, clientVars, answer, threw,
                   toClient, raced>>

(* The handler has finished: handle_message replies, also to an error that *)
(* is forwarded.                                                           *)
Reply(c, o) ==
    /\ c \in serving
    /\ serving' = serving \ {c}
    /\ answer' = [answer EXCEPT ![c] = o]
    /\ FromServer(ConnOf[c], "reply", c)
    /\ UNCHANGED <<sock, auth, connections, seenAs, pushTo, got, clientVars, threw,
                   toServer, raced>>

(* Any other error is thrown on: nothing is replied.                       *)
HandlerThrows(c) ==
    /\ c \in serving
    /\ serving' = serving \ {c}
    /\ threw' = threw \cup {c}
    /\ UNCHANGED <<sock, auth, connections, seenAs, pushTo, got, clientVars, answer,
                   toServer, toClient, raced>>

(* make_api_request: sent on every socket connections has for a target.    *)
Push(p) == LET socks == {k \in connections : User[k] \in Targets[p]} IN
    /\ pushTo[p] = None
    /\ pushTo' = [pushTo EXCEPT ![p] = socks]
    /\ toClient' = toClient \cup {<<"push", k, p>> : k \in {s \in socks : sock[s] = "open"}}
    /\ UNCHANGED <<sock, auth, connections, seenAs, serving, got, clientVars, answer,
                   threw, toServer, raced>>

\* Mutant: success byte 0 is not recorded as a rejection.
PushOutcomeIgnoresErrors(k, o) == IF o = "ok" /\ Authenticated(k) THEN "ok" ELSE None
PushOutcome(k, o) == IF o = "ok" /\ Authenticated(k) THEN "ok" ELSE "forwarded"

(* recv of the reply to a push: the resolver rejects it on success byte 0, *)
(* and on 1 runs check_auth before it resolves it.                         *)
ReceivePushReply(p, k, o) ==
    /\ <<o, k, p>> \in toServer
    /\ toServer' = toServer \ {<<o, k, p>>}
    /\ CheckAuth(k, o = "ok")
    /\ got' = [got EXCEPT ![p][k] = PushOutcome(k, o)]
    /\ UNCHANGED <<auth, connections, seenAs, serving, pushTo, clientVars, answer,
                   threw, toClient, raced>>
-----------------------------------------------------------------------------
(* The network.                                                            *)

\* Mutant: the close listener does not delete the entry.
UnlistedKept(k) == connections
(* The close listener of add_connection, if it is attached.                *)
Unlisted(k) == connections \ {k}

(* The socket closes, for a client that leaves, for a fault of the network *)
(* or because the server closed it.                                        *)
Close(k) ==
    /\ sock[k] \in {"open", "closing"}
    /\ sock' = [sock EXCEPT ![k] = "closed"]
    /\ connections' = Unlisted(k)
    /\ toServer' = {m \in toServer : m[2] # k}
    /\ toClient' = {m \in toClient : m[2] # k}
    /\ raced' = IF auth[k] = "lookup" THEN raced \cup {k} ELSE raced
    /\ UNCHANGED <<auth, seenAs, serving, pushTo, got, clientVars, answer, threw>>
-----------------------------------------------------------------------------
(* The client.                                                             *)

Authenticate(k) ==
    /\ k \notin keyed
    /\ keyed' = keyed \cup {k}
    /\ UNCHANGED <<sock, serverVars, challenge, ready, pc, delivered, answer, threw,
                   toServer, toClient, raced>>

\* Mutant: handle_auth does not look for a key that is already there.
AfterChallengeDeaf(k) == IF k \in keyed THEN "none" ELSE "pending"
AfterChallenge(k) == "pending"

(* handle_auth: makeConnectionReady, then wait for the key.                *)
HandleAuth(k) ==
    /\ <<"AUTH", k, None>> \in toClient
    /\ toClient' = toClient \ {<<"AUTH", k, None>>}
    /\ challenge' = [challenge EXCEPT ![k] = AfterChallenge(k)]
    /\ UNCHANGED <<sock, serverVars, keyed, ready, pc, delivered, answer, threw,
                   toServer, raced>>

(* handle_auth resumed, by sign_for_auth or at once: the signed reply.     *)
Sign(k) ==
    /\ challenge[k] = "pending" /\ k \in keyed
    /\ challenge' = [challenge EXCEPT ![k] = "signed"]
    /\ FromClient(k, "SIGNATURE", None)
    /\ UNCHANGED <<sock, serverVars, keyed, ready, pc, delivered, answer, threw,
                   toClient, raced>>

(* handle_single_side_messages, type 16: make_ready; no reply.             *)
HandleReady(k) ==
    /\ <<"READY", k, None>> \in toClient
    /\ toClient' = toClient \ {<<"READY", k, None>>}
    /\ ready' = ready \cup {k}
    /\ UNCHANGED <<sock, serverVars, keyed, challenge, pc, delivered, answer, threw,
                   toServer, raced>>

StartCall(c) ==
    /\ pc[c] = "idle"
    /\ pc' = [pc EXCEPT ![c] = "holding"]
    /\ UNCHANGED <<sock, serverVars, keyed, challenge, ready, delivered, answer, threw,
                   toServer, toClient, raced>>

\* Mutant: hold is ignored.
MaySendAtOnce(c) == challenge[ConnOf[c]] # "none"
(* The awaits of send: ready, if the call is held, and connectionWaiter.   *)
MaySend(c) == /\ c \in Held => ConnOf[c] \in ready
              /\ challenge[ConnOf[c]] # "none"

SendCall(c) == LET k == ConnOf[c] IN
    /\ pc[c] = "holding"
    /\ MaySend(c)
    /\ pc' = [pc EXCEPT ![c] = "sent"]
    /\ FromClient(k, "call", c)
    /\ UNCHANGED <<sock, serverVars, keyed, challenge, ready, delivered, answer, threw,
                   toClient, raced>>

\* Mutants: the success byte is not looked at; a forwarded error is only
\* given to the error handler.
ResultAlwaysOk(c) == "ok"
ResultSwallowed(c) == IF answer[c] = "ok" THEN "ok" ELSE None
Result(c) == answer[c]

(* recv of a reply: on success byte 0 the error handler is called and the  *)
(* promise rejected with the RemoteError, whatever the handler returned.   *)
ReceiveReply(c) == LET m == <<"reply", ConnOf[c], c>> IN
    /\ m \in toClient
    /\ toClient' = toClient \ {m}
    /\ delivered' = [delivered EXCEPT ![c] = Result(c)]
    /\ UNCHANGED <<sock, serverVars, keyed, challenge, ready, pc, answer, threw,
                   toServer, raced>>

(* handle_api_call at the client, and the reply to the push.               *)
HandlePush(p, k, o) ==
    /\ <<"push", k, p>> \in toClient
    /\ toClient' = toClient \ {<<"push", k, p>>}
    /\ FromClient(k, o, p)
    /\ UNCHANGED <<sock, serverVars, clientVars, answer, threw, raced>>

PushThrows(p, k) ==
    /\ <<"push", k, p>> \in toClient
    /\ toClient' = toClient \ {<<"push", k, p>>}
    /\ threw' = threw \cup {<<p, k>>}
    /\ UNCHANGED <<sock, serverVars, clientVars, answer, toServer, raced>>
-----------------------------------------------------------------------------
ServerStep ==
    \/ \E k \in Conns : ReceiveSignature(k) \/ LookupDone(k) \/ LookupFails(k)
    \/ \E c \in Calls : \/ ReceiveCall(c) \/ HandlerThrows(c)
                        \/ \E o \in Outcomes : Reply(c, o)
    \/ \E p \in Pushes : Push(p)
    \/ \E p \in Pushes, k \in Conns, o \in Outcomes : ReceivePushReply(p, k, o)
ClientStep ==
    \/ \E k \in Conns : Authenticate(k) \/ HandleAuth(k) \/ Sign(k) \/ HandleReady(k)
    \/ \E c \in Calls : StartCall(c) \/ SendCall(c) \/ ReceiveReply(c)
    \/ \E p \in Pushes, k \in Conns : PushThrows(p, k) \/ \E o \in Outcomes : HandlePush(p, k, o)

Next == ServerStep \/ ClientStep \/ \E k \in Conns : Connect(k) \/ Close(k)

Spec == Init /\ [][Next]_vars

(* Messages are delivered while their socket lasts, awaited callbacks      *)
(* return, and resolved promises run their continuations.  Nothing makes a *)
(* user authenticate or call, or a socket connect or, unless the server    *)
(* closed it (ws ends the closing handshake by a timeout), close.  No step *)
(* can be taken twice, so one condition for all of them lets none starve.  *)
Progress ==
    \/ \E k \in Conns : \/ ReceiveSignature(k) \/ LookupDone(k) \/ LookupFails(k)
                        \/ HandleAuth(k) \/ Sign(k) \/ HandleReady(k)
                        \/ sock[k] = "closing" /\ Close(k)
    \/ \E c \in Calls : \/ SendCall(c) \/ ReceiveCall(c) \/ ReceiveReply(c) \/ HandlerThrows(c)
                        \/ \E o \in Outcomes : Reply(c, o)
    \/ \E p \in Pushes, k \in Conns :
          \/ PushThrows(p, k)
          \/ \E o \in Outcomes : ReceivePushReply(p, k, o) \/ HandlePush(p, k, o)

FairSpec == Spec /\ WF_vars(Progress)
-----------------------------------------------------------------------------
Messages == {"AUTH", "SIGNATURE", "READY", "call", "reply", "push", "ok", "forwarded"}
            \X Conns \X (Calls \cup Pushes \cup {None})

(* Every variable keeps its type.                                          *)
TypeOK ==
    /\ sock \in [Conns -> {"new", "open", "closing", "closed"}]
    /\ auth \in [Conns -> {"none", "challenged", "lookup", "done", "failed"}]
    /\ connections \subseteq Conns /\ raced \subseteq Conns
    /\ seenAs \in [Calls -> {"nobody", "anonymous", "user"}]
    /\ serving \subseteq Calls
    /\ pushTo \in [Pushes -> {None} \cup SUBSET Conns]
    /\ got \in [Pushes -> [Conns -> Outcomes \cup {None}]]
    /\ keyed \subseteq Conns /\ ready \subseteq Conns
    /\ challenge \in [Conns -> {"none", "pending", "signed"}]
    /\ pc \in [Calls -> {"idle", "holding", "sent"}]
    /\ answer \in [Calls -> Outcomes \cup {None}]
    /\ delivered \in [Calls -> Outcomes \cup {None}]
    /\ threw \subseteq Calls \cup (Pushes \X Conns)
    /\ toServer \subseteq Messages /\ toClient \subseteq Messages

(* A call that was held until the client was ready is handled with the uid *)
(* of its user, so check_auth never closes the socket because of it: the   *)
(* promise ready at the client and con_state at the server agree.          *)
HeldCallsArriveAuthenticated == \A c \in Held : seenAs[c] # "anonymous"

(* connections has every open socket whose authentication is done and no   *)
(* other open socket, at every point between two events.  A socket that is *)
(* closed stays there, for ever, in one case: it closed while get_pub_key  *)
(* was awaited, before its close listener was attached.                    *)
RegistryTruthful ==
    \A k \in Conns : /\ sock[k] \in {"open", "closing"} =>
                           (k \in connections <=> Authenticated(k))
                     /\ sock[k] = "closed" /\ k \in connections => k \in raced

(* A client is ready only when the server has authenticated it, and only   *)
(* after the user called authenticate, in whatever order the challenge and *)
(* that call came.                                                         *)
ReadyIsAuthenticated == \A k \in ready : Authenticated(k) /\ k \in keyed

(* The session implements RequestReply for the calls of the clients.       *)
Promise == INSTANCE RequestReply WITH Requests <- Calls,
               issued <- {c \in Calls : pc[c] # "idle"}
KeepsPromise == Promise!Spec

(* A push has settled: rejected by the first error (Promise.all), or       *)
(* resolved by all its sockets.                                            *)
Settled(p) == /\ pushTo[p] # None
              /\ \/ \E k \in pushTo[p] : got[p][k] = "forwarded"
                 \/ \A k \in pushTo[p] : got[p][k] = "ok"

(* Whether the user calls authenticate before or after the challenge       *)
(* arrives, the client becomes ready, unless the socket closes or the      *)
(* server finds no key for the user.                                       *)
AuthOrderIrrelevant == \A k \in Enrolled :
    k \in keyed /\ sock[k] = "open"
        ~> k \in ready \/ auth[k] = "failed" \/ sock[k] # "open"

(* A call that was sent settles unless its socket closes or its handler    *)
(* throws an error that is not forwarded: nothing else leaves a promise    *)
(* pending.                                                                *)
SentCallsSettle == \A c \in Calls :
    pc[c] = "sent" ~> \/ delivered[c] # None
                      \/ c \in threw
                      \/ sock[ConnOf[c]] \in {"closing", "closed"}

(* A push settles unless one of its sockets closes or a client's handler   *)
(* throws an error that is not forwarded.                                  *)
PushSettles == \A p \in Pushes :
    pushTo[p] # None ~> \/ Settled(p)
                        \/ /\ pushTo[p] # None
                           /\ \E k \in pushTo[p] : sock[k] # "open" \/ <<p, k>> \in threw
=============================================================================
