------------------------------- MODULE CppAuth -------------------------------
(***************************************************************************)
(* The handshake of the C++ classes.  On every connection the server sends *)
(* a challenge; the client puts it into the promise auth_data, which       *)
(* authenticate waits for, signs and throws away; the server verifies the  *)
(* answer and sends a message of type 0x10, which sets the promise ready   *)
(* that held requests wait for.                                            *)
(*                                                                         *)
(* auth_data and ready belong to the socket and to the client, and the     *)
(* socket reconnects by itself: both promises outlive the connection whose *)
(* challenge or 0x10 set them.  Each can be set once.                      *)
(*                                                                         *)
(* Connections are numbered, and their numbers stand for their challenges  *)
(* (and the uuids of these).  Every message is handled by a task of its    *)
(* own, so messages are handled in any order.  The registration of the     *)
(* challenge's handler is one step with its sending (OpenCallNeverEarly of *)
(* MessageHandler).                                                        *)
(***************************************************************************)
EXTENDS Naturals

CONSTANTS Threads,    \* each calls authenticate once
          Calls,      \* requests of the client
          Held,       \* those that wait_for_auth
          Kind,       \* "custom" (types 0x10 to 0x16), "api", "restricted"
          Users, Keys,
          User,       \* the uid that is part of a private key
          Enrolled,   \* the key whose public part the server has for a user
          NoUser, NoKey, NoSignature,
          Error,      \* the reply to a request whose handler threw
          MaxOpens    \* bound: connections of the socket

ASSUME KeysAssumption == /\ User \in [Keys -> Users] /\ Enrolled \in [Users -> Keys \cup {NoKey}]
                         /\ NoUser \notin Users /\ NoKey \notin Keys
ASSUME CallsAssumption == Held \subseteq Calls /\ Kind \in [Calls -> {"custom", "api", "restricted"}]
ASSUME NamesAssumption == Users \cap {"no", "sent", "lost", "empty", "error"} = {}
ASSUME MaxOpensAssumption == MaxOpens \in Nat

Conns == 1 .. MaxOpens
Signatures == [challenge : Conns, key : Keys, by : Keys]

ASSUME SignatureAssumption == NoSignature \notin Signatures /\ Error \notin Signatures

VARIABLES
  conn, up,      \* the number of the socket's last connection; is it open
  given,         \* auth_data: the challenge it was set to, 0 if none
  gone,          \* auth_data: has it been reset
  ready,         \* 0, or the connection whose 0x10 set ready
  crashed,       \* auth_data was used after its reset
  challenge,     \* AUTH per connection: "none", "sent", "handled"
  announce,      \* 0x10 per connection, likewise
  pc, key, sig,  \* authenticate: "idle", "checked", "signed", "sent", "done";
                 \* its argument; the signature it made
  sign_key,      \* the key that signs: of the last call
  overlapped,    \* ghost: two calls of authenticate were in progress at once
  answers,       \* replies to challenges on their way, per connection
  auth,          \* the server's handler of the challenge: "none", "open",
                 \* "checking", "verified", "named", "ended"
  checked,       \* the answer it is checking
  authenticated, uid,   \* ServerConnectionData
  sentOn, handled       \* the connection of each request; "no", "sent", "lost", or
                        \* what became of it: "empty", "error", or the uid it ran for

clientVars == <<given, gone, ready, crashed>>
threadVars == <<pc, key, sig, sign_key, overlapped>>
serverVars == <<auth, checked, authenticated, uid>>
callVars == <<sentOn, handled>>
netVars == <<challenge, announce, answers>>
vars == <<conn, up, clientVars, threadVars, serverVars, callVars, netVars>>

Init == /\ conn = 0 /\ up = FALSE
        /\ given = 0 /\ gone = FALSE /\ ready = 0 /\ crashed = FALSE
        /\ challenge = [n \in Conns |-> "none"] /\ announce = [n \in Conns |-> "none"]
        /\ answers = [n \in Conns |-> {}]
        /\ pc = [t \in Threads |-> "idle"] /\ key = [t \in Threads |-> NoKey]
        /\ sig = [t \in Threads |-> NoSignature]
        /\ sign_key = NoKey /\ overlapped = FALSE
        /\ auth = [n \in Conns |-> "none"] /\ checked = [n \in Conns |-> NoSignature]
        /\ authenticated = [n \in Conns |-> FALSE] /\ uid = [n \in Conns |-> NoUser]
        /\ sentOn = [c \in Calls |-> 0] /\ handled = [c \in Calls |-> "no"]
-----------------------------------------------------------------------------
(* The socket (ixwebsocket): it reconnects by itself, also after stop,     *)
(* which calls start.  The server's onOpen sends the challenge.            *)
Open == /\ ~up /\ ~crashed /\ conn < MaxOpens
        /\ conn' = conn + 1 /\ up' = TRUE
        /\ challenge' = [challenge EXCEPT ![conn + 1] = "sent"]
        /\ auth' = [auth EXCEPT ![conn + 1] = "open"]
        /\ UNCHANGED <<clientVars, threadVars, checked, authenticated, uid, callVars, announce, answers>>

Break == /\ up /\ conn < MaxOpens
         /\ up' = FALSE
         /\ UNCHANGED <<conn, clientVars, threadVars, serverVars, callVars, netVars>>

(* What is sent on a connection that is not open is dropped.               *)
Reply(answer) ==
    answers' = IF up THEN [answers EXCEPT ![conn] = @ \cup {answer}] ELSE answers
-----------------------------------------------------------------------------
(* The client.  Messages of a connection are handled before its Close      *)
(* callback returns, that is before the next one opens (MessageHandler).   *)

(* A call of authenticate in progress.                                     *)
Within(t) == pc[t] \in {"checked", "signed", "sent"}

\* Mutant: a challenge nobody waits for is not kept.
GiveIfAwaited == /\ given' = IF \E t \in Threads : Within(t) THEN conn ELSE given
                 /\ UNCHANGED <<gone, crashed, answers>>
\* auth_data->set_value, which throws the second time, and the reply then
Give == \/ gone /\ crashed' = TRUE /\ UNCHANGED <<given, gone, answers>>
        \/ ~gone /\ given # 0 /\ Reply(Error) /\ UNCHANGED <<given, gone, crashed>>
        \/ ~gone /\ given = 0 /\ given' = conn /\ UNCHANGED <<gone, crashed, answers>>

handle_auth == /\ ~crashed /\ conn > 0 /\ challenge[conn] = "sent"
               /\ challenge' = [challenge EXCEPT ![conn] = "handled"]
               /\ Give
               /\ UNCHANGED <<conn, up, ready, threadVars, serverVars, callVars, announce>>

(* The client's custom_handler.  A second set_value would throw.           *)
HandleReady == /\ ~crashed /\ conn > 0 /\ announce[conn] = "sent"
               /\ announce' = [announce EXCEPT ![conn] = "handled"]
               /\ ready' = IF ready = 0 THEN conn ELSE ready
               /\ UNCHANGED <<conn, up, given, gone, crashed, threadVars, serverVars, callVars,
                              challenge, answers>>

\* Mutant: auth_data is not tested.
MayAuthenticateAlways == TRUE
MayAuthenticate == ~gone

SetKeys(t, k) == key' = [key EXCEPT ![t] = k] /\ sign_key' = k

(* authenticate, up to the wait for a challenge.                           *)
authenticate(t, k) ==
    /\ ~crashed /\ pc[t] = "idle"
    /\ \/ /\ ~MayAuthenticate
          /\ pc' = [pc EXCEPT ![t] = "done"]
          /\ UNCHANGED <<key, sign_key, overlapped>>
       \/ /\ MayAuthenticate
          /\ pc' = [pc EXCEPT ![t] = "checked"]
          /\ SetKeys(t, k)
          /\ overlapped' = (overlapped \/ \E u \in Threads : Within(u))
    /\ UNCHANGED <<conn, up, clientVars, sig, serverVars, callVars, netVars>>

(* The challenge, and its signature: with sign_key, for the uid of the     *)
(* argument.                                                               *)
Sign(t) == /\ ~crashed /\ pc[t] = "checked" /\ given # 0
           /\ pc' = [pc EXCEPT ![t] = "signed"]
           /\ sig' = [sig EXCEPT ![t] = [challenge |-> given, key |-> key[t], by |-> sign_key]]
           /\ UNCHANGED <<conn, up, clientVars, key, sign_key, overlapped, serverVars, callVars, netVars>>

(* Another call has reset auth_data: no pointer, or freed memory, which    *)
(* may still be as it was (Sign).                                          *)
UseAfterReset(t) == /\ ~crashed /\ pc[t] = "checked" /\ gone
                    /\ crashed' = TRUE
                    /\ UNCHANGED <<conn, up, given, gone, ready, threadVars, serverVars, callVars, netVars>>

(* The answer goes to whatever connection there is, under the uuid of the  *)
(* challenge.                                                              *)
SendAnswer(t) == /\ ~crashed /\ pc[t] = "signed"
                 /\ pc' = [pc EXCEPT ![t] = "sent"]
                 /\ Reply(sig[t])
                 /\ UNCHANGED <<conn, up, clientVars, key, sig, sign_key, overlapped, serverVars,
                                callVars, challenge, announce>>

Reset(t) == /\ ~crashed /\ pc[t] = "sent"
            /\ pc' = [pc EXCEPT ![t] = "done"]
            /\ gone' = TRUE
            /\ UNCHANGED <<conn, up, given, ready, crashed, key, sig, sign_key, overlapped,
                           serverVars, callVars, netVars>>

(* A request: sent at once, or held until ready is set.  A load of keys, a *)
(* newest chat key or messages to read are held, but read_messages with a  *)
(* handler is not.                                                         *)
Request(c) == /\ ~crashed /\ conn > 0 /\ handled[c] = "no"
              /\ c \in Held => ready # 0
              /\ sentOn' = [sentOn EXCEPT ![c] = conn]
              /\ handled' = [handled EXCEPT ![c] = IF up THEN "sent" ELSE "lost"]
              /\ UNCHANGED <<conn, up, clientVars, threadVars, serverVars, netVars>>
-----------------------------------------------------------------------------
(* The server.  It may go on handling what it has of a connection that the *)
(* client has given up.                                                    *)

\* return_uid_map has the answer's uuid.
Known(n, answer) == /\ auth[n] = "open"
                    /\ answer # Error => answer.challenge = n

TakeAnswer(n) ==
    \E answer \in answers[n] :
        /\ answers' = [answers EXCEPT ![n] = @ \ {answer}]
        /\ \/ ~Known(n, answer) /\ UNCHANGED <<auth, checked>>
           \/ /\ Known(n, answer) /\ answer = Error      \* reject, which does nothing
              /\ auth' = [auth EXCEPT ![n] = "ended"] /\ UNCHANGED checked
           \/ /\ Known(n, answer) /\ answer # Error
              /\ auth' = [auth EXCEPT ![n] = "checking"]
              /\ checked' = [checked EXCEPT ![n] = answer]
        /\ UNCHANGED <<conn, up, clientVars, threadVars, authenticated, uid, callVars, challenge, announce>>

(* auth, up to the verification.                                           *)
UserOf(n) == User[checked[n].key]
\* Mutant: any signature will do.
VerifiedAnyway(n) == TRUE
Verified(n) == checked[n].by = Enrolled[UserOf(n)] /\ checked[n].challenge = n

Verify(n) ==
    /\ auth[n] = "checking"
    /\ \/ /\ Enrolled[UserOf(n)] = NoKey                 \* the connection stays as it is
          /\ auth' = [auth EXCEPT ![n] = "ended"] /\ UNCHANGED <<up, authenticated>>
       \/ /\ Enrolled[UserOf(n)] # NoKey /\ ~Verified(n)   \* conn->close()
          /\ auth' = [auth EXCEPT ![n] = "ended"]
          /\ up' = (up /\ conn # n) /\ UNCHANGED authenticated
       \/ /\ Enrolled[UserOf(n)] # NoKey /\ Verified(n)
          /\ auth' = [auth EXCEPT ![n] = "verified"]
          /\ authenticated' = [authenticated EXCEPT ![n] = TRUE] /\ UNCHANGED up
    /\ UNCHANGED <<conn, clientVars, threadVars, checked, uid, callVars, netVars>>

SetUid(n) == /\ auth[n] = "verified"
             /\ auth' = [auth EXCEPT ![n] = "named"]
             /\ uid' = [uid EXCEPT ![n] = UserOf(n)]
             /\ UNCHANGED <<conn, up, clientVars, threadVars, checked, authenticated, callVars, netVars>>

\* Mutant: 0x10 is sent before uid is set.
AnnounceableEarly(n) == auth[n] = "verified"
Announceable(n) == auth[n] = "named"
Announce(n) == /\ Announceable(n) /\ announce[n] = "none"
               /\ announce' = IF up /\ conn = n THEN [announce EXCEPT ![n] = "sent"] ELSE announce
               /\ auth' = [auth EXCEPT ![n] = IF @ = "named" THEN "ended" ELSE @]
               /\ UNCHANGED <<conn, up, clientVars, threadVars, checked, authenticated, uid, callVars,
                              challenge, answers>>

(* custom_handler answers nothing to a client that is not authenticated,   *)
(* handle_api_request an error if the callback asks for it; whatever runs, *)
(* runs for uid.                                                           *)
Serve(c) ==
    LET n == sentOn[c] IN
    /\ handled[c] = "sent"
    /\ handled' = [handled EXCEPT ![c] =
          CASE Kind[c] = "custom" /\ ~authenticated[n] -> "empty"
            [] Kind[c] = "restricted" /\ ~authenticated[n] -> "error"
            [] OTHER -> uid[n]]
    /\ UNCHANGED <<conn, up, clientVars, threadVars, serverVars, sentOn, netVars>>
-----------------------------------------------------------------------------
Handle == handle_auth \/ HandleReady
Thread(t) == Sign(t) \/ UseAfterReset(t) \/ SendAnswer(t) \/ Reset(t)
Server(n) == TakeAnswer(n) \/ Verify(n) \/ SetUid(n) \/ Announce(n)

Next == \/ Open \/ Break \/ Handle
        \/ \E t \in Threads : Thread(t) \/ \E k \in Keys : authenticate(t, k)
        \/ \E n \in Conns : Server(n)
        \/ \E c \in Calls : Request(c) \/ Serve(c)

(* Threads that were started and tasks of an open connection go on, and    *)
(* the socket reconnects; the application need not call anything.          *)
Spec == /\ Init /\ [][Next]_vars
        /\ WF_vars(Open) /\ WF_vars(up /\ Handle)
        /\ \A t \in Threads : WF_vars(Thread(t))
        /\ \A n \in Conns : WF_vars(up /\ conn = n /\ Server(n))
-----------------------------------------------------------------------------
(* Every variable keeps its type.                                          *)
TypeOK ==
    /\ conn \in 0 .. MaxOpens /\ given \in 0 .. conn /\ ready \in 0 .. conn
    /\ up \in BOOLEAN /\ gone \in BOOLEAN /\ crashed \in BOOLEAN /\ overlapped \in BOOLEAN
    /\ challenge \in [Conns -> {"none", "sent", "handled"}]
    /\ announce \in [Conns -> {"none", "sent", "handled"}]
    /\ pc \in [Threads -> {"idle", "checked", "signed", "sent", "done"}]
    /\ key \in [Threads -> Keys \cup {NoKey}] /\ sign_key \in Keys \cup {NoKey}
    /\ sig \in [Threads -> Signatures \cup {NoSignature}]
    /\ answers \in [Conns -> SUBSET (Signatures \cup {Error})]
    /\ auth \in [Conns -> {"none", "open", "checking", "verified", "named", "ended"}]
    /\ checked \in [Conns -> Signatures \cup {NoSignature}]
    /\ authenticated \in [Conns -> BOOLEAN] /\ uid \in [Conns -> Users \cup {NoUser}]
    /\ sentOn \in [Calls -> 0 .. conn]
    /\ handled \in [Calls -> {"no", "sent", "lost", "empty", "error"} \cup Users \cup {NoUser}]

(* A connection is authenticated, and pushed to as a user's, only if some  *)
(* call of authenticate signed the challenge the client was given with the *)
(* key enrolled for that user.  So of all connections of a client only the *)
(* one that brought its first challenge can be authenticated.              *)
AuthenticatedBySigner ==
    \A n \in Conns :
        /\ authenticated[n] =>
              /\ n = given
              /\ \E t \in Threads : /\ sig[t] # NoSignature /\ sig[t].challenge = n
                                    /\ sig[t].by = Enrolled[User[sig[t].key]]
                                    /\ uid[n] \in {NoUser, User[sig[t].key]}
        /\ uid[n] # NoUser => authenticated[n]

(* A held request runs for the user who authenticated, unless the client   *)
(* has reconnected since it became ready: ready is still set then.         *)
HeldServedAsUser ==
    \A c \in Held : \/ handled[c] \in {"no", "sent", "lost"}
                    \/ sentOn[c] > ready
                    \/ handled[c] = uid[ready] /\ handled[c] # NoUser

(* auth_data is used after its reset only if a challenge came on a later   *)
(* connection or calls of authenticate overlapped.                         *)
CrashExplained == crashed => overlapped \/ conn > given

Enrols(k) == k = Enrolled[User[k]]

(* A client that authenticates becomes ready, unless it reconnected after  *)
(* a challenge was taken, the key was not the enrolled one, or calls of    *)
(* authenticate overlapped.                                                *)
BecomesReady ==
    \A t \in Threads :
        pc[t] = "checked" ~> \/ ready # 0 \/ overlapped
                             \/ 0 < given /\ given < conn
                             \/ key[t] \in {k \in Keys : ~Enrols(k)}
=============================================================================
