------------------------------ MODULE NodeChat ------------------------------
(***************************************************************************)
(* The chat of the Node classes, from end to end: generate_chat_keys,      *)
(* send_message and get_message of the clients, and the handlers 17, 18,   *)
(* 19, 21 and 22 of the server, which keep keys and messages through       *)
(* callbacks of the application.                                           *)
(*                                                                         *)
(* The server is one thread, but a handler gives way wherever it awaits a  *)
(* callback, and callbacks return in any order: an action is a handler     *)
(* from one callback's effect to the next.  A callback may be rejected;    *)
(* that error, like a TypeError of the handler itself, is not forwarded,   *)
(* and then nothing is replied (NodeSession).                              *)
(*                                                                         *)
(* Clients are ready, so what they send arrives authenticated; a socket    *)
(* that closes stays closed.  Signatures and the keys that verify them are *)
(* the users' own (NodeKeys).  A chat key, and its id, which is a random   *)
(* uuid, are named by the call that made them, a text by its call.         *)
(***************************************************************************)
EXTENDS Naturals, Sequences, SequencesExt

CONSTANTS ChatUsers, ChatCalls,
          Sender,          \* the user whose client makes a call
          Kind,            \* "generate", "send" or "read"
          Earlier,         \* the calls awaited before it
          Members,         \* the users a generated key is for
          Failing,         \* the calls whose callbacks may be rejected
          Unstable,        \* the users whose socket may close
          Skew,            \* how far a client's clock is ahead of the server's
          UploadTolerance, DelayTolerance,
          Start, MaxTime,  \* bound: the times of the server's clock
          NoKey, Garbage

Sends == {c \in ChatCalls : Kind[c] = "send"}
Generates == {c \in ChatCalls : Kind[c] = "generate"}
Reads == {c \in ChatCalls : Kind[c] = "read"}

ASSUME CallsAssumption ==
    /\ Sender \in [ChatCalls -> ChatUsers] /\ Kind \in [ChatCalls -> {"generate", "send", "read"}]
    /\ Earlier \in [ChatCalls -> SUBSET ChatCalls]
    /\ \A c \in ChatCalls : \A d \in Earlier[c] : Sender[d] = Sender[c]
    /\ Members \in [Generates -> SUBSET ChatUsers]
    /\ Failing \subseteq ChatCalls /\ Unstable \subseteq ChatUsers
    /\ NoKey \notin ChatCalls /\ Garbage \notin ChatCalls
ASSUME TimesAssumption ==
    /\ Skew \in [ChatUsers -> Nat] /\ Start \in Nat /\ MaxTime \in Nat
    /\ UploadTolerance \in Nat /\ DelayTolerance \in Nat

VARIABLES
  stage,    \* of each call: "idle"; "asked", "found" (the server has the id of
            \* the newest key), "replied" (the answer is on its way); "sent"
            \* (17 or 19 is on its way), "adding" (add_message is called),
            \* "decoding" (get_message awaits chat keys); how it ended:
            \* "stored", "returned", "threw", "refused", "unstored" (a callback
            \* was rejected), "lost", "waiting" (for ever)
  frame,    \* the reply to a call, then its upload, or what it reads
  keys,     \* the keys set_chat_key was given, the newest last
  log,      \* the messages add_message was given
  open,     \* is the user's socket open
  aes,      \* aes_keys of each client: "none", "asked", "key", "never"
  clock,    \* the server's, in seconds
  floor     \* history: how many keys were stored when a call was made

storeVars == <<keys, log>>
chatState == <<stage, frame, storeVars, open, aes, clock, floor>>

ChatInit ==
    /\ stage = [c \in ChatCalls |-> "idle"] /\ frame = [c \in ChatCalls |-> <<>>]
    /\ keys = <<>> /\ log = <<>> /\ open = [u \in ChatUsers |-> TRUE]
    /\ aes = [u \in ChatUsers |-> [k \in Generates |-> "none"]]
    /\ clock = Start /\ floor = [c \in ChatCalls |-> 0]

Goto(c, place) == stage' = [stage EXCEPT ![c] = place]
Give(c, data) == frame' = [frame EXCEPT ![c] = data]
Hears(c) == open[Sender[c]]

(* Nothing that is awaited in a call's thread is under way: generate and   *)
(* get_message await their replies, send_message that for the newest key,  *)
(* but not the one to its upload, which nobody waits for.                  *)
Awaited(c) ==
    stage[c] \in {"stored", "returned", "threw"}
        \/ (Kind[c] = "send" /\ stage[c] \in {"sent", "adding", "refused", "unstored", "lost"})

Begin(c, kind, place) ==
    /\ Kind[c] = kind /\ stage[c] = "idle" /\ \A d \in Earlier[c] : Awaited(d)
    /\ Goto(c, IF Hears(c) THEN place ELSE "waiting")
    /\ floor' = [floor EXCEPT ![c] = Len(keys)]
    /\ UNCHANGED <<frame, storeVars, open, aes, clock>>

(* A callback of the application is rejected: no reply.                    *)
Rejected(c) ==
    /\ c \in Failing
    /\ \/ /\ stage[c] \in {"asked", "found"} \/ (Kind[c] = "generate" /\ stage[c] = "sent")
          /\ Goto(c, "waiting")
       \/ /\ Kind[c] = "send" /\ stage[c] \in {"sent", "adding"}
          /\ Goto(c, "unstored")
    /\ UNCHANGED <<frame, storeVars, open, aes, clock, floor>>
-----------------------------------------------------------------------------
(* A new chat key: sealed for each user of the list, sent, and set.        *)
generate_chat_keys(c) == Begin(c, "generate", "sent")

\* Mutant: the keys set before are forgotten.
SetChatKeyAlone(c) ==
    /\ Kind[c] = "generate" /\ stage[c] = "sent"
    /\ keys' = <<c>>
    /\ Goto(c, IF Hears(c) THEN "stored" ELSE "waiting")
    /\ UNCHANGED <<frame, log, open, aes, clock, floor>>
set_chat_key_handler(c) ==
    /\ Kind[c] = "generate" /\ stage[c] = "sent"
    /\ keys' = Append(keys, c)
    /\ Goto(c, IF Hears(c) THEN "stored" ELSE "waiting")
    /\ UNCHANGED <<frame, log, open, aes, clock, floor>>
-----------------------------------------------------------------------------
(* send_message: the newest key of the chat is asked for, each time.       *)
send_message(c) == Begin(c, "send", "asked")

(* get_newest_chat_key, up to its first await: the id of the newest key.   *)
NewestKeyId(c) ==
    /\ Kind[c] = "send" /\ stage[c] = "asked"
    /\ \/ /\ keys = <<>>
          /\ Give(c, [id |-> NoKey, key |-> NoKey])
          /\ Goto(c, "replied")
       \/ /\ keys # <<>>
          /\ Give(c, [id |-> Last(keys), key |-> NoKey])
          /\ Goto(c, "found")
    /\ UNCHANGED <<storeVars, open, aes, clock, floor>>

\* Mutant: the newest key is read once more, after the await.
KeyUnderNewest(id) == Last(keys)
KeyUnder(id) == id

(* And the rest: the key that was set under that id, if it is for the user.*)
(* If it is not, Buffer.from throws a TypeError.                           *)
NewestKey(c) ==
    /\ stage[c] = "found"
    /\ LET key == KeyUnder(frame[c].id)
       IN  \/ /\ Sender[c] \in Members[key]
              /\ Give(c, [id |-> frame[c].id, key |-> key])
              /\ Goto(c, "replied")
           \/ /\ Sender[c] \notin Members[key]
              /\ Goto(c, "waiting") /\ UNCHANGED frame
    /\ UNCHANGED <<storeVars, open, aes, clock, floor>>

(* The client goes on: no key, and it throws; else the text is encrypted   *)
(* and signed with the time, and sent without awaiting the reply.          *)
UploadMessage(c) ==
    /\ Kind[c] = "send" /\ stage[c] = "replied"
    /\ \/ /\ frame[c].id = NoKey
          /\ Goto(c, "threw") /\ UNCHANGED frame
       \/ /\ frame[c].id # NoKey
          /\ Give(c, [sender |-> Sender[c], sent |-> clock + Skew[Sender[c]], id |-> frame[c].id,
                      data |-> [key |-> frame[c].key, text |-> c]])
          /\ Goto(c, IF Hears(c) THEN "sent" ELSE "lost")
    /\ UNCHANGED <<storeVars, open, aes, clock, floor>>

(* verify_message_authenticity when get_pub_key has returned.              *)
Timely(time) == time + UploadTolerance >= clock /\ time <= clock + DelayTolerance

(* add_message_handler: the application's add_message is called, and not   *)
(* awaited: the handler replies at once.                                   *)
add_message_handler(c) ==
    /\ Kind[c] = "send" /\ stage[c] = "sent"
    /\ Goto(c, IF Timely(frame[c].sent) THEN "adding" ELSE "refused")
    /\ UNCHANGED <<frame, storeVars, open, aes, clock, floor>>

AddMessage(c) == /\ stage[c] = "adding"
                 /\ log' = Append(log, frame[c])
                 /\ Goto(c, "stored")
                 /\ UNCHANGED <<frame, keys, open, aes, clock, floor>>
-----------------------------------------------------------------------------
(* get_message; get_messages of the application answers with all messages, *)
(* as that of the test program does.                                       *)
get_message(c) == Begin(c, "read", "asked")

read_messages_handler(c) ==
    /\ Kind[c] = "read" /\ stage[c] = "asked"
    /\ Give(c, log)
    /\ Goto(c, "replied")
    /\ UNCHANGED <<storeVars, open, aes, clock, floor>>

KeyIds(c) == {frame[c][i].id : i \in DOMAIN frame[c]}

(* decode_messages: a key is asked for that was not asked for before.      *)
\* Mutant: the keys are put in aes_keys when they come.
EnterLater(u, ids) == UNCHANGED aes
Enter(u, ids) ==
    aes' = [aes EXCEPT ![u] = [k \in Generates |->
               IF k \in ids /\ @[k] = "none" THEN IF open[u] THEN "asked" ELSE "never" ELSE @[k]]]

decode_messages(c) ==
    /\ Kind[c] = "read" /\ stage[c] = "replied"
    /\ Enter(Sender[c], KeyIds(c))
    /\ Goto(c, "decoding")
    /\ UNCHANGED <<frame, storeVars, open, clock, floor>>

KeyRejectable(u, c) == Kind[c] = "read" /\ Sender[c] = u

(* get_chat_key_handler and its reply.  There is none for a key that is not*)
(* for this user (a TypeError), and the promise stays pending.             *)
get_chat_key_handler(u, k) ==
    /\ aes[u][k] = "asked"
    /\ \/ u \in Members[k] /\ aes' = [aes EXCEPT ![u][k] = "key"]
       \/ /\ u \notin Members[k] \/ \E c \in Failing : KeyRejectable(u, c)
          /\ aes' = [aes EXCEPT ![u][k] = "never"]
    /\ UNCHANGED <<stage, frame, storeVars, open, clock, floor>>

(* Promise.all: every message is decrypted, or the call goes on waiting.   *)
MessagesDecoded(c) ==
    /\ stage[c] = "decoding"
    /\ \A k \in KeyIds(c) : aes[Sender[c]][k] = "key"
    /\ Goto(c, "returned")
    /\ UNCHANGED <<frame, storeVars, open, aes, clock, floor>>
-----------------------------------------------------------------------------
Tick == /\ clock < MaxTime /\ clock' = clock + 1
        /\ UNCHANGED <<stage, frame, storeVars, open, aes, floor>>

(* The socket of u closes: what is on its way is lost, except what the     *)
(* other end has already begun to handle.                                  *)
Underway(u) ==
    {c \in ChatCalls : Sender[c] = u /\ stage[c] \in {"asked", "found", "replied", "sent"}}

Close(u) ==
    /\ u \in Unstable /\ open[u]
    /\ open' = [open EXCEPT ![u] = FALSE]
    /\ \E lost \in SUBSET Underway(u) :
          /\ {c \in Underway(u) : stage[c] \in {"asked", "found"}} \subseteq lost
          /\ stage' = [c \in ChatCalls |-> IF c \notin lost THEN stage[c]
                         ELSE IF Kind[c] = "send" /\ stage[c] = "sent" THEN "lost" ELSE "waiting"]
    /\ aes' = [aes EXCEPT ![u] = [k \in Generates |-> IF @[k] = "asked" THEN "never" ELSE @[k]]]
    /\ UNCHANGED <<frame, storeVars, clock, floor>>
-----------------------------------------------------------------------------
ClientStep(c) == UploadMessage(c) \/ decode_messages(c) \/ MessagesDecoded(c)
ServerStep(c) == \/ set_chat_key_handler(c) \/ NewestKeyId(c) \/ NewestKey(c)
                 \/ add_message_handler(c) \/ AddMessage(c) \/ read_messages_handler(c)
                 \/ Rejected(c)

ChatNext ==
    \/ \E c \in ChatCalls :
           \/ generate_chat_keys(c) \/ send_message(c) \/ get_message(c)
           \/ ClientStep(c) \/ ServerStep(c)
    \/ \E u \in ChatUsers : Close(u) \/ \E k \in Generates : get_chat_key_handler(u, k)
    \/ Tick

(* The event loops run what can go on, callbacks return; nothing makes a   *)
(* client call.  No step of these can be taken for ever.                   *)
Progress == \/ \E c \in ChatCalls : ClientStep(c) \/ ServerStep(c)
            \/ \E u \in ChatUsers, k \in Generates : get_chat_key_handler(u, k)
ChatSpec == ChatInit /\ [][ChatNext]_chatState /\ WF_chatState(Progress)
-----------------------------------------------------------------------------
(* What a read returns of a message: the text, decrypted with the key that *)
(* was set under its id.                                                   *)
decript_aes(data, key) == IF data.key = key THEN data.text ELSE Garbage
TextOf(m) == decript_aes(m.data, m.id)

Genuine(m) == TextOf(m) \in Sends /\ m.sender = Sender[TextOf(m)]
Fresh(m) == \E n \in DOMAIN keys : keys[n] = m.data.key /\ n >= floor[TextOf(m)]

(* What get_message returns is what was sent: each message, opened with the*)
(* key its id names, is one that the user it names sent, and it is there   *)
(* once; its key is none that was replaced before send_message was called, *)
(* so that who was left out of the chat by then cannot read it; and though *)
(* the awaits of the server may store the messages of one user in another  *)
(* order, the times they were sent at put them right.                      *)
ReadAsSent ==
    \A r \in Reads : stage[r] = "returned" =>
        \A i, j \in DOMAIN frame[r] : LET m == frame[r][i]  n == frame[r][j] IN
            /\ Genuine(m) /\ Fresh(m)
            /\ TextOf(m) = TextOf(n) => i = j
            /\ TextOf(m) \in Earlier[TextOf(n)] => m.sent <= n.sent

(* The keys and messages of the server are those of a ChatLog: none is lost*)
(* or changed, and a post is sealed under a key its author was given.      *)
Log == INSTANCE ChatLog WITH Keys <- Generates, Posts <- Sends, Author <- Sender,
          log <- [i \in DOMAIN log |-> [post |-> log[i].data.text, under |-> log[i].data.key]]
KeepsLog == Log!Spec

(* A message is stored, or refused for its time, or its caller told that   *)
(* there is no key; and a read returns; unless the socket closes, a        *)
(* callback is rejected, or a key the call needs was not made for its user:*)
(* then nobody is told anything.                                           *)
Excluded(c, k) == Sender[c] \notin Members[k]
WasRejected(c) == c \in Failing /\ stage[c] \in {"waiting", "unstored"}

CallsSettle ==
    \A c \in Sends \cup Reads :
        stage[c] = "asked" ~>
            \/ stage[c] \in {"stored", "refused", "threw", "returned"}
            \/ ~open[Sender[c]] \/ WasRejected(c)
            \/ Kind[c] = "send" /\ stage[c] = "waiting" /\ Excluded(c, frame[c].id)
            \/ /\ Kind[c] = "read" /\ stage[c] = "decoding"
               /\ \E k \in KeyIds(c) : /\ aes[Sender[c]][k] = "never"
                                       /\ Excluded(c, k) \/ \E d \in Failing : KeyRejectable(Sender[c], d)
=============================================================================
