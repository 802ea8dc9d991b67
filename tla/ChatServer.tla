----------------------------- MODULE ChatServer -----------------------------
(***************************************************************************)
(* The chat of the C++ classes: clients that make keys for it              *)
(* (generate_chat_key) and send messages (send_message), and the server's  *)
(* handlers 0x11, 0x12 and 0x13, which keep them through the callbacks of  *)
(* the application.                                                        *)
(*                                                                         *)
(* Every frame is handled by a task of its own, so frames are handled in   *)
(* any order, and 0x11 and 0x13 are sent without a handler for a reply:    *)
(* their callers return at once and never learn what became of them.       *)
(*                                                                         *)
(* A client has one user and stays ready when its socket reconnects, but   *)
(* the new connection is not authenticated (CppAuth).  A user's name also  *)
(* stands for the keys that only she has.  The chat key a call makes is    *)
(* named by the call, as is the content of a message.                      *)
(***************************************************************************)
EXTENDS WireFormat, FiniteSets

CONSTANTS Users, Calls,
          Sender,         \* the user whose client makes a call
          Kind,           \* "generate" or "send"
          Earlier,        \* the calls its thread makes before it
          Members,        \* the users a generated key is for
          Chat, Type,
          Unstable,       \* the users whose socket may reconnect (once)
          Skew,           \* how far a client's clock is ahead of the server's
          Lower, Upper,   \* SlidingTimeWindow
          Start, MaxTime  \* bound: the times of the server's clock

Sends == {c \in Calls : Kind[c] = "send"}
Generates == {c \in Calls : Kind[c] = "generate"}

ASSUME CallsAssumption ==
    /\ IsFiniteSet(Calls) /\ Sender \in [Calls -> Users]
    /\ Kind \in [Calls -> {"generate", "send"}]
    /\ Earlier \in [Calls -> SUBSET Calls]
    /\ \A c \in Calls : \A d \in Earlier[c] : Sender[d] = Sender[c]
    /\ Members \in [Calls -> SUBSET Users]
    /\ Unstable \subseteq Users
ASSUME QueuesAssumption ==
    Chat \in Seq(Range(Chat)) /\ \A u \in Users : u \in Seq(Range(u))
ASSUME TimesAssumption ==
    /\ Skew \in [Users -> Nat] /\ Start \in Nat /\ MaxTime \in Nat
    /\ Lower \in Nat /\ Upper \in Nat /\ Lower <= Start
ASSUME ThrowsAssumption == \A c \in Calls : Throws # <<Text(c)>>

VARIABLES
  stage,     \* of each call: "idle"; "asked", "replied" (send_message waits
             \* for the newest key); "sent" (0x11 or 0x13 is on its way);
             \* "drawing", "drawn" or "verified", "stamped" (its task at the
             \* server); how it ended: "stored", "refused", "dropped" (not
             \* authenticated), "threw", "lost", "waiting" (for ever)
  frame,     \* the reply to, then the upload of a send_message
  trusted,   \* was the frame sent on an authenticated connection
  session,   \* of each user: is the connection authenticated
  gen, drawn,    \* the state of the generator of uuids; what a call read of it
  keys,      \* the stored keys: the id, and the call that made the key
  log,       \* the stored messages
  clock,     \* the server's
  floor,     \* history: how many keys were stored when send_message was called
  met        \* history: have two calls drawn from the generator at once

callVars == <<stage, frame, trusted, drawn, floor>>
storeVars == <<gen, keys, log, met>>
vars == <<callVars, storeVars, session, clock>>

Init == /\ stage = [c \in Calls |-> "idle"] /\ frame = [c \in Calls |-> <<>>]
        /\ trusted = [c \in Calls |-> FALSE] /\ session = [u \in Users |-> TRUE]
        /\ gen = 0 /\ drawn = [c \in Calls |-> 0]
        /\ keys = <<>> /\ log = <<>> /\ clock = Start
        /\ floor = [c \in Calls |-> 0] /\ met = FALSE

Goto(c, place) == stage' = [stage EXCEPT ![c] = place]
SendFrame(c) == trusted' = [trusted EXCEPT ![c] = session[Sender[c]]]

\* Mutant: send_message leaves the waiting to a task.
ReturnedAtOnce(c) == stage[c] # "idle"
(* The call has returned to its caller, or thrown.                         *)
Returned(c) == stage[c] \notin {"idle", "asked", "replied", "waiting"}
MayCall(c) == stage[c] = "idle" /\ \A d \in Earlier[c] : Returned(d)
-----------------------------------------------------------------------------
(* The store of the application, external: newest_chat_key_fetcher returns *)
(* the newest key that was set for the user, or none.                      *)
KeysOf(u) == {i \in DOMAIN keys : u \in Members[keys[i].by]}
\* Mutant: the first key.
NewestFirst(u) == IF KeysOf(u) = {} THEN 0
                  ELSE CHOOSE i \in KeysOf(u) : \A j \in KeysOf(u) : j >= i
Newest(u) == IF KeysOf(u) = {} THEN 0
             ELSE CHOOSE i \in KeysOf(u) : \A j \in KeysOf(u) : j <= i

NewestReply(u, k) == Pair(Block(encript_rsa(<<Text(k.by)>>, u)), Block(UuidBytes(k.id)))
-----------------------------------------------------------------------------
(* The client.                                                             *)

(* The keys of the users are loaded (KeyCache); the chat key is sealed for *)
(* each of them, and the frame carries these and the chat.                 *)
generate_chat_key(c) ==
    /\ Kind[c] = "generate" /\ MayCall(c)
    /\ Goto(c, "sent") /\ SendFrame(c)
    /\ UNCHANGED <<frame, drawn, floor, storeVars, session, clock>>

(* send_message up to the wait in get_newest_chat_key.                     *)
send_message(c) ==
    /\ Kind[c] = "send" /\ MayCall(c)
    /\ Goto(c, "asked") /\ SendFrame(c)
    /\ floor' = [floor EXCEPT ![c] = Len(keys)]
    /\ UNCHANGED <<frame, drawn, storeVars, session, clock>>

Upload(c, id, key) ==
    encode_message(<<Text(c)>>, Type, Chat, id, key, Sender[c], clock + Skew[Sender[c]])

\* Mutant: an empty reply does not wake the caller.
UploadWhenKey(c) ==
    /\ stage[c] = "replied" /\ frame[c] # <<>>
    /\ \E sealed \in {extractDynamicLengthQueue(frame[c])} :
        \E key \in {decript_rsa(sealed.val, Sender[c])},
           id \in {extractDynamicLengthQueue(sealed.rest)} :
           \/ /\ key = Throws
              /\ Goto(c, "threw")
              /\ UNCHANGED <<frame, trusted>>
           \/ /\ key # Throws
              /\ frame' = [frame EXCEPT ![c] = Upload(c, id.val, key)]
              /\ Goto(c, "sent") /\ SendFrame(c)
    /\ UNCHANGED <<drawn, floor, storeVars, session, clock>>
(* The rest of it, from the reply on.  An empty one is read as well, and   *)
(* the empty key it yields cannot be decrypted.                            *)
UploadMessage(c) ==
    /\ stage[c] = "replied"
    /\ \E sealed \in {extractDynamicLengthQueue(frame[c])} :
        \E key \in {decript_rsa(sealed.val, Sender[c])},
           id \in {extractDynamicLengthQueue(sealed.rest)} :
           \/ /\ key = Throws
              /\ Goto(c, "threw")
              /\ UNCHANGED <<frame, trusted>>
           \/ /\ key # Throws
              /\ frame' = [frame EXCEPT ![c] = Upload(c, id.val, key)]
              /\ Goto(c, "sent") /\ SendFrame(c)
    /\ UNCHANGED <<drawn, floor, storeVars, session, clock>>
-----------------------------------------------------------------------------
(* The server: custom_handler does nothing for a connection that is not    *)
(* authenticated, and returns an empty reply.                              *)
Drop(c) == /\ stage[c] = "sent" /\ ~trusted[c]
           /\ Goto(c, "dropped")
           /\ UNCHANGED <<frame, trusted, drawn, floor, storeVars, session, clock>>

get_newest_chat_key(c) ==
    /\ stage[c] = "asked"
    /\ \E newest \in {Newest(Sender[c])} :
           frame' = [frame EXCEPT ![c] =
                        IF trusted[c] /\ newest # 0
                        THEN NewestReply(Sender[c], keys[newest]) ELSE <<>>]
    /\ Goto(c, "replied")
    /\ UNCHANGED <<trusted, drawn, floor, storeVars, session, clock>>

(* set_chat_key draws a uuid: the generator is read and then advanced,     *)
(* without a lock.                                                         *)
DrawBegin(c) ==
    /\ Kind[c] = "generate" /\ stage[c] = "sent" /\ trusted[c]
    /\ drawn' = [drawn EXCEPT ![c] = gen]
    /\ met' = (met \/ \E d \in Calls : stage[d] = "drawing")
    /\ Goto(c, "drawing")
    /\ UNCHANGED <<frame, trusted, floor, gen, keys, log, session, clock>>

\* Mutant: the generator is not advanced.
DrawEndStuck(c) == /\ stage[c] = "drawing"
                   /\ Goto(c, "drawn")
                   /\ UNCHANGED <<frame, trusted, drawn, floor, storeVars, session, clock>>
DrawEnd(c) == /\ stage[c] = "drawing"
              /\ gen' = drawn[c] + 1
              /\ Goto(c, "drawn")
              /\ UNCHANGED <<frame, trusted, drawn, floor, keys, log, met, session, clock>>

\* Mutant: the store keeps one key of a chat.
SetChatKeyAlone(c) ==
    /\ stage[c] = "drawn"
    /\ keys' = <<[id |-> drawn[c], by |-> c]>>
    /\ Goto(c, "stored")
    /\ UNCHANGED <<frame, trusted, drawn, floor, gen, log, met, session, clock>>
SetChatKey(c) ==
    /\ stage[c] = "drawn"
    /\ keys' = Append(keys, [id |-> drawn[c], by |-> c])
    /\ Goto(c, "stored")
    /\ UNCHANGED <<frame, trusted, drawn, floor, gen, log, met, session, clock>>

in_window(value) == clock - Lower < value /\ clock + Upper > value

(* add_message: the message as the client signed it, of which a copy is    *)
(* verified; the time of the upload; the store.                            *)
Signed(c) == extractDynamicLengthQueue(frame[c]).rest

VerifyMessage(c) ==
    /\ Kind[c] = "send" /\ stage[c] = "sent" /\ trusted[c]
    /\ \E signed \in {Signed(c)} : \E verified \in {verify(signed, Sender[c])} :
           Goto(c, IF verified.safe /\ in_window(toSize_T(verified.data).val)
                   THEN "verified" ELSE "refused")
    /\ UNCHANGED <<frame, trusted, drawn, floor, storeVars, session, clock>>

\* Mutant: what is stored is what the verification left of the message.
StampVerified(c) ==
    /\ stage[c] = "verified"
    /\ frame' = [frame EXCEPT ![c] =
           StoredMessage(Sender[c], verify(Signed(c), Sender[c]).data, clock)]
    /\ Goto(c, "stamped")
    /\ UNCHANGED <<trusted, drawn, floor, storeVars, session, clock>>
StampMessage(c) ==
    /\ stage[c] = "verified"
    /\ frame' = [frame EXCEPT ![c] = StoredMessage(Sender[c], Signed(c), clock)]
    /\ Goto(c, "stamped")
    /\ UNCHANGED <<trusted, drawn, floor, storeVars, session, clock>>

StoreMessage(c) ==
    /\ stage[c] = "stamped"
    /\ log' = Append(log, frame[c])
    /\ Goto(c, "stored")
    /\ UNCHANGED <<frame, trusted, drawn, floor, gen, keys, met, session, clock>>
-----------------------------------------------------------------------------
Tick == /\ clock < MaxTime /\ clock' = clock + 1
        /\ UNCHANGED <<callVars, storeVars, session>>

(* The socket of u reconnects.  Frames are lost with the old connection,   *)
(* among them every reply that was still to come.                          *)
Underway(u) == {c \in Calls : Sender[c] = u /\ stage[c] \in {"asked", "replied", "sent"}}

Reconnect(u) ==
    /\ u \in Unstable /\ session[u]
    /\ session' = [session EXCEPT ![u] = FALSE]
    /\ \E lost \in SUBSET Underway(u) :
          /\ {c \in Underway(u) : stage[c] = "asked"} \subseteq lost
          /\ stage' = [c \in Calls |-> IF c \notin lost THEN stage[c]
                                       ELSE IF stage[c] = "sent" THEN "lost" ELSE "waiting"]
    /\ UNCHANGED <<frame, trusted, drawn, floor, storeVars, clock>>
-----------------------------------------------------------------------------
ClientStep(c) == generate_chat_key(c) \/ send_message(c) \/ UploadMessage(c)
ServerStep(c) == \/ Drop(c) \/ get_newest_chat_key(c)
                 \/ DrawBegin(c) \/ DrawEnd(c) \/ SetChatKey(c)
                 \/ VerifyMessage(c) \/ StampMessage(c) \/ StoreMessage(c)

Next == \/ \E c \in Calls : ClientStep(c) \/ ServerStep(c)
        \/ \E u \in Users : Reconnect(u)
        \/ Tick

(* Some task of the server, or some client whose reply has come, goes on   *)
(* while one can; nothing makes a client call.  There is no cycle, so every*)
(* one of them gets its turn.                                              *)
Advance == \E c \in Calls : UploadMessage(c) \/ ServerStep(c)
Spec == Init /\ [][Next]_vars /\ WF_vars(Advance)
-----------------------------------------------------------------------------
(* Every variable keeps its type.                                          *)
TypeOK ==
    /\ stage \in [Calls -> {"idle", "asked", "replied", "sent", "drawing", "drawn", "verified",
                            "stamped", "stored", "refused", "dropped", "threw", "lost", "waiting"}]
    /\ DOMAIN frame = Calls
    /\ trusted \in [Calls -> BOOLEAN] /\ session \in [Users -> BOOLEAN]
    /\ gen \in Nat /\ drawn \in [Calls -> Nat]
    /\ keys \in Seq([id : Nat, by : Calls])
    /\ clock \in Nat
    /\ floor \in [Calls -> Nat]
    /\ met \in BOOLEAN

(* A stored message as a reader takes it apart (decode_message), with the  *)
(* key its sender signs with.                                              *)
Opened(q) ==
    LET base == extract_server_and_user_data([msg_id |-> 0, message |-> q, invalid |-> FALSE])
        verified == verify(base.message, base.sender_id)
        data == extract_client_data([base EXCEPT !.message = verified.data])
        id == KeyId(data)
    IN  [safe |-> verified.safe, sender |-> base.sender_id, type |-> data.type,
         sent |-> data.send_time, uploaded |-> base.upload_time,
         id |-> id.val, cipher |-> id.rest]

Entries == {Opened(log[i]) : i \in DOMAIN log}
PostOf(m) == m.cipher[1].aes[1].text
SecretOf(m) == m.cipher[1].key[1].text

(* Every stored message is one that its sender sent, once: a reader finds  *)
(* the sender's name and good signature, the type and content of her call, *)
(* and a key that was made for her; the way from send_message through      *)
(* add_message to the reader neither changes nor repeats anything.         *)
StoredAsSent ==
    /\ \A m \in Entries :
          \E c \in Sends, g \in Generates :
             /\ m.safe /\ m.sender = Sender[c] /\ m.type = Type
             /\ m.cipher = encrypt(<<Text(c)>>, <<Text(g)>>)
             /\ Sender[c] \in Members[g]
    /\ \A i, j \in DOMAIN log :
          PostOf(Opened(log[i])) = PostOf(Opened(log[j])) => i = j

(* Whoever the key of a stored message was made for gets, under the id in  *)
(* the message, the key that opens it, and no other key has that id, unless*)
(* two ids were drawn at the same time: the generator may then be set back,*)
(* and repeat what it gave to others.                                      *)
MembersRead ==
    \A m \in Entries :
        \E i \in DOMAIN keys :
           /\ keys[i].by = SecretOf(m) /\ m.id = UuidBytes(keys[i].id)
           /\ \A j \in DOMAIN keys : keys[j].id = keys[i].id => i = j \/ met

(* No message is sealed with a key older than one that its sender had when *)
(* she called send_message: who was left out of that key cannot read what  *)
(* is sent after it.                                                       *)
KeysBefore(c) == {j \in 1 .. floor[c] : Sender[c] \in Members[keys[j].by]}

NoStaleKey ==
    \A m \in Entries : \A i \in DOMAIN keys :
        keys[i].by = SecretOf(m) => \A j \in KeysBefore(PostOf(m)) : j <= i

(* send_message throws only if its user had no key of the chat when she    *)
(* called it, or her socket has reconnected; the server refuses a message  *)
(* only if it came too late, or her clock is too far ahead: what sign and  *)
(* encode_message made of it always verifies.                              *)
SentAt(c) == toSize_T(verify(Signed(c), Sender[c]).data).val
FailureExplained ==
    \A c \in Calls :
       /\ stage[c] = "threw" => KeysBefore(c) = {} \/ ~session[Sender[c]]
       /\ stage[c] = "refused" => \/ clock >= SentAt(c) + Lower
                                 \/ Skew[Sender[c]] >= Upper

(* Messages of one thread may be stored in another order than they were    *)
(* sent (each is a task), but the times they were sent at put them right.  *)
SendTimesKeepOrder ==
    \A m, n \in Entries :
        PostOf(m) \in Earlier[PostOf(n)] => m.sent <= n.sent

(* The server implements the chat as its users see it: the keys it set and *)
(* the messages it stored are the keys and the posts of ChatLog.           *)
Sealed(q) == q[Len(q) - 2]
KeysSeen == [i \in DOMAIN keys |-> keys[i].by]
PostsSeen == [i \in DOMAIN log |-> [post |-> Sealed(log[i]).aes[1].text,
                                   under |-> Sealed(log[i]).key[1].text]]
Log == INSTANCE ChatLog WITH Keys <- Generates, Posts <- Sends, Author <- Sender,
                             keys <- KeysSeen, log <- PostsSeen
KeepsLog == Log!Spec

(* A message is stored or refused, or its caller is told that it was not   *)
(* sent, unless her socket reconnects.                                     *)
SendsSettle ==
    \A c \in Sends : stage[c] = "asked" ~>
        stage[c] \in {"stored", "refused", "threw"} \/ ~session[Sender[c]]
=============================================================================
