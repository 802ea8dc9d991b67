------------------------------- MODULE NodeKeys -------------------------------
(***************************************************************************)
(* The keys of the Node client: get_key with the map signature_keys,       *)
(* get_chat_key with the map aes_keys, and what uses them: decode_messages *)
(* (for each message the key of its sender, then its chat key) and         *)
(* generate_chat_keys (the keys of all users of a chat).                   *)
(*                                                                         *)
(* Both maps hold promises, entered before the request for them is sent,   *)
(* so that a key is requested once.  get_key keeps the resolvers of the    *)
(* promises it entered in the order of its request and gives the n-th of   *)
(* them the n-th key of the reply.  Nothing ever rejects those promises.   *)
(*                                                                         *)
(* A name stands for id + user, the key of signature_keys; a place is an   *)
(* index of the list of users a call was made with; the list names no user *)
(* twice.                                                                  *)
(***************************************************************************)
EXTENDS Naturals, FiniteSets, Sequences

CONSTANTS Calls,      \* calls of get_key, by generate_chat_keys or for a message
          Names,
          Users,      \* Users[c]: the names call c asks for, in order
          ChatKeys,
          ChatKey,    \* ChatKey[c]: the chat key of c's message, or NoChat
          Servers     \* the kinds of servers that answer, see Answers

CONSTANTS Absent, Pending, NoChat

ASSUME UsersAssumption ==
    /\ Users \in [Calls -> Seq(Names)]
    /\ \A c \in Calls : \A p, q \in DOMAIN Users[c] : Users[c][p] = Users[c][q] => p = q
ASSUME ChatKeyAssumption ==
    ChatKey \in [Calls -> ChatKeys \cup {NoChat}] /\ NoChat \notin ChatKeys
ASSUME MessageAssumption ==   \* a message has one sender
    \A c \in Calls : ChatKey[c] # NoChat => Len(Users[c]) = 1
ASSUME ServersAssumption == Servers \subseteq {"promises", "records", "keys"}
ASSUME DistinctAssumption ==
    Absent \notin Names \cup {"key"} /\ Pending \notin Names \cup {"key"} /\ Absent # Pending

VARIABLES
  pc,        \* each call: "idle", "known" (awaits the keys of others), "sent",
             \* "replied", "lost", "keys", "chat", "done", "failed" (it threw)
  unknown,   \* unkown_users: the places of each call's request
  reply,     \* what was answered: the places served, and whether with a key
  result,    \* what get_key returns: whose key each call has at a place
  key,       \* signature_keys: Absent, Pending, or the name whose key it is
  chat,      \* aes_keys: Absent, Pending or "key"
  chatReq    \* each call's request for its chat key: "none", "sent", "key",
             \* "empty", "lost"

keyVars == <<unknown, reply, result, key>>
chatVars == <<chat, chatReq>>
vars == <<pc, keyVars, chatVars>>

Places(c) == DOMAIN Users[c]
Named(c, places) == {Users[c][p] : p \in places}

Init == /\ pc = [c \in Calls |-> "idle"]
        /\ unknown = [c \in Calls |-> {}]
        /\ reply = [c \in Calls |-> [served |-> {}, keyed |-> TRUE]]
        /\ result = [c \in Calls |-> [p \in Places(c) |-> Absent]]
        /\ key = [k \in Names |-> Absent]
        /\ chat = [k \in ChatKeys |-> Absent]
        /\ chatReq = [c \in Calls |-> "none"]

Move(c, from, to) == pc[c] = from /\ pc' = [pc EXCEPT ![c] = to]
-----------------------------------------------------------------------------
(* get_key.  The definitions after a line "Mutant" are faults for the      *)
(* checks of the properties, used by no action.                            *)

\* Mutant: the promises are entered when the reply has come.
EnterPromisesLater(c, names) == UNCHANGED key
EnterPromises(c, names) == key' = [k \in Names |-> IF k \in names THEN Pending ELSE key[k]]

(* Up to the first await: which users are known, and promises for others.  *)
Ask(c) ==
    LET new == {p \in Places(c) : key[Users[c][p]] = Absent} IN
    /\ Move(c, "idle", "known")
    /\ unknown' = [unknown EXCEPT ![c] = new]
    /\ EnterPromises(c, Named(c, new))
    /\ UNCHANGED <<reply, result, chatVars>>

\* Mutant: all of the promises are awaited, the new ones as well.
RequestAwaitsAll(c) ==
    /\ \A p \in Places(c) : key[Users[c][p]] # Pending
    /\ Move(c, "known", "sent")
    /\ result' = [result EXCEPT ![c] = [p \in Places(c) |-> key[Users[c][p]]]]
    /\ UNCHANGED <<unknown, reply, key, chatVars>>
(* All promises that were known are resolved; only now is a request sent,  *)
(* and it is sent even if nothing is unknown.                              *)
Request(c) ==
    LET known == Places(c) \ unknown[c] IN
    /\ \A p \in known : key[Users[c][p]] # Pending
    /\ Move(c, "known", "sent")
    /\ result' = [result EXCEPT ![c] =
                    [p \in Places(c) |-> IF p \in known THEN key[Users[c][p]] ELSE Absent]]
    /\ UNCHANGED <<unknown, reply, key, chatVars>>

(* What a server answers to a request for these places.  The server of     *)
(* this repository writes the user and the properties of what get_pub_key  *)
(* returned: of a promise it has none to write and no reason to leave the  *)
(* user out; of a record, data_key and sign_key, never the property key    *)
(* the client reads.  A server the client could use writes keys, and may   *)
(* have none for a user.                                                   *)
Answers(server, places) ==
    {answer \in [served : SUBSET places, keyed : BOOLEAN] :
        /\ answer.keyed <=> server = "keys"
        /\ server = "promises" => answer.served = places}

Answer(c) ==
    /\ Move(c, "sent", "replied")
    /\ \E server \in Servers : \E answer \in Answers(server, unknown[c]) :
          reply' = [reply EXCEPT ![c] = answer]
    /\ UNCHANGED <<unknown, result, key, chatVars>>

(* The socket closed, or the server's handler threw (NodeSession).         *)
LoseReply(c) == Move(c, "sent", "lost") /\ UNCHANGED <<keyVars, chatVars>>

Rank(places, p) == Cardinality({q \in places : q <= p})

\* Mutant: the resolvers are taken from the end of the list.
KeyForLast(places, served, p) ==
    {q \in served : Rank(served, q) = Rank(places, p) + Cardinality(served) - Cardinality(places)}
(* The n-th key of the reply goes to the n-th resolver: the place whose    *)
(* key p gets, if any.                                                     *)
KeyFor(places, served, p) == {q \in served : Rank(served, q) = Rank(places, p)}

Resolved(c) == {p \in unknown[c] : KeyFor(unknown[c], reply[c].served, p) # {}}
KeyOf(c, p) == Users[c][CHOOSE q \in KeyFor(unknown[c], reply[c].served, p) : TRUE]

\* Mutant: the promise of the first user only is resolved.
ResolveFirst(c) == key' = [k \in Names |->
    IF \E p \in Resolved(c) : Users[c][p] = k /\ Rank(Resolved(c), p) = 1
        THEN KeyOf(c, CHOOSE p \in Resolved(c) : Users[c][p] = k) ELSE key[k]]
Resolve(c) == key' = [k \in Names |->
    IF \E p \in Resolved(c) : Users[c][p] = k
        THEN KeyOf(c, CHOOSE p \in Resolved(c) : Users[c][p] = k) ELSE key[k]]

ReceiveKeys(c) ==
    /\ reply[c].keyed \/ reply[c].served = {}
    /\ Move(c, "replied", "keys")
    /\ result' = [result EXCEPT ![c] =
          [p \in Places(c) |-> IF p \in Resolved(c) THEN KeyOf(c, p) ELSE result[c][p]]]
    /\ Resolve(c)
    /\ UNCHANGED <<unknown, reply, chatVars>>

(* "missing public key for a certain user", before any promise is resolved *)
ReceiveThrows(c) ==
    /\ ~reply[c].keyed /\ reply[c].served # {}
    /\ Move(c, "replied", "failed")
    /\ UNCHANGED <<keyVars, chatVars>>
-----------------------------------------------------------------------------
(* generate_chat_keys encrypts a new chat key for each user in the result  *)
(* and sends it; its reply is an ordinary request (NodeSession).           *)
Generate(c) == /\ ChatKey[c] = NoChat
               /\ Move(c, "keys", "done")
               /\ UNCHANGED <<keyVars, chatVars>>

(* The signature of a message verifies with the key of its sender.         *)
Verified(c) == result[c] = Users[c]

VerifyFails(c) == /\ ChatKey[c] # NoChat /\ ~Verified(c)
                  /\ Move(c, "keys", "failed")
                  /\ UNCHANGED <<keyVars, chatVars>>

EnterChatKey(c) == chat' = [chat EXCEPT ![ChatKey[c]] = Pending]

(* get_chat_key: one request, and a promise entered in the same turn.      *)
AskChatKey(c) ==
    /\ ChatKey[c] # NoChat /\ Verified(c)
    /\ Move(c, "keys", "chat")
    /\ \/ /\ chat[ChatKey[c]] = Absent
          /\ EnterChatKey(c)
          /\ chatReq' = [chatReq EXCEPT ![c] = "sent"]
       \/ chat[ChatKey[c]] # Absent /\ UNCHANGED chatVars
    /\ UNCHANGED keyVars

(* The key, encrypted for this user.  The branch that rejects (no data_key)*)
(* is not reached: send holds until the user has authenticated.            *)
ChatKeyArrives(c) == /\ chatReq[c] = "sent"
                     /\ chatReq' = [chatReq EXCEPT ![c] = "key"]
                     /\ chat' = [chat EXCEPT ![ChatKey[c]] = "key"]
                     /\ UNCHANGED <<pc, keyVars>>

(* An empty reply (no such chat key), which throws in the chain of         *)
(* callbacks, or none: the promise stays as it is.                         *)
ChatKeyMissing(c) == /\ chatReq[c] = "sent"
                     /\ \E answer \in {"empty", "lost"} :
                           chatReq' = [chatReq EXCEPT ![c] = answer]
                     /\ UNCHANGED <<pc, keyVars, chat>>

Decode(c) == /\ Move(c, "chat", "done")
             /\ chat[ChatKey[c]] = "key"
             /\ UNCHANGED <<keyVars, chatVars>>
-----------------------------------------------------------------------------
Client(c) == \/ Ask(c) \/ Request(c) \/ ReceiveKeys(c) \/ ReceiveThrows(c)
             \/ Generate(c) \/ VerifyFails(c) \/ AskChatKey(c) \/ Decode(c)
Server(c) == Answer(c) \/ LoseReply(c)
ChatServer(c) == ChatKeyArrives(c) \/ ChatKeyMissing(c)

Next == \E c \in Calls : Client(c) \/ Server(c) \/ ChatServer(c)

(* The event loop runs every continuation; requests are answered or lost.  *)
Spec == /\ Init /\ [][Next]_vars
        /\ \A c \in Calls : /\ WF_vars(Client(c)) /\ WF_vars(Server(c))
                            /\ WF_vars(ChatServer(c))
-----------------------------------------------------------------------------
(* Every variable keeps its type.                                          *)
TypeOK ==
    /\ pc \in [Calls -> {"idle", "known", "sent", "replied", "lost", "keys",
                         "chat", "done", "failed"}]
    /\ unknown \in [Calls -> SUBSET Nat]
    /\ reply \in [Calls -> [served : SUBSET Nat, keyed : BOOLEAN]]
    /\ DOMAIN result = Calls
    /\ \A c \in Calls : /\ reply[c].served \subseteq unknown[c]
                        /\ unknown[c] \subseteq Places(c)
                        /\ result[c] \in [Places(c) -> Names \cup {Absent}]
    /\ key \in [Names -> Names \cup {Absent, Pending}]
    /\ chat \in [ChatKeys -> {Absent, Pending, "key"}]
    /\ chatReq \in [Calls -> {"none", "sent", "key", "empty", "lost"}]

(* No user's key and no chat key is requested twice, whatever the calls    *)
(* and however their replies are ordered.                                  *)
RequestedOnce ==
    \A c, d \in Calls : c # d =>
        /\ \A p \in unknown[c], q \in unknown[d] : Users[c][p] # Users[d][q]
        /\ chatReq[c] # "none" /\ chatReq[d] # "none" => ChatKey[c] # ChatKey[d]

(* The reply to c's request has no key for the user at place p.            *)
LeftOut(c, p) == pc[c] \in {"keys", "chat", "done", "failed"}
                     /\ p \in unknown[c] \ reply[c].served

(* What a call returns for a user is her own key, unless the reply to the  *)
(* request for her left out her or someone before her.  (The chat key      *)
(* would be encrypted for the wrong user under her name.)                  *)
OwnKeys ==
    \A c \in Calls : \A p \in Places(c) :
        pc[c] \in {"keys", "chat", "done"} =>
            \/ result[c][p] = Users[c][p]
            \/ \E d \in Calls : \E q \in Places(d) : \E r \in 1 .. q :
                  Users[d][q] = Users[c][p] /\ LeftOut(d, r)

(* A promise is pending only while the call that requested it goes on, or  *)
(* for ever because that call failed, lost its reply, or was given fewer   *)
(* keys than it asked for.                                                 *)
PendingExplained ==
    \A k \in Names : key[k] = Pending =>
        \E c \in Calls :
            /\ \E p \in unknown[c] : Users[c][p] = k
            /\ \/ pc[c] \in {"known", "sent", "replied", "lost", "failed"}
               \/ \E p \in Places(c) : LeftOut(c, p)

(* Calls wait for each other's promises, but never in a circle: each ends, *)
(* unless some request was lost, refused or not answered in full.          *)
CallsEnd ==
    \A c \in Calls : <>(\/ pc[c] \in {"done", "failed"}
                        \/ \E d \in Calls : \/ pc[d] \in {"lost", "failed"}
                                            \/ \E p \in Places(d) : LeftOut(d, p)
                                            \/ chatReq[d] \in {"empty", "lost"})

(* "@returns the keys by user" (clientConnectionHandler.ts:204): a call    *)
(* that is answered does not throw.                                        *)
AnsweredCallsReturn == \A c \in Calls : pc[c] # "failed"
=============================================================================
