-------------------------- MODULE MessagePipeline --------------------------
(***************************************************************************)
(* Reading a chat with the C++ client: read_messages asks the server for a *)
(* range of messages, and decode_message takes the answer apart in passes  *)
(* over all of its messages, loading the keys of the senders and then the  *)
(* keys of the chat through two caches, and waiting for them.              *)
(*                                                                         *)
(* One thread reads; the answers to requests for keys are handled by tasks *)
(* of the message handler.  A message that fails a pass is marked invalid  *)
(* and skipped by the next ones, except by those that collect the keys to  *)
(* load: what they take for the key of such a message is no key.           *)
(*                                                                         *)
(* The handler of an answer (Cache::handle) holds the mutex of its cache   *)
(* until it has rejected and erased what did not come.  Cache::get takes no*)
(* mutex: it finds these waiters until each is erased, and one whose       *)
(* rejection has thrown at the reader stays locked (DataWaiter::get).  The *)
(* rest of the handler is one step; how it races with get key by key is the*)
(* subject of KeyCache.                                                    *)
(***************************************************************************)
EXTENDS WireFormat, FiniteSets

CONSTANTS Posts,      \* what was sent, in the order of the chat
          SignKeys,   \* the users' public keys, at the server
          ChatKeys,   \* the keys of the chat, by their ids
          Late,       \* the names and ids whose key the server has only later
          Chat, Reader,
          Ranges, MaxReads,            \* the reads; bound: how many
          None, Null, Pending, Rejected, Locked, Garbage

ASSUME ReadsAssumption == MaxReads \in Nat /\ Ranges \subseteq [first : Nat \ {0}, count : Nat]
ASSUME StatesAssumption ==
    /\ Pending \notin {None, Null, Rejected} /\ Rejected \notin {None, Null} /\ None # Null
    /\ Locked \notin {None, Null, Pending, Rejected}
    /\ \A k \in Range(SignKeys) \cup Range(ChatKeys) :
          k \notin {None, Null, Pending, Rejected, Locked}

ASSUME PostsAssumption ==
    /\ Posts \in Seq(Range(Posts))
    /\ \A i \in DOMAIN Posts : LET p == Posts[i]
                              IN  /\ p.sender \in Seq(Range(p.sender))
                                  /\ p.sent \in Nat /\ p.uploaded \in Nat
                                  /\ p.id = UuidBytes(p.id[1].uuid) /\ p.text # Throws

(* A chat key's id is a uuid, and no beginning of anything else.           *)
ASSUME IdsAssumption == \A id \in DOMAIN ChatKeys : id = UuidBytes(id[1].uuid)

VARIABLES
  pc,       \* of the reader: "idle", "asked", "answered", "signers", "signatures",
            \* "ids", "decrypting", "crashed"; "lost": its answer never comes
  turn,     \* the reads begun
  range,    \* what the read asks for
  answer,   \* and is answered: the numbers of messages, which come with them
  msgs, at, \* the messages, and the one the pass is at
  held,     \* the waiter the reader got for it: None, Pending, Rejected or the key,
            \* or Locked: it blocks on the waiter's mutex
  cache,    \* of "sign" and "chat": the entries, Null, Pending or the key
  erasing,  \* of "sign" and "chat": the keys a handler is about to erase, "reject":
            \* before it has rejected them, "erase": after, "locked": after the
            \* rejection has thrown at the reader
  leaked,   \* the caches whose mutex a handler has left locked
  asked,    \* the requests for keys that are not answered, or whose answer is
            \* not handled
  known,    \* the names and ids whose key the server has
  missed,   \* history: those it left out of an answer
  failed,   \* history: those asked for by requests answered with an error or lost
  ended     \* history: the reads that took their messages apart

readerVars == <<pc, turn, range, answer, msgs, at, ended>>
vars == <<readerVars, held, cache, erasing, leaked, asked, known, missed, failed>>

(* The messages as the server keeps them.                                  *)
Log == [i \in DOMAIN Posts |->
          LET p == Posts[i]
          IN  StoredMessage(p.sender,
                 sign(buildSignedMessageBlock(p.text, p.type, p.id, p.key, p.sent), p.signer),
                 p.uploaded)]
ChatKey(id) == <<Chat, id>>
Caches == {"sign", "chat"}
Names(c) == IF c = "sign" THEN DOMAIN SignKeys ELSE {ChatKey(id) : id \in DOMAIN ChatKeys}
AllKeys == UNION {Names(c) : c \in Caches}

Init == /\ pc = "idle" /\ turn = 0 /\ range = [first |-> 0, count |-> 0] /\ answer = <<>>
        /\ msgs = <<>> /\ at = 1 /\ held = None
        /\ cache = [c \in Caches |-> <<>>] /\ erasing = [c \in Caches |-> <<>>]
        /\ leaked = {} /\ asked = {}
        /\ known = AllKeys \ Late /\ missed = {} /\ failed = {} /\ ended = <<>>
-----------------------------------------------------------------------------
(* The server.                                                             *)
Numbers == [i \in DOMAIN Log |-> i]

read_message ==
    /\ pc = "asked"
    /\ LET last == range.first + range.count - 1
       IN  answer' = SubSeq(Numbers, range.first, IF last < Len(Log) THEN last ELSE Len(Log))
    /\ pc' = "answered"
    /\ UNCHANGED <<turn, range, msgs, at, ended, held, cache, erasing, leaked, asked, known, missed, failed>>

(* The answer is an error, which read_messages throws, or is lost with the *)
(* socket.                                                                 *)
MessagesFail ==
    /\ pc = "asked" /\ pc' \in {"idle", "lost"}
    /\ UNCHANGED <<turn, range, answer, msgs, at, ended>>
    /\ UNCHANGED <<held, cache, erasing, leaked, asked, known, missed, failed>>

(* get_signature_key, get_chat_key: keys it does not have are left out.    *)
Key(c, k) == IF c = "sign" THEN SignKeys[k] ELSE encript_rsa(ChatKeys[k[2]], Reader)

buid_cache_request_return(r) ==
    /\ r.stage = "request"
    /\ \E found \in {r.missing \cap known \cap Names(r.cache)} :
          /\ asked' = (asked \ {r}) \cup
                {[r EXCEPT !.stage = "answer", !.keys = [k \in found |-> Key(r.cache, k)]]}
          /\ missed' = missed \cup (r.missing \ found)
    /\ UNCHANGED <<readerVars, held, cache, erasing, leaked, known, failed>>

(* The answer is an error, which the cache takes no notice of, or is lost  *)
(* with the socket.                                                        *)
LoadFails(r) ==
    /\ r.stage = "request"
    /\ asked' = asked \ {r} /\ failed' = failed \cup r.missing
    /\ UNCHANGED <<readerVars, held, cache, erasing, leaked, known, missed>>

Learn(k) == /\ known' = known \cup {k}
            /\ UNCHANGED <<readerVars, held, cache, erasing, leaked, asked, missed, failed>>
-----------------------------------------------------------------------------
(* The handler of an answer: the promises of the keys it brings are        *)
(* fulfilled, then what else was wanted is rejected and erased, one after  *)
(* the other in any order, until one of these steps throws (its promise is *)
(* settled: the mutex stays locked) or crashes (there is no promise).  The *)
(* entries it erases leave cache at once, for erasing; what the reader does*)
(* before a crash is left out.                                             *)
Decode(r) == [k \in DOMAIN r.keys |-> IF r.cache = "sign" THEN r.keys[k]
                                      ELSE decript_rsa(r.keys[k], Reader)]

Entry(c, k) == IF k \in DOMAIN cache[c] THEN cache[c][k] ELSE Null
Pass(c) == IF c = "sign" THEN "signatures" ELSE "decrypting"
KeyOf(c, m) == IF c = "sign" THEN m.sender_id ELSE ChatKey(KeyId(m).val)
WaitsFor(c, k) == held = Pending /\ pc = Pass(c) /\ KeyOf(c, msgs[at]) = k

\* Mutant: nothing is rejected.
RestNone(users, value) == {}
Rest(users, value) == users \ DOMAIN value
\* Mutant: a key is erased before its promise is rejected.
EraseFirst(rejected, bad) == rejected \cup bad
Erased(rejected, bad) == rejected

Settle(c, value, bad, fulfilled, rejected) ==
    /\ cache' = [cache EXCEPT ![c] =
          [k \in DOMAIN cache[c] \ Erased(rejected, bad) |->
              IF k \in fulfilled THEN value[k] ELSE cache[c][k]]]
    /\ erasing' = [erasing EXCEPT ![c] = [k \in rejected |-> "reject"]]
    /\ held' = IF \E k \in fulfilled : WaitsFor(c, k)
               THEN value[KeyOf(c, msgs[at])] ELSE held
    /\ \/ bad = {} /\ UNCHANGED <<pc, leaked>>
       \/ \E k \in bad : IF Entry(c, k) = Null THEN pc' = "crashed" /\ UNCHANGED leaked
                         ELSE leaked' = leaked \cup {c} /\ UNCHANGED pc

HandleAnswer(r, value) ==
    LET isPending(k) == Entry(r.cache, k) = Pending
        unset == {k \in DOMAIN value : ~isPending(k)}
        rest == IF unset = {} THEN Rest(r.users, value) ELSE {}
        bad == unset \cup {k \in rest : ~isPending(k)}
    IN  \E fulfilled \in SUBSET (DOMAIN value \ bad), rejected \in SUBSET (rest \ bad) :
           /\ unset = {} => fulfilled = DOMAIN value
           /\ bad = {} => rejected = rest
           /\ Settle(r.cache, value, bad, fulfilled, rejected)

(* The mutex of a cache: held by a handler, or left locked by one.         *)
Free(c) == c \notin leaked /\ DOMAIN erasing[c] = {}

handle(r) ==
    /\ r.stage = "answer" /\ Free(r.cache)
    /\ \E value \in {Decode(r)} : HandleAnswer(r, value)
    /\ asked' = asked \ {r}
    /\ UNCHANGED <<turn, range, answer, msgs, at, ended, known, missed, failed>>

(* Every key is erased before the next one is rejected.                    *)
reject(c, k) ==
    /\ k \in DOMAIN erasing[c] /\ Range(erasing[c]) = {"reject"}
    /\ erasing' = [erasing EXCEPT ![c][k] = "erase"]
    /\ held' = IF WaitsFor(c, k) THEN Rejected ELSE held
    /\ UNCHANGED <<readerVars, cache, leaked, asked, known, missed, failed>>

erase(c, k) ==
    /\ k \in DOMAIN erasing[c] /\ erasing[c][k] # "reject"
    /\ erasing' = [erasing EXCEPT ![c] = [l \in DOMAIN @ \ {k} |-> @[l]]]
    /\ UNCHANGED <<readerVars, held, cache, leaked, asked, known, missed, failed>>
-----------------------------------------------------------------------------
(* The reader: read_messages, and the parsing of the answer.               *)
read_messages(r) ==
    /\ pc = "idle" /\ turn < MaxReads
    /\ turn' = turn + 1 /\ pc' = "asked"
    /\ range' = r
    /\ UNCHANGED <<answer, msgs, at, ended, held, cache, erasing, leaked, asked, known, missed, failed>>

(* What a message is taken apart into depends on it alone.                 *)
BaseMessage(i) == [msg_id |-> i, message |-> Log[i], invalid |-> FALSE]
Extracted == [i \in DOMAIN Log |-> extract_server_and_user_data(BaseMessage(i))]

ParseMessages ==
    /\ pc = "answered"
    /\ msgs' = [n \in DOMAIN answer |-> Extracted[answer[n]]]
    /\ pc' = "signers"
    /\ UNCHANGED <<turn, range, answer, at, ended, held, cache, erasing, leaked, asked, known, missed, failed>>

(* ensure_presance: only what is missing is asked for, but the handler of  *)
(* the answer is told everything that was wanted.                          *)
Missing(c, wanted) == wanted \ DOMAIN cache[c]

\* Mutant: the request is made before the promises are entered.
ensure_presanceLate(c, wanted) ==
    LET missing == Missing(c, wanted)
        request == [turn |-> turn, cache |-> c, users |-> wanted, missing |-> missing,
                    stage |-> "request", keys |-> <<>>]
    IN  /\ Free(c) /\ UNCHANGED cache
        /\ asked' = IF missing = {} THEN asked ELSE asked \cup {request}
ensure_presance(c, wanted) ==
    LET missing == Missing(c, wanted)
        request == [turn |-> turn, cache |-> c, users |-> wanted, missing |-> missing,
                    stage |-> "request", keys |-> <<>>]
    IN  /\ Free(c)
        /\ cache' = [cache EXCEPT ![c] =
              [k \in DOMAIN @ \cup missing |-> IF k \in missing THEN Pending ELSE Entry(c, k)]]
        /\ asked' = IF missing = {} THEN asked ELSE asked \cup {request}

(* The passes over all messages; KeyOf takes no notice of invalid.         *)
ensure(c, from) ==
    /\ pc = from
    /\ ensure_presance(c, {KeyOf(c, msgs[n]) : n \in DOMAIN msgs})
    /\ pc' = Pass(c) /\ at' = 1
    /\ UNCHANGED <<turn, range, answer, msgs, ended, held, erasing, leaked, known, missed, failed>>
ensure_ecdsa_key_presance == ensure("sign", "signers")
ensure_aes_key_presance == ensure("chat", "ids")

SetMessage(m) == msgs' = [msgs EXCEPT ![at] = m] /\ at' = at + 1 /\ held' = None
Invalid(m) == SetMessage([m EXCEPT !.invalid = TRUE])
InPass(c) == pc = Pass(c) /\ at <= Len(msgs)

Skip(c) == /\ InPass(c) /\ msgs[at].invalid
           /\ at' = at + 1
           /\ UNCHANGED <<pc, turn, range, answer, msgs, ended, held, cache, erasing, leaked, asked, known, missed, failed>>

\* Mutant: a message whose key has not come yet is given up.
getImpatient(c) ==
    /\ InPass(c) /\ ~msgs[at].invalid /\ held = None
    /\ LET k == KeyOf(c, msgs[at])
       IN  \/ Entry(c, k) \in {Null, Pending} /\ Invalid(msgs[at])
           \/ /\ Entry(c, k) \notin {Null, Pending}
              /\ held' = Entry(c, k) /\ UNCHANGED <<msgs, at>>
    /\ UNCHANGED <<pc, turn, range, answer, ended, cache, erasing, leaked, asked, known, missed, failed>>
(* Cache::get enters a null for a key that is not there; a waiter that is  *)
(* still there when it is to be erased is got as it is.                    *)
get(c) ==
    /\ InPass(c) /\ ~msgs[at].invalid /\ held = None
    /\ LET k == KeyOf(c, msgs[at])
       IN  /\ k \notin DOMAIN erasing[c]
           /\ cache' = [cache EXCEPT ![c] = [l \in DOMAIN @ \cup {k} |-> Entry(c, l)]]
           /\ \/ Entry(c, k) = Null /\ Invalid(msgs[at])
              \/ /\ Entry(c, k) # Null
                 /\ held' = Entry(c, k) /\ UNCHANGED <<msgs, at>>
    /\ UNCHANGED <<pc, turn, range, answer, ended, erasing, leaked, asked, known, missed, failed>>

getErasing(c) ==
    /\ InPass(c) /\ ~msgs[at].invalid /\ held = None
    /\ LET k == KeyOf(c, msgs[at])
       IN  /\ k \in DOMAIN erasing[c]
           /\ held' = CASE erasing[c][k] = "reject" -> Pending
                        [] erasing[c][k] = "erase" -> Rejected
                        [] erasing[c][k] = "locked" -> Locked
    /\ UNCHANGED <<readerVars, cache, erasing, leaked, asked, known, missed, failed>>

(* The waiter was rejected, and throws: its mutex stays locked, for as long*)
(* as the cache still has it.                                              *)
WaiterThrows(c) ==
    /\ InPass(c) /\ held = Rejected
    /\ Invalid(msgs[at])
    /\ erasing' = [erasing EXCEPT ![c] =
          [k \in DOMAIN @ |-> IF k = KeyOf(c, msgs[at]) THEN "locked" ELSE @[k]]]
    /\ UNCHANGED <<pc, turn, range, answer, ended, cache, leaked, asked, known, missed, failed>>

\* Mutant: the result of the verification is not tested.
check_nothing ==
    /\ InPass("sign") /\ held \notin {None, Pending, Rejected, Locked}
    /\ SetMessage([msgs[at] EXCEPT !.message = verify(msgs[at].message, held).data])
    /\ UNCHANGED <<pc, turn, range, answer, ended, cache, erasing, leaked, asked, known, missed, failed>>
(* The verification of a message that fails leaves nothing of it.          *)
check_signature ==
    /\ InPass("sign") /\ held \notin {None, Pending, Rejected, Locked}
    /\ \E verified \in {verify(msgs[at].message, held)} :
          \/ verified.safe /\ SetMessage([msgs[at] EXCEPT !.message = verified.data])
          \/ ~verified.safe /\ Invalid([msgs[at] EXCEPT !.message = <<>>])
    /\ UNCHANGED <<pc, turn, range, answer, ended, cache, erasing, leaked, asked, known, missed, failed>>

ExtractClientData ==
    /\ pc = "signatures" /\ at > Len(msgs)
    /\ msgs' = [n \in DOMAIN msgs |-> IF msgs[n].invalid THEN msgs[n]
                                      ELSE extract_client_data(msgs[n])]
    /\ pc' = "ids"
    /\ UNCHANGED <<turn, range, answer, at, ended, held, cache, erasing, leaked, asked, known, missed, failed>>

(* With the wrong key the padding is wrong and decrypt throws, out of      *)
(* decode_message as well; seldom it is right by chance.                   *)
End(threw) == /\ ended' = Append(ended, [msgs |-> msgs, threw |-> threw])
              /\ pc' = "idle" /\ at' = 1 /\ held' = None
              /\ msgs' = <<>> /\ answer' = <<>>

decrypt_message ==
    /\ InPass("chat") /\ held \notin {None, Pending, Rejected, Locked}
    /\ \E text \in {decrypt(KeyId(msgs[at]).rest, held)} :
          \/ /\ text # Throws
             /\ SetMessage([msgs[at] EXCEPT !.message = text]) /\ UNCHANGED <<pc, answer, ended>>
          \/ /\ text = Throws
             /\ SetMessage([msgs[at] EXCEPT !.message = Garbage]) /\ UNCHANGED <<pc, answer, ended>>
          \/ text = Throws /\ End(TRUE)
    /\ UNCHANGED <<turn, range, cache, erasing, leaked, asked, known, missed, failed>>

Return == /\ pc = "decrypting" /\ at > Len(msgs)
          /\ End(FALSE)
          /\ UNCHANGED <<turn, range, cache, erasing, leaked, asked, known, missed, failed>>
-----------------------------------------------------------------------------
ReaderStep ==
    \/ ParseMessages \/ ensure_ecdsa_key_presance \/ check_signature
    \/ ExtractClientData \/ ensure_aes_key_presance \/ decrypt_message \/ Return
    \/ \E c \in Caches : Skip(c) \/ get(c) \/ getErasing(c) \/ WaiterThrows(c)
TaskStep ==
    \/ read_message
    \/ \E r \in asked : buid_cache_request_return(r) \/ handle(r)
    \/ \E c \in Caches : \E k \in DOMAIN erasing[c] : reject(c, k) \/ erase(c, k)

Next == /\ pc # "crashed"
        /\ \/ \E r \in Ranges : read_messages(r)
           \/ ReaderStep \/ TaskStep
           \/ MessagesFail \/ \E r \in asked : LoadFails(r)
           \/ \E k \in Late \ known : Learn(k)

(* The threads run: while one can go on, one does.  No step can be taken   *)
(* for ever, so every one of them gets its turn.  That an answer fails and *)
(* that a key is enrolled may happen, and need not.                        *)
Advance == pc # "crashed" /\ (ReaderStep \/ TaskStep)
Spec == Init /\ [][Next]_vars /\ WF_vars(Advance)
-----------------------------------------------------------------------------
(* Every variable keeps its type.                                          *)
TypeOK ==
    /\ pc \in {"idle", "asked", "answered", "signers", "signatures", "ids", "decrypting",
               "crashed", "lost"}
    /\ turn \in 0 .. MaxReads /\ at \in Nat \ {0}
    /\ DOMAIN cache = Caches /\ DOMAIN erasing = Caches /\ leaked \subseteq Caches
    /\ \A c \in Caches : Range(erasing[c]) \subseteq {"reject", "erase", "locked"}
    /\ \A r \in asked : r.cache \in Caches /\ r.stage \in {"request", "answer"}
    /\ AllKeys \ Late \subseteq known /\ known \subseteq AllKeys \cup Late

(* What the reads that ended made of a message.                            *)
Results == UNION {Range(ended[j].msgs) : j \in DOMAIN ended}
Valid(j) == {m \in Range(ended[j].msgs) : ~m.invalid /\ ~ended[j].threw}
SignedWell(p) == p.sender \in DOMAIN SignKeys /\ p.signer = SignKeys[p.sender]
Clash(p) == p.id \in DOMAIN ChatKeys /\ ChatKeys[p.id] # p.key

(* A message that is not invalid was signed with the key the server has of *)
(* the sender it names, and its time, type and text are those she signed,  *)
(* unless the id of its key is the id of another key.                      *)
ValidAsSigned ==
    \A j \in DOMAIN ended : \A m \in Valid(j) :
        LET p == Posts[m.msg_id]
        IN  /\ m.sender_id = p.sender /\ SignedWell(p)
            /\ m.upload_time = p.uploaded /\ m.send_time = p.sent /\ m.type = p.type
            /\ m.message = p.text \/ (Clash(p) /\ m.message = Garbage)

(* A message is invalid only if the signature is not that of its sender,   *)
(* the server has left one of its keys out of an answer, of this read or   *)
(* of an earlier one, or an earlier read threw, whose requests may be still*)
(* under way; and a read throws only on a message with a wrong key.        *)
ThrewBefore(j) == \E i \in DOMAIN ended : i < j /\ ended[i].threw

FailureExplained ==
    \A j \in DOMAIN ended :
        /\ \A m \in Range(ended[j].msgs) : m.invalid =>
              LET p == Posts[m.msg_id]
              IN  \/ ~SignedWell(p) \/ ThrewBefore(j)
                  \/ p.sender \in missed \/ ChatKey(p.id) \in missed
        /\ ended[j].threw => \E m \in Range(ended[j].msgs) : Clash(Posts[m.msg_id])

(* What was read once is read again: its keys stay, whatever happens to    *)
(* those of other messages.                                                *)
ValidStaysValid ==
    \A i, j \in DOMAIN ended : i < j /\ ~ended[j].threw =>
        \A m \in Valid(i), n \in Range(ended[j].msgs) :
            m.msg_id = n.msg_id => ~n.invalid

(* The process crashes only after the server has left a key out or a read  *)
(* threw, and a mutex is left locked only when a message was invalid, a    *)
(* read threw, or two reads shared some senders or chat keys and not all of*)
(* them: messages that can all be read do no harm, read in one piece or in *)
(* pieces that share nothing.  The reader blocks on the mutex of a waiter  *)
(* only at a message whose key it has already waited for in vain in the    *)
(* same pass, for another message of that sender or chat key, which the    *)
(* server has left out of an answer or a read that threw had asked for.    *)
SharePart(Of(_)) ==
    \E a, b \in {msgs} \cup {ended[j].msgs : j \in DOMAIN ended} :
        LET KeysOf(ms) == {Of(Posts[m.msg_id]) : m \in Range(ms)}
        IN  KeysOf(a) \cap KeysOf(b) # {} /\ ~(KeysOf(b) \subseteq KeysOf(a))
SenderOf(p) == p.sender
IdOf(p) == p.id
InVain(k) == k \in missed \/ ThrewBefore(MaxReads + 1)
SecondOf(Of(_)) ==
    \E n \in DOMAIN msgs :
        n < at /\ msgs[n].invalid /\ Of(Posts[msgs[n].msg_id]) = Of(Posts[msgs[at].msg_id])

TroubleExplained ==
    /\ pc = "crashed" => missed # {} \/ ThrewBefore(MaxReads + 1)
    /\ leaked # {} => \/ ThrewBefore(MaxReads + 1)
                      \/ \E m \in Results \cup Range(msgs) : m.invalid
                      \/ SharePart(SenderOf) \/ SharePart(IdOf)
    /\ InPass("sign") /\ held = Locked =>
          SecondOf(SenderOf) /\ InVain(Posts[msgs[at].msg_id].sender)
    /\ InPass("chat") /\ held = Locked =>
          SecondOf(IdOf) /\ InVain(ChatKey(Posts[msgs[at].msg_id].id))

(* A key the reader waits for that nobody will ever settle: the answer to  *)
(* the request for it was an error or was lost, and no other request that  *)
(* wanted it is under way.                                                 *)
Abandoned(c, k) ==
    k \in failed /\ Entry(c, k) = Pending /\ \A r \in asked : k \notin r.users

(* A read returns or throws, unless its own answer is lost, a cache's mutex*)
(* was left locked, the reader blocks on the mutex of a waiter, or it waits*)
(* for a key whose request was answered with an error or lost.             *)
ReadsReturn ==
    (pc = "asked") ~>
        (\/ pc \in {"idle", "crashed", "lost"} \/ leaked # {} \/ held = Locked
         \/ \E c \in Caches : /\ InPass(c) /\ held = Pending
                              /\ Abandoned(c, KeyOf(c, msgs[at])))
=============================================================================
