------------------------------ MODULE KeyCache ------------------------------
(***************************************************************************)
(* The caches of keys of the C++ client: Cache and DataWaiter, with the    *)
(* threads that load keys and then wait for them (decode_message,          *)
(* generate_chat_key) and the task that handles the reply of the server.   *)
(*                                                                         *)
(* A load first enters a waiter for every key the cache does not contain,  *)
(* under the mutex of the cache, and requests those keys in one message;   *)
(* then it gets each of its keys, without the mutex, and waits for it.     *)
(* The reply's handler sets the values, again under the mutex, then        *)
(* rejects and erases what it was created with and was not returned.       *)
(*                                                                         *)
(* A waiter is named by the load that entered it and its key.  An access   *)
(* the language leaves undefined (a null pointer used; get while another   *)
(* thread changes the map) may end the program: crashed.                   *)
(***************************************************************************)
EXTENDS FiniteSets

CONSTANTS Loads,       \* the threads, each with one call of a load_*_keys
          Keys,
          Wanted,      \* Wanted[l]: the keys l loads and then gets
          Checks       \* the loads whose caller tests the result of get for
                       \* null (decode_message does, generate_chat_key not)

ASSUME WantedAssumption == Wanted \in [Loads -> SUBSET Keys]
ASSUME ChecksAssumption == Checks \subseteq Loads
CONSTANTS Absent, Null, Free, Leaked
ASSUME DistinctAssumption ==
    /\ Absent \notin Loads \cup {"value", "invalid"} /\ Null \notin Loads /\ Absent # Null
    /\ Free \notin Loads /\ Leaked \notin Loads /\ Free # Leaked

VARIABLES
  pc,        \* each load: "load", "locked" (in ensure_presance), "send",
             \* "get", "lock", "wait" (in DataWaiter.get), "done"
  missing,   \* the keys each load requested
  todo,      \* the keys each load has still to get
  current,   \* the waiter a load is at: the load that entered it and the key
  got,       \* what each load got for a key: Absent (nothing yet), "value", "invalid"
  cache,     \* each key: Absent, Null, or the load that entered its waiter
  promise,   \* each waiter: "none" (not made), "pending", "value", "error"
  mu,        \* the mutex of the cache: Free, the load or reply that holds it,
             \* Leaked (its holder left by an exception)
  waiterMu,  \* the mutex of each waiter, likewise
  fetch,     \* each request: "none", "sent", "replied", "handle", "failed", "thrown", "done"
  found,     \* the keys of the reply whose value has still to be set
  users,     \* CacheHandlerData.users
  erasing,   \* the key that was rejected and is about to be erased
  crashed    \* "no", "null" (a null pointer used), "race"

loadVars == <<pc, missing, todo, current, got>>
mapVars == <<cache, promise, mu>>
fetchVars == <<fetch, found, users, erasing>>
vars == <<loadVars, mapVars, waiterMu, fetchVars, crashed>>

Waiters == Loads \X Keys

Init == /\ pc = [l \in Loads |-> "load"] /\ missing = [l \in Loads |-> {}]
        /\ todo = Wanted /\ current = [l \in Loads |-> Null]
        /\ got = [l \in Loads |-> [k \in Keys |-> Absent]]
        /\ cache = [k \in Keys |-> Absent]
        /\ promise = [w \in Waiters |-> "none"]
        /\ mu = Free /\ waiterMu = [w \in Waiters |-> Free]
        /\ fetch = [l \in Loads |-> "none"]
        /\ found = [l \in Loads |-> {}] /\ users = [l \in Loads |-> {}]
        /\ erasing = [l \in Loads |-> {}]
        /\ crashed = "no"

(* Where load l and the handling of its request are, while the program runs. *)
At(l, place) == crashed = "no" /\ pc[l] = place
Stage(l, stage) == crashed = "no" /\ fetch[l] = stage

Goto(l, place) == pc' = [pc EXCEPT ![l] = place]
Reach(l, stage) == fetch' = [fetch EXCEPT ![l] = stage]
Crash(why) == crashed' = why
-----------------------------------------------------------------------------
(* ensure_presance.  The definitions after a line "Mutant" are faults for  *)
(* the checks of the properties, used by no action.                        *)

NotCached(l) == {k \in Wanted[l] : cache[k] = Absent}

\* Mutant: the waiters are entered when the reply arrives.
EnterWaitersNone(l, keys) == UNCHANGED <<cache, promise>>
EnterWaiters(l, keys) ==
    /\ cache' = [k \in Keys |-> IF k \in keys THEN l ELSE cache[k]]
    /\ promise' = [w \in Waiters |-> IF w \in {l} \X keys THEN "pending" ELSE promise[w]]

EnsureLock(l) == /\ At(l, "load") /\ mu = Free
                 /\ mu' = l
                 /\ missing' = [missing EXCEPT ![l] = NotCached(l)]
                 /\ EnterWaiters(l, NotCached(l))
                 /\ Goto(l, "locked")
                 /\ UNCHANGED <<todo, current, got, waiterMu, fetchVars, crashed>>

EnsureUnlock(l) == /\ At(l, "locked")
                   /\ mu' = Free
                   /\ Goto(l, IF missing[l] = {} THEN "get" ELSE "send")
                   /\ UNCHANGED <<missing, todo, current, got, cache, promise,
                                  waiterMu, fetchVars, crashed>>

(* The reply's handler is created with all the keys wanted (line 62).      *)
Send(l) == /\ At(l, "send")
           /\ users' = [users EXCEPT ![l] = Wanted[l]]
           /\ Reach(l, "sent") /\ Goto(l, "get")
           /\ UNCHANGED <<missing, todo, current, got, mapVars, waiterMu, found, erasing, crashed>>
-----------------------------------------------------------------------------
(* The caller's loop over its keys: Cache::get, then DataWaiter::get.      *)

Got(l, k, result) == /\ got' = [got EXCEPT ![l][k] = result]
                     /\ todo' = [todo EXCEPT ![l] = @ \ {k}]

(* cache[key]: a key that is not there is entered with a null pointer.     *)
GetNull(l, k) == /\ At(l, "get") /\ k \in todo[l]
                 /\ cache[k] \in {Absent, Null}
                 /\ cache' = [cache EXCEPT ![k] = Null]
                 /\ IF l \in Checks THEN Got(l, k, "invalid") /\ UNCHANGED crashed
                                  ELSE Crash("null") /\ UNCHANGED <<got, todo>>
                 /\ UNCHANGED <<pc, missing, current, promise, mu, waiterMu, fetchVars>>

GetWaiter(l, k) == /\ At(l, "get") /\ k \in todo[l]
                   /\ cache[k] \in Loads
                   /\ current' = [current EXCEPT ![l] = <<cache[k], k>>]
                   /\ Goto(l, "lock")
                   /\ UNCHANGED <<missing, todo, got, mapVars, waiterMu, fetchVars, crashed>>

(* get reads the map while the holder of the mutex changes it.             *)
GetRaces(l) == /\ At(l, "get") /\ todo[l] # {}
               /\ mu \in Loads
               /\ Crash("race")
               /\ UNCHANGED <<loadVars, mapVars, waiterMu, fetchVars>>

WaiterLock(l) == /\ At(l, "lock")
                 /\ waiterMu[current[l]] = Free
                 /\ waiterMu' = [waiterMu EXCEPT ![current[l]] = l]
                 /\ Goto(l, "wait")
                 /\ UNCHANGED <<missing, todo, current, got, mapVars, fetchVars, crashed>>

WaiterValue(l) == /\ At(l, "wait")
                  /\ promise[current[l]] = "value"
                  /\ Got(l, current[l][2], "value")
                  /\ waiterMu' = [waiterMu EXCEPT ![current[l]] = Free]
                  /\ Goto(l, "get")
                  /\ UNCHANGED <<missing, current, mapVars, fetchVars, crashed>>

(* future.get throws between mu.lock and mu.unlock.                        *)
WaiterThrows(l) == /\ At(l, "wait")
                   /\ promise[current[l]] = "error"
                   /\ Got(l, current[l][2], "invalid")
                   /\ waiterMu' = [waiterMu EXCEPT ![current[l]] = Leaked]
                   /\ Goto(l, "get")
                   /\ UNCHANGED <<missing, current, mapVars, fetchVars, crashed>>

Return(l) == /\ At(l, "get") /\ todo[l] = {}
             /\ Goto(l, "done")
             /\ UNCHANGED <<missing, todo, current, got, mapVars, waiterMu, fetchVars, crashed>>
-----------------------------------------------------------------------------
(* The server answers with the requested keys it can provide: any of them. *)
Answer(l) == /\ Stage(l, "sent")
             /\ \E keys \in SUBSET missing[l] : found' = [found EXCEPT ![l] = keys]
             /\ Reach(l, "replied")
             /\ UNCHANGED <<loadVars, mapVars, waiterMu, users, erasing, crashed>>

(* An error is answered (CallbackReturnHandler::reject does nothing), the  *)
(* reply is lost (MessageHandler), or its decoding throws.                 *)
AnswerFails(l) == /\ Stage(l, "sent")
                  /\ Reach(l, "failed")
                  /\ UNCHANGED <<loadVars, mapVars, waiterMu, found, users, erasing, crashed>>

HandleLock(l) == /\ Stage(l, "replied") /\ mu = Free
                 /\ mu' = l
                 /\ Reach(l, "handle")
                 /\ UNCHANGED <<loadVars, cache, promise, waiterMu, found, users, erasing, crashed>>

(* set_value or set_exception on the waiter of k: a promise that is        *)
(* satisfied already makes it throw, and the mutex stays locked.           *)
Satisfy(l, k, outcome) ==
    LET w == <<cache[k], k>> IN
    /\ cache[k] \in Loads /\ promise[w] = "pending"
    /\ promise' = [promise EXCEPT ![w] = outcome]
SatisfyThrows(l, k) ==
    /\ cache[k] \in Loads /\ promise[<<cache[k], k>>] # "pending"
    /\ mu' = Leaked
    /\ Reach(l, "thrown")

\* Mutant: a returned key stays in users.
SettledKeeps(l, k) == UNCHANGED users
Settled(l, k) == users' = [users EXCEPT ![l] = @ \ {k}]

HandleValue(l, k) ==
    /\ Stage(l, "handle") /\ k \in found[l]
    /\ \/ /\ Satisfy(l, k, "value")
          /\ found' = [found EXCEPT ![l] = @ \ {k}]
          /\ Settled(l, k)
          /\ UNCHANGED <<mu, fetch, crashed>>
       \/ SatisfyThrows(l, k) /\ UNCHANGED <<promise, found, users, crashed>>
       \/ /\ cache[k] \notin Loads /\ Crash("null")
          /\ UNCHANGED <<promise, found, users, mu, fetch>>
    /\ UNCHANGED <<loadVars, cache, waiterMu, erasing>>

\* Mutant: the promise of a key that is rejected is not looked at.
HandleRejectAny(l, k) ==
    /\ Stage(l, "handle") /\ found[l] = {} /\ erasing[l] = {}
    /\ k \in users[l]
    /\ users' = [users EXCEPT ![l] = @ \ {k}]
    /\ erasing' = [erasing EXCEPT ![l] = {k}]
    /\ UNCHANGED <<loadVars, mapVars, waiterMu, fetch, found, crashed>>
HandleReject(l, k) ==
    /\ Stage(l, "handle") /\ found[l] = {} /\ erasing[l] = {}
    /\ k \in users[l]
    /\ \/ /\ Satisfy(l, k, "error")
          /\ users' = [users EXCEPT ![l] = @ \ {k}]
          /\ erasing' = [erasing EXCEPT ![l] = {k}]
          /\ UNCHANGED <<mu, fetch, crashed>>
       \/ SatisfyThrows(l, k) /\ UNCHANGED <<promise, users, erasing, crashed>>
       \/ /\ cache[k] \notin Loads /\ Crash("null")
          /\ UNCHANGED <<promise, users, erasing, mu, fetch>>
    /\ UNCHANGED <<loadVars, cache, waiterMu, found>>

HandleErase(l, k) == /\ Stage(l, "handle") /\ k \in erasing[l]
                     /\ cache' = [cache EXCEPT ![k] = Absent]
                     /\ erasing' = [erasing EXCEPT ![l] = {}]
                     /\ UNCHANGED <<loadVars, promise, mu, waiterMu, fetch, found, users, crashed>>

\* Mutant: the mutex is not unlocked when nothing was rejected.
HandleEndLocked(l) ==
    /\ Stage(l, "handle")
    /\ found[l] = {} /\ users[l] = {} /\ erasing[l] = {}
    /\ Reach(l, "done")
    /\ UNCHANGED <<loadVars, mapVars, waiterMu, found, users, erasing, crashed>>
HandleEnd(l) == /\ Stage(l, "handle")
                /\ found[l] = {} /\ users[l] = {} /\ erasing[l] = {}
                /\ mu' = Free
                /\ Reach(l, "done")
                /\ UNCHANGED <<loadVars, cache, promise, waiterMu, found, users, erasing, crashed>>
-----------------------------------------------------------------------------
Thread(l) == \/ EnsureLock(l) \/ EnsureUnlock(l) \/ Send(l)
             \/ \E k \in Keys : GetNull(l, k) \/ GetWaiter(l, k)
             \/ WaiterLock(l) \/ WaiterValue(l) \/ WaiterThrows(l) \/ Return(l)
Reply(l) == \/ HandleLock(l) \/ HandleEnd(l)
            \/ \E k \in Keys : HandleValue(l, k) \/ HandleReject(l, k) \/ HandleErase(l, k)
Server(l) == Answer(l) \/ AnswerFails(l)

Next == \E l \in Loads : Thread(l) \/ GetRaces(l) \/ Reply(l) \/ Server(l)

(* The threads run and the server answers: while one of them can go on, one*)
(* does.  Nothing can go on for ever, so every one of them gets its turn.  *)
Progress == \E l \in Loads : Thread(l) \/ Reply(l) \/ Server(l)
Spec == Init /\ [][Next]_vars /\ WF_vars(Progress)
-----------------------------------------------------------------------------
(* Every variable keeps its type.                                          *)
TypeOK ==
    /\ pc \in [Loads -> {"load", "locked", "send", "get", "lock", "wait", "done"}]
    /\ missing \in [Loads -> SUBSET Keys] /\ todo \in [Loads -> SUBSET Keys]
    /\ current \in [Loads -> Waiters \cup {Null}]
    /\ got \in [Loads -> [Keys -> {Absent, "value", "invalid"}]]
    /\ cache \in [Keys -> Loads \cup {Absent, Null}]
    /\ promise \in [Waiters -> {"none", "pending", "value", "error"}]
    /\ mu \in Loads \cup {Free, Leaked}
    /\ waiterMu \in [Waiters -> Loads \cup {Free, Leaked}]
    /\ fetch \in [Loads -> {"none", "sent", "replied", "handle", "failed", "thrown", "done"}]
    /\ found \in [Loads -> SUBSET Keys] /\ users \in [Loads -> SUBSET Keys]
    /\ erasing \in [Loads -> SUBSET Keys]
    /\ crashed \in {"no", "null", "race"}

(* The handler of a reply throws, leaving the mutex of the cache locked,   *)
(* only when some load found one of its keys in the cache already.         *)
ThrownOnlyAfterOverlap ==
    mu = Leaked => \E l \in Loads : fetch[l] # "none" /\ missing[l] # Wanted[l]

(* A key is requested a second time only after one of the two waiters      *)
(* entered for it was rejected.                                            *)
RequestedAgainOnlyIfRejected ==
    \A l, m \in Loads : \A k \in missing[l] \cap missing[m] :
        l # m => "error" \in {promise[<<l, k>>], promise[<<m, k>>]}

(* A key has a null pointer in the cache, or is invalid to a caller, only  *)
(* when a waiter of that key was rejected (the load each caller starts     *)
(* with enters a waiter for every key); only then is a null pointer used.  *)
NullOnlyIfRejected ==
    /\ \A k \in Keys :
          (cache[k] = Null \/ \E l \in Loads : got[l][k] = "invalid") =>
              \E l \in Loads : promise[<<l, k>>] = "error"
    /\ crashed = "null" => \E w \in Waiters : promise[w] = "error"

(* A key goes from the cache only by being rejected: both of the above.    *)
GoneOnlyIfRejected == NullOnlyIfRejected /\ RequestedAgainOnlyIfRejected

(* A key that has arrived stays in the cache, with the same waiter.        *)
ValuesStay ==
    [][\A k \in Keys : cache[k] \in Loads /\ promise[<<cache[k], k>>] = "value"
                       => cache'[k] = cache[k]]_vars

(* What can keep a load from returning: the program ended, a reply that    *)
(* did not bring a result, or a mutex an exception left locked.            *)
Excused == \/ crashed # "no"
           \/ \E l \in Loads : fetch[l] \in {"failed", "thrown"}
           \/ \E w \in Waiters : waiterMu[w] = Leaked

(* A load returns unless one of those happened.                            *)
LoadsReturn == \A l \in Loads : <>(pc[l] = "done" \/ Excused)

(* The reason a key is rejected with is "promise not fulfilled"            *)
(* (cache.hpp:85): what handle rejects has not been fulfilled.             *)
RejectedIsUnfulfilled ==
    \A l \in Loads : fetch[l] = "handle" /\ found[l] = {} =>
        \A k \in users[l] :
            cache[k] \in Loads => promise[<<cache[k], k>>] # "value"
=============================================================================
