--------------------------- MODULE KeyCacheProofs ---------------------------
(***************************************************************************)
(* Proofs about KeyCache, for any number of loads and keys: what the       *)
(* callers find in the cache, and when the handler of a reply may throw.   *)
(*                                                                         *)
(* Inv adds to the properties how far each load is (LoadInv), who holds    *)
(* the mutex (MutexInv), how the waiters and the map fit (WaiterInv), and  *)
(* that as long as no load requested less than it wanted, each request     *)
(* still owns the waiters it is about to settle (OwnerInv).                *)
(***************************************************************************)
EXTENDS KeyCache, TLAPS

USE DEF At, Stage

LoadInv(l) ==
    /\ missing[l] \subseteq Wanted[l] /\ todo[l] \subseteq Wanted[l]
    /\ found[l] \subseteq missing[l] /\ users[l] \subseteq Wanted[l]
    /\ fetch[l] \in {"replied", "handle"} => found[l] \subseteq users[l]
    /\ fetch[l] = "sent" => users[l] = Wanted[l]
    /\ pc[l] \in {"load", "locked", "send"} => fetch[l] = "none"
    /\ pc[l] = "load" => missing[l] = {}
    /\ pc[l] \in {"lock", "wait"} => current[l] \in Waiters

MutexInv(l) ==
    /\ pc[l] = "locked" \/ fetch[l] = "handle" => mu = l
    /\ erasing[l] # {} => fetch[l] = "handle" /\ found[l] = {}

Rejected(k) == \E l \in Loads : promise[<<l, k>>] = "error"

WaiterInv(l, k) ==
    /\ promise[<<l, k>>] # "none" <=> k \in missing[l]
    /\ promise[<<l, k>>] \in {"pending", "value"} => cache[k] = l
    /\ k \in erasing[l] => cache[k] \in Loads /\ promise[<<cache[k], k>>] = "error"
    /\ pc[l] # "load" /\ k \in Wanted[l] => cache[k] \in Loads \/ Rejected(k)

Overlap == \E l \in Loads : fetch[l] # "none" /\ missing[l] # Wanted[l]

Owns(l, k) == promise[<<l, k>>] = "pending" /\ cache[k] = l
Late(l) == fetch[l] \in {"handle", "thrown", "done"}
Owned(l, k) == Owns(l, k) \/ (Late(l) /\ k \notin users[l])
OwnerInv == Overlap \/ \A l \in Loads : \A k \in missing[l] : Owned(l, k)

Inv == /\ TypeOK /\ NullOnlyIfRejected /\ ThrownOnlyAfterOverlap /\ OwnerInv
       /\ \A l \in Loads : LoadInv(l) /\ MutexInv(l)
       /\ \A l \in Loads : \A k \in Keys : WaiterInv(l, k)
-----------------------------------------------------------------------------
LEMMA InitInv == Init => Inv
<1> SUFFICES ASSUME Init PROVE Inv
  OBVIOUS
<1> USE WantedAssumption, DistinctAssumption DEF Init
<1>1. TypeOK
  BY DEF TypeOK, Waiters
<1>2. NullOnlyIfRejected /\ ThrownOnlyAfterOverlap /\ OwnerInv
  BY DEF NullOnlyIfRejected, ThrownOnlyAfterOverlap, OwnerInv, Waiters
<1>3. ASSUME NEW l \in Loads PROVE LoadInv(l) /\ MutexInv(l)
  BY DEF LoadInv, MutexInv
<1>4. ASSUME NEW l \in Loads, NEW k \in Keys PROVE WaiterInv(l, k)
  BY DEF WaiterInv, Waiters
<1> QED BY <1>1, <1>2, <1>3, <1>4 DEF Inv

LEMMA SatisfyType ==
  ASSUME TypeOK, NEW l \in Loads, NEW k \in Keys, NEW o \in {"value", "error"}, Satisfy(l, k, o)
  PROVE promise' \in [Waiters -> {"none", "pending", "value", "error"}]
<1> DEFINE w == <<cache[k], k>>
<1>1. promise' = [promise EXCEPT ![w] = o]
  BY DEF Satisfy
<1>2. promise \in [Waiters -> {"none", "pending", "value", "error"}]
  BY DEF TypeOK
<1> HIDE DEF w
<1> QED BY <1>1, <1>2

LEMMA TypeStep == TypeOK /\ (\A l \in Loads : LoadInv(l)) /\ [Next]_vars => TypeOK'
<1> SUFFICES ASSUME TypeOK, \A l \in Loads : LoadInv(l), [Next]_vars PROVE TypeOK'
  OBVIOUS
<1> USE WantedAssumption DEF TypeOK, Goto, Reach, Crash, loadVars, mapVars, fetchVars
<1>1. ASSUME NEW l \in Loads, EnsureLock(l) PROVE TypeOK'
  BY <1>1 DEF EnsureLock, EnterWaiters, NotCached
<1>2. ASSUME NEW l \in Loads, EnsureUnlock(l) PROVE TypeOK'
  BY <1>2 DEF EnsureUnlock
<1>3. ASSUME NEW l \in Loads, Send(l) PROVE TypeOK'
  BY <1>3 DEF Send
<1>4. ASSUME NEW l \in Loads, GetRaces(l) PROVE TypeOK'
  BY <1>4 DEF GetRaces
<1>5. ASSUME NEW l \in Loads, WaiterLock(l) PROVE TypeOK'
  BY <1>5 DEF WaiterLock
<1>6. ASSUME NEW l \in Loads, WaiterValue(l) PROVE TypeOK'
  BY <1>6 DEF WaiterValue, Got, LoadInv, Waiters
<1>7. ASSUME NEW l \in Loads, WaiterThrows(l) PROVE TypeOK'
  BY <1>7 DEF WaiterThrows, Got, LoadInv, Waiters
<1>8. ASSUME NEW l \in Loads, Return(l) PROVE TypeOK'
  BY <1>8 DEF Return
<1>9. ASSUME NEW l \in Loads, Answer(l) PROVE TypeOK'
  BY <1>9 DEF Answer
<1>10. ASSUME NEW l \in Loads, AnswerFails(l) PROVE TypeOK'
  BY <1>10 DEF AnswerFails
<1>11. ASSUME NEW l \in Loads, HandleLock(l) PROVE TypeOK'
  BY <1>11 DEF HandleLock
<1>12. ASSUME NEW l \in Loads, HandleEnd(l) PROVE TypeOK'
  BY <1>12 DEF HandleEnd
<1>13. ASSUME NEW l \in Loads, NEW k \in Keys, GetNull(l, k) PROVE TypeOK'
  <2>1. CASE l \in Checks
    <3>1. got' = [got EXCEPT ![l][k] = "invalid"] /\ todo' = [todo EXCEPT ![l] = @ \ {k}]
      BY <1>13, <2>1 DEF GetNull, Got
    <3>2. UNCHANGED <<pc, missing, current, promise, mu, waiterMu, fetchVars, crashed>>
      BY <1>13, <2>1 DEF GetNull
    <3>3. cache' = [cache EXCEPT ![k] = Null]
      BY <1>13 DEF GetNull
    <3> QED BY <3>1, <3>2, <3>3
  <2>2. CASE l \notin Checks
    <3>1. UNCHANGED <<got, todo>> /\ crashed' = "null"
      BY <1>13, <2>2 DEF GetNull
    <3> QED BY <1>13, <3>1 DEF GetNull
  <2> QED BY <2>1, <2>2
<1>14. ASSUME NEW l \in Loads, NEW k \in Keys, GetWaiter(l, k) PROVE TypeOK'
  BY <1>14 DEF GetWaiter, Waiters
<1>15. ASSUME NEW l \in Loads, NEW k \in Keys, HandleValue(l, k) PROVE TypeOK'
  <2>1. CASE Satisfy(l, k, "value")
    <3>1. promise' \in [Waiters -> {"none", "pending", "value", "error"}]
      BY <2>1, SatisfyType
    <3>2. UNCHANGED <<fetch, mu, crashed>>
      BY <1>15, <2>1 DEF HandleValue, Satisfy, SatisfyThrows
    <3>3. found' = [found EXCEPT ![l] = @ \ {k}] /\ users' = [users EXCEPT ![l] = @ \ {k}]
      BY <1>15, <2>1 DEF HandleValue, Satisfy, SatisfyThrows, Settled
    <3>4. UNCHANGED <<loadVars, cache, waiterMu, erasing>>
      BY <1>15 DEF HandleValue
    <3> QED BY <3>1, <3>2, <3>3, <3>4
  <2>2. CASE ~ Satisfy(l, k, "value")
    BY <1>15, <2>2 DEF HandleValue, SatisfyThrows
  <2> QED BY <2>1, <2>2
<1>16. ASSUME NEW l \in Loads, NEW k \in Keys, HandleReject(l, k) PROVE TypeOK'
  <2>1. CASE Satisfy(l, k, "error")
    <3>1. promise' \in [Waiters -> {"none", "pending", "value", "error"}]
      BY <2>1, SatisfyType
    <3>2. UNCHANGED <<fetch, mu, crashed>>
      BY <1>16, <2>1 DEF HandleReject, Satisfy, SatisfyThrows
    <3>3. /\ users' = [users EXCEPT ![l] = @ \ {k}]
          /\ erasing' = [erasing EXCEPT ![l] = {k}]
      BY <1>16, <2>1 DEF HandleReject, Satisfy, SatisfyThrows
    <3>4. UNCHANGED <<loadVars, cache, waiterMu, found>>
      BY <1>16 DEF HandleReject
    <3> QED BY <3>1, <3>2, <3>3, <3>4
  <2>2. CASE ~ Satisfy(l, k, "error")
    BY <1>16, <2>2 DEF HandleReject, SatisfyThrows
  <2> QED BY <2>1, <2>2
<1>17. ASSUME NEW l \in Loads, NEW k \in Keys, HandleErase(l, k) PROVE TypeOK'
  BY <1>17 DEF HandleErase
<1>18. CASE UNCHANGED vars
  BY <1>18 DEF vars
<1>19. CASE Next
  BY <1>19, <1>1, <1>2, <1>3, <1>4, <1>5, <1>6, <1>7, <1>8, <1>9, <1>10, <1>11,
     <1>12, <1>13, <1>14, <1>15, <1>16, <1>17 DEF Next, Thread, Reply, Server
<1> QED BY <1>18, <1>19

LEMMA LoadStep ==
  ASSUME TypeOK, \A l \in Loads : LoadInv(l) /\ MutexInv(l), [Next]_vars, NEW m \in Loads
  PROVE LoadInv(m)' /\ MutexInv(m)'
<1> USE WantedAssumption, DistinctAssumption
    DEF TypeOK, LoadInv, MutexInv, Goto, Reach, Crash, loadVars, mapVars, fetchVars, Waiters
<1>1. ASSUME NEW l \in Loads, EnsureLock(l) PROVE LoadInv(m)' /\ MutexInv(m)'
  BY <1>1 DEF EnsureLock, EnterWaiters, NotCached
<1>2. ASSUME NEW l \in Loads, EnsureUnlock(l) PROVE LoadInv(m)' /\ MutexInv(m)'
  BY <1>2 DEF EnsureUnlock
<1>3. ASSUME NEW l \in Loads, Send(l) PROVE LoadInv(m)' /\ MutexInv(m)'
  BY <1>3 DEF Send
<1>4. ASSUME NEW l \in Loads, GetRaces(l) PROVE LoadInv(m)' /\ MutexInv(m)'
  BY <1>4 DEF GetRaces
<1>5. ASSUME NEW l \in Loads, WaiterLock(l) PROVE LoadInv(m)' /\ MutexInv(m)'
  BY <1>5 DEF WaiterLock
<1>6. ASSUME NEW l \in Loads, WaiterValue(l) PROVE LoadInv(m)' /\ MutexInv(m)'
  BY <1>6 DEF WaiterValue, Got
<1>7. ASSUME NEW l \in Loads, WaiterThrows(l) PROVE LoadInv(m)' /\ MutexInv(m)'
  BY <1>7 DEF WaiterThrows, Got
<1>8. ASSUME NEW l \in Loads, Return(l) PROVE LoadInv(m)' /\ MutexInv(m)'
  BY <1>8 DEF Return
<1>9. ASSUME NEW l \in Loads, Answer(l) PROVE LoadInv(m)' /\ MutexInv(m)'
  <2>1. PICK keys \in SUBSET missing[l] : found' = [found EXCEPT ![l] = keys]
    BY <1>9 DEF Answer
  <2>2. /\ fetch[l] = "sent" /\ fetch' = [fetch EXCEPT ![l] = "replied"]
        /\ UNCHANGED <<loadVars, mapVars, users, erasing>>
    BY <1>9 DEF Answer
  <2> QED BY <2>1, <2>2
<1>10. ASSUME NEW l \in Loads, AnswerFails(l) PROVE LoadInv(m)' /\ MutexInv(m)'
  BY <1>10 DEF AnswerFails
<1>11. ASSUME NEW l \in Loads, HandleLock(l) PROVE LoadInv(m)' /\ MutexInv(m)'
  BY <1>11 DEF HandleLock
<1>12. ASSUME NEW l \in Loads, HandleEnd(l) PROVE LoadInv(m)' /\ MutexInv(m)'
  BY <1>12 DEF HandleEnd
<1>13. ASSUME NEW l \in Loads, NEW k \in Keys, GetNull(l, k) PROVE LoadInv(m)' /\ MutexInv(m)'
  <2>1. todo' = [todo EXCEPT ![l] = @ \ {k}] \/ todo' = todo
    BY <1>13 DEF GetNull, Got
  <2>2. UNCHANGED <<pc, missing, current, mu, fetch, found, users, erasing>>
    BY <1>13 DEF GetNull
  <2>0. todo[m] \subseteq Wanted[m] /\ LoadInv(m) /\ MutexInv(m)
    OBVIOUS
  <2>3. todo'[m] \subseteq todo[m]
    <3>1. todo \in [Loads -> SUBSET Keys]
      OBVIOUS
    <3> HIDE DEF LoadInv, MutexInv, TypeOK
    <3> QED BY <2>1, <3>1
  <2>4. UNCHANGED <<pc[m], missing[m], current[m], mu, fetch[m], found[m], users[m], erasing[m]>>
    BY <2>2
  <2> HIDE DEF Waiters, TypeOK
  <2> QED BY <2>0, <2>3, <2>4
<1>14. ASSUME NEW l \in Loads, NEW k \in Keys, GetWaiter(l, k) PROVE LoadInv(m)' /\ MutexInv(m)'
  BY <1>14 DEF GetWaiter
<1>15. ASSUME NEW l \in Loads, NEW k \in Keys, HandleValue(l, k) PROVE LoadInv(m)' /\ MutexInv(m)'
  BY <1>15 DEF HandleValue, Satisfy, SatisfyThrows, Settled
<1>16. ASSUME NEW l \in Loads, NEW k \in Keys, HandleReject(l, k) PROVE LoadInv(m)' /\ MutexInv(m)'
  BY <1>16 DEF HandleReject, Satisfy, SatisfyThrows
<1>17. ASSUME NEW l \in Loads, NEW k \in Keys, HandleErase(l, k) PROVE LoadInv(m)' /\ MutexInv(m)'
  BY <1>17 DEF HandleErase
<1>18. CASE UNCHANGED vars
  BY <1>18 DEF vars
<1> QED BY <1>1, <1>2, <1>3, <1>4, <1>5, <1>6, <1>7, <1>8, <1>9, <1>10, <1>11,
    <1>12, <1>13, <1>14, <1>15, <1>16, <1>17, <1>18 DEF Next, Thread, Reply, Server

(* What the two operators that change promises do to the others.           *)
LEMMA SatisfyEffect ==
  ASSUME TypeOK, NEW l \in Loads, NEW k \in Keys, NEW o \in {"value", "error"}, Satisfy(l, k, o)
  PROVE /\ cache[k] \in Loads /\ promise[<<cache[k], k>>] = "pending"
        /\ \A m \in Loads : \A j \in Keys :
               promise'[<<m, j>>] = IF m = cache[k] /\ j = k THEN o ELSE promise[<<m, j>>]
BY DEF Satisfy, TypeOK, Waiters

LEMMA EnterEffect ==
  ASSUME TypeOK, NEW l \in Loads, EnsureLock(l)
  PROVE /\ \A k \in Keys : cache'[k] = IF k \in NotCached(l) THEN l ELSE cache[k]
        /\ \A m \in Loads : \A k \in Keys :
               promise'[<<m, k>>] = IF m = l /\ k \in NotCached(l) THEN "pending" ELSE promise[<<m, k>>]
        /\ missing' = [missing EXCEPT ![l] = NotCached(l)]
        /\ pc[l] = "load" /\ pc' = [pc EXCEPT ![l] = "locked"]
        /\ UNCHANGED fetchVars /\ mu = Free
BY DEF EnsureLock, EnterWaiters, TypeOK, Waiters, Goto

LEMMA WaiterQuiet ==
  ASSUME NEW m \in Loads, NEW j \in Keys, WaiterInv(m, j),
         UNCHANGED <<cache, promise, missing, erasing>>, pc'[m] # "load" => pc[m] # "load"
  PROVE WaiterInv(m, j)'
BY DEF WaiterInv, Rejected

LEMMA WaiterStep ==
  ASSUME TypeOK, NullOnlyIfRejected, [Next]_vars,
         \A l \in Loads : LoadInv(l) /\ MutexInv(l),
         \A l \in Loads : \A k \in Keys : WaiterInv(l, k),
         NEW m \in Loads, NEW j \in Keys
  PROVE WaiterInv(m, j)'
<1> USE WantedAssumption, DistinctAssumption
    DEF Goto, Reach, Crash, loadVars, mapVars, fetchVars
<1>1. ASSUME NEW l \in Loads, EnsureLock(l) PROVE WaiterInv(m, j)'
  <2> DEFINE new == NotCached(l)
  <2>a. /\ \A k \in Keys : cache'[k] = IF k \in new THEN l ELSE cache[k]
        /\ \A x \in Loads : \A k \in Keys :
               promise'[<<x, k>>] = IF x = l /\ k \in new THEN "pending" ELSE promise[<<x, k>>]
        /\ missing' = [missing EXCEPT ![l] = new]
        /\ pc[l] = "load" /\ pc' = [pc EXCEPT ![l] = "locked"]
        /\ UNCHANGED erasing /\ mu = Free
    BY <1>1, EnterEffect DEF fetchVars
  <2>b. j \in new <=> j \in Wanted[l] /\ cache[j] = Absent
    BY DEF NotCached
  <2>c. promise[<<l, j>>] = "none"
    BY <2>a DEF WaiterInv, LoadInv
  <2>d. missing'[m] = (IF m = l THEN new ELSE missing[m]) /\ pc'[m] = (IF m = l THEN "locked" ELSE pc[m])
    BY <2>a DEF TypeOK
  <2> HIDE DEF new
  <2>e. WaiterInv(m, j) /\ WaiterInv(l, j)
    OBVIOUS
  <2>1. promise'[<<m, j>>] # "none" <=> j \in missing'[m]
    BY <2>a, <2>c, <2>d, <2>e DEF WaiterInv
  <2>2. promise'[<<m, j>>] \in {"pending", "value"} => cache'[j] = m
    BY <2>a, <2>b, <2>c, <2>e DEF WaiterInv
  <2>3. erasing'[m] = {}
    BY <2>a DEF MutexInv
  <2>4. \A x \in Loads : promise[<<x, j>>] = "error" => promise'[<<x, j>>] = "error"
    BY <2>a, <2>c
  <2>5. Rejected(j) => Rejected(j)'
    BY <2>4 DEF Rejected
  <2>6. cache[j] = Null => Rejected(j)
    BY DEF NullOnlyIfRejected, Rejected
  <2>7. pc'[m] # "load" /\ j \in Wanted[m] => cache'[j] \in Loads \/ Rejected(j)'
    <3>1. cache[j] \in Loads \cup {Absent, Null}
      BY DEF TypeOK
    <3> QED BY <2>a, <2>b, <2>d, <2>e, <2>5, <2>6, <3>1 DEF WaiterInv
  <2> QED BY <2>1, <2>2, <2>3, <2>7 DEF WaiterInv
<1>2. ASSUME NEW l \in Loads, EnsureUnlock(l) PROVE WaiterInv(m, j)'
  BY <1>2, WaiterQuiet DEF TypeOK, EnsureUnlock
<1>3. ASSUME NEW l \in Loads, Send(l) PROVE WaiterInv(m, j)'
  BY <1>3, WaiterQuiet DEF TypeOK, Send
<1>4. ASSUME NEW l \in Loads, GetRaces(l) PROVE WaiterInv(m, j)'
  BY <1>4, WaiterQuiet DEF TypeOK, GetRaces
<1>5. ASSUME NEW l \in Loads, WaiterLock(l) PROVE WaiterInv(m, j)'
  BY <1>5, WaiterQuiet DEF TypeOK, WaiterLock
<1>6. ASSUME NEW l \in Loads, WaiterValue(l) PROVE WaiterInv(m, j)'
  BY <1>6, WaiterQuiet DEF TypeOK, WaiterValue, Got
<1>7. ASSUME NEW l \in Loads, WaiterThrows(l) PROVE WaiterInv(m, j)'
  BY <1>7, WaiterQuiet DEF TypeOK, WaiterThrows, Got
<1>8. ASSUME NEW l \in Loads, Return(l) PROVE WaiterInv(m, j)'
  BY <1>8, WaiterQuiet DEF TypeOK, Return
<1>9. ASSUME NEW l \in Loads, Answer(l) PROVE WaiterInv(m, j)'
  BY <1>9, WaiterQuiet DEF TypeOK, Answer
<1>10. ASSUME NEW l \in Loads, AnswerFails(l) PROVE WaiterInv(m, j)'
  BY <1>10, WaiterQuiet DEF TypeOK, AnswerFails
<1>11. ASSUME NEW l \in Loads, HandleLock(l) PROVE WaiterInv(m, j)'
  BY <1>11, WaiterQuiet DEF TypeOK, HandleLock
<1>12. ASSUME NEW l \in Loads, HandleEnd(l) PROVE WaiterInv(m, j)'
  BY <1>12, WaiterQuiet DEF TypeOK, HandleEnd
<1>13. ASSUME NEW l \in Loads, NEW k \in Keys, GetNull(l, k) PROVE WaiterInv(m, j)'
  <2>1. UNCHANGED <<pc, missing, promise, erasing>>
    BY <1>13 DEF GetNull
  <2>2. cache[k] \notin Loads /\ cache' = [cache EXCEPT ![k] = Null]
    BY <1>13 DEF GetNull
  <2>3. cache[j] \in Loads => cache'[j] = cache[j]
    BY <2>2 DEF TypeOK
  <2>4. Rejected(j)' <=> Rejected(j)
    BY <2>1 DEF Rejected
  <2> QED BY <2>1, <2>3, <2>4 DEF WaiterInv
<1>14. ASSUME NEW l \in Loads, NEW k \in Keys, GetWaiter(l, k) PROVE WaiterInv(m, j)'
  BY <1>14, WaiterQuiet DEF TypeOK, GetWaiter
<1>15. ASSUME NEW l \in Loads, NEW k \in Keys, HandleValue(l, k) PROVE WaiterInv(m, j)'
  <2>1. CASE Satisfy(l, k, "value")
    <3>e. /\ cache[k] \in Loads /\ promise[<<cache[k], k>>] = "pending"
          /\ \A x \in Loads : \A y \in Keys :
                 promise'[<<x, y>>] = IF x = cache[k] /\ y = k THEN "value" ELSE promise[<<x, y>>]
      BY <2>1, SatisfyEffect
    <3>1. \A x \in Loads : \A y \in Keys : promise[<<x, y>>] = "error" => promise'[<<x, y>>] = "error"
      BY <3>e
    <3>2. Rejected(j) => Rejected(j)'
      BY <3>1 DEF Rejected
    <3>3. UNCHANGED <<pc, missing, cache, erasing>>
      BY <1>15, <2>1 DEF HandleValue, SatisfyThrows
    <3>4. promise'[<<m, j>>] # promise[<<m, j>>] => cache[j] = m /\ promise[<<m, j>>] = "pending" /\ promise'[<<m, j>>] = "value"
      BY <3>e
    <3>5. j \in erasing'[m] => cache'[j] \in Loads /\ promise'[<<cache'[j], j>>] = "error"
      BY <3>1, <3>3 DEF WaiterInv
    <3> QED BY <3>1, <3>2, <3>3, <3>4, <3>5 DEF WaiterInv
  <2>2. CASE ~ Satisfy(l, k, "value")
    <3> UNCHANGED <<pc, missing, promise, cache, erasing>>
      BY <1>15, <2>2 DEF HandleValue, SatisfyThrows
    <3> QED BY WaiterQuiet
  <2> QED BY <2>1, <2>2
<1>16. ASSUME NEW l \in Loads, NEW k \in Keys, HandleReject(l, k) PROVE WaiterInv(m, j)'
  <2>1. CASE Satisfy(l, k, "error")
    <3>e. /\ cache[k] \in Loads /\ promise[<<cache[k], k>>] = "pending"
          /\ \A x \in Loads : \A y \in Keys :
                 promise'[<<x, y>>] = IF x = cache[k] /\ y = k THEN "error" ELSE promise[<<x, y>>]
      BY <2>1, SatisfyEffect
    <3>1. \A x \in Loads : \A y \in Keys : promise[<<x, y>>] = "error" => promise'[<<x, y>>] = "error"
      BY <3>e
    <3>2. Rejected(j) => Rejected(j)'
      BY <3>1 DEF Rejected
    <3>3. UNCHANGED <<pc, missing, cache>>
      BY <1>16, <2>1 DEF HandleReject, SatisfyThrows
    <3>4. promise'[<<m, j>>] # promise[<<m, j>>] => cache[j] = m /\ promise[<<m, j>>] = "pending" /\ promise'[<<m, j>>] = "error"
      BY <3>e
    <3>6. erasing' = [erasing EXCEPT ![l] = {k}]
      BY <1>16, <2>1 DEF HandleReject, Satisfy, SatisfyThrows
    <3>5. j \in erasing'[m] => cache'[j] \in Loads /\ promise'[<<cache'[j], j>>] = "error"
      <4>1. CASE j \in erasing[m]
        BY <4>1, <3>1, <3>3 DEF WaiterInv
      <4>2. CASE j \notin erasing[m]
        BY <4>2, <3>3, <3>6, <3>e DEF TypeOK
      <4> QED BY <4>1, <4>2
    <3> QED BY <3>1, <3>2, <3>3, <3>4, <3>5 DEF WaiterInv
  <2>2. CASE ~ Satisfy(l, k, "error")
    <3> UNCHANGED <<pc, missing, promise, cache, erasing>>
      BY <1>16, <2>2 DEF HandleReject, SatisfyThrows
    <3> QED BY WaiterQuiet
  <2> QED BY <2>1, <2>2
<1>17. ASSUME NEW l \in Loads, NEW k \in Keys, HandleErase(l, k) PROVE WaiterInv(m, j)'
  <2>1. /\ UNCHANGED <<pc, missing, promise>>
        /\ cache' = [cache EXCEPT ![k] = Absent] /\ erasing' = [erasing EXCEPT ![l] = {}]
        /\ k \in erasing[l] /\ mu = l
    BY <1>17 DEF HandleErase, MutexInv
  <2>2. cache[k] \in Loads /\ promise[<<cache[k], k>>] = "error"
    BY <2>1 DEF WaiterInv
  <2>3. Rejected(k)
    BY <2>2 DEF Rejected
  <2>4. Rejected(j)' <=> Rejected(j)
    BY <2>1 DEF Rejected
  <2>5. erasing'[m] = {}
    BY <2>1 DEF MutexInv, TypeOK
  <2> QED BY <2>1, <2>2, <2>3, <2>4, <2>5 DEF WaiterInv, TypeOK
<1>18. CASE UNCHANGED vars
  BY <1>18, WaiterQuiet DEF vars
<1> QED BY <1>1, <1>2, <1>3, <1>4, <1>5, <1>6, <1>7, <1>8, <1>9, <1>10, <1>11,
    <1>12, <1>13, <1>14, <1>15, <1>16, <1>17, <1>18 DEF Next, Thread, Reply, Server

(* A rejected waiter stays rejected.                                       *)
LEMMA ErrorStays ==
  ASSUME TypeOK, [Next]_vars,
         \A l \in Loads : LoadInv(l),
         \A l \in Loads : \A k \in Keys : WaiterInv(l, k),
         NEW m \in Loads, NEW j \in Keys, promise[<<m, j>>] = "error"
  PROVE promise'[<<m, j>>] = "error"
<1> USE DEF mapVars
<1>1. ASSUME NEW l \in Loads, EnsureLock(l) PROVE promise'[<<m, j>>] = "error"
  <2>1. promise[<<l, j>>] = "none"
    BY <1>1, EnterEffect DEF WaiterInv, LoadInv
  <2> QED BY <1>1, <2>1, EnterEffect
<1>2. ASSUME NEW l \in Loads, EnsureUnlock(l) PROVE promise'[<<m, j>>] = "error"
  BY <1>2 DEF EnsureUnlock
<1>3. ASSUME NEW l \in Loads, Send(l) PROVE promise'[<<m, j>>] = "error"
  BY <1>3 DEF Send
<1>4. ASSUME NEW l \in Loads, GetRaces(l) PROVE promise'[<<m, j>>] = "error"
  BY <1>4 DEF GetRaces
<1>5. ASSUME NEW l \in Loads, WaiterLock(l) PROVE promise'[<<m, j>>] = "error"
  BY <1>5 DEF WaiterLock
<1>6. ASSUME NEW l \in Loads, WaiterValue(l) PROVE promise'[<<m, j>>] = "error"
  BY <1>6 DEF WaiterValue, Got
<1>7. ASSUME NEW l \in Loads, WaiterThrows(l) PROVE promise'[<<m, j>>] = "error"
  BY <1>7 DEF WaiterThrows, Got
<1>8. ASSUME NEW l \in Loads, Return(l) PROVE promise'[<<m, j>>] = "error"
  BY <1>8 DEF Return
<1>9. ASSUME NEW l \in Loads, Answer(l) PROVE promise'[<<m, j>>] = "error"
  BY <1>9 DEF Answer
<1>10. ASSUME NEW l \in Loads, AnswerFails(l) PROVE promise'[<<m, j>>] = "error"
  BY <1>10 DEF AnswerFails
<1>11. ASSUME NEW l \in Loads, HandleLock(l) PROVE promise'[<<m, j>>] = "error"
  BY <1>11 DEF HandleLock
<1>12. ASSUME NEW l \in Loads, HandleEnd(l) PROVE promise'[<<m, j>>] = "error"
  BY <1>12 DEF HandleEnd
<1>13. ASSUME NEW l \in Loads, NEW k \in Keys, GetNull(l, k) PROVE promise'[<<m, j>>] = "error"
  BY <1>13 DEF GetNull, Got
<1>14. ASSUME NEW l \in Loads, NEW k \in Keys, GetWaiter(l, k) PROVE promise'[<<m, j>>] = "error"
  BY <1>14 DEF GetWaiter
<1>15. ASSUME NEW l \in Loads, NEW k \in Keys, HandleValue(l, k) PROVE promise'[<<m, j>>] = "error"
  <2>1. CASE Satisfy(l, k, "value")
    <3>1. promise[<<cache[k], k>>] = "pending"
      BY <2>1, SatisfyEffect
    <3>2. \A x \in Loads : \A y \in Keys :
              promise'[<<x, y>>] = IF x = cache[k] /\ y = k THEN "value" ELSE promise[<<x, y>>]
      BY <2>1, SatisfyEffect
    <3> QED BY <3>1, <3>2
  <2>2. CASE ~ Satisfy(l, k, "value")
    BY <1>15, <2>2 DEF HandleValue, SatisfyThrows
  <2> QED BY <2>1, <2>2
<1>16. ASSUME NEW l \in Loads, NEW k \in Keys, HandleReject(l, k) PROVE promise'[<<m, j>>] = "error"
  <2>1. CASE Satisfy(l, k, "error")
    <3>1. promise[<<cache[k], k>>] = "pending"
      BY <2>1, SatisfyEffect
    <3>2. \A x \in Loads : \A y \in Keys :
              promise'[<<x, y>>] = IF x = cache[k] /\ y = k THEN "error" ELSE promise[<<x, y>>]
      BY <2>1, SatisfyEffect
    <3> QED BY <3>1, <3>2
  <2>2. CASE ~ Satisfy(l, k, "error")
    BY <1>16, <2>2 DEF HandleReject, SatisfyThrows
  <2> QED BY <2>1, <2>2
<1>17. ASSUME NEW l \in Loads, NEW k \in Keys, HandleErase(l, k) PROVE promise'[<<m, j>>] = "error"
  BY <1>17 DEF HandleErase
<1>18. CASE UNCHANGED vars
  BY <1>18 DEF vars
<1> QED BY <1>1, <1>2, <1>3, <1>4, <1>5, <1>6, <1>7, <1>8, <1>9, <1>10, <1>11,
    <1>12, <1>13, <1>14, <1>15, <1>16, <1>17, <1>18 DEF Next, Thread, Reply, Server

LEMMA NullQuiet ==
  ASSUME NullOnlyIfRejected,
         \A l \in Loads : \A k \in Keys : promise[<<l, k>>] = "error" => promise'[<<l, k>>] = "error",
         \A k \in Keys : cache'[k] = Null => cache[k] = Null \/ Rejected(k),
         \A l \in Loads : \A k \in Keys :
             got'[l][k] = "invalid" => got[l][k] = "invalid" \/ Rejected(k),
         crashed' = "null" => crashed = "null" \/ \E k \in Keys : Rejected(k)
  PROVE NullOnlyIfRejected'
<1>1. \A k \in Keys : Rejected(k) => \E l \in Loads : promise'[<<l, k>>] = "error"
  BY DEF Rejected
<1>2. \A k \in Keys :
          (cache[k] = Null \/ \E l \in Loads : got[l][k] = "invalid") => Rejected(k)
  BY DEF NullOnlyIfRejected, Rejected
<1>3. crashed' = "null" => \E w \in Waiters : promise'[w] = "error"
  <2>1. crashed = "null" => \E k \in Keys : Rejected(k)
    BY DEF NullOnlyIfRejected, Rejected, Waiters
  <2> QED BY <2>1, <1>1 DEF Waiters
<1>4. \A k \in Keys :
          (cache'[k] = Null \/ \E l \in Loads : got'[l][k] = "invalid") =>
              \E l \in Loads : promise'[<<l, k>>] = "error"
  BY <1>1, <1>2
<1> QED BY <1>3, <1>4 DEF NullOnlyIfRejected

LEMMA NullStep ==
  ASSUME TypeOK, NullOnlyIfRejected, [Next]_vars,
         \A l \in Loads : LoadInv(l),
         \A l \in Loads : \A k \in Keys : WaiterInv(l, k)
  PROVE NullOnlyIfRejected'
<1> USE DistinctAssumption, ErrorStays
<1>1. ASSUME NEW l \in Loads, EnsureLock(l) PROVE NullOnlyIfRejected'
  <2>1. \A k \in Keys : cache'[k] = Null => cache[k] = Null
    BY <1>1, EnterEffect
  <2>2. UNCHANGED <<got, crashed>>
    BY <1>1 DEF EnsureLock
  <2> QED BY <2>1, <2>2, NullQuiet
<1>2. ASSUME NEW l \in Loads, EnsureUnlock(l) PROVE NullOnlyIfRejected'
  BY <1>2, NullQuiet DEF EnsureUnlock, mapVars, loadVars
<1>3. ASSUME NEW l \in Loads, Send(l) PROVE NullOnlyIfRejected'
  BY <1>3, NullQuiet DEF Send, mapVars, loadVars
<1>4. ASSUME NEW l \in Loads, GetRaces(l) PROVE NullOnlyIfRejected'
  <2>1. UNCHANGED <<got, cache>> /\ crashed' # "null"
    BY <1>4 DEF GetRaces, loadVars, mapVars, Crash
  <2> QED BY <2>1, NullQuiet
<1>5. ASSUME NEW l \in Loads, WaiterLock(l) PROVE NullOnlyIfRejected'
  BY <1>5, NullQuiet DEF WaiterLock, mapVars, loadVars
<1>6. ASSUME NEW l \in Loads, WaiterValue(l) PROVE NullOnlyIfRejected'
  <2>1. PICK n \in Loads, x \in Keys : current[l] = <<n, x>>
    BY <1>6 DEF LoadInv, Waiters, WaiterValue, WaiterThrows
  <2>2. got' = [got EXCEPT ![l][x] = "value"] /\ UNCHANGED <<cache, crashed>>
    BY <1>6, <2>1 DEF WaiterValue, Got, mapVars
  <2>3. \A y \in Loads : \A k \in Keys :
            got'[y][k] = "invalid" => got[y][k] = "invalid"
    BY <2>2 DEF TypeOK
  <2> QED BY <2>2, <2>3, NullQuiet
<1>7. ASSUME NEW l \in Loads, WaiterThrows(l) PROVE NullOnlyIfRejected'
  <2>1. PICK n \in Loads, x \in Keys : current[l] = <<n, x>>
    BY <1>7 DEF LoadInv, Waiters, WaiterValue, WaiterThrows
  <2>2. got' = [got EXCEPT ![l][x] = "invalid"] /\ UNCHANGED <<cache, crashed>>
    BY <1>7, <2>1 DEF WaiterThrows, Got, mapVars
  <2>3. \A y \in Loads : \A k \in Keys :
            got'[y][k] = "invalid" => got[y][k] = "invalid" \/ k = x
    BY <2>2 DEF TypeOK
  <2>4. Rejected(x)
    BY <1>7, <2>1 DEF WaiterThrows, Rejected
  <2> QED BY <2>2, <2>3, <2>4, NullQuiet
<1>8. ASSUME NEW l \in Loads, Return(l) PROVE NullOnlyIfRejected'
  BY <1>8, NullQuiet DEF Return, mapVars, loadVars
<1>9. ASSUME NEW l \in Loads, Answer(l) PROVE NullOnlyIfRejected'
  BY <1>9, NullQuiet DEF Answer, mapVars, loadVars
<1>10. ASSUME NEW l \in Loads, AnswerFails(l) PROVE NullOnlyIfRejected'
  BY <1>10, NullQuiet DEF AnswerFails, mapVars, loadVars
<1>11. ASSUME NEW l \in Loads, HandleLock(l) PROVE NullOnlyIfRejected'
  BY <1>11, NullQuiet DEF HandleLock, mapVars, loadVars
<1>12. ASSUME NEW l \in Loads, HandleEnd(l) PROVE NullOnlyIfRejected'
  BY <1>12, NullQuiet DEF HandleEnd, mapVars, loadVars
<1>13. ASSUME NEW l \in Loads, NEW k \in Keys, GetNull(l, k) PROVE NullOnlyIfRejected'
  <2>1. Rejected(k)
    <3>1. pc[l] = "get" /\ k \in todo[l] /\ cache[k] \in {Absent, Null}
      BY <1>13 DEF GetNull
    <3>2. k \in Wanted[l]
      BY <3>1 DEF LoadInv
    <3> QED BY <3>1, <3>2 DEF WaiterInv
  <2>2. \A x \in Keys : cache'[x] = Null => cache[x] = Null \/ x = k
    BY <1>13 DEF GetNull, TypeOK
  <2>3. \A y \in Loads : \A x \in Keys :
            got'[y][x] = "invalid" => got[y][x] = "invalid" \/ x = k
    <3>1. got' = [got EXCEPT ![l][k] = "invalid"] \/ got' = got
      BY <1>13 DEF GetNull, Got
    <3>2. got \in [Loads -> [Keys -> {Absent, "value", "invalid"}]]
      BY DEF TypeOK
    <3> QED BY <3>1, <3>2
  <2> QED BY <2>1, <2>2, <2>3, NullQuiet
<1>14. ASSUME NEW l \in Loads, NEW k \in Keys, GetWaiter(l, k) PROVE NullOnlyIfRejected'
  BY <1>14, NullQuiet DEF GetWaiter, mapVars, loadVars
<1>15. ASSUME NEW l \in Loads, NEW k \in Keys, HandleValue(l, k) PROVE NullOnlyIfRejected'
  <2>1. UNCHANGED <<got, cache>>
    BY <1>15 DEF HandleValue, Satisfy, SatisfyThrows, Crash, loadVars
  <2>2. crashed' = "null" => crashed = "null" \/ cache[k] \notin Loads
    BY <1>15 DEF HandleValue, Satisfy, SatisfyThrows, Crash
  <2>3. pc[l] # "load" /\ k \in Wanted[l]
    BY <1>15 DEF HandleValue, Satisfy, SatisfyThrows, Crash, LoadInv
  <2>4. cache[k] \notin Loads => Rejected(k)
    BY <2>3 DEF WaiterInv
  <2> QED BY <2>1, <2>2, <2>4, NullQuiet
<1>16. ASSUME NEW l \in Loads, NEW k \in Keys, HandleReject(l, k) PROVE NullOnlyIfRejected'
  <2>1. UNCHANGED <<got, cache>>
    BY <1>16 DEF HandleReject, Satisfy, SatisfyThrows, Crash, loadVars
  <2>2. crashed' = "null" => crashed = "null" \/ cache[k] \notin Loads
    BY <1>16 DEF HandleReject, Satisfy, SatisfyThrows, Crash
  <2>3. pc[l] # "load" /\ k \in Wanted[l]
    BY <1>16 DEF HandleReject, Satisfy, SatisfyThrows, Crash, LoadInv
  <2>4. cache[k] \notin Loads => Rejected(k)
    BY <2>3 DEF WaiterInv
  <2> QED BY <2>1, <2>2, <2>4, NullQuiet
<1>17. ASSUME NEW l \in Loads, NEW k \in Keys, HandleErase(l, k) PROVE NullOnlyIfRejected'
  <2>1. \A x \in Keys : cache'[x] = Null => cache[x] = Null
    BY <1>17 DEF HandleErase, TypeOK
  <2>2. UNCHANGED <<got, crashed>>
    BY <1>17 DEF HandleErase, loadVars
  <2> QED BY <2>1, <2>2, NullQuiet
<1>18. CASE UNCHANGED vars
  BY <1>18, NullQuiet DEF vars, mapVars, loadVars
<1> QED BY <1>1, <1>2, <1>3, <1>4, <1>5, <1>6, <1>7, <1>8, <1>9, <1>10, <1>11,
    <1>12, <1>13, <1>14, <1>15, <1>16, <1>17, <1>18 DEF Next, Thread, Reply, Server

(* The handler of a reply has the waiter of each key it still has to       *)
(* settle, unless some load requested less than it wanted.                 *)
LEMMA OwnerSettles ==
  ASSUME OwnerInv, ~ Overlap, NEW l \in Loads, LoadInv(l), fetch[l] = "handle",
         NEW k \in Keys, k \in users[l]
  PROVE Owns(l, k)
BY DEF OwnerInv, Overlap, LoadInv, Owned, Late

LEMMA OverlapStays ==
  ASSUME TypeOK, \A l \in Loads : LoadInv(l), [Next]_vars, NEW m \in Loads,
         fetch[m] # "none" /\ missing[m] # Wanted[m]
  PROVE fetch'[m] # "none" /\ missing'[m] # Wanted[m]
<1> USE DEF TypeOK, Goto, Reach, loadVars, mapVars, fetchVars
<1>1. ASSUME NEW l \in Loads, EnsureLock(l) PROVE fetch'[m] # "none" /\ missing'[m] # Wanted[m]
  BY <1>1 DEF EnsureLock, LoadInv
<1>2. ASSUME NEW l \in Loads, EnsureUnlock(l) PROVE fetch'[m] # "none" /\ missing'[m] # Wanted[m]
  BY <1>2 DEF EnsureUnlock
<1>3. ASSUME NEW l \in Loads, Send(l) PROVE fetch'[m] # "none" /\ missing'[m] # Wanted[m]
  BY <1>3 DEF Send
<1>4. ASSUME NEW l \in Loads, GetRaces(l) PROVE fetch'[m] # "none" /\ missing'[m] # Wanted[m]
  BY <1>4 DEF GetRaces
<1>5. ASSUME NEW l \in Loads, WaiterLock(l) PROVE fetch'[m] # "none" /\ missing'[m] # Wanted[m]
  BY <1>5 DEF WaiterLock
<1>6. ASSUME NEW l \in Loads, WaiterValue(l) PROVE fetch'[m] # "none" /\ missing'[m] # Wanted[m]
  BY <1>6 DEF WaiterValue, Got
<1>7. ASSUME NEW l \in Loads, WaiterThrows(l) PROVE fetch'[m] # "none" /\ missing'[m] # Wanted[m]
  BY <1>7 DEF WaiterThrows, Got
<1>8. ASSUME NEW l \in Loads, Return(l) PROVE fetch'[m] # "none" /\ missing'[m] # Wanted[m]
  BY <1>8 DEF Return
<1>9. ASSUME NEW l \in Loads, Answer(l) PROVE fetch'[m] # "none" /\ missing'[m] # Wanted[m]
  BY <1>9 DEF Answer
<1>10. ASSUME NEW l \in Loads, AnswerFails(l) PROVE fetch'[m] # "none" /\ missing'[m] # Wanted[m]
  BY <1>10 DEF AnswerFails
<1>11. ASSUME NEW l \in Loads, HandleLock(l) PROVE fetch'[m] # "none" /\ missing'[m] # Wanted[m]
  BY <1>11 DEF HandleLock
<1>12. ASSUME NEW l \in Loads, HandleEnd(l) PROVE fetch'[m] # "none" /\ missing'[m] # Wanted[m]
  BY <1>12 DEF HandleEnd
<1>13. ASSUME NEW l \in Loads, NEW k \in Keys, GetNull(l, k) PROVE fetch'[m] # "none" /\ missing'[m] # Wanted[m]
  BY <1>13 DEF GetNull, Got
<1>14. ASSUME NEW l \in Loads, NEW k \in Keys, GetWaiter(l, k) PROVE fetch'[m] # "none" /\ missing'[m] # Wanted[m]
  BY <1>14 DEF GetWaiter
<1>15. ASSUME NEW l \in Loads, NEW k \in Keys, HandleValue(l, k) PROVE fetch'[m] # "none" /\ missing'[m] # Wanted[m]
  BY <1>15 DEF HandleValue, Satisfy, SatisfyThrows, Settled
<1>16. ASSUME NEW l \in Loads, NEW k \in Keys, HandleReject(l, k) PROVE fetch'[m] # "none" /\ missing'[m] # Wanted[m]
  BY <1>16 DEF HandleReject, Satisfy, SatisfyThrows
<1>17. ASSUME NEW l \in Loads, NEW k \in Keys, HandleErase(l, k) PROVE fetch'[m] # "none" /\ missing'[m] # Wanted[m]
  BY <1>17 DEF HandleErase
<1>18. CASE UNCHANGED vars
  BY <1>18 DEF vars
<1> QED BY <1>1, <1>2, <1>3, <1>4, <1>5, <1>6, <1>7, <1>8, <1>9, <1>10, <1>11,
    <1>12, <1>13, <1>14, <1>15, <1>16, <1>17, <1>18 DEF Next, Thread, Reply, Server

LEMMA OwnerQuiet ==
  ASSUME NEW m \in Loads, NEW j,
         Owned(m, j),
         UNCHANGED <<cache, promise, missing>>,
         \A x \in Loads : Late(x) => Late(x)' /\ users'[x] \subseteq users[x]
  PROVE Owned(m, j)'
BY DEF Owned, Owns

LEMMA OwnerStep ==
  ASSUME TypeOK, OwnerInv, [Next]_vars,
         \A l \in Loads : LoadInv(l),
         \A l \in Loads : \A k \in Keys : WaiterInv(l, k)
  PROVE OwnerInv'
<1> SUFFICES ASSUME ~ Overlap', NEW m \in Loads, NEW j \in missing'[m]
             PROVE Owned(m, j)'
  BY DEF OwnerInv
<1>0. ~ Overlap
  BY OverlapStays DEF Overlap
<1>a. \A x \in Loads : \A k \in missing[x] : Owned(x, k)
  BY <1>0 DEF OwnerInv
<1>b. TypeOK' /\ j \in Keys
  BY TypeStep DEF TypeOK
<1> USE <1>0, <1>a, <1>b, DistinctAssumption
<1>1. ASSUME NEW l \in Loads, EnsureLock(l) PROVE Owned(m, j)'
  <2> DEFINE new == NotCached(l)
  <2>a. /\ \A k \in Keys : cache'[k] = IF k \in new THEN l ELSE cache[k]
        /\ \A x \in Loads : \A k \in Keys :
               promise'[<<x, k>>] = IF x = l /\ k \in new THEN "pending" ELSE promise[<<x, k>>]
        /\ missing' = [missing EXCEPT ![l] = new]
        /\ UNCHANGED <<fetch, users>>
    BY <1>1, EnterEffect DEF fetchVars
  <2>b. \A k \in new : k \in Keys /\ cache[k] = Absent
    BY WantedAssumption DEF NotCached
  <2> HIDE DEF new
  <2>c. CASE m = l
    BY <2>a, <2>b, <2>c DEF Owned, Owns, TypeOK
  <2>d. CASE m # l
    <3>1. j \in missing[m]
      BY <2>a, <2>d DEF TypeOK
    <3>2. Owns(m, j) => Owns(m, j)'
      BY <2>a, <2>b, <2>d DEF Owns
    <3> QED BY <2>a, <3>1, <3>2 DEF Owned, Late
  <2> QED BY <2>c, <2>d
<1>2. ASSUME NEW l \in Loads, EnsureUnlock(l) PROVE Owned(m, j)'
  <2>1. UNCHANGED <<cache, promise, missing>>
    BY <1>2 DEF EnsureUnlock, loadVars, mapVars
  <2>2. \A x \in Loads : Late(x) => Late(x)' /\ users'[x] \subseteq users[x]
    BY <1>2 DEF EnsureUnlock, Late, LoadInv, fetchVars, Reach, TypeOK
  <2> QED BY <2>1, <2>2, OwnerQuiet
<1>3. ASSUME NEW l \in Loads, Send(l) PROVE Owned(m, j)'
  <2>1. UNCHANGED <<cache, promise, missing>>
    BY <1>3 DEF Send, loadVars, mapVars
  <2>2. \A x \in Loads : Late(x) => Late(x)' /\ users'[x] \subseteq users[x]
    BY <1>3 DEF Send, Late, LoadInv, fetchVars, Reach, TypeOK
  <2> QED BY <2>1, <2>2, OwnerQuiet
<1>4. ASSUME NEW l \in Loads, GetRaces(l) PROVE Owned(m, j)'
  <2>1. UNCHANGED <<cache, promise, missing>>
    BY <1>4 DEF GetRaces, loadVars, mapVars
  <2>2. \A x \in Loads : Late(x) => Late(x)' /\ users'[x] \subseteq users[x]
    BY <1>4 DEF GetRaces, Late, LoadInv, fetchVars, Reach, TypeOK
  <2> QED BY <2>1, <2>2, OwnerQuiet
<1>5. ASSUME NEW l \in Loads, WaiterLock(l) PROVE Owned(m, j)'
  <2>1. UNCHANGED <<cache, promise, missing>>
    BY <1>5 DEF WaiterLock, loadVars, mapVars
  <2>2. \A x \in Loads : Late(x) => Late(x)' /\ users'[x] \subseteq users[x]
    BY <1>5 DEF WaiterLock, Late, LoadInv, fetchVars, Reach, TypeOK
  <2> QED BY <2>1, <2>2, OwnerQuiet
<1>6. ASSUME NEW l \in Loads, WaiterValue(l) PROVE Owned(m, j)'
  <2>1. UNCHANGED <<cache, promise, missing>>
    BY <1>6 DEF WaiterValue, Got, loadVars, mapVars
  <2>2. \A x \in Loads : Late(x) => Late(x)' /\ users'[x] \subseteq users[x]
    BY <1>6 DEF WaiterValue, Got, Late, LoadInv, fetchVars, Reach, TypeOK
  <2> QED BY <2>1, <2>2, OwnerQuiet
<1>7. ASSUME NEW l \in Loads, WaiterThrows(l) PROVE Owned(m, j)'
  <2>1. UNCHANGED <<cache, promise, missing>>
    BY <1>7 DEF WaiterThrows, Got, loadVars, mapVars
  <2>2. \A x \in Loads : Late(x) => Late(x)' /\ users'[x] \subseteq users[x]
    BY <1>7 DEF WaiterThrows, Got, Late, LoadInv, fetchVars, Reach, TypeOK
  <2> QED BY <2>1, <2>2, OwnerQuiet
<1>8. ASSUME NEW l \in Loads, Return(l) PROVE Owned(m, j)'
  <2>1. UNCHANGED <<cache, promise, missing>>
    BY <1>8 DEF Return, loadVars, mapVars
  <2>2. \A x \in Loads : Late(x) => Late(x)' /\ users'[x] \subseteq users[x]
    BY <1>8 DEF Return, Late, LoadInv, fetchVars, Reach, TypeOK
  <2> QED BY <2>1, <2>2, OwnerQuiet
<1>9. ASSUME NEW l \in Loads, Answer(l) PROVE Owned(m, j)'
  <2>1. UNCHANGED <<cache, promise, missing>>
    BY <1>9 DEF Answer, loadVars, mapVars
  <2>2. \A x \in Loads : Late(x) => Late(x)' /\ users'[x] \subseteq users[x]
    BY <1>9 DEF Answer, Late, LoadInv, fetchVars, Reach, TypeOK
  <2> QED BY <2>1, <2>2, OwnerQuiet
<1>10. ASSUME NEW l \in Loads, AnswerFails(l) PROVE Owned(m, j)'
  <2>1. UNCHANGED <<cache, promise, missing>>
    BY <1>10 DEF AnswerFails, loadVars, mapVars
  <2>2. \A x \in Loads : Late(x) => Late(x)' /\ users'[x] \subseteq users[x]
    BY <1>10 DEF AnswerFails, Late, LoadInv, fetchVars, Reach, TypeOK
  <2> QED BY <2>1, <2>2, OwnerQuiet
<1>11. ASSUME NEW l \in Loads, HandleLock(l) PROVE Owned(m, j)'
  <2>1. UNCHANGED <<cache, promise, missing>>
    BY <1>11 DEF HandleLock, loadVars, mapVars
  <2>2. \A x \in Loads : Late(x) => Late(x)' /\ users'[x] \subseteq users[x]
    BY <1>11 DEF HandleLock, Late, LoadInv, fetchVars, Reach, TypeOK
  <2> QED BY <2>1, <2>2, OwnerQuiet
<1>12. ASSUME NEW l \in Loads, HandleEnd(l) PROVE Owned(m, j)'
  <2>1. UNCHANGED <<cache, promise, missing>>
    BY <1>12 DEF HandleEnd, loadVars, mapVars
  <2>2. \A x \in Loads : Late(x) => Late(x)' /\ users'[x] \subseteq users[x]
    BY <1>12 DEF HandleEnd, Late, LoadInv, fetchVars, Reach, TypeOK
  <2> QED BY <2>1, <2>2, OwnerQuiet
<1>13. ASSUME NEW l \in Loads, NEW k \in Keys, GetNull(l, k) PROVE Owned(m, j)'
  <2>1. UNCHANGED <<promise, missing, fetch, users>>
    BY <1>13 DEF GetNull, fetchVars
  <2>2. cache[k] \notin Loads /\ cache' = [cache EXCEPT ![k] = Null]
    BY <1>13 DEF GetNull
  <2> QED BY <2>1, <2>2 DEF Owned, Late, Owns, TypeOK
<1>14. ASSUME NEW l \in Loads, NEW k \in Keys, GetWaiter(l, k) PROVE Owned(m, j)'
  <2>1. UNCHANGED <<cache, promise, missing>>
    BY <1>14 DEF GetWaiter, loadVars, mapVars
  <2>2. \A x \in Loads : Late(x) => Late(x)' /\ users'[x] \subseteq users[x]
    BY <1>14 DEF GetWaiter, Late, LoadInv, fetchVars, Reach, TypeOK
  <2> QED BY <2>1, <2>2, OwnerQuiet
<1>15. ASSUME NEW l \in Loads, NEW k \in Keys, HandleValue(l, k) PROVE Owned(m, j)'
  <2>1. CASE Satisfy(l, k, "value")
    <3>1. Owns(l, k) /\ k \in users[l] /\ fetch[l] = "handle"
      BY <1>15, OwnerSettles DEF HandleValue, HandleReject, LoadInv
    <3>2. \A x \in Loads : \A y \in Keys :
              promise'[<<x, y>>] = IF x = cache[k] /\ y = k THEN "value" ELSE promise[<<x, y>>]
      BY <2>1, SatisfyEffect
    <3>3. UNCHANGED <<cache, missing, fetch>> /\ users' = [users EXCEPT ![l] = @ \ {k}]
      BY <1>15, <2>1 DEF HandleValue, SatisfyThrows, Settled, loadVars, Satisfy
    <3>4. CASE m = l /\ j = k
      BY <3>1, <3>3, <3>4 DEF Owned, Late, TypeOK
    <3>5. CASE m # l \/ j # k
      <4>1. Owns(m, j) => Owns(m, j)'
        BY <3>1, <3>2, <3>3, <3>5 DEF Owns
      <4>2. users'[m] \subseteq users[m]
        BY <3>3 DEF TypeOK
      <4> QED BY <3>3, <4>1, <4>2 DEF Owned, Late
    <3> QED BY <3>4, <3>5
  <2>2. CASE ~ Satisfy(l, k, "value")
    <3>1. UNCHANGED <<cache, promise, missing, users>>
      BY <1>15, <2>2 DEF HandleValue, SatisfyThrows, Settled, loadVars
    <3>2. \A x \in Loads : Late(x) => Late(x)'
      BY <1>15, <2>2 DEF HandleValue, SatisfyThrows, Settled, loadVars, Late, Reach, TypeOK
    <3> QED BY <3>1, <3>2, OwnerQuiet
  <2> QED BY <2>1, <2>2
<1>16. ASSUME NEW l \in Loads, NEW k \in Keys, HandleReject(l, k) PROVE Owned(m, j)'
  <2>1. CASE Satisfy(l, k, "error")
    <3>1. Owns(l, k) /\ k \in users[l] /\ fetch[l] = "handle"
      BY <1>16, OwnerSettles DEF HandleValue, HandleReject, LoadInv
    <3>2. \A x \in Loads : \A y \in Keys :
              promise'[<<x, y>>] = IF x = cache[k] /\ y = k THEN "error" ELSE promise[<<x, y>>]
      BY <2>1, SatisfyEffect
    <3>3. UNCHANGED <<cache, missing, fetch>> /\ users' = [users EXCEPT ![l] = @ \ {k}]
      BY <1>16, <2>1 DEF HandleReject, SatisfyThrows, loadVars, Satisfy
    <3>4. CASE m = l /\ j = k
      BY <3>1, <3>3, <3>4 DEF Owned, Late, TypeOK
    <3>5. CASE m # l \/ j # k
      <4>1. Owns(m, j) => Owns(m, j)'
        BY <3>1, <3>2, <3>3, <3>5 DEF Owns
      <4>2. users'[m] \subseteq users[m]
        BY <3>3 DEF TypeOK
      <4> QED BY <3>3, <4>1, <4>2 DEF Owned, Late
    <3> QED BY <3>4, <3>5
  <2>2. CASE ~ Satisfy(l, k, "error")
    <3>1. UNCHANGED <<cache, promise, missing, users>>
      BY <1>16, <2>2 DEF HandleReject, SatisfyThrows, loadVars
    <3>2. \A x \in Loads : Late(x) => Late(x)'
      BY <1>16, <2>2 DEF HandleReject, SatisfyThrows, loadVars, Late, Reach, TypeOK
    <3> QED BY <3>1, <3>2, OwnerQuiet
  <2> QED BY <2>1, <2>2
<1>17. ASSUME NEW l \in Loads, NEW k \in Keys, HandleErase(l, k) PROVE Owned(m, j)'
  <2>1. UNCHANGED <<promise, missing, fetch, users>>
    BY <1>17 DEF HandleErase, loadVars
  <2>2. cache' = [cache EXCEPT ![k] = Absent]
    BY <1>17 DEF HandleErase
  <2>3. cache[k] \in Loads /\ promise[<<cache[k], k>>] = "error"
    BY <1>17 DEF HandleErase, WaiterInv
  <2>4. Owns(m, j) => Owns(m, j)'
    BY <2>1, <2>2, <2>3 DEF Owns, TypeOK
  <2> QED BY <2>1, <2>4 DEF Owned, Late
<1>18. CASE UNCHANGED vars
  BY <1>18, OwnerQuiet DEF vars, loadVars, mapVars, fetchVars, Late
<1> QED BY <1>1, <1>2, <1>3, <1>4, <1>5, <1>6, <1>7, <1>8, <1>9, <1>10, <1>11,
    <1>12, <1>13, <1>14, <1>15, <1>16, <1>17, <1>18 DEF Next, Thread, Reply, Server

LEMMA ThrownStep ==
  ASSUME TypeOK, OwnerInv, ThrownOnlyAfterOverlap, [Next]_vars,
         \A l \in Loads : LoadInv(l)
  PROVE ThrownOnlyAfterOverlap'
<1>b. Overlap => Overlap'
  BY OverlapStays DEF Overlap
<1>a. mu = Leaked => Overlap'
  BY <1>b DEF ThrownOnlyAfterOverlap, Overlap
<1> SUFFICES mu' = Leaked => Overlap'
  BY DEF ThrownOnlyAfterOverlap, Overlap
<1>1. ASSUME NEW l \in Loads, EnsureLock(l) PROVE mu' = Leaked => Overlap'
  BY <1>1, <1>a, DistinctAssumption DEF EnsureLock, EnterWaiters, NotCached
<1>2. ASSUME NEW l \in Loads, EnsureUnlock(l) PROVE mu' = Leaked => Overlap'
  BY <1>2, <1>a, DistinctAssumption DEF EnsureUnlock
<1>3. ASSUME NEW l \in Loads, Send(l) PROVE mu' = Leaked => Overlap'
  <2>1. mu' = Leaked => mu = Leaked
    BY <1>3 DEF Send, mapVars
  <2> QED BY <2>1, <1>a
<1>4. ASSUME NEW l \in Loads, GetRaces(l) PROVE mu' = Leaked => Overlap'
  <2>1. mu' = Leaked => mu = Leaked
    BY <1>4 DEF GetRaces, mapVars
  <2> QED BY <2>1, <1>a
<1>5. ASSUME NEW l \in Loads, WaiterLock(l) PROVE mu' = Leaked => Overlap'
  <2>1. mu' = Leaked => mu = Leaked
    BY <1>5 DEF WaiterLock, mapVars
  <2> QED BY <2>1, <1>a
<1>6. ASSUME NEW l \in Loads, WaiterValue(l) PROVE mu' = Leaked => Overlap'
  <2>1. mu' = Leaked => mu = Leaked
    BY <1>6 DEF WaiterValue, Got, mapVars
  <2> QED BY <2>1, <1>a
<1>7. ASSUME NEW l \in Loads, WaiterThrows(l) PROVE mu' = Leaked => Overlap'
  <2>1. mu' = Leaked => mu = Leaked
    BY <1>7 DEF WaiterThrows, Got, mapVars
  <2> QED BY <2>1, <1>a
<1>8. ASSUME NEW l \in Loads, Return(l) PROVE mu' = Leaked => Overlap'
  <2>1. mu' = Leaked => mu = Leaked
    BY <1>8 DEF Return, mapVars
  <2> QED BY <2>1, <1>a
<1>9. ASSUME NEW l \in Loads, Answer(l) PROVE mu' = Leaked => Overlap'
  <2>1. mu' = Leaked => mu = Leaked
    BY <1>9 DEF Answer, mapVars
  <2> QED BY <2>1, <1>a
<1>10. ASSUME NEW l \in Loads, AnswerFails(l) PROVE mu' = Leaked => Overlap'
  <2>1. mu' = Leaked => mu = Leaked
    BY <1>10 DEF AnswerFails, mapVars
  <2> QED BY <2>1, <1>a
<1>11. ASSUME NEW l \in Loads, HandleLock(l) PROVE mu' = Leaked => Overlap'
  BY <1>11, <1>a, DistinctAssumption DEF HandleLock
<1>12. ASSUME NEW l \in Loads, HandleEnd(l) PROVE mu' = Leaked => Overlap'
  BY <1>12, <1>a, DistinctAssumption DEF HandleEnd
<1>13. ASSUME NEW l \in Loads, NEW k \in Keys, GetNull(l, k) PROVE mu' = Leaked => Overlap'
  <2>1. mu' = Leaked => mu = Leaked
    BY <1>13 DEF GetNull, Got, mapVars
  <2> QED BY <2>1, <1>a
<1>14. ASSUME NEW l \in Loads, NEW k \in Keys, GetWaiter(l, k) PROVE mu' = Leaked => Overlap'
  <2>1. mu' = Leaked => mu = Leaked
    BY <1>14 DEF GetWaiter, mapVars
  <2> QED BY <2>1, <1>a
<1>15. ASSUME NEW l \in Loads, NEW k \in Keys, HandleValue(l, k) PROVE mu' = Leaked => Overlap'
  <2>1. CASE Overlap
    BY <2>1, <1>b
  <2>2. CASE ~ Overlap
    <3>1. Owns(l, k)
      BY <1>15, <2>2, OwnerSettles DEF HandleValue, LoadInv
    <3>2. mu' = mu
      BY <1>15, <3>1 DEF HandleValue, SatisfyThrows, Owns
    <3> QED BY <3>2, <1>a
  <2> QED BY <2>1, <2>2
<1>16. ASSUME NEW l \in Loads, NEW k \in Keys, HandleReject(l, k) PROVE mu' = Leaked => Overlap'
  <2>1. CASE Overlap
    BY <2>1, <1>b
  <2>2. CASE ~ Overlap
    <3>1. Owns(l, k)
      BY <1>16, <2>2, OwnerSettles DEF HandleReject, LoadInv
    <3>2. mu' = mu
      BY <1>16, <3>1 DEF HandleReject, SatisfyThrows, Owns
    <3> QED BY <3>2, <1>a
  <2> QED BY <2>1, <2>2
<1>17. ASSUME NEW l \in Loads, NEW k \in Keys, HandleErase(l, k) PROVE mu' = Leaked => Overlap'
  <2>1. mu' = Leaked => mu = Leaked
    BY <1>17 DEF HandleErase, mapVars
  <2> QED BY <2>1, <1>a
<1>18. CASE UNCHANGED vars
  BY <1>18, <1>a DEF vars, mapVars
<1> QED BY <1>1, <1>2, <1>3, <1>4, <1>5, <1>6, <1>7, <1>8, <1>9, <1>10, <1>11,
    <1>12, <1>13, <1>14, <1>15, <1>16, <1>17, <1>18 DEF Next, Thread, Reply, Server

LEMMA InvStep == Inv /\ [Next]_vars => Inv'
<1> SUFFICES ASSUME Inv, [Next]_vars PROVE Inv'
  OBVIOUS
<1> USE DEF Inv
<1>1. TypeOK'
  BY TypeStep
<1>2. NullOnlyIfRejected'
  BY NullStep
<1>3. ThrownOnlyAfterOverlap'
  BY ThrownStep
<1>4. OwnerInv'
  BY OwnerStep
<1>5. \A l \in Loads : (LoadInv(l) /\ MutexInv(l))'
  BY LoadStep
<1>6. \A l \in Loads : \A k \in Keys : WaiterInv(l, k)'
  BY WaiterStep
<1> QED BY <1>1, <1>2, <1>3, <1>4, <1>5, <1>6

(* Inv holds in every reachable state.                                     *)
THEOREM Invariance == Spec => []Inv
BY InitInv, InvStep, PTL DEF Spec

(* Every variable of KeyCache keeps its type.                              *)
THEOREM TypeCorrect == Spec => []TypeOK
<1>1. Inv => TypeOK
  BY DEF Inv
<1> QED BY <1>1, Invariance, PTL

(* The handler of a reply leaves the mutex of the cache locked only when   *)
(* some load found one of its keys in the cache already.                   *)
THEOREM ThrowsNeedOverlap == Spec => []ThrownOnlyAfterOverlap
<1>1. Inv => ThrownOnlyAfterOverlap
  BY DEF Inv
<1> QED BY <1>1, Invariance, PTL

(* A null pointer is found or used, and a key is invalid to a caller, only *)
(* when a waiter of the key was rejected.                                  *)
THEOREM NullsAreRejections == Spec => []NullOnlyIfRejected
<1>1. Inv => NullOnlyIfRejected
  BY DEF Inv
<1> QED BY <1>1, Invariance, PTL

(* A key is requested again only after a waiter of it was rejected: of two *)
(* waiters not rejected both would be the one in the cache.                *)
THEOREM RequestsRepeatRejected == Spec => []RequestedAgainOnlyIfRejected
<1>1. Inv => RequestedAgainOnlyIfRejected
  <2> SUFFICES ASSUME Inv, NEW l \in Loads, NEW m \in Loads,
                      NEW k \in missing[l] \cap missing[m], l # m
               PROVE "error" \in {promise[<<l, k>>], promise[<<m, k>>]}
    BY DEF RequestedAgainOnlyIfRejected
  <2>1. k \in Keys
    BY DEF Inv, TypeOK
  <2>2. WaiterInv(l, k) /\ WaiterInv(m, k)
    BY <2>1 DEF Inv
  <2>3. /\ promise[<<l, k>>] \in {"none", "pending", "value", "error"}
        /\ promise[<<m, k>>] \in {"none", "pending", "value", "error"}
    BY <2>1 DEF Inv, TypeOK, Waiters
  <2> QED BY <2>2, <2>3 DEF WaiterInv
<1> QED BY <1>1, Invariance, PTL

(* A key goes from the cache, and is met as a null pointer or requested    *)
(* again, only by being rejected.                                          *)
THEOREM GoneKeysWereRejected == Spec => []GoneOnlyIfRejected
<1>1. NullOnlyIfRejected /\ RequestedAgainOnlyIfRejected => GoneOnlyIfRejected
  BY DEF GoneOnlyIfRejected
<1> QED BY <1>1, NullsAreRejections, RequestsRepeatRejected, PTL

(* A key that has arrived stays in the cache: what a reply erases it has   *)
(* rejected before, under the mutex.                                       *)
THEOREM ArrivedKeysStay == Spec => ValuesStay
<1>1. ASSUME Inv, [Next]_vars
      PROVE [\A k \in Keys : cache[k] \in Loads /\ promise[<<cache[k], k>>] = "value"
                             => cache'[k] = cache[k]]_vars
  <2> SUFFICES ASSUME NEW j \in Keys, cache[j] \in Loads, promise[<<cache[j], j>>] = "value"
               PROVE cache'[j] = cache[j]
    OBVIOUS
  <2>1. ASSUME NEW l \in Loads, EnsureLock(l) PROVE cache'[j] = cache[j]
    BY <2>1, <1>1, EnterEffect, DistinctAssumption DEF NotCached, Inv
  <2>2. ASSUME NEW l \in Loads, EnsureUnlock(l) PROVE cache'[j] = cache[j]
    BY <2>2 DEF EnsureUnlock, mapVars
  <2>3. ASSUME NEW l \in Loads, Send(l) PROVE cache'[j] = cache[j]
    BY <2>3 DEF Send, mapVars
  <2>4. ASSUME NEW l \in Loads, GetRaces(l) PROVE cache'[j] = cache[j]
    BY <2>4 DEF GetRaces, mapVars
  <2>5. ASSUME NEW l \in Loads, WaiterLock(l) PROVE cache'[j] = cache[j]
    BY <2>5 DEF WaiterLock, mapVars
  <2>6. ASSUME NEW l \in Loads, WaiterValue(l) PROVE cache'[j] = cache[j]
    BY <2>6 DEF WaiterValue, Got, mapVars
  <2>7. ASSUME NEW l \in Loads, WaiterThrows(l) PROVE cache'[j] = cache[j]
    BY <2>7 DEF WaiterThrows, Got, mapVars
  <2>8. ASSUME NEW l \in Loads, Return(l) PROVE cache'[j] = cache[j]
    BY <2>8 DEF Return, mapVars
  <2>9. ASSUME NEW l \in Loads, Answer(l) PROVE cache'[j] = cache[j]
    BY <2>9 DEF Answer, mapVars
  <2>10. ASSUME NEW l \in Loads, AnswerFails(l) PROVE cache'[j] = cache[j]
    BY <2>10 DEF AnswerFails, mapVars
  <2>11. ASSUME NEW l \in Loads, HandleLock(l) PROVE cache'[j] = cache[j]
    BY <2>11 DEF HandleLock, mapVars
  <2>12. ASSUME NEW l \in Loads, HandleEnd(l) PROVE cache'[j] = cache[j]
    BY <2>12 DEF HandleEnd, mapVars
  <2>13. ASSUME NEW l \in Loads, NEW k \in Keys, GetNull(l, k) PROVE cache'[j] = cache[j]
    BY <2>13, <1>1, DistinctAssumption DEF GetNull, Inv, TypeOK
  <2>14. ASSUME NEW l \in Loads, NEW k \in Keys, GetWaiter(l, k) PROVE cache'[j] = cache[j]
    BY <2>14 DEF GetWaiter, mapVars
  <2>15. ASSUME NEW l \in Loads, NEW k \in Keys, HandleValue(l, k) PROVE cache'[j] = cache[j]
    BY <2>15 DEF HandleValue, Satisfy, SatisfyThrows, Settled, mapVars
  <2>16. ASSUME NEW l \in Loads, NEW k \in Keys, HandleReject(l, k) PROVE cache'[j] = cache[j]
    BY <2>16 DEF HandleReject, Satisfy, SatisfyThrows, mapVars
  <2>17. ASSUME NEW l \in Loads, NEW k \in Keys, HandleErase(l, k) PROVE cache'[j] = cache[j]
    <3>1. promise[<<cache[k], k>>] = "error"
      BY <2>17, <1>1 DEF HandleErase, Inv, WaiterInv
    <3> QED BY <2>17, <3>1, <1>1 DEF HandleErase, Inv, TypeOK
  <2>18. CASE UNCHANGED vars
    BY <2>18 DEF vars, mapVars
  <2> QED BY <1>1, <2>1, <2>2, <2>3, <2>4, <2>5, <2>6, <2>7, <2>8, <2>9, <2>10, <2>11,
      <2>12, <2>13, <2>14, <2>15, <2>16, <2>17, <2>18 DEF Next, Thread, Reply,
      Server
<1> QED BY <1>1, Invariance, PTL DEF Spec, ValuesStay
=============================================================================
