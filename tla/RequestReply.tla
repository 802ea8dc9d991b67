---------------------------- MODULE RequestReply ----------------------------
(***************************************************************************)
(* What both implementations of the connection promise to the code that    *)
(* makes a request: a request is answered at most once, only after it was  *)
(* issued, and what the caller is given is exactly what the remote end     *)
(* answered, at most once.  The promise is one of safety: no part of the   *)
(* code retries a request or times it out.                                 *)
(***************************************************************************)
CONSTANTS Requests,   \* the requests that can be made, one identifier each
          Outcomes,   \* what the remote end can answer
          None        \* no answer (yet)

VARIABLES issued,     \* the requests that were made
          answer,     \* what the remote end answered to each
          delivered   \* what the caller of each was given

vars == <<issued, answer, delivered>>

TypeOK == /\ issued \subseteq Requests
          /\ answer \in [Requests -> Outcomes \cup {None}]
          /\ delivered \in [Requests -> Outcomes \cup {None}]

Init == /\ issued = {}
        /\ answer = [r \in Requests |-> None]
        /\ delivered = [r \in Requests |-> None]

Issue(r) == /\ r \notin issued
            /\ issued' = issued \cup {r}
            /\ UNCHANGED <<answer, delivered>>

Answer(r, o) == /\ r \in issued
                /\ answer[r] = None
                /\ answer' = [answer EXCEPT ![r] = o]
                /\ UNCHANGED <<issued, delivered>>

Deliver(r) == /\ answer[r] # None
              /\ delivered[r] = None
              /\ delivered' = [delivered EXCEPT ![r] = answer[r]]
              /\ UNCHANGED <<issued, answer>>

Next == \E r \in Requests : \/ Issue(r)
                            \/ \E o \in Outcomes : Answer(r, o)
                            \/ Deliver(r)

Spec == Init /\ [][Next]_vars
=============================================================================
