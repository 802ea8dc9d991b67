----------------------------- MODULE MCKeyCache ------------------------------
(* Instances of KeyCache for TLC.                                          *)
EXTENDS KeyCache, TLC

CONSTANTS l1, l2, a, b

(* A key loaded alone and together with another.                           *)
TwoLoads == l1 :> {a} @@ l2 :> {a, b}
=============================================================================
