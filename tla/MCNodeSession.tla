--------------------------- MODULE MCNodeSession ----------------------------
(* An instance of NodeSession for TLC.                                     *)
EXTENDS NodeSession, TLC

CONSTANTS held, eager

(* Two sockets of one user: the desk makes a call that waits until it is   *)
(* ready, the phone one that does not wait.                                *)
BothUser == "desk" :> "ann" @@ "phone" :> "ann"
BothConnOf == held :> "desk" @@ eager :> "phone"
(* A push to the user.                                                     *)
NotifyTargets == "notify" :> {"ann"}
=============================================================================
