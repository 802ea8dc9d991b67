------------------------------ MODULE MCCppAuth ------------------------------
(* Instances of CppAuth for TLC.                                           *)
EXTENDS CppAuth, TLC

(* The enrolled key of a user, another key under her name, and the key of  *)
(* someone the server does not know.                                       *)
KeyUsers == "alice" :> "Alice" @@ "forged" :> "Alice" @@ "eve" :> "Eve"
EnrolledKeys == "Alice" :> "alice" @@ "Eve" :> NoKey

(* A held load of keys, and an API request that is sent at once to a       *)
(* callback for authenticated clients.                                     *)
Kinds == "load" :> "custom" @@ "report" :> "restricted"
=============================================================================
