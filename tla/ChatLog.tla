------------------------------- MODULE ChatLog -------------------------------
(***************************************************************************)
(* What a chat is to its users: keys, each shared with some members, that  *)
(* are never lost, and posts, each made once, sealed under a key its       *)
(* author was given, that stay where they are.                             *)
(***************************************************************************)
EXTENDS Naturals, Sequences, SequencesExt

CONSTANTS Keys, Posts, Members, Author

VARIABLES keys,   \* the keys of the chat, the newest last
          log     \* the posts, each with the key it is sealed under

vars == <<keys, log>>

Init == keys = <<>> /\ log = <<>>

AddKey(k) == /\ k \notin Range(keys)
             /\ keys' = Append(keys, k)
             /\ UNCHANGED log

Post(p, k) == /\ k \in Range(keys) /\ Author[p] \in Members[k]
              /\ \A i \in DOMAIN log : log[i].post # p
              /\ log' = Append(log, [post |-> p, under |-> k])
              /\ UNCHANGED keys

Next == \E k \in Keys : AddKey(k) \/ \E p \in Posts : Post(p, k)

Spec == Init /\ [][Next]_vars
=============================================================================
