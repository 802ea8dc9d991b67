----------------------------- MODULE MCNodeChat -----------------------------
(* Instances of NodeChat for TLC.                                          *)
EXTENDS NodeChat

(* Ann makes a key for both and sends two messages; bob makes a key without*)
(* ann, and reads.                                                         *)
CallNames == {"key", "first", "second", "rekey", "read"}
MadeKind == "key" :> "generate" @@ "first" :> "send" @@ "second" :> "send"
            @@ "rekey" :> "generate" @@ "read" :> "read"
MadeSender == [c \in CallNames |-> IF c \in {"rekey", "read"} THEN "bob" ELSE "ann"]
MadeEarlier == [c \in CallNames |-> IF c = "second" THEN {"first"} ELSE {}]
MadeMembers == "key" :> {"ann", "bob"} @@ "rekey" :> {"bob"}
MadeSkew == "ann" :> 0 @@ "bob" :> 1
=============================================================================
