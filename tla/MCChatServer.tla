---------------------------- MODULE MCChatServer ----------------------------
(* Instances of ChatServer for TLC.                                        *)
EXTENDS ChatServer

ann == <<Text("ann")>>
bob == <<Text("bob")>>
ChatName == <<Text("chat")>>
Both == {ann, bob}
OnlyAnn == {ann}

(* Ann makes a key and sends two messages; bob makes another key for both *)
(* of them.                                                                *)
ChatSender == "key" :> ann @@ "first" :> ann @@ "second" :> ann @@ "rekey" :> bob
ChatKind == "key" :> "generate" @@ "first" :> "send" @@ "second" :> "send"
            @@ "rekey" :> "generate"
ChatEarlier == "key" :> {} @@ "first" :> {"key"} @@ "second" :> {"key", "first"}
               @@ "rekey" :> {}
ChatMembers == "key" :> Both @@ "rekey" :> Both @@ "first" :> {} @@ "second" :> {}
ChatSkew == ann :> 0 @@ bob :> 1
=============================================================================
