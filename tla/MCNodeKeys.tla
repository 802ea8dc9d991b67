------------------------------ MODULE MCNodeKeys ------------------------------
(* Instances of NodeKeys for TLC.                                          *)
EXTENDS NodeKeys, TLC

(* Two chats with overlapping users are given new keys, while two messages *)
(* of one sender, with one chat key, are decoded.                          *)
BothChats == "roster" :> <<"dataA", "dataB", "dataC">> @@ "other" :> <<"dataC", "dataA">>
                @@ "first" :> <<"signA">> @@ "second" :> <<"signA">>
BothMessages == "roster" :> "none" @@ "other" :> "none" @@ "first" :> "chat1" @@ "second" :> "chat1"

(* One message.                                                            *)
OneMessage == "first" :> <<"signA">>
OneChatKey == "first" :> "chat1"
=============================================================================
