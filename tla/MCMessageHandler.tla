-------------------------- MODULE MCMessageHandler --------------------------
(* Instances of MessageHandler for TLC.                                    *)
EXTENDS MessageHandler, TLC

(* A client: one request by the application, whose reply a cache handles   *)
(* (a load of keys), one by the handler of an API request the server makes,*)
(* and the AUTH request of the server.                                     *)
ClientCalls == {"load", "nested"}
ClientIncoming == {"api", "auth"}
ClientOrigin == "load" :> "user" @@ "nested" :> "api"
ClientBlocking == {"load"}

(* The test program: one request by the application, nothing else.         *)
TestCalls == {"read_messages"}
TestIncoming == {}
TestOrigin == "read_messages" :> "user"
TestBlocking == {}
=============================================================================
