CONSTANTS
  Threads = {t1, t2}
  Calls = {"load", "report"}
  Held = {"load"}
  Kind <- Kinds
  Users = {"Alice", "Eve"}
  Keys = {"alice", "forged", "eve"}
  User <- KeyUsers
  Enrolled <- EnrolledKeys
  NoUser = "nobody"
  NoKey = NoKey  NoSignature = NoSignature  Error = Error
  MaxOpens = 2
SPECIFICATION Spec
CHECK_DEADLOCK FALSE
INVARIANTS
  AuthenticatedBySigner
  HeldServedAsUser
  CrashExplained
PROPERTIES
  BecomesReady
