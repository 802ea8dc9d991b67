CONSTANTS
  Unset = 1
  Throws = Throws
  Users <- Both
  Calls = {"key", "first", "second", "rekey"}
  Sender <- ChatSender
  Kind <- ChatKind
  Earlier <- ChatEarlier
  Members <- ChatMembers
  Chat <- ChatName
  Type = "text"
  Unstable <- OnlyAnn
  Skew <- ChatSkew
  Lower = 1
  Upper = 2
  Start = 2
  MaxTime = 3
SPECIFICATION Spec
CHECK_DEADLOCK FALSE
INVARIANTS
  StoredAsSent
  MembersRead
  NoStaleKey
  FailureExplained
  SendTimesKeepOrder
PROPERTIES
  KeepsLog
  SendsSettle
