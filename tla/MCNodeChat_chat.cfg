CONSTANTS
  ChatUsers = {"ann", "bob"}
  ChatCalls <- CallNames
  Sender <- MadeSender
  Kind <- MadeKind
  Earlier <- MadeEarlier
  Members <- MadeMembers
  Failing = {"first", "read"}
  Unstable = {"ann"}
  Skew <- MadeSkew
  UploadTolerance = 0
  DelayTolerance = 0
  Start = 1
  MaxTime = 2
  NoKey = NoKey
  Garbage = Garbage
SPECIFICATION ChatSpec
CHECK_DEADLOCK FALSE
INVARIANTS
  ReadAsSent
PROPERTIES
  KeepsLog
  CallsSettle
