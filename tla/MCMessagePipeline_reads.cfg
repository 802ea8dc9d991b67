CONSTANTS
  Unset = 1
  Throws = Throws
  None = None  Null = Null  Pending = Pending  Rejected = Rejected  Locked = Locked
  Garbage <- GarbageText
  Posts <- SomePosts
  SignKeys <- SomeSignKeys
  ChatKeys <- SomeChatKeys
  Late <- SomeLate
  Chat <- ChatName
  Reader <- bob
  Ranges <- SomeRanges
  MaxReads = 3
SPECIFICATION Spec
CHECK_DEADLOCK FALSE
INVARIANTS
  ValidAsSigned
  FailureExplained
  ValidStaysValid
  TroubleExplained
PROPERTIES
  ReadsReturn
