CONSTANTS
  Absent = Absent  Pending = Pending
  Calls = {"first"}
  Names = {"signA"}
  Users <- OneMessage
  ChatKeys = {"chat1"}
  ChatKey <- OneChatKey
  NoChat = "none"
  Servers = {"promises"}
SPECIFICATION Spec
CHECK_DEADLOCK FALSE
INVARIANTS
  AnsweredCallsReturn
