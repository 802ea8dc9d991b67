CONSTANTS
  Absent = Absent  Pending = Pending
  Calls = {"roster", "other", "first", "second"}
  Names = {"dataA", "dataB", "dataC", "signA"}
  Users <- BothChats
  ChatKeys = {"chat1"}
  ChatKey <- BothMessages
  NoChat = "none"
  Servers = {"promises", "records", "keys"}
SPECIFICATION Spec
CHECK_DEADLOCK FALSE
INVARIANTS
  RequestedOnce
  OwnKeys
  PendingExplained
PROPERTIES
  CallsEnd
