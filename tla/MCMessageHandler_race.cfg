CONSTANTS
  Calls <- TestCalls
  Origin <- TestOrigin
  Incoming <- TestIncoming
  Blocking <- TestBlocking
  MaxOpens = 1
  MaxControl = 0
  None = None
CHECK_DEADLOCK FALSE
SPECIFICATION FairSpec
PROPERTIES
  RequestsReturn
