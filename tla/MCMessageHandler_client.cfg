CONSTANTS
  Calls <- ClientCalls
  Origin <- ClientOrigin
  Incoming <- ClientIncoming
  Blocking <- ClientBlocking
  MaxOpens = 2
  MaxControl = 1
  None = None
CHECK_DEADLOCK FALSE
SPECIFICATION FairSpec
INVARIANTS
  NoUseAfterClose
  EveryLiveTaskIsTracked
  NoSilentLoss
PROPERTIES
  KeepsPromise
  CloseReturns
