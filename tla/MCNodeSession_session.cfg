CONSTANTS
  held = held  eager = eager
  Conns = {"desk", "phone"}
  User <- BothUser
  Enrolled = {"desk", "phone"}
  Calls = {held, eager}
  ConnOf <- BothConnOf
  Held = {held}
  AuthNeeded = {held, eager}
  Pushes = {"notify"}
  Targets <- NotifyTargets
  None = None
CHECK_DEADLOCK FALSE
SPECIFICATION FairSpec
INVARIANTS
  HeldCallsArriveAuthenticated
  RegistryTruthful
PROPERTIES
  KeepsPromise
  AuthOrderIrrelevant
  SentCallsSettle
  PushSettles
