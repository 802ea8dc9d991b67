CONSTANTS
  l1 = l1  l2 = l2
  a = a  b = b
  Absent = Absent  Null = Null  Free = Free  Leaked = Leaked
  Loads = {l1, l2}
  Keys = {a, b}
  Wanted <- TwoLoads
  Checks = {l2}
SPECIFICATION Spec
CHECK_DEADLOCK FALSE
INVARIANTS
  ThrownOnlyAfterOverlap
  GoneOnlyIfRejected
PROPERTIES
  ValuesStay
  LoadsReturn
