SPECIFICATION FairSpec
CONSTANTS
  Commands = {c1}
  Shells = {s1}
  Panes = {p1}
  None = None
  Faults = {"spawn", "write", "kill"}
INVARIANTS
  CancelledLeavesNothing
  AtMostOneLateWrite
PROPERTIES
  TakeOverIsReported
  StopIsHonoured
CHECK_DEADLOCK FALSE
