\* Liveness: no symmetry, two operations against two dials.
CONSTANTS
  Ops = {o1, o2}
  Dialers = {d1, d2}
  Limit = 2
  None = None
SPECIFICATION FairSpec
CHECK_DEADLOCK FALSE
PROPERTIES
  OperationsFinish
  DialsReturn
