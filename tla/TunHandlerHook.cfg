\* One dial against a start and a stop: the hook vanishes before it is called.
CONSTANTS
  Ops = {o1, o2}
  Dialers = {d1}
  Limit = 4
  None = None
SPECIFICATION Spec
CHECK_DEADLOCK FALSE
INVARIANT CalledHookNotNil
