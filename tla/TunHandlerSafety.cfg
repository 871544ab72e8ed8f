\* Three dials and three overlapping start/stop calls.  Limit is 2, so that two
\* dials exhaust the semaphore (4 in the code).
CONSTANTS
  Ops = {o1, o2, o3}
  Dialers = {d1, d2, d3}
  Limit = 2
  None = None
SPECIFICATION Spec
SYMMETRY ThreadSymmetry
CHECK_DEADLOCK FALSE
INVARIANTS
  TypeOK
  NoUseAfterRelease
  HookBacked
  StoppedMeansClosed
PROPERTIES
  OrphanOnlyByOverlap
  ImplementsBoth
