\* Three calls and two cores, with the helper service of Windows, and a request.
CONSTANTS
  Calls = {r1, r2, r3}
  Cores = {c1, c2}
  Invokes = {i1}
  Windows = TRUE
  None = None
SPECIFICATION ClientSpec
SYMMETRY Symmetry
CHECK_DEADLOCK FALSE
INVARIANTS
  ClientTypeOK
  ServiceTracksCore
  HelperTracksCore
  StuckOnlyAfter
  LinkedWhenQuiet
  QuietMessagesArrive
