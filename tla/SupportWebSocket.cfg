\* Five calls of connect: login, and four reconnects of the timer.
CONSTANTS
  Connects = {c1, c2, c3, c4, c5}
  None = None
SPECIFICATION Spec
SYMMETRY Symmetry
CHECK_DEADLOCK FALSE
INVARIANTS
  TypeOK
  NeverStranded
  OneChannel
