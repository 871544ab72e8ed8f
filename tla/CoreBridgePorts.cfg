\* A setup and a start: UDP cannot be bound, and the closed TCP listener stays.
CONSTANTS
  Requests = {r1, r2}
  Addrs = {a1}
  Default = dflt
  None = None
SPECIFICATION Spec
CHECK_DEADLOCK FALSE
INVARIANT ReportedPortIsOpen
