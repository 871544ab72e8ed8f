\* Five hosts, four addresses and lists of three: eviction and wrap-around.
CONSTANTS
  Hosts = {h1, h2, h3, h4, h5}
  Queries = {q1, q2}
  First = 4
  Last = 8
  Size = 3
  None = None
SPECIFICATION Spec
SYMMETRY Symmetry
CHECK_DEADLOCK FALSE
INVARIANT Consistent
PROPERTY ImplementsFakeIP
