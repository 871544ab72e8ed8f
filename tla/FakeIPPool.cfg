\* Three addresses for four hosts: the pool wraps around.
CONSTANTS
  Hosts = {h1, h2, h3, h4}
  Lookups = {l1, l2}
  First = 4
  Last = 7
  None = None
SPECIFICATION Spec
SYMMETRY Symmetry
INVARIANTS
  TypeOK
  AnswersMapBack
  OneAddressPerHost
PROPERTIES
  OldestReusedFirst
  ImplementsFakeIP
