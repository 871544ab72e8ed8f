\* Three requests of any kind, two addresses and the default; liveness forbids
\* symmetry.
CONSTANTS
  Requests = {r1, r2, r3}
  Addrs = {a1, a2}
  Default = dflt
  None = None
SPECIFICATION FairSpec
CHECK_DEADLOCK FALSE
INVARIANTS
  TypeOK
  PortsFollowConfig
  NoSocketLeaks
  ConfigApplied
  
  SubscriptionsAreRead
PROPERTY RequestsAnswered
