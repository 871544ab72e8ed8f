\* An update, a push and a dial beside the pull loop; two good contents and a bad
\* one, a change on the server and a restart.
CONSTANTS
  Loop = loop
  Apis = {a1}
  Sides = {s1}
  Dials = {d1}
  Contents = {c1, c2, bad}
  Bad = {bad}
  Torn = Torn
  Payload = Payload
  None = None
  MaxChanges = 1
  MaxRestarts = 1
SPECIFICATION FairSpec
CHECK_DEADLOCK FALSE
INVARIANTS
  TypeOK
  CacheIsCurrent
  FileFollows
PROPERTY ContentsArrive
