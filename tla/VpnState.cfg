\* Every state of the client: the module has no bound.
SPECIFICATION Spec
CHECK_DEADLOCK FALSE
INVARIANTS
  TypeOK
  RunStateAgrees
  StopSticks
  NoLimbo
  ServiceFits
