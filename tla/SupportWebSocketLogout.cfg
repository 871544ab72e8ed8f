\* A login and a logout: the channel stays open.
CONSTANTS
  Connects = {c1, c2}
  None = None
SPECIFICATION Spec
CHECK_DEADLOCK FALSE
INVARIANT FollowsLogin
