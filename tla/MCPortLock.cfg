SPECIFICATION FairSpec
CONSTANTS
  Process = {p1, p2, p3}
  None = None
INVARIANT LockReleased
INVARIANT LockKept
PROPERTY StaleLockRecovered
