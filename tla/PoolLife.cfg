SPECIFICATION FairSpec
CONSTANTS
  User = {u1, u2, u3}
  Worker = {1, 2, 3, 4, 5, 6, 7, 8, 9}
  Stopper = {u1}
  ThreadCount = 3
  Null = Null
INVARIANTS StoppedIsJoined NothingFreedInUse BegunWhenStored
PROPERTY CallsReturn
CHECK_DEADLOCK FALSE
