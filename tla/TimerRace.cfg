SPECIFICATION FairSpec
CONSTANTS
  Timer = {1, 2}
  Period <- MCPeriod
  Recurring = {2}
  User = {u1}
  Worker = {w1, w2}
  Locked = {TRUE}
  Null = Null
  MaxTime = 2
INVARIANTS NeverEarly OneShotOnce NoDrift NoneSleptOver
PROPERTIES CancelIsFinal DueIsCollected
