SPECIFICATION FairSpec
CONSTANTS
  Thread = {t1, t2}
  Fiber = {f1, f2, f3}
  Job = {j1, j2}
  Null = Null
  Ops = {"ready"}
  Kinds = {"func"}
  Pins = {Null, t1}
  MaxOps = 1
  MaxStarts = 1
PROPERTIES StopReturns JobsEnd
