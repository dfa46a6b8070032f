SPECIFICATION FairWaitSpec
CONSTANTS
  Thread = {t1}
  Fiber = {f1, f2, f3}
  Job = {j1, j2}
  Null = Null
  Ops = {"ready", "sleep", "wait", "spawn"}
  Kinds = {"func", "fiber"}
  Pins = {Null}
  MaxOps = 1
  MaxStarts = 2
INVARIANTS WokenExactlyOnce
PROPERTIES ImplementsFairTaskPool
