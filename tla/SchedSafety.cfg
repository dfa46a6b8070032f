SPECIFICATION Spec
CONSTANTS
  Thread = {t1, t2}
  Fiber = {f1, f2, f3, f4}
  Job = {j1, j2}
  Null = Null
  Ops = {"ready", "sleep", "wait", "spawn", "self"}
  Kinds = {"func"}
  Pins = {Null}
  MaxOps = 1
  MaxStarts = 1
SYMMETRY Symmetry
INVARIANTS IdleCountExact ActiveCountCovers ContinuationKept
