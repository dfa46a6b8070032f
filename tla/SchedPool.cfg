SPECIFICATION Spec
CONSTANTS
  Thread = {t1, t2}
  Fiber = {f1, f2, f3, f4}
  Job = {j1, j2}
  Null = Null
  Ops = {"throw", "ready", "spawn"}
  Kinds = {"func", "fiber"}
  Pins = {Null, t1}
  MaxOps = 1
  MaxStarts = 2
SYMMETRY JobSymmetry
INVARIANTS NoFault ActiveCountExact
PROPERTIES ImplementsTaskPool
