SPECIFICATION Spec
CONSTANTS
  Thread = {t1, t2}
  Fiber = {f1, f2, f3}
  Misuse = {}
  Null = Null
SYMMETRY Symmetry
INVARIANTS ComesBackToMain GoesOnWhereItLeft FreedWhenDone NoFault
