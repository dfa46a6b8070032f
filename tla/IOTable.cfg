SPECIFICATION Spec
CONSTANTS
  Fd = {40, 90}
  Event = {"READ", "WRITE"}
  Proc = {p1, p2}
  Ops = {"add", "del", "cancel", "close"}
  Waits <- MCWaits
  InitEvents = {{}}
  InitSize = 32
  MaxGen = 2
  Null = Null
SYMMETRY Symmetry
INVARIANTS WaitConserved PendingExact KernelAgrees AbortsOnlyFor
