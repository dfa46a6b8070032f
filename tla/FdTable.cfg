SPECIFICATION Spec
CONSTANTS
  Fd = {3, 4}
  Proc = {p1, p2, p3}
  Hooked = {p1, p2, p3}
  Ops = {"socket", "accept", "file", "setfl", "close"}
  TypeFlags = {FALSE}
  IoctlFlags = {TRUE}
  Null = Null
INVARIANTS CtxIsOfDescriptor SysNonblockTrue UserSeesOwnFlag
