SPECIFICATION Spec
CONSTANTS
  FORMATS = {"m"}
  Char = {"%", "{", "}", "m", "x"}
  MaxItems = 3
  MaxFmt = 1
  Thread = {t1, t2}
  Logger = {"root", "system"}
  Appender <- MCAppender
  Root = "root"
  Stdout <- MCStdout
  Stream = {"stream"}
  File = {"file"}
  Level = {1, 2}
  Written <- MCWritten
  MaxRecords = 2
  MaxConfig = 3
  Null = Null
SYMMETRY Symmetry
INVARIANTS PatternsParsed RecordsWhole SameOrder WrittenToAttached
CHECK_DEADLOCK FALSE
