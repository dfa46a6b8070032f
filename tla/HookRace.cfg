SPECIFICATION FairSpec
CONSTANTS
  Call = {"reader", "writer"}
  Event = {"READ", "WRITE"}
  EventOf <- MCEventOf
  Connect = {"writer"}
  Closes = TRUE
  Timeval <- MCTimeval
  Word = 65536
  Long = 16777216
INVARIANTS WokenByOne TimesOutOnlyIfAsked
PROPERTIES TimeoutEndsWait ReadyEndsWait
CHECK_DEADLOCK FALSE
