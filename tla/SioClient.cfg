SPECIFICATION FairSpec
CONSTANTS
  Attempts = 2
  MaxConnects = 3
  MaxReady = 3
INVARIANTS
  TypeOK
  StateAgrees
PROPERTIES
  OneConnection
  NoStaleClose
  CleanCloseReturns
  LostIsRetried
CHECK_DEADLOCK FALSE
