SPECIFICATION FairSpec
CONSTANTS
  Attempts = 2
  MaxConnects = 1
  MaxReady = 2
  Patience = 1
  MaxKeys = 1
  MaxEvents = 3
INVARIANTS
  TypeOK
  JoinsFirst
  EndsDisconnected
  HandlersNeverWait
PROPERTIES
  OpenWakesMain
  CleanQuitEnds
CHECK_DEADLOCK FALSE
