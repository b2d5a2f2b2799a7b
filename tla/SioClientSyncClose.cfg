SPECIFICATION FairSpec
CONSTANTS
  Attempts = 1
  MaxConnects = 1
  MaxReady = 1
PROPERTY
  SyncCloseCloses
CHECK_DEADLOCK FALSE
