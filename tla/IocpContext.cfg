SPECIFICATION FairSpec
CONSTANTS
  Runners = {r1, r2}
  App = app
  Ops = {o1, o2}
  MaxTime = 1
  MaxFails = 1
INVARIANTS TypeOK WorkCounted StopEvents NeverOverslept
PROPERTIES Completes
CHECK_DEADLOCK FALSE
