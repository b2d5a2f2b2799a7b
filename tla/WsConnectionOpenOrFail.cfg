SPECIFICATION Spec
CONSTANTS
  Responses = {"valid", "invalid", "extensions"}
  MaxSends = 2
  MaxFrames = 3
INVARIANTS
  OpenOrFail
CHECK_DEADLOCK FALSE
