SPECIFICATION Spec
CONSTANTS
  WriteMessage <- JsonAccept
  ReadMessage <- JsonRead
  Namespaces = {"/game"}
  MaxBins = 1
  MaxPackets = 1
  MaxOpens = 1
INVARIANT
  ParsedWhenArrived
CHECK_DEADLOCK FALSE
