\* Two packets of every kind with up to two attachments each, two connections.
SPECIFICATION Spec
CONSTANTS
  WriteMessage <- JsonAccept
  ReadMessage <- JsonRead
  Namespaces = {"/game"}
  MaxBins = 2
  MaxPackets = 2
  MaxOpens = 2
INVARIANTS
  TypeOK
  DecodesExactly
  PartialIsCurrent
CHECK_DEADLOCK FALSE
