\* One frame of the client and two of the server, any close code, any
\* failure, and a server that gets its extensions right.
SPECIFICATION FairSpec
CONSTANTS
  Responses = {"valid", "invalid"}
  MaxSends = 1
  MaxFrames = 2
INVARIANTS
  TypeOK
  QueueIsServed
  InOrder
  TerminalIsLast
PROPERTIES
  ImplementsWsLink
  AttemptEnds
  ClosingEnds
CHECK_DEADLOCK FALSE
