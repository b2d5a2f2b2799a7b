\* One application thread and the network thread, two packets each, one reconnection.
SPECIFICATION Spec
CONSTANTS
  Users = {u1}
  Net = net
  MaxCalls = 2
  MaxOpens = 2
INVARIANTS
  TypeOK
  StrandedPerThread
  OrderPerHandler
  HandshakeFirst
  ClosedIsFinal
PROPERTY ImplementsPacketFate
CHECK_DEADLOCK FALSE
