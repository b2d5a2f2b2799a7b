\* One application thread and the network thread, one packet each, one reconnection.
SPECIFICATION FairSpec
CONSTANTS
  Users = {u1}
  Net = net
  MaxCalls = 1
  MaxOpens = 2
PROPERTIES
  HandshakeResolves
  CloseCompletes
CHECK_DEADLOCK FALSE
