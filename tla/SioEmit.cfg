\* Two application threads and the network thread, two packets of up to two
\* attachments each, two connections; ids of two bits, from any of them on.
SPECIFICATION Spec
CONSTANTS
  Users = {u1, u2}
  Net = net
  MaxCalls = 2
  MaxBins = 2
  MaxOpens = 2
  MaxInt = 1
INVARIANTS
  TypeOK
  OwnCallback
  AtMostOnce
  
  MixedOnlyAcrossThreads
CHECK_DEADLOCK FALSE
