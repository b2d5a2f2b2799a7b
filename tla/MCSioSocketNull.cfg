\* Two application threads and the network thread, one packet each.
SPECIFICATION Spec
CONSTANTS
  Users = {u1, u2}
  Net = net
  MaxCalls = 1
  MaxOpens = 1
SYMMETRY UserSymmetry
INVARIANT NoNullDereference
CHECK_DEADLOCK FALSE
