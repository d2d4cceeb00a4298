SPECIFICATION Spec
CONSTANTS
  Clients <- OneClient
  Addrs <- TwoAddrs
  Funcs <- TwoFuncs
  Requests <- AllRequests
  Attempts = 2
  MaxQueued = 1
  MaxOps = 2
  c1 = c1  c2 = c2  a1 = a1  a2 = a2  f1 = f1  f2 = f2
  Broadcast = Broadcast
  None = None
PROPERTIES ReplyFresh
CHECK_DEADLOCK FALSE
