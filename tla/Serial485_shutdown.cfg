SPECIFICATION Spec
CONSTANTS
  Clients <- TwoClients
  Addrs <- OneAddr
  Funcs <- OneFunc
  Requests <- OneRequest
  Attempts = 1
  MaxQueued = 1
  MaxOps = 1
  c1 = c1  c2 = c2  a1 = a1  a2 = a2  f1 = f1  f2 = f2
  Broadcast = Broadcast
  None = None
INVARIANT ClosedAfterShutdown
CHECK_DEADLOCK FALSE
