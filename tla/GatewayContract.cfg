SPECIFICATION Spec
CONSTANTS
  h1 = h1
  h2 = h2
  t1 = t1
  Conn = {h1, t1}
  HttpConn = {h1}
  Fd = {4, 5}
  Node = {1}
  Addr = {1}
  Target <- AnyTarget
  ReqType = {"G"}
  Faults = {}
  MaxReq = 3
  MaxUp = 3
  MaxRenew = 0
  Listener = Listener
  NoCmd = NoCmd
PROPERTIES AssignOnlyIdle
CHECK_DEADLOCK FALSE
