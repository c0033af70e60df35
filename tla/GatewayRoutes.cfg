SPECIFICATION Spec
CONSTANTS
  h1 = h1
  h2 = h2
  t1 = t1
  Conn = {h1, t1}
  HttpConn = {h1}
  Fd = {4, 5}
  Node = {1, 2}
  Addr = {1, 2}
  Target <- AnyTarget
  ReqType = {"S"}
  Faults = {"loss", "race", "repeat", "report", "timeout"}
  MaxReq = 1
  MaxUp = 2
  MaxRenew = 0
  Listener = Listener
  NoCmd = NoCmd
INVARIANTS CommandsReachTheirNode FramesReachAskers
CHECK_DEADLOCK FALSE
