SPECIFICATION Spec
CONSTANTS
  h1 = h1
  h2 = h2
  t1 = t1
  Conn = {t1}
  HttpConn = {}
  Fd = {4}
  Node = {1}
  Addr = {1}
  Target <- AnyTarget
  ReqType = {"G", "P"}
  Faults = {"loss", "race"}
  MaxReq = 3
  MaxUp = 3
  MaxRenew = 0
  Listener = Listener
  NoCmd = NoCmd
PROPERTIES AssignOnlyIdle
