SPECIFICATION Spec
CONSTANTS
  h1 = h1
  h2 = h2
  t1 = t1
  Conn = {h1, t1}
  HttpConn = {h1}
  Fd = {4}
  Node = {1}
  Addr = {1, 2}
  Target <- AnyTarget
  ReqType = {"S", "X"}
  Faults = {"loss", "race", "repeat", "report", "timeout"}
  MaxReq = 2
  MaxUp = 2
  MaxRenew = 1
  Listener = Listener
  NoCmd = NoCmd
INVARIANTS TypeOK CommandsInOrder OnlyClientCommands FramesInOrder
CHECK_DEADLOCK FALSE
