SPECIFICATION Spec
CONSTANTS
  h1 = h1
  h2 = h2
  t1 = t1
  Conn = {h1, h2}
  HttpConn = {h1, h2}
  Fd = {4, 5}
  Node = {1, 2}
  Addr = {1, 2, 3}
  Target <- AnyTarget
  ReqType = {"G"}
  Faults = {"loss", "race"}
  MaxReq = 1
  MaxUp = 3
  MaxRenew = 1
  Listener = Listener
  NoCmd = NoCmd
INVARIANTS AnswerIsOwn
PROPERTIES ReleaseOnlyIdle
