SPECIFICATION Spec
CONSTANTS
  Client = {c1, c2}
  Conn = {k1, k2}
  NoClient = NoClient
  NoConn = NoConn
  QueueLen = 8
  MaxRestarts = 0
INVARIANT NoStrandedReply
CHECK_DEADLOCK FALSE
