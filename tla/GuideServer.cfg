SPECIFICATION FairSpec
CONSTANTS
  Client = {c1, c2}
  Conn = {k1, k2}
  NoClient = NoClient
  NoConn = NoConn
  QueueLen = 2
  MaxRestarts = 1
INVARIANTS ConnOwnedOnce NoLostCommand TimerHasTask RightAnswer
PROPERTIES HeadServed ImplementsService
CHECK_DEADLOCK FALSE
