SPECIFICATION FairSpec
CONSTANTS
  Threads = {s1, s2, x, r}
  NoThread = NoThread
  N = 1
  MaxCalls = 2
  SendThreads = {s1, s2}
  RecvThreads = {r}
  TrySendThreads = {}
  TryRecvThreads = {x}
  SelectWaiters = {x}
  ThrowThreads = {x}
  SendThrowThreads = {}
CHECK_DEADLOCK FALSE
INVARIANTS LockOwnership NoLostItem NoLostAck
PROPERTIES PollProgress AckProgress
