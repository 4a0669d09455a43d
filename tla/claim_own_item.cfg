SPECIFICATION Spec
CONSTANTS
  Threads = {a, b}
  NoThread = NoThread
  N = 1
  MaxCalls = 2
  SendThreads = {a, b}
  RecvThreads = {a}
  TrySendThreads = {}
  TryRecvThreads = {}
  SelectWaiters = {}
  ThrowThreads = {}
  SendThrowThreads = {}
CHECK_DEADLOCK FALSE
INVARIANT NoOwnItem
