SPECIFICATION Spec
CONSTANTS
  Threads = {s, r}
  NoThread = NoThread
  N = 0
  MaxCalls = 1
  SendThreads = {s}
  RecvThreads = {r}
  TrySendThreads = {}
  TryRecvThreads = {}
  SelectWaiters = {}
  ThrowThreads = {r}
  SendThrowThreads = {}
CHECK_DEADLOCK FALSE
INVARIANT StrongExceptionSafety
