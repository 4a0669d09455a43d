SPECIFICATION FairSpec
CONSTANTS
  Threads = {x, r1, r2}
  NoThread = NoThread
  N = 0
  MaxCalls = 2
  SendThreads = {}
  RecvThreads = {r1, r2}
  TrySendThreads = {x}
  TryRecvThreads = {}
  SelectWaiters = {x}
  ThrowThreads = {}
  SendThrowThreads = {}
CHECK_DEADLOCK FALSE
PROPERTIES OfferProgress
