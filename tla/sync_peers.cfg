SPECIFICATION FairSpec
CONSTANTS
  Threads = {a, b, x}
  NoThread = NoThread
  N = 0
  MaxCalls = 3
  SendThreads = {a, b}
  RecvThreads = {a, b}
  TrySendThreads = {x}
  TryRecvThreads = {}
  SelectWaiters = {x}
  ThrowThreads = {}
  SendThrowThreads = {}
CHECK_DEADLOCK FALSE
INVARIANTS TypeOK NoAbort OneHandshake QueueBound
PROPERTIES ImplementsGoChannel HandshakeProgress AnnouncedProgress
