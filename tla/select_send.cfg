SPECIFICATION Spec
CONSTANTS
  Threads = {s, x, r1, r2}
  NoThread = NoThread
  N = 1
  MaxCalls = 3
  SendThreads = {s}
  RecvThreads = {r1, r2}
  TrySendThreads = {x}
  TryRecvThreads = {}
  SelectWaiters = {x}
  ThrowThreads = {}
  SendThrowThreads = {s, x}
CHECK_DEADLOCK FALSE
SYMMETRY Symmetry
INVARIANTS NoAbort QueueBound OfferHasReceiver NoLostSlot NoLostItem
PROPERTY ImplementsGoChannel
