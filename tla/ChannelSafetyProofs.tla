----------------------- MODULE ChannelSafetyProofs -----------------------
(***************************************************************************)
(* The handshake of blocking and nonblocking sends: one blocking send at a *)
(* time awaits its acknowledgement, the queue exceeds its buffer by at     *)
(* most one element, and no assertion of the class fails in a supported    *)
(* use.                                                                    *)
(***************************************************************************)
EXTENDS ChannelProofs

\* Steps that only move threads between labels: calls that begin, locks taken,
\* notifications, wakeups.
Quiet(t) ==
  \/ Calls(t) \/ Locks(t) \/ TryLocks(t) \/ SpuriousWakeup(t)
  \/ SendNotify(t) \/ NotifyBegin(t) \/ NotifyEnd(t) \/ TrySendNotify(t)

\* The other steps: critical sections, parts of them, and a value lost to its
\* receiver.
Section(t) ==
  \/ SendEnter(t) \/ SendThrow(t) \/ AckEnter(t)
  \/ RecvFront(t) \/ RecvPost(t) \/ RecvThrow(t) \/ ValueLost(t)
  \/ TrySendEnter(t) \/ TrySendThrow(t)
  \/ TryRecvEnter(t) \/ TryRecvFalse(t) \/ TryRecvPost(t)

LEMMA StepCases ==
  ASSUME [Next]_vars
  PROVE  UNCHANGED vars \/ \E t \in Threads : Quiet(t) \/ Section(t)
BY DEF Next, Steps, Quiet, Section

LEMMA CallPc ==
  ASSUME pc \in [Threads -> Pcs], NEW t \in Threads, NEW S, NEW l \in Pcs,
         Call(t, S, l)
  PROVE  /\ t \in S /\ pc[t] = "idle" /\ pc'[t] = l
         /\ \A u \in Threads : u # t => pc'[u] = pc[u]
         /\ UNCHANGED <<m_mutex, queue, flags, failed>>
BY GotoPc DEF Call

LEMMA LockPc ==
  ASSUME pc \in [Threads -> Pcs], NEW t \in Threads, NEW from, NEW to \in Pcs,
         Lock(t, from, to)
  PROVE  /\ pc[t] = from /\ pc'[t] = to
         /\ \A u \in Threads : u # t => pc'[u] = pc[u]
         /\ UNCHANGED <<queue, flags, local>>
BY GotoPc DEF Lock

\* An attempt at the lock.
Tried(t, from, to) ==
  /\ pc[t] = from /\ pc'[t] \in {from, to, "idle"}
  /\ \A u \in Threads : u # t => pc'[u] = pc[u]
  /\ UNCHANGED <<queue, flags, local>>

LEMMA TryLockPc ==
  ASSUME pc \in [Threads -> Pcs], NEW t \in Threads, NEW from \in Pcs,
         NEW to \in Pcs, TryLock(t, from, to)
  PROVE  Tried(t, from, to)
BY GotoPc, Labels DEF TryLock, AttemptFailed, Tried

LEMMA TryLocksPc ==
  ASSUME pc \in [Threads -> Pcs], NEW t \in Threads, TryLocks(t)
  PROVE  \/ Tried(t, "try_send_lock", "try_send_enter")
         \/ Tried(t, "try_recv_lock", "try_recv_enter")
<1>1. {"try_send_lock", "try_send_enter", "try_recv_lock", "try_recv_enter"} \subseteq Pcs
  BY Labels
<1> QED
  BY <1>1, TryLockPc DEF TryLocks, TrySendLock, TryRecvLock

\* The four notifications.
LEMMA SendNotifyMoves ==
  ASSUME pc \in [Threads -> Pcs], NEW t \in Threads, SendNotify(t)
  PROVE  Moved(t, "send_notify", "recv_wait", "recv_relock", "ack_lock")
<1>1. Notify(t, "send_notify", "recv_wait", "recv_relock", "ack_lock")
  BY DEF SendNotify
<1>2. "recv_relock" \in Pcs /\ "ack_lock" \in Pcs
  BY Labels
<1> QED
  BY <1>1, <1>2, NotifyMoves

LEMMA NotifyBeginMoves ==
  ASSUME pc \in [Threads -> Pcs], NEW t \in Threads, NotifyBegin(t)
  PROVE  Moved(t, "notify_begin", "send_begin_wait", "send_lock", "idle")
<1>1. Notify(t, "notify_begin", "send_begin_wait", "send_lock", "idle")
  BY DEF NotifyBegin
<1>2. "send_lock" \in Pcs /\ "idle" \in Pcs
  BY Labels
<1> QED
  BY <1>1, <1>2, NotifyMoves

LEMMA NotifyEndMoves ==
  ASSUME pc \in [Threads -> Pcs], NEW t \in Threads, NotifyEnd(t)
  PROVE  Moved(t, "notify_end", "send_end_wait", "ack_lock", "idle")
<1>1. Notify(t, "notify_end", "send_end_wait", "ack_lock", "idle")
  BY DEF NotifyEnd
<1>2. "ack_lock" \in Pcs /\ "idle" \in Pcs
  BY Labels
<1> QED
  BY <1>1, <1>2, NotifyMoves

LEMMA TrySendNotifyMoves ==
  ASSUME pc \in [Threads -> Pcs], NEW t \in Threads, TrySendNotify(t)
  PROVE  Moved(t, "try_send_notify", "recv_wait", "recv_relock", "idle")
<1>1. Notify(t, "try_send_notify", "recv_wait", "recv_relock", "idle")
  BY DEF TrySendNotify
<1>2. "recv_relock" \in Pcs /\ "idle" \in Pcs
  BY Labels
<1> QED
  BY <1>1, <1>2, NotifyMoves

LEMMA WakeupPc ==
  ASSUME pc \in [Threads -> Pcs], NEW t \in Threads, SpuriousWakeup(t)
  PROVE  /\ \A u \in Threads : u # t => pc'[u] = pc[u]
         /\ \/ pc[t] = "send_begin_wait" /\ pc'[t] = "send_lock"
            \/ pc[t] = "send_end_wait" /\ pc'[t] = "ack_lock"
            \/ pc[t] = "recv_wait" /\ pc'[t] = "recv_relock"
         /\ UNCHANGED <<m_mutex, queue, flags, local>>
BY GotoPc, Labels DEF SpuriousWakeup

-----------------------------------------------------------------------------

HandInv == OneHandshake /\ QueueBound

\* A quiet step neither touches the queue and the flags nor moves a thread in
\* or out of its wait for the acknowledgement.
LEMMA QuietAck ==
  ASSUME pc \in [Threads -> Pcs], NEW t \in Threads, Quiet(t)
  PROVE  /\ UNCHANGED <<queue, flags>>
         /\ \A u \in Threads : pc'[u] \in AckPcs <=> pc[u] \in AckPcs
<1> USE DEF AckPcs
<1>1. CASE Calls(t)
  BY <1>1, CallPc, Labels DEF Calls, CallSend, CallRecv, CallTrySend, CallTryRecv
<1>2. CASE Locks(t)
  BY <1>2, LockPc, Labels DEF Locks, SendLock, AckLock, RecvLock, RecvRelock
<1>3. CASE TryLocks(t)
  BY <1>3, TryLocksPc, Labels DEF Tried
<1>4. CASE SpuriousWakeup(t)
  BY <1>4, WakeupPc
<1>5. CASE SendNotify(t)
  BY <1>5, SendNotifyMoves, Labels DEF Moved
<1>6. CASE NotifyBegin(t)
  BY <1>6, NotifyBeginMoves, Labels DEF Moved
<1>7. CASE NotifyEnd(t)
  BY <1>7, NotifyEndMoves, Labels DEF Moved
<1>8. CASE TrySendNotify(t)
  BY <1>8, TrySendNotifyMoves, Labels DEF Moved
<1> QED
  BY <1>1, <1>2, <1>3, <1>4, <1>5, <1>6, <1>7, <1>8 DEF Quiet

LEMMA HandInvInit == Init => HandInv
BY ChannelAssumption DEF Init, HandInv, OneHandshake, QueueBound, FullHasSender, is_full, AckPcs

LEMMA HandInvStep == MutexInv /\ HandInv /\ [Next]_vars => HandInv'
<1> SUFFICES ASSUME MutexInv, HandInv, [Next]_vars PROVE HandInv'
  OBVIOUS
<1> USE ChannelAssumption DEF HandInv
<1>0. pc \in [Threads -> Pcs] /\ m_queue \in Seq(Message) /\ Len(m_queue) \in Nat
  BY DEF MutexInv, TypeOK
<1>1. CASE UNCHANGED vars
  BY <1>1 DEF vars, queue, flags, OneHandshake, QueueBound, FullHasSender, is_full
<1>2. ASSUME NEW t \in Threads, Quiet(t) PROVE HandInv'
  <2>1. UNCHANGED <<queue, flags>> /\ \A u \in Threads : pc'[u] \in AckPcs <=> pc[u] \in AckPcs
    BY <1>0, <1>2, QuietAck
  <2> QED
    BY <2>1 DEF queue, flags, OneHandshake, QueueBound, FullHasSender, is_full
<1>3. ASSUME NEW t \in Threads, SendEnter(t) PROVE HandInv'
  <2> USE <1>0, <1>3 DEF SendEnter, Unlock, Abort, queue, flags, local
  <2>1. OneHandshake'
    BY GotoPc, Labels DEF OneHandshake, AckPcs, MaySend
  <2>2. QueueBound'
    BY EnqueueFacts DEF QueueBound, FullHasSender, is_full, MaySend, MutexInv, TypeOK
  <2> QED
    BY <2>1, <2>2
<1>4. ASSUME NEW t \in Threads, AckEnter(t) PROVE HandInv'
  <2> USE <1>0, <1>4 DEF AckEnter, Acknowledged, Unlock, queue, flags, local
  <2>1. OneHandshake'
    BY GotoPc, Labels DEF OneHandshake, AckPcs
  <2>2. QueueBound'
    BY DEF QueueBound, FullHasSender, is_full
  <2> QED
    BY <2>1, <2>2
<1>5. ASSUME NEW t \in Threads, RecvFront(t) PROVE HandInv'
  <2> USE <1>0, <1>5 DEF RecvFront, Unlock, Abort, Announce, MoveFront, queue, flags, local
  <2>1. OneHandshake'
    BY GotoPc, Labels DEF OneHandshake, AckPcs
  <2>2. QueueBound'
    BY DEF QueueBound, FullHasSender, is_full
  <2> QED
    BY <2>1, <2>2
<1>6. ASSUME NEW t \in Threads, RecvPost(t) PROVE HandInv'
  <2> USE <1>0, <1>6 DEF RecvPost, Abort, Pop, ResetHandshake, PopNotifies, Unlock, queue, flags, local
  <2>1. OneHandshake'
    BY GotoPc, Labels DEF OneHandshake, AckPcs
  <2>2. QueueBound'
    BY TailFacts DEF QueueBound, FullHasSender, is_full, MutexInv, PostHasFront, TypeOK
  <2> QED
    BY <2>1, <2>2
<1>7. ASSUME NEW t \in Threads, RecvThrow(t) PROVE HandInv'
  <2> USE <1>0, <1>7 DEF RecvThrow, Unlock, queue, flags, local
  <2>1. OneHandshake'
    BY GotoPc, Labels DEF OneHandshake, AckPcs
  <2>2. QueueBound'
    BY DEF QueueBound, FullHasSender, is_full
  <2> QED
    BY <2>1, <2>2
<1>8. ASSUME NEW t \in Threads, TrySendEnter(t) PROVE HandInv'
  <2> USE <1>0, <1>8 DEF TrySendEnter, Abort, AttemptFailed, Unlock, CannotOffer, queue, flags, local
  <2>1. OneHandshake'
    BY GotoPc, Labels DEF OneHandshake, AckPcs, MaySend
  <2>2. QueueBound'
    BY EnqueueFacts DEF QueueBound, FullHasSender, is_full, MaySend, MutexInv, TypeOK
  <2> QED
    BY <2>1, <2>2
<1>9. ASSUME NEW t \in Threads, TryRecvEnter(t) PROVE HandInv'
  <2> USE <1>0, <1>9 DEF TryRecvEnter, Abort, MoveFront, queue, flags, local
  <2>1. OneHandshake'
    BY GotoPc, Labels DEF OneHandshake, AckPcs
  <2>2. QueueBound'
    BY DEF QueueBound, FullHasSender, is_full
  <2> QED
    BY <2>1, <2>2
<1>10. ASSUME NEW t \in Threads, TryRecvFalse(t) PROVE HandInv'
  <2> USE <1>0, <1>10 DEF TryRecvFalse, AttemptFailed, Unlock, queue, flags, local
  <2>1. OneHandshake'
    BY GotoPc, Labels DEF OneHandshake, AckPcs
  <2>2. QueueBound'
    BY DEF QueueBound, FullHasSender, is_full
  <2> QED
    BY <2>1, <2>2
<1>11. ASSUME NEW t \in Threads, TryRecvPost(t) PROVE HandInv'
  <2> USE <1>0, <1>11 DEF TryRecvPost, Abort, Pop, ResetHandshake, PopNotifies, Unlock, queue, flags, local
  <2>1. OneHandshake'
    BY GotoPc, Labels DEF OneHandshake, AckPcs
  <2>2. QueueBound'
    BY TailFacts DEF QueueBound, FullHasSender, is_full, MutexInv, PostHasFront, TypeOK
  <2> QED
    BY <2>1, <2>2
<1>12. ASSUME NEW t \in Threads, SendThrow(t) PROVE HandInv'
  <2> USE <1>0, <1>12 DEF SendThrow, Unlock, queue, flags, local
  <2>1. OneHandshake'
    BY GotoPc, Labels DEF OneHandshake, AckPcs
  <2>2. QueueBound'
    BY DEF QueueBound, FullHasSender, is_full
  <2> QED
    BY <2>1, <2>2
<1>13. ASSUME NEW t \in Threads, TrySendThrow(t) PROVE HandInv'
  <2> USE <1>0, <1>13 DEF TrySendThrow, Unlock, queue, flags, local
  <2>1. OneHandshake'
    BY GotoPc, Labels DEF OneHandshake, AckPcs
  <2>2. SendThrowThreads # {} /\ m_queue' = m_queue
    OBVIOUS
  <2>3. m_is_send_done /\ m_is_send_done' = m_is_send_done /\ ~is_full
    BY DEF CannotOffer, MaySend
  <2>4. ~m_is_try_send_done' => ~(Len(m_queue) < N)
    BY Zenon
  <2> HIDE <1>13 DEF TrySendThrow
  <2>5. QueueBound'
    BY <2>2, <2>3, <2>4 DEF QueueBound, FullHasSender, is_full
  <2> QED
    BY <2>1, <2>5
<1>14. ASSUME NEW t \in Threads, ValueLost(t) PROVE HandInv'
  BY <1>14 DEF ValueLost, queue, flags, OneHandshake, QueueBound, FullHasSender, is_full
<1> QED
  BY <1>1, <1>2, <1>3, <1>4, <1>5, <1>6, <1>7, <1>8, <1>9, <1>10, <1>11, <1>12,
    <1>13, <1>14, StepCases DEF Section

\* MutexInv and HandInv together.
LEMMA HandCorrect == Spec => [](MutexInv /\ HandInv)
<1>1. Init => MutexInv /\ HandInv
  BY MutexInvInit, HandInvInit
<1>2. (MutexInv /\ HandInv) /\ [Next]_vars => (MutexInv /\ HandInv)'
  BY MutexInvStep, HandInvStep
<1> QED
  BY <1>1, <1>2, PTL DEF Spec

\* m_is_send_done is false exactly while one blocking send awaits its
\* acknowledgement.
THEOREM HandshakeCorrect == Spec => []OneHandshake
<1>1. HandInv => OneHandshake
  BY DEF HandInv
<1> QED
  BY <1>1, HandCorrect, PTL

\* The queue never exceeds its buffer by more than the one element being
\* handed over, by one send at a time; while a flag denies the sends that place
\* is taken, or a value threw there.
THEOREM QueueBounded == Spec => []QueueBound
<1>1. HandInv => QueueBound
  BY DEF HandInv
<1> QED
  BY <1>1, HandCorrect, PTL

-----------------------------------------------------------------------------
(* No assertion fails in a supported use.                                  *)

\* A thread is only where its role lets it be.
Roles ==
  \A t \in Threads :
    /\ pc[t] \in SendPcs \cup AckPcs => t \in SendThreads
    /\ pc[t] \in RecvPcs => t \in RecvThreads
    /\ pc[t] \in TrySendPcs => t \in TrySendThreads
    /\ pc[t] \in TryRecvPcs => t \in TryRecvThreads

\* Queued elements come from senders.
FromSenders == \A i \in 1..Len(m_queue) : m_queue[i].from \in Senders

\* On a synchronous channel the queued element belongs to the send that awaits
\* its acknowledgement, whose thread cannot be receiving, or to a select.
SyncOwner ==
  N = 0 /\ m_queue # <<>>
    => \/ pc[m_queue[1].from] \in AckPcs
       \/ m_queue[1].from \in TrySendThreads

\* The flags of is_try_ready() are set inside selects only.
TryFlags ==
  /\ TrySendThreads = {} => ~m_is_try_send_ready
  /\ TryRecvThreads = {} => ~m_is_try_recv_ready

AssertInv == Roles /\ FromSenders /\ SyncOwner /\ TryFlags /\ NoAbort

LEMMA AssertInvInit == Init => AssertInv
BY ChannelAssumption
  DEF Init, AssertInv, Roles, FromSenders, SyncOwner, TryFlags, NoAbort,
    SendPcs, AckPcs, RecvPcs, TrySendPcs, TryRecvPcs

\* Queued elements name threads.
LEMMA QueueFacts ==
  ASSUME m_queue \in Seq(Message)
  PROVE  /\ \A i \in 1..Len(m_queue) : m_queue[i].from \in Threads
         /\ m_queue # <<>> => 1 \in 1..Len(m_queue) /\ Head(m_queue) = m_queue[1]
<1>1. \A i \in 1..Len(m_queue) : m_queue[i] \in Message
  OBVIOUS
<1> QED
  BY <1>1 DEF Message

\* What an enqueue or a pop does to the owners of the queued elements.
LEMMA EnqueueOwners ==
  ASSUME MutexInv, QueueBound, FromSenders, NEW t \in Senders \cap Threads,
         Enqueue(t), ~is_full
  PROVE  /\ FromSenders'
         /\ N = 0 => m_queue'[1].from = t
<1>1. /\ Len(m_queue') = Len(m_queue) + 1 /\ Len(m_queue) \in Nat
      /\ \A i \in 1..Len(m_queue) : m_queue'[i] = m_queue[i]
      /\ m_queue'[Len(m_queue) + 1].from = t
  BY EnqueueFacts DEF MutexInv, TypeOK
<1>2. FromSenders'
  BY <1>1 DEF FromSenders
<1>3. N = 0 => m_queue'[1].from = t
  BY <1>1, ChannelAssumption DEF is_full
<1> QED
  BY <1>2, <1>3

LEMMA PopOwners ==
  ASSUME MutexInv, QueueBound, FromSenders, m_queue # <<>>,
         m_queue' = Tail(m_queue)
  PROVE  /\ FromSenders'
         /\ N = 0 => m_queue' = <<>>
<1>1. /\ Len(m_queue') = Len(m_queue) - 1 /\ Len(m_queue) \in Nat \ {0}
      /\ m_queue' \in Seq(Message)
      /\ \A i \in 1..Len(m_queue') : m_queue'[i] = m_queue[i + 1]
  BY TailFacts DEF MutexInv, TypeOK
<1>2. FromSenders'
  BY <1>1 DEF FromSenders
<1>3. N = 0 => Len(m_queue') = 0
  BY <1>1 DEF QueueBound
<1> QED
  BY <1>1, <1>2, <1>3

\* A quiet step leaves every thread inside its role.
LEMMA QuietRoles ==
  ASSUME pc \in [Threads -> Pcs], Roles, NEW t \in Threads, Quiet(t)
  PROVE  Roles' /\ UNCHANGED failed
<1> USE Labels DEF Roles, SendPcs, AckPcs, RecvPcs, TrySendPcs, TryRecvPcs, local
<1>1. CASE Calls(t)
  BY <1>1, CallPc DEF Calls, CallSend, CallRecv, CallTrySend, CallTryRecv
<1>2. CASE Locks(t)
  BY <1>2, LockPc DEF Locks, SendLock, AckLock, RecvLock, RecvRelock
<1>3. CASE TryLocks(t)
  BY <1>3, TryLocksPc DEF Tried
<1>4. CASE SpuriousWakeup(t)
  BY <1>4, WakeupPc
<1>5. CASE SendNotify(t)
  BY <1>5, SendNotifyMoves DEF Moved
<1>6. CASE NotifyBegin(t)
  BY <1>6, NotifyBeginMoves DEF Moved
<1>7. CASE NotifyEnd(t)
  BY <1>7, NotifyEndMoves DEF Moved
<1>8. CASE TrySendNotify(t)
  BY <1>8, TrySendNotifyMoves DEF Moved
<1> QED
  BY <1>1, <1>2, <1>3, <1>4, <1>5, <1>6, <1>7, <1>8 DEF Quiet

\* The front of a full queue belongs to another thread than the one that
\* receives it: roles are disjoint, or the owner still awaits its
\* acknowledgement or never receives.
LEMMA NotOwnItem ==
  ASSUME MutexInv, AssertInv, Supported, NEW t \in Threads, m_queue # <<>>,
         pc[t] \in RecvPcs \cup TryRecvPcs
  PROVE  ~OwnItem(t)
<1> USE DEF AssertInv
<1>1. m_queue \in Seq(Message)
  BY DEF MutexInv, TypeOK
<1>2. m_queue[1].from \in Senders /\ Head(m_queue) = m_queue[1]
  BY <1>1, QueueFacts DEF FromSenders
<1>3. t \in Receivers
  BY DEF Roles, Receivers
<1>4. CASE Senders \cap Receivers = {}
  BY <1>2, <1>3, <1>4 DEF OwnItem
<1>5. CASE N = 0 /\ TrySendThreads \cap Receivers = {}
  <2>1. \/ pc[m_queue[1].from] \in AckPcs
        \/ m_queue[1].from \notin Receivers
    BY <1>5 DEF SyncOwner
  <2> QED
    BY <1>2, <1>3, <2>1 DEF OwnItem, AckPcs, RecvPcs, TryRecvPcs
<1> QED
  BY <1>4, <1>5 DEF Supported

LEMMA AssertInvStep ==
  MutexInv /\ HandInv /\ AssertInv /\ [Next]_vars => AssertInv'
<1> SUFFICES ASSUME MutexInv, HandInv, AssertInv, [Next]_vars
             PROVE  AssertInv'
  OBVIOUS
<1> USE ChannelAssumption DEF AssertInv
<1>0. /\ pc \in [Threads -> Pcs] /\ m_queue \in Seq(Message)
      /\ Len(m_queue) \in Nat
      /\ \A i \in 1..Len(m_queue) : m_queue[i].from \in Threads
      /\ m_queue # <<>> => 1 \in 1..Len(m_queue)
  BY QueueFacts DEF MutexInv, TypeOK
<1>1. CASE UNCHANGED vars
  BY <1>1 DEF vars, queue, flags, local, Roles, FromSenders, SyncOwner,
    TryFlags, NoAbort
<1>2. ASSUME NEW t \in Threads, Quiet(t) PROVE AssertInv'
  <2>1. /\ UNCHANGED <<queue, flags>>
        /\ \A u \in Threads : pc'[u] \in AckPcs <=> pc[u] \in AckPcs
    BY <1>0, <1>2, QuietAck
  <2>2. Roles' /\ UNCHANGED failed
    BY <1>0, <1>2, QuietRoles
  <2>3. SyncOwner'
    BY <1>0, <2>1 DEF queue, SyncOwner
  <2> QED
    BY <2>1, <2>2, <2>3 DEF queue, flags, FromSenders, TryFlags, NoAbort
<1>3. ASSUME NEW t \in Threads, SendEnter(t) PROVE AssertInv'
  <2> USE <1>0, <1>3 DEF SendEnter, Unlock, Abort, queue, flags, local
  <2>1. Roles'
    BY GotoPc, Labels DEF Roles, SendPcs, AckPcs, RecvPcs, TrySendPcs, TryRecvPcs
  <2>2. pc' \in [Threads -> Pcs] /\ \A u \in Threads : u # t => pc'[u] = pc[u]
    BY GotoPc, Labels
  <2>3. t \in Senders
    BY DEF Roles, Senders, SendPcs, TrySendPcs
  <2>4. m_queue' = m_queue \/ (Enqueue(t) /\ ~is_full)
    BY DEF MaySend
  <2>5. FromSenders' /\ SyncOwner'
    <3>1. CASE m_queue' = m_queue
      BY <2>2, <3>1, GotoPc, Labels DEF FromSenders, SyncOwner, AckPcs
    <3>2. CASE Enqueue(t) /\ ~is_full
      <4>1. FromSenders' /\ (N = 0 => m_queue'[1].from = t)
        BY <2>3, <3>2, EnqueueOwners DEF HandInv
      <4>2. m_queue' # m_queue
        BY <3>2, EnqueueFacts DEF MutexInv, TypeOK
      <4>3. Goto(t, "send_notify")
        BY <4>2
      <4>4. pc'[t] \in AckPcs
        BY <4>3, GotoPc, Labels DEF AckPcs
      <4> QED
        BY <4>1, <4>4 DEF SyncOwner
    <3> QED
      BY <2>4, <3>1, <3>2
  <2>6. TryFlags'
    BY DEF TryFlags, Roles, TrySendPcs
  <2>7. NoAbort'
    BY DEF NoAbort, Supported, TryFlags, is_try_ready, Roles, TrySendPcs, MaySend, is_full, HandInv, QueueBound
  <2> QED
    BY <2>1, <2>5, <2>6, <2>7
<1>4. ASSUME NEW t \in Threads, AckEnter(t) PROVE AssertInv'
  <2> USE <1>0, <1>4 DEF AckEnter, Acknowledged, Unlock, queue, flags, local
  <2>1. Roles'
    BY GotoPc, Labels DEF Roles, SendPcs, AckPcs, RecvPcs, TrySendPcs, TryRecvPcs
  <2>2. m_queue' = m_queue
    OBVIOUS
  <2>3. SyncOwner'
    <3>1. is_full => \A u \in Threads : pc[u] \in AckPcs => pc'[u] \in AckPcs
      BY GotoPc, Labels DEF AckPcs
    <3>2. N = 0 /\ m_queue # <<>> => is_full
      BY DEF is_full
    <3> QED
      BY <2>2, <3>1, <3>2 DEF SyncOwner
  <2>4. FromSenders'
    BY <2>2 DEF FromSenders
  <2>5. TryFlags'
    BY DEF TryFlags, Roles, TryRecvPcs
  <2>6. NoAbort'
    BY DEF NoAbort
  <2> QED
    BY <2>1, <2>3, <2>4, <2>5, <2>6
<1>5. ASSUME NEW t \in Threads, RecvFront(t) PROVE AssertInv'
  <2> USE <1>0, <1>5 DEF RecvFront, Unlock, Abort, Announce, MoveFront, queue, flags, local
  <2>1. Roles'
    BY GotoPc, Labels DEF Roles, SendPcs, AckPcs, RecvPcs, TrySendPcs, TryRecvPcs
  <2>2. m_queue' = m_queue
    OBVIOUS
  <2>3. SyncOwner'
    <3>1. \A u \in Threads : pc[u] \in AckPcs => pc'[u] \in AckPcs
      BY GotoPc, Labels DEF AckPcs
    <3> QED
      BY <2>2, <3>1 DEF SyncOwner
  <2>4. FromSenders'
    BY <2>2 DEF FromSenders
  <2>5. TryFlags'
    BY DEF TryFlags, Roles, TryRecvPcs
  <2>6. NoAbort'
    BY NotOwnItem DEF NoAbort, Supported, TryFlags, is_try_ready, RecvPcs
  <2> QED
    BY <2>1, <2>3, <2>4, <2>5, <2>6
<1>6. ASSUME NEW t \in Threads, RecvPost(t) PROVE AssertInv'
  <2> USE <1>0, <1>6 DEF RecvPost, Abort, Pop, ResetHandshake, PopNotifies, Unlock, queue, flags, local
  <2>1. Roles'
    BY GotoPc, Labels DEF Roles, SendPcs, AckPcs, RecvPcs, TrySendPcs, TryRecvPcs
  <2>2. m_queue # <<>>
    BY DEF MutexInv, PostHasFront
  <2>3. m_queue' = m_queue \/ m_queue' = Tail(m_queue)
    OBVIOUS
  <2>4. FromSenders' /\ SyncOwner'
    <3>1. CASE m_queue' = m_queue
      <4>1. \A u \in Threads : pc[u] \in AckPcs => pc'[u] \in AckPcs
        BY GotoPc, Labels DEF AckPcs
      <4> QED
        BY <3>1, <4>1 DEF FromSenders, SyncOwner
    <3>2. CASE m_queue' = Tail(m_queue)
      BY <2>2, <3>2, PopOwners DEF HandInv, SyncOwner
    <3> QED
      BY <2>3, <3>1, <3>2
  <2>5. TryFlags'
    BY DEF TryFlags
  <2>6. NoAbort'
    BY DEF NoAbort, HandInv, QueueBound
  <2> QED
    BY <2>1, <2>4, <2>5, <2>6
<1>7. ASSUME NEW t \in Threads, RecvThrow(t) PROVE AssertInv'
  <2> USE <1>0, <1>7 DEF RecvThrow, Unlock, queue, flags, local
  <2>1. Roles'
    BY GotoPc, Labels DEF Roles, SendPcs, AckPcs, RecvPcs, TrySendPcs, TryRecvPcs
  <2>2. m_queue' = m_queue
    OBVIOUS
  <2>3. SyncOwner'
    <3>1. \A u \in Threads : pc[u] \in AckPcs => pc'[u] \in AckPcs
      BY GotoPc, Labels DEF AckPcs
    <3> QED
      BY <2>2, <3>1 DEF SyncOwner
  <2>4. FromSenders'
    BY <2>2 DEF FromSenders
  <2>5. TryFlags'
    BY DEF TryFlags, Roles, TryRecvPcs
  <2>6. NoAbort'
    BY DEF NoAbort
  <2> QED
    BY <2>1, <2>3, <2>4, <2>5, <2>6
<1>8. ASSUME NEW t \in Threads, TrySendEnter(t) PROVE AssertInv'
  <2> USE <1>0, <1>8 DEF TrySendEnter, Abort, AttemptFailed, Unlock, CannotOffer, queue, flags, local
  <2>1. Roles'
    BY GotoPc, Labels DEF Roles, SendPcs, AckPcs, RecvPcs, TrySendPcs, TryRecvPcs
  <2>2. pc' \in [Threads -> Pcs] /\ \A u \in Threads : u # t => pc'[u] = pc[u]
    BY GotoPc, Labels
  <2>3. t \in Senders
    BY DEF Roles, Senders, SendPcs, TrySendPcs
  <2>4. m_queue' = m_queue \/ (Enqueue(t) /\ ~is_full)
    BY DEF MaySend
  <2>5. FromSenders' /\ SyncOwner'
    <3>1. CASE m_queue' = m_queue
      BY <2>2, <3>1, GotoPc, Labels DEF FromSenders, SyncOwner, AckPcs
    <3>2. CASE Enqueue(t) /\ ~is_full
      <4>1. FromSenders' /\ (N = 0 => m_queue'[1].from = t)
        BY <2>3, <3>2, EnqueueOwners DEF HandInv
      <4>2. t \in TrySendThreads
        BY DEF Roles, TrySendPcs
      <4> QED
        BY <4>1, <4>2 DEF SyncOwner
    <3> QED
      BY <2>4, <3>1, <3>2
  <2>6. TryFlags'
    BY DEF TryFlags, Roles, TrySendPcs
  <2>7. NoAbort'
    BY DEF NoAbort, Supported, TryFlags, is_try_ready, Roles, TrySendPcs, MaySend, is_full, HandInv, QueueBound
  <2> QED
    BY <2>1, <2>5, <2>6, <2>7
<1>9. ASSUME NEW t \in Threads, TryRecvEnter(t) PROVE AssertInv'
  <2> USE <1>0, <1>9 DEF TryRecvEnter, Abort, MoveFront, queue, flags, local
  <2>1. Roles'
    BY GotoPc, Labels DEF Roles, SendPcs, AckPcs, RecvPcs, TrySendPcs, TryRecvPcs
  <2>2. m_queue' = m_queue
    OBVIOUS
  <2>3. SyncOwner'
    <3>1. \A u \in Threads : pc[u] \in AckPcs => pc'[u] \in AckPcs
      BY GotoPc, Labels DEF AckPcs
    <3> QED
      BY <2>2, <3>1 DEF SyncOwner
  <2>4. FromSenders'
    BY <2>2 DEF FromSenders
  <2>5. TryFlags'
    BY DEF TryFlags, Roles, TryRecvPcs
  <2>6. NoAbort'
    BY NotOwnItem DEF NoAbort, HandInv, QueueBound, TryRecvPcs
  <2> QED
    BY <2>1, <2>3, <2>4, <2>5, <2>6
<1>10. ASSUME NEW t \in Threads, TryRecvFalse(t) PROVE AssertInv'
  <2> USE <1>0, <1>10 DEF TryRecvFalse, AttemptFailed, Unlock, queue, flags, local
  <2>1. Roles'
    BY GotoPc, Labels DEF Roles, SendPcs, AckPcs, RecvPcs, TrySendPcs, TryRecvPcs
  <2>2. m_queue' = m_queue
    OBVIOUS
  <2>3. SyncOwner'
    <3>1. \A u \in Threads : pc[u] \in AckPcs => pc'[u] \in AckPcs
      BY GotoPc, Labels DEF AckPcs
    <3> QED
      BY <2>2, <3>1 DEF SyncOwner
  <2>4. FromSenders'
    BY <2>2 DEF FromSenders
  <2>5. TryFlags'
    BY DEF TryFlags, Roles, TryRecvPcs
  <2>6. NoAbort'
    BY DEF NoAbort
  <2> QED
    BY <2>1, <2>3, <2>4, <2>5, <2>6
<1>11. ASSUME NEW t \in Threads, TryRecvPost(t) PROVE AssertInv'
  <2> USE <1>0, <1>11 DEF TryRecvPost, Abort, Pop, ResetHandshake, PopNotifies, Unlock, queue, flags, local
  <2>1. Roles'
    BY GotoPc, Labels DEF Roles, SendPcs, AckPcs, RecvPcs, TrySendPcs, TryRecvPcs
  <2>2. m_queue # <<>>
    BY DEF MutexInv, PostHasFront
  <2>3. m_queue' = m_queue \/ m_queue' = Tail(m_queue)
    OBVIOUS
  <2>4. FromSenders' /\ SyncOwner'
    <3>1. CASE m_queue' = m_queue
      <4>1. \A u \in Threads : pc[u] \in AckPcs => pc'[u] \in AckPcs
        BY GotoPc, Labels DEF AckPcs
      <4> QED
        BY <3>1, <4>1 DEF FromSenders, SyncOwner
    <3>2. CASE m_queue' = Tail(m_queue)
      BY <2>2, <3>2, PopOwners DEF HandInv, SyncOwner
    <3> QED
      BY <2>3, <3>1, <3>2
  <2>5. TryFlags'
    BY DEF TryFlags
  <2>6. NoAbort'
    BY DEF NoAbort, HandInv, QueueBound
  <2> QED
    BY <2>1, <2>4, <2>5, <2>6
<1>12. ASSUME NEW t \in Threads, SendThrow(t) PROVE AssertInv'
  <2> USE <1>0, <1>12 DEF SendThrow, Unlock, queue, flags, local
  <2>1. Roles'
    BY GotoPc, Labels DEF Roles, SendPcs, AckPcs, RecvPcs, TrySendPcs, TryRecvPcs
  <2>2. m_queue' = m_queue
    OBVIOUS
  <2>3. SyncOwner'
    <3>1. \A u \in Threads : pc[u] \in AckPcs => pc'[u] \in AckPcs
      BY GotoPc, Labels DEF AckPcs
    <3> QED
      BY <2>2, <3>1 DEF SyncOwner
  <2>4. FromSenders'
    BY <2>2 DEF FromSenders
  <2>5. TryFlags'
    BY DEF TryFlags, Roles, TrySendPcs
  <2>6. NoAbort'
    BY DEF NoAbort
  <2> QED
    BY <2>1, <2>3, <2>4, <2>5, <2>6
<1>13. ASSUME NEW t \in Threads, TrySendThrow(t) PROVE AssertInv'
  <2> USE <1>0, <1>13 DEF TrySendThrow, Unlock, queue, flags, local
  <2>1. Roles'
    BY GotoPc, Labels DEF Roles, SendPcs, AckPcs, RecvPcs, TrySendPcs, TryRecvPcs
  <2>2. m_queue' = m_queue
    OBVIOUS
  <2>3. SyncOwner'
    <3>1. \A u \in Threads : pc[u] \in AckPcs => pc'[u] \in AckPcs
      BY GotoPc, Labels DEF AckPcs
    <3> QED
      BY <2>2, <3>1 DEF SyncOwner
  <2>4. FromSenders'
    BY <2>2 DEF FromSenders
  <2>5. TryFlags'
    BY DEF TryFlags, Roles, TrySendPcs
  <2>6. NoAbort'
    BY DEF NoAbort
  <2> QED
    BY <2>1, <2>3, <2>4, <2>5, <2>6
<1>14. ASSUME NEW t \in Threads, ValueLost(t) PROVE AssertInv'
  BY <1>14 DEF ValueLost, queue, flags, Roles, FromSenders, SyncOwner, TryFlags,
    NoAbort
<1> QED
  BY <1>1, <1>2, <1>3, <1>4, <1>5, <1>6, <1>7, <1>8, <1>9, <1>10, <1>11, <1>12,
    <1>13, <1>14, StepCases DEF Section

LEMMA AssertCorrect == Spec => [](MutexInv /\ HandInv /\ AssertInv)
<1>1. Init => MutexInv /\ HandInv /\ AssertInv
  BY MutexInvInit, HandInvInit, AssertInvInit
<1>2. (MutexInv /\ HandInv /\ AssertInv) /\ [Next]_vars
        => (MutexInv /\ HandInv /\ AssertInv)'
  BY MutexInvStep, HandInvStep, AssertInvStep
<1> QED
  BY <1>1, <1>2, PTL DEF Spec

\* No assertion of the class fails in a supported use, for any number of
\* threads and calls and any buffer size.
THEOREM AssertionsHold == Spec => []NoAbort
<1>1. AssertInv => NoAbort
  BY DEF AssertInv
<1> QED
  BY <1>1, AssertCorrect, PTL
=============================================================================
