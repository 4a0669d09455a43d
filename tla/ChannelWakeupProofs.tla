------------------------ MODULE ChannelWakeupProofs ------------------------
(***************************************************************************)
(* No wakeup of Channel is lost: the notifications of the three condition  *)
(* variables, each sent after the lock was released, reach a thread        *)
(* whenever one sleeps although its predicate holds.                       *)
(***************************************************************************)
EXTENDS ChannelSafetyProofs, FiniteSetTheorems

-----------------------------------------------------------------------------
(* Senders: m_send_begin_cv and m_send_end_cv.                             *)

\* A send whose value throws spends the notification that woke it, so the
\* first half is about values that do not throw on the way into the queue.
WakeInv == (SendThrowThreads = {} => NoLostSlot) /\ NoLostAck

LEMMA WakeInvInit == Init => WakeInv
BY ChannelAssumption DEF Init, WakeInv, NoLostSlot, NoLostAck

\* A quiet step hands a pending wakeup on, and puts nobody to sleep.
LEMMA QuietWakeups ==
  ASSUME MutexInv, HandInv, WakeInv, NEW t \in Threads, Quiet(t)
  PROVE  WakeInv'
<1>0. pc \in [Threads -> Pcs]
  BY DEF MutexInv, TypeOK
<1>1. UNCHANGED <<queue, flags>>
  BY <1>0, QuietAck
<1>2. MaySend' = MaySend /\ is_full' = is_full
  BY <1>1 DEF queue, flags, MaySend, is_full
<1> USE <1>0, <1>2, Labels DEF WakeInv, NoLostSlot, NoLostAck
<1>3. CASE Calls(t)
  BY <1>3, CallPc DEF Calls, CallSend, CallRecv, CallTrySend, CallTryRecv
<1>4. CASE Locks(t)
  BY <1>4, LockPc DEF Locks, SendLock, AckLock, RecvLock, RecvRelock
<1>5. CASE TryLocks(t)
  BY <1>5, TryLocksPc DEF Tried
<1>6. CASE SpuriousWakeup(t)
  BY <1>6, WakeupPc
<1>7. CASE SendNotify(t)
  <2>1. \A u \in Threads : \/ pc'[u] = pc[u]
                           \/ pc[u] = "send_notify" /\ pc'[u] = "ack_lock"
                           \/ pc[u] = "recv_wait" /\ pc'[u] = "recv_relock"
    BY <1>7, SendNotifyMoves DEF Moved
  <2> QED
    BY <2>1
<1>8. CASE TrySendNotify(t)
  <2>1. \A u \in Threads : \/ pc'[u] = pc[u]
                           \/ pc[u] = "try_send_notify" /\ pc'[u] = "idle"
                           \/ pc[u] = "recv_wait" /\ pc'[u] = "recv_relock"
    BY <1>8, TrySendNotifyMoves DEF Moved
  <2> QED
    BY <2>1
<1>9. CASE NotifyBegin(t)
  <2>0. pc[t] = "notify_begin" /\ pc'[t] = "idle"
    BY <1>9, NotifyBeginMoves DEF Moved
  <2>1. \/ \A u \in Threads : pc[u] # "send_begin_wait"
        \/ \E v \in Threads : pc[v] = "send_begin_wait" /\ pc'[v] = "send_lock"
    BY <1>9, NotifyBeginMoves DEF Moved
  <2>2. \A u \in Threads : \/ u = t
                           \/ pc'[u] = pc[u]
                           \/ pc[u] = "send_begin_wait" /\ pc'[u] = "send_lock"
    BY <1>9, NotifyBeginMoves DEF Moved
  <2> QED
    BY <2>0, <2>1, <2>2
<1>10. CASE NotifyEnd(t)
  <2>0. pc[t] = "notify_end" /\ pc'[t] = "idle"
    BY <1>10, NotifyEndMoves DEF Moved
  <2>1. \/ \A u \in Threads : pc[u] # "send_end_wait"
        \/ \E v \in Threads : pc[v] = "send_end_wait" /\ pc'[v] = "ack_lock"
    BY <1>10, NotifyEndMoves DEF Moved
  <2>2. \A u \in Threads : \/ u = t
                           \/ pc'[u] = pc[u]
                           \/ pc[u] = "send_end_wait" /\ pc'[u] = "ack_lock"
    BY <1>10, NotifyEndMoves DEF Moved
  <2>3. \A u, v \in Threads :
          pc[u] = "send_end_wait" /\ pc[v] = "send_end_wait" => u = v
    BY DEF HandInv, OneHandshake, AckPcs
  <2> QED
    BY <2>0, <2>1, <2>2, <2>3
<1> QED
  BY <1>3, <1>4, <1>5, <1>6, <1>7, <1>8, <1>9, <1>10 DEF Quiet

LEMMA WakeInvStep ==
  MutexInv /\ HandInv /\ WakeInv /\ [Next]_vars => WakeInv'
<1> SUFFICES ASSUME MutexInv, HandInv, WakeInv, [Next]_vars PROVE WakeInv'
  OBVIOUS
<1>0. /\ pc \in [Threads -> Pcs] /\ m_queue \in Seq(Message)
      /\ Len(m_queue) \in Nat /\ N \in Nat
  BY ChannelAssumption DEF MutexInv, TypeOK
<1>1. CASE UNCHANGED vars
  BY <1>1 DEF vars, queue, flags, WakeInv, NoLostSlot, NoLostAck, MaySend, is_full
<1>2. ASSUME NEW t \in Threads, Quiet(t) PROVE WakeInv'
  BY <1>2, QuietWakeups
<1>3. ASSUME NEW t \in Threads, SendEnter(t) PROVE WakeInv'
  <2> USE <1>0, <1>3 DEF SendEnter, Unlock, Abort, queue, flags, local
  <2>1. /\ pc' \in [Threads -> Pcs]
        /\ \A u \in Threads : u # t => pc'[u] = pc[u]
    BY GotoPc, Labels
  <2>2. m_queue' = m_queue \/ Len(m_queue') = Len(m_queue) + 1
    BY EnqueueFacts DEF MutexInv, TypeOK
  <2>3. SendThrowThreads = {} => NoLostSlot'
    BY <2>1, <2>2, GotoPc, Labels DEF WakeInv, NoLostSlot, MaySend, is_full
  <2>4. NoLostAck'
    BY <2>1, <2>2, GotoPc, Labels DEF WakeInv, NoLostAck, is_full, MaySend, HandInv, OneHandshake, AckPcs
  <2> QED
    BY <2>3, <2>4 DEF WakeInv
<1>4. ASSUME NEW t \in Threads, AckEnter(t) PROVE WakeInv'
  <2> USE <1>0, <1>4 DEF AckEnter, Acknowledged, Unlock, queue, flags, local
  <2>1. /\ pc' \in [Threads -> Pcs]
        /\ \A u \in Threads : u # t => pc'[u] = pc[u]
    BY GotoPc, Labels
  <2>2. m_queue' = m_queue
    OBVIOUS
  <2>3. SendThrowThreads = {} => NoLostSlot'
    BY <2>1, <2>2, GotoPc, Labels DEF WakeInv, NoLostSlot, MaySend, is_full
  <2>4. NoLostAck'
    BY <2>1, <2>2, GotoPc, Labels DEF WakeInv, NoLostAck, is_full, MaySend
  <2> QED
    BY <2>3, <2>4 DEF WakeInv
<1>5. ASSUME NEW t \in Threads, RecvFront(t) PROVE WakeInv'
  <2> USE <1>0, <1>5 DEF RecvFront, Unlock, Abort, Announce, MoveFront, queue, flags, local
  <2>1. /\ pc' \in [Threads -> Pcs]
        /\ \A u \in Threads : u # t => pc'[u] = pc[u]
    BY GotoPc, Labels
  <2>2. m_queue' = m_queue
    OBVIOUS
  <2>3. SendThrowThreads = {} => NoLostSlot'
    BY <2>1, <2>2, GotoPc, Labels DEF WakeInv, NoLostSlot, MaySend, is_full
  <2>4. NoLostAck'
    BY <2>1, <2>2, GotoPc, Labels DEF WakeInv, NoLostAck, is_full, MaySend
  <2> QED
    BY <2>3, <2>4 DEF WakeInv
<1>6. ASSUME NEW t \in Threads, RecvPost(t) PROVE WakeInv'
  <2> USE <1>0, <1>6 DEF RecvPost, Abort, Pop, ResetHandshake, PopNotifies, Unlock, queue, flags, local
  <2>1. /\ pc' \in [Threads -> Pcs]
        /\ \A u \in Threads : u # t => pc'[u] = pc[u]
    BY GotoPc, Labels
  <2>2. m_queue # <<>>
    BY DEF MutexInv, PostHasFront
  <2>3. SendThrowThreads = {} => NoLostSlot'
    BY <2>1, <2>2, GotoPc, Labels DEF WakeInv, NoLostSlot, MaySend, is_full
  <2>4. NoLostAck'
    BY <2>1, <2>2, GotoPc, Labels DEF WakeInv, NoLostAck, is_full, MaySend, HandInv, OneHandshake, AckPcs
  <2> QED
    BY <2>3, <2>4 DEF WakeInv
<1>7. ASSUME NEW t \in Threads, RecvThrow(t) PROVE WakeInv'
  <2> USE <1>0, <1>7 DEF RecvThrow, Unlock, queue, flags, local
  <2>1. /\ pc' \in [Threads -> Pcs]
        /\ \A u \in Threads : u # t => pc'[u] = pc[u]
    BY GotoPc, Labels
  <2>2. m_queue' = m_queue
    OBVIOUS
  <2>3. SendThrowThreads = {} => NoLostSlot'
    BY <2>1, <2>2, GotoPc, Labels DEF WakeInv, NoLostSlot, MaySend, is_full
  <2>4. NoLostAck'
    BY <2>1, <2>2, GotoPc, Labels DEF WakeInv, NoLostAck, is_full, MaySend
  <2> QED
    BY <2>3, <2>4 DEF WakeInv
<1>8. ASSUME NEW t \in Threads, TrySendEnter(t) PROVE WakeInv'
  <2> USE <1>0, <1>8 DEF TrySendEnter, Abort, AttemptFailed, Unlock, CannotOffer, queue, flags, local
  <2>1. /\ pc' \in [Threads -> Pcs]
        /\ \A u \in Threads : u # t => pc'[u] = pc[u]
    BY GotoPc, Labels
  <2>2. m_queue' = m_queue \/ Len(m_queue') = Len(m_queue) + 1
    BY EnqueueFacts DEF MutexInv, TypeOK
  <2>3. SendThrowThreads = {} => NoLostSlot'
    BY <2>1, <2>2, GotoPc, Labels DEF WakeInv, NoLostSlot, MaySend, is_full
  <2>4. NoLostAck'
    BY <2>1, <2>2, GotoPc, Labels DEF WakeInv, NoLostAck, is_full, MaySend, HandInv, OneHandshake, AckPcs
  <2> QED
    BY <2>3, <2>4 DEF WakeInv
<1>9. ASSUME NEW t \in Threads, TryRecvEnter(t) PROVE WakeInv'
  <2> USE <1>0, <1>9 DEF TryRecvEnter, Abort, MoveFront, queue, flags, local
  <2>1. /\ pc' \in [Threads -> Pcs]
        /\ \A u \in Threads : u # t => pc'[u] = pc[u]
    BY GotoPc, Labels
  <2>2. m_queue' = m_queue
    OBVIOUS
  <2>3. SendThrowThreads = {} => NoLostSlot'
    BY <2>1, <2>2, GotoPc, Labels DEF WakeInv, NoLostSlot, MaySend, is_full
  <2>4. NoLostAck'
    BY <2>1, <2>2, GotoPc, Labels DEF WakeInv, NoLostAck, is_full, MaySend
  <2> QED
    BY <2>3, <2>4 DEF WakeInv
<1>10. ASSUME NEW t \in Threads, TryRecvFalse(t) PROVE WakeInv'
  <2> USE <1>0, <1>10 DEF TryRecvFalse, AttemptFailed, Unlock, queue, flags, local
  <2>1. /\ pc' \in [Threads -> Pcs]
        /\ \A u \in Threads : u # t => pc'[u] = pc[u]
    BY GotoPc, Labels
  <2>2. m_queue' = m_queue
    OBVIOUS
  <2>3. SendThrowThreads = {} => NoLostSlot'
    BY <2>1, <2>2, GotoPc, Labels DEF WakeInv, NoLostSlot, MaySend, is_full
  <2>4. NoLostAck'
    BY <2>1, <2>2, GotoPc, Labels DEF WakeInv, NoLostAck, is_full, MaySend
  <2> QED
    BY <2>3, <2>4 DEF WakeInv
<1>11. ASSUME NEW t \in Threads, TryRecvPost(t) PROVE WakeInv'
  <2> USE <1>0, <1>11 DEF TryRecvPost, Abort, Pop, ResetHandshake, PopNotifies, Unlock, queue, flags, local
  <2>1. /\ pc' \in [Threads -> Pcs]
        /\ \A u \in Threads : u # t => pc'[u] = pc[u]
    BY GotoPc, Labels
  <2>2. m_queue # <<>>
    BY DEF MutexInv, PostHasFront
  <2>3. SendThrowThreads = {} => NoLostSlot'
    BY <2>1, <2>2, GotoPc, Labels DEF WakeInv, NoLostSlot, MaySend, is_full
  <2>4. NoLostAck'
    BY <2>1, <2>2, GotoPc, Labels DEF WakeInv, NoLostAck, is_full, MaySend, HandInv, OneHandshake, AckPcs
  <2> QED
    BY <2>3, <2>4 DEF WakeInv
<1>12. ASSUME NEW t \in Threads, SendThrow(t) PROVE WakeInv'
  <2> USE <1>0, <1>12 DEF SendThrow, Unlock, queue, flags, local
  <2>1. /\ pc' \in [Threads -> Pcs]
        /\ \A u \in Threads : u # t => pc'[u] = pc[u]
    BY GotoPc, Labels
  <2>2. m_queue' = m_queue /\ SendThrowThreads # {}
    OBVIOUS
  <2>3. NoLostAck'
    BY <2>1, <2>2, GotoPc, Labels DEF WakeInv, NoLostAck, is_full
  <2> QED
    BY <2>2, <2>3 DEF WakeInv
<1>13. ASSUME NEW t \in Threads, TrySendThrow(t) PROVE WakeInv'
  <2> USE <1>0, <1>13 DEF TrySendThrow, Unlock, queue, flags, local
  <2>1. /\ pc' \in [Threads -> Pcs]
        /\ \A u \in Threads : u # t => pc'[u] = pc[u]
    BY GotoPc, Labels
  <2>2. m_queue' = m_queue /\ SendThrowThreads # {}
    OBVIOUS
  <2>3. NoLostAck'
    BY <2>1, <2>2, GotoPc, Labels DEF WakeInv, NoLostAck, is_full
  <2> QED
    BY <2>2, <2>3 DEF WakeInv
<1>14. ASSUME NEW t \in Threads, ValueLost(t) PROVE WakeInv'
  BY <1>14 DEF ValueLost, queue, flags, WakeInv, NoLostSlot, NoLostAck, MaySend,
    is_full
<1> QED
  BY <1>1, <1>2, <1>3, <1>4, <1>5, <1>6, <1>7, <1>8, <1>9, <1>10, <1>11, <1>12,
    <1>13, <1>14, StepCases DEF Section

LEMMA WakeCorrect == Spec => [](MutexInv /\ HandInv /\ WakeInv)
<1>1. Init => MutexInv /\ HandInv /\ WakeInv
  BY MutexInvInit, HandInvInit, WakeInvInit
<1>2. (MutexInv /\ HandInv /\ WakeInv) /\ [Next]_vars
        => (MutexInv /\ HandInv /\ WakeInv)'
  BY MutexInvStep, HandInvStep, WakeInvStep
<1> QED
  BY <1>1, <1>2, PTL DEF Spec

\* When no value throws on its way into the queue, a sender never sleeps on
\* m_send_begin_cv with its predicate true and nobody about to wake it or to
\* take the place.
THEOREM SlotWakeups == SendThrowThreads = {} => (Spec => []NoLostSlot)
<1> SUFFICES ASSUME SendThrowThreads = {} PROVE Spec => []NoLostSlot
  OBVIOUS
<1>1. WakeInv => NoLostSlot
  BY DEF WakeInv
<1> QED
  BY <1>1, WakeCorrect, PTL

\* A sender never sleeps on m_send_end_cv with its predicate true and nobody
\* about to wake it.
THEOREM AckWakeups == Spec => []NoLostAck
<1>1. WakeInv => NoLostAck
  BY DEF WakeInv
<1> QED
  BY <1>1, WakeCorrect, PTL

-----------------------------------------------------------------------------
(* Receivers that a nonblocking send may count on.  An exception out of a  *)
(* receive leaves m_is_recv_ready set, so the theorems of this section and *)
(* of the next are about receives that do not throw.                       *)

LEMMA OfferInit == Init => OfferHasReceiver
BY DEF Init, OfferHasReceiver

LEMMA OfferStep ==
  ThrowThreads = {} /\ MutexInv /\ OfferHasReceiver /\ [Next]_vars
    => OfferHasReceiver'
<1> SUFFICES ASSUME ThrowThreads = {}, MutexInv, OfferHasReceiver, [Next]_vars
             PROVE  OfferHasReceiver'
  OBVIOUS
<1>0. /\ pc \in [Threads -> Pcs] /\ m_queue \in Seq(Message)
      /\ Len(m_queue) \in Nat /\ N \in Nat
  BY ChannelAssumption DEF MutexInv, TypeOK
<1> USE <1>0, Labels DEF OfferHasReceiver, ReceiverFor
<1>1. CASE UNCHANGED vars
  BY <1>1 DEF vars, flags
<1>2. ASSUME NEW t \in Threads, Quiet(t) PROVE OfferHasReceiver'
  <2>1. UNCHANGED flags
    BY <1>2, QuietAck
  <2>2. \A u \in Threads : ReceiverFor(u) => ReceiverFor(u)'
    <3>1. CASE Calls(t)
      BY <3>1, CallPc DEF Calls, CallSend, CallRecv, CallTrySend, CallTryRecv
    <3>2. CASE Locks(t)
      BY <3>2, LockPc DEF Locks, SendLock, AckLock, RecvLock, RecvRelock
    <3>3. CASE TryLocks(t)
      BY <3>3, TryLocksPc DEF Tried
    <3>4. CASE SpuriousWakeup(t)
      BY <3>4, WakeupPc
    <3>5. CASE SendNotify(t)
      BY <3>5, SendNotifyMoves DEF Moved
    <3>6. CASE NotifyBegin(t)
      BY <3>6, NotifyBeginMoves DEF Moved
    <3>7. CASE NotifyEnd(t)
      BY <3>7, NotifyEndMoves DEF Moved
    <3>8. CASE TrySendNotify(t)
      BY <3>8, TrySendNotifyMoves DEF Moved
    <3> QED
      BY <1>2, <3>1, <3>2, <3>3, <3>4, <3>5, <3>6, <3>7, <3>8 DEF Quiet
  <2> QED
    BY <2>1, <2>2 DEF flags
<1>3. ASSUME NEW t \in Threads, SendEnter(t) PROVE OfferHasReceiver'
  <2>1. /\ pc' \in [Threads -> Pcs]
        /\ \A u \in Threads : u # t => pc'[u] = pc[u]
    BY <1>3, GotoPc DEF SendEnter, Unlock, Abort
  <2> QED
    BY <1>3, <2>1, GotoPc DEF SendEnter, Unlock, Abort, flags
<1>4. ASSUME NEW t \in Threads, AckEnter(t) PROVE OfferHasReceiver'
  <2>1. /\ pc' \in [Threads -> Pcs]
        /\ \A u \in Threads : u # t => pc'[u] = pc[u]
    BY <1>4, GotoPc DEF AckEnter, Acknowledged, Unlock
  <2> QED
    BY <1>4, <2>1, GotoPc DEF AckEnter, Acknowledged, Unlock, flags
<1>5. ASSUME NEW t \in Threads, RecvFront(t) PROVE OfferHasReceiver'
  <2>1. /\ pc' \in [Threads -> Pcs]
        /\ \A u \in Threads : u # t => pc'[u] = pc[u]
    BY <1>5, GotoPc DEF RecvFront, Unlock, Abort, Announce, MoveFront
  <2> QED
    BY <1>5, <2>1, GotoPc DEF RecvFront, Unlock, Abort, Announce, MoveFront, flags
<1>6. ASSUME NEW t \in Threads, RecvPost(t) PROVE OfferHasReceiver'
  <2>1. /\ pc' \in [Threads -> Pcs]
        /\ \A u \in Threads : u # t => pc'[u] = pc[u]
    BY <1>6, GotoPc DEF RecvPost, Abort, Pop, ResetHandshake, PopNotifies, Unlock
  <2> QED
    BY <1>6, <2>1, GotoPc DEF RecvPost, Abort, Pop, ResetHandshake, PopNotifies, Unlock, flags
<1>7. ASSUME NEW t \in Threads, RecvThrow(t) PROVE OfferHasReceiver'
  BY <1>7 DEF RecvThrow
<1>8. ASSUME NEW t \in Threads, TrySendEnter(t) PROVE OfferHasReceiver'
  <2>1. /\ pc' \in [Threads -> Pcs]
        /\ \A u \in Threads : u # t => pc'[u] = pc[u]
    BY <1>8, GotoPc DEF TrySendEnter, Abort, AttemptFailed, Unlock, CannotOffer
  <2> QED
    BY <1>8, <2>1, GotoPc DEF TrySendEnter, Abort, AttemptFailed, Unlock, CannotOffer, flags, MaySend, is_full
<1>9. ASSUME NEW t \in Threads, TryRecvEnter(t) PROVE OfferHasReceiver'
  <2>1. /\ pc' \in [Threads -> Pcs]
        /\ \A u \in Threads : u # t => pc'[u] = pc[u]
    BY <1>9, GotoPc DEF TryRecvEnter, Abort, MoveFront
  <2> QED
    BY <1>9, <2>1, GotoPc DEF TryRecvEnter, Abort, MoveFront, flags
<1>10. ASSUME NEW t \in Threads, TryRecvFalse(t) PROVE OfferHasReceiver'
  <2>1. /\ pc' \in [Threads -> Pcs]
        /\ \A u \in Threads : u # t => pc'[u] = pc[u]
    BY <1>10, GotoPc DEF TryRecvFalse, AttemptFailed, Unlock
  <2> QED
    BY <1>10, <2>1, GotoPc DEF TryRecvFalse, AttemptFailed, Unlock, flags
<1>11. ASSUME NEW t \in Threads, TryRecvPost(t) PROVE OfferHasReceiver'
  <2>1. /\ pc' \in [Threads -> Pcs]
        /\ \A u \in Threads : u # t => pc'[u] = pc[u]
    BY <1>11, GotoPc DEF TryRecvPost, Abort, Pop, ResetHandshake, PopNotifies, Unlock
  <2> QED
    BY <1>11, <2>1, GotoPc DEF TryRecvPost, Abort, Pop, ResetHandshake, PopNotifies, Unlock, flags
<1>12. ASSUME NEW t \in Threads, SendThrow(t) PROVE OfferHasReceiver'
  <2>1. /\ pc' \in [Threads -> Pcs]
        /\ \A u \in Threads : u # t => pc'[u] = pc[u]
    BY <1>12, GotoPc DEF SendThrow, Unlock
  <2> QED
    BY <1>12, <2>1, GotoPc DEF SendThrow, Unlock, flags
<1>13. ASSUME NEW t \in Threads, TrySendThrow(t) PROVE OfferHasReceiver'
  <2>1. /\ pc' \in [Threads -> Pcs]
        /\ \A u \in Threads : u # t => pc'[u] = pc[u]
    BY <1>13, GotoPc DEF TrySendThrow, Unlock
  <2>2. \A u \in Threads : ReceiverFor(u) => ReceiverFor(u)'
    BY <1>13, <2>1 DEF TrySendThrow
  <2>3. m_is_recv_ready' = m_is_recv_ready
    BY <1>13 DEF TrySendThrow
  <2>4. ~m_is_try_send_done' => ~(Len(m_queue) < N)
    BY <1>13, Zenon DEF TrySendThrow
  <2>5. ~(Len(m_queue) < N) => m_is_recv_ready
    BY <1>13 DEF TrySendThrow, CannotOffer, MaySend, is_full
  <2> QED
    BY <2>2, <2>3, <2>4, <2>5
<1>14. ASSUME NEW t \in Threads, ValueLost(t) PROVE OfferHasReceiver'
  BY <1>14 DEF ValueLost, flags
<1> QED
  BY <1>1, <1>2, <1>3, <1>4, <1>5, <1>6, <1>7, <1>8, <1>9, <1>10, <1>11, <1>12,
    <1>13, <1>14, StepCases DEF Section

\* When no receive throws, a value offered beyond the buffer always has a
\* receiver that will take it.
THEOREM OfferReceived == ThrowThreads = {} => (Spec => []OfferHasReceiver)
<1> SUFFICES ASSUME ThrowThreads = {} PROVE Spec => []OfferHasReceiver
  OBVIOUS
<1>1. Init => MutexInv /\ OfferHasReceiver
  BY MutexInvInit, OfferInit
<1>2. (MutexInv /\ OfferHasReceiver) /\ [Next]_vars
        => (MutexInv /\ OfferHasReceiver)'
  BY MutexInvStep, OfferStep
<1> QED
  BY <1>1, <1>2, PTL DEF Spec

-----------------------------------------------------------------------------
(* Receivers: m_recv_cv.  The invariant counts: the elements in the queue  *)
(* never outnumber the threads on the way to them while a receiver sleeps. *)

SomeoneWaits == \E t \in Threads : pc[t] = "recv_wait"

LEMMA OnTheWayFinite ==
  /\ IsFiniteSet(OnTheWay) /\ Cardinality(OnTheWay) \in Nat
  /\ IsFiniteSet(OnTheWay') /\ Cardinality(OnTheWay') \in Nat
<1>1. OnTheWay \in SUBSET Threads /\ OnTheWay' \in SUBSET Threads
  BY DEF OnTheWay
<1>2. IsFiniteSet(OnTheWay) /\ IsFiniteSet(OnTheWay')
  BY <1>1, FS_Subset, ChannelAssumption
<1> QED
  BY <1>2, FS_CardinalityType

\* Nobody leaves the way, and nothing is added to the queue.
LEMMA WayGrows ==
  ASSUME NoLostItem, SomeoneWaits, OnTheWay \subseteq OnTheWay',
         Len(m_queue) \in Nat, Len(m_queue') \in Nat,
         Len(m_queue') <= Len(m_queue)
  PROVE  NoLostItem'
<1>1. Cardinality(OnTheWay) <= Cardinality(OnTheWay')
  BY OnTheWayFinite, FS_Subset
<1>2. Len(m_queue) <= Cardinality(OnTheWay)
  BY DEF NoLostItem, SomeoneWaits
<1>3. Len(m_queue') <= Cardinality(OnTheWay')
  BY <1>1, <1>2, OnTheWayFinite
<1> QED
  BY <1>3 DEF NoLostItem

\* A thread enters the way with the element it adds.
LEMMA WayEnters ==
  ASSUME NoLostItem, SomeoneWaits, NEW t \in Threads, t \notin OnTheWay,
         OnTheWay' = OnTheWay \cup {t},
         Len(m_queue) \in Nat, Len(m_queue') = Len(m_queue) + 1
  PROVE  NoLostItem'
<1>1. Cardinality(OnTheWay') = Cardinality(OnTheWay) + 1
  BY OnTheWayFinite, FS_AddElement
<1>2. Len(m_queue) <= Cardinality(OnTheWay)
  BY DEF NoLostItem, SomeoneWaits
<1>3. Len(m_queue') <= Cardinality(OnTheWay')
  BY <1>1, <1>2, OnTheWayFinite
<1> QED
  BY <1>3 DEF NoLostItem

\* A thread leaves the way with the element it pops.
LEMMA WayLeaves ==
  ASSUME NoLostItem, SomeoneWaits, NEW t \in Threads, t \in OnTheWay,
         OnTheWay' = OnTheWay \ {t},
         Len(m_queue) \in Nat, Len(m_queue') = Len(m_queue) - 1
  PROVE  NoLostItem'
<1>1. Cardinality(OnTheWay') = Cardinality(OnTheWay) - 1
  BY OnTheWayFinite, FS_RemoveElement
<1>2. Len(m_queue) <= Cardinality(OnTheWay)
  BY DEF NoLostItem, SomeoneWaits
<1>3. Len(m_queue') <= Cardinality(OnTheWay')
  BY <1>1, <1>2, OnTheWayFinite
<1> QED
  BY <1>3 DEF NoLostItem

\* A thread leaves the way and sends a sleeping receiver in its stead.
LEMMA WayHandedOn ==
  ASSUME NoLostItem, SomeoneWaits, NEW t \in Threads, NEW v \in Threads,
         t \in OnTheWay, v \notin OnTheWay,
         OnTheWay' = (OnTheWay \ {t}) \cup {v},
         Len(m_queue) \in Nat, Len(m_queue') = Len(m_queue)
  PROVE  NoLostItem'
<1>1. /\ IsFiniteSet(OnTheWay \ {t})
      /\ Cardinality(OnTheWay \ {t}) = Cardinality(OnTheWay) - 1
  BY OnTheWayFinite, FS_RemoveElement
<1>2. Cardinality(OnTheWay') = Cardinality(OnTheWay)
  <2>1. v \notin OnTheWay \ {t}
    OBVIOUS
  <2>2. Cardinality((OnTheWay \ {t}) \cup {v}) = Cardinality(OnTheWay \ {t}) + 1
    BY <1>1, <2>1, FS_AddElement
  <2>3. Cardinality(OnTheWay) \in Nat
    BY OnTheWayFinite, FS_CardinalityType
  <2> QED
    BY <1>1, <2>2, <2>3
<1>3. Len(m_queue) <= Cardinality(OnTheWay)
  BY DEF NoLostItem, SomeoneWaits
<1> QED
  BY <1>2, <1>3, OnTheWayFinite DEF NoLostItem

LEMMA ItemInit == Init => NoLostItem
BY DEF Init, NoLostItem

\* A notification of the receivers: the notifying thread leaves the way.
LEMMA NotifyItem ==
  ASSUME pc \in [Threads -> Pcs], Len(m_queue) \in Nat, NoLostItem,
         NEW t \in Threads, SendNotify(t) \/ TrySendNotify(t)
  PROVE  NoLostItem'
<1>1. PICK to \in Pcs : /\ to \notin {"recv_wait"}
                        /\ pc[t] \in {"send_notify", "try_send_notify"}
                        /\ Notify(t, pc[t], "recv_wait", "recv_relock", to)
                        /\ to \in {"ack_lock", "idle"}
  BY Labels DEF SendNotify, TrySendNotify, Notify
<1>2. "recv_relock" \in Pcs
  BY Labels
<1>3. CASE \A u \in Threads : pc[u] # "recv_wait"
  <2>1. \A u \in Threads : u # t => pc'[u] = pc[u]
    BY <1>1, <1>2, <1>3, NotifyPc
  <2>2. pc'[t] = to
    BY <1>1, <1>2, NotifyPc
  <2> QED
    BY <1>1, <1>3, <2>1, <2>2 DEF NoLostItem
<1>4. CASE \E u \in Threads : pc[u] = "recv_wait"
  <2>1. PICK v \in Threads :
          /\ v # t /\ pc[v] = "recv_wait" /\ pc'[v] = "recv_relock"
          /\ \A u \in Threads : u # t /\ u # v => pc'[u] = pc[u]
    <3>1. PICK v \in Threads :
            pc[v] = "recv_wait" /\ pc' = [pc EXCEPT ![t] = to, ![v] = "recv_relock"]
      BY <1>1, <1>4 DEF Notify
    <3>2. v # t
      BY <1>1, <3>1
    <3> QED
      BY <3>1, <3>2
  <2>2. pc'[t] = to
    BY <1>1, <1>2, NotifyPc
  <2>3. t \in OnTheWay /\ v \notin OnTheWay
    BY <1>1, <2>1 DEF OnTheWay
  <2>4. OnTheWay' = (OnTheWay \ {t}) \cup {v}
    BY <1>1, <2>1, <2>2 DEF OnTheWay
  <2>5. m_queue' = m_queue
    BY <1>1, <1>2, NotifyPc DEF queue
  <2> QED
    BY <1>4, <2>3, <2>4, <2>5, WayHandedOn DEF SomeoneWaits
<1> QED
  BY <1>3, <1>4

LEMMA ItemStep ==
  ThrowThreads = {} /\ MutexInv /\ NoLostItem /\ [Next]_vars => NoLostItem'
<1> SUFFICES ASSUME ThrowThreads = {}, MutexInv, NoLostItem, [Next]_vars
             PROVE  NoLostItem'
  OBVIOUS
<1>0. /\ pc \in [Threads -> Pcs] /\ m_queue \in Seq(Message)
      /\ Len(m_queue) \in Nat
  BY DEF MutexInv, TypeOK
<1> USE <1>0, Labels
<1>1. CASE UNCHANGED vars
  BY <1>1 DEF vars, queue, NoLostItem, OnTheWay
<1>2. ASSUME NEW t \in Threads, SendNotify(t) \/ TrySendNotify(t)
      PROVE  NoLostItem'
  BY <1>2, NotifyItem
<1>3. ASSUME NEW t \in Threads,
             \/ Calls(t) \/ Locks(t) \/ TryLocks(t) \/ SpuriousWakeup(t)
             \/ NotifyBegin(t) \/ NotifyEnd(t)
      PROVE  NoLostItem'
  <2>1. m_queue' = m_queue
    BY <1>3, QuietAck DEF Quiet, queue
  <2>2. \A u \in Threads : /\ u \in OnTheWay => u \in OnTheWay'
                           /\ pc'[u] = "recv_wait" => pc[u] = "recv_wait"
    <3> USE DEF OnTheWay
    <3>1. CASE Calls(t)
      BY <3>1, CallPc DEF Calls, CallSend, CallRecv, CallTrySend, CallTryRecv
    <3>2. CASE Locks(t)
      BY <3>2, LockPc DEF Locks, SendLock, AckLock, RecvLock, RecvRelock
    <3>3. CASE TryLocks(t)
      BY <3>3, TryLocksPc DEF Tried
    <3>4. CASE SpuriousWakeup(t)
      BY <3>4, WakeupPc
    <3>5. CASE NotifyBegin(t)
      BY <3>5, NotifyBeginMoves DEF Moved
    <3>6. CASE NotifyEnd(t)
      BY <3>6, NotifyEndMoves DEF Moved
    <3> QED
      BY <1>3, <3>1, <3>2, <3>3, <3>4, <3>5, <3>6
  <2>3. OnTheWay \subseteq OnTheWay'
    BY <2>2 DEF OnTheWay
  <2>4. CASE SomeoneWaits
    BY <2>1, <2>3, <2>4, WayGrows
  <2>5. CASE ~SomeoneWaits
    BY <2>2, <2>5 DEF SomeoneWaits, NoLostItem
  <2> QED
    BY <2>4, <2>5
<1>4. ASSUME NEW t \in Threads, SendEnter(t) PROVE NoLostItem'
  <2> USE <1>4 DEF SendEnter, Unlock, Abort, queue
  <2>1. /\ pc' \in [Threads -> Pcs]
        /\ \A u \in Threads : u # t => pc'[u] = pc[u]
    BY GotoPc
  <2>2. \A u \in Threads : pc'[u] = "recv_wait" => pc[u] = "recv_wait"
    BY <2>1, GotoPc
  <2>3. CASE ~SomeoneWaits
    BY <2>2, <2>3 DEF SomeoneWaits, NoLostItem
  <2>4. \/ Enqueue(t) /\ Goto(t, "send_notify")
        \/ m_queue' = m_queue /\ pc'[t] \notin {"recv_wait"}
    BY GotoPc
  <2>5. CASE Enqueue(t) /\ Goto(t, "send_notify") /\ SomeoneWaits
    <3>1. t \notin OnTheWay /\ OnTheWay' = OnTheWay \cup {t}
      BY <2>1, <2>5, GotoPc DEF OnTheWay
    <3>2. Len(m_queue') = Len(m_queue) + 1
      BY <2>5, EnqueueFacts DEF MutexInv, TypeOK
    <3> QED
      BY <2>5, <3>1, <3>2, WayEnters
  <2>6. CASE m_queue' = m_queue /\ SomeoneWaits
    <3>1. OnTheWay \subseteq OnTheWay'
      BY <2>1 DEF OnTheWay
    <3> QED
      BY <2>6, <3>1, WayGrows
  <2> QED
    BY <2>3, <2>4, <2>5, <2>6
<1>5. ASSUME NEW t \in Threads, AckEnter(t) PROVE NoLostItem'
  <2> USE <1>5 DEF AckEnter, Acknowledged, Unlock, queue
  <2>1. /\ pc' \in [Threads -> Pcs]
        /\ \A u \in Threads : u # t => pc'[u] = pc[u]
    BY GotoPc
  <2>2. \A u \in Threads : pc'[u] = "recv_wait" => pc[u] = "recv_wait"
    BY <2>1, GotoPc
  <2>3. CASE ~SomeoneWaits
    BY <2>2, <2>3 DEF SomeoneWaits, NoLostItem
  <2>4. m_queue' = m_queue
    OBVIOUS
  <2>5. OnTheWay \subseteq OnTheWay'
    BY <2>1 DEF OnTheWay
  <2> QED
    BY <2>3, <2>4, <2>5, WayGrows
<1>6. ASSUME NEW t \in Threads, RecvFront(t) PROVE NoLostItem'
  <2> USE <1>6 DEF RecvFront, Unlock, Abort, Announce, MoveFront, queue
  <2>1. /\ pc' \in [Threads -> Pcs]
        /\ \A u \in Threads : u # t => pc'[u] = pc[u]
    BY GotoPc
  <2>2. m_queue' = m_queue
    BY DEF MoveFront
  <2>3. CASE m_queue = <<>>
    BY <2>2, <2>3, OnTheWayFinite DEF NoLostItem
  <2>4. CASE m_queue # <<>>
    <3>1. pc' = pc \/ Goto(t, "recv_post")
      BY <2>4
    <3>2. OnTheWay \subseteq OnTheWay'
      BY <2>1, <3>1, GotoPc DEF OnTheWay
    <3>3. \A u \in Threads : pc'[u] = "recv_wait" => pc[u] = "recv_wait"
      BY <2>1, <3>1, GotoPc
    <3>4. CASE ~SomeoneWaits
      BY <3>3, <3>4 DEF SomeoneWaits, NoLostItem
    <3>5. CASE SomeoneWaits
      BY <2>2, <3>2, <3>5, WayGrows
    <3> QED
      BY <3>4, <3>5
  <2> QED
    BY <2>3, <2>4
<1>7. ASSUME NEW t \in Threads, RecvPost(t) PROVE NoLostItem'
  <2> USE <1>7 DEF RecvPost, Abort, Pop, ResetHandshake, PopNotifies, Unlock, queue
  <2>1. /\ pc' \in [Threads -> Pcs]
        /\ \A u \in Threads : u # t => pc'[u] = pc[u]
    BY GotoPc
  <2>2. \A u \in Threads : pc'[u] = "recv_wait" => pc[u] = "recv_wait"
    BY <2>1, GotoPc
  <2>3. CASE ~SomeoneWaits
    BY <2>2, <2>3 DEF SomeoneWaits, NoLostItem
  <2>4. m_queue # <<>>
    BY DEF MutexInv, PostHasFront
  <2>5. (m_queue' = m_queue /\ pc' = pc) \/ m_queue' = Tail(m_queue)
    OBVIOUS
  <2>6. CASE m_queue' = m_queue /\ pc' = pc
    BY <2>6 DEF NoLostItem, OnTheWay
  <2>7. CASE m_queue' = Tail(m_queue) /\ SomeoneWaits
    <3>1. Len(m_queue') = Len(m_queue) - 1 /\ Len(m_queue') \in Nat
      BY <2>4, <2>7, TailFacts
    <3>2. t \in OnTheWay /\ OnTheWay' = OnTheWay \ {t}
      <4>1. m_queue' # m_queue
        BY <3>1
      <4>2. Goto(t, "notify_begin") \/ Goto(t, "notify_end")
        BY <4>1
      <4> QED
        BY <2>1, <4>2, GotoPc DEF OnTheWay
    <3> QED
      BY <2>7, <3>1, <3>2, WayLeaves
  <2> QED
    BY <2>3, <2>5, <2>6, <2>7
<1>8. ASSUME NEW t \in Threads, RecvThrow(t) PROVE NoLostItem'
  BY <1>8 DEF RecvThrow
<1>9. ASSUME NEW t \in Threads, TrySendEnter(t) PROVE NoLostItem'
  <2> USE <1>9 DEF TrySendEnter, Abort, AttemptFailed, Unlock, CannotOffer, queue
  <2>1. /\ pc' \in [Threads -> Pcs]
        /\ \A u \in Threads : u # t => pc'[u] = pc[u]
    BY GotoPc
  <2>2. \A u \in Threads : pc'[u] = "recv_wait" => pc[u] = "recv_wait"
    BY <2>1, GotoPc
  <2>3. CASE ~SomeoneWaits
    BY <2>2, <2>3 DEF SomeoneWaits, NoLostItem
  <2>4. \/ Enqueue(t) /\ Goto(t, "try_send_notify")
        \/ m_queue' = m_queue /\ pc'[t] \notin {"recv_wait"}
    BY GotoPc
  <2>5. CASE Enqueue(t) /\ Goto(t, "try_send_notify") /\ SomeoneWaits
    <3>1. t \notin OnTheWay /\ OnTheWay' = OnTheWay \cup {t}
      BY <2>1, <2>5, GotoPc DEF OnTheWay
    <3>2. Len(m_queue') = Len(m_queue) + 1
      BY <2>5, EnqueueFacts DEF MutexInv, TypeOK
    <3> QED
      BY <2>5, <3>1, <3>2, WayEnters
  <2>6. CASE m_queue' = m_queue /\ SomeoneWaits
    <3>1. OnTheWay \subseteq OnTheWay'
      BY <2>1 DEF OnTheWay
    <3> QED
      BY <2>6, <3>1, WayGrows
  <2> QED
    BY <2>3, <2>4, <2>5, <2>6
<1>10. ASSUME NEW t \in Threads, TryRecvEnter(t) PROVE NoLostItem'
  <2> USE <1>10 DEF TryRecvEnter, Abort, MoveFront, queue
  <2>1. /\ pc' \in [Threads -> Pcs]
        /\ \A u \in Threads : u # t => pc'[u] = pc[u]
    BY GotoPc
  <2>2. \A u \in Threads : pc'[u] = "recv_wait" => pc[u] = "recv_wait"
    BY <2>1, GotoPc
  <2>3. CASE ~SomeoneWaits
    BY <2>2, <2>3 DEF SomeoneWaits, NoLostItem
  <2>4. m_queue' = m_queue
    OBVIOUS
  <2>5. OnTheWay \subseteq OnTheWay'
    BY <2>1 DEF OnTheWay
  <2> QED
    BY <2>3, <2>4, <2>5, WayGrows
<1>11. ASSUME NEW t \in Threads, TryRecvFalse(t) PROVE NoLostItem'
  <2> USE <1>11 DEF TryRecvFalse, AttemptFailed, Unlock, queue
  <2>1. /\ pc' \in [Threads -> Pcs]
        /\ \A u \in Threads : u # t => pc'[u] = pc[u]
    BY GotoPc
  <2>2. \A u \in Threads : pc'[u] = "recv_wait" => pc[u] = "recv_wait"
    BY <2>1, GotoPc
  <2>3. CASE ~SomeoneWaits
    BY <2>2, <2>3 DEF SomeoneWaits, NoLostItem
  <2>4. m_queue' = m_queue
    OBVIOUS
  <2>5. OnTheWay \subseteq OnTheWay'
    BY <2>1 DEF OnTheWay
  <2> QED
    BY <2>3, <2>4, <2>5, WayGrows
<1>12. ASSUME NEW t \in Threads, TryRecvPost(t) PROVE NoLostItem'
  <2> USE <1>12 DEF TryRecvPost, Abort, Pop, ResetHandshake, PopNotifies, Unlock, queue
  <2>1. /\ pc' \in [Threads -> Pcs]
        /\ \A u \in Threads : u # t => pc'[u] = pc[u]
    BY GotoPc
  <2>2. \A u \in Threads : pc'[u] = "recv_wait" => pc[u] = "recv_wait"
    BY <2>1, GotoPc
  <2>3. CASE ~SomeoneWaits
    BY <2>2, <2>3 DEF SomeoneWaits, NoLostItem
  <2>4. m_queue # <<>>
    BY DEF MutexInv, PostHasFront
  <2>5. (m_queue' = m_queue /\ pc' = pc) \/ m_queue' = Tail(m_queue)
    OBVIOUS
  <2>6. CASE m_queue' = m_queue /\ pc' = pc
    BY <2>6 DEF NoLostItem, OnTheWay
  <2>7. CASE m_queue' = Tail(m_queue) /\ SomeoneWaits
    <3>1. Len(m_queue') = Len(m_queue) - 1 /\ Len(m_queue') \in Nat
      BY <2>4, <2>7, TailFacts
    <3>2. OnTheWay \subseteq OnTheWay'
      BY <2>1 DEF OnTheWay
    <3> QED
      BY <2>7, <3>1, <3>2, WayGrows
  <2> QED
    BY <2>3, <2>5, <2>6, <2>7
<1>13. ASSUME NEW t \in Threads, SendThrow(t) PROVE NoLostItem'
  <2> USE <1>13 DEF SendThrow, Unlock, queue
  <2>1. /\ pc' \in [Threads -> Pcs]
        /\ \A u \in Threads : u # t => pc'[u] = pc[u]
    BY GotoPc
  <2>2. \A u \in Threads : pc'[u] = "recv_wait" => pc[u] = "recv_wait"
    BY <2>1, GotoPc
  <2>3. CASE ~SomeoneWaits
    BY <2>2, <2>3 DEF SomeoneWaits, NoLostItem
  <2>4. m_queue' = m_queue
    OBVIOUS
  <2>5. OnTheWay \subseteq OnTheWay'
    BY <2>1 DEF OnTheWay
  <2> QED
    BY <2>3, <2>4, <2>5, WayGrows
<1>14. ASSUME NEW t \in Threads, TrySendThrow(t) PROVE NoLostItem'
  <2> USE <1>14 DEF TrySendThrow, Unlock, queue
  <2>1. /\ pc' \in [Threads -> Pcs]
        /\ \A u \in Threads : u # t => pc'[u] = pc[u]
    BY GotoPc
  <2>2. \A u \in Threads : pc'[u] = "recv_wait" => pc[u] = "recv_wait"
    BY <2>1, GotoPc
  <2>3. CASE ~SomeoneWaits
    BY <2>2, <2>3 DEF SomeoneWaits, NoLostItem
  <2>4. m_queue' = m_queue
    OBVIOUS
  <2>5. OnTheWay \subseteq OnTheWay'
    BY <2>1 DEF OnTheWay
  <2> QED
    BY <2>3, <2>4, <2>5, WayGrows
<1>15. ASSUME NEW t \in Threads, ValueLost(t) PROVE NoLostItem'
  BY <1>15 DEF ValueLost, queue, NoLostItem, OnTheWay
<1> QED
  BY <1>1, <1>2, <1>3, <1>4, <1>5, <1>6, <1>7, <1>8, <1>9, <1>10, <1>11, <1>12,
    <1>13, <1>14, <1>15, StepCases DEF Quiet, Section

\* When no receive throws, no element waits in the queue without a thread on
\* its way while a receiver sleeps on m_recv_cv.
THEOREM ItemWakeups == ThrowThreads = {} => (Spec => []NoLostItem)
<1> SUFFICES ASSUME ThrowThreads = {} PROVE Spec => []NoLostItem
  OBVIOUS
<1>1. Init => MutexInv /\ NoLostItem
  BY MutexInvInit, ItemInit
<1>2. (MutexInv /\ NoLostItem) /\ [Next]_vars => (MutexInv /\ NoLostItem)'
  BY MutexInvStep, ItemStep
<1> QED
  BY <1>1, <1>2, PTL DEF Spec
=============================================================================
