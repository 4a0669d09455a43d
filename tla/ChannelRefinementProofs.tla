---------------------- MODULE ChannelRefinementProofs ----------------------
(***************************************************************************)
(* Channel implements GoChannel when no receive throws (a send may): every *)
(* step of the locks, flags and condition variables is a step of the       *)
(* abstract channel or leaves it alone.                                    *)
(***************************************************************************)
EXTENDS ChannelWakeupProofs

\* The receives between moving the front out and popping it.
Posts == {"recv_post", "try_recv_post"}

\* The receives before the move.
Empties == (RecvPcs \cup TryRecvPcs) \ Posts

\* Until its pop a receive holds nothing, and from the move to the pop it holds
\* the front element; nobody else has moved the front out.
RecvInv ==
  /\ \A t \in Threads : pc[t] \in Posts => item[t] = Head(m_queue)
  /\ \A t \in Threads : pc[t] \in Empties => item[t] = NoMsg
  /\ moved => \E t \in Threads : pc[t] \in Posts

\* The abstract state.
Statuses == [t \in Threads |-> StatusOf(pc[t])]
Gots == [t \in Threads |-> Taken(t)]

-----------------------------------------------------------------------------
(* What the labels mean to the abstract channel.                           *)

LEMMA LabelStatus ==
  /\ StatusOf("idle") = "idle"
  /\ StatusOf("notify_begin") = "idle" /\ StatusOf("notify_end") = "idle"
  /\ StatusOf("try_send_notify") = "idle"
  /\ \A l \in SendPcs : StatusOf(l) = "sending"
  /\ \A l \in AckPcs : StatusOf(l) = "handing"
  /\ \A l \in RecvPcs : StatusOf(l) = "receiving"
  /\ \A l \in TrySendPcs : StatusOf(l) = "offering"
  /\ \A l \in TryRecvPcs : StatusOf(l) = "polling"
BY DEF StatusOf, SendPcs, AckPcs, RecvPcs, TrySendPcs, TryRecvPcs, NotifyPcs

\* A thread hands over exactly at the labels of the acknowledgement.
LEMMA HandingLabels ==
  \A l \in Pcs : StatusOf(l) = "handing" <=> l \in AckPcs
BY Labels DEF StatusOf, SendPcs, AckPcs, RecvPcs, TrySendPcs, TryRecvPcs,
  NotifyPcs

\* One thread moves.
LEMMA StatusMoves ==
  ASSUME pc \in [Threads -> Pcs], NEW t \in Threads, NEW l \in Pcs, Goto(t, l)
  PROVE  Statuses' = [Statuses EXCEPT ![t] = StatusOf(l)]
BY GotoPc DEF Statuses, Goto

-----------------------------------------------------------------------------
(* The invariant of a receive.                                             *)

LEMMA RecvLabels ==
  Empties = {"recv_lock", "recv_enter", "recv_wait", "recv_relock",
             "recv_recheck", "try_recv_lock", "try_recv_enter",
             "try_recv_false"}
BY DEF Empties, Posts, RecvPcs, TryRecvPcs

LEMMA RecvInit == Init => RecvInv
BY RecvLabels DEF Init, RecvInv, Posts

\* A step that keeps the queue and what is held, and leads nobody into a
\* receive or past its move.
LEMMA RecvKept ==
  ASSUME RecvInv, UNCHANGED <<queue, item>>,
         \A u \in Threads : /\ pc'[u] \in Posts <=> pc[u] \in Posts
                            /\ pc'[u] \in Empties => pc[u] \in Empties
  PROVE  RecvInv'
BY DEF RecvInv, queue

\* Whoever is past its move owns the mutex.
LEMMA OnlyOwner ==
  ASSUME MutexInv, NEW t \in Threads, pc[t] \in LockedPcs, pc[t] \notin Posts
  PROVE  \A u \in Threads : pc[u] \notin Posts
BY DEF MutexInv, LockOwnership, LockedPcs, Posts

LEMMA RecvQuiet ==
  ASSUME MutexInv, RecvInv, NEW t \in Threads, Quiet(t)
  PROVE  RecvInv'
<1>0. pc \in [Threads -> Pcs]
  BY DEF MutexInv, TypeOK
<1> USE <1>0, Labels, RecvLabels DEF Posts
<1>1. CASE Calls(t)
  <2>1. PICK l \in Pcs \ Posts, S \in {SendThreads, RecvThreads, TrySendThreads, TryRecvThreads} :
          Call(t, S, l)
    BY <1>1 DEF Calls, CallSend, CallRecv, CallTrySend, CallTryRecv
  <2>2. item' = [item EXCEPT ![t] = NoMsg] /\ UNCHANGED queue
    BY <2>1 DEF Call
  <2>3. /\ pc[t] = "idle" /\ pc'[t] = l
        /\ \A u \in Threads : u # t => pc'[u] = pc[u]
    BY <2>1, CallPc
  <2>4. item'[t] = NoMsg /\ \A u \in Threads : u # t => item'[u] = item[u]
    BY <2>2 DEF MutexInv, TypeOK
  <2> QED
    BY <2>2, <2>3, <2>4 DEF RecvInv, queue
<1>2. CASE Locks(t)
  BY <1>2, LockPc, RecvKept DEF Locks, SendLock, AckLock, RecvLock, RecvRelock, local
<1>3. CASE TryLocks(t)
  BY <1>3, TryLocksPc, RecvKept DEF Tried, local
<1>4. CASE SpuriousWakeup(t)
  BY <1>4, WakeupPc, RecvKept DEF local
<1>5. CASE SendNotify(t)
  BY <1>5, SendNotifyMoves, RecvKept DEF Moved, local
<1>6. CASE NotifyBegin(t)
  BY <1>6, NotifyBeginMoves, RecvKept DEF Moved, local
<1>7. CASE NotifyEnd(t)
  BY <1>7, NotifyEndMoves, RecvKept DEF Moved, local
<1>8. CASE TrySendNotify(t)
  BY <1>8, TrySendNotifyMoves, RecvKept DEF Moved, local
<1> QED
  BY <1>1, <1>2, <1>3, <1>4, <1>5, <1>6, <1>7, <1>8 DEF Quiet

\* Taking the front element out.
LEMMA RecvMoves ==
  ASSUME MutexInv, RecvInv, NEW t \in Threads, NEW l \in Posts,
         pc[t] \in LockedPcs \ Posts, MoveFront(t), Goto(t, l)
  PROVE  RecvInv'
<1>0. /\ pc \in [Threads -> Pcs] /\ item \in [Threads -> Message \cup {NoMsg}]
      /\ l \in Pcs
  BY Labels DEF MutexInv, TypeOK, Posts
<1>1. \A u \in Threads : pc[u] \notin Posts
  BY OnlyOwner
<1>2. ~moved
  BY <1>1 DEF RecvInv
<1>3. m_queue' = m_queue /\ moved' /\ item' = [item EXCEPT ![t] = Head(m_queue)]
  BY <1>2 DEF MoveFront
<1>4. pc'[t] = l /\ \A u \in Threads : u # t => pc'[u] = pc[u]
  BY <1>0, GotoPc
<1>5. item'[t] = Head(m_queue) /\ \A u \in Threads : u # t => item'[u] = item[u]
  BY <1>0, <1>3
<1> QED
  BY <1>1, <1>3, <1>4, <1>5 DEF RecvInv, Empties

\* Popping it.
LEMMA RecvPops ==
  ASSUME MutexInv, RecvInv, NEW t \in Threads, pc[t] \in Posts,
         ~moved', item' = item, Goto(t, PopNotifies)
  PROVE  RecvInv'
<1>0. pc \in [Threads -> Pcs]
  BY DEF MutexInv, TypeOK
<1>1. \A u \in Threads : u # t => pc[u] \notin Posts
  BY DEF MutexInv, LockOwnership, LockedPcs, Posts
<1>2. /\ pc'[t] \in {"notify_begin", "notify_end"}
      /\ \A u \in Threads : u # t => pc'[u] = pc[u]
  BY <1>0, GotoPc, Labels DEF PopNotifies
<1> QED
  BY <1>1, <1>2, RecvLabels DEF RecvInv, Posts

LEMMA RecvStep ==
  ThrowThreads = {} /\ MutexInv /\ RecvInv /\ [Next]_vars => RecvInv'
<1> SUFFICES ASSUME ThrowThreads = {}, MutexInv, RecvInv, [Next]_vars
             PROVE  RecvInv'
  OBVIOUS
<1>0. pc \in [Threads -> Pcs]
  BY DEF MutexInv, TypeOK
<1> USE <1>0, Labels, RecvLabels
<1>1. CASE UNCHANGED vars
  BY <1>1 DEF vars, queue, local, RecvInv
<1>2. ASSUME NEW t \in Threads, Quiet(t) PROVE RecvInv'
  BY <1>2, RecvQuiet
<1>3. ASSUME NEW t \in Threads, SendEnter(t) \/ TrySendEnter(t)
      PROVE  RecvInv'
  <2>1. \A u \in Threads : pc[u] \notin Posts
    BY <1>3, OnlyOwner DEF SendEnter, TrySendEnter, LockedPcs, Posts
  <2>2. ~moved
    BY <2>1 DEF RecvInv
  <2>3. UNCHANGED <<moved, item>>
    BY <1>3 DEF SendEnter, TrySendEnter, Abort, Enqueue, queue, local
  <2>4. pc' = pc \/ \E l \in Pcs \ (Posts \cup Empties) : Goto(t, l)
    BY <1>3 DEF SendEnter, TrySendEnter, Abort, AttemptFailed, Posts
  <2>5. \A u \in Threads : /\ pc'[u] \notin Posts
                           /\ pc'[u] \in Empties => pc[u] \in Empties
    BY <2>1, <2>4, GotoPc
  <2> QED
    BY <2>2, <2>3, <2>5 DEF RecvInv
<1>4. ASSUME NEW t \in Threads, AckEnter(t) PROVE RecvInv'
  <2>1. \E l \in Pcs \ (Posts \cup Empties) : Goto(t, l)
    BY <1>4 DEF AckEnter, Posts
  <2> QED
    BY <1>4, <2>1, GotoPc, RecvKept DEF AckEnter, local, Posts
<1>5. ASSUME NEW t \in Threads, RecvFront(t) PROVE RecvInv'
  <2>1. CASE MoveFront(t) /\ Goto(t, "recv_post")
    BY <1>5, <2>1, RecvMoves DEF RecvFront, LockedPcs, Posts
  <2>2. CASE UNCHANGED <<queue, item>> /\ (pc' = pc \/ Goto(t, "recv_wait"))
    BY <1>5, <2>2, GotoPc, RecvKept DEF RecvFront, Posts
  <2> QED
    BY <1>5, <2>1, <2>2 DEF RecvFront, Abort, queue, local
<1>6. ASSUME NEW t \in Threads, RecvPost(t) PROVE RecvInv'
  <2>1. CASE Pop(t, FALSE)
    BY <1>6, <2>1, RecvPops DEF RecvPost, Pop, local, Posts
  <2>2. CASE UNCHANGED <<queue, item, pc>>
    BY <2>2, RecvKept
  <2> QED
    BY <1>6, <2>1, <2>2 DEF RecvPost, Abort
<1>7. ASSUME NEW t \in Threads, RecvThrow(t) PROVE RecvInv'
  BY <1>7 DEF RecvThrow
<1>8. ASSUME NEW t \in Threads, TryRecvEnter(t) PROVE RecvInv'
  <2>1. CASE MoveFront(t) /\ Goto(t, "try_recv_post")
    BY <1>8, <2>1, RecvMoves DEF TryRecvEnter, LockedPcs, Posts
  <2>2. CASE UNCHANGED <<queue, item>> /\ (pc' = pc \/ Goto(t, "try_recv_false"))
    BY <1>8, <2>2, GotoPc, RecvKept DEF TryRecvEnter, Posts
  <2> QED
    BY <1>8, <2>1, <2>2 DEF TryRecvEnter, Abort, queue, local
<1>9. ASSUME NEW t \in Threads, TryRecvFalse(t) PROVE RecvInv'
  <2>1. Goto(t, "try_recv_lock") \/ Goto(t, "idle")
    BY <1>9 DEF TryRecvFalse, AttemptFailed
  <2> QED
    BY <1>9, <2>1, GotoPc, RecvKept DEF TryRecvFalse, local, Posts
<1>10. ASSUME NEW t \in Threads, TryRecvPost(t) PROVE RecvInv'
  <2>1. CASE Pop(t, m_is_recv_ready)
    BY <1>10, <2>1, RecvPops DEF TryRecvPost, Pop, local, Posts
  <2>2. CASE UNCHANGED <<queue, item, pc>>
    BY <2>2, RecvKept
  <2> QED
    BY <1>10, <2>1, <2>2 DEF TryRecvPost, Abort
<1>11. ASSUME NEW t \in Threads, SendThrow(t) \/ TrySendThrow(t)
       PROVE  RecvInv'
  <2>1. Goto(t, "idle") /\ UNCHANGED <<queue, item>> /\ pc[t] \notin Posts
    BY <1>11 DEF SendThrow, TrySendThrow, local, Posts
  <2>2. "idle" \notin Posts \cup Empties
    BY DEF Posts
  <2> QED
    BY <2>1, <2>2, GotoPc, RecvKept
<1>12. ASSUME NEW t \in Threads, ValueLost(t) PROVE RecvInv'
  BY <1>12 DEF ValueLost
<1> QED
  BY <1>1, <1>2, <1>3, <1>4, <1>5, <1>6, <1>7, <1>8, <1>9, <1>10, <1>11, <1>12,
    StepCases DEF Section

-----------------------------------------------------------------------------
(* The steps of the abstract channel, from what a step does to the labels. *)

\* Threads that move between labels of the same status.
LEMMA StatusesKept ==
  ASSUME \A u \in Threads : StatusOf(pc'[u]) = StatusOf(pc[u])
  PROVE  Statuses' = Statuses
BY DEF Statuses

LEMMA GotsKept ==
  ASSUME item' = item, \A u \in Threads : pc'[u] \in Posts <=> pc[u] \in Posts
  PROVE  Gots' = Gots
BY DEF Gots, Taken, Posts

\* A step that leaves the abstract channel alone.
Silent == UNCHANGED <<m_queue, calls, Statuses, Gots>>

LEMMA SilentStep == Silent => UNCHANGED Go!gvars
BY DEF Silent, Go!gvars, Statuses, Gots

\* One thread takes another status and the rest stays.
LEMMA BecomeStep ==
  ASSUME pc \in [Threads -> Pcs], NEW t \in Threads, NEW l \in Pcs, Goto(t, l)
  PROVE  Go!Become(t, StatusOf(l))
BY StatusMoves DEF Go!Become, Statuses

LEMMA NobodyHandingStep ==
  ASSUME MutexInv, HandInv, m_is_send_done
  PROVE  Go!NobodyHanding
<1>1. \A t \in Threads : pc[t] \notin AckPcs /\ pc[t] \in Pcs
  BY DEF HandInv, OneHandshake, MutexInv, TypeOK
<1>2. \A t \in Threads : StatusOf(pc[t]) # "handing"
  BY <1>1, HandingLabels
<1> QED
  BY <1>2 DEF Go!NobodyHanding

\* Mutex, notification and wakeup steps mean nothing to the abstract channel.
LEMMA QuietGo ==
  ASSUME MutexInv, NEW t \in Threads, Quiet(t)
  PROVE  Go!GoNext \/ Silent
<1>0. pc \in [Threads -> Pcs] /\ item \in [Threads -> Message \cup {NoMsg}]
  BY DEF MutexInv, TypeOK
<1> USE <1>0, Labels
<1>1. CASE Calls(t)
  <2>1. PICK l \in Pcs, S \in {SendThreads, RecvThreads, TrySendThreads, TryRecvThreads} :
          /\ Call(t, S, l)
          /\ l \in {"send_lock", "recv_lock", "try_send_lock", "try_recv_lock"}
    BY <1>1 DEF Calls, CallSend, CallRecv, CallTrySend, CallTryRecv
  <2>2. /\ pc[t] = "idle" /\ calls[t] < MaxCalls
        /\ calls' = [calls EXCEPT ![t] = @ + 1]
        /\ item' = [item EXCEPT ![t] = NoMsg]
        /\ Goto(t, l) /\ m_queue' = m_queue
    BY <2>1 DEF Call, queue
  <2>3. /\ Statuses[t] = "idle"
        /\ StatusOf(l) \in {"sending", "receiving", "offering", "polling"}
    BY <2>1, <2>2, LabelStatus DEF Statuses, SendPcs, RecvPcs, TrySendPcs, TryRecvPcs
  <2>4. Gots' = [Gots EXCEPT ![t] = NoMsg]
    <3>1. pc'[t] = l /\ \A u \in Threads : u # t => pc'[u] = pc[u]
      BY <2>2, GotoPc
    <3>2. item'[t] = NoMsg /\ \A u \in Threads : u # t => item'[u] = item[u]
      BY <2>2
    <3>3. \A u \in Threads : Taken(u)' = IF u = t THEN NoMsg ELSE Taken(u)
      BY <3>1, <3>2, <2>1 DEF Taken
    <3> QED
      BY <3>3 DEF Gots
  <2>5. Go!Become(t, StatusOf(l))
    BY <2>2, BecomeStep
  <2>6. Go!Begin(t, StatusOf(l))
    BY <2>2, <2>3, <2>4, <2>5 DEF Go!Begin, Statuses, Gots
  <2> QED
    BY <2>3, <2>6 DEF Go!GoNext
<1>2. CASE Locks(t)
  <2>1. \A u \in Threads : /\ StatusOf(pc'[u]) = StatusOf(pc[u])
                           /\ pc'[u] \in Posts <=> pc[u] \in Posts
    BY <1>2, LockPc, LabelStatus DEF Locks, SendLock, AckLock, RecvLock,
      RecvRelock, Posts, SendPcs, AckPcs, RecvPcs
  <2>2. UNCHANGED <<m_queue, calls, item>>
    BY <1>2, LockPc DEF Locks, SendLock, AckLock, RecvLock, RecvRelock,
      queue, local
  <2> QED
    BY <2>1, <2>2, StatusesKept, GotsKept DEF Silent
<1>3. CASE TryLocks(t)
  <2>1. UNCHANGED <<m_queue, calls, item>>
    BY <1>3 DEF TryLocks, TrySendLock, TryRecvLock, TryLock, queue, local
  <2>2. /\ \A u \in Threads : u # t => pc'[u] = pc[u]
        /\ \/ /\ pc[t] \in TrySendPcs
              /\ pc'[t] \in TrySendPcs \/ pc'[t] = "idle"
           \/ /\ pc[t] \in TryRecvPcs \ Posts
              /\ pc'[t] \in TryRecvPcs \ Posts \/ pc'[t] = "idle"
    BY <1>3, TryLocksPc DEF Tried, TrySendPcs, TryRecvPcs, Posts
  <2>3. \A u \in Threads : pc'[u] \in Posts <=> pc[u] \in Posts
    BY <2>2 DEF Posts, TrySendPcs
  <2>4. Gots' = Gots
    BY <2>1, <2>3, GotsKept
  <2>5. CASE pc'[t] # "idle"
    <3>1. \A u \in Threads : StatusOf(pc'[u]) = StatusOf(pc[u])
      BY <2>2, <2>5, LabelStatus
    <3> QED
      BY <2>1, <2>4, <3>1, StatusesKept DEF Silent
  <2>6. CASE pc'[t] = "idle"
    <3>1. Goto(t, "idle")
      BY <2>2, <2>6, <1>3 DEF TryLocks, TrySendLock, TryRecvLock, TryLock, AttemptFailed, Goto
    <3>2. StatusOf(pc[t]) \in {"offering", "polling"}
      BY <2>2, LabelStatus
    <3> QED
      BY <2>1, <2>4, <3>1, <3>2, BecomeStep, LabelStatus
        DEF Go!GoNext, Go!GiveUp, Gots, Statuses
  <2> QED
    BY <2>5, <2>6
<1>4. CASE SpuriousWakeup(t)
  <2>1. \A u \in Threads : /\ StatusOf(pc'[u]) = StatusOf(pc[u])
                           /\ pc'[u] \in Posts <=> pc[u] \in Posts
    BY <1>4, WakeupPc, LabelStatus DEF Posts, SendPcs, AckPcs, RecvPcs
  <2>2. UNCHANGED <<m_queue, calls, item>>
    BY <1>4, WakeupPc DEF queue, local
  <2> QED
    BY <2>1, <2>2, StatusesKept, GotsKept DEF Silent
<1>5. CASE SendNotify(t) \/ NotifyBegin(t) \/ NotifyEnd(t) \/ TrySendNotify(t)
  <2>1. \A u \in Threads :
          \/ pc'[u] = pc[u]
          \/ pc[u] = "send_notify" /\ pc'[u] = "ack_lock"
          \/ pc[u] = "notify_begin" /\ pc'[u] = "idle"
          \/ pc[u] = "notify_end" /\ pc'[u] = "idle"
          \/ pc[u] = "try_send_notify" /\ pc'[u] = "idle"
          \/ pc[u] = "send_begin_wait" /\ pc'[u] = "send_lock"
          \/ pc[u] = "send_end_wait" /\ pc'[u] = "ack_lock"
          \/ pc[u] = "recv_wait" /\ pc'[u] = "recv_relock"
    <3>1. CASE SendNotify(t)
      BY <3>1, SendNotifyMoves DEF Moved
    <3>2. CASE NotifyBegin(t)
      BY <3>2, NotifyBeginMoves DEF Moved
    <3>3. CASE NotifyEnd(t)
      BY <3>3, NotifyEndMoves DEF Moved
    <3>4. CASE TrySendNotify(t)
      BY <3>4, TrySendNotifyMoves DEF Moved
    <3> QED
      BY <1>5, <3>1, <3>2, <3>3, <3>4
  <2>2. UNCHANGED <<m_queue, calls, item>>
    BY <1>5 DEF SendNotify, NotifyBegin, NotifyEnd, TrySendNotify, Notify,
      queue, local
  <2>3. \A u \in Threads : /\ StatusOf(pc'[u]) = StatusOf(pc[u])
                           /\ pc'[u] \in Posts <=> pc[u] \in Posts
    BY <2>1, LabelStatus DEF Posts, SendPcs, AckPcs, RecvPcs
  <2> QED
    BY <2>2, <2>3, StatusesKept, GotsKept DEF Silent
<1> QED
  BY <1>1, <1>2, <1>3, <1>4, <1>5 DEF Quiet

\* A step that only moves one thread to a label of the same status.
LEMMA SameStatus ==
  ASSUME pc \in [Threads -> Pcs], NEW t \in Threads, NEW l \in Pcs,
         Goto(t, l), StatusOf(l) = StatusOf(pc[t])
  PROVE  Statuses' = Statuses
BY GotoPc, StatusesKept

\* A receive takes its value when it pops.
LEMMA TakeStep ==
  ASSUME MutexInv, RecvInv, NEW t \in Threads, NEW l \in Pcs,
         pc[t] \in Posts, m_queue' = Tail(m_queue), UNCHANGED <<calls, item>>,
         l \in {"notify_begin", "notify_end"}, Goto(t, l)
  PROVE  Go!Take(t)
<1>0. pc \in [Threads -> Pcs] /\ m_queue # <<>>
  BY DEF MutexInv, TypeOK, PostHasFront, Posts
<1>1. item[t] = Head(m_queue)
  BY DEF RecvInv
<1>2. pc'[t] = l /\ \A u \in Threads : u # t => pc'[u] = pc[u]
  BY <1>0, GotoPc
<1>3. \A u \in Threads : Taken(u)' = IF u = t THEN Head(m_queue) ELSE Taken(u)
  BY <1>1, <1>2 DEF Taken
<1>4. Gots' = [Gots EXCEPT ![t] = Head(m_queue)]
  BY <1>3 DEF Gots
<1>5. StatusOf(pc[t]) \in {"receiving", "polling"} /\ StatusOf(l) = "idle"
  BY LabelStatus DEF Posts, RecvPcs, TryRecvPcs
<1>6. Go!Become(t, "idle")
  BY <1>0, <1>5, BecomeStep
<1> QED
  BY <1>0, <1>4, <1>5, <1>6 DEF Go!Take, Gots, Statuses

\* The front is moved out: the receive still holds nothing for its caller.
LEMMA MoveSilent ==
  ASSUME MutexInv, RecvInv, NEW t \in Threads, NEW l \in Pcs,
         pc[t] \in Empties, MoveFront(t), Goto(t, l), l \in Posts,
         StatusOf(l) = StatusOf(pc[t])
  PROVE  Silent
<1>0. pc \in [Threads -> Pcs] /\ item \in [Threads -> Message \cup {NoMsg}]
  BY DEF MutexInv, TypeOK
<1>1. pc'[t] = l /\ \A u \in Threads : u # t => pc'[u] = pc[u]
  BY <1>0, GotoPc
<1>2. item[t] = NoMsg /\ pc[t] \notin Posts
  BY DEF RecvInv, Empties
<1>3. \A u \in Threads : u # t => item'[u] = item[u]
  BY <1>0 DEF MoveFront
<1>4. \A u \in Threads : Taken(u)' = Taken(u)
  BY <1>1, <1>2, <1>3 DEF Taken, Posts
<1>5. Gots' = Gots
  BY <1>4 DEF Gots
<1>6. Statuses' = Statuses
  BY <1>0, SameStatus
<1> QED
  BY <1>5, <1>6 DEF MoveFront, Silent

LEMMA SectionGo ==
  ASSUME ThrowThreads = {}, MutexInv, HandInv, OfferHasReceiver, RecvInv,
         NEW t \in Threads, Section(t)
  PROVE  Go!GoNext \/ Silent
<1>0. /\ pc \in [Threads -> Pcs] /\ m_queue \in Seq(Message)
      /\ Len(m_queue) \in Nat /\ N \in Nat
  BY ChannelAssumption DEF MutexInv, TypeOK
<1> USE <1>0, Labels
<1>1. CASE UNCHANGED <<m_queue, calls, item, pc>>
  BY <1>1, StatusesKept, GotsKept DEF Silent
<1>2. CASE SendEnter(t)
  <2>1. CASE ~MaySend
    <3>1. Goto(t, "send_begin_wait") /\ UNCHANGED <<m_queue, calls, item>>
      BY <1>2, <2>1 DEF SendEnter, queue, local
    <3>2. Statuses' = Statuses
      BY <1>2, <3>1, SameStatus, LabelStatus DEF SendEnter, SendPcs
    <3>3. Gots' = Gots
      BY <1>2, <3>1, GotoPc, GotsKept DEF SendEnter, Posts
    <3> QED
      BY <3>1, <3>2, <3>3 DEF Silent
  <2>2. CASE MaySend /\ ~is_try_ready
    <3>1. /\ pc[t] = "send_enter" /\ Goto(t, "send_notify")
          /\ Enqueue(t) /\ UNCHANGED <<calls, item>>
      BY <1>2, <2>2 DEF SendEnter, local
    <3>2. Gots' = Gots
      BY <3>1, GotoPc, GotsKept DEF Posts
    <3>3. Statuses[t] = "sending" /\ StatusOf("send_notify") = "handing"
      BY <3>1, LabelStatus DEF Statuses, SendPcs, AckPcs
    <3>4. Go!Become(t, "handing")
      BY <3>1, <3>3, BecomeStep
    <3>5. Go!NobodyHanding
      BY <2>2, NobodyHandingStep DEF MaySend
    <3>6. Len(m_queue) <= N
      BY <2>2 DEF MaySend, is_full
    <3>7. Go!Append1(t)
      BY <3>1 DEF Go!Append1, Enqueue
    <3>8. Go!Put(t)
      BY <3>1, <3>2, <3>3, <3>4, <3>5, <3>6, <3>7 DEF Go!Put, Statuses, Gots
    <3> QED
      BY <3>8 DEF Go!GoNext
  <2> QED
    BY <1>1, <1>2, <2>1, <2>2 DEF SendEnter, Abort, queue
<1>3. CASE AckEnter(t)
  <2>1. pc[t] = "ack_enter" /\ UNCHANGED <<m_queue, calls, item>>
    BY <1>3 DEF AckEnter, queue, local
  <2>2. Goto(t, "notify_begin") \/ Goto(t, "send_end_wait")
    BY <1>3 DEF AckEnter
  <2>3. Gots' = Gots
    BY <2>1, <2>2, GotoPc, GotsKept DEF Posts
  <2>4. CASE Acknowledged
    <3>1. Goto(t, "notify_begin") /\ Len(m_queue) <= N
      BY <1>3, <2>4 DEF AckEnter, Acknowledged, is_full
    <3>2. Statuses[t] = "handing" /\ StatusOf("notify_begin") = "idle"
      BY <2>1, LabelStatus DEF Statuses, AckPcs
    <3>3. Go!Become(t, "idle")
      BY <3>1, <3>2, BecomeStep
    <3>4. Go!Finish(t)
      BY <2>1, <2>3, <3>1, <3>2, <3>3 DEF Go!Finish, Statuses, Gots
    <3> QED
      BY <3>4 DEF Go!GoNext
  <2>5. CASE ~Acknowledged
    <3>1. Goto(t, "send_end_wait")
      BY <1>3, <2>5 DEF AckEnter
    <3>2. Statuses' = Statuses
      BY <2>1, <3>1, SameStatus, LabelStatus DEF AckPcs
    <3> QED
      BY <2>1, <2>3, <3>2 DEF Silent
  <2> QED
    BY <2>4, <2>5
<1>4. CASE RecvFront(t)
  <2>1. CASE m_queue = <<>>
    <3>1. Goto(t, "recv_wait") /\ UNCHANGED <<m_queue, calls, item>>
      BY <1>4, <2>1 DEF RecvFront, queue, local
    <3>2. Statuses' = Statuses
      BY <1>4, <3>1, SameStatus, LabelStatus DEF RecvFront, RecvPcs
    <3>3. Gots' = Gots
      BY <1>4, <3>1, GotoPc, GotsKept DEF RecvFront, Posts
    <3> QED
      BY <3>1, <3>2, <3>3 DEF Silent
  <2>2. CASE MoveFront(t) /\ Goto(t, "recv_post")
    <3>1. pc[t] \in RecvPcs /\ pc[t] \in Empties
      BY <1>4, RecvLabels DEF RecvFront, RecvPcs
    <3>2. StatusOf("recv_post") = StatusOf(pc[t])
      BY <3>1, LabelStatus DEF RecvPcs
    <3> QED
      BY <2>2, <3>1, <3>2, MoveSilent DEF Posts
  <2> QED
    BY <1>1, <1>4, <2>1, <2>2 DEF RecvFront, Abort, queue
<1>5. CASE RecvPost(t)
  <2>1. CASE Pop(t, FALSE)
    <3>1. Go!Take(t)
      BY <1>5, <2>1, TakeStep DEF RecvPost, Pop, PopNotifies, local, Posts
    <3> QED
      BY <3>1 DEF Go!GoNext
  <2> QED
    BY <1>1, <1>5, <2>1 DEF RecvPost, Abort, queue
<1>6. CASE RecvThrow(t)
  BY <1>6 DEF RecvThrow
<1>7. CASE TrySendEnter(t)
  <2>1. CASE m_is_try_recv_ready
    BY <1>1, <1>7, <2>1 DEF TrySendEnter, Abort, queue
  <2>2. CASE ~m_is_try_recv_ready /\ CannotOffer
    <3>1. /\ pc[t] = "try_send_enter" /\ UNCHANGED <<m_queue, calls, item>>
          /\ Goto(t, "try_send_lock") \/ Goto(t, "idle")
      BY <1>7, <2>2 DEF TrySendEnter, AttemptFailed, queue, local
    <3>2. Gots' = Gots
      BY <3>1, GotoPc, GotsKept DEF Posts
    <3>3. CASE Goto(t, "try_send_lock")
      <4>1. Statuses' = Statuses
        BY <3>1, <3>3, SameStatus, LabelStatus DEF TrySendPcs
      <4> QED
        BY <3>1, <3>2, <4>1 DEF Silent
    <3>4. CASE Goto(t, "idle")
      <4>1. Go!Become(t, "idle") /\ Statuses[t] = "offering"
        BY <3>1, <3>4, BecomeStep, LabelStatus DEF Statuses, TrySendPcs
      <4>2. Go!GiveUp(t)
        BY <3>1, <3>2, <4>1 DEF Go!GiveUp, Statuses, Gots
      <4> QED
        BY <4>2 DEF Go!GoNext
    <3> QED
      BY <3>1, <3>3, <3>4
  <2>3. CASE /\ ~m_is_try_recv_ready /\ ~CannotOffer
             /\ Len(m_queue) < N \/ m_is_recv_ready
    <3>1. /\ pc[t] = "try_send_enter" /\ Goto(t, "try_send_notify")
          /\ Enqueue(t) /\ UNCHANGED <<calls, item>>
      BY <1>7, <2>3 DEF TrySendEnter, local
    <3>2. Gots' = Gots
      BY <3>1, GotoPc, GotsKept DEF Posts
    <3>3. Go!Become(t, "idle") /\ Statuses[t] = "offering"
      BY <3>1, BecomeStep, LabelStatus DEF Statuses, TrySendPcs
    <3>4. MaySend /\ Len(m_queue) <= N
      BY <2>3 DEF CannotOffer, MaySend, is_full
    <3>5. Go!NobodyHanding
      BY <3>4, NobodyHandingStep DEF MaySend
    <3>6. \/ Len(m_queue) < N
          \/ Len(m_queue) = N /\ \E r \in Threads : Statuses[r] = "receiving"
      <4>1. m_is_recv_ready => \E r \in Threads : pc[r] \in RecvPcs
        BY DEF OfferHasReceiver, ReceiverFor, RecvPcs
      <4>2. m_is_recv_ready => \E r \in Threads : Statuses[r] = "receiving"
        BY <4>1, LabelStatus DEF Statuses
      <4> QED
        BY <2>3, <3>4, <4>2
    <3>7. Go!Append1(t)
      BY <3>1 DEF Go!Append1, Enqueue
    <3>8. Go!Offer(t)
      BY <3>1, <3>2, <3>3, <3>5, <3>6, <3>7 DEF Go!Offer, Statuses, Gots
    <3> QED
      BY <3>8 DEF Go!GoNext
  <2> QED
    BY <1>1, <1>7, <2>1, <2>2, <2>3 DEF TrySendEnter, Abort, queue
<1>8. CASE TryRecvEnter(t)
  <2>1. CASE m_queue = <<>>
    <3>1. /\ pc[t] = "try_recv_enter" /\ Goto(t, "try_recv_false")
          /\ UNCHANGED <<m_queue, calls, item>>
      BY <1>8, <2>1 DEF TryRecvEnter, queue, local
    <3>2. Statuses' = Statuses
      BY <3>1, SameStatus, LabelStatus DEF TryRecvPcs
    <3>3. Gots' = Gots
      BY <3>1, GotoPc, GotsKept DEF Posts
    <3> QED
      BY <3>1, <3>2, <3>3 DEF Silent
  <2>2. CASE MoveFront(t) /\ Goto(t, "try_recv_post")
    <3>1. pc[t] \in TryRecvPcs /\ pc[t] \in Empties
      BY <1>8, RecvLabels DEF TryRecvEnter, TryRecvPcs
    <3>2. StatusOf("try_recv_post") = StatusOf(pc[t])
      BY <3>1, LabelStatus DEF TryRecvPcs
    <3> QED
      BY <2>2, <3>1, <3>2, MoveSilent DEF Posts
  <2> QED
    BY <1>1, <1>8, <2>1, <2>2 DEF TryRecvEnter, Abort, queue
<1>9. CASE TryRecvFalse(t)
  <2>1. /\ pc[t] = "try_recv_false" /\ UNCHANGED <<m_queue, calls, item>>
        /\ Goto(t, "try_recv_lock") \/ Goto(t, "idle")
    BY <1>9 DEF TryRecvFalse, AttemptFailed, queue, local
  <2>2. Gots' = Gots
    BY <2>1, GotoPc, GotsKept DEF Posts
  <2>3. CASE Goto(t, "try_recv_lock")
    <3>1. Statuses' = Statuses
      BY <2>1, <2>3, SameStatus, LabelStatus DEF TryRecvPcs
    <3> QED
      BY <2>1, <2>2, <3>1 DEF Silent
  <2>4. CASE Goto(t, "idle")
    <3>1. Go!Become(t, "idle") /\ Statuses[t] = "polling"
      BY <2>1, <2>4, BecomeStep, LabelStatus DEF Statuses, TryRecvPcs
    <3>2. Go!GiveUp(t)
      BY <2>1, <2>2, <3>1 DEF Go!GiveUp, Statuses, Gots
    <3> QED
      BY <3>2 DEF Go!GoNext
  <2> QED
    BY <2>1, <2>3, <2>4
<1>10. CASE TryRecvPost(t)
  <2>1. CASE Pop(t, m_is_recv_ready)
    <3>1. Go!Take(t)
      BY <1>10, <2>1, TakeStep DEF TryRecvPost, Pop, PopNotifies, local, Posts
    <3> QED
      BY <3>1 DEF Go!GoNext
  <2> QED
    BY <1>1, <1>10, <2>1 DEF TryRecvPost, Abort, queue
<1>11. CASE SendThrow(t) \/ TrySendThrow(t)
  <2>1. /\ Goto(t, "idle") /\ UNCHANGED <<m_queue, calls, item>>
        /\ pc[t] \in {"send_enter", "try_send_enter"}
        /\ t \in SendThrowThreads
    BY <1>11 DEF SendThrow, TrySendThrow, queue, local
  <2>2. Gots' = Gots
    BY <2>1, GotoPc, GotsKept DEF Posts
  <2>3. Go!Become(t, "idle")
    BY <2>1, BecomeStep, LabelStatus
  <2>4. CASE pc[t] = "send_enter"
    <3>1. Statuses[t] = "sending"
      BY <2>4, LabelStatus DEF Statuses, SendPcs
    <3>2. Go!PutFails(t)
      BY <2>1, <2>2, <2>3, <3>1 DEF Go!PutFails, Statuses, Gots
    <3> QED
      BY <3>2 DEF Go!GoNext
  <2>5. CASE pc[t] = "try_send_enter"
    <3>1. Statuses[t] = "offering"
      BY <2>5, LabelStatus DEF Statuses, TrySendPcs
    <3>2. Go!GiveUp(t)
      BY <2>1, <2>2, <2>3, <3>1 DEF Go!GiveUp, Statuses, Gots
    <3> QED
      BY <3>2 DEF Go!GoNext
  <2> QED
    BY <2>1, <2>4, <2>5
<1>12. CASE ValueLost(t)
  BY <1>12 DEF ValueLost
<1> QED
  BY <1>2, <1>3, <1>4, <1>5, <1>6, <1>7, <1>8, <1>9, <1>10, <1>11, <1>12
    DEF Section

LEMMA GoInitial == Init => Go!GoInit
BY LabelStatus DEF Init, Go!GoInit, Taken

\* When no receive throws, the locks, flags and condition variables amount to
\* the channel of GoChannel, for any number of threads and any buffer size.
THEOREM Implements == ThrowThreads = {} => (Spec => ImplementsGoChannel)
<1> SUFFICES ASSUME ThrowThreads = {} PROVE Spec => ImplementsGoChannel
  OBVIOUS
<1>1. Init => MutexInv /\ HandInv /\ OfferHasReceiver /\ RecvInv
  BY MutexInvInit, HandInvInit, OfferInit, RecvInit
<1>2. (MutexInv /\ HandInv /\ OfferHasReceiver /\ RecvInv) /\ [Next]_vars
        => (MutexInv /\ HandInv /\ OfferHasReceiver /\ RecvInv)'
  BY MutexInvStep, HandInvStep, OfferStep, RecvStep
<1>3. MutexInv /\ HandInv /\ OfferHasReceiver /\ RecvInv /\ [Next]_vars
        => [Go!GoNext]_(Go!gvars)
  <2> SUFFICES ASSUME MutexInv, HandInv, OfferHasReceiver, RecvInv, [Next]_vars
               PROVE  Go!GoNext \/ UNCHANGED Go!gvars
    OBVIOUS
  <2>1. CASE UNCHANGED vars
    <3>1. UNCHANGED <<m_queue, calls, item, pc>>
      BY <2>1 DEF vars, queue, local
    <3> QED
      BY <3>1, SilentStep, StatusesKept, GotsKept DEF Silent
  <2>2. ASSUME NEW t \in Threads, Quiet(t) PROVE Go!GoNext \/ Silent
    BY <2>2, QuietGo
  <2>3. ASSUME NEW t \in Threads, Section(t) PROVE Go!GoNext \/ Silent
    BY <2>3, SectionGo
  <2> QED
    BY <2>1, <2>2, <2>3, SilentStep, StepCases
<1> QED
  BY <1>1, <1>2, <1>3, GoInitial, PTL DEF Spec, ImplementsGoChannel, Go!GoSpec
=============================================================================
