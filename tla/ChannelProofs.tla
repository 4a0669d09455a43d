--------------------------- MODULE ChannelProofs ---------------------------
(***************************************************************************)
(* Type correctness and mutual exclusion of Channel, for any number of     *)
(* threads, any buffer size and any bound on the calls, and the facts      *)
(* about labels, notifications and the queue that the other proofs share.  *)
(***************************************************************************)
EXTENDS Channel, TLAPS

\* The queue is not empty while a receive is between moving its front element
\* out and popping it.
PostHasFront ==
  \A t \in Threads : pc[t] \in {"recv_post", "try_recv_post"} => m_queue # <<>>

\* TypeOK is not inductive alone: that the tail popped is that of a nonempty
\* queue is PostHasFront, which needs the lock.
MutexInv == TypeOK /\ LockOwnership /\ PostHasFront

-----------------------------------------------------------------------------
(* Labels and program counters.                                            *)

\* All labels, spelled out.
LEMMA Labels ==
  Pcs = {"idle", "send_lock", "send_enter", "send_begin_wait",
         "send_notify", "ack_lock", "ack_enter", "send_end_wait",
         "recv_lock", "recv_enter", "recv_wait", "recv_relock",
         "recv_recheck", "recv_post", "try_send_lock", "try_send_enter",
         "try_recv_lock", "try_recv_enter", "try_recv_false",
         "try_recv_post", "try_send_notify", "notify_begin", "notify_end"}
BY DEF Pcs, SendPcs, AckPcs, RecvPcs, TrySendPcs, TryRecvPcs, NotifyPcs

\* Goto moves one thread.
LEMMA GotoPc ==
  ASSUME pc \in [Threads -> Pcs], NEW t \in Threads, NEW l \in Pcs, Goto(t, l)
  PROVE  /\ pc' \in [Threads -> Pcs]
         /\ pc'[t] = l
         /\ \A u \in Threads : u # t => pc'[u] = pc[u]
BY DEF Goto

\* A notification moves the notifying thread and at most one that waits.
LEMMA NotifyPc ==
  ASSUME pc \in [Threads -> Pcs], NEW t \in Threads,
         NEW from, NEW w, NEW woken \in Pcs, NEW to \in Pcs,
         from # w, Notify(t, from, w, woken, to)
  PROVE  /\ pc' \in [Threads -> Pcs]
         /\ pc[t] = from /\ pc'[t] = to
         /\ UNCHANGED <<m_mutex, queue, flags, local>>
         /\ \/ /\ \A u \in Threads : pc[u] # w
               /\ \A u \in Threads : u # t => pc'[u] = pc[u]
            \/ \E v \in Threads :
                 /\ v # t /\ pc[v] = w /\ pc'[v] = woken
                 /\ \A u \in Threads : u # t /\ u # v => pc'[u] = pc[u]
<1>1. CASE \E u \in Threads : pc[u] = w
  <2>1. PICK v \in Threads : pc[v] = w /\ pc' = [pc EXCEPT ![t] = to, ![v] = woken]
    BY <1>1 DEF Notify
  <2>2. pc[t] = from /\ v # t /\ UNCHANGED <<m_mutex, queue, flags, local>>
    BY <2>1 DEF Notify
  <2> QED BY <2>1, <2>2
<1>2. CASE ~ \E u \in Threads : pc[u] = w
  <2>1. Goto(t, to) /\ pc[t] = from /\ UNCHANGED <<m_mutex, queue, flags, local>>
    BY <1>2 DEF Notify
  <2>2. \A u \in Threads : pc[u] # w
     BY <1>2
  <2> QED
    BY <2>1, <2>2, GotoPc
<1> QED BY <1>1, <1>2

\* The same, thread by thread; a notification is lost only if nobody waits.
Moved(t, from, w, woken, to) ==
  /\ pc[t] = from /\ pc'[t] = to
  /\ UNCHANGED <<m_mutex, queue, flags, local>>
  /\ \A u \in Threads : \/ u = t
                        \/ pc'[u] = pc[u]
                        \/ pc[u] = w /\ pc'[u] = woken
  /\ \/ \A u \in Threads : pc[u] # w
     \/ \E v \in Threads : pc[v] = w /\ pc'[v] = woken

LEMMA NotifyMoves ==
  ASSUME pc \in [Threads -> Pcs], NEW t \in Threads,
         NEW from, NEW w, NEW woken \in Pcs, NEW to \in Pcs,
         from # w, Notify(t, from, w, woken, to)
  PROVE  Moved(t, from, w, woken, to)
<1>1. CASE \A u \in Threads : pc[u] # w /\ (u # t => pc'[u] = pc[u])
  BY <1>1, NotifyPc DEF Moved
<1>2. CASE \E v \in Threads :
             /\ v # t /\ pc[v] = w /\ pc'[v] = woken
             /\ \A u \in Threads : u # t /\ u # v => pc'[u] = pc[u]
  <2>1. PICK v \in Threads :
             /\ v # t /\ pc[v] = w /\ pc'[v] = woken
             /\ \A u \in Threads : u # t /\ u # v => pc'[u] = pc[u]
    BY <1>2
  <2>2. \A u \in Threads : \/ u = t
                           \/ pc'[u] = pc[u]
                           \/ pc[u] = w /\ pc'[u] = woken
    BY <2>1
  <2>3. pc[t] = from /\ pc'[t] = to /\ UNCHANGED <<m_mutex, queue, flags, local>>
    BY NotifyPc
  <2> QED
    BY <2>1, <2>2, <2>3 DEF Moved
<1> QED
  BY <1>1, <1>2, NotifyPc

-----------------------------------------------------------------------------
(* The queue and the values received.                                      *)

\* Enqueue adds one element, sent by the calling thread, at the end.
LEMMA EnqueueFacts ==
  ASSUME m_queue \in Seq(Message), calls \in [Threads -> Nat], NEW t \in Threads, Enqueue(t)
  PROVE /\ m_queue' \in Seq(Message) /\ Len(m_queue') = Len(m_queue) + 1 /\ m_queue' # <<>>
        /\ \A i \in 1..Len(m_queue) : m_queue'[i] = m_queue[i]
        /\ m_queue'[Len(m_queue) + 1].from = t
        /\ moved' = moved
<1> DEFINE e == [from |-> t, id |-> calls[t]]
<1>1. e \in Message
  BY DEF Message
<1>2. m_queue' = Append(m_queue, e) /\ moved' = moved
  BY DEF Enqueue
<1>3. e.from = t
  OBVIOUS
<1> HIDE DEF e
<1> QED BY <1>1, <1>2, <1>3

\* Popping the front of a nonempty queue.
LEMMA TailFacts ==
  ASSUME NEW S, NEW q \in Seq(S), q # <<>>
  PROVE /\ Tail(q) \in Seq(S)
        /\ Len(Tail(q)) = Len(q) - 1
        /\ Len(q) \in Nat \ {0}
        /\ Head(q) \in S
        /\ Head(q) = q[1]
        /\ \A i \in 1..Len(Tail(q)) : Tail(q)[i] = q[i + 1]
OBVIOUS

\* The value moved out is a message.
LEMMA MoveFrontFacts ==
  ASSUME TypeOK, m_queue # <<>>, NEW t \in Threads, MoveFront(t)
  PROVE item' \in [Threads -> Message \cup {NoMsg}]
<1>1. Head(m_queue) \in Message
  BY TailFacts DEF TypeOK
<1>2. [Head(m_queue) EXCEPT !.id = 0] \in Message
  BY <1>1 DEF Message
<1>3. item \in [Threads -> Message \cup {NoMsg}]
   BY DEF TypeOK
<1> QED BY <1>1, <1>2, <1>3 DEF MoveFront

\* What a call that begins changes.
LEMMA CallFacts ==
  ASSUME TypeOK, NEW t \in Threads, NEW S, NEW l, Call(t, S, l)
  PROVE /\ calls' \in [Threads -> Nat]
        /\ item' \in [Threads -> Message \cup {NoMsg}]
<1>1. item \in [Threads -> Message \cup {NoMsg}]
   BY DEF TypeOK
<1>2. item' = [item EXCEPT ![t] = NoMsg]
   BY DEF Call
<1>3. calls' \in [Threads -> Nat]
   BY DEF Call, TypeOK
<1> HIDE DEF NoMsg, Message
<1> QED BY <1>1, <1>2, <1>3

-----------------------------------------------------------------------------
(* Type correctness and mutual exclusion.                                  *)

LEMMA MutexInvInit == Init => MutexInv
<1> SUFFICES ASSUME Init PROVE MutexInv
  OBVIOUS
<1> USE DEF Init
<1>0. m_queue \in Seq(Message)
  OBVIOUS
<1>1. pc \in [Threads -> Pcs]
  BY Labels
<1>2. item \in [Threads -> Message \cup {NoMsg}] /\ calls \in [Threads -> Nat]
  OBVIOUS
<1>3. TypeOK
  BY <1>0, <1>1, <1>2 DEF TypeOK, Failures
<1>4. LockOwnership
  BY ChannelAssumption DEF LockOwnership, LockedPcs
<1>5. PostHasFront
  BY DEF PostHasFront
<1> QED
  BY <1>3, <1>4, <1>5 DEF MutexInv

\* Beginning a call takes no lock.
LEMMA CallMutexInv ==
  ASSUME MutexInv, NEW t \in Threads, NEW S, NEW l \in Pcs \ LockedPcs,
         Call(t, S, l)
  PROVE  MutexInv'
<1> USE DEF MutexInv, Call, queue, flags
<1>1. /\ pc \in [Threads -> Pcs] /\ pc' \in [Threads -> Pcs]
      /\ pc'[t] = l /\ \A u \in Threads : u # t => pc'[u] = pc[u]
  BY GotoPc DEF TypeOK
<1>2. TypeOK'
  BY <1>1, CallFacts DEF TypeOK
<1>3. LockOwnership'
  BY <1>1 DEF LockOwnership, LockedPcs
<1>4. PostHasFront'
  BY <1>1 DEF PostHasFront, LockedPcs
<1> QED
  BY <1>2, <1>3, <1>4

\* Taking the lock, whether it has to be waited for or not.
LEMMA LockMutexInv ==
  ASSUME MutexInv, NEW t \in Threads, NEW from \in Pcs \ LockedPcs,
         NEW to \in (Pcs \cap LockedPcs) \ {"recv_post", "try_recv_post"},
         from # "idle",
         Lock(t, from, to) \/ TryLock(t, from, to)
  PROVE  MutexInv'
<1> USE DEF MutexInv, Lock, TryLock, AttemptFailed, queue, flags, local
<1>1. /\ pc \in [Threads -> Pcs] /\ pc' \in [Threads -> Pcs]
      /\ \A u \in Threads : u # t => pc'[u] = pc[u]
      /\ \/ m_mutex = NoThread /\ m_mutex' = t /\ pc'[t] = to
         \/ m_mutex' = m_mutex /\ pc'[t] \in {from, "idle"}
  BY GotoPc, Labels DEF TypeOK
<1>2. TypeOK'
  BY <1>1 DEF TypeOK
<1>3. LockOwnership'
  BY <1>1, ChannelAssumption DEF LockOwnership, LockedPcs
<1>4. PostHasFront'
  BY <1>1 DEF PostHasFront, LockedPcs
<1> QED
  BY <1>2, <1>3, <1>4

\* Notifying takes no lock, and neither does waking up.
LEMMA NotifyMutexInv ==
  ASSUME MutexInv, NEW t \in Threads, NEW from \in Pcs \ LockedPcs,
         NEW w \in Pcs \ LockedPcs, NEW woken \in Pcs \ LockedPcs,
         NEW to \in Pcs \ LockedPcs, from # w, Notify(t, from, w, woken, to)
  PROVE  MutexInv'
<1>1. /\ pc \in [Threads -> Pcs] /\ pc' \in [Threads -> Pcs]
      /\ UNCHANGED <<m_mutex, queue, flags, local>>
      /\ \A u \in Threads : \/ pc'[u] = pc[u]
                            \/ pc[u] \notin LockedPcs /\ pc'[u] \notin LockedPcs
  <2>1. pc \in [Threads -> Pcs]
    BY DEF MutexInv, TypeOK
  <2>2. woken \in Pcs /\ to \in Pcs
    OBVIOUS
  <2>3. \A u \in Threads : \/ u = t
                           \/ pc'[u] = pc[u]
                           \/ pc[u] = w /\ pc'[u] = woken
    BY <2>1, <2>2, NotifyMoves DEF Moved
  <2>4. pc[t] = from
    BY <2>1, <2>2, NotifyPc
  <2>5. pc'[t] = to
    BY <2>1, <2>2, NotifyPc
  <2>6. UNCHANGED <<m_mutex, queue, flags, local>>
    BY <2>1, <2>2, NotifyPc
  <2>7. pc' \in [Threads -> Pcs]
    BY <2>1, <2>2, NotifyPc
  <2> QED
    BY <2>1, <2>3, <2>4, <2>5, <2>6, <2>7
<1>2. TypeOK'
  BY <1>1 DEF MutexInv, TypeOK, queue, flags, local
<1>3. LockOwnership'
  BY <1>1 DEF MutexInv, LockOwnership
<1>4. PostHasFront'
  BY <1>1 DEF MutexInv, PostHasFront, LockedPcs, queue
<1> QED
  BY <1>2, <1>3, <1>4 DEF MutexInv

\* A step inside a critical section keeps the lock, releases it, or ends the
\* program.
LEMMA SectionMutexInv ==
  ASSUME MutexInv, NEW t \in Threads,
         \/ SendEnter(t) \/ SendThrow(t) \/ AckEnter(t) \/ RecvFront(t)
         \/ RecvPost(t) \/ RecvThrow(t) \/ TrySendEnter(t) \/ TrySendThrow(t)
         \/ TryRecvEnter(t) \/ TryRecvFalse(t) \/ TryRecvPost(t)
         \/ SpuriousWakeup(t) \/ ValueLost(t)
  PROVE  MutexInv'
<1> USE DEF MutexInv, queue, flags, local
<1>0. pc \in [Threads -> Pcs] /\ m_queue \in Seq(Message)
  BY DEF TypeOK
<1>1. CASE SendEnter(t)
  <2> USE <1>0, <1>1 DEF SendEnter, Unlock, Abort
  <2>1. /\ pc' \in [Threads -> Pcs]
        /\ \A u \in Threads : u # t => pc'[u] = pc[u]
    BY GotoPc, Labels
  <2>2. TypeOK'
    BY <2>1, EnqueueFacts DEF TypeOK, Failures
  <2>3. LockOwnership'
    BY <2>1, GotoPc, Labels, ChannelAssumption DEF LockOwnership, LockedPcs
  <2>4. PostHasFront'
    BY <2>1, GotoPc, Labels, EnqueueFacts DEF LockOwnership, LockedPcs, PostHasFront
  <2> QED
    BY <2>2, <2>3, <2>4
<1>2. CASE AckEnter(t)
  <2> USE <1>0, <1>2 DEF AckEnter, Unlock
  <2>1. /\ pc' \in [Threads -> Pcs]
        /\ \A u \in Threads : u # t => pc'[u] = pc[u]
    BY GotoPc, Labels
  <2>2. TypeOK'
    BY <2>1 DEF TypeOK, Failures
  <2>3. LockOwnership'
    BY <2>1, GotoPc, Labels, ChannelAssumption DEF LockOwnership, LockedPcs
  <2>4. PostHasFront'
    BY <2>1, GotoPc, Labels DEF LockOwnership, LockedPcs, PostHasFront
  <2> QED
    BY <2>2, <2>3, <2>4
<1>3. CASE RecvFront(t)
  <2> USE <1>0, <1>3 DEF RecvFront, Unlock, Abort, Announce
  <2>1. /\ pc' \in [Threads -> Pcs]
        /\ \A u \in Threads : u # t => pc'[u] = pc[u]
    BY GotoPc, Labels
  <2>2. TypeOK'
    BY <2>1, MoveFrontFacts, ZenonT(60) DEF TypeOK, Failures, MoveFront
  <2>3. LockOwnership'
    BY <2>1, GotoPc, Labels, ChannelAssumption DEF LockOwnership, LockedPcs
  <2>4. PostHasFront'
    BY <2>1, GotoPc, Labels, MoveFrontFacts DEF LockOwnership, LockedPcs, PostHasFront, MoveFront
  <2> QED
    BY <2>2, <2>3, <2>4
<1>4. CASE RecvPost(t)
  <2> USE <1>0, <1>4 DEF RecvPost, Abort, Pop, ResetHandshake, PopNotifies, Unlock
  <2>1. /\ pc' \in [Threads -> Pcs]
        /\ \A u \in Threads : u # t => pc'[u] = pc[u]
    BY GotoPc, Labels
  <2>2. TypeOK'
    BY <2>1, TailFacts, ZenonT(60) DEF TypeOK, Failures, PostHasFront
  <2>3. LockOwnership'
    BY <2>1, GotoPc, Labels, ChannelAssumption DEF LockOwnership, LockedPcs
  <2>4. PostHasFront'
    BY <2>1, GotoPc, Labels, TailFacts DEF LockOwnership, LockedPcs, PostHasFront
  <2> QED
    BY <2>2, <2>3, <2>4
<1>5. CASE RecvThrow(t)
  <2> USE <1>0, <1>5 DEF RecvThrow, Unlock
  <2>1. /\ pc' \in [Threads -> Pcs]
        /\ \A u \in Threads : u # t => pc'[u] = pc[u]
    BY GotoPc, Labels
  <2>2. TypeOK'
    BY <2>1 DEF TypeOK, Failures
  <2>3. LockOwnership'
    BY <2>1, GotoPc, Labels, ChannelAssumption DEF LockOwnership, LockedPcs
  <2>4. PostHasFront'
    BY <2>1, GotoPc, Labels DEF LockOwnership, LockedPcs, PostHasFront
  <2> QED
    BY <2>2, <2>3, <2>4
<1>6. CASE TrySendEnter(t)
  <2> USE <1>0, <1>6 DEF TrySendEnter, Abort, AttemptFailed, Unlock
  <2>1. /\ pc' \in [Threads -> Pcs]
        /\ \A u \in Threads : u # t => pc'[u] = pc[u]
    BY GotoPc, Labels
  <2>2. m_queue' \in Seq(Message)
    BY EnqueueFacts DEF TypeOK
  <2>3. m_is_try_send_done' \in BOOLEAN
    <3>1. (Len(m_queue) < N) \in BOOLEAN
      OBVIOUS
    <3>2. \/ m_is_try_send_done' = m_is_try_send_done
          \/ m_is_try_send_done' = (Len(m_queue) < N)
      BY Zenon
    <3> QED
      BY <3>1, <3>2, Zenon DEF TypeOK
  <2>4. TypeOK'
    BY <2>1, <2>2, <2>3 DEF TypeOK, Failures, Enqueue
  <2>5. LockOwnership'
    BY <2>1, GotoPc, Labels, ChannelAssumption DEF LockOwnership, LockedPcs
  <2>6. PostHasFront'
    BY <2>1, GotoPc, Labels, EnqueueFacts DEF LockOwnership, LockedPcs, PostHasFront
  <2> QED
    BY <2>4, <2>5, <2>6
<1>7. CASE TryRecvEnter(t)
  <2> USE <1>0, <1>7 DEF TryRecvEnter, Abort
  <2>1. /\ pc' \in [Threads -> Pcs]
        /\ \A u \in Threads : u # t => pc'[u] = pc[u]
    BY GotoPc, Labels
  <2>2. TypeOK'
    BY <2>1, MoveFrontFacts, ZenonT(60) DEF TypeOK, Failures, MoveFront
  <2>3. LockOwnership'
    BY <2>1, GotoPc, Labels, ChannelAssumption DEF LockOwnership, LockedPcs
  <2>4. PostHasFront'
    BY <2>1, GotoPc, Labels, MoveFrontFacts DEF LockOwnership, LockedPcs, PostHasFront, MoveFront
  <2> QED
    BY <2>2, <2>3, <2>4
<1>8. CASE TryRecvFalse(t)
  <2> USE <1>0, <1>8 DEF TryRecvFalse, AttemptFailed, Unlock
  <2>1. /\ pc' \in [Threads -> Pcs]
        /\ \A u \in Threads : u # t => pc'[u] = pc[u]
    BY GotoPc, Labels
  <2>2. TypeOK'
    BY <2>1 DEF TypeOK, Failures
  <2>3. LockOwnership'
    BY <2>1, GotoPc, Labels, ChannelAssumption DEF LockOwnership, LockedPcs
  <2>4. PostHasFront'
    BY <2>1, GotoPc, Labels DEF LockOwnership, LockedPcs, PostHasFront
  <2> QED
    BY <2>2, <2>3, <2>4
<1>9. CASE TryRecvPost(t)
  <2> USE <1>0, <1>9 DEF TryRecvPost, Abort, Pop, ResetHandshake, PopNotifies, Unlock
  <2>1. /\ pc' \in [Threads -> Pcs]
        /\ \A u \in Threads : u # t => pc'[u] = pc[u]
    BY GotoPc, Labels
  <2>2. TypeOK'
    BY <2>1, TailFacts, ZenonT(60) DEF TypeOK, Failures, PostHasFront
  <2>3. LockOwnership'
    BY <2>1, GotoPc, Labels, ChannelAssumption DEF LockOwnership, LockedPcs
  <2>4. PostHasFront'
    BY <2>1, GotoPc, Labels, TailFacts DEF LockOwnership, LockedPcs, PostHasFront
  <2> QED
    BY <2>2, <2>3, <2>4
<1>10. CASE SpuriousWakeup(t)
  <2> USE <1>0, <1>10 DEF SpuriousWakeup
  <2>1. /\ pc' \in [Threads -> Pcs]
        /\ \A u \in Threads : u # t => pc'[u] = pc[u]
    BY GotoPc, Labels
  <2>2. TypeOK'
    BY <2>1 DEF TypeOK, Failures
  <2>3. LockOwnership'
    BY <2>1, GotoPc, Labels, ChannelAssumption DEF LockOwnership, LockedPcs
  <2>4. PostHasFront'
    BY <2>1, GotoPc, Labels DEF LockOwnership, LockedPcs, PostHasFront
  <2> QED
    BY <2>2, <2>3, <2>4
<1>11. CASE SendThrow(t)
  <2> USE <1>0, <1>11 DEF SendThrow, Unlock
  <2>1. /\ pc' \in [Threads -> Pcs]
        /\ \A u \in Threads : u # t => pc'[u] = pc[u]
    BY GotoPc, Labels
  <2>2. TypeOK'
    BY <2>1 DEF TypeOK, Failures
  <2>3. LockOwnership'
    BY <2>1, GotoPc, Labels, ChannelAssumption DEF LockOwnership, LockedPcs
  <2>4. PostHasFront'
    BY <2>1, GotoPc, Labels DEF LockOwnership, LockedPcs, PostHasFront
  <2> QED
    BY <2>2, <2>3, <2>4
<1>12. CASE TrySendThrow(t)
  <2> USE <1>0, <1>12 DEF TrySendThrow, Unlock
  <2>1. /\ pc' \in [Threads -> Pcs]
        /\ \A u \in Threads : u # t => pc'[u] = pc[u]
    BY GotoPc, Labels
  <2>2. m_is_try_send_done' \in BOOLEAN
    <3>1. (Len(m_queue) < N) \in BOOLEAN
      OBVIOUS
    <3> QED
      BY <3>1, Zenon
  <2>3. TypeOK'
    BY <2>1, <2>2 DEF TypeOK, Failures
  <2>4. LockOwnership'
    BY <2>1, GotoPc, Labels, ChannelAssumption DEF LockOwnership, LockedPcs
  <2>5. PostHasFront'
    BY <2>1, GotoPc, Labels DEF LockOwnership, LockedPcs, PostHasFront
  <2> QED
    BY <2>3, <2>4, <2>5
<1>13. CASE ValueLost(t)
  <2>1. UNCHANGED <<m_mutex, queue, flags, pc, calls, failed>>
    BY <1>13 DEF ValueLost
  <2>2. item' \in [Threads -> Message \cup {NoMsg}]
    <3>1. item \in [Threads -> Message \cup {NoMsg}]
      BY DEF TypeOK
    <3>2. item' = [item EXCEPT ![t] = NoMsg]
      BY <1>13 DEF ValueLost
    <3> HIDE DEF NoMsg, Message
    <3> QED
      BY <3>1, <3>2
  <2> QED
    BY <2>1, <2>2 DEF TypeOK, LockOwnership, PostHasFront
<1> QED
  BY <1>1, <1>2, <1>3, <1>4, <1>5, <1>6, <1>7, <1>8, <1>9, <1>10, <1>11, <1>12,
    <1>13

\* Every step keeps the mutex invariant.
LEMMA MutexInvStep == MutexInv /\ [Next]_vars => MutexInv'
<1> SUFFICES ASSUME MutexInv, [Next]_vars PROVE MutexInv'
  OBVIOUS
<1>1. CASE UNCHANGED vars
  BY <1>1 DEF vars, queue, flags, local, MutexInv, TypeOK, LockOwnership,
    PostHasFront
<1>2. ASSUME NEW t \in Threads, Calls(t) PROVE MutexInv'
  BY <1>2, CallMutexInv, Labels
    DEF Calls, CallSend, CallRecv, CallTrySend, CallTryRecv, LockedPcs
<1>3. ASSUME NEW t \in Threads, Locks(t) \/ TryLocks(t) PROVE MutexInv'
  BY <1>3, LockMutexInv, Labels
    DEF Locks, SendLock, AckLock, RecvLock, RecvRelock, TryLocks, TrySendLock,
      TryRecvLock, LockedPcs
<1>4. ASSUME NEW t \in Threads,
             \/ SendNotify(t) \/ NotifyBegin(t) \/ NotifyEnd(t)
             \/ TrySendNotify(t)
      PROVE  MutexInv'
  BY <1>4, NotifyMutexInv, Labels
    DEF SendNotify, NotifyBegin, NotifyEnd, TrySendNotify, LockedPcs
<1> QED
  BY <1>1, <1>2, <1>3, <1>4, SectionMutexInv DEF Next, Steps

\* The state stays within its types, a thread owns the mutex exactly while it
\* is inside a critical section, and a receive pops the element it moved out.
THEOREM MutexCorrect == Spec => []MutexInv
<1> QED
  BY MutexInvInit, MutexInvStep, PTL DEF Spec

\* The variables keep their types.
THEOREM TypeCorrect == Spec => []TypeOK
<1>1. MutexInv => TypeOK
  BY DEF MutexInv
<1> QED
  BY <1>1, MutexCorrect, PTL

\* The mutex is held exactly inside the critical sections.
THEOREM LockOwned == Spec => []LockOwnership
<1>1. MutexInv => LockOwnership
  BY DEF MutexInv
<1> QED
  BY <1>1, MutexCorrect, PTL
=============================================================================
