------------------------------ MODULE Channel ------------------------------
(***************************************************************************)
(* The blocking channel gloc::internal::_channel<T, N> of                  *)
(* include/gloc/channel.hpp: one mutex, three condition variables, a deque *)
(* of (sender, value) pairs and five flags, used by blocking send()/recv() *)
(* and by the nonblocking try_send()/try_recv_ptr() that gloc::select      *)
(* calls after a try_lock().                                               *)
(*                                                                         *)
(* A step is one critical section, or one lock acquisition, or one         *)
(* notify_one().  A receive holds the lock over two steps: it moves the    *)
(* front element out, hands the value over, and only then pops the element.*)
(* A value may throw where it is put into the queue, where it is handed    *)
(* over, and where a call returns it after the pop; moving it out of the   *)
(* front into the local pair is taken not to throw.  A thread waiting on a *)
(* condition variable is one whose pc is the ..._wait label of that        *)
(* variable; a woken thread must take the lock again before it looks at    *)
(* its predicate.  A failed assert() ends the program (the build does not  *)
(* define NDEBUG): failed then names the assertion and nothing else moves. *)
(***************************************************************************)
EXTENDS Naturals, Sequences, FiniteSets

CONSTANTS
  Threads,         \* the threads that share the channel
  NoThread,        \* "nobody": the owner of a free mutex
  N,               \* the template argument: queue size, 0 is synchronous
  MaxCalls,        \* bound on the calls one thread makes
  SendThreads,     \* threads that call send()
  RecvThreads,     \* threads that call recv()
  TrySendThreads,  \* threads that send inside a select
  TryRecvThreads,  \* threads that receive inside a select
  SelectWaiters,   \* threads whose select calls are wait(), not try_once()
  ThrowThreads,    \* threads that may fail to take over a received value
  SendThrowThreads \* threads whose values may throw on the way into the queue

ASSUME ChannelAssumption ==
  /\ IsFiniteSet(Threads)
  /\ NoThread \notin Threads
  /\ N \in Nat
  /\ MaxCalls \in Nat
  /\ SendThreads \cup RecvThreads \subseteq Threads
  /\ TrySendThreads \cup TryRecvThreads \subseteq Threads
  /\ SelectWaiters \cup ThrowThreads \cup SendThrowThreads \subseteq Threads

VARIABLES
  m_mutex,              \* the thread that owns the mutex, or NoThread
  m_queue,              \* the deque, oldest element first
  moved,                \* the value of the front element has been moved out
  m_is_send_done,
  m_is_try_send_done,
  m_is_recv_ready,
  m_is_try_send_ready,
  m_is_try_recv_ready,
  pc,                   \* where each thread is
  item,                 \* the pair each thread last moved out of the front
  calls,                \* how many calls each thread has begun
  failed                \* "none", or the assertion that ended the program

flags == <<m_is_send_done, m_is_try_send_done, m_is_recv_ready,
           m_is_try_send_ready, m_is_try_recv_ready>>
local == <<item, calls, failed>>
queue == <<m_queue, moved>>
vars  == <<m_mutex, queue, flags, pc, local>>

Message == [from : Threads, id : Nat]
NoMsg   == [from |-> NoThread, id |-> 0]

SendPcs    == {"send_lock", "send_enter", "send_begin_wait"}
AckPcs     == {"send_notify", "ack_lock", "ack_enter", "send_end_wait"}
RecvPcs    == {"recv_lock", "recv_enter", "recv_wait", "recv_relock",
               "recv_recheck", "recv_post"}
TrySendPcs == {"try_send_lock", "try_send_enter"}
TryRecvPcs == {"try_recv_lock", "try_recv_enter", "try_recv_false",
               "try_recv_post"}
NotifyPcs  == {"try_send_notify", "notify_begin", "notify_end"}
Pcs        == {"idle"} \cup SendPcs \cup AckPcs \cup RecvPcs
                \cup TrySendPcs \cup TryRecvPcs \cup NotifyPcs

\* The labels at which a thread owns the mutex.
LockedPcs == {"send_enter", "ack_enter", "recv_enter", "recv_recheck",
              "recv_post", "try_send_enter", "try_recv_enter",
              "try_recv_false", "try_recv_post"}

Failures == {"none", "try_ready", "own_item", "full_without_sender",
             "two_senders", "still_full", "no_receiver"}

Init ==
  /\ m_mutex = NoThread
  /\ m_queue = <<>>
  /\ moved = FALSE
  /\ m_is_send_done = TRUE
  /\ m_is_try_send_done = TRUE
  /\ m_is_recv_ready = FALSE
  /\ m_is_try_send_ready = FALSE
  /\ m_is_try_recv_ready = FALSE
  /\ pc = [t \in Threads |-> "idle"]
  /\ item = [t \in Threads |-> NoMsg]
  /\ calls = [t \in Threads |-> 0]
  /\ failed = "none"

is_full      == Len(m_queue) > N
is_try_ready == m_is_try_recv_ready /\ m_is_try_send_ready

\* (Mutant: a send does not wait for the previous one.)
MaySend_IgnoringHandshake == m_is_try_send_done /\ ~is_full

\* The wait predicate of m_send_begin_cv.
MaySend == m_is_send_done /\ m_is_try_send_done /\ ~is_full

\* (Mutant: a send does not wait for its acknowledgement.)
Acknowledged_Always == TRUE

\* The wait predicate of m_send_end_cv.
Acknowledged == ~is_full

-----------------------------------------------------------------------------
(* Locks, notifications and assertions.                                    *)

Goto(t, label) == pc' = [pc EXCEPT ![t] = label]

Lock(t, from, to) ==
  /\ pc[t] = from
  /\ m_mutex = NoThread
  /\ m_mutex' = t
  /\ Goto(t, to)
  /\ UNCHANGED <<queue, flags, local>>

Unlock == m_mutex' = NoThread

\* notify_one(): one of the threads waiting at label w goes for the lock; a
\* notification nobody waits for is lost.
Notify(t, from, w, woken, to) ==
  /\ pc[t] = from
  /\ IF \E u \in Threads : pc[u] = w
       THEN \E u \in Threads :
              pc[u] = w /\ pc' = [pc EXCEPT ![t] = to, ![u] = woken]
       ELSE Goto(t, to)
  /\ UNCHANGED <<m_mutex, queue, flags, local>>

\* A wait may also end without a notification.
SpuriousWakeup(t) ==
  /\ \/ pc[t] = "send_begin_wait" /\ Goto(t, "send_lock")
     \/ pc[t] = "send_end_wait"   /\ Goto(t, "ack_lock")
     \/ pc[t] = "recv_wait"       /\ Goto(t, "recv_relock")
  /\ UNCHANGED <<m_mutex, queue, flags, local>>

Abort(assertion) ==
  /\ failed' = assertion
  /\ UNCHANGED <<m_mutex, queue, flags, pc, item, calls>>

\* A full queue has a _send() waiting for its acknowledgement, or try_send()
\* has just filled it.
FullHasSender == is_full => ~m_is_send_done \/ ~m_is_try_send_done

\* The front element is the receiving thread's own and the queue is full.
OwnItem(t) == is_full /\ Head(m_queue).from = t

\* (Mutant: the deque is filled at the wrong end.)
Enqueue_Front(t) ==
  /\ m_queue' = <<[from |-> t, id |-> calls[t]]>> \o m_queue
  /\ UNCHANGED moved

\* (Mutant: the element does not say who sent it.)
Enqueue_Anonymous(t) ==
  /\ m_queue' = Append(m_queue, [from |-> NoThread, id |-> calls[t]])
  /\ UNCHANGED moved

Enqueue(t) ==
  /\ m_queue' = Append(m_queue, [from |-> t, id |-> calls[t]])
  /\ UNCHANGED moved

\* The pair is moved out of the front, which stays in the queue: its thread id
\* is copied, its value is gone if an earlier receive has already moved it.
MoveFront(t) ==
  /\ item' = [item EXCEPT ![t] = IF moved THEN [Head(m_queue) EXCEPT !.id = 0]
                                          ELSE Head(m_queue)]
  /\ moved' = TRUE
  /\ UNCHANGED <<m_queue, calls, failed>>

\* A call begins; a receive starts with an empty result.
Call(t, callers, label) ==
  /\ pc[t] = "idle"
  /\ t \in callers
  /\ calls[t] < MaxCalls
  /\ calls' = [calls EXCEPT ![t] = @ + 1]
  /\ item' = [item EXCEPT ![t] = NoMsg]
  /\ Goto(t, label)
  /\ UNCHANGED <<m_mutex, queue, flags, failed>>

-----------------------------------------------------------------------------
(* Blocking send.                                                          *)

CallSend(t) == Call(t, SendThreads, "send_lock")

SendLock(t) == Lock(t, "send_lock", "send_enter")

\* The first block of _send(): wait for MaySend, then enqueue.
SendEnter(t) ==
  /\ pc[t] = "send_enter"
  /\ IF ~MaySend
       THEN /\ Goto(t, "send_begin_wait")
            /\ Unlock
            /\ UNCHANGED <<queue, flags, local>>
       ELSE IF is_try_ready THEN Abort("try_ready")
       ELSE /\ Enqueue(t)
            /\ m_is_send_done' = FALSE
            /\ Goto(t, "send_notify")
            /\ Unlock
            /\ UNCHANGED <<m_is_try_send_done, m_is_recv_ready,
                           m_is_try_send_ready, m_is_try_recv_ready, local>>

\* emplace_back() throws, and the unique_lock unlocks: the queue and the flags
\* are as before, but a notification this thread was woken by is spent.
SendThrow(t) ==
  /\ pc[t] = "send_enter"
  /\ t \in SendThrowThreads
  /\ MaySend /\ ~is_try_ready
  /\ Goto(t, "idle")
  /\ Unlock
  /\ UNCHANGED <<queue, flags, local>>

\* (Mutant: the notification of the receivers is forgotten.)
SendNotify_Missing(t) ==
  /\ pc[t] = "send_notify"
  /\ Goto(t, "ack_lock")
  /\ UNCHANGED <<m_mutex, queue, flags, local>>

SendNotify(t) ==
  Notify(t, "send_notify", "recv_wait", "recv_relock", "ack_lock")

AckLock(t) == Lock(t, "ack_lock", "ack_enter")

\* The second block of _send(): wait until the queue is no longer full.
AckEnter(t) ==
  /\ pc[t] = "ack_enter"
  /\ Unlock
  /\ IF Acknowledged
       THEN Goto(t, "notify_begin") /\ m_is_send_done' = TRUE
       ELSE Goto(t, "send_end_wait") /\ UNCHANGED m_is_send_done
  /\ UNCHANGED <<queue, m_is_try_send_done, m_is_recv_ready,
                 m_is_try_send_ready, m_is_try_recv_ready, local>>

\* (Mutant: the next send is not notified.)
NotifyBegin_Missing(t) ==
  /\ pc[t] = "notify_begin"
  /\ Goto(t, "idle")
  /\ UNCHANGED <<m_mutex, queue, flags, local>>

NotifyBegin(t) ==
  Notify(t, "notify_begin", "send_begin_wait", "send_lock", "idle")

NotifyEnd(t) == Notify(t, "notify_end", "send_end_wait", "ack_lock", "idle")

-----------------------------------------------------------------------------
(* Blocking receive.  The three overloads of recv() differ only in how     *)
(* they hand the value to the caller.                                      *)

CallRecv(t) == Call(t, RecvThreads, "recv_lock")

RecvLock(t) == Lock(t, "recv_lock", "recv_enter")

RecvRelock(t) == Lock(t, "recv_relock", "recv_recheck")

\* The ready flag is set once, before the wait: a receiver that wakes up does
\* not set it again.
Announce(t) == m_is_recv_ready' = (m_is_recv_ready \/ pc[t] = "recv_enter")

\* _pre_blocking_recv() and the move out of the front element.
RecvFront(t) ==
  /\ pc[t] \in {"recv_enter", "recv_recheck"}
  /\ IF m_queue = <<>>
       THEN /\ Goto(t, "recv_wait")
            /\ Unlock
            /\ Announce(t)
            /\ UNCHANGED <<queue, m_is_send_done, m_is_try_send_done,
                           m_is_try_send_ready, m_is_try_recv_ready, local>>
       ELSE IF is_try_ready THEN Abort("try_ready")
       ELSE IF OwnItem(t) THEN Abort("own_item")
       ELSE /\ MoveFront(t)
            /\ Goto(t, "recv_post")
            /\ Announce(t)
            /\ UNCHANGED <<m_mutex, m_is_send_done, m_is_try_send_done,
                           m_is_try_send_ready, m_is_try_recv_ready>>

\* (Mutant: a receive leaves the ready flag set.)
ResetHandshake_KeepReady(ready) ==
  /\ m_is_try_send_done' = TRUE
  /\ m_is_try_send_ready' = FALSE
  /\ m_is_try_recv_ready' = FALSE
  /\ UNCHANGED m_is_recv_ready

\* (Mutant: a receive does not take m_is_try_send_done back.)
ResetHandshake_KeepOffer(ready) ==
  /\ m_is_recv_ready' = ready
  /\ m_is_try_send_ready' = FALSE
  /\ m_is_try_recv_ready' = FALSE
  /\ UNCHANGED m_is_try_send_done

ResetHandshake(ready) ==
  /\ m_is_try_send_done' = TRUE
  /\ m_is_recv_ready' = ready
  /\ m_is_try_send_ready' = FALSE
  /\ m_is_try_recv_ready' = FALSE

\* (Mutants: one condition variable is always the one notified.)
PopNotifies_AlwaysBegin == "notify_begin"
PopNotifies_AlwaysEnd == "notify_end"

\* The variable to notify once the lock is released: that of a send waiting
\* for its acknowledgement if there is one, that of the next send otherwise.
PopNotifies == IF m_is_send_done THEN "notify_begin" ELSE "notify_end"

\* pop_front(), the flags of the protocol, unlock.
Pop(t, ready) ==
  /\ m_queue' = Tail(m_queue)
  /\ moved' = FALSE
  /\ ResetHandshake(ready)
  /\ Unlock
  /\ Goto(t, PopNotifies)
  /\ UNCHANGED <<m_is_send_done, local>>

\* _post_blocking_recv().
RecvPost(t) ==
  /\ pc[t] = "recv_post"
  /\ IF ~FullHasSender THEN Abort("full_without_sender")
     ELSE IF ~(m_is_try_send_done \/ m_is_send_done) THEN Abort("two_senders")
     ELSE IF Len(m_queue) - 1 > N THEN Abort("still_full")
     ELSE Pop(t, FALSE)

\* Assigning or allocating the value throws: the unique_lock unlocks and the
\* exception leaves the call with the element still in the queue.
RecvThrow(t) ==
  /\ pc[t] \in {"recv_post", "try_recv_post"}
  /\ t \in ThrowThreads
  /\ item' = [item EXCEPT ![t] = NoMsg]
  /\ Goto(t, "idle")
  /\ Unlock
  /\ UNCHANGED <<queue, flags, calls, failed>>

\* T recv() returns the value, and a select case assigns it, only after the
\* pop: when that throws, the value is lost to its receiver.
ValueLost(t) ==
  /\ pc[t] = "idle"
  /\ t \in ThrowThreads
  /\ item[t] # NoMsg
  /\ item' = [item EXCEPT ![t] = NoMsg]
  /\ UNCHANGED <<m_mutex, queue, flags, pc, calls, failed>>

-----------------------------------------------------------------------------
(* The cases of a select: one attempt after a try_lock(), repeated by      *)
(* wait() until it succeeds and given up after one round by try_once().    *)

CallTrySend(t) == Call(t, TrySendThreads, "try_send_lock")

CallTryRecv(t) == Call(t, TryRecvThreads, "try_recv_lock")

AttemptFailed(t, again) ==
  Goto(t, IF t \in SelectWaiters THEN again ELSE "idle")

TryLock(t, from, to) ==
  /\ pc[t] = from
  /\ IF m_mutex = NoThread
       THEN m_mutex' = t /\ Goto(t, to)
       ELSE AttemptFailed(t, from) /\ UNCHANGED m_mutex
  /\ UNCHANGED <<queue, flags, local>>

TrySendLock(t) == TryLock(t, "try_send_lock", "try_send_enter")

TryRecvLock(t) == TryLock(t, "try_recv_lock", "try_recv_enter")

\* (Mutant: a value beyond the buffer is offered to nobody.)
CannotOffer_NoReceiver == ~MaySend

\* (Mutant: no value beyond the buffer is offered at all.)
CannotOffer_Full == ~MaySend \/ Len(m_queue) = N

\* try_send() has no room, and nobody it could hand the value to.
CannotOffer ==
  ~MaySend \/ (Len(m_queue) = N /\ ~m_is_recv_ready)

\* try_send().
TrySendEnter(t) ==
  /\ pc[t] = "try_send_enter"
  /\ IF m_is_try_recv_ready THEN Abort("try_ready")
     ELSE IF CannotOffer
       THEN /\ m_is_try_send_ready' = TRUE
            /\ AttemptFailed(t, "try_send_lock")
            /\ Unlock
            /\ UNCHANGED <<queue, m_is_send_done, m_is_try_send_done,
                           m_is_recv_ready, m_is_try_recv_ready, local>>
     ELSE IF ~(Len(m_queue) < N \/ m_is_recv_ready) THEN Abort("no_receiver")
       ELSE /\ m_is_try_send_ready' = TRUE
            /\ m_is_try_send_done' = (Len(m_queue) < N)
            /\ Enqueue(t)
            /\ Goto(t, "try_send_notify")
            /\ Unlock
            /\ UNCHANGED <<m_is_send_done, m_is_recv_ready,
                           m_is_try_recv_ready, local>>

\* emplace_back() throws after m_is_try_send_done was written: in the overflow
\* place the flag denies every send until a receive, although nothing is there.
TrySendThrow(t) ==
  /\ pc[t] = "try_send_enter"
  /\ t \in SendThrowThreads
  /\ ~m_is_try_recv_ready /\ ~CannotOffer
  /\ m_is_try_send_ready' = TRUE
  /\ m_is_try_send_done' = (Len(m_queue) < N)
  /\ Goto(t, "idle")
  /\ Unlock
  /\ UNCHANGED <<queue, m_is_send_done, m_is_recv_ready,
                 m_is_try_recv_ready, local>>

TrySendNotify(t) ==
  Notify(t, "try_send_notify", "recv_wait", "recv_relock", "idle")

\* try_recv_ptr() up to the move out of the front element.  With an empty
\* queue it returns false and leaves the lock to its caller.
TryRecvEnter(t) ==
  /\ pc[t] = "try_recv_enter"
  /\ IF m_queue = <<>>
       THEN /\ m_is_try_recv_ready' = TRUE
            /\ Goto(t, "try_recv_false")
            /\ UNCHANGED <<queue, local>>
     ELSE IF ~FullHasSender THEN Abort("full_without_sender")
     ELSE IF ~(m_is_try_send_done \/ m_is_send_done) THEN Abort("two_senders")
     ELSE IF OwnItem(t) THEN Abort("own_item")
       ELSE /\ m_is_try_recv_ready' = TRUE
            /\ MoveFront(t)
            /\ Goto(t, "try_recv_post")
  /\ UNCHANGED <<m_mutex, m_is_send_done, m_is_try_send_done,
                 m_is_recv_ready, m_is_try_send_ready>>

\* (Mutant: the lock is not released on an empty queue.)
TryRecvFalse_Leak(t) ==
  /\ pc[t] = "try_recv_false"
  /\ AttemptFailed(t, "try_recv_lock")
  /\ UNCHANGED <<m_mutex, queue, flags, local>>

\* The unique_lock of the select case goes out of scope.
TryRecvFalse(t) ==
  /\ pc[t] = "try_recv_false"
  /\ AttemptFailed(t, "try_recv_lock")
  /\ Unlock
  /\ UNCHANGED <<queue, flags, local>>

TryRecvPost(t) ==
  /\ pc[t] = "try_recv_post"
  /\ IF Len(m_queue) - 1 > N THEN Abort("still_full")
     ELSE Pop(t, m_is_recv_ready)

-----------------------------------------------------------------------------
(* The system.                                                             *)

Calls(t) == CallSend(t) \/ CallRecv(t) \/ CallTrySend(t) \/ CallTryRecv(t)

Locks(t) == SendLock(t) \/ AckLock(t) \/ RecvLock(t) \/ RecvRelock(t)

TryLocks(t) == TrySendLock(t) \/ TryRecvLock(t)

Steps(t) ==
  \/ SendEnter(t) \/ SendThrow(t) \/ SendNotify(t) \/ AckEnter(t)
  \/ NotifyBegin(t) \/ NotifyEnd(t)
  \/ RecvFront(t) \/ RecvPost(t) \/ RecvThrow(t)
  \/ TrySendEnter(t) \/ TrySendThrow(t) \/ TrySendNotify(t)
  \/ TryRecvEnter(t) \/ TryRecvFalse(t) \/ TryRecvPost(t)

Next ==
  /\ failed = "none"
  /\ \E t \in Threads :
       \/ Calls(t) \/ Locks(t) \/ TryLocks(t) \/ Steps(t)
       \/ SpuriousWakeup(t) \/ ValueLost(t)

Spec == Init /\ [][Next]_vars

(***************************************************************************)
(* A thread inside the library keeps running, and a thread that wants the  *)
(* lock gets it sooner or later, which is what the comment on notify_one() *)
(* in _post_blocking_recv() relies on.  Nobody is obliged to make a call.  *)
(***************************************************************************)
Running(A) == failed = "none" /\ A

LockFree(t) == m_mutex = NoThread /\ (Locks(t) \/ TryLocks(t))

FairSpec ==
  /\ Spec
  /\ \A t \in Threads : WF_vars(Running(Steps(t))) /\ SF_vars(Running(LockFree(t)))

-----------------------------------------------------------------------------
(* Properties.                                                             *)

TypeOK ==
  /\ m_mutex \in Threads \cup {NoThread}
  /\ m_queue \in Seq(Message)
  /\ moved \in BOOLEAN
  /\ m_is_send_done \in BOOLEAN
  /\ m_is_try_send_done \in BOOLEAN
  /\ m_is_recv_ready \in BOOLEAN
  /\ m_is_try_send_ready \in BOOLEAN
  /\ m_is_try_recv_ready \in BOOLEAN
  /\ pc \in [Threads -> Pcs]
  /\ item \in [Threads -> Message \cup {NoMsg}]
  /\ calls \in [Threads -> Nat]
  /\ failed \in Failures

\* The uses of a channel that the assertions and TODO comments of the class
\* admit: a channel is not at both ends of selects, and a thread may receive
\* from a channel it sends to only when that channel is synchronous and the
\* thread does not send to it inside a select.
Senders   == SendThreads \cup TrySendThreads
Receivers == RecvThreads \cup TryRecvThreads
Supported ==
  /\ TrySendThreads = {} \/ TryRecvThreads = {}
  /\ \/ Senders \cap Receivers = {}
     \/ N = 0 /\ TrySendThreads \cap Receivers = {}

\* In a supported use no assertion of the class fails, whatever the order in
\* which calls, critical sections and wakeups interleave.
NoAbort == Supported => failed = "none"

\* The mutex is held by a thread exactly while it is inside a critical
\* section: no path leaves a call with the lock, or works on the queue
\* without it.
LockOwnership == \A t \in Threads : m_mutex = t <=> pc[t] \in LockedPcs

\* m_is_send_done is false exactly while one blocking send is between its
\* enqueue and the end of its wait for the acknowledgement.
OneHandshake ==
  /\ m_is_send_done <=> \A t \in Threads : pc[t] \notin AckPcs
  /\ \A t, u \in Threads : pc[t] \in AckPcs /\ pc[u] \in AckPcs => t = u

\* The queue exceeds its buffer by at most the one element that a blocking
\* send or a try_send() is handing over, and never by elements of both.  While
\* m_is_try_send_done denies the sends, no place of the buffer is free; unless
\* a value threw in try_send(), the place beyond the buffer is taken, too.
QueueBound ==
  /\ Len(m_queue) <= N + 1
  /\ FullHasSender
  /\ m_is_try_send_done \/ m_is_send_done
  /\ ~m_is_try_send_done =>
       Len(m_queue) >= N /\ (SendThrowThreads = {} => is_full)

\* The receiver that a try_send() beyond the buffer counts on exists: its
\* comment promises that the receiver will reset m_is_try_send_done.
ReceiverFor(t) == pc[t] \in {"recv_wait", "recv_relock", "recv_recheck",
                             "recv_post"}
OfferHasReceiver ==
  /\ ~m_is_try_send_done => m_is_recv_ready
  /\ m_is_recv_ready => \E t \in Threads : ReceiverFor(t)

\* A thread in one of these places will look at a nonempty queue, or will
\* notify a thread that waits on m_recv_cv.
OnTheWay == {t \in Threads :
  pc[t] \in {"send_notify", "try_send_notify", "recv_lock", "recv_enter",
             "recv_relock", "recv_recheck", "recv_post"}}

\* No wakeup of a receiver is lost: while one sleeps on m_recv_cv, every
\* element in the queue has a thread on the way to it.
NoLostItem ==
  (\E t \in Threads : pc[t] = "recv_wait")
    => Len(m_queue) <= Cardinality(OnTheWay)

\* No wakeup of a sender is lost: while one sleeps on m_send_begin_cv with its
\* predicate true, somebody is about to notify that variable or to take the
\* free place.
NoLostSlot ==
  MaySend /\ (\E t \in Threads : pc[t] = "send_begin_wait")
    => \E u \in Threads : pc[u] \in {"notify_begin", "send_lock", "send_enter"}

\* No acknowledgement is lost: a send that sleeps on m_send_end_cv although
\* the queue is no longer full is about to be notified.
NoLostAck ==
  ~is_full /\ (\E t \in Threads : pc[t] = "send_end_wait")
    => \E u \in Threads : pc[u] = "notify_end"

\* "strong exception safety": when nobody is in the middle of a receive, the
\* front element of the queue still has its value.
StrongExceptionSafety ==
  moved => \E t \in Threads : pc[t] \in {"recv_post", "try_recv_post"}

-----------------------------------------------------------------------------
(* What comments and assertions say and the code does not do: each of      *)
(* these is violated in one run.                                           *)

\* The assertion in recv() that a thread does not receive its own element from
\* a full queue.
NoOwnItem == failed # "own_item"

\* The comment in _pre_blocking_recv() that a receiver gives try_send() a chance:
\* a select that waits to send and a blocking receive never stay opposite each
\* other.
OfferProgress ==
  \A s \in SelectWaiters, r \in RecvThreads :
    pc[s] \in TrySendPcs /\ pc[r] \in RecvPcs
      ~> pc[s] \notin TrySendPcs \/ pc[r] \notin RecvPcs

-----------------------------------------------------------------------------
(* The channel implements GoChannel: a send puts its value when it         *)
(* enqueues, a receive takes its value when it pops.                       *)

StatusOf(label) ==
  CASE label \in SendPcs    -> "sending"
    [] label \in AckPcs     -> "handing"
    [] label \in RecvPcs    -> "receiving"
    [] label \in TrySendPcs -> "offering"
    [] label \in TryRecvPcs -> "polling"
    [] OTHER                -> "idle"

Taken(t) == IF pc[t] \in {"recv_post", "try_recv_post"} THEN NoMsg ELSE item[t]

Go == INSTANCE GoChannel WITH
        buf    <- m_queue,
        status <- [t \in Threads |-> StatusOf(pc[t])],
        got    <- [t \in Threads |-> Taken(t)],
        seq    <- calls

\* Under every interleaving the locks, flags and condition variables amount
\* to the channel of GoChannel: FIFO order, no value lost, invented or
\* delivered twice, no send that returns too early.
ImplementsGoChannel == Go!GoSpec

\* What a thread can count on once the scheduler is fair: a blocking send and
\* a blocking receive never stay opposite each other.
HandshakeProgress ==
  \A s \in SendThreads, r \in RecvThreads :
    pc[s] \in SendPcs /\ pc[r] \in RecvPcs
      ~> pc[s] \notin SendPcs \/ pc[r] \notin RecvPcs

\* A send whose value has found room or been received returns.
AckProgress ==
  \A s \in SendThreads : pc[s] \in AckPcs /\ ~is_full ~> pc[s] \notin AckPcs

\* A select that waits to send gets through while m_is_recv_ready announces a
\* receiver, whoever else sends and receives.
AnnouncedProgress ==
  \A s \in SelectWaiters :
    pc[s] \in TrySendPcs /\ m_is_recv_ready
      ~> pc[s] \notin TrySendPcs \/ ~m_is_recv_ready

\* A select that waits to receive and a blocking send never stay opposite
\* each other.
PollProgress ==
  \A r \in SelectWaiters, s \in SendThreads :
    pc[r] \in TryRecvPcs /\ pc[s] \in SendPcs
      ~> pc[r] \notin TryRecvPcs \/ pc[s] \notin SendPcs
=============================================================================
