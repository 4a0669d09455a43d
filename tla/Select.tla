------------------------------- MODULE Select -------------------------------
(***************************************************************************)
(* gloc::select of include/gloc/channel.hpp over a list of cases on        *)
(* several channels: try_once() tries each case once, starting anywhere,   *)
(* wait() goes round until one succeeds.  At the other end of each channel *)
(* a peer makes blocking calls.                                            *)
(*                                                                         *)
(* One attempt is one step: try_lock(), and if that got the lock the       *)
(* nonblocking send or receive, with the effect that GoChannel, which      *)
(* Channel implements, allows.  held says that a critical section of the   *)
(* peer, which may wake up at any time, keeps the lock.  The peers' own    *)
(* calls throw nothing.                                                    *)
(***************************************************************************)
EXTENDS Integers, Sequences

CONSTANTS
  Channels,
  CaseLists,  \* the lists of cases: sequences of [chan, dir]
  Cap,        \* the buffer of the channels
  MaxCalls,   \* bound on the calls of the select and of each peer
  MaxLocks,   \* bound on the times each peer takes the lock without effect
  CanThrow    \* whether a callback, or moving or copying a value, may throw

ASSUME SelectAssumption ==
  /\ {Cap, MaxCalls, MaxLocks} \subseteq Nat /\ CanThrow \in BOOLEAN
  /\ \A list \in CaseLists :
       /\ list \in Seq([chan : Channels, dir : {"send", "recv"}])
       \* Both ends of a channel in one select: see the assertion of line 588.
       /\ \A a, b \in 1..Len(list) :
            list[a].chan = list[b].chan => list[a].dir = list[b].dir

VARIABLES
  m_try_functions,  \* the list of cases
  len,              \* how many values each channel holds
  try_done,         \* m_is_try_send_done of each channel
  peer,             \* what the peer of each channel is doing
  held,             \* the peer has the lock
  locks,            \* how often it took it
  count,            \* (history) values each peer has put or taken
  at,               \* "idle", "try_once", "wait", or "dead"
  i, j,             \* the local variables of the two functions
  result,           \* how the last call ended
  calls,            \* how many calls the peers and the select have begun
  before,           \* (history) what the select had put on each channel when the
                    \* call began
  refused,          \* (history) the cases that failed in this call
  since             \* (history) attempts since each case was last tried, up to n

channel == <<len, try_done, peer, held, locks, count>>
cursor  == <<at, i, j>>
history == <<before, refused, since>>
vars    == <<m_try_functions, channel, cursor, result, calls, history>>

n     == Len(m_try_functions)
Cases == 1..n

\* The peer of a channel the select receives from sends, and the other way
\* round.
PeerSends(c) == \E k \in Cases : m_try_functions[k] = [chan |-> c, dir |-> "recv"]

Init ==
  /\ m_try_functions \in CaseLists
  /\ len = [c \in Channels |-> 0]
  /\ try_done = [c \in Channels |-> TRUE]
  /\ peer = [c \in Channels |-> "idle"]
  /\ held = [c \in Channels |-> FALSE]
  /\ locks = [c \in Channels |-> 0]
  /\ count = [c \in Channels |-> 0]
  /\ at = "idle"
  /\ i = 0
  /\ j = 0
  /\ result = "none"
  /\ calls = [c \in Channels \cup {"select"} |-> 0]
  /\ before = [c \in Channels |-> 0]
  /\ refused = {}
  /\ since = [k \in Cases |-> 0]

-----------------------------------------------------------------------------
(* The peers.                                                              *)

PeerStep(c, from, to) ==
  /\ peer[c] = from
  /\ ~held[c]
  /\ peer' = [peer EXCEPT ![c] = to]
  /\ UNCHANGED <<m_try_functions, held, locks, cursor, result, history>>

PeerCalls(c) ==
  /\ calls[c] < MaxCalls
  /\ calls' = [calls EXCEPT ![c] = @ + 1]
  /\ PeerStep(c, "idle", IF PeerSends(c) THEN "sending" ELSE "called")
  /\ UNCHANGED <<len, try_done, count>>

PeerPuts(c) ==
  /\ len[c] <= Cap /\ try_done[c]
  /\ len' = [len EXCEPT ![c] = @ + 1]
  /\ count' = [count EXCEPT ![c] = @ + 1]
  /\ PeerStep(c, "sending", "handing")
  /\ UNCHANGED <<try_done, calls>>

PeerReturns(c) ==
  /\ len[c] <= Cap
  /\ PeerStep(c, "handing", "idle")
  /\ UNCHANGED <<len, try_done, count, calls>>

\* m_is_recv_ready is set, and the peer waits for a value.
PeerWaits(c) ==
  /\ len[c] = 0
  /\ PeerStep(c, "called", "receiving")
  /\ UNCHANGED <<len, try_done, count, calls>>

PeerTakes(c) ==
  /\ len[c] > 0
  /\ try_done' = [try_done EXCEPT ![c] = TRUE]
  /\ len' = [len EXCEPT ![c] = @ - 1]
  /\ count' = [count EXCEPT ![c] = @ + 1]
  /\ \E from \in {"called", "receiving"} : PeerStep(c, from, "idle")
  /\ UNCHANGED calls

\* A waiting peer wakes up, holds the lock for a moment and changes nothing.
PeerLocks(c) ==
  /\ peer[c] # "idle"
  /\ ~held[c]
  /\ locks[c] < MaxLocks
  /\ locks' = [locks EXCEPT ![c] = @ + 1]
  /\ held' = [held EXCEPT ![c] = TRUE]
  /\ UNCHANGED <<m_try_functions, len, try_done, peer, count, cursor, result, calls,
                 history>>

PeerUnlocks(c) ==
  /\ held[c]
  /\ held' = [held EXCEPT ![c] = FALSE]
  /\ UNCHANGED <<m_try_functions, len, try_done, peer, locks, count, cursor, result,
                 calls, history>>

Peer(c) == \/ PeerCalls(c) \/ PeerPuts(c) \/ PeerReturns(c) \/ PeerWaits(c)
           \/ PeerTakes(c) \/ PeerLocks(c) \/ PeerUnlocks(c)

-----------------------------------------------------------------------------
(* The select.                                                             *)

\* The condition on which the case goes ahead: there is a value, or there is
\* buffer space or a receiver that has announced itself, and no earlier value is
\* on its way (lines 591-592, 630).
Possible(k) ==
  LET c == m_try_functions[k].chan
  IN  IF m_try_functions[k].dir = "recv" THEN len[c] > 0
      ELSE /\ try_done[c]
           /\ len[c] < Cap \/ (len[c] = Cap /\ peer[c] = "receiving")

Free(k) == ~held[m_try_functions[k].chan]

\* How many values the select has put on a channel, less those it took: what
\* is there and the peer did not put there, or took.
Net(c) == IF PeerSends(c) THEN len[c] - count[c] ELSE len[c] + count[c]

\* A call begins, at any place of the list.
Begin(function) ==
  /\ at = "idle"
  /\ calls["select"] < MaxCalls
  /\ calls' = [calls EXCEPT !["select"] = @ + 1]
  /\ i' \in IF n = 0 THEN {0} ELSE 0..(n - 1)
  /\ j' = 0
  /\ refused' = {}
  /\ since' = [k \in Cases |-> 0]
  /\ before' = [c \in Channels |-> Net(c)]
  /\ UNCHANGED <<m_try_functions, channel>>

\* Without a case try_once() fails at once, wait() divides by zero.
CallTryOnce ==
  /\ Begin("try_once")
  /\ IF n = 0 THEN result' = "false" /\ UNCHANGED at
              ELSE result' = "none" /\ at' = "try_once"

CallWait ==
  /\ Begin("wait")
  /\ result' = "none"
  /\ at' = IF n = 0 THEN "dead" ELSE "wait"

\* (Mutant: the loop of try_once() leaves the case it started with out.)
Tried_AllButFirst == j + 1 >= n - 1

\* try_once() has tried every case.
Tried == j + 1 = n

\* (Mutant: wait() does not advance.)
NextCase_Again == IF at = "wait" THEN i ELSE (i + j) % n

\* (Mutant: wait() advances by two.)
NextCase_ByTwo == IF at = "wait" THEN (i + 2) % n ELSE (i + j) % n

\* Which case the loops try next; the list begins at 0 in the code.
NextCase == IF at = "wait" THEN (i + 1) % n ELSE (i + j) % n

TryStep(k) ==
  /\ at \in {"try_once", "wait"}
  /\ k = NextCase + 1
  /\ since' = [o \in Cases |-> IF o = k THEN 0
                              ELSE IF since[o] < n THEN since[o] + 1 ELSE n]
  /\ UNCHANGED <<m_try_functions, peer, held, locks, count, calls, before>>

\* A send that goes ahead writes the flag, before it moves the value.
Claim(k, received) ==
  LET c == m_try_functions[k].chan
  IN  try_done' = [try_done EXCEPT ![c] =
                     IF m_try_functions[k].dir = "recv" THEN received ELSE len[c] < Cap]

\* The case takes effect; then the value is assigned and the callback called,
\* either of which may throw.
CaseSucceeds(k) ==
  /\ TryStep(k)
  /\ Free(k) /\ Possible(k)
  /\ Claim(k, TRUE)
  /\ len' = [len EXCEPT ![m_try_functions[k].chan] =
               IF m_try_functions[k].dir = "recv" THEN @ - 1 ELSE @ + 1]
  /\ result' \in IF CanThrow THEN {"true", "thrown"} ELSE {"true"}
  /\ at' = "idle"
  /\ UNCHANGED <<i, j, refused>>

\* Moving the value into the queue, or out of it before it leaves, throws.
CaseThrows(k) ==
  /\ TryStep(k)
  /\ CanThrow
  /\ Free(k) /\ Possible(k)
  /\ Claim(k, try_done[m_try_functions[k].chan])
  /\ result' = "thrown"
  /\ at' = "idle"
  /\ UNCHANGED <<len, i, j, refused>>

CaseFails(k) ==
  /\ TryStep(k)
  /\ ~Free(k) \/ ~Possible(k)
  /\ refused' = refused \cup {k}
  /\ IF at = "wait"
       THEN i' = k - 1 /\ UNCHANGED <<at, j, result>>
       ELSE /\ j' = j + 1
            /\ IF Tried THEN at' = "idle" /\ result' = "false"
                        ELSE UNCHANGED <<at, result>>
            /\ UNCHANGED i
  /\ UNCHANGED <<len, try_done>>

Next ==
  \/ \E c \in Channels : Peer(c)
  \/ CallTryOnce \/ CallWait
  \/ \E k \in Cases : CaseSucceeds(k) \/ CaseThrows(k) \/ CaseFails(k)

Spec == Init /\ [][Next]_vars

\* A running call goes on, and a critical section ends.  That try_lock() does
\* not fail forever is the bound MaxLocks.
FairSpec ==
  /\ Spec
  /\ WF_vars(\E k \in Cases : CaseSucceeds(k) \/ CaseThrows(k) \/ CaseFails(k))
  /\ \A c \in Channels : WF_vars(PeerUnlocks(c))

-----------------------------------------------------------------------------
(* Properties.                                                             *)

\* What case k adds to a channel.
Effect(k, c) == IF m_try_functions[k].chan # c THEN 0
                ELSE IF m_try_functions[k].dir = "send" THEN 1 ELSE -1

\* A call that returned true moved one value, across the channel of the case it
\* tried last; one that an exception passed through moved that value or none;
\* one that returned false or still runs moved none, and it returns false only
\* when every case failed during the call (lines 518-526, 606, 645).  No value is
\* lost or doubled between the cases, whatever the peers do.
CallOutcome ==
  /\ result \in {"none", "false"} => \A c \in Channels : Net(c) = before[c]
  /\ result \in {"true", "thrown"} =>
       \E k \in Cases :
         /\ since[k] = 0
         /\ \/ \A c \in Channels : Net(c) = before[c] + Effect(k, c)
            \/ result = "thrown" /\ \A c \in Channels : Net(c) = before[c]
  /\ result = "false" => refused = Cases
  /\ at = "dead" => n = 0

\* No case is passed over: between two attempts of a case every other one has
\* its turn (lines 522, 532, 544).
InTurn == \A k \in Cases : since[k] < n

\* wait() returns when a case can go ahead: the peer of that case does not
\* go away (lines 531-535).
WaitReturns == (at = "wait" /\ \E k \in Cases : Possible(k)) ~> at = "idle"

=============================================================================
