---------------------------- MODULE SelectProofs ----------------------------
(***************************************************************************)
(* Select for any list of cases, any number of channels and any buffer:    *)
(* what a call has done when it ends, and that it passes over no case.     *)
(***************************************************************************)
EXTENDS Select, TLAPS

PeerStates == {"idle", "sending", "handing", "called", "receiving"}

Types ==
  /\ m_try_functions \in CaseLists
  /\ len \in [Channels -> Nat] /\ count \in [Channels -> Nat]
  /\ before \in [Channels -> Int]
  /\ peer \in [Channels -> PeerStates]
  /\ at \in {"idle", "try_once", "wait", "dead"}
  /\ i \in Nat /\ j \in Nat
  /\ result \in {"none", "true", "false", "thrown"}
  /\ refused \subseteq Cases
  /\ since \in [Cases -> Nat]

Running == at \in {"try_once", "wait"}

\* A peer is in a call of its own direction.
PeerInv ==
  \A c \in Channels : /\ peer[c] \in {"sending", "handing"} => PeerSends(c)
                      /\ peer[c] \in {"called", "receiving"} => ~PeerSends(c)

\* Where a call is.
CursorInv ==
  /\ Running => n >= 1 /\ i < n /\ result = "none"
  /\ at = "try_once" => j < n
  /\ at = "dead" => n = 0 /\ result = "none"

\* How many attempts ago case k was tried at the latest, when case q + 1 is next.
Behind(k, q) == IF k <= q THEN q - k ELSE q + n - k

\* How far case k is from the one that try_once() began with.
Offset(k) == IF k - 1 >= i THEN k - 1 - i ELSE k - 1 - i + n

TurnInv ==
  /\ Running => \A k \in Cases : since[k] <= Behind(k, NextCase)
  /\ at = "try_once" => \A k \in Cases : Offset(k) < j => k \in refused

SelectInv == Types /\ PeerInv /\ CursorInv /\ TurnInv /\ CallOutcome /\ InTurn

-----------------------------------------------------------------------------
(* The list of cases, and going round it.                                  *)

LEMMA ListFacts ==
  ASSUME Types
  PROVE  /\ n \in Nat /\ Cases = 1..n
         /\ \A k \in Cases : /\ m_try_functions[k].chan \in Channels
                             /\ m_try_functions[k].dir \in {"send", "recv"}
<1>1. m_try_functions \in Seq([chan : Channels, dir : {"send", "recv"}])
  <2>1. m_try_functions \in CaseLists
    BY DEF Types
  <2> QED
    BY <2>1, SelectAssumption
<1>2. \A S, list : list \in Seq(S) => Len(list) \in Nat /\ \A k \in 1..Len(list) : list[k] \in S
  OBVIOUS
<1>3. n \in Nat /\ \A k \in 1..n : m_try_functions[k] \in [chan : Channels, dir : {"send", "recv"}]
  BY <1>1, <1>2 DEF n
<1> QED
  BY <1>3 DEF Cases

LEMMA Round ==
  ASSUME NEW a \in Nat, NEW m \in Nat \ {0}, a < m + m
  PROVE  a % m = IF a < m THEN a ELSE a - m
OBVIOUS

LEMMA NextFacts ==
  ASSUME Types, CursorInv, Running
  PROVE  /\ NextCase \in 0..(n - 1) /\ NextCase + 1 \in Cases /\ n \in Nat \ {0}
         /\ at = "wait" => NextCase = (i + 1) % n
         /\ at = "try_once" => /\ NextCase = (i + j) % n
                               /\ NextCase = IF i + j < n THEN i + j ELSE i + j - n
<1>1. n \in Nat \ {0} /\ i \in Nat /\ j \in Nat /\ i < n /\ Cases = 1..n
  BY ListFacts DEF Types, CursorInv
<1> HIDE DEF n, Cases
<1>2. CASE at = "wait"
  <2>1. NextCase = (i + 1) % n
    BY <1>2 DEF NextCase
  <2>2. (i + 1) % n = IF i + 1 < n THEN i + 1 ELSE i + 1 - n
    <3>1. PICK a : a = i + 1
      OBVIOUS
    <3>2. a \in Nat /\ a < n + n
      BY <1>1, <3>1
    <3>3. a % n = IF a < n THEN a ELSE a - n
      BY <1>1, <3>2, Round
    <3> QED
      BY <1>1, <3>1, <3>2, <3>3
  <2> QED
    BY <1>1, <1>2, <2>1, <2>2
<1>3. CASE at = "try_once"
  <2>1. NextCase = (i + j) % n /\ j < n
    BY <1>3 DEF NextCase, CursorInv
  <2>2. (i + j) % n = IF i + j < n THEN i + j ELSE i + j - n
    <3>1. PICK a : a = i + j
      OBVIOUS
    <3>2. a \in Nat /\ a < n + n
      BY <1>1, <2>1, <3>1
    <3>3. a % n = IF a < n THEN a ELSE a - n
      BY <1>1, <3>2, Round
    <3> QED
      BY <1>1, <3>1, <3>2, <3>3
  <2> QED
    BY <1>1, <1>3, <2>1, <2>2
<1> QED
  BY <1>2, <1>3 DEF Running

-----------------------------------------------------------------------------
(* The steps.                                                              *)

LEMMA InitSelect ==
  ASSUME Init PROVE SelectInv
<1>1. Types
  BY DEF Init, Types, Cases, n, PeerStates
<1>2. n \in Nat /\ Cases = 1..n
  BY <1>1, ListFacts
<1>3. PeerInv /\ CursorInv /\ TurnInv
  BY DEF Init, PeerInv, CursorInv, TurnInv, Running
<1>4. CallOutcome
  BY DEF Init, CallOutcome, Net
<1>5. InTurn
  BY <1>2 DEF Init, InTurn
<1> QED
  BY <1>1, <1>3, <1>4, <1>5 DEF SelectInv

\* What a step of a peer leaves alone.
LEMMA PeerFrame ==
  ASSUME SelectInv, PeerInv', len' \in [Channels -> Nat], count' \in [Channels -> Nat],
         peer' \in [Channels -> PeerStates],
         \A c \in Channels : Net(c)' = Net(c),
         UNCHANGED <<m_try_functions, cursor, result, history>>
  PROVE  SelectInv'
<1>1. /\ m_try_functions' = m_try_functions /\ at' = at /\ i' = i /\ j' = j
      /\ result' = result /\ before' = before /\ refused' = refused /\ since' = since
  BY DEF cursor, history
<1>2. n' = n /\ Cases' = Cases
  BY <1>1 DEF n, Cases
<1>3. Types'
  BY <1>1, <1>2 DEF SelectInv, Types
<1>4. CursorInv'
  BY <1>1, <1>2 DEF SelectInv, CursorInv, Running
<1>5. NextCase' = NextCase
  BY <1>1, <1>2 DEF NextCase
<1>6. TurnInv'
  BY <1>1, <1>2, <1>5 DEF SelectInv, TurnInv, Running, Behind, Offset
<1>7. \A k, c : Effect(k, c)' = Effect(k, c)
  BY <1>1 DEF Effect
<1>8. CallOutcome'
  BY <1>1, <1>2, <1>7 DEF SelectInv, CallOutcome
<1>9. InTurn'
  BY <1>1, <1>2 DEF SelectInv, InTurn
<1> QED
  BY <1>3, <1>4, <1>6, <1>8, <1>9 DEF SelectInv

LEMMA PeerSelectStep ==
  ASSUME SelectInv, NEW c \in Channels, Peer(c)
  PROVE  SelectInv'
<1>1. /\ len \in [Channels -> Nat] /\ count \in [Channels -> Nat]
      /\ peer \in [Channels -> PeerStates]
      /\ PeerInv
  BY DEF SelectInv, Types
<1>2. UNCHANGED <<m_try_functions, cursor, result, history>>
  BY DEF Peer, PeerCalls, PeerPuts, PeerReturns, PeerWaits, PeerTakes, PeerLocks,
         PeerUnlocks, PeerStep
<1>3. \A d : PeerSends(d)' <=> PeerSends(d)
  BY <1>2 DEF PeerSends, Cases, n
<1>4. \A d \in Channels : Net(d) = (IF PeerSends(d) THEN len[d] - count[d]
                                                    ELSE len[d] + count[d])
  BY DEF Net
<1>5. \A d \in Channels : Net(d)' = (IF PeerSends(d) THEN len'[d] - count'[d]
                                                     ELSE len'[d] + count'[d])
  BY <1>3 DEF Net
<1>6. CASE PeerCalls(c)
  <2>1. /\ len' = len /\ count' = count
        /\ peer' = [peer EXCEPT ![c] = IF PeerSends(c) THEN "sending" ELSE "called"]
    BY <1>6 DEF PeerCalls, PeerStep
  <2>2. PeerInv' /\ peer' \in [Channels -> PeerStates]
    BY <1>1, <1>3, <2>1 DEF PeerInv, PeerStates
  <2> QED
    BY <1>1, <1>2, <1>4, <1>5, <2>1, <2>2, PeerFrame
<1>7. CASE PeerPuts(c)
  <2>1. /\ len' = [len EXCEPT ![c] = @ + 1] /\ count' = [count EXCEPT ![c] = @ + 1]
        /\ peer[c] = "sending" /\ peer' = [peer EXCEPT ![c] = "handing"]
    BY <1>7 DEF PeerPuts, PeerStep
  <2>2. PeerSends(c)
    BY <1>1, <2>1 DEF PeerInv
  <2>3. PeerInv' /\ peer' \in [Channels -> PeerStates]
    BY <1>1, <1>3, <2>1, <2>2 DEF PeerInv, PeerStates
  <2>4. \A d \in Channels : Net(d)' = Net(d)
    BY <1>1, <1>4, <1>5, <2>1, <2>2
  <2> QED
    BY <1>1, <1>2, <2>1, <2>3, <2>4, PeerFrame
<1>8. CASE PeerReturns(c)
  <2>1. /\ len' = len /\ count' = count /\ peer' = [peer EXCEPT ![c] = "idle"]
    BY <1>8 DEF PeerReturns, PeerStep
  <2>2. PeerInv' /\ peer' \in [Channels -> PeerStates]
    BY <1>1, <1>3, <2>1 DEF PeerInv, PeerStates
  <2> QED
    BY <1>1, <1>2, <1>4, <1>5, <2>1, <2>2, PeerFrame
<1>9. CASE PeerWaits(c)
  <2>1. /\ len' = len /\ count' = count
        /\ peer[c] = "called" /\ peer' = [peer EXCEPT ![c] = "receiving"]
    BY <1>9 DEF PeerWaits, PeerStep
  <2>2. PeerInv' /\ peer' \in [Channels -> PeerStates]
    BY <1>1, <1>3, <2>1 DEF PeerInv, PeerStates
  <2> QED
    BY <1>1, <1>2, <1>4, <1>5, <2>1, <2>2, PeerFrame
<1>10. CASE PeerTakes(c)
  <2>1. /\ len' = [len EXCEPT ![c] = @ - 1] /\ count' = [count EXCEPT ![c] = @ + 1]
        /\ peer[c] \in {"called", "receiving"} /\ len[c] > 0
        /\ peer' = [peer EXCEPT ![c] = "idle"]
    BY <1>10 DEF PeerTakes, PeerStep
  <2>2. ~PeerSends(c)
    BY <1>1, <2>1 DEF PeerInv
  <2>3. PeerInv' /\ peer' \in [Channels -> PeerStates]
    BY <1>1, <1>3, <2>1 DEF PeerInv, PeerStates
  <2>4. \A d \in Channels : Net(d)' = Net(d)
    BY <1>1, <1>4, <1>5, <2>1, <2>2
  <2>5. len' \in [Channels -> Nat] /\ count' \in [Channels -> Nat]
    BY <1>1, <2>1
  <2> QED
    BY <1>2, <2>3, <2>4, <2>5, PeerFrame
<1>11. CASE PeerLocks(c) \/ PeerUnlocks(c)
  <2>1. len' = len /\ count' = count /\ peer' = peer
    BY <1>11 DEF PeerLocks, PeerUnlocks
  <2>2. PeerInv'
    BY <1>1, <1>3, <2>1 DEF PeerInv, PeerStates
  <2> QED
    BY <1>1, <1>2, <1>4, <1>5, <2>1, <2>2, PeerFrame
<1> QED
  BY <1>6, <1>7, <1>8, <1>9, <1>10, <1>11 DEF Peer

\* A call begins, with a case or without one.
LEMMA BeginStep ==
  ASSUME SelectInv, CallTryOnce \/ CallWait
  PROVE  SelectInv'
<1>1. /\ at = "idle" /\ j' = 0 /\ refused' = {} /\ since' = [k \in Cases |-> 0]
      /\ before' = [c \in Channels |-> Net(c)] /\ m_try_functions' = m_try_functions
      /\ len' = len /\ count' = count /\ peer' = peer
      /\ i' \in IF n = 0 THEN {0} ELSE 0..(n - 1)
  BY DEF CallTryOnce, CallWait, Begin, channel
<1>2. /\ Types /\ PeerInv /\ n \in Nat /\ Cases = 1..n
  BY ListFacts DEF SelectInv
<1>3. n' = n /\ Cases' = Cases /\ \A c : PeerSends(c)' <=> PeerSends(c)
  BY <1>1 DEF n, Cases, PeerSends
<1>4. \A c \in Channels : Net(c) \in Int /\ Net(c)' = Net(c)
  BY <1>1, <1>2, <1>3 DEF Net, Types
<1>5. /\ at' \in {"idle", "try_once", "wait", "dead"} /\ result' \in {"none", "false"}
      /\ at' \in {"try_once", "wait"} => n # 0 /\ result' = "none"
      /\ result' = "false" => n = 0
      /\ at' = "dead" => n = 0 /\ result' = "none"
  BY <1>1 DEF CallTryOnce, CallWait
<1>6. i' \in Nat /\ (n # 0 => i' < n)
  BY <1>1, <1>2
<1>7. Types'
  <2>1. since' \in [Cases -> Nat] /\ before' \in [Channels -> Int] /\ {} \subseteq Cases
    BY <1>1, <1>4
  <2> QED
    BY <1>1, <1>2, <1>3, <1>5, <1>6, <2>1 DEF Types
<1>8. PeerInv'
  BY <1>1, <1>2, <1>3 DEF PeerInv
<1>9. CursorInv'
  BY <1>1, <1>2, <1>3, <1>5, <1>6 DEF CursorInv, Running
<1>10. TurnInv'
  <2>1. Running' => NextCase' \in 0..(n - 1)
    <3> SUFFICES ASSUME Running' PROVE NextCase' \in 0..(n - 1)
      OBVIOUS
    <3>1. \A a \in Nat, m \in Nat \ {0} : a % m \in 0..(m - 1)
      OBVIOUS
    <3>2. n \in Nat \ {0} /\ i' + 1 \in Nat /\ i' + j' \in Nat
      <4>1. n # 0
        BY <1>5 DEF Running
      <4>2. i' \in Nat /\ j' \in Nat
        BY <1>1, <1>6
      <4>3. n \in Nat \ {0}
        BY <1>2, <4>1
      <4>4. \A a, b \in Nat : a + 1 \in Nat /\ a + b \in Nat
        OBVIOUS
      <4> QED
        BY <4>2, <4>3, <4>4
    <3>3. NextCase' = IF at' = "wait" THEN (i' + 1) % n ELSE (i' + j') % n
      BY <1>3 DEF NextCase
    <3> QED
      BY <3>1, <3>2, <3>3
  <2>2. \A k \in Cases : since'[k] = 0 /\ k \in Int /\ k >= 1 /\ k <= n
    BY <1>1, <1>2
  <2>3. ASSUME Running', NEW k \in Cases PROVE since'[k] <= Behind(k, NextCase)'
    <3>1. PICK q : q = NextCase'
      OBVIOUS
    <3>2. Behind(k, NextCase)' = IF k <= q THEN q - k ELSE q + n - k
      BY <1>3, <3>1 DEF Behind
    <3> QED
      BY <1>2, <2>1, <2>2, <2>3, <3>1, <3>2
  <2>4. \A k \in Cases : ~(Offset(k)' < j')
    <3>1. TAKE k \in Cases
    <3>2. Offset(k)' = IF k - 1 >= i' THEN k - 1 - i' ELSE k - 1 - i' + n
      BY <1>3 DEF Offset
    <3>3. PICK a : a = i'
      OBVIOUS
    <3>4. /\ a \in Nat /\ a < n /\ n \in Nat /\ k \in Int /\ k >= 1 /\ k <= n /\ j' = 0
      BY <1>1, <1>2, <1>6, <2>2, <3>3
    <3>5. Offset(k)' = IF k - 1 >= a THEN k - 1 - a ELSE k - 1 - a + n
      BY <3>2, <3>3
    <3> QED
      BY <3>4, <3>5
  <2> QED
    BY <1>3, <2>3, <2>4 DEF TurnInv
<1>11. CallOutcome'
  BY <1>1, <1>2, <1>3, <1>4, <1>5 DEF CallOutcome
<1>12. InTurn'
  BY <1>1, <1>2, <1>3 DEF InTurn
<1> QED
  BY <1>7, <1>8, <1>9, <1>10, <1>11, <1>12 DEF SelectInv

\* What every attempt does: it is the turn of case k, which moves to the end of
\* the queue, and every other case moves up by one.
LEMMA TryFacts ==
  ASSUME SelectInv, NEW k \in Cases, TryStep(k)
  PROVE  /\ Running /\ n \in Nat \ {0} /\ Cases = 1..n /\ n' = n /\ Cases' = Cases
         /\ k = NextCase + 1 /\ k \in 1..n /\ i \in Nat /\ i < n /\ j \in Nat
         /\ result = "none" /\ \A c \in Channels : Net(c) = before[c]
         /\ since' \in [Cases -> Nat] /\ since'[k] = 0 /\ InTurn'
         /\ \A o \in Cases : since'[o] <= Behind(o, IF k < n THEN k ELSE 0)
         /\ m_try_functions' = m_try_functions /\ peer' = peer /\ count' = count
         /\ before' = before /\ PeerInv'
<1>1. /\ Running /\ k = NextCase + 1
      /\ since' = [o \in Cases |-> IF o = k THEN 0
                                   ELSE IF since[o] < n THEN since[o] + 1 ELSE n]
      /\ m_try_functions' = m_try_functions /\ peer' = peer /\ count' = count
      /\ before' = before
  BY DEF TryStep, Running
<1>2. /\ Types /\ CursorInv /\ PeerInv /\ Cases = 1..n /\ n \in Nat \ {0}
      /\ NextCase \in 0..(n - 1)
  BY <1>1, ListFacts, NextFacts DEF SelectInv
<1>3. n' = n /\ Cases' = Cases /\ \A c : PeerSends(c)' <=> PeerSends(c)
  BY <1>1 DEF n, Cases, PeerSends
<1>4. PeerInv'
  BY <1>1, <1>2, <1>3 DEF PeerInv
<1>5. result = "none" /\ \A c \in Channels : Net(c) = before[c]
  BY <1>1, <1>2 DEF SelectInv, CursorInv, CallOutcome
<1>6. /\ i \in Nat /\ i < n /\ j \in Nat /\ since \in [Cases -> Nat]
      /\ \A o \in Cases : since[o] <= Behind(o, NextCase)
  BY <1>1, <1>2 DEF SelectInv, Types, CursorInv, TurnInv
<1>7. PICK q \in 0..(n - 1) : q = NextCase /\ k = q + 1
  BY <1>1, <1>2
<1>8. ASSUME NEW o \in Cases
      PROVE  /\ since'[o] \in Nat /\ since'[o] < n
             /\ since'[o] <= Behind(o, IF k < n THEN k ELSE 0)
             /\ o = k => since'[o] = 0
  <2>1. o \in Nat /\ o >= 1 /\ o <= n /\ n \in Nat /\ q \in Nat /\ q < n
    BY <1>2, <1>7
  <2>2. since[o] \in Nat /\ since[o] <= IF o <= q THEN q - o ELSE q + n - o
    BY <1>6, <1>7 DEF Behind
  <2>3. since'[o] = IF o = k THEN 0 ELSE IF since[o] < n THEN since[o] + 1 ELSE n
    BY <1>1
  <2>4. Behind(o, IF k < n THEN k ELSE 0) =
          IF k < n THEN IF o <= k THEN k - o ELSE k + n - o ELSE n - o
    BY <2>1, <1>7 DEF Behind
  <2>5. PICK a \in Nat : a = since[o]
    BY <2>2
  <2>6. a <= (IF o <= q THEN q - o ELSE q + n - o) /\ k = q + 1
        /\ since'[o] = IF o = k THEN 0 ELSE IF a < n THEN a + 1 ELSE n
    BY <1>7, <2>2, <2>3, <2>5
  <2>7. CASE o = k
    BY <2>1, <2>4, <2>6, <2>7
  <2>8. CASE o # k
    <3>1. since'[o] = a + 1 /\ a + 1 < n
      BY <2>1, <2>6, <2>8
    <3>2. a + 1 <= IF k < n THEN IF o <= k THEN k - o ELSE k + n - o ELSE n - o
      BY <2>1, <2>6, <2>8
    <3> QED
      BY <2>4, <2>8, <3>1, <3>2
  <2> QED
    BY <2>7, <2>8
<1>9. since' \in [Cases -> Nat]
  <2>1. since' = [o \in Cases |-> since'[o]]
    BY <1>1
  <2> QED
    BY <1>8, <2>1
<1>10. InTurn'
  BY <1>3, <1>8 DEF InTurn
<1>11. k \in 1..n
  BY <1>2
<1> QED
  BY <1>1, <1>2, <1>3, <1>4, <1>5, <1>6, <1>8, <1>9, <1>10, <1>11

LEMMA SucceedStep ==
  ASSUME SelectInv, NEW k \in Cases, CaseSucceeds(k)
  PROVE  SelectInv'
<1> DEFINE ch == m_try_functions[k].chan
           dir == m_try_functions[k].dir
<1>1. /\ Running /\ n \in Nat \ {0} /\ Cases = 1..n /\ n' = n /\ Cases' = Cases
      /\ result = "none" /\ \A c \in Channels : Net(c) = before[c]
      /\ since' \in [Cases -> Nat] /\ since'[k] = 0 /\ InTurn'
      /\ m_try_functions' = m_try_functions /\ peer' = peer /\ count' = count
      /\ before' = before /\ PeerInv'
  BY TryFacts DEF CaseSucceeds
<1>2. /\ len' = [len EXCEPT ![ch] = IF dir = "recv" THEN @ - 1 ELSE @ + 1]
      /\ result' \in {"true", "thrown"} /\ at' = "idle" /\ i' = i /\ j' = j
      /\ refused' = refused /\ Possible(k)
  BY DEF CaseSucceeds
<1>3. Types /\ ch \in Channels /\ dir \in {"send", "recv"}
  BY ListFacts DEF SelectInv
<1>4. dir = "recv" => len[ch] > 0
  BY <1>2 DEF Possible
<1>5. len' \in [Channels -> Nat]
  <2>1. len \in [Channels -> Nat] /\ len[ch] \in Nat
    BY <1>3 DEF Types
  <2>2. (IF dir = "recv" THEN len[ch] - 1 ELSE len[ch] + 1) \in Nat
    BY <1>4, <2>1
  <2> HIDE DEF ch, dir
  <2> QED
    BY <1>2, <1>3, <2>1, <2>2
<1>6. Types'
  BY <1>1, <1>2, <1>3, <1>5 DEF Types
<1>7. CursorInv' /\ TurnInv'
  BY <1>2 DEF CursorInv, TurnInv, Running
<1>8. \A c \in Channels : Net(c)' = before[c] + Effect(k, c)'
  <2> TAKE c \in Channels
  <2>1. PeerSends(c)' <=> PeerSends(c)
    BY <1>1 DEF PeerSends
  <2>2. /\ len[c] \in Nat /\ count[c] \in Nat /\ Net(c) = before[c] /\ len \in [Channels -> Nat]
    BY <1>1, <1>3 DEF Types
  <2>3. /\ Net(c) = IF PeerSends(c) THEN len[c] - count[c] ELSE len[c] + count[c]
        /\ Net(c)' = IF PeerSends(c) THEN len'[c] - count[c] ELSE len'[c] + count[c]
    BY <1>1, <2>1 DEF Net
  <2>4. Effect(k, c)' = IF ch # c THEN 0 ELSE IF dir = "send" THEN 1 ELSE -1
    BY <1>1 DEF Effect
  <2>5. len'[c] = len[c] + Effect(k, c)'
    <3> HIDE DEF ch, dir
    <3> QED
      BY <1>2, <1>3, <2>2, <2>4
  <2>6. Effect(k, c)' \in Int
    BY <2>4
  <2> QED
    BY <2>2, <2>3, <2>5, <2>6
<1>9. CallOutcome'
  <2>1. result' \notin {"none", "false"} /\ at' # "dead" /\ k \in Cases' /\ since'[k] = 0
    BY <1>1, <1>2
  <2>2. \A c \in Channels : Net(c)' = before'[c] + Effect(k, c)'
    BY <1>1, <1>8
  <2> QED
    BY <2>1, <2>2 DEF CallOutcome
<1> QED
  BY <1>1, <1>6, <1>7, <1>9 DEF SelectInv

\* An exception before the value has moved: no channel has changed.
LEMMA ThrowStep ==
  ASSUME SelectInv, NEW k \in Cases, CaseThrows(k)
  PROVE  SelectInv'
<1>1. /\ Running /\ n \in Nat \ {0} /\ Cases = 1..n /\ n' = n /\ Cases' = Cases
      /\ \A c \in Channels : Net(c) = before[c]
      /\ since' \in [Cases -> Nat] /\ since'[k] = 0 /\ InTurn'
      /\ m_try_functions' = m_try_functions /\ peer' = peer /\ count' = count
      /\ before' = before /\ PeerInv'
  BY TryFacts DEF CaseThrows
<1>2. /\ len' = len /\ result' = "thrown" /\ at' = "idle" /\ i' = i /\ j' = j
      /\ refused' = refused
  BY DEF CaseThrows
<1>3. Types'
  BY <1>1, <1>2 DEF SelectInv, Types
<1>4. CursorInv' /\ TurnInv'
  BY <1>2 DEF CursorInv, TurnInv, Running
<1>5. \A c \in Channels : Net(c)' = before'[c]
  <2>1. \A c : PeerSends(c)' <=> PeerSends(c)
    BY <1>1 DEF PeerSends
  <2> QED
    BY <1>1, <1>2, <2>1 DEF Net
<1>6. CallOutcome'
  <2>1. k \in Cases' /\ since'[k] = 0
    BY <1>1
  <2> QED
    BY <1>2, <1>5, <2>1 DEF CallOutcome
<1> QED
  BY <1>1, <1>3, <1>4, <1>6 DEF SelectInv

LEMMA FailStep ==
  ASSUME SelectInv, NEW k \in Cases, CaseFails(k)
  PROVE  SelectInv'
<1>1. /\ Running /\ n \in Nat \ {0} /\ Cases = 1..n /\ n' = n /\ Cases' = Cases
      /\ k = NextCase + 1 /\ k \in 1..n /\ i \in Nat /\ i < n /\ j \in Nat
      /\ result = "none" /\ \A c \in Channels : Net(c) = before[c]
      /\ since' \in [Cases -> Nat] /\ InTurn'
      /\ \A o \in Cases : since'[o] <= Behind(o, IF k < n THEN k ELSE 0)
      /\ m_try_functions' = m_try_functions /\ peer' = peer /\ count' = count
      /\ before' = before /\ PeerInv'
  BY TryFacts DEF CaseFails
<1>2. len' = len /\ refused' = refused \cup {k}
  BY DEF CaseFails
<1>3. Types /\ CursorInv /\ TurnInv
  BY DEF SelectInv
<1>4. \A c \in Channels : Net(c)' = before'[c]
  <2>1. \A c : PeerSends(c)' <=> PeerSends(c)
    BY <1>1 DEF PeerSends
  <2> QED
    BY <1>1, <1>2, <2>1 DEF Net
<1>5. \A o \in Cases : Behind(o, NextCase)' = Behind(o, NextCase')
  BY <1>1 DEF Behind
<1>6. CASE at = "wait"
  <2>1. i' = k - 1 /\ at' = "wait" /\ j' = j /\ result' = "none"
    BY <1>1, <1>6 DEF CaseFails
  <2>2. k - 1 \in Nat /\ k - 1 < n /\ k \in Nat /\ k < n + n /\ k - n <= 0 /\ i' + 1 = k
    BY <1>1, <2>1
  <2>3. NextCase' = k % n
    BY <1>1, <2>1, <2>2 DEF NextCase
  <2>4. k % n = IF k < n THEN k ELSE 0
    <3>1. k % n = IF k < n THEN k ELSE k - n
      BY <1>1, <2>2, Round
    <3>2. ~(k < n) => k - n = 0
      BY <1>1, <2>2
    <3> QED
      BY <3>1, <3>2
  <2>5. Types' /\ CursorInv'
    BY <1>1, <1>2, <1>3, <2>1, <2>2 DEF Types, CursorInv, Running
  <2>6. TurnInv'
    BY <1>1, <1>5, <2>1, <2>3, <2>4 DEF TurnInv
  <2>7. CallOutcome'
    BY <1>4, <2>1 DEF CallOutcome
  <2> QED
    BY <1>1, <2>5, <2>6, <2>7 DEF SelectInv
<1>7. CASE at = "try_once"
  <2>1. i' = i /\ j' = j + 1
    BY <1>7 DEF CaseFails
  <2>2. j < n /\ k = IF i + j < n THEN i + j + 1 ELSE i + j - n + 1
    BY <1>1, <1>3, <1>7, NextFacts DEF CursorInv
  <2>3. \A o \in Cases : Offset(o) < j => o \in refused
    BY <1>3, <1>7 DEF TurnInv
  <2>4. \A o \in Cases : Offset(o)' = Offset(o)
    BY <1>1, <2>1 DEF Offset
  <2>5. ASSUME NEW o \in Cases
        PROVE  Offset(o) < n /\ (Offset(o) < j + 1 => o \in refused')
    <3>1. /\ o \in Nat /\ o >= 1 /\ o <= n /\ n \in Nat /\ i \in Nat /\ i < n
          /\ j \in Nat /\ j < n
      BY <1>1, <2>2
    <3>2. PICK a : a = Offset(o)
      OBVIOUS
    <3>3. a = IF o - 1 >= i THEN o - 1 - i ELSE o - 1 - i + n
      BY <3>2 DEF Offset
    <3>4. a \in Int /\ a < n
      BY <3>1, <3>3
    <3>5. a = j => o = k
      BY <2>2, <3>1, <3>3
    <3>6. a < j + 1 => a < j \/ a = j
      BY <3>1, <3>4
    <3> QED
      BY <1>2, <2>3, <3>2, <3>4, <3>5, <3>6
  <2>6. CASE Tried
    <3>1. j + 1 = n /\ at' = "idle" /\ result' = "false"
      BY <1>7, <2>6 DEF CaseFails, Tried
    <3>2. refused' = Cases
      BY <1>2, <1>3, <2>5, <3>1 DEF Types
    <3>3. Types'
      BY <1>1, <1>2, <1>3, <2>1, <3>1, <3>2 DEF Types
    <3>4. CursorInv' /\ TurnInv'
      BY <3>1 DEF CursorInv, TurnInv, Running
    <3>5. CallOutcome'
      BY <1>1, <1>4, <3>1, <3>2 DEF CallOutcome
    <3> QED
      BY <1>1, <3>3, <3>4, <3>5 DEF SelectInv
  <2>7. CASE ~Tried
    <3>1. j + 1 # n /\ at' = "try_once" /\ result' = "none"
      BY <1>1, <1>7, <2>7 DEF CaseFails, Tried
    <3>2. PICK a : a = i + (j + 1)
      OBVIOUS
    <3>3. /\ a \in Nat /\ a < n + n /\ j + 1 < n
          /\ (IF a < n THEN a ELSE a - n) = IF k < n THEN k ELSE 0
      BY <1>1, <2>2, <3>1, <3>2
    <3>4. NextCase' = a % n
      BY <1>1, <2>1, <3>1, <3>2 DEF NextCase
    <3>5. a % n = IF a < n THEN a ELSE a - n
      BY <1>1, <3>3, Round
    <3>6. NextCase' = IF k < n THEN k ELSE 0
      BY <3>3, <3>4, <3>5
    <3>7. Types' /\ CursorInv'
      <4>1. j' \in Nat /\ j' < n /\ refused' \subseteq Cases /\ i' \in Nat /\ i' < n
        <5>1. refused' \subseteq Cases
          BY <1>2, <1>3 DEF Types
        <5>2. j' \in Nat /\ j' < n
          <6>1. PICK b : b = j + 1
            OBVIOUS
          <6>2. b \in Nat /\ b < n
            BY <1>1, <3>3, <6>1
          <6> QED
            BY <2>1, <6>1, <6>2
        <5> QED
          BY <1>1, <2>1, <5>1, <5>2
      <4>2. n >= 1
        BY <1>1
      <4>3. Types'
        BY <1>1, <1>2, <1>3, <3>1, <4>1 DEF Types
      <4>4. (Running => n >= 1 /\ i < n /\ result = "none")'
        BY <1>1, <3>1, <4>1, <4>2
      <4> QED
        BY <1>1, <3>1, <4>1, <4>3, <4>4 DEF CursorInv
    <3>8. TurnInv'
      BY <1>1, <1>5, <2>1, <2>4, <2>5, <3>6 DEF TurnInv
    <3>9. CallOutcome'
      BY <1>4, <3>1 DEF CallOutcome
    <3> QED
      BY <1>1, <3>7, <3>8, <3>9 DEF SelectInv
  <2> QED
    BY <2>6, <2>7
<1> QED
  BY <1>1, <1>6, <1>7 DEF Running

LEMMA SelectStep ==
  ASSUME SelectInv, [Next]_vars PROVE SelectInv'
<1>1. CASE \E c \in Channels : Peer(c)
  BY <1>1, PeerSelectStep
<1>2. CASE CallTryOnce \/ CallWait
  BY <1>2, BeginStep
<1>3. CASE \E k \in Cases : CaseSucceeds(k) \/ CaseThrows(k) \/ CaseFails(k)
  BY <1>3, SucceedStep, ThrowStep, FailStep
<1>4. CASE UNCHANGED vars
  <2>1. /\ UNCHANGED <<m_try_functions, cursor, result, history>>
        /\ len' = len /\ count' = count /\ peer' = peer
    BY <1>4 DEF vars, channel
  <2>2. \A c : (PeerSends(c)' <=> PeerSends(c))
    BY <2>1 DEF PeerSends, Cases, n
  <2>3. PeerInv' /\ \A c \in Channels : Net(c)' = Net(c)
    BY <2>1, <2>2 DEF SelectInv, PeerInv, Net
  <2> QED
    BY <2>1, <2>3, PeerFrame DEF SelectInv, Types
<1> QED
  BY <1>1, <1>2, <1>3, <1>4 DEF Next

-----------------------------------------------------------------------------
(* Theorems.                                                               *)

\* Every state satisfies the inductive invariant: the types, where the peers
\* and the call are, how many attempts ago each case had its turn, and the two
\* properties.
THEOREM SelectInvariant == Spec => []SelectInv
<1>1. Init => SelectInv
  BY InitSelect
<1>2. SelectInv /\ [Next]_vars => SelectInv'
  BY SelectStep
<1> QED
  BY <1>1, <1>2, PTL DEF Spec

\* A call of the select that returns true has moved one value, across the
\* channel of the case it tried last; one that an exception passed through has
\* moved that value or none; one that returns false has moved none, and returns
\* it only when every case failed.
THEOREM CallsEnd == Spec => []CallOutcome
<1>1. SelectInv => CallOutcome
  BY DEF SelectInv
<1> QED
  BY <1>1, SelectInvariant, PTL

\* Between two attempts of a case every other one has its turn.
THEOREM NoCasePassedOver == Spec => []InTurn
<1>1. SelectInv => InTurn
  BY DEF SelectInv
<1> QED
  BY <1>1, SelectInvariant, PTL

=============================================================================
