------------------------- MODULE StreamReaderProofs -------------------------
(***************************************************************************)
(* StreamReader, for any objects and copies, any buffer size and files of  *)
(* any length: the members of a reader outlive its thread, a destroyed     *)
(* object left no more unread than its channel holds, nobody waits for a   *)
(* reader that waits for him as long as the rest fits, and every object    *)
(* delivers the frames of its file in order, up to one end marker.         *)
(***************************************************************************)
EXTENDS StreamReader, SequenceTheorems, TLAPS

\* Where the thread is, by what its reader does: until it is joined it can be;
\* an object whose destructor is past the join has a reader that is done.
LifeOf(o) ==
  /\ node[o].thread = "running" <=> pc[o] \in {"open", "read", "sent"}
  /\ node[o].thread = "exited" <=>
       pc[o] = "done" /\ owner[o] \notin {"members", "dead"}
  /\ owner[o] = "none" <=> pc[o] = "off"
  /\ owner[o] \in {"members", "dead"} => pc[o] = "done"

\* How many messages the reader has sent and the caller has received.
Sent(o)     == i[o] + IF pc[o] \in {"sent", "done"} THEN 1 ELSE 0
Received(o) == last[o] + IF ended[o] THEN 1 ELSE 0

\* What the n-th message is.
Msg(n) == IF n <= file.frames THEN n ELSE 0

\* The channel holds what was sent and is not received, in order; the end
\* marker is received after all frames, and the reader is done when all that
\* is left fits into the channel.
StreamOf(o) ==
  /\ Received(o) + Len(chan[o]) = Sent(o)
  /\ \A k \in 1..Len(chan[o]) : chan[o][k] = Msg(last[o] + k)
  /\ ended[o] => last[o] = file.frames
  /\ pc[o] = "done" => i[o] = file.frames /\ Len(chan[o]) <= Cap

ObjectInv(o) == LifeOf(o) /\ StreamOf(o)

ReaderInv == TypeOK /\ \A o \in Objects : ObjectInv(o)

\* One object takes a step, the others stay as they are.
OnlyMoves(o) ==
  /\ UNCHANGED file
  /\ \A u \in Objects \ {o} :
       UNCHANGED <<owner[u], pc[u], node[u], i[u], chan[u], last[u], ended[u]>>

Step(o) ==
  \/ Reader(o) \/ Destroy(o)
  \/ Construct(o) \/ \E other \in Objects : Copy(o, other)
  \/ CallGetNext(o) \/ GetNextReturns(o) \/ CallDestructor(o)

-----------------------------------------------------------------------------
(* Lemmas.                                                                 *)

LEMMA RunnableTypes ==
  ASSUME NEW r \in Runnables
  PROVE  /\ Started(r) \in Runnables /\ Started(r).thread = "running"
         /\ Exited(r) \in Runnables /\ Exited(r).thread = "exited"
         /\ Joined(r) \in Runnables /\ Joined(r).thread = "none"
         /\ StopSet(r) \in Runnables /\ StopSet(r).thread = r.thread
BY DEF Runnables, Started, Exited, Joined, StopSet

LEMMA FramesNat ==
  ASSUME TypeOK
  PROVE  file.frames \in Nat
BY DEF TypeOK, Files

LEMMA InitReader == Init => ReaderInv
<1> SUFFICES ASSUME Init PROVE ReaderInv
  OBVIOUS
<1>1. file \in Files /\ file.frames \in Nat
  BY StreamReaderAssumption DEF Init, Files
<1>2. TypeOK
  <2>1. NewRunnable \in Runnables
    BY DEF NewRunnable, Runnables
  <2>2. <<>> \in Seq(0..file.frames)
    OBVIOUS
  <2>3. 0 \in 0..file.frames
    BY <1>1
  <2> QED
    BY <1>1, <2>1, <2>2, <2>3 DEF Init, TypeOK
<1>3. ASSUME NEW o \in Objects PROVE ObjectInv(o)
  BY <1>1, <1>3 DEF Init, ObjectInv, LifeOf, StreamOf, Sent, Received, NewRunnable
<1> QED
  BY <1>2, <1>3 DEF ReaderInv

LEMMA Untouched ==
  ASSUME NEW o \in Objects, OnlyMoves(o), NEW u \in Objects \ {o}, ObjectInv(u)
  PROVE  ObjectInv(u)'
BY DEF OnlyMoves, ObjectInv, LifeOf, StreamOf, Sent, Received, Msg

-----------------------------------------------------------------------------
(* The steps of the reader.                                                *)

\* What a step of o has to keep.
Kept(o) == TypeOK' /\ OnlyMoves(o) /\ ObjectInv(o)'

\* The messages of a channel are those of the file.
LEMMA ChanType ==
  ASSUME TypeOK, NEW o \in Objects
  PROVE  /\ chan[o] \in Seq(0..file.frames) /\ Len(chan[o]) \in Nat
         /\ i[o] \in 0..file.frames /\ last[o] \in 0..file.frames
         /\ ended[o] \in BOOLEAN /\ file.frames \in Nat
         /\ node[o] \in Runnables
BY FramesNat DEF TypeOK

LEMMA OpenStep ==
  ASSUME ReaderInv, NEW o \in Objects, Open(o)
  PROVE  Kept(o)
<1>1. /\ pc[o] = "open" /\ pc' = [pc EXCEPT ![o] = "read"]
      /\ UNCHANGED <<file, owner, node, i, chan, last, ended>>
      /\ crashed' \in BOOLEAN
  BY DEF Open, ReaderAt, ReaderGoto, caller
<1>2. TypeOK'
  BY <1>1 DEF ReaderInv, TypeOK
<1>3. OnlyMoves(o)
  BY <1>1 DEF ReaderInv, TypeOK, OnlyMoves
<1>4. pc'[o] = "read"
  BY <1>1 DEF ReaderInv, TypeOK
<1>5. ObjectInv(o)'
  BY <1>1, <1>4 DEF ReaderInv, ObjectInv, LifeOf, StreamOf, Sent, Received, Msg
<1> QED
  BY <1>2, <1>3, <1>5 DEF Kept

LEMMA SendStep ==
  ASSUME ReaderInv, NEW o \in Objects, SendFrame(o)
  PROVE  Kept(o)
<1> DEFINE m == IF HasFrame(o) THEN i[o] + 1 ELSE 0
<1>0. ReaderInv /\ TypeOK /\ ObjectInv(o)
  BY DEF ReaderInv
<1>1. pc[o] = "read" /\ UNCHANGED <<file, i, owner, node, last, ended>>
  BY DEF SendFrame, ReaderAt, ReaderGoto, caller
<1>2. CASE crashed' = TRUE /\ UNCHANGED <<pc, chan>>
  <2>1. TypeOK'
    BY <1>0, <1>1, <1>2 DEF TypeOK
  <2> QED
    BY <1>0, <1>1, <1>2, <2>1
    DEF Kept, OnlyMoves, ObjectInv, LifeOf, StreamOf, Sent, Received, Msg
<1>3. CASE /\ pc' = [pc EXCEPT ![o] = "sent"] /\ UNCHANGED crashed
           /\ chan' = [chan EXCEPT ![o] = Append(@, m)]
  <2>1. /\ chan[o] \in Seq(0..file.frames) /\ Len(chan[o]) \in Nat
        /\ i[o] \in 0..file.frames /\ last[o] \in 0..file.frames
        /\ ended[o] \in BOOLEAN /\ file.frames \in Nat
    BY <1>0, ChanType
  <2>2. m \in 0..file.frames
    BY <2>1 DEF HasFrame
  <2>3. chan' \in [Objects -> Seq(0..file.frames)]
    BY <1>0, <1>3, <2>1, <2>2 DEF TypeOK
  <2>4. TypeOK'
    BY <1>0, <1>1, <1>3, <2>3 DEF TypeOK
  <2>5. OnlyMoves(o)
    BY <1>0, <1>1, <1>3 DEF TypeOK, OnlyMoves
  <2>6. pc'[o] = "sent" /\ chan'[o] = Append(chan[o], m)
    BY <1>0, <1>3 DEF TypeOK
  <2>7. Received(o) + Len(chan[o]) = i[o] /\ ~ended[o]
    BY <1>0, <1>1, <2>1 DEF ObjectInv, StreamOf, Sent, Received
  <2>8. last[o] + Len(chan[o]) = i[o]
    BY <2>1, <2>7 DEF Received
  <2>9. m = Msg(last[o] + (Len(chan[o]) + 1))
    <3>1. last[o] + (Len(chan[o]) + 1) = i[o] + 1
      <4>1. last[o] \in Int /\ Len(chan[o]) \in Int
        BY <2>1
      <4> QED
        BY <2>8, <4>1
    <3>2. m = Msg(i[o] + 1)
      BY <2>1 DEF HasFrame, Msg
    <3> QED
      BY <3>1, <3>2
  <2>10. Len(chan'[o]) = Len(chan[o]) + 1
    BY <2>1, <2>2, <2>6
  <2>11. \A k \in 1..Len(chan'[o]) : chan'[o][k] = Msg(last[o] + k)
    <3> TAKE k \in 1..Len(chan'[o])
    <3>1. CASE k = Len(chan[o]) + 1
      BY <2>1, <2>2, <2>6, <2>9, <3>1
    <3>2. CASE k \in 1..Len(chan[o])
      <4>1. chan'[o][k] = chan[o][k]
        BY <2>1, <2>2, <2>6, <3>2
      <4> QED
        BY <1>0, <3>2, <4>1 DEF ObjectInv, StreamOf
    <3> QED
      BY <2>1, <2>10, <3>1, <3>2
  <2>12. StreamOf(o)'
    <3>1. Received(o)' = Received(o) /\ Sent(o)' = i[o] + 1
      BY <1>1, <2>6 DEF Received, Sent
    <3>2. Received(o) \in Int
      BY <2>1 DEF Received
    <3>3. Received(o)' + Len(chan'[o]) = Sent(o)'
      BY <2>1, <2>7, <2>10, <3>1, <3>2
    <3>4. (\A k \in 1..Len(chan[o]) : chan[o][k] = Msg(last[o] + k))'
      BY <1>1, <2>11 DEF Msg
    <3> QED
      BY <1>1, <2>6, <2>7, <3>3, <3>4 DEF StreamOf
  <2>13. LifeOf(o)'
    BY <1>0, <1>1, <2>6 DEF ObjectInv, LifeOf
  <2> QED
    BY <2>4, <2>5, <2>12, <2>13 DEF Kept, ObjectInv
<1> QED
  BY <1>2, <1>3 DEF SendFrame, ReaderGoto, Send

LEMMA SentStep ==
  ASSUME ReaderInv, NEW o \in Objects, FrameSent(o)
  PROVE  Kept(o)
<1>0. TypeOK /\ ObjectInv(o) /\ UNCHANGED <<file, chan, owner, last, ended, crashed>>
  BY DEF ReaderInv, FrameSent, caller
<1>1. /\ i[o] \in 0..file.frames /\ file.frames \in Nat
      /\ node[o] \in Runnables /\ pc[o] = "sent" /\ Len(chan[o]) <= Cap
  BY <1>0, ChanType DEF FrameSent, ReaderAt, Room
<1>2. CASE /\ HasFrame(o) /\ i' = [i EXCEPT ![o] = @ + 1]
           /\ pc' = [pc EXCEPT ![o] = "read"] /\ UNCHANGED node
  <2>1. i[o] + 1 \in 0..file.frames
    BY <1>1, <1>2 DEF HasFrame
  <2>2. TypeOK' /\ OnlyMoves(o)
    BY <1>0, <1>2, <2>1 DEF TypeOK, OnlyMoves
  <2>3. pc'[o] = "read" /\ i'[o] = i[o] + 1
    BY <1>0, <1>2 DEF TypeOK
  <2>4. LifeOf(o)'
    BY <1>0, <1>1, <1>2, <2>3 DEF ObjectInv, LifeOf
  <2>5. Received(o)' = Received(o) /\ Sent(o)' = Sent(o)
    BY <1>0, <1>1, <2>3 DEF Received, Sent
  <2>6. StreamOf(o)'
    BY <1>0, <2>3, <2>5 DEF ObjectInv, StreamOf, Msg
  <2> QED
    BY <2>2, <2>4, <2>6 DEF Kept, ObjectInv
<1>3. CASE /\ ~HasFrame(o) /\ UNCHANGED i
           /\ pc' = [pc EXCEPT ![o] = "done"]
           /\ node' = [node EXCEPT ![o] = Exited(@)]
  <2>1. Exited(node[o]) \in Runnables /\ Exited(node[o]).thread = "exited"
    BY <1>1, RunnableTypes
  <2>2. TypeOK' /\ OnlyMoves(o)
    BY <1>0, <1>3, <2>1 DEF TypeOK, OnlyMoves
  <2>3. pc'[o] = "done" /\ node'[o] = Exited(node[o])
    BY <1>0, <1>3 DEF TypeOK
  <2>4. LifeOf(o)'
    BY <1>0, <1>1, <2>1, <2>3 DEF ObjectInv, LifeOf
  <2>5. Received(o)' = Received(o) /\ Sent(o)' = Sent(o)
    BY <1>0, <1>1, <1>3, <2>3 DEF Received, Sent
  <2>6. i[o] = file.frames
    BY <1>1, <1>3 DEF HasFrame
  <2>7. StreamOf(o)'
    BY <1>0, <1>1, <1>3, <2>3, <2>5, <2>6 DEF ObjectInv, StreamOf, Msg
  <2> QED
    BY <2>2, <2>4, <2>7 DEF Kept, ObjectInv
<1> QED
  BY <1>2, <1>3 DEF FrameSent, ReaderGoto

-----------------------------------------------------------------------------
(* The steps of the thread that uses the object.                           *)

\* A step that moves neither frames nor the counters keeps the stream.
LEMMA StreamKept ==
  ASSUME NEW o \in Objects, StreamOf(o),
         UNCHANGED <<file, i, chan, last, ended>>,
         \/ UNCHANGED pc
         \/ pc[o] \notin {"sent", "done"} /\ pc'[o] \notin {"sent", "done"}
  PROVE  StreamOf(o)'
BY DEF StreamOf, Sent, Received, Msg

LEMMA StartStep ==
  ASSUME ReaderInv, NEW o \in Objects, owner[o] = "none", StartReader(o)
  PROVE  Kept(o)
<1>0. /\ TypeOK /\ ObjectInv(o) /\ node[o] \in Runnables
      /\ UNCHANGED <<file, i, chan, last, ended, crashed>>
      /\ pc' = [pc EXCEPT ![o] = "open"] /\ owner' = [owner EXCEPT ![o] = "idle"]
      /\ node' = [node EXCEPT ![o] = Started(@)] /\ node[o].thread = "none"
  BY ChanType DEF ReaderInv, StartReader, OwnerGoto, CanStart, Joinable
<1>1. Started(node[o]) \in Runnables /\ Started(node[o]).thread = "running"
  BY <1>0, RunnableTypes
<1>2. TypeOK' /\ OnlyMoves(o)
  BY <1>0, <1>1 DEF TypeOK, OnlyMoves
<1>3. pc'[o] = "open" /\ owner'[o] = "idle" /\ node'[o] = Started(node[o])
  BY <1>0 DEF TypeOK
<1>4. LifeOf(o)'
  BY <1>1, <1>3 DEF LifeOf
<1>5. StreamOf(o)'
  BY <1>0, <1>3, StreamKept DEF ObjectInv, LifeOf
<1> QED
  BY <1>2, <1>4, <1>5 DEF Kept, ObjectInv

\* The owner goes on, and may have changed the node.
LEMMA OwnerStep ==
  ASSUME ReaderInv, NEW o \in Objects, pc[o] # "off", NEW label, NEW r \in Runnables,
         label \in {"idle", "getting", "stopping", "members", "dead"},
         IF label \in {"members", "dead"}
           THEN pc[o] = "done" /\ r.thread = "none"
           ELSE owner[o] \notin {"members", "dead"} /\ r.thread = node[o].thread,
         owner' = [owner EXCEPT ![o] = label], node' = [node EXCEPT ![o] = r],
         UNCHANGED <<file, pc, i, chan, last, ended, crashed>>
  PROVE  Kept(o)
<1>0. TypeOK /\ ObjectInv(o)
  BY DEF ReaderInv
<1>1. TypeOK' /\ OnlyMoves(o)
  BY <1>0 DEF TypeOK, OnlyMoves
<1>2. owner'[o] = label /\ node'[o] = r
  BY <1>0 DEF TypeOK
<1>3. LifeOf(o)'
  BY <1>0, <1>2 DEF ObjectInv, LifeOf
<1>4. StreamOf(o)'
  BY <1>0, StreamKept DEF ObjectInv
<1> QED
  BY <1>1, <1>3, <1>4 DEF Kept, ObjectInv

LEMMA CallStep ==
  ASSUME ReaderInv, NEW o \in Objects, CallGetNext(o) \/ CallDestructor(o) \/ Destroy(o)
  PROVE  Kept(o)
<1>0. TypeOK /\ LifeOf(o) /\ node[o] \in Runnables
  BY ChanType DEF ReaderInv, ObjectInv
<1>1. CASE CallGetNext(o)
  <2>1. /\ owner[o] = "idle" /\ owner' = [owner EXCEPT ![o] = "getting"]
        /\ UNCHANGED <<file, pc, node, i, chan, last, ended, crashed>>
    BY <1>1 DEF CallGetNext, OwnerAt, OwnerGoto, reader
  <2>2. node' = [node EXCEPT ![o] = node[o]]
    BY <1>0, <2>1 DEF TypeOK
  <2> QED
    BY <1>0, <2>1, <2>2, OwnerStep DEF LifeOf
<1>2. CASE CallDestructor(o)
  <2>1. /\ owner[o] = "idle" /\ owner' = [owner EXCEPT ![o] = "stopping"]
        /\ node' = [node EXCEPT ![o] = StopSet(node[o])]
        /\ UNCHANGED <<file, pc, i, chan, last, ended, crashed>>
    BY <1>2 DEF CallDestructor, OwnerAt, OwnerGoto
  <2> QED
    BY <1>0, <2>1, OwnerStep, RunnableTypes DEF LifeOf
<1>3. CASE StopReturns(o)
  <2>1. /\ owner[o] = "stopping" /\ owner' = [owner EXCEPT ![o] = "members"]
        /\ node' = [node EXCEPT ![o] = Joined(node[o])] /\ node[o].thread = "exited"
        /\ UNCHANGED <<file, pc, i, chan, last, ended, crashed>>
    BY <1>3 DEF StopReturns, OwnerAt, OwnerGoto, JoinReturns
  <2> QED
    BY <1>0, <2>1, OwnerStep, RunnableTypes DEF LifeOf
<1>4. CASE DestroyMembers(o)
  <2>1. /\ owner[o] = "members" /\ owner' = [owner EXCEPT ![o] = "dead"]
        /\ node' = [node EXCEPT ![o] = StopSet(node[o])] /\ node[o].thread = "none"
        /\ UNCHANGED <<file, pc, i, chan, last, ended, crashed>>
    BY <1>4 DEF DestroyMembers, OwnerAt, OwnerGoto, JoinThrows, Joinable
  <2> QED
    BY <1>0, <2>1, OwnerStep, RunnableTypes DEF LifeOf
<1> QED
  BY <1>1, <1>2, <1>3, <1>4 DEF Destroy

\* get_next() takes the front of the channel: the next frame or the end.
LEMMA GetNextFront ==
  ASSUME ReaderInv, NEW o \in Objects, GetNextReturns(o)
  PROVE  /\ ~ended[o] /\ Head(chan[o]) = Msg(last[o] + 1)
         /\ Len(chan'[o]) = Len(chan[o]) - 1
         /\ \A k \in 1..Len(chan'[o]) : chan'[o][k] = Msg(last[o] + (k + 1))
         /\ Head(chan[o]) = 0 =>
              /\ last[o] = file.frames /\ Len(chan[o]) = 1
              /\ last' = last /\ ended' = [ended EXCEPT ![o] = TRUE]
         /\ Head(chan[o]) # 0 =>
              /\ last[o] < file.frames /\ Head(chan[o]) = last[o] + 1
              /\ last' = [last EXCEPT ![o] = last[o] + 1] /\ ended' = ended
<1> DEFINE c == chan[o]
<1>0. TypeOK /\ StreamOf(o) /\ c # <<>> /\ chan' = [chan EXCEPT ![o] = Tail(@)]
  BY DEF ReaderInv, ObjectInv, GetNextReturns
<1>1. /\ c \in Seq(0..file.frames) /\ Len(c) \in Nat /\ Len(c) >= 1
      /\ i[o] \in 0..file.frames /\ last[o] \in 0..file.frames
      /\ ended[o] \in BOOLEAN /\ file.frames \in Nat
  BY <1>0, ChanType
<1>2. Sent(o) \in Nat /\ Sent(o) <= file.frames + 1
  BY <1>0, <1>1 DEF StreamOf, Sent
<1>3. ~ended[o]
  BY <1>0, <1>1, <1>2 DEF StreamOf, Received
<1>4. Head(c) = Msg(last[o] + 1)
  BY <1>0, <1>1 DEF StreamOf
<1>5. chan'[o] = Tail(c) /\ Len(chan'[o]) = Len(c) - 1
  BY <1>0, <1>1 DEF TypeOK
<1>6. ASSUME NEW k \in 1..Len(chan'[o])
      PROVE  chan'[o][k] = Msg(last[o] + (k + 1))
  <2>1. k + 1 \in 1..Len(c) /\ chan'[o][k] = c[k + 1]
    BY <1>1, <1>5
  <2> QED
    BY <1>0, <2>1 DEF StreamOf
<1>7. CASE Head(c) = 0
  <2>1. last[o] = file.frames
    BY <1>1, <1>4, <1>7 DEF Msg
  <2>2. Len(c) = 1
    <3>1. last[o] + Len(c) = Sent(o)
      BY <1>0, <1>1, <1>3 DEF StreamOf, Received
    <3>2. Len(c) \in Int /\ Len(c) >= 1 /\ file.frames \in Int
      BY <1>1
    <3>3. file.frames + Len(c) <= file.frames + 1
      BY <1>2, <2>1, <3>1
    <3>4. \A a, b \in Int : b >= 1 /\ a + b <= a + 1 => b = 1
      OBVIOUS
    <3> QED
      BY <3>2, <3>3, <3>4
  <2>3. last' = last /\ ended' = [ended EXCEPT ![o] = TRUE]
    BY <1>7 DEF GetNextReturns
  <2> QED
    BY <1>3, <1>4, <1>5, <1>6, <1>7, <2>1, <2>2, <2>3
<1>8. CASE Head(c) # 0
  <2>1. last[o] < file.frames /\ Head(c) = last[o] + 1
    BY <1>1, <1>4, <1>8 DEF Msg
  <2>2. last' = [last EXCEPT ![o] = last[o] + 1] /\ ended' = ended
    BY <1>8, <2>1 DEF GetNextReturns
  <2> QED
    BY <1>3, <1>4, <1>5, <1>6, <1>8, <2>1, <2>2
<1> QED
  BY <1>7, <1>8

LEMMA GetNextStep ==
  ASSUME ReaderInv, NEW o \in Objects, GetNextReturns(o)
  PROVE  Kept(o)
<1>0. /\ TypeOK /\ ObjectInv(o) /\ owner[o] = "getting"
      /\ chan' = [chan EXCEPT ![o] = Tail(@)] /\ chan[o] # <<>>
      /\ owner' = [owner EXCEPT ![o] = "idle"]
      /\ UNCHANGED <<file, pc, node, i, crashed>>
  BY DEF ReaderInv, GetNextReturns, OwnerAt, OwnerGoto, reader
<1>1. /\ chan[o] \in Seq(0..file.frames) /\ Len(chan[o]) \in Nat
      /\ last[o] \in 0..file.frames /\ file.frames \in Nat
      /\ ended[o] \in BOOLEAN
  BY <1>0, ChanType
<1>2. /\ ~ended[o] /\ Len(chan'[o]) = Len(chan[o]) - 1
      /\ \A k \in 1..Len(chan'[o]) : chan'[o][k] = Msg(last[o] + (k + 1))
  BY GetNextFront
<1>3. Tail(chan[o]) \in Seq(0..file.frames)
  BY <1>0, <1>1, HeadTailProperties
<1>4. chan' \in [Objects -> Seq(0..file.frames)] /\ owner'[o] = "idle"
  BY <1>0, <1>3 DEF TypeOK
<1>5. LifeOf(o)'
  BY <1>0, <1>4 DEF ObjectInv, LifeOf
<1>6. /\ Received(o) \in Int
      /\ Received(o) + 1 + Len(chan'[o]) = Sent(o)
      /\ (pc[o] = "done" => i[o] = file.frames /\ Len(chan[o]) <= Cap)'
  <2>1. Received(o) \in Int
    BY <1>1 DEF Received
  <2>2. Received(o) + Len(chan[o]) = Sent(o)
    BY <1>0 DEF ObjectInv, StreamOf
  <2>3. Received(o) + 1 + Len(chan'[o]) = Sent(o)
    <3>1. Len(chan[o]) \in Int
      BY <1>1
    <3> QED
      BY <1>2, <2>1, <2>2, <3>1
  <2>4. ASSUME pc[o] = "done" PROVE i[o] = file.frames /\ Len(chan'[o]) <= Cap
    <3>1. i[o] = file.frames /\ Len(chan[o]) <= Cap
      BY <1>0, <2>4 DEF ObjectInv, StreamOf
    <3> QED
      BY <1>1, <1>2, <3>1, StreamReaderAssumption
  <2> QED
    BY <1>0, <2>1, <2>3, <2>4
<1>7. CASE Head(chan[o]) = 0
  <2>1. /\ last[o] = file.frames /\ Len(chan[o]) = 1
        /\ last' = last /\ ended' = [ended EXCEPT ![o] = TRUE]
    BY <1>7, GetNextFront
  <2>2. TypeOK' /\ OnlyMoves(o) /\ ended'[o]
    BY <1>0, <1>4, <2>1 DEF TypeOK, OnlyMoves
  <2>3. Received(o)' = Received(o) + 1 /\ Sent(o)' = Sent(o)
    BY <1>0, <1>1, <1>2, <2>1, <2>2 DEF Received, Sent
  <2>4. (\A k \in 1..Len(chan[o]) : chan[o][k] = Msg(last[o] + k))'
    BY <1>2, <2>1
  <2>5. StreamOf(o)'
    BY <1>0, <1>1, <1>6, <2>1, <2>2, <2>3, <2>4 DEF StreamOf
  <2> QED
    BY <1>5, <2>2, <2>5 DEF Kept, ObjectInv
<1>8. CASE Head(chan[o]) # 0
  <2>1. /\ last[o] < file.frames /\ ended' = ended
        /\ last' = [last EXCEPT ![o] = last[o] + 1]
    BY <1>8, GetNextFront
  <2>2. last[o] + 1 \in 0..file.frames
    BY <1>1, <2>1
  <2>3. TypeOK' /\ OnlyMoves(o) /\ last'[o] = last[o] + 1
    BY <1>0, <1>4, <2>1, <2>2 DEF TypeOK, OnlyMoves
  <2>4. Received(o)' = Received(o) + 1 /\ Sent(o)' = Sent(o) /\ ~ended'[o]
    BY <1>0, <1>1, <1>2, <2>1, <2>3 DEF Received, Sent
  <2>5. (\A k \in 1..Len(chan[o]) : chan[o][k] = Msg(last[o] + k))'
    <3>1. ASSUME NEW k \in 1..Len(chan'[o]) PROVE chan'[o][k] = Msg(last'[o] + k)
      <4>1. last[o] + (k + 1) = last'[o] + k
        BY <1>1, <2>3
      <4> QED
        BY <1>2, <4>1
    <3> QED
      BY <1>0, <3>1 DEF Msg
  <2>6. StreamOf(o)'
    BY <1>6, <2>4, <2>5 DEF StreamOf
  <2> QED
    BY <1>5, <2>3, <2>6 DEF Kept, ObjectInv
<1> QED
  BY <1>7, <1>8

-----------------------------------------------------------------------------
(* The invariant and what follows from it.                                 *)

LEMMA NextSteps ==
  Next => \E o \in Objects : Step(o)
BY DEF Next, Step

LEMMA StepKept ==
  ASSUME ReaderInv, NEW o \in Objects, Step(o)
  PROVE  Kept(o)
<1>1. CASE Reader(o)
  BY <1>1, OpenStep, SendStep, SentStep DEF Reader
<1>2. CASE Construct(o) \/ \E other \in Objects : Copy(o, other)
  <2>1. owner[o] = "none" /\ StartReader(o)
    BY <1>2 DEF Construct, Copy, OwnerAt
  <2> QED
    BY <2>1, StartStep
<1>3. CASE Destroy(o) \/ CallGetNext(o) \/ CallDestructor(o)
  BY <1>3, CallStep
<1>4. CASE GetNextReturns(o)
  BY <1>4, GetNextStep
<1> QED
  BY <1>1, <1>2, <1>3, <1>4 DEF Step

LEMMA ReaderInvStep == ReaderInv /\ [Next]_vars => ReaderInv'
<1> SUFFICES ASSUME ReaderInv, [Next]_vars PROVE ReaderInv'
  OBVIOUS
<1>1. CASE Next
  <2>1. PICK o \in Objects : Step(o)
    BY <1>1, NextSteps
  <2>2. Kept(o)
    BY <2>1, StepKept
  <2>3. ASSUME NEW u \in Objects \ {o} PROVE ObjectInv(u)'
    BY <2>2, Untouched DEF Kept, ReaderInv
  <2> QED
    BY <2>2, <2>3 DEF Kept, ReaderInv
<1>2. CASE UNCHANGED vars
  <2>1. TypeOK'
    BY <1>2 DEF ReaderInv, TypeOK, vars, reader, caller
  <2>2. ASSUME NEW o \in Objects PROVE ObjectInv(o)'
    BY <1>2 DEF ReaderInv, ObjectInv, LifeOf, StreamOf, Sent, Received, Msg,
                vars, reader, caller
  <2> QED
    BY <2>1, <2>2 DEF ReaderInv
<1> QED
  BY <1>1, <1>2

\* Every variable keeps its type, for any objects, buffer and length of file.
THEOREM ReaderTypes == Spec => []TypeOK
<1>1. ReaderInv => TypeOK
  BY DEF ReaderInv
<1> QED
  BY <1>1, InitReader, ReaderInvStep, PTL DEF Spec

\* The members of a reader, its handle to the channel among them, are not
\* destroyed before its thread has ended.
THEOREM MembersLast == Spec => []MembersOutliveThread
<1>1. ReaderInv => MembersOutliveThread
  BY DEF ReaderInv, ObjectInv, LifeOf, MembersOutliveThread
<1> QED
  BY <1>1, InitReader, ReaderInvStep, PTL DEF Spec

\* What was not received is in the channel or still to be sent.
LEMMA UnreadSplit ==
  ASSUME ReaderInv, NEW o \in Objects
  PROVE  /\ Unread(o) = Len(chan[o]) + (file.frames + 1 - Sent(o))
         /\ Sent(o) \in 0..(file.frames + 1) /\ Len(chan[o]) \in Nat
         /\ Unread(o) = 0 => ended[o]
<1>1. /\ Len(chan[o]) \in Nat /\ file.frames \in Nat /\ i[o] \in 0..file.frames
      /\ last[o] \in 0..file.frames /\ ended[o] \in BOOLEAN
      /\ Received(o) + Len(chan[o]) = Sent(o)
  BY ChanType DEF ReaderInv, ObjectInv, StreamOf
<1>2. PICK n \in Nat : n = Len(chan[o])
  BY <1>1
<1>3. Sent(o) \in 0..(file.frames + 1)
  BY <1>1 DEF Sent
<1>4. Received(o) \in Nat /\ Unread(o) = file.frames + 1 - Received(o)
  BY <1>1 DEF Received, Unread
<1>5. Unread(o) = n + (file.frames + 1 - Sent(o))
  <2>1. PICK s \in Int, r \in Nat, f \in Nat :
          s = Sent(o) /\ r = Received(o) /\ f = file.frames
    BY <1>1, <1>3, <1>4
  <2>2. r + n = s /\ Unread(o) = f + 1 - r
    BY <1>1, <1>2, <1>4, <2>1
  <2> QED
    BY <2>1, <2>2
<1>6. Unread(o) = 0 => ended[o]
  BY <1>1 DEF Unread
<1> QED
  BY <1>2, <1>3, <1>5, <1>6

\* The destructor gets past its join only when the messages nobody read fit
\* into the channel; if they do, neither it nor, up to the end, get_next() waits
\* while the reader waits, too.
THEOREM DrainedFirst == Spec => []WaitsAreMet
<1>1. ASSUME ReaderInv, NEW o \in Objects
      PROVE  /\ owner[o] \in {"members", "dead"} => Unread(o) <= Cap
             /\ (owner[o] = "stopping" /\ Unread(o) <= Cap) =>
                  ReaderGoes(o) \/ JoinReturns(node[o])
             /\ owner[o] = "members" => JoinThrows(node[o])
             /\ (owner[o] = "getting" /\ ~ended[o]) => ReaderGoes(o) \/ chan[o] # <<>>
  <2>1. LifeOf(o) /\ StreamOf(o) /\ TypeOK
    BY <1>1 DEF ReaderInv, ObjectInv
  <2>2. /\ Unread(o) = Len(chan[o]) + (file.frames + 1 - Sent(o))
        /\ Sent(o) \in 0..(file.frames + 1) /\ Len(chan[o]) \in Nat
        /\ Unread(o) = 0 => ended[o]
    BY <1>1, UnreadSplit
  <2>3. pc[o] = "done" => Sent(o) = file.frames + 1 /\ Len(chan[o]) <= Cap
    BY <2>1 DEF StreamOf, Sent
  <2>4. /\ Cap \in Nat /\ file.frames \in Nat /\ chan[o] \in Seq(0..file.frames)
        /\ pc[o] \in {"off", "open", "read", "sent", "done"}
        /\ node[o].thread \in {"none", "running", "exited"}
    BY <2>1, ChanType, StreamReaderAssumption DEF TypeOK, Runnables
  <2>5. PICK n \in Nat : n = Len(chan[o]) /\ (chan[o] = <<>> <=> n = 0)
    BY <2>2, <2>4
  <2>6. owner[o] \in {"members", "dead"} => Unread(o) <= Cap
    <3>1. owner[o] \in {"members", "dead"} => pc[o] = "done"
      BY <2>1 DEF LifeOf
    <3> QED
      BY <2>2, <2>3, <2>4, <2>5, <3>1
  <2>7. ASSUME n <= Cap, owner[o] \in {"stopping", "getting"}, pc[o] # "done"
        PROVE  ReaderGoes(o)
    <3>1. pc[o] \in {"open", "read", "sent"}
      BY <2>1, <2>4, <2>7 DEF LifeOf
    <3> QED
      BY <2>5, <2>7, <3>1 DEF ReaderGoes, Room
  <2>8. ASSUME owner[o] = "stopping", Unread(o) <= Cap
        PROVE  ReaderGoes(o) \/ JoinReturns(node[o])
    <3>1. n <= Cap
      BY <2>2, <2>4, <2>5, <2>8
    <3>2. pc[o] = "done" => JoinReturns(node[o])
      BY <2>1, <2>8 DEF LifeOf, JoinReturns
    <3> QED
      BY <2>7, <2>8, <3>1, <3>2
  <2>9. ASSUME owner[o] = "getting", ~ended[o], chan[o] = <<>>
        PROVE  ReaderGoes(o)
    <3>1. n = 0 /\ pc[o] # "done"
      BY <2>2, <2>3, <2>4, <2>5, <2>9
    <3> QED
      BY <2>4, <2>7, <2>9, <3>1
  <2>10. owner[o] = "members" => JoinThrows(node[o])
    BY <2>1, <2>4 DEF LifeOf, JoinThrows, Joinable
  <2> QED
    BY <2>6, <2>8, <2>9, <2>10
<1>2. ReaderInv => WaitsAreMet
  BY <1>1 DEF WaitsAreMet
<1> QED
  BY <1>2, InitReader, ReaderInvStep, PTL DEF Spec

\* Every object is a stream of the frames of the file: in order, complete,
\* one end marker and nothing after it, whatever copies of the object do.
THEOREM FramesDelivered == Spec => DeliversFrames
<1>1. ASSUME ReaderInv, NEW o \in Objects, GetNextReturns(o)
      PROVE  FrameStep(o)
  <2>1. /\ last \in [Objects -> 0..file.frames] /\ file.frames \in Nat
        /\ ended \in [Objects -> BOOLEAN] /\ file' = file
    BY <1>1, FramesNat DEF ReaderInv, TypeOK, GetNextReturns
  <2>2. CASE Head(chan[o]) = 0
    <3>1. ~ended[o] /\ last[o] = file.frames /\ last'[o] = last[o] /\ ended'[o] = TRUE
      BY <1>1, <2>1, <2>2, GetNextFront
    <3>2. Frames(o)!End
      BY <2>1, <3>1 DEF Frames!End
    <3> QED
      BY <3>2 DEF FrameStep, Frames!StreamNext
  <2>3. CASE Head(chan[o]) # 0
    <3>1. /\ ~ended[o] /\ last[o] < file.frames
          /\ last'[o] = last[o] + 1 /\ ended'[o] = ended[o]
      BY <1>1, <2>1, <2>3, GetNextFront
    <3>2. Frames(o)!Deliver
      BY <2>1, <3>1 DEF Frames!Deliver
    <3> QED
      BY <3>2 DEF FrameStep, Frames!StreamNext
  <2> QED
    BY <2>2, <2>3
<1>2. ASSUME ReaderInv, NEW o \in Objects, Step(o), ~GetNextReturns(o)
      PROVE  UNCHANGED <<last, ended>>
  BY <1>2 DEF Step, Reader, Open, SendFrame, FrameSent, Destroy, StopReturns,
              DestroyMembers, Construct, Copy, StartReader, CallGetNext,
              CallDestructor, caller
<1>3. ASSUME ReaderInv, [Next]_vars, NEW u \in Objects PROVE FrameStep(u)
  <2>1. CASE UNCHANGED vars
    BY <2>1 DEF vars, caller, FrameStep, Frames!StreamVars
  <2>2. CASE Next
    <3>1. PICK o \in Objects : Step(o)
      BY <2>2, NextSteps
    <3>2. file' = file
      BY <1>3, <3>1, StepKept DEF Kept, OnlyMoves
    <3>3. CASE u = o /\ GetNextReturns(o)
      BY <1>1, <1>3, <3>3
    <3>4. CASE ~GetNextReturns(o)
      BY <1>2, <1>3, <3>1, <3>2, <3>4 DEF FrameStep, Frames!StreamVars
    <3>5. CASE u # o
      <4>1. UNCHANGED <<last[u], ended[u]>>
        BY <1>3, <3>1, <3>5, StepKept DEF Kept, OnlyMoves
      <4> QED
        BY <3>2, <4>1 DEF FrameStep, Frames!StreamVars
    <3> QED
      BY <3>3, <3>4, <3>5
  <2> QED
    BY <1>3, <2>1, <2>2
<1>4. Init => \A o \in Objects : Frames(o)!StreamInit
  <2> SUFFICES ASSUME Init, NEW o \in Objects PROVE Frames(o)!StreamInit
    OBVIOUS
  <2>1. file.frames \in Nat
    BY InitReader, FramesNat DEF ReaderInv
  <2> QED
    BY <2>1 DEF Init, Frames!StreamInit
<1>5. ReaderInv /\ [Next]_vars => [\A o \in Objects : FrameStep(o)]_vars
  BY <1>3
<1> QED
  BY <1>4, <1>5, InitReader, ReaderInvStep, PTL DEF Spec, DeliversFrames
=============================================================================
