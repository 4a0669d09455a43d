-------------------------- MODULE CubviewerProofs --------------------------
(***************************************************************************)
(* Cubviewer, for any B, any buffer size and files of any length: the      *)
(* order in every channel, the buffer of means, that the threads never all *)
(* wait for one another, how main() ends, and that the consumer gets a     *)
(* FrameStream.                                                            *)
(***************************************************************************)
EXTENDS Cubviewer, SequenceTheorems, TLAPS

\* Where each thread can be.
Labels ==
  [r  |-> {"off", "send_frame", "frame_sent", "send_header", "header_sent", "done"},
   bf |-> {"off", "fill", "recv", "send", "sent", "done"},
   mf |-> {"off", "first", "recv", "send", "sent", "done"},
   fr |-> {"off", "recv", "done"},
   hr |-> {"off", "recv", "done"}]

\* Threads are started once and in order, and joined when they are done.
ControlInv ==
  /\ \A t \in Threads :
       pc[t] \in Labels[t] /\ (node[t].thread = "exited" => pc[t] = "done")
  /\ \A k \in 1..5 : /\ main < k => pc[StartOrder[k]] = "off"
                     /\ main >= k + 5 => pc[JoinOrder[k]] = "done"

\* How many messages were put into a channel.
Puts(c) == taken[c] + Len(chan[c])

\* The reader has sent the frames it counted, and one message more while it
\* deals with the header or when it is done.
ReaderInv ==
  /\ Puts("frame") = i + IF pc["r"] \in {"off", "send_frame"} THEN 0 ELSE 1
  /\ pc["r"] = "done" => i = frames

\* How many headers were received: the header channel holds the current one.
HeadersTaken ==
  i + IF pc["r"] \in {"header_sent", "done"} /\ header = <<>> THEN 1 ELSE 0

HeaderInv ==
  /\ header # <<>> => /\ pc["r"] = "header_sent"
                      /\ header = <<IF i + 1 = firstZero THEN 0 ELSE 1>>
  /\ IF pc["hr"] = "done" THEN HeadersTaken = firstZero
                          ELSE HeadersTaken < firstZero

\* How many messages BufferedMean owes for the frames it has received; the
\* last of them is the one it is sending.
MeansDue == LET T == taken["frame"]
            IN  IF T > frames THEN Total("buffer") ELSE IF T < B THEN 0 ELSE T - B

BufferInv ==
  LET T == taken["frame"]
  IN  /\ Puts("buffer") = MeansDue - IF pc["bf"] = "send" THEN 1 ELSE 0
      /\ pc["bf"] = "off" => T = 0
      /\ pc["bf"] = "fill" => T < B /\ T <= frames
      /\ pc["bf"] = "recv" => T \in B..frames
      /\ pc["bf"] \in {"send", "sent"} => /\ T > B \/ T > frames
                                          /\ out["bf"] = MeanMsg(MeansDue)
      /\ pc["bf"] = "done" => T = frames + 1

\* The same for FrameMean, which keeps the first mean.
MeanInv ==
  LET U == taken["buffer"]
  IN  /\ Puts("mean") = (IF U = 0 THEN 0 ELSE U - 1)
                          - IF pc["mf"] = "send" THEN 1 ELSE 0
      /\ pc["mf"] \in {"off", "first"} => U = 0
      /\ pc["mf"] = "recv" => U >= 1 /\ (aborted \/ U <= frames - B)
      /\ pc["mf"] \in {"send", "sent"} => U >= 2 /\ out["mf"] = MeanMsg(U)
      /\ pc["mf"] = "done" => U = Total("buffer") /\ frames > B
      /\ aborted => frames <= B

\* FrameRecv has the mean it received last.
RecvInv ==
  LET V == taken["mean"]
  IN  IF pc["fr"] = "done"
        THEN V = frames - B /\ V >= 1 /\ got = IF V = 1 THEN Null ELSE MeanMsg(V)
        ELSE /\ V = 0 \/ V < frames - B
             /\ got = IF V = 0 THEN Null ELSE MeanMsg(V + 1)

PipelineInv ==
  /\ TypeOK /\ ControlInv /\ InOrder /\ BufferHolds
  /\ ReaderInv /\ HeaderInv /\ BufferInv /\ MeanInv /\ RecvInv

\* How far each Runnable is: its thread is started in order, has ended when
\* run() has, is joined in order, and is stopped only after that.
LifeInv ==
  /\ \A k \in 1..5 :
       /\ main < k => node[StartOrder[k]].thread = "none"
       /\ main >= k => pc[StartOrder[k]] # "off"
       /\ (main < k + 5 /\ pc[JoinOrder[k]] = "done") =>
            node[JoinOrder[k]].thread = "exited"
       /\ main >= k + 5 => node[JoinOrder[k]].thread = "none"
  /\ main < 10 => \A t \in Threads : ~node[t].stop

-----------------------------------------------------------------------------
(* Labels and threads.                                                     *)

LEMMA ThreadLabels ==
  /\ Labels["r"] = {"off", "send_frame", "frame_sent", "send_header", "header_sent",
                    "done"}
  /\ Labels["bf"] = {"off", "fill", "recv", "send", "sent", "done"}
  /\ Labels["mf"] = {"off", "first", "recv", "send", "sent", "done"}
  /\ Labels["fr"] = {"off", "recv", "done"}
  /\ Labels["hr"] = {"off", "recv", "done"}
BY DEF Labels

LEMMA LabelTypes ==
  \A t \in Threads : Labels[t] \subseteq
     {"off", "send_frame", "frame_sent", "send_header", "header_sent", "fill",
      "first", "recv", "send", "sent", "done"}
BY DEF Labels, Threads

LEMMA Orders ==
  /\ StartOrder[1] = "fr" /\ StartOrder[2] = "bf" /\ StartOrder[3] = "mf"
  /\ StartOrder[4] = "hr" /\ StartOrder[5] = "r" /\ Len(StartOrder) = 5
  /\ JoinOrder[1] = "r" /\ JoinOrder[2] = "hr" /\ JoinOrder[3] = "mf"
  /\ JoinOrder[4] = "bf" /\ JoinOrder[5] = "fr" /\ Len(JoinOrder) = 5
  /\ Len(DestroyOrder) = 5
BY DEF StartOrder, JoinOrder, DestroyOrder

LEMMA InOrders ==
  ASSUME NEW k \in 1..5
  PROVE  StartOrder[k] \in Threads /\ JoinOrder[k] \in Threads
         /\ DestroyOrder[k] \in Threads
BY DEF StartOrder, JoinOrder, DestroyOrder, Threads

LEMMA RunnableTypes ==
  ASSUME NEW r \in Runnables
  PROVE  /\ Started(r) \in Runnables /\ Started(r).thread = "running"
         /\ Exited(r) \in Runnables /\ Exited(r).thread = "exited"
         /\ Joined(r) \in Runnables /\ Joined(r).thread = "none"
         /\ StopSet(r) \in Runnables /\ StopSet(r).thread = r.thread
BY DEF Runnables, Started, Exited, Joined, StopSet

\* Thread t goes on from a label of its run(); no other thread moves.
Moves(t, from, to) ==
  /\ t \in Threads /\ pc[t] = from /\ from \notin {"off", "done"}
  /\ to \in Labels[t] \ {"off"}
  /\ \/ to # "done" /\ Goto(t, to)
     \/ to = "done" /\ Return(t)

LEMMA MoveStep ==
  ASSUME TypeOK, ControlInv, NEW t, NEW from, NEW to, Moves(t, from, to), main' = main
  PROVE  /\ pc' \in [Threads -> {"off", "send_frame", "frame_sent", "send_header",
                         "header_sent", "fill", "first", "recv", "send",
                         "sent", "done"}]
         /\ node' \in [Threads -> Runnables]
         /\ ControlInv'
         /\ pc'[t] = to /\ \A u \in Threads \ {t} : pc'[u] = pc[u]
<1>1. /\ t \in Threads /\ to \in Labels[t] /\ to # "off"
      /\ pc[t] \notin {"off", "done"} /\ pc' = [pc EXCEPT ![t] = to]
      /\ pc \in [Threads -> {"off", "send_frame", "frame_sent", "send_header",
                         "header_sent", "fill", "first", "recv", "send",
                         "sent", "done"}]
      /\ node \in [Threads -> Runnables]
  BY DEF Moves, Goto, Return, TypeOK
<1>2. /\ pc' \in [Threads -> {"off", "send_frame", "frame_sent", "send_header",
                         "header_sent", "fill", "first", "recv", "send",
                         "sent", "done"}]
      /\ pc'[t] = to /\ \A u \in Threads \ {t} : pc'[u] = pc[u]
  BY <1>1, LabelTypes
<1>3. /\ node' \in [Threads -> Runnables]
      /\ node'[t].thread = "exited" => to = "done"
      /\ \A u \in Threads \ {t} : node'[u] = node[u]
  <2>1. CASE to # "done" /\ node' = node
    BY <1>1, <2>1 DEF ControlInv
  <2>2. CASE to = "done" /\ node' = [node EXCEPT ![t] = Exited(@)]
    BY <1>1, <2>2, RunnableTypes
  <2> QED
    BY <2>1, <2>2 DEF Moves, Goto, Return
<1>4. ASSUME NEW u \in Threads
      PROVE  pc'[u] \in Labels[u] /\ (node'[u].thread = "exited" => pc'[u] = "done")
  BY <1>1, <1>2, <1>3 DEF ControlInv
<1>5. ASSUME NEW k \in 1..5
      PROVE  /\ main < k => pc'[StartOrder[k]] = "off"
             /\ main >= k + 5 => pc'[JoinOrder[k]] = "done"
  BY <1>1, <1>2, InOrders DEF ControlInv
<1>6. ControlInv'
  BY <1>4, <1>5 DEF ControlInv
<1> QED
  BY <1>2, <1>3, <1>6

-----------------------------------------------------------------------------
(* The channels.                                                           *)

\* The parts of the invariant that name messages, for a file that stays.
LEMMA StreamKept ==
  ASSUME UNCHANGED frames
  PROVE  /\ \A c \in Channels : Total(c)' = Total(c)
         /\ \A c, n : Stream(c, n)' = Stream(c, n)
         /\ \A n : MeanMsg(n)' = MeanMsg(n)
BY DEF Total, Stream, MeanMsg, Window

LEMMA ChannelTypes ==
  ASSUME TypeOK, NEW c \in Channels
  PROVE  /\ chan[c] \in Seq(Seq(Nat)) /\ Len(chan[c]) \in Nat /\ taken[c] \in Nat
         /\ frames \in Nat /\ B \in Nat /\ B >= 1 /\ Total(c) \in Nat
<1>1. frames \in Nat /\ B \in Nat /\ B >= 1
  BY CubviewerAssumption DEF TypeOK
<1>2. Total("frame") \in Nat /\ Total("buffer") \in Nat /\ Total("mean") \in Nat
  BY <1>1 DEF Total
<1>3. chan[c] \in Seq(Seq(Nat)) /\ taken[c] \in Nat
  BY DEF TypeOK
<1> QED
  BY <1>1, <1>2, <1>3 DEF Channels

\* A message that is the next of its stream.
LEMMA PutLink ==
  ASSUME TypeOK, InOrder, NEW c \in Channels, NEW msg \in Seq(Nat), Put(c, msg),
         UNCHANGED frames, msg = Stream(c, Puts(c) + 1), Puts(c) < Total(c)
  PROVE  /\ InOrder' /\ chan' \in [Channels -> Seq(Seq(Nat))] /\ taken' = taken
         /\ Puts(c)' = Puts(c) + 1
         /\ \A d \in Channels \ {c} : Puts(d)' = Puts(d)
<1>1. /\ chan' = [chan EXCEPT ![c] = Append(@, msg)] /\ taken' = taken
      /\ chan \in [Channels -> Seq(Seq(Nat))]
  BY DEF Put, TypeOK
<1>2. chan' \in [Channels -> Seq(Seq(Nat))]
  BY <1>1
<1>3. /\ chan[c] \in Seq(Seq(Nat)) /\ Len(chan[c]) \in Nat /\ taken[c] \in Nat
      /\ Total(c) \in Nat
  BY ChannelTypes
<1>4. chan'[c] = Append(chan[c], msg) /\ \A d \in Channels \ {c} : chan'[d] = chan[d]
  BY <1>1
<1>5. Len(chan'[c]) = Len(chan[c]) + 1
  BY <1>3, <1>4
<1>6. Puts(c)' = Puts(c) + 1 /\ \A d \in Channels \ {c} : Puts(d)' = Puts(d)
  <2>1. Puts(c)' = taken[c] + (Len(chan[c]) + 1)
    BY <1>1, <1>5 DEF Puts
  <2>2. Puts(c)' = Puts(c) + 1
    BY <1>3, <2>1 DEF Puts
  <2>3. \A d \in Channels \ {c} : Puts(d)' = Puts(d)
    BY <1>1, <1>4 DEF Puts
  <2> QED
    BY <2>2, <2>3
<1>7. ASSUME NEW d \in Channels \ {c}
      PROVE  /\ taken[d] + Len(chan'[d]) \in 0..Total(d)
             /\ \A k \in 1..Len(chan'[d]) : chan'[d][k] = Stream(d, taken[d] + k)
  BY <1>4 DEF InOrder
<1>8. taken[c] + Len(chan'[c]) \in 0..Total(c)
  BY <1>3, <1>5 DEF Puts
<1>9. ASSUME NEW k \in 1..Len(chan'[c])
      PROVE  chan'[c][k] = Stream(c, taken[c] + k)
  <2>1. CASE k = Len(chan[c]) + 1
    <3>1. chan'[c][k] = msg
      BY <1>3, <1>4, <2>1
    <3>2. Puts(c) + 1 = taken[c] + k
      BY <1>3, <2>1 DEF Puts
    <3> QED
      BY <3>1, <3>2
  <2>2. CASE k \in 1..Len(chan[c])
    <3>1. chan'[c][k] = chan[c][k]
      BY <1>3, <1>4, <2>2
    <3> QED
      BY <2>2, <3>1 DEF InOrder
  <2> QED
    BY <1>3, <1>5, <2>1, <2>2
<1>10. InOrder'
  BY <1>1, <1>7, <1>8, <1>9, StreamKept DEF InOrder
<1> QED
  BY <1>1, <1>2, <1>6, <1>10

\* What a receive takes is the next message of the stream.
LEMMA TakeLink ==
  ASSUME TypeOK, InOrder, NEW c \in Channels, Take(c), UNCHANGED frames
  PROVE  /\ InOrder' /\ chan' \in [Channels -> Seq(Seq(Nat))]
         /\ taken' \in [Channels -> Nat]
         /\ Head(chan[c]) = Stream(c, taken[c] + 1) /\ taken[c] < Total(c)
         /\ taken'[c] = taken[c] + 1
         /\ \A d \in Channels \ {c} : taken'[d] = taken[d]
         /\ \A d \in Channels : Puts(d)' = Puts(d)
<1>1. /\ chan' = [chan EXCEPT ![c] = Tail(@)] /\ chan[c] # <<>>
      /\ taken' = [taken EXCEPT ![c] = @ + 1]
      /\ chan \in [Channels -> Seq(Seq(Nat))] /\ taken \in [Channels -> Nat]
  BY DEF Take, TypeOK
<1>2. /\ chan[c] \in Seq(Seq(Nat)) /\ Len(chan[c]) \in Nat /\ taken[c] \in Nat
      /\ Total(c) \in Nat
  BY ChannelTypes
<1>3. /\ Tail(chan[c]) \in Seq(Seq(Nat)) /\ Len(Tail(chan[c])) = Len(chan[c]) - 1
      /\ \A k \in 1..Len(Tail(chan[c])) : Tail(chan[c])[k] = chan[c][k + 1]
      /\ Len(chan[c]) >= 1
  BY <1>1, <1>2, HeadTailProperties
<1>4. chan'[c] = Tail(chan[c]) /\ \A d \in Channels \ {c} : chan'[d] = chan[d]
  BY <1>1
<1>5. taken'[c] = taken[c] + 1 /\ \A d \in Channels \ {c} : taken'[d] = taken[d]
  BY <1>1
<1>6. chan' \in [Channels -> Seq(Seq(Nat))] /\ taken' \in [Channels -> Nat]
  BY <1>1, <1>2, <1>3
<1>7. taken[c] + Len(chan[c]) <= Total(c)
  BY <1>2 DEF InOrder
<1>8. Head(chan[c]) = Stream(c, taken[c] + 1) /\ taken[c] < Total(c)
  <2>1. Head(chan[c]) = chan[c][1]
    BY <1>2, <1>3
  <2>2. chan[c][1] = Stream(c, taken[c] + 1)
    BY <1>2, <1>3 DEF InOrder
  <2>3. \A a, b, z \in Nat : a + b <= z /\ b >= 1 => a < z
    OBVIOUS
  <2> QED
    BY <1>2, <1>3, <1>7, <2>1, <2>2, <2>3
<1>9. Puts(c)' = Puts(c) /\ \A d \in Channels \ {c} : Puts(d)' = Puts(d)
  <2>1. \A a, b \in Nat : a + 1 + (b - 1) = a + b
    OBVIOUS
  <2>2. Puts(c)' = taken[c] + 1 + (Len(chan[c]) - 1)
    BY <1>3, <1>4, <1>5 DEF Puts
  <2>3. Puts(c)' = Puts(c)
    BY <1>2, <2>1, <2>2 DEF Puts
  <2>4. \A d \in Channels \ {c} : Puts(d)' = Puts(d)
    BY <1>4, <1>5 DEF Puts
  <2> QED
    BY <2>3, <2>4
<1>10. ASSUME NEW d \in Channels \ {c}
       PROVE  /\ taken'[d] + Len(chan'[d]) \in 0..Total(d)
              /\ \A k \in 1..Len(chan'[d]) : chan'[d][k] = Stream(d, taken'[d] + k)
  BY <1>4, <1>5 DEF InOrder
<1>11. taken'[c] + Len(chan'[c]) \in 0..Total(c)
  BY <1>9 DEF InOrder, Puts
<1>12. ASSUME NEW k \in 1..Len(chan'[c])
       PROVE  chan'[c][k] = Stream(c, taken'[c] + k)
  <2>1. k + 1 \in 1..Len(chan[c]) /\ chan'[c][k] = chan[c][k + 1]
    BY <1>2, <1>3, <1>4
  <2>2. chan'[c][k] = Stream(c, taken[c] + (k + 1))
    BY <2>1 DEF InOrder
  <2>3. \A a, b \in Nat : a + (b + 1) = (a + 1) + b
    OBVIOUS
  <2>4. taken[c] + (k + 1) = taken'[c] + k
    BY <1>2, <1>5, <2>3
  <2> QED
    BY <2>2, <2>4
<1>13. InOrder'
  BY <1>10, <1>11, <1>12, StreamKept DEF InOrder
<1> QED
  BY <1>5, <1>6, <1>8, <1>9, <1>13

-----------------------------------------------------------------------------
(* What a step does not touch stays true.                                  *)

LEMMA Untouched ==
  ASSUME UNCHANGED file
  PROVE  /\ BufferHolds /\ UNCHANGED <<taken["frame"], buffer_>> => BufferHolds'
         /\ ReaderInv /\ UNCHANGED <<Puts("frame"), pc["r"], i>> => ReaderInv'
         /\ HeaderInv /\ UNCHANGED <<header, pc["r"], pc["hr"], i>> => HeaderInv'
         /\ BufferInv /\ UNCHANGED <<taken["frame"], Puts("buffer"), pc["bf"], out["bf"]>>
              => BufferInv'
         /\ MeanInv /\ UNCHANGED <<taken["buffer"], Puts("mean"), pc["mf"], out["mf"],
                                   aborted>> => MeanInv'
         /\ RecvInv /\ UNCHANGED <<taken["mean"], pc["fr"], got>> => RecvInv'
<1>1. BufferHolds /\ UNCHANGED <<taken["frame"], buffer_>> => BufferHolds'
  BY DEF file, BufferHolds
<1>2. ReaderInv /\ UNCHANGED <<Puts("frame"), pc["r"], i>> => ReaderInv'
  BY DEF file, ReaderInv
<1>3. HeaderInv /\ UNCHANGED <<header, pc["r"], pc["hr"], i>> => HeaderInv'
  BY DEF file, HeaderInv, HeadersTaken
<1>4. BufferInv /\ UNCHANGED <<taken["frame"], Puts("buffer"), pc["bf"], out["bf"]>>
        => BufferInv'
  BY DEF file, BufferInv, MeansDue, Total, MeanMsg, Window
<1>5. MeanInv /\ UNCHANGED <<taken["buffer"], Puts("mean"), pc["mf"], out["mf"],
                            aborted>> => MeanInv'
  BY DEF file, MeanInv, Total, MeanMsg, Window
<1>6. RecvInv /\ UNCHANGED <<taken["mean"], pc["fr"], got>> => RecvInv'
  BY DEF file, RecvInv, MeanMsg, Window
<1> QED
  BY <1>1, <1>2, <1>3, <1>4, <1>5, <1>6

\* Neither the channels nor what was taken from them change.
LEMMA LinkKept ==
  ASSUME UNCHANGED <<file, link>>
  PROVE  /\ UNCHANGED <<chan, taken>> /\ \A c \in Channels : Puts(c)' = Puts(c)
         /\ InOrder => InOrder'
<1>1. UNCHANGED <<chan, taken, frames>>
  BY DEF link, file
<1>2. \A c \in Channels : Puts(c)' = Puts(c)
  BY <1>1 DEF Puts
<1> QED
  BY <1>1, <1>2, StreamKept DEF InOrder

\* Five different threads, three different channels.
LEMMA Names ==
  /\ {"r", "bf", "mf", "fr", "hr"} = Threads
  /\ {"frame", "buffer", "mean"} = Channels
BY DEF Threads, Channels

-----------------------------------------------------------------------------
(* ReadNode.                                                               *)

LEMMA SendFrameStep ==
  ASSUME PipelineInv, SendFrame
  PROVE  PipelineInv'
<1> DEFINE msg == IF HasFrame THEN <<i + 1>> ELSE Null
<1>0. TypeOK /\ ControlInv /\ InOrder
  BY DEF PipelineInv
<1>1. /\ Moves("r", "send_frame", "frame_sent") /\ Put("frame", msg)
      /\ UNCHANGED <<frames, firstZero, kind, file, header, i, buffer_, out, got, main, aborted, crashed>>
  BY ThreadLabels DEF SendFrame, At, Alive, Moves, Threads, file, work
<1>2. /\ i \in 0..frames /\ frames \in Nat /\ header = <<>>
      /\ Puts("frame") = i /\ Total("frame") = frames + 1
  BY <1>0, <1>1, ChannelTypes DEF PipelineInv, ReaderInv, HeaderInv, Moves, Channels, Total, TypeOK
<1>3. msg \in Seq(Nat) /\ msg = Stream("frame", Puts("frame") + 1)
  BY <1>2 DEF HasFrame, Null, Stream
<1>4. /\ InOrder' /\ chan' \in [Channels -> Seq(Seq(Nat))] /\ taken' = taken
      /\ Puts("frame")' = Puts("frame") + 1
      /\ \A d \in Channels \ {"frame"} : Puts(d)' = Puts(d)
  <2>1. "frame" \in Channels /\ Puts("frame") < Total("frame") /\ UNCHANGED frames
    BY <1>1, <1>2 DEF Channels
  <2>2. msg \in Seq(Nat) /\ Put("frame", msg) /\ msg = Stream("frame", Puts("frame") + 1)
    BY <1>1, <1>3
  <2> HIDE DEF msg
  <2> QED
    BY <1>0, <2>1, <2>2, PutLink
<1>5. /\ ControlInv' /\ pc'["r"] = "frame_sent"
      /\ \A u \in Threads \ {"r"} : pc'[u] = pc[u]
      /\ pc["r"] = "send_frame"
  BY <1>0, <1>1, MoveStep DEF Moves
<1>6. TypeOK'
  BY <1>0, <1>1, <1>4, MoveStep DEF TypeOK
<1>7. ReaderInv'
  BY <1>1, <1>2, <1>4, <1>5 DEF ReaderInv
<1>8. HeaderInv'
  BY <1>1, <1>2, <1>5 DEF PipelineInv, HeaderInv, HeadersTaken, Threads
<1>9. BufferHolds' /\ BufferInv' /\ MeanInv' /\ RecvInv'
  BY <1>1, <1>4, <1>5, Untouched DEF PipelineInv, Threads, Channels
<1> QED
  BY <1>4, <1>5, <1>6, <1>7, <1>8, <1>9 DEF PipelineInv

LEMMA HeaderSteps ==
  ASSUME PipelineInv, FrameSent \/ SendHeader \/ HeaderSent
  PROVE  PipelineInv'
<1>0. TypeOK /\ ControlInv /\ InOrder /\ ReaderInv /\ HeaderInv
  BY DEF PipelineInv
<1>1. PICK from, to \in {"frame_sent", "send_header", "header_sent", "send_frame", "done"} :
        Moves("r", from, to)
  BY ThreadLabels DEF FrameSent, SendHeader, HeaderSent, At, Alive, Moves, Threads
<1>2. UNCHANGED <<frames, firstZero, kind, file, link, buffer_, out, got, main, aborted, crashed>>
  BY DEF FrameSent, SendHeader, HeaderSent, file, work
<1>3. /\ UNCHANGED <<chan, taken>> /\ (\A c \in Channels : Puts(c)' = Puts(c)) /\ InOrder'
  BY <1>0, <1>2, LinkKept
<1>4. /\ ControlInv' /\ pc'["r"] = to /\ pc["r"] = from
      /\ \A u \in Threads \ {"r"} : pc'[u] = pc[u]
  BY <1>0, <1>1, <1>2, MoveStep DEF Moves
<1>5. i \in 0..frames /\ frames \in Nat /\ firstZero \in Nat
  BY <1>0, ChannelTypes DEF TypeOK, Channels
<1>6. i' \in 0..frames /\ header' \in {<<>>, <<0>>, <<1>>} /\ ReaderInv' /\ HeaderInv'
  <2>1. CASE FrameSent
    <3>1. UNCHANGED <<i, header>> /\ from = "frame_sent" /\ to = "send_header"
      BY <1>4, <2>1 DEF FrameSent, At, Goto, work, TypeOK, PipelineInv, Threads
    <3> QED
      BY <1>0, <1>2, <1>3, <1>4, <1>5, <3>1
      DEF ReaderInv, HeaderInv, HeadersTaken, TypeOK, Threads, Channels
  <2>2. CASE SendHeader
    <3>1. /\ UNCHANGED i /\ from = "send_header" /\ to = "header_sent" /\ header = <<>>
          /\ header' = <<IF i + 1 = firstZero THEN 0 ELSE 1>>
      BY <1>0, <1>4, <2>2 DEF SendHeader, At, Goto, work, TypeOK, Threads
    <3> QED
      BY <1>0, <1>2, <1>3, <1>4, <1>5, <3>1
      DEF ReaderInv, HeaderInv, HeadersTaken, TypeOK, Threads, Channels
  <2>3. CASE HeaderSent /\ HasFrame
    <3>1. /\ i' = i + 1 /\ from = "header_sent" /\ to = "send_frame" /\ header = <<>>
          /\ header' = header /\ i < frames
      BY <1>0, <1>4, <2>3 DEF HeaderSent, HasFrame, At, Goto, work, TypeOK, Threads
    <3> QED
      BY <1>0, <1>2, <1>3, <1>4, <1>5, <3>1
      DEF ReaderInv, HeaderInv, HeadersTaken, TypeOK, Threads, Channels
  <2>4. CASE HeaderSent /\ ~HasFrame
    <3>1. /\ i' = i /\ from = "header_sent" /\ to = "done" /\ header = <<>>
          /\ header' = header /\ i = frames
      BY <1>0, <1>4, <1>5, <2>4 DEF HeaderSent, HasFrame, At, Return, work, TypeOK, Threads
    <3> QED
      BY <1>0, <1>2, <1>3, <1>4, <1>5, <3>1
      DEF ReaderInv, HeaderInv, HeadersTaken, TypeOK, Threads, Channels
  <2> QED
    BY <2>1, <2>2, <2>3, <2>4
<1>7. TypeOK'
  BY <1>0, <1>1, <1>2, <1>3, <1>6, MoveStep DEF TypeOK
<1>8. BufferHolds' /\ BufferInv' /\ MeanInv' /\ RecvInv'
  BY <1>2, <1>3, <1>4, Untouched DEF PipelineInv, Threads, Channels
<1> QED
  BY <1>3, <1>4, <1>6, <1>7, <1>8 DEF PipelineInv

-----------------------------------------------------------------------------
(* BufferedMean.                                                           *)

LEMMA NatFacts ==
  ASSUME PipelineInv
  PROVE  /\ frames \in Nat /\ firstZero \in Nat /\ B \in Nat /\ B >= 1 /\ i \in 0..frames
         /\ taken["frame"] \in Nat /\ taken["buffer"] \in Nat /\ taken["mean"] \in Nat
         /\ taken["frame"] <= frames + 1
         /\ taken["buffer"] <= Total("buffer") /\ taken["mean"] <= Total("mean")
         /\ Total("buffer") = IF frames > B THEN frames - B + 1 ELSE 1
         /\ Total("mean") = IF frames > B THEN frames - B ELSE 0
<1>1. /\ frames \in Nat /\ firstZero \in Nat /\ B \in Nat /\ B >= 1 /\ i \in 0..frames
      /\ taken["frame"] \in Nat /\ taken["buffer"] \in Nat /\ taken["mean"] \in Nat
  BY ChannelTypes DEF PipelineInv, TypeOK, Channels
<1>2. \A c \in Channels : taken[c] <= Total(c)
  <2> TAKE c \in Channels
  <2>1. taken[c] \in Nat /\ Len(chan[c]) \in Nat /\ Total(c) \in Nat
    BY ChannelTypes DEF PipelineInv
  <2>2. taken[c] + Len(chan[c]) <= Total(c)
    BY <2>1 DEF PipelineInv, InOrder
  <2>3. \A a, b, z \in Nat : a + b <= z => a <= z
    OBVIOUS
  <2> QED
    BY <2>1, <2>2, <2>3
<1>3. Total("frame") = frames + 1
  BY DEF Total
<1>4. /\ Total("buffer") = IF frames > B THEN frames - B + 1 ELSE 1
      /\ Total("mean") = IF frames > B THEN frames - B ELSE 0
  BY DEF Total
<1> QED
  BY <1>1, <1>2, <1>3, <1>4 DEF Channels

\* A window of B frames is a message, and not nullptr.
LEMMA WindowMsg ==
  ASSUME NEW n \in Nat, B \in Nat, B >= 1
  PROVE  Window(n) \in Seq(Nat) /\ Window(n) # Null /\ Len(Window(n)) = B
         /\ Head(Window(n)) = n
<1>1. Window(n) \in [1..B -> Nat]
  BY DEF Window
<1>2. Window(n) \in Seq(Nat) /\ Len(Window(n)) = B
  BY <1>1
<1>3. Head(Window(n)) = Window(n)[1] /\ Window(n)[1] = n
  BY <1>2 DEF Window
<1> QED
  BY <1>2, <1>3 DEF Null

\* BufferedMean takes a frame; the buffer follows, and the mean is that of the
\* buffer before.
LEMMA TakeFrame ==
  ASSUME PipelineInv, Take("frame"), UNCHANGED file, taken["frame"] <= frames,
         NEW old, old = taken["frame"]
  PROVE  /\ Head(chan["frame"]) = IF old < frames THEN <<old + 1>> ELSE Null
         /\ (Head(chan["frame"]) = Null) <=> (old = frames)
         /\ taken'["frame"] = old + 1 /\ taken'["buffer"] = taken["buffer"]
         /\ taken'["mean"] = taken["mean"] /\ \A d \in Channels : Puts(d)' = Puts(d)
         /\ InOrder' /\ chan' \in [Channels -> Seq(Seq(Nat))]
         /\ taken' \in [Channels -> Nat]
<1>1. /\ Head(chan["frame"]) = Stream("frame", old + 1)
      /\ taken'["frame"] = old + 1 /\ taken'["buffer"] = taken["buffer"]
      /\ taken'["mean"] = taken["mean"] /\ (\A d \in Channels : Puts(d)' = Puts(d))
      /\ InOrder' /\ chan' \in [Channels -> Seq(Seq(Nat))] /\ taken' \in [Channels -> Nat]
  BY TakeLink DEF PipelineInv, Channels, file
<1>2. old \in Nat /\ frames \in Nat /\ old <= frames
  BY NatFacts
<1>3. Stream("frame", old + 1) = IF old < frames THEN <<old + 1>> ELSE Null
  BY <1>2 DEF Stream
<1>4. <<old + 1>> # Null
  BY DEF Null
<1> QED
  BY <1>1, <1>2, <1>3, <1>4

\* What BufferHolds says of a buffer after n frames.
BufferAfter(b, n) ==
  /\ Len(b) = IF n < B THEN n ELSE B
  /\ \A k \in 1..Len(b) : b[k] = n - Len(b) + k

LEMMA BufferNow ==
  ASSUME PipelineInv, taken["frame"] <= frames
  PROVE  BufferAfter(buffer_, taken["frame"])
BY DEF PipelineInv, BufferHolds, BufferAfter

LEMMA BufferThen ==
  ASSUME NEW n \in Nat, frames \in Nat, n <= frames, frames' = frames,
         taken'["frame"] = n, BufferAfter(buffer_', n)
  PROVE  BufferHolds'
BY DEF BufferHolds, BufferAfter

LEMMA Grown ==
  ASSUME NEW b \in Seq(Nat), NEW n \in Nat, B \in Nat, n < B, BufferAfter(b, n)
  PROVE  /\ b \o <<n + 1>> \in Seq(Nat) /\ Len(b \o <<n + 1>>) = n + 1
         /\ BufferAfter(b \o <<n + 1>>, n + 1)
<1> DEFINE c == b \o <<n + 1>>
<1>1. Len(b) = n /\ \A k \in 1..n : b[k] = k
  BY DEF BufferAfter
<1>2. c \in Seq(Nat) /\ Len(c) = n + 1
  BY <1>1
<1>3. \A k \in 1..(n + 1) : c[k] = k
  BY <1>1
<1>4. Len(c) = IF n + 1 < B THEN n + 1 ELSE B
  BY <1>2
<1>5. \A k \in 1..Len(c) : c[k] = (n + 1) - Len(c) + k
  BY <1>2, <1>3
<1> QED
  BY <1>2, <1>4, <1>5 DEF BufferAfter

LEMMA Slid ==
  ASSUME NEW b \in Seq(Nat), NEW n \in Nat, B \in Nat, B >= 1, n >= B, BufferAfter(b, n)
  PROVE  /\ Tail(b) \o <<n + 1>> \in Seq(Nat) /\ BufferAfter(Tail(b) \o <<n + 1>>, n + 1)
         /\ b = Window(n + 1 - B)
<1> DEFINE c == Tail(b) \o <<n + 1>>
<1>1. Len(b) = B /\ \A k \in 1..B : b[k] = n - B + k
  BY DEF BufferAfter
<1>2. /\ Tail(b) \in Seq(Nat) /\ Len(Tail(b)) = B - 1
      /\ \A k \in 1..(B - 1) : Tail(b)[k] = b[k + 1]
  BY <1>1, HeadTailProperties
<1>3. c \in Seq(Nat) /\ Len(c) = B
  BY <1>2
<1>4. c[B] = n + 1
  BY <1>2
<1>5. ASSUME NEW k \in 1..(B - 1) PROVE c[k] = n - B + (k + 1)
  <2>1. c[k] = Tail(b)[k]
    BY <1>2
  <2>2. k + 1 \in 1..B
    OBVIOUS
  <2> QED
    BY <1>1, <1>2, <2>1, <2>2
<1>6. ASSUME NEW k \in 1..Len(c) PROVE c[k] = (n + 1) - Len(c) + k
  <2>1. k \in 1..(B - 1) \/ k = B
    BY <1>3
  <2>2. CASE k = B
    BY <1>3, <1>4, <2>2
  <2>3. CASE k \in 1..(B - 1)
    <3>1. c[k] = n - B + (k + 1)
      BY <1>5, <2>3
    <3>2. n - B + (k + 1) = (n + 1) - B + k
      BY <2>3
    <3> QED
      BY <1>3, <3>1, <3>2
  <2> QED
    BY <2>1, <2>2, <2>3
<1>7. Len(c) = IF n + 1 < B THEN n + 1 ELSE B
  BY <1>3
<1>8. b = Window(n + 1 - B)
  <2>1. b = [k \in 1..B |-> b[k]]
    BY <1>1
  <2>2. \A k \in 1..B : b[k] = (n + 1 - B) + k - 1
    BY <1>1
  <2> QED
    BY <2>1, <2>2 DEF Window
<1> HIDE DEF c
<1>9. BufferAfter(c, n + 1)
  BY <1>6, <1>7 DEF BufferAfter
<1> QED
  BY <1>3, <1>8, <1>9 DEF c

\* The end marker leaves the buffer as it is.
LEMMA BufferEnds ==
  ASSUME PipelineInv, taken["frame"] = frames, UNCHANGED <<frames, buffer_>>,
         taken'["frame"] = frames + 1
  PROVE  BufferHolds'
<1>1. frames \in Nat /\ BufferAfter(buffer_, frames)
  BY NatFacts, BufferNow
<1>2. ~(frames + 1 <= frames)
  BY <1>1
<1> QED
  BY <1>1, <1>2 DEF BufferHolds, BufferAfter

\* The messages due after n frames have been taken.
LEMMA DueThen ==
  ASSUME UNCHANGED frames, NEW n, taken'["frame"] = n
  PROVE  /\ MeansDue' = IF n > frames THEN Total("buffer") ELSE IF n < B THEN 0 ELSE n - B
         /\ \A d : MeanMsg(d)' = MeanMsg(d)
BY StreamKept DEF MeansDue, Channels

LEMMA FillStep ==
  ASSUME PipelineInv, Fill
  PROVE  PipelineInv'
<1> DEFINE T == taken["frame"]
<1>0. TypeOK /\ ControlInv /\ InOrder /\ BufferInv
  BY DEF PipelineInv
<1>1. /\ pc["bf"] = "fill" /\ Take("frame")
      /\ UNCHANGED <<frames, firstZero, kind, file, header, i, got, main, aborted, crashed>>
  BY DEF Fill, At, Alive, file
<1>2. /\ frames \in Nat /\ B \in Nat /\ B >= 1 /\ T \in Nat /\ buffer_ \in Seq(Nat)
      /\ Total("buffer") = IF frames > B THEN frames - B + 1 ELSE 1
  BY <1>0, NatFacts DEF TypeOK
<1>3. T < B /\ T <= frames /\ Puts("buffer") = 0
  BY <1>0, <1>1, <1>2 DEF BufferInv, MeansDue
<1>4. /\ Head(chan["frame"]) = IF T < frames THEN <<T + 1>> ELSE Null
      /\ (Head(chan["frame"]) = Null) <=> (T = frames)
      /\ taken'["frame"] = T + 1 /\ taken'["buffer"] = taken["buffer"]
      /\ taken'["mean"] = taken["mean"] /\ (\A d \in Channels : Puts(d)' = Puts(d))
      /\ InOrder' /\ chan' \in [Channels -> Seq(Seq(Nat))]
      /\ taken' \in [Channels -> Nat]
  BY <1>1, <1>3, TakeFrame
<1>5. Puts("buffer")' = 0
  BY <1>3, <1>4 DEF Channels
<1>6. CASE T = frames
  <2>1. Moves("bf", "fill", "send") /\ out' = [out EXCEPT !["bf"] = Null] /\ buffer_' = buffer_
    BY <1>1, <1>4, <1>6, ThreadLabels DEF Fill, EndMeans, StartSend, Moves, Threads
  <2>2. /\ ControlInv' /\ pc'["bf"] = "send"
        /\ \A u \in Threads \ {"bf"} : pc'[u] = pc[u]
    BY <1>0, <1>1, <2>1, MoveStep
  <2>3. out' \in [{"bf", "mf"} -> Seq(Nat)] /\ out'["bf"] = Null /\ out'["mf"] = out["mf"]
    BY <1>0, <2>1 DEF TypeOK, Null
  <2>4. TypeOK'
    BY <1>0, <1>1, <1>4, <2>1, <2>3, MoveStep DEF TypeOK
  <2>5. BufferHolds'
    BY <1>1, <1>4, <1>6, <2>1, BufferEnds
  <2>6. MeanMsg(1) = Null /\ Total("buffer") = 1
    BY <1>2, <1>3, <1>6 DEF MeanMsg
  <2>7. BufferInv'
    <3>1. T + 1 = frames + 1 /\ T + 1 > frames /\ T + 1 \in Nat
      BY <1>2, <1>6
    <3>2. MeansDue' = 1 /\ MeanMsg(1)' = Null
      BY <1>1, <1>4, <2>6, <3>1, DueThen
    <3> QED
      BY <1>1, <1>4, <1>5, <2>2, <2>3, <3>1, <3>2 DEF BufferInv
  <2>8. ReaderInv' /\ HeaderInv' /\ MeanInv' /\ RecvInv'
    BY <1>1, <1>4, <2>2, <2>3, Untouched DEF PipelineInv, Threads, Channels
  <2> QED
    BY <1>4, <2>2, <2>4, <2>5, <2>7, <2>8 DEF PipelineInv
<1>7. CASE T < frames
  <2>1. buffer_' = buffer_ \o <<T + 1>> /\ out' = out
    <3>1. Head(chan["frame"]) # Null /\ Head(chan["frame"]) = <<T + 1>>
      BY <1>2, <1>4, <1>7
    <3> QED
      BY <3>1 DEF Fill
  <2>2. BufferAfter(buffer_, T)
    BY <1>3, BufferNow
  <2>3. buffer_' \in Seq(Nat) /\ Len(buffer_') = T + 1 /\ BufferAfter(buffer_', T + 1)
    BY <1>2, <1>3, <2>1, <2>2, Grown
  <2>4. BufferHolds'
    BY <1>1, <1>2, <1>4, <1>7, <2>3, BufferThen
  <2> DEFINE to == IF T + 1 = B THEN "recv" ELSE "fill"
  <2>5. Moves("bf", "fill", to)
    BY <1>1, <1>2, <1>4, <1>7, <2>3, ThreadLabels DEF Fill, Filled, Moves, Threads
  <2>6. /\ ControlInv' /\ pc'["bf"] = to
        /\ \A u \in Threads \ {"bf"} : pc'[u] = pc[u]
    BY <1>0, <1>1, <2>5, MoveStep
  <2>7. TypeOK'
    BY <1>0, <1>1, <1>4, <2>1, <2>3, <2>5, MoveStep DEF TypeOK
  <2>8. BufferInv'
    <3>1. T + 1 \in Nat /\ T + 1 <= frames /\ T + 1 <= B
      BY <1>2, <1>3, <1>7
    <3>2. MeansDue' = 0
      BY <1>1, <1>2, <1>4, <3>1, DueThen
    <3>3. /\ pc'["bf"] \in {"recv", "fill"}
          /\ pc'["bf"] = "recv" => T + 1 \in B..frames
          /\ pc'["bf"] = "fill" => T + 1 < B
      BY <1>2, <2>6, <3>1
    <3> QED
      BY <1>1, <1>4, <1>5, <3>1, <3>2, <3>3 DEF BufferInv
  <2>9. ReaderInv' /\ HeaderInv' /\ MeanInv' /\ RecvInv'
    BY <1>1, <1>4, <2>1, <2>6, Untouched DEF PipelineInv, Threads, Channels
  <2> QED
    BY <1>4, <2>4, <2>6, <2>7, <2>8, <2>9 DEF PipelineInv
<1> QED
  BY <1>2, <1>3, <1>6, <1>7

LEMMA BufferFrameStep ==
  ASSUME PipelineInv, BufferFrame
  PROVE  PipelineInv'
<1> DEFINE T == taken["frame"]
<1>0. TypeOK /\ ControlInv /\ InOrder /\ BufferInv
  BY DEF PipelineInv
<1>1. /\ Moves("bf", "recv", "send") /\ Take("frame") /\ pc["bf"] = "recv"
      /\ UNCHANGED <<frames, firstZero, kind, file, header, i, got, main, aborted, crashed>>
  BY ThreadLabels DEF BufferFrame, EndMeans, StartSend, At, Alive, Moves, Threads, file
<1>2. /\ frames \in Nat /\ B \in Nat /\ B >= 1 /\ T \in Nat /\ buffer_ \in Seq(Nat)
      /\ Total("buffer") = IF frames > B THEN frames - B + 1 ELSE 1
  BY <1>0, NatFacts DEF TypeOK
<1>3. T >= B /\ T <= frames /\ Puts("buffer") = T - B
  BY <1>0, <1>1, <1>2 DEF BufferInv, MeansDue
<1>4. /\ Head(chan["frame"]) = IF T < frames THEN <<T + 1>> ELSE Null
      /\ (Head(chan["frame"]) = Null) <=> (T = frames)
      /\ taken'["frame"] = T + 1 /\ taken'["buffer"] = taken["buffer"]
      /\ taken'["mean"] = taken["mean"] /\ (\A d \in Channels : Puts(d)' = Puts(d))
      /\ InOrder' /\ chan' \in [Channels -> Seq(Seq(Nat))]
      /\ taken' \in [Channels -> Nat]
  BY <1>1, <1>3, TakeFrame
<1>5. Puts("buffer")' = T - B /\ T + 1 \in Nat /\ T + 1 - B \in Nat
  BY <1>2, <1>3, <1>4 DEF Channels
<1>6. /\ ControlInv' /\ pc'["bf"] = "send"
      /\ \A u \in Threads \ {"bf"} : pc'[u] = pc[u]
  BY <1>0, <1>1, MoveStep
<1>7. /\ BufferHolds' /\ buffer_' \in Seq(Nat) /\ MeanMsg(T + 1 - B) \in Seq(Nat)
      /\ out' = [out EXCEPT !["bf"] = MeanMsg(T + 1 - B)]
  <2>1. CASE T = frames
    <3>1. out' = [out EXCEPT !["bf"] = Null] /\ buffer_' = buffer_
      BY <1>4, <2>1 DEF BufferFrame, EndMeans, StartSend
    <3>2. BufferHolds'
      BY <1>1, <1>4, <2>1, <3>1, BufferEnds
    <3>3. MeanMsg(T + 1 - B) = Null
      BY <1>2, <2>1 DEF MeanMsg
    <3>4. Null \in Seq(Nat)
      BY DEF Null
    <3> QED
      BY <1>2, <3>1, <3>2, <3>3, <3>4
  <2>2. CASE T < frames
    <3>1. out' = [out EXCEPT !["bf"] = buffer_] /\ buffer_' = Tail(buffer_) \o <<T + 1>>
      <4>1. Head(chan["frame"]) # Null /\ Head(chan["frame"]) = <<T + 1>>
        BY <1>2, <1>4, <2>2
      <4> QED
        BY <4>1 DEF BufferFrame, StartSend, ComputeMean
    <3>2. BufferAfter(buffer_, T)
      BY <1>3, BufferNow
    <3>3. /\ buffer_' \in Seq(Nat) /\ BufferAfter(buffer_', T + 1)
          /\ buffer_ = Window(T + 1 - B)
      BY <1>2, <1>3, <3>1, <3>2, Slid
    <3>4. BufferHolds'
      BY <1>1, <1>2, <1>4, <2>2, <3>3, BufferThen
    <3>5. MeanMsg(T + 1 - B) = Window(T + 1 - B)
      BY <1>2, <2>2 DEF MeanMsg
    <3> QED
      BY <1>2, <3>1, <3>3, <3>4, <3>5
  <2> QED
    BY <1>2, <1>3, <2>1, <2>2
<1>8. /\ out' \in [{"bf", "mf"} -> Seq(Nat)] /\ out'["bf"] = MeanMsg(T + 1 - B)
      /\ out'["mf"] = out["mf"]
  BY <1>0, <1>7 DEF TypeOK
<1>9. TypeOK'
  BY <1>0, <1>1, <1>4, <1>7, <1>8, MoveStep DEF TypeOK
<1>10. BufferInv'
  <2>1. PICK due : due = T + 1 - B
    OBVIOUS
  <2>2. PICK n : n = T + 1
    OBVIOUS
  <2>3. MeansDue' = IF n > frames THEN Total("buffer") ELSE IF n < B THEN 0 ELSE n - B
    BY <1>1, <1>4, <2>2, DueThen
  <2>4. MeansDue' = due
    BY <1>2, <1>3, <2>1, <2>2, <2>3
  <2>5. MeanMsg(due)' = MeanMsg(due)
    BY <1>1, <1>4, DueThen
  <2>6. n > B /\ n \in Nat /\ Puts("buffer")' = due - 1
    BY <1>2, <1>3, <1>5, <2>1, <2>2
  <2>7. out'["bf"] = MeanMsg(due)
    BY <1>8, <2>1
  <2>8. taken'["frame"] = n
    BY <1>4, <2>2
  <2> QED
    BY <1>6, <2>4, <2>5, <2>6, <2>7, <2>8 DEF BufferInv
<1>11. ReaderInv' /\ HeaderInv' /\ MeanInv' /\ RecvInv'
  BY <1>1, <1>4, <1>6, <1>8, Untouched DEF PipelineInv, Threads, Channels
<1> QED
  BY <1>4, <1>6, <1>7, <1>9, <1>10, <1>11 DEF PipelineInv

\* What BufferedMean owes while it sends: the last mean it owes, which is the
\* end marker after the end of the file.
LEMMA BufferDue ==
  ASSUME PipelineInv, pc["bf"] \in {"send", "sent"}
  PROVE  /\ MeansDue \in 1..Total("buffer") /\ Total("buffer") \in Nat
         /\ out["bf"] = MeanMsg(MeansDue) /\ out["bf"] \in Seq(Nat)
         /\ out["bf"] = Null => taken["frame"] = frames + 1
         /\ out["bf"] # Null => taken["frame"] \in B..frames
<1> DEFINE T == taken["frame"]
<1>1. /\ frames \in Nat /\ B \in Nat /\ B >= 1 /\ T \in Nat /\ T <= frames + 1
      /\ Total("buffer") = IF frames > B THEN frames - B + 1 ELSE 1
  BY NatFacts
<1>2. /\ T > B \/ T > frames
      /\ out["bf"] = MeanMsg(MeansDue) /\ out["bf"] \in Seq(Nat)
  BY DEF PipelineInv, BufferInv, TypeOK
<1>3. CASE T > frames
  <2>1. T = frames + 1 /\ MeansDue = Total("buffer")
    BY <1>1, <1>3 DEF MeansDue
  <2>2. Total("buffer") \in Nat /\ Total("buffer") >= 1 /\ ~(Total("buffer") <= frames - B)
    BY <1>1
  <2>3. MeanMsg(Total("buffer")) = Null
    BY <2>2 DEF MeanMsg
  <2> QED
    BY <1>2, <2>1, <2>2, <2>3
<1>4. CASE T <= frames
  <2>1. T > B /\ MeansDue = T - B
    BY <1>1, <1>2, <1>4 DEF MeansDue
  <2>2. T - B \in Nat /\ T - B >= 1 /\ T - B <= frames - B /\ T - B <= Total("buffer")
        /\ Total("buffer") \in Nat /\ T \in B..frames
    BY <1>1, <1>4, <2>1
  <2>3. MeanMsg(T - B) # Null
    BY <1>1, <2>2, WindowMsg DEF MeanMsg
  <2> QED
    BY <1>2, <2>1, <2>2, <2>3
<1> QED
  BY <1>1, <1>3, <1>4

LEMMA BufferSend ==
  ASSUME PipelineInv, Send("bf", "buffer")
  PROVE  PipelineInv'
<1>0. TypeOK /\ ControlInv /\ InOrder /\ BufferInv
  BY DEF PipelineInv
<1>1. /\ Moves("bf", "send", "sent") /\ Put("buffer", out["bf"]) /\ pc["bf"] = "send"
      /\ UNCHANGED <<frames, firstZero, kind, file, header, i, buffer_, out, got, main, aborted, crashed>>
  BY ThreadLabels DEF Send, At, Alive, Moves, Threads, file, work
<1>2. /\ MeansDue \in 1..Total("buffer") /\ Total("buffer") \in Nat
      /\ out["bf"] = MeanMsg(MeansDue) /\ out["bf"] \in Seq(Nat)
  BY <1>1, BufferDue
<1>3. Puts("buffer") = MeansDue - 1
  BY <1>0, <1>1 DEF BufferInv
<1>4. /\ Puts("buffer") + 1 = MeansDue /\ Puts("buffer") < Total("buffer")
      /\ out["bf"] = Stream("buffer", Puts("buffer") + 1)
  BY <1>2, <1>3 DEF Stream
<1>5. /\ InOrder' /\ chan' \in [Channels -> Seq(Seq(Nat))] /\ taken' = taken
      /\ Puts("buffer")' = Puts("buffer") + 1
      /\ \A d \in Channels \ {"buffer"} : Puts(d)' = Puts(d)
  <2>1. "buffer" \in Channels
    BY DEF Channels
  <2> QED
    BY <1>0, <1>1, <1>2, <1>4, <2>1, PutLink
<1>6. /\ ControlInv' /\ pc'["bf"] = "sent"
      /\ \A u \in Threads \ {"bf"} : pc'[u] = pc[u]
  BY <1>0, <1>1, MoveStep
<1>7. TypeOK'
  BY <1>0, <1>1, <1>5, MoveStep DEF TypeOK
<1>8. BufferInv'
  <2>1. MeansDue' = MeansDue /\ \A d : MeanMsg(d)' = MeanMsg(d)
    BY <1>1, <1>5, DueThen DEF MeansDue
  <2>2. Puts("buffer")' = MeansDue
    BY <1>2, <1>4, <1>5
  <2> QED
    BY <1>0, <1>1, <1>2, <1>5, <1>6, <2>1, <2>2 DEF BufferInv
<1>9. BufferHolds' /\ ReaderInv' /\ HeaderInv' /\ MeanInv' /\ RecvInv'
  BY <1>1, <1>5, <1>6, Untouched DEF PipelineInv, Threads, Channels
<1> QED
  BY <1>5, <1>6, <1>7, <1>8, <1>9 DEF PipelineInv

LEMMA BufferSent ==
  ASSUME PipelineInv, Sent("bf", "buffer")
  PROVE  PipelineInv'
<1> DEFINE to == IF out["bf"] = Null THEN "done" ELSE "recv"
<1>0. TypeOK /\ ControlInv /\ InOrder /\ BufferInv
  BY DEF PipelineInv
<1>1. /\ Moves("bf", "sent", to) /\ pc["bf"] = "sent"
      /\ UNCHANGED <<frames, firstZero, kind, file, link, header, i, buffer_, out, got, main,
                     aborted, crashed>>
  BY ThreadLabels DEF Sent, At, Alive, Moves, Threads, file, work
<1>2. /\ out["bf"] = Null => taken["frame"] = frames + 1
      /\ out["bf"] # Null => taken["frame"] \in B..frames
  BY <1>1, BufferDue
<1>3. /\ UNCHANGED <<chan, taken>> /\ (\A c \in Channels : Puts(c)' = Puts(c)) /\ InOrder'
  BY <1>0, <1>1, LinkKept
<1>4. /\ ControlInv' /\ pc'["bf"] = to
      /\ \A u \in Threads \ {"bf"} : pc'[u] = pc[u]
  BY <1>0, <1>1, MoveStep
<1>5. TypeOK'
  BY <1>0, <1>1, <1>3, MoveStep DEF TypeOK
<1>6. BufferInv'
  <2>1. MeansDue' = MeansDue /\ Puts("buffer")' = Puts("buffer")
    BY <1>1, <1>3, DueThen DEF MeansDue, Channels
  <2> QED
    BY <1>0, <1>1, <1>2, <1>3, <1>4, <2>1 DEF BufferInv
<1>7. BufferHolds' /\ ReaderInv' /\ HeaderInv' /\ MeanInv' /\ RecvInv'
  BY <1>1, <1>3, <1>4, Untouched DEF PipelineInv, Threads, Channels
<1> QED
  BY <1>3, <1>4, <1>5, <1>6, <1>7 DEF PipelineInv

-----------------------------------------------------------------------------
(* FrameMean.                                                              *)

\* FrameMean takes a mean; the numbers n of the means taken before.
LEMMA TakeMean ==
  ASSUME PipelineInv, Take("buffer"), UNCHANGED file, NEW n, n = taken["buffer"]
  PROVE  /\ Head(chan["buffer"]) = MeanMsg(n + 1) /\ n \in Nat /\ n < Total("buffer")
         /\ taken'["buffer"] = n + 1 /\ taken'["frame"] = taken["frame"]
         /\ taken'["mean"] = taken["mean"] /\ \A d \in Channels : Puts(d)' = Puts(d)
         /\ InOrder' /\ chan' \in [Channels -> Seq(Seq(Nat))]
         /\ taken' \in [Channels -> Nat]
         /\ frames \in Nat /\ B \in Nat /\ B >= 1
         /\ Total("buffer") = IF frames > B THEN frames - B + 1 ELSE 1
<1>1. /\ Head(chan["buffer"]) = Stream("buffer", n + 1) /\ n < Total("buffer")
      /\ taken'["buffer"] = n + 1 /\ taken'["frame"] = taken["frame"]
      /\ taken'["mean"] = taken["mean"] /\ (\A d \in Channels : Puts(d)' = Puts(d))
      /\ InOrder' /\ chan' \in [Channels -> Seq(Seq(Nat))] /\ taken' \in [Channels -> Nat]
  BY TakeLink DEF PipelineInv, Channels, file
<1>2. Stream("buffer", n + 1) = MeanMsg(n + 1)
  BY DEF Stream
<1> QED
  BY <1>1, <1>2, NatFacts

LEMMA MeanMsgSeq ==
  ASSUME NEW n \in Nat, frames \in Nat, B \in Nat, B >= 1
  PROVE  /\ MeanMsg(n) \in Seq(Nat)
         /\ MeanMsg(n) = Null <=> n > frames - B
         /\ n <= frames - B => MeanMsg(n) = Window(n)
<1>1. CASE n <= frames - B
  <2>1. MeanMsg(n) = Window(n)
    BY <1>1 DEF MeanMsg
  <2>2. Window(n) \in Seq(Nat) /\ Window(n) # Null
    BY WindowMsg
  <2> QED
    BY <1>1, <2>1, <2>2
<1>2. CASE n > frames - B
  <2>1. MeanMsg(n) = Null
    BY <1>2 DEF MeanMsg
  <2> QED
    BY <1>2, <2>1 DEF Null
<1> QED
  BY <1>1, <1>2

LEMMA FirstMeanStep ==
  ASSUME PipelineInv, FirstMean
  PROVE  PipelineInv'
<1>0. TypeOK /\ ControlInv /\ InOrder /\ MeanInv
  BY DEF PipelineInv
<1>1. /\ Moves("mf", "first", "recv") /\ Take("buffer") /\ pc["mf"] = "first"
      /\ UNCHANGED <<frames, firstZero, kind, file, header, i, buffer_, out, got, main, crashed>>
      /\ aborted' = (Head(chan["buffer"]) = Null)
  BY ThreadLabels DEF FirstMean, At, Alive, Moves, Threads, file, work
<1>2. taken["buffer"] = 0 /\ Puts("mean") = 0
  BY <1>0, <1>1 DEF MeanInv
<1>3. /\ Head(chan["buffer"]) = MeanMsg(1)
      /\ taken'["buffer"] = 1 /\ taken'["frame"] = taken["frame"]
      /\ taken'["mean"] = taken["mean"] /\ (\A d \in Channels : Puts(d)' = Puts(d))
      /\ InOrder' /\ chan' \in [Channels -> Seq(Seq(Nat))]
      /\ taken' \in [Channels -> Nat]
      /\ frames \in Nat /\ B \in Nat /\ B >= 1
  BY <1>1, <1>2, TakeMean
<1>4. MeanMsg(1) = Null <=> 1 > frames - B
  BY <1>3, MeanMsgSeq
<1>5. /\ ControlInv' /\ pc'["mf"] = "recv"
      /\ \A u \in Threads \ {"mf"} : pc'[u] = pc[u]
  BY <1>0, <1>1, MoveStep
<1>6. aborted' \in BOOLEAN /\ (aborted' <=> frames <= B)
  <2>1. MeanMsg(1) = Null <=> frames <= B
    BY <1>3, <1>4
  <2>2. aborted' = (MeanMsg(1) = Null)
    BY <1>1, <1>3
  <2>3. (MeanMsg(1) = Null) \in BOOLEAN
    OBVIOUS
  <2> QED
    BY <2>1, <2>2, <2>3, Zenon
<1>7. TypeOK'
  BY <1>0, <1>1, <1>3, <1>6, MoveStep DEF TypeOK
<1>8. MeanInv'
  <2>1. aborted' \/ 1 <= frames - B
    BY <1>3, <1>6
  <2>2. Puts("mean")' = 0
    BY <1>2, <1>3 DEF Channels
  <2> QED
    BY <1>1, <1>3, <1>5, <1>6, <2>1, <2>2 DEF MeanInv
<1>9. BufferHolds' /\ ReaderInv' /\ HeaderInv' /\ BufferInv' /\ RecvInv'
  BY <1>1, <1>3, <1>5, Untouched DEF PipelineInv, Threads, Channels
<1> QED
  BY <1>3, <1>5, <1>7, <1>8, <1>9 DEF PipelineInv

LEMMA ForwardMeanStep ==
  ASSUME PipelineInv, ForwardMean
  PROVE  PipelineInv'
<1>0. TypeOK /\ ControlInv /\ InOrder /\ MeanInv
  BY DEF PipelineInv
<1>1. /\ Moves("mf", "recv", "send") /\ Take("buffer") /\ pc["mf"] = "recv" /\ ~aborted
      /\ UNCHANGED <<frames, firstZero, kind, file, header, i, buffer_, got, main, aborted, crashed>>
      /\ out' = [out EXCEPT !["mf"] = Head(chan["buffer"])]
  BY ThreadLabels DEF ForwardMean, StartSend, At, Alive, Moves, Threads, file
<1>2. PICK n : n = taken["buffer"]
  OBVIOUS
<1>3. /\ Head(chan["buffer"]) = MeanMsg(n + 1) /\ n \in Nat
      /\ taken'["buffer"] = n + 1 /\ taken'["frame"] = taken["frame"]
      /\ taken'["mean"] = taken["mean"] /\ (\A d \in Channels : Puts(d)' = Puts(d))
      /\ InOrder' /\ chan' \in [Channels -> Seq(Seq(Nat))]
      /\ taken' \in [Channels -> Nat]
      /\ frames \in Nat /\ B \in Nat /\ B >= 1
  BY <1>1, <1>2, TakeMean
<1>4. n >= 1 /\ Puts("mean") = n - 1
  BY <1>0, <1>1, <1>2, <1>3 DEF MeanInv
<1>5. /\ ControlInv' /\ pc'["mf"] = "send"
      /\ \A u \in Threads \ {"mf"} : pc'[u] = pc[u]
  BY <1>0, <1>1, MoveStep
<1>6. /\ out' \in [{"bf", "mf"} -> Seq(Nat)] /\ out'["mf"] = MeanMsg(n + 1)
      /\ out'["bf"] = out["bf"]
  <2>1. n + 1 \in Nat
    BY <1>3
  <2>2. MeanMsg(n + 1) \in Seq(Nat)
    BY <1>3, <2>1, MeanMsgSeq
  <2>3. out' = [out EXCEPT !["mf"] = MeanMsg(n + 1)]
    BY <1>1, <1>3
  <2> QED
    BY <1>0, <2>2, <2>3 DEF TypeOK
<1>7. TypeOK'
  BY <1>0, <1>1, <1>3, <1>6, MoveStep DEF TypeOK
<1>8. MeanInv'
  <2>1. PICK u : u = n + 1
    OBVIOUS
  <2>2. u >= 2 /\ u # 0 /\ n - 1 = u - 1 - 1
    BY <1>3, <1>4, <2>1
  <2>3. Puts("mean")' = u - 1 - 1
    BY <1>3, <1>4, <2>2 DEF Channels
  <2>4. out'["mf"] = MeanMsg(u)' /\ taken'["buffer"] = u
    BY <1>1, <1>3, <1>6, <2>1, StreamKept
  <2> QED
    BY <1>1, <1>5, <2>2, <2>3, <2>4 DEF MeanInv
<1>9. BufferHolds' /\ ReaderInv' /\ HeaderInv' /\ BufferInv' /\ RecvInv'
  BY <1>1, <1>3, <1>5, <1>6, Untouched DEF PipelineInv, Threads, Channels
<1> QED
  BY <1>3, <1>5, <1>7, <1>8, <1>9 DEF PipelineInv

\* What FrameMean passes on: the mean it took last.
LEMMA MeanForwarded ==
  ASSUME PipelineInv, pc["mf"] \in {"send", "sent"}, NEW n, n = taken["buffer"]
  PROVE  /\ out["mf"] = MeanMsg(n) /\ out["mf"] \in Seq(Nat)
         /\ n \in Nat /\ n >= 2 /\ frames \in Nat /\ B \in Nat /\ frames > B
         /\ Total("mean") = frames - B /\ n - 1 <= Total("mean")
         /\ out["mf"] = Null => n = Total("buffer")
         /\ out["mf"] # Null => n <= frames - B
<1>1. out["mf"] = MeanMsg(n) /\ out["mf"] \in Seq(Nat) /\ n >= 2
  BY DEF PipelineInv, MeanInv, TypeOK
<1>2. /\ n \in Nat /\ frames \in Nat /\ B \in Nat /\ B >= 1 /\ n <= Total("buffer")
      /\ Total("buffer") = IF frames > B THEN frames - B + 1 ELSE 1
      /\ Total("mean") = IF frames > B THEN frames - B ELSE 0
  BY NatFacts
<1>3. frames > B
  BY <1>1, <1>2
<1>4. Total("mean") = frames - B /\ n - 1 <= Total("mean") /\ Total("buffer") = frames - B + 1
  BY <1>1, <1>2, <1>3
<1>5. MeanMsg(n) = Null <=> n > frames - B
  BY <1>2, MeanMsgSeq
<1>6. n > frames - B => n = Total("buffer")
  BY <1>2, <1>3, <1>4
<1> QED
  BY <1>1, <1>2, <1>3, <1>4, <1>5, <1>6

LEMMA MeanSend ==
  ASSUME PipelineInv, Send("mf", "mean")
  PROVE  PipelineInv'
<1>0. TypeOK /\ ControlInv /\ InOrder /\ MeanInv
  BY DEF PipelineInv
<1>1. /\ Moves("mf", "send", "sent") /\ Put("mean", out["mf"]) /\ pc["mf"] = "send"
      /\ UNCHANGED <<frames, firstZero, kind, file, header, i, buffer_, out, got, main, aborted, crashed>>
  BY ThreadLabels DEF Send, At, Alive, Moves, Threads, file, work
<1>2. PICK n : n = taken["buffer"]
  OBVIOUS
<1>3. /\ out["mf"] = MeanMsg(n) /\ out["mf"] \in Seq(Nat)
      /\ n \in Nat /\ n >= 2 /\ frames \in Nat /\ B \in Nat /\ frames > B
      /\ Total("mean") = frames - B /\ n - 1 <= Total("mean")
  BY <1>1, <1>2, MeanForwarded
<1>4. Puts("mean") = n - 1 - 1
  BY <1>0, <1>1, <1>2, <1>3 DEF MeanInv
<1>5. /\ Puts("mean") + 1 + 1 = n /\ Puts("mean") < Total("mean")
      /\ out["mf"] = Stream("mean", Puts("mean") + 1)
  BY <1>3, <1>4 DEF Stream
<1>6. /\ InOrder' /\ chan' \in [Channels -> Seq(Seq(Nat))] /\ taken' = taken
      /\ Puts("mean")' = Puts("mean") + 1
      /\ \A d \in Channels \ {"mean"} : Puts(d)' = Puts(d)
  <2>1. "mean" \in Channels
    BY DEF Channels
  <2> QED
    BY <1>0, <1>1, <1>3, <1>5, <2>1, PutLink
<1>7. /\ ControlInv' /\ pc'["mf"] = "sent"
      /\ \A u \in Threads \ {"mf"} : pc'[u] = pc[u]
  BY <1>0, <1>1, MoveStep
<1>8. TypeOK'
  BY <1>0, <1>1, <1>6, MoveStep DEF TypeOK
<1>9. MeanInv'
  <2>1. Puts("mean")' = n - 1 /\ n # 0
    BY <1>3, <1>4, <1>6
  <2>2. out'["mf"] = MeanMsg(n)' /\ taken'["buffer"] = n
    BY <1>1, <1>2, <1>3, <1>6, StreamKept
  <2> QED
    BY <1>0, <1>1, <1>3, <1>7, <2>1, <2>2 DEF MeanInv
<1>10. BufferHolds' /\ ReaderInv' /\ HeaderInv' /\ BufferInv' /\ RecvInv'
  BY <1>1, <1>6, <1>7, Untouched DEF PipelineInv, Threads, Channels
<1> QED
  BY <1>6, <1>7, <1>8, <1>9, <1>10 DEF PipelineInv

LEMMA MeanSent ==
  ASSUME PipelineInv, Sent("mf", "mean")
  PROVE  PipelineInv'
<1> DEFINE to == IF out["mf"] = Null THEN "done" ELSE "recv"
<1>0. TypeOK /\ ControlInv /\ InOrder /\ MeanInv
  BY DEF PipelineInv
<1>1. /\ Moves("mf", "sent", to) /\ pc["mf"] = "sent"
      /\ UNCHANGED <<frames, firstZero, kind, file, link, header, i, buffer_, out, got, main,
                     aborted, crashed>>
  BY ThreadLabels DEF Sent, At, Alive, Moves, Threads, file, work
<1>2. PICK n : n = taken["buffer"]
  OBVIOUS
<1>3. /\ n \in Nat /\ n >= 2 /\ frames \in Nat /\ B \in Nat /\ frames > B
      /\ out["mf"] = Null => n = Total("buffer")
      /\ out["mf"] # Null => n <= frames - B
  BY <1>1, <1>2, MeanForwarded
<1>4. /\ UNCHANGED <<chan, taken>> /\ (\A c \in Channels : Puts(c)' = Puts(c)) /\ InOrder'
  BY <1>0, <1>1, LinkKept
<1>5. /\ ControlInv' /\ pc'["mf"] = to
      /\ \A u \in Threads \ {"mf"} : pc'[u] = pc[u]
  BY <1>0, <1>1, MoveStep
<1>6. TypeOK'
  BY <1>0, <1>1, <1>4, MoveStep DEF TypeOK
<1>7. MeanInv'
  <2>1. Puts("mean")' = n - 1 /\ n # 0
    BY <1>0, <1>1, <1>2, <1>3, <1>4 DEF MeanInv, Channels
  <2>2. taken'["buffer"] = n /\ Total("buffer")' = Total("buffer")
    BY <1>1, <1>2, <1>4, StreamKept DEF Channels
  <2> QED
    BY <1>0, <1>1, <1>3, <1>5, <2>1, <2>2 DEF MeanInv
<1>8. BufferHolds' /\ ReaderInv' /\ HeaderInv' /\ BufferInv' /\ RecvInv'
  BY <1>1, <1>4, <1>5, Untouched DEF PipelineInv, Threads, Channels
<1> QED
  BY <1>4, <1>5, <1>6, <1>7, <1>8 DEF PipelineInv

-----------------------------------------------------------------------------
(* FrameRecv and HeaderRecv.                                               *)

\* What FrameRecv takes, n means after it began; it was not the last of all.
LEMMA FrameTaken ==
  ASSUME PipelineInv, FrameReceived, NEW n, n = taken["mean"]
  PROVE  /\ n \in Nat /\ frames \in Nat /\ B \in Nat /\ B >= 1 /\ n < frames - B
         /\ Head(chan["mean"]) = MeanMsg(n + 2)
         /\ (Head(chan["mean"]) = Null) <=> (n + 1 = frames - B)
         /\ n + 1 < frames - B => Head(chan["mean"]) = Window(n + 2)
         /\ taken'["mean"] = n + 1 /\ taken'["frame"] = taken["frame"]
         /\ taken'["buffer"] = taken["buffer"] /\ \A d \in Channels : Puts(d)' = Puts(d)
         /\ InOrder' /\ chan' \in [Channels -> Seq(Seq(Nat))]
         /\ taken' \in [Channels -> Nat]
         /\ got = IF n = 0 THEN Null ELSE MeanMsg(n + 1)
         /\ pc["fr"] = "recv" /\ file' = file /\ UNCHANGED frames
<1>1. Take("mean") /\ pc["fr"] = "recv" /\ file' = file /\ UNCHANGED frames
  BY DEF FrameReceived, At, Alive, file
<1>2. /\ Head(chan["mean"]) = Stream("mean", n + 1) /\ n < Total("mean")
      /\ taken'["mean"] = n + 1 /\ taken'["frame"] = taken["frame"]
      /\ taken'["buffer"] = taken["buffer"] /\ (\A d \in Channels : Puts(d)' = Puts(d))
      /\ InOrder' /\ chan' \in [Channels -> Seq(Seq(Nat))] /\ taken' \in [Channels -> Nat]
  BY <1>1, TakeLink DEF PipelineInv, Channels
<1>3. /\ n \in Nat /\ frames \in Nat /\ B \in Nat /\ B >= 1
      /\ Total("mean") = IF frames > B THEN frames - B ELSE 0
  BY NatFacts
<1>4. n < frames - B
  BY <1>2, <1>3
<1>5. Stream("mean", n + 1) = MeanMsg(n + 2)
  <2>1. n + 1 + 1 = n + 2
    BY <1>3
  <2> QED
    BY <2>1 DEF Stream
<1>6. /\ MeanMsg(n + 2) = Null <=> n + 2 > frames - B
      /\ n + 2 <= frames - B => MeanMsg(n + 2) = Window(n + 2)
  BY <1>3, MeanMsgSeq
<1>7. got = IF n = 0 THEN Null ELSE MeanMsg(n + 1)
  BY <1>1 DEF PipelineInv, RecvInv
<1>8. /\ MeanMsg(n + 2) = Null <=> n + 1 = frames - B
      /\ n + 1 < frames - B => MeanMsg(n + 2) = Window(n + 2)
  BY <1>3, <1>4, <1>6
<1> QED
  BY <1>1, <1>2, <1>3, <1>4, <1>5, <1>7, <1>8

LEMMA FrameReceivedStep ==
  ASSUME PipelineInv, FrameReceived
  PROVE  PipelineInv'
<1> DEFINE to == IF Head(chan["mean"]) = Null THEN "done" ELSE "recv"
<1>0. TypeOK /\ ControlInv
  BY DEF PipelineInv
<1>1. PICK n : n = taken["mean"]
  OBVIOUS
<1>2. /\ n \in Nat /\ frames \in Nat /\ B \in Nat /\ B >= 1 /\ n < frames - B
      /\ (Head(chan["mean"]) = Null) <=> (n + 1 = frames - B)
      /\ n + 1 < frames - B => Head(chan["mean"]) = Window(n + 2)
      /\ taken'["mean"] = n + 1 /\ taken'["frame"] = taken["frame"]
      /\ taken'["buffer"] = taken["buffer"] /\ (\A d \in Channels : Puts(d)' = Puts(d))
      /\ InOrder' /\ chan' \in [Channels -> Seq(Seq(Nat))]
      /\ taken' \in [Channels -> Nat]
      /\ got = IF n = 0 THEN Null ELSE MeanMsg(n + 1)
  BY <1>1, FrameTaken
<1>3. /\ Moves("fr", "recv", to) /\ pc["fr"] = "recv"
      /\ UNCHANGED <<frames, firstZero, kind, file, header, i, buffer_, out, main, aborted, crashed>>
  BY ThreadLabels DEF FrameReceived, At, Alive, Moves, Threads, file
<1>4. /\ ControlInv' /\ pc'["fr"] = to
      /\ \A u \in Threads \ {"fr"} : pc'[u] = pc[u]
  BY <1>0, <1>3, MoveStep
<1>5. got' = IF n + 1 = frames - B THEN got ELSE Window(n + 2)
  <2>1. CASE n + 1 = frames - B
    BY <1>2, <2>1 DEF FrameReceived
  <2>2. CASE n + 1 # frames - B
    <3>1. Head(chan["mean"]) # Null /\ Head(chan["mean"]) = Window(n + 2)
      BY <1>2, <2>2
    <3> QED
      BY <2>2, <3>1 DEF FrameReceived
  <2> QED
    BY <2>1, <2>2
<1>6. got' \in Seq(Nat)
  <2>1. n + 2 \in Nat /\ got \in Seq(Nat)
    BY <1>0, <1>2 DEF TypeOK
  <2> QED
    BY <1>2, <1>5, <2>1, WindowMsg
<1>7. TypeOK'
  BY <1>0, <1>2, <1>3, <1>6, MoveStep DEF TypeOK
<1>8. RecvInv'
  <2>1. PICK m : m = n + 1
    OBVIOUS
  <2>2. /\ m \in Nat /\ m >= 1 /\ m # 0 /\ m <= frames - B /\ taken'["mean"] = m
        /\ frames - B \in Nat
    BY <1>2, <2>1
  <2>3. \A d : MeanMsg(d)' = MeanMsg(d)
    BY <1>3, StreamKept
  <2>4. CASE m = frames - B
    <3>1. pc'["fr"] = "done" /\ got' = IF m = 1 THEN Null ELSE MeanMsg(m)
      BY <1>2, <1>4, <1>5, <2>1, <2>4
    <3> QED
      BY <1>3, <2>2, <2>3, <2>4, <3>1 DEF RecvInv
  <2>5. CASE m # frames - B
    <3>1. pc'["fr"] = "recv" /\ got' = Window(n + 2)
      BY <1>2, <1>4, <1>5, <2>1, <2>5
    <3>2. m + 1 = n + 2 /\ m + 1 <= frames - B /\ m < frames - B
      BY <1>2, <2>1, <2>2, <2>5
    <3>3. got' = MeanMsg(m + 1)
      BY <3>1, <3>2 DEF MeanMsg
    <3> QED
      BY <1>3, <2>2, <2>3, <3>1, <3>2, <3>3 DEF RecvInv
  <2> QED
    BY <2>4, <2>5
<1>9. BufferHolds' /\ ReaderInv' /\ HeaderInv' /\ BufferInv' /\ MeanInv'
  BY <1>2, <1>3, <1>4, Untouched DEF PipelineInv, Threads, Channels
<1> QED
  BY <1>2, <1>4, <1>7, <1>8, <1>9 DEF PipelineInv

LEMMA HeaderReceivedStep ==
  ASSUME PipelineInv, HeaderReceived
  PROVE  PipelineInv'
<1> DEFINE to == IF LastHeader(Head(header)) THEN "done" ELSE "recv"
<1>0. TypeOK /\ ControlInv /\ InOrder /\ HeaderInv
  BY DEF PipelineInv
<1>1. /\ Moves("hr", "recv", to) /\ pc["hr"] = "recv" /\ header # <<>> /\ header' = <<>>
      /\ UNCHANGED <<frames, firstZero, kind, file, link, i, buffer_, out, got, main, aborted, crashed>>
  BY ThreadLabels DEF HeaderReceived, At, Alive, Moves, Threads, file, work
<1>2. /\ UNCHANGED <<chan, taken>> /\ (\A c \in Channels : Puts(c)' = Puts(c)) /\ InOrder'
  BY <1>0, <1>1, LinkKept
<1>3. /\ ControlInv' /\ pc'["hr"] = to
      /\ \A u \in Threads \ {"hr"} : pc'[u] = pc[u]
  BY <1>0, <1>1, MoveStep
<1>4. TypeOK'
  BY <1>0, <1>1, <1>2, MoveStep DEF TypeOK
<1>5. HeaderInv'
  <2>1. i \in Nat /\ firstZero \in Nat
    BY NatFacts
  <2>2. /\ pc["r"] = "header_sent" /\ i < firstZero
        /\ header = <<IF i + 1 = firstZero THEN 0 ELSE 1>>
    BY <1>0, <1>1, <2>1 DEF HeaderInv, HeadersTaken
  <2>3. to = IF i + 1 = firstZero THEN "done" ELSE "recv"
    BY <2>2 DEF LastHeader
  <2>4. HeadersTaken' = i + 1
    BY <1>1, <1>3, <2>2 DEF HeadersTaken, Threads
  <2> HIDE DEF to
  <2> QED
    BY <1>1, <1>3, <2>1, <2>2, <2>3, <2>4 DEF HeaderInv
<1>6. BufferHolds' /\ ReaderInv' /\ BufferInv' /\ MeanInv' /\ RecvInv'
  BY <1>1, <1>2, <1>3, Untouched DEF PipelineInv, Threads, Channels
<1> QED
  BY <1>2, <1>3, <1>4, <1>5, <1>6 DEF PipelineInv

-----------------------------------------------------------------------------
(* main()                                                                  *)

\* A thread that was off enters run(): what it left alone is as before.
LEMMA EntryKeeps ==
  ASSUME PipelineInv, UNCHANGED <<file, link, header, work, aborted, crashed>>,
         NEW t \in Threads, pc[t] = "off", pc' = [pc EXCEPT ![t] = Entry[t]]
  PROVE  /\ InOrder' /\ BufferHolds' /\ ReaderInv' /\ HeaderInv' /\ BufferInv'
         /\ MeanInv' /\ RecvInv'
<1>0. TypeOK /\ InOrder
  BY DEF PipelineInv
<1>1. /\ UNCHANGED <<chan, taken>> /\ (\A c \in Channels : Puts(c)' = Puts(c)) /\ InOrder'
  BY <1>0, LinkKept
<1>2. UNCHANGED <<i, buffer_, out, got, frames, firstZero>>
  BY DEF work, file
<1>3. /\ pc \in [Threads -> {"off", "send_frame", "frame_sent", "send_header",
                         "header_sent", "fill", "first", "recv", "send",
                         "sent", "done"}]
      /\ \A u \in Threads \ {t} : pc'[u] = pc[u]
      /\ pc'[t] = Entry[t]
  BY <1>0 DEF TypeOK
<1>4. frames \in Nat /\ B \in Nat /\ B >= 1 /\ taken["frame"] \in Nat
  BY NatFacts
<1>5. ReaderInv'
  <2>1. CASE t # "r"
    BY <1>1, <1>2, <1>3, <2>1, Untouched DEF PipelineInv, Threads, Channels
  <2>2. CASE t = "r"
    BY <1>1, <1>2, <1>3, <2>2 DEF PipelineInv, ReaderInv, Entry, Channels
  <2> QED
    BY <2>1, <2>2
<1>6. HeaderInv'
  <2>1. CASE t \notin {"r", "hr"}
    BY <1>2, <1>3, <2>1, Untouched DEF PipelineInv, Threads
  <2>2. CASE t = "r"
    BY <1>2, <1>3, <2>2 DEF PipelineInv, HeaderInv, HeadersTaken, Entry, Threads
  <2>3. CASE t = "hr"
    BY <1>2, <1>3, <2>3 DEF PipelineInv, HeaderInv, HeadersTaken, Entry, Threads
  <2> QED
    BY <2>1, <2>2, <2>3
<1>7. BufferInv'
  <2>1. CASE t # "bf"
    BY <1>1, <1>2, <1>3, <2>1, Untouched DEF PipelineInv, Threads, Channels
  <2>2. CASE t = "bf"
    <3>1. pc["bf"] = "off" /\ pc'["bf"] = "fill" /\ BufferInv
      BY <1>3, <2>2 DEF Entry, PipelineInv
    <3>2. MeansDue' = MeansDue /\ Puts("buffer")' = Puts("buffer")
      BY <1>1, <1>2, StreamKept DEF MeansDue, Channels
    <3> QED
      BY <1>1, <1>2, <1>4, <3>1, <3>2 DEF BufferInv
  <2> QED
    BY <2>1, <2>2
<1>8. MeanInv'
  <2>1. CASE t # "mf"
    BY <1>1, <1>2, <1>3, <2>1, Untouched DEF PipelineInv, Threads, Channels
  <2>2. CASE t = "mf"
    <3>1. pc["mf"] = "off" /\ pc'["mf"] = "first" /\ MeanInv
      BY <1>3, <2>2 DEF Entry, PipelineInv
    <3>2. Puts("mean")' = Puts("mean")
      BY <1>1 DEF Channels
    <3> QED
      BY <1>1, <1>2, <3>1, <3>2 DEF MeanInv
  <2> QED
    BY <2>1, <2>2
<1>9. RecvInv'
  <2>1. CASE t # "fr"
    BY <1>1, <1>2, <1>3, <2>1, Untouched DEF PipelineInv, Threads
  <2>2. CASE t = "fr"
    BY <1>1, <1>2, <1>3, <2>2, StreamKept DEF PipelineInv, RecvInv, Entry
  <2> QED
    BY <2>1, <2>2
<1>10. BufferHolds'
  BY <1>1, <1>2, Untouched DEF PipelineInv
<1> QED
  BY <1>1, <1>5, <1>6, <1>7, <1>8, <1>9, <1>10

\* No thread moves.
LEMMA NobodyMoves ==
  ASSUME PipelineInv, UNCHANGED <<file, link, header, pc, work, aborted>>
  PROVE  /\ InOrder' /\ BufferHolds' /\ ReaderInv' /\ HeaderInv' /\ BufferInv'
         /\ MeanInv' /\ RecvInv'
<1>1. /\ UNCHANGED <<chan, taken>> /\ (\A c \in Channels : Puts(c)' = Puts(c)) /\ InOrder'
  BY LinkKept DEF PipelineInv
<1>2. UNCHANGED <<i, buffer_, out, got>>
  BY DEF work
<1> QED
  BY <1>1, <1>2, Untouched DEF PipelineInv, Channels

LEMMA MainStartsStep ==
  ASSUME PipelineInv, MainStarts
  PROVE  PipelineInv'
<1>0. TypeOK /\ ControlInv /\ main \in Nat
  BY DEF PipelineInv, TypeOK
<1>1. PICK k : k = main + 1
  OBVIOUS
<1>2. k \in 1..5 /\ main' = k /\ main < k /\ main = k - 1
  BY <1>0, <1>1, Orders DEF MainStarts, Statement
<1>3. PICK t \in Threads : t = StartOrder[k]
  BY <1>2, InOrders
<1>4. /\ node' = [node EXCEPT ![t] = Started(@)] /\ pc' = [pc EXCEPT ![t] = Entry[t]]
      /\ UNCHANGED <<file, link, header, work, aborted, crashed>>
  BY <1>1, <1>3 DEF MainStarts
<1>5. pc[t] = "off"
  BY <1>0, <1>2, <1>3 DEF ControlInv
<1>6. /\ Entry[t] \in Labels[t]
      /\ Entry[t] \in {"off", "send_frame", "frame_sent", "send_header", "header_sent",
                       "fill", "first", "recv", "send", "sent", "done"}
  BY ThreadLabels DEF Entry, Threads
<1>7. TypeOK'
  BY <1>0, <1>2, <1>4, <1>6, RunnableTypes DEF TypeOK, file, link, work
<1>8. ASSUME NEW u \in Threads
      PROVE  pc'[u] \in Labels[u] /\ (node'[u].thread = "exited" => pc'[u] = "done")
  BY <1>0, <1>4, <1>6, RunnableTypes DEF TypeOK, ControlInv
<1>9. ASSUME NEW j \in 1..5
      PROVE  /\ main' < j => pc'[StartOrder[j]] = "off"
             /\ ~(main' >= j + 5)
  <2>1. ~(main' >= j + 5) /\ (main' < j => main < j /\ j # k)
    BY <1>2
  <2>2. j # k => StartOrder[j] # t
    BY <1>2, <1>3, Orders
  <2>3. main < j => pc[StartOrder[j]] = "off"
    BY <1>0 DEF ControlInv
  <2> QED
    BY <1>0, <1>4, <2>1, <2>2, <2>3, InOrders DEF TypeOK
<1>10. ControlInv'
  BY <1>8, <1>9 DEF ControlInv
<1> QED
  BY <1>4, <1>5, <1>7, <1>10, EntryKeeps DEF PipelineInv

LEMMA MainJoinsStep ==
  ASSUME PipelineInv, MainJoins
  PROVE  PipelineInv'
<1>0. TypeOK /\ ControlInv /\ main \in Nat
  BY DEF PipelineInv, TypeOK
<1>1. PICK k : k = main - 4
  OBVIOUS
<1>2. k \in 1..5 /\ main = k + 4 /\ main' = k + 5
  BY <1>0, <1>1, Orders DEF MainJoins, Statement
<1>3. PICK t \in Threads : t = JoinOrder[k]
  BY <1>2, InOrders
<1>4. /\ node[t].thread = "exited" /\ node' = [node EXCEPT ![t] = Joined(@)]
      /\ UNCHANGED <<file, link, header, pc, work, aborted, crashed>>
  BY <1>1, <1>3 DEF MainJoins, JoinReturns
<1>5. pc[t] = "done"
  BY <1>0, <1>4 DEF ControlInv
<1>6. TypeOK'
  BY <1>0, <1>2, <1>4, RunnableTypes DEF TypeOK, file, link, work
<1>7. ASSUME NEW u \in Threads
      PROVE  pc'[u] \in Labels[u] /\ (node'[u].thread = "exited" => pc'[u] = "done")
  BY <1>0, <1>4, RunnableTypes DEF TypeOK, ControlInv
<1>8. ASSUME NEW j \in 1..5
      PROVE  /\ ~(main' < j)
             /\ main' >= j + 5 => pc'[JoinOrder[j]] = "done"
  <2>1. ~(main' < j) /\ (main' >= j + 5 => main >= j + 5 \/ j = k)
    BY <1>2
  <2> QED
    BY <1>0, <1>3, <1>4, <1>5, <2>1 DEF ControlInv
<1>9. ControlInv'
  BY <1>7, <1>8 DEF ControlInv
<1> QED
  BY <1>4, <1>6, <1>9, NobodyMoves DEF PipelineInv

LEMMA MainDestroysStep ==
  ASSUME PipelineInv, MainDestroys
  PROVE  PipelineInv'
<1>0. TypeOK /\ ControlInv /\ main \in Nat
  BY DEF PipelineInv, TypeOK
<1>1. PICK k : k = main - 9
  OBVIOUS
<1>2. k \in 1..5 /\ main = k + 9 /\ main' = k + 10
  BY <1>0, <1>1, Orders DEF MainDestroys, Statement
<1>3. PICK t \in Threads : t = DestroyOrder[k]
  BY <1>2, InOrders
<1>4. /\ node' = [node EXCEPT ![t] = StopSet(@)]
      /\ UNCHANGED <<file, link, header, pc, work, aborted, crashed>>
  BY <1>1, <1>3 DEF MainDestroys
<1>5. TypeOK'
  BY <1>0, <1>2, <1>4, RunnableTypes DEF TypeOK, file, link, work
<1>6. ASSUME NEW u \in Threads
      PROVE  pc'[u] \in Labels[u] /\ (node'[u].thread = "exited" => pc'[u] = "done")
  BY <1>0, <1>4, RunnableTypes DEF TypeOK, ControlInv
<1>7. ASSUME NEW j \in 1..5
      PROVE  /\ ~(main' < j)
             /\ main' >= j + 5 => pc'[JoinOrder[j]] = "done"
  <2>1. ~(main' < j) /\ main >= j + 5
    BY <1>2
  <2> QED
    BY <1>0, <1>4, <2>1 DEF ControlInv
<1>8. ControlInv'
  BY <1>6, <1>7 DEF ControlInv
<1> QED
  BY <1>4, <1>5, <1>8, NobodyMoves DEF PipelineInv

-----------------------------------------------------------------------------
(* The invariant.                                                          *)

LEMMA InitPipeline ==
  ASSUME Init PROVE PipelineInv
<1>1. frames \in Nat /\ firstZero \in Nat /\ firstZero >= 1 /\ B \in Nat /\ B >= 1
  BY CubviewerAssumption DEF Init
<1>2. TypeOK
  <2>1. NewRunnable \in Runnables
    BY DEF NewRunnable, Runnables
  <2>2. /\ node \in [Threads -> Runnables] /\ chan \in [Channels -> Seq(Seq(Nat))]
        /\ taken \in [Channels -> Nat]
    <3>1. <<>> \in Seq(Seq(Nat)) /\ 0 \in Nat
      OBVIOUS
    <3>2. /\ node = [t \in Threads |-> NewRunnable] /\ chan = [c \in Channels |-> <<>>]
          /\ taken = [c \in Channels |-> 0]
      BY DEF Init
    <3> QED
      BY <2>1, <3>1, <3>2
  <2>3. /\ Null \in Seq(Nat) /\ buffer_ \in Seq(Nat) /\ got \in Seq(Nat)
        /\ out \in [{"bf", "mf"} -> Seq(Nat)]
    BY DEF Init, Null
  <2>4. /\ kind \in {"whole", "tiny", "headless"} /\ frames \in 0..MaxFrames
        /\ firstZero \in 1..(frames + 2) /\ i \in 0..frames
    BY <1>1 DEF Init
  <2>5. main \in 0..15 /\ header \in {<<>>, <<0>>, <<1>>}
    BY DEF Init
  <2>6. aborted \in BOOLEAN /\ crashed \in BOOLEAN
    BY Zenon DEF Init
  <2>7. pc \in [Threads -> {"off", "send_frame", "frame_sent", "send_header",
                           "header_sent", "fill", "first", "recv", "send",
                           "sent", "done"}]
    BY DEF Init
  <2> QED
    BY <2>2, <2>3, <2>4, <2>5, <2>6, <2>7 DEF TypeOK
<1>3. ControlInv
  BY InOrders, ThreadLabels DEF Init, ControlInv, NewRunnable, Threads
<1>4. \A c \in Channels : Total(c) \in Nat /\ chan[c] = <<>> /\ taken[c] = 0 /\ Puts(c) = 0
  BY <1>2, ChannelTypes DEF Init, Puts
<1>5. InOrder
  BY <1>4 DEF InOrder
<1>6. taken["frame"] = 0 /\ taken["buffer"] = 0 /\ taken["mean"] = 0
  BY DEF Init, Channels
<1>7. BufferHolds
  BY <1>1, <1>6 DEF Init, BufferHolds
<1>8. Puts("frame") = 0 /\ Puts("buffer") = 0 /\ Puts("mean") = 0
  BY <1>4 DEF Channels
<1>9. pc["r"] = "off" /\ pc["bf"] = "off" /\ pc["mf"] = "off" /\ pc["fr"] = "off"
      /\ pc["hr"] = "off"
  BY DEF Init, Threads
<1>10. ReaderInv /\ HeaderInv
  BY <1>1, <1>8, <1>9 DEF Init, ReaderInv, HeaderInv, HeadersTaken
<1>11. BufferInv
  BY <1>1, <1>6, <1>8, <1>9 DEF BufferInv, MeansDue
<1>12. MeanInv
  BY <1>6, <1>8, <1>9 DEF Init, MeanInv
<1>13. RecvInv
  BY <1>6, <1>9 DEF Init, RecvInv
<1> QED
  BY <1>2, <1>3, <1>5, <1>7, <1>10, <1>11, <1>12, <1>13 DEF PipelineInv

\* The program ends before the reader has sent anything.
LEMMA CrashStep ==
  ASSUME PipelineInv, Crash
  PROVE  PipelineInv'
<1>1. UNCHANGED <<file, link, header, pc, node, work, main, aborted>>
  BY DEF Crash
<1>2. crashed' \in BOOLEAN
  BY Zenon DEF Crash
<1>3. TypeOK' /\ ControlInv'
  BY <1>1, <1>2 DEF PipelineInv, TypeOK, ControlInv, file, link, work
<1> QED
  BY <1>1, <1>3, NobodyMoves DEF PipelineInv

LEMMA PipelineInvStep ==
  ASSUME PipelineInv, [Next]_vars
  PROVE  PipelineInv'
<1>1. CASE Reader
  BY <1>1, SendFrameStep, HeaderSteps DEF Reader
<1>2. CASE BufferedMean
  BY <1>2, FillStep, BufferFrameStep, BufferSend, BufferSent DEF BufferedMean
<1>3. CASE FrameMean
  BY <1>3, FirstMeanStep, ForwardMeanStep, MeanSend, MeanSent DEF FrameMean
<1>4. CASE FrameReceived
  BY <1>4, FrameReceivedStep
<1>5. CASE HeaderReceived
  BY <1>5, HeaderReceivedStep
<1>6. CASE Main
  BY <1>6, MainStartsStep, MainJoinsStep, MainDestroysStep DEF Main
<1>7. CASE UNCHANGED vars
  <2>1. UNCHANGED <<file, link, header, pc, node, work, main, aborted, crashed>>
    BY <1>7 DEF vars
  <2>2. TypeOK' /\ ControlInv'
    BY <2>1 DEF PipelineInv, TypeOK, ControlInv, file, link, work
  <2> QED
    BY <2>1, <2>2, NobodyMoves DEF PipelineInv
<1>8. CASE ReaderCrashes \/ MainCrashes
  BY <1>8, CrashStep DEF ReaderCrashes, MainCrashes
<1> QED
  BY <1>1, <1>2, <1>3, <1>4, <1>5, <1>6, <1>7, <1>8 DEF Next

-----------------------------------------------------------------------------
(* The life of the threads.                                                *)

LEMMA OneByOne ==
  ASSUME NEW j \in 1..5, NEW k \in 1..5
  PROVE  /\ StartOrder[j] = StartOrder[k] => j = k
         /\ JoinOrder[j] = JoinOrder[k] => j = k
BY Orders

LEMMA EveryThread ==
  \A t \in Threads : (\E k \in 1..5 : t = StartOrder[k]) /\ (\E k \in 1..5 : t = JoinOrder[k])
BY Orders DEF Threads

LEMMA StopFlag ==
  ASSUME NEW r \in Runnables
  PROVE  Started(r).stop = r.stop /\ Exited(r).stop = r.stop /\ Joined(r).stop = r.stop
BY DEF Runnables, Started, Exited, Joined

LEMMA InitLife ==
  ASSUME Init PROVE LifeInv
<1>1. /\ main = 0 /\ \A t \in Threads : pc[t] = "off" /\ node[t] = NewRunnable
      /\ NewRunnable.thread = "none" /\ NewRunnable.stop = FALSE
  BY DEF Init, NewRunnable
<1>2. \A t \in Threads : ~node[t].stop
  <2> TAKE t \in Threads
  <2>1. node[t].stop = FALSE
    BY <1>1
  <2> QED
    BY <2>1, Zenon
<1> QED
  BY <1>1, <1>2, InOrders DEF LifeInv

\* A step of a thread.
LEMMA LifeMoves ==
  ASSUME PipelineInv, LifeInv, NEW t, NEW to, Moves(t, pc[t], to), main' = main
  PROVE  LifeInv'
<1>1. TypeOK /\ ControlInv /\ main \in Nat
  BY DEF PipelineInv, TypeOK
<1>2. /\ t \in Threads /\ pc[t] \notin {"off", "done"} /\ to # "off"
      /\ pc' = [pc EXCEPT ![t] = to] /\ node \in [Threads -> Runnables]
      /\ \/ to # "done" /\ node' = node
         \/ to = "done" /\ node' = [node EXCEPT ![t] = Exited(@)]
  BY <1>1, ThreadLabels DEF Moves, Goto, Return, TypeOK
<1>3. /\ pc'[t] = to /\ \A u \in Threads \ {t} : pc'[u] = pc[u] /\ node'[u] = node[u]
      /\ to # "done" => node' = node
      /\ to = "done" => node'[t].thread = "exited"
  BY <1>1, <1>2, RunnableTypes DEF TypeOK
<1>4. ASSUME main < 10, NEW u \in Threads PROVE ~node'[u].stop
  <2>1. ~node[u].stop /\ node[u] \in Runnables
    BY <1>2, <1>4 DEF LifeInv
  <2>2. CASE node'[u] = node[u]
    BY <2>1, <2>2
  <2>3. CASE node'[u] = Exited(node[u])
    BY <2>1, <2>3, StopFlag
  <2> QED
    BY <1>2, <2>2, <2>3
<1>5. ASSUME NEW k \in 1..5
      PROVE  /\ main < k => node'[StartOrder[k]].thread = "none"
             /\ main >= k => pc'[StartOrder[k]] # "off"
             /\ (main < k + 5 /\ pc'[JoinOrder[k]] = "done") =>
                  node'[JoinOrder[k]].thread = "exited"
             /\ main >= k + 5 => node'[JoinOrder[k]].thread = "none"
  <2>1. StartOrder[k] \in Threads /\ JoinOrder[k] \in Threads
    BY InOrders
  <2>2. /\ main < k => node[StartOrder[k]].thread = "none" /\ pc[StartOrder[k]] = "off"
        /\ main >= k => pc[StartOrder[k]] # "off"
        /\ (main < k + 5 /\ pc[JoinOrder[k]] = "done") =>
             node[JoinOrder[k]].thread = "exited"
        /\ main >= k + 5 => node[JoinOrder[k]].thread = "none" /\ pc[JoinOrder[k]] = "done"
    BY <1>1 DEF LifeInv, ControlInv
  <2>3. /\ main < k => node'[StartOrder[k]].thread = "none"
        /\ main >= k => pc'[StartOrder[k]] # "off"
    BY <1>2, <1>3, <2>1, <2>2
  <2>4. /\ (main < k + 5 /\ pc'[JoinOrder[k]] = "done") =>
             node'[JoinOrder[k]].thread = "exited"
        /\ main >= k + 5 => node'[JoinOrder[k]].thread = "none"
    BY <1>2, <1>3, <2>1, <2>2
  <2> QED
    BY <2>3, <2>4
<1> QED
  BY <1>4, <1>5 DEF LifeInv

\* The steps of the threads are such moves.
LEMMA ThreadMoves ==
  ASSUME PipelineInv,
         Reader \/ BufferedMean \/ FrameMean \/ FrameReceived \/ HeaderReceived
  PROVE  main' = main /\ \E t, to : Moves(t, pc[t], to)
<1>1. CASE Reader
  <2>1. /\ main' = main
        /\ \/ pc["r"] = "send_frame" /\ Goto("r", "frame_sent")
           \/ pc["r"] = "frame_sent" /\ Goto("r", "send_header")
           \/ pc["r"] = "send_header" /\ Goto("r", "header_sent")
           \/ pc["r"] = "header_sent" /\ (Goto("r", "send_frame") \/ Return("r"))
    BY <1>1 DEF Reader, SendFrame, FrameSent, SendHeader, HeaderSent, At
  <2>2. Moves("r", pc["r"], "frame_sent") \/ Moves("r", pc["r"], "send_header")
        \/ Moves("r", pc["r"], "header_sent") \/ Moves("r", pc["r"], "send_frame")
        \/ Moves("r", pc["r"], "done")
    BY <2>1, ThreadLabels DEF Moves, Threads
  <2> QED
    BY <2>1, <2>2
<1>2. CASE BufferedMean
  <2>1. /\ main' = main /\ pc["bf"] \in {"fill", "recv", "send", "sent"}
        /\ \/ Goto("bf", "send") \/ Goto("bf", "recv") \/ Goto("bf", "fill")
           \/ Goto("bf", "sent") \/ Return("bf")
    BY <1>2 DEF BufferedMean, Fill, BufferFrame, Send, Sent, EndMeans, StartSend, At
  <2>2. Moves("bf", pc["bf"], "send") \/ Moves("bf", pc["bf"], "recv")
        \/ Moves("bf", pc["bf"], "fill") \/ Moves("bf", pc["bf"], "sent")
        \/ Moves("bf", pc["bf"], "done")
    BY <2>1, ThreadLabels DEF Moves, Threads
  <2> QED
    BY <2>1, <2>2
<1>3. CASE FrameMean
  <2>1. /\ main' = main /\ pc["mf"] \in {"first", "recv", "send", "sent"}
        /\ \/ Goto("mf", "send") \/ Goto("mf", "recv")
           \/ Goto("mf", "sent") \/ Return("mf")
    BY <1>3 DEF FrameMean, FirstMean, ForwardMean, Send, Sent, StartSend, At
  <2>2. Moves("mf", pc["mf"], "send") \/ Moves("mf", pc["mf"], "recv")
        \/ Moves("mf", pc["mf"], "sent") \/ Moves("mf", pc["mf"], "done")
    BY <2>1, ThreadLabels DEF Moves, Threads
  <2> QED
    BY <2>1, <2>2
<1>4. CASE FrameReceived
  <2>1. /\ main' = main /\ pc["fr"] = "recv" /\ (Goto("fr", "recv") \/ Return("fr"))
    BY <1>4 DEF FrameReceived, At
  <2>2. Moves("fr", pc["fr"], "recv") \/ Moves("fr", pc["fr"], "done")
    BY <2>1, ThreadLabels DEF Moves, Threads
  <2> QED
    BY <2>1, <2>2
<1>5. CASE HeaderReceived
  <2>1. /\ main' = main /\ pc["hr"] = "recv" /\ (Goto("hr", "recv") \/ Return("hr"))
    BY <1>5 DEF HeaderReceived, At
  <2>2. Moves("hr", pc["hr"], "recv") \/ Moves("hr", pc["hr"], "done")
    BY <2>1, ThreadLabels DEF Moves, Threads
  <2> QED
    BY <2>1, <2>2
<1> QED
  BY <1>1, <1>2, <1>3, <1>4, <1>5

LEMMA LifeMain ==
  ASSUME PipelineInv, LifeInv, Main
  PROVE  LifeInv'
<1>1. TypeOK /\ ControlInv /\ main \in Nat /\ node \in [Threads -> Runnables]
  BY DEF PipelineInv, TypeOK
<1>2. \A k \in 1..5 : StartOrder[k] \in Threads /\ JoinOrder[k] \in Threads
  BY InOrders
<1>3. CASE MainStarts
  <2>1. PICK k : k = main + 1
    OBVIOUS
  <2>2. k \in 1..5 /\ main = k - 1 /\ main' = k
    BY <1>1, <1>3, <2>1, Orders DEF MainStarts, Statement
  <2>3. PICK t \in Threads : t = StartOrder[k]
    BY <1>2, <2>2
  <2>4. node' = [node EXCEPT ![t] = Started(@)] /\ pc' = [pc EXCEPT ![t] = Entry[t]]
    BY <1>3, <2>1, <2>3 DEF MainStarts
  <2>5. Entry[t] \notin {"off", "done"}
    BY DEF Entry, Threads
  <2>6. /\ pc'[t] = Entry[t]
        /\ \A u \in Threads \ {t} : pc'[u] = pc[u] /\ node'[u] = node[u]
    BY <1>1, <2>4 DEF TypeOK
  <2>7. ASSUME NEW u \in Threads PROVE ~node'[u].stop
    <3>1. ~node[u].stop /\ node[u] \in Runnables
      BY <1>1, <2>2 DEF LifeInv
    <3>2. node'[u] = node[u] \/ node'[u] = Started(node[u])
      BY <1>1, <2>4
    <3> QED
      BY <3>1, <3>2, StopFlag
  <2>8. ASSUME NEW j \in 1..5
        PROVE  /\ main' < j => node'[StartOrder[j]].thread = "none"
               /\ main' >= j => pc'[StartOrder[j]] # "off"
               /\ pc'[JoinOrder[j]] = "done" => node'[JoinOrder[j]].thread = "exited"
               /\ ~(main' >= j + 5)
    <3>1. /\ StartOrder[j] \in Threads /\ JoinOrder[j] \in Threads
          /\ StartOrder[j] = t => j = k
      BY <1>2, <2>2, <2>3, OneByOne
    <3>2. /\ main < j => node[StartOrder[j]].thread = "none"
          /\ main >= j => pc[StartOrder[j]] # "off"
          /\ pc[JoinOrder[j]] = "done" => node[JoinOrder[j]].thread = "exited"
      BY <2>2 DEF LifeInv
    <3>3. main' < j => node'[StartOrder[j]].thread = "none"
      BY <2>2, <2>6, <3>1, <3>2
    <3>4. main' >= j => pc'[StartOrder[j]] # "off"
      BY <2>2, <2>3, <2>5, <2>6, <3>1, <3>2
    <3>5. pc'[JoinOrder[j]] = "done" => node'[JoinOrder[j]].thread = "exited"
      BY <2>5, <2>6, <3>1, <3>2
    <3> QED
      BY <2>2, <3>3, <3>4, <3>5
  <2> QED
    BY <2>7, <2>8 DEF LifeInv
<1>4. CASE MainJoins
  <2>1. PICK k : k = main - 4
    OBVIOUS
  <2>2. k \in 1..5 /\ main = k + 4 /\ main' = k + 5
    BY <1>1, <1>4, <2>1, Orders DEF MainJoins, Statement
  <2>3. PICK t \in Threads : t = JoinOrder[k]
    BY <1>2, <2>2
  <2>4. node' = [node EXCEPT ![t] = Joined(@)] /\ pc' = pc
    BY <1>4, <2>1, <2>3 DEF MainJoins
  <2>5. node'[t].thread = "none" /\ \A u \in Threads \ {t} : node'[u] = node[u]
    BY <1>1, <2>4, RunnableTypes
  <2>6. ASSUME main' < 10, NEW u \in Threads PROVE ~node'[u].stop
    <3>1. ~node[u].stop /\ node[u] \in Runnables
      BY <1>1, <2>2, <2>6 DEF LifeInv
    <3>2. node'[u] = node[u] \/ node'[u] = Joined(node[u])
      BY <1>1, <2>4
    <3> QED
      BY <3>1, <3>2, StopFlag
  <2>7. ASSUME NEW j \in 1..5
        PROVE  /\ ~(main' < j)
               /\ pc'[StartOrder[j]] # "off"
               /\ (main' < j + 5 /\ pc'[JoinOrder[j]] = "done") =>
                    node'[JoinOrder[j]].thread = "exited"
               /\ main' >= j + 5 => node'[JoinOrder[j]].thread = "none"
    <3>1. /\ JoinOrder[j] \in Threads /\ (JoinOrder[j] = t => j = k)
      BY <1>2, <2>2, <2>3, OneByOne
    <3>2. /\ main >= j
          /\ pc[StartOrder[j]] # "off"
          /\ (main < j + 5 /\ pc[JoinOrder[j]] = "done") =>
               node[JoinOrder[j]].thread = "exited"
          /\ main >= j + 5 => node[JoinOrder[j]].thread = "none"
      BY <2>2 DEF LifeInv
    <3>3. main' >= j + 5 => node'[JoinOrder[j]].thread = "none"
      BY <2>2, <2>3, <2>5, <3>1, <3>2
    <3>4. (main' < j + 5 /\ pc'[JoinOrder[j]] = "done") =>
            node'[JoinOrder[j]].thread = "exited"
      BY <2>2, <2>4, <2>5, <3>1, <3>2
    <3> QED
      BY <2>2, <2>4, <3>2, <3>3, <3>4
  <2> QED
    BY <2>6, <2>7 DEF LifeInv
<1>5. CASE MainDestroys
  <2>1. PICK k : k = main - 9
    OBVIOUS
  <2>2. k \in 1..5 /\ main = k + 9 /\ main' = k + 10
    BY <1>1, <1>5, <2>1, Orders DEF MainDestroys, Statement
  <2>3. PICK t \in Threads : t = DestroyOrder[k]
    BY <2>2, InOrders
  <2>4. node' = [node EXCEPT ![t] = StopSet(@)] /\ pc' = pc
    BY <1>5, <2>1, <2>3 DEF MainDestroys
  <2>5. \A u \in Threads : node'[u].thread = node[u].thread
    BY <1>1, <2>4, RunnableTypes
  <2>6. ASSUME NEW j \in 1..5
        PROVE  /\ ~(main' < j) /\ ~(main' < j + 5) /\ ~(main' < 10)
               /\ pc'[StartOrder[j]] # "off" /\ node'[JoinOrder[j]].thread = "none"
    <3>1. main >= j /\ main >= j + 5
      BY <2>2
    <3>2. pc[StartOrder[j]] # "off" /\ node[JoinOrder[j]].thread = "none"
      BY <3>1 DEF LifeInv
    <3> QED
      BY <1>2, <2>2, <2>4, <2>5, <3>2
  <2> QED
    BY <2>2, <2>6 DEF LifeInv
<1> QED
  BY <1>3, <1>4, <1>5 DEF Main

LEMMA LifeStep ==
  ASSUME PipelineInv, LifeInv, [Next]_vars
  PROVE  LifeInv'
<1>1. CASE Reader \/ BufferedMean \/ FrameMean \/ FrameReceived \/ HeaderReceived
  BY <1>1, ThreadMoves, LifeMoves
<1>2. CASE Main
  BY <1>2, LifeMain
<1>3. CASE UNCHANGED vars \/ ReaderCrashes \/ MainCrashes
  BY <1>3 DEF vars, ReaderCrashes, MainCrashes, Crash, LifeInv
<1> QED
  BY <1>1, <1>2, <1>3 DEF Next

-----------------------------------------------------------------------------
(* A program that ends otherwise has not begun to read.                    *)

CrashInv ==
  LET begun == i # 0 \/ pc["r"] \notin {"off", "send_frame"}
  IN  /\ kind = "headless" => frames = 0
      /\ (kind = "tiny" /\ frames > 0) => ~begun
      /\ crashed => kind # "whole" /\ ~begun

LEMMA InitCrash ==
  ASSUME Init PROVE CrashInv
<1>1. i = 0 /\ pc["r"] = "off" /\ ~crashed /\ (kind = "headless" => frames = 0)
  BY DEF Init, Threads
<1> QED
  BY <1>1 DEF CrashInv

LEMMA CrashInvStep ==
  ASSUME PipelineInv, CrashInv, [Next]_vars
  PROVE  CrashInv'
<1>1. /\ pc \in [Threads -> {"off", "send_frame", "frame_sent", "send_header",
                         "header_sent", "fill", "first", "recv", "send",
                         "sent", "done"}]
      /\ i \in 0..frames /\ frames \in Nat /\ main \in Nat
  BY CubviewerAssumption DEF PipelineInv, TypeOK
<1>2. CASE Reader
  <2>1. ~crashed' /\ kind' = kind /\ frames' = frames
    BY <1>2 DEF Reader, SendFrame, FrameSent, SendHeader, HeaderSent, At, Alive, file
  <2>2. ~(kind = "tiny" /\ frames > 0)
    BY <1>1, <1>2 DEF CrashInv, Reader, SendFrame, FrameSent, SendHeader, HeaderSent, At,
                      Throws, HasFrame
  <2> QED
    BY <2>1, <2>2 DEF CrashInv
<1>3. CASE BufferedMean \/ FrameMean \/ FrameReceived \/ HeaderReceived
  <2>1. UNCHANGED <<kind, frames, i, crashed, pc["r"]>>
    BY <1>1, <1>3 DEF BufferedMean, Fill, BufferFrame, Send, Sent, EndMeans, StartSend,
       FrameMean, FirstMean, ForwardMean, FrameReceived, HeaderReceived, Goto, Return,
       file, work, Threads
  <2> QED
    BY <2>1 DEF CrashInv
<1>4. CASE MainStarts
  <2>1. PICK k : k = main + 1
    OBVIOUS
  <2>2. k \in 1..5 /\ main < k
    BY <1>1, <1>4, <2>1, Orders DEF MainStarts, Statement
  <2>3. PICK t \in Threads : t = StartOrder[k]
    BY <2>2, InOrders
  <2>4. pc' = [pc EXCEPT ![t] = Entry[t]] /\ UNCHANGED <<kind, frames, i, crashed>>
    BY <1>4, <2>1, <2>3 DEF MainStarts, file, work
  <2>5. pc[t] = "off" /\ Entry["r"] = "send_frame"
    BY <2>2, <2>3 DEF PipelineInv, ControlInv, Entry
  <2>6. pc'["r"] = pc["r"] \/ (pc["r"] = "off" /\ pc'["r"] = "send_frame")
    BY <1>1, <2>4, <2>5 DEF Threads
  <2> QED
    BY <2>4, <2>6 DEF CrashInv
<1>5. CASE MainJoins \/ MainDestroys
  BY <1>5 DEF MainJoins, MainDestroys, file, work, CrashInv
<1>6. CASE ReaderCrashes \/ MainCrashes
  <2>1. UNCHANGED <<kind, frames, i, pc>>
    BY <1>6 DEF ReaderCrashes, MainCrashes, Crash, file, work
  <2>2. CASE ReaderCrashes
    <3>1. kind # "whole" /\ pc["r"] = "send_frame"
      BY <2>2 DEF ReaderCrashes, Throws, At
    <3>2. i = 0
      BY <1>1, <2>2 DEF ReaderCrashes, Throws, HasFrame, CrashInv
    <3> QED
      BY <2>1, <3>1, <3>2 DEF CrashInv
  <2>3. CASE MainCrashes
    <3>1. kind = "headless" /\ main = 0
      BY <2>3 DEF MainCrashes
    <3>2. pc["r"] = "off"
      <4>1. 5 \in 1..5 /\ main < 5
        BY <3>1
      <4> QED
        BY <4>1, Orders DEF PipelineInv, ControlInv
    <3>3. i = 0
      BY <1>1, <3>1 DEF CrashInv
    <3> QED
      BY <2>1, <3>1, <3>2, <3>3 DEF CrashInv
  <2> QED
    BY <1>6, <2>2, <2>3
<1>7. CASE UNCHANGED vars
  BY <1>7 DEF vars, file, work, CrashInv
<1> QED
  BY <1>2, <1>3, <1>4, <1>5, <1>6, <1>7 DEF Next, Main

-----------------------------------------------------------------------------
(* The threads never all wait for one another.                             *)

\* A channel that is full is not empty, and one whose last message was
\* received is.
LEMMA FullOrSpent ==
  ASSUME PipelineInv, NEW c \in Channels
  PROVE  /\ taken[c] \in Nat /\ Len(chan[c]) \in Nat /\ Puts(c) \in 0..Total(c)
         /\ chan[c] = <<>> <=> Len(chan[c]) = 0
         /\ chan[c] = <<>> <=> Puts(c) = taken[c]
         /\ taken[c] = Total(c) => chan[c] = <<>>
         /\ ~SendReturns(c) => chan[c] # <<>>
<1>1. /\ chan[c] \in Seq(Seq(Nat)) /\ taken[c] \in Nat /\ frames \in Nat
      /\ taken[c] + Len(chan[c]) \in 0..Total(c)
  BY DEF PipelineInv, TypeOK, InOrder
<1>2. PICK n \in Nat : n = Len(chan[c])
  BY <1>1
<1>3. chan[c] = <<>> <=> n = 0
  BY <1>1, <1>2
<1>4. Total(c) \in Int
  BY <1>1, NatFacts DEF Total, Channels
<1>5. PICK T \in Int : T = Total(c)
  BY <1>4
<1>6. PICK k \in Nat : k = taken[c]
  BY <1>1
<1>7. k + n \in 0..T /\ Puts(c) = k + n
  BY <1>1, <1>2, <1>5, <1>6 DEF Puts
<1>8. ~SendReturns(c) => n > Cap
  BY <1>2, CubviewerAssumption DEF SendReturns
<1> QED
  BY <1>2, <1>3, <1>5, <1>6, <1>7, <1>8, CubviewerAssumption

\* Where the threads are when none of them can go on.
LEMMA WaitingThreads ==
  ASSUME PipelineInv, LifeInv, ~aborted, ~SomebodyGoes, main \in 5..9,
         firstZero = frames + 1 \/ (frames <= B /\ firstZero > frames)
  PROVE  \A t \in Threads : pc[t] = "done"
<1> DEFINE F == taken["frame"]
           U == taken["buffer"]
           V == taken["mean"]
<1>1. /\ frames \in Nat /\ B \in Nat /\ B >= 1 /\ i \in 0..frames /\ firstZero \in Nat
      /\ F \in Nat /\ U \in Nat /\ V \in Nat
      /\ Total("buffer") = IF frames > B THEN frames - B + 1 ELSE 1
      /\ Total("mean") = IF frames > B THEN frames - B ELSE 0
      /\ Total("frame") = frames + 1
  BY NatFacts DEF PipelineInv, TypeOK, Total, Channels
<1>2. \A t \in Threads : pc[t] \in Labels[t] \ {"off"} /\ ~node[t].stop
  <2> TAKE t \in Threads
  <2>1. PICK k \in 1..5 : t = StartOrder[k]
    BY EveryThread
  <2> QED
    BY <2>1 DEF PipelineInv, ControlInv, LifeInv
<1>3. /\ ~ReaderGoes /\ ~BufferGoes /\ ~MeanGoes /\ ~RecvGoes /\ ~HeaderGoes
  BY DEF SomebodyGoes
<1>4. /\ ReaderInv /\ HeaderInv /\ BufferInv /\ MeanInv /\ RecvInv
  BY DEF PipelineInv
<1>5. \A c \in Channels :
        /\ chan[c] = <<>> <=> Puts(c) = taken[c]
        /\ taken[c] = Total(c) => chan[c] = <<>>
        /\ ~SendReturns(c) => chan[c] # <<>>
  BY FullOrSpent
<1>6. "frame" \in Channels /\ "buffer" \in Channels /\ "mean" \in Channels
  BY DEF Channels
<1>7. /\ "r" \in Threads /\ "bf" \in Threads /\ "mf" \in Threads /\ "fr" \in Threads
      /\ "hr" \in Threads
  BY DEF Threads
\* The reader waits for the frames to be taken, or has sent them all.
<1>8. pc["r"] = "done" \/ chan["frame"] # <<>>
  <2>1. CASE pc["hr"] = "done"
    <3>1. HeadersTaken = firstZero /\ firstZero >= frames + 1
      BY <1>1, <1>4, <2>1 DEF HeaderInv
    <3>2. pc["r"] \in {"header_sent", "done"} /\ header = <<>>
      BY <1>1, <3>1 DEF HeadersTaken
    <3> QED
      BY <1>3, <3>2 DEF ReaderGoes
  <2>2. CASE pc["hr"] # "done"
    <3>1. pc["hr"] = "recv"
      BY <1>2, <1>7, <2>2, ThreadLabels
    <3>2. header = <<>>
      BY <1>3, <3>1 DEF HeaderGoes
    <3>3. pc["r"] \in {"send_frame", "frame_sent", "send_header", "header_sent", "done"}
      BY <1>2, <1>7, ThreadLabels
    <3>4. pc["r"] = "done" \/ ~SendReturns("frame")
      BY <1>3, <3>2, <3>3 DEF ReaderGoes
    <3> QED
      BY <1>5, <1>6, <3>4
  <2> QED
    BY <2>1, <2>2
\* So BufferedMean waits for the means to be taken, or has sent them all.
<1>9. /\ pc["bf"] = "done" => chan["frame"] = <<>> /\ Puts("buffer") = Total("buffer")
      /\ pc["bf"] = "done" \/ chan["buffer"] # <<>>
  <2>1. ASSUME pc["bf"] = "done"
        PROVE  chan["frame"] = <<>> /\ Puts("buffer") = Total("buffer")
    <3>1. F = frames + 1 /\ Puts("buffer") = MeansDue - 0
      BY <1>4, <2>1 DEF BufferInv
    <3>2. MeansDue = Total("buffer") /\ F = Total("frame")
      BY <1>1, <3>1 DEF MeansDue
    <3> QED
      BY <1>1, <1>5, <1>6, <3>1, <3>2
  <2>2. CASE pc["bf"] \in {"fill", "recv"}
    <3>1. chan["frame"] = <<>> /\ F <= frames
      BY <1>1, <1>3, <1>4, <2>2 DEF BufferGoes, BufferInv
    <3>2. pc["r"] = "done" /\ Puts("frame") = F
      BY <1>5, <1>6, <1>8, <3>1
    <3>3. F = i + 1 /\ i = frames
      BY <1>4, <3>2 DEF ReaderInv
    <3> QED
      BY <1>1, <3>1, <3>3
  <2>3. CASE pc["bf"] \in {"send", "sent"}
    BY <1>3, <1>5, <1>6, <2>3 DEF BufferGoes
  <2>4. pc["bf"] \in {"fill", "recv", "send", "sent", "done"}
    BY <1>2, <1>7, ThreadLabels
  <2> QED
    BY <2>1, <2>2, <2>3, <2>4
\* FrameMean likewise.
<1>10. /\ pc["mf"] = "done" =>
            /\ frames > B /\ chan["buffer"] = <<>> /\ Puts("mean") = frames - B
       /\ pc["mf"] = "done" \/ chan["mean"] # <<>>
  <2>1. ASSUME pc["mf"] = "done"
        PROVE  frames > B /\ chan["buffer"] = <<>> /\ Puts("mean") = frames - B
    <3>1. /\ U = Total("buffer") /\ frames > B
          /\ Puts("mean") = (IF U = 0 THEN 0 ELSE U - 1) - 0
      BY <1>4, <2>1 DEF MeanInv
    <3> QED
      BY <1>1, <1>5, <1>6, <3>1
  <2>2. CASE pc["mf"] \in {"first", "recv"}
    <3>1. chan["buffer"] = <<>> /\ (U = 0 \/ U <= frames - B)
      BY <1>3, <1>4, <2>2 DEF MeanGoes, MeanInv
    <3>2. Puts("buffer") = U /\ Puts("buffer") = Total("buffer")
      BY <1>5, <1>6, <1>9, <3>1
    <3> QED
      BY <1>1, <3>1, <3>2
  <2>3. CASE pc["mf"] \in {"send", "sent"}
    BY <1>3, <1>5, <1>6, <2>3 DEF MeanGoes
  <2>4. pc["mf"] \in {"first", "recv", "send", "sent", "done"}
    BY <1>2, <1>7, ThreadLabels
  <2> QED
    BY <2>1, <2>2, <2>3, <2>4
\* FrameRecv takes every mean, so nobody before it waits.
<1>11. pc["fr"] = "recv" => chan["mean"] = <<>>
  BY <1>2, <1>3, <1>7 DEF RecvGoes
<1>12. pc["fr"] = "done" => V = frames - B /\ V >= 1
  BY <1>4 DEF RecvInv
<1>13. pc["fr"] \in {"recv", "done"}
  BY <1>2, <1>7, ThreadLabels
<1>14. chan["mean"] = <<>>
  BY <1>1, <1>5, <1>6, <1>11, <1>12, <1>13
<1>15. pc["mf"] = "done" /\ frames > B /\ V = frames - B
  BY <1>5, <1>6, <1>10, <1>14
<1>16. pc["fr"] = "done"
  <2>1. pc["fr"] # "done" => V = 0 \/ V < frames - B
    BY <1>4 DEF RecvInv
  <2> QED
    BY <1>1, <1>15, <2>1
<1>17. pc["bf"] = "done"
  BY <1>9, <1>10, <1>15
<1>18. pc["r"] = "done"
  BY <1>8, <1>9, <1>17
<1>19. pc["hr"] = "done"
  <2>1. firstZero = frames + 1 /\ i = frames
    BY <1>1, <1>4, <1>15, <1>18 DEF ReaderInv
  <2>2. header = <<>>
    BY <1>4, <1>18 DEF HeaderInv
  <2>3. HeadersTaken = firstZero
    BY <1>18, <2>1, <2>2 DEF HeadersTaken
  <2> QED
    BY <1>1, <1>4, <2>3 DEF HeaderInv, HeadersTaken
<1> QED
  BY <1>15, <1>16, <1>17, <1>18, <1>19 DEF Threads

LEMMA NeverStuck ==
  ASSUME PipelineInv, LifeInv,
         firstZero = frames + 1 \/ (frames <= B /\ firstZero > frames)
  PROVE  main = 15 \/ ~Alive \/ SomebodyGoes
<1> SUFFICES ASSUME Alive, ~SomebodyGoes, main # 15
             PROVE  FALSE
  OBVIOUS
<1>1. main \in 0..15 /\ ~MainGoes
  BY DEF PipelineInv, TypeOK, SomebodyGoes
<1>2. ASSUME NEW k \in 1..5, main = k - 1 PROVE FALSE
  <2>1. node[StartOrder[k]].thread = "none"
    BY <1>2 DEF LifeInv
  <2> QED
    BY <1>1, <1>2, <2>1 DEF MainGoes, CanStart, Joinable
<1>3. ASSUME NEW k \in 1..5, main = k + 4 PROVE FALSE
  <2>1. pc[JoinOrder[k]] = "done"
    BY <1>3, InOrders, WaitingThreads DEF Alive
  <2>2. node[JoinOrder[k]].thread = "exited"
    BY <1>3, <2>1 DEF LifeInv
  <2> QED
    BY <1>1, <1>3, <2>2 DEF MainGoes, JoinReturns
<1>4. ASSUME NEW k \in 1..5, main = k + 9 PROVE FALSE
  <2>1. PICK j \in 1..5 : DestroyOrder[k] = JoinOrder[j]
    BY EveryThread, InOrders
  <2>2. node[DestroyOrder[k]].thread = "none"
    BY <1>4, <2>1 DEF LifeInv
  <2> QED
    BY <1>1, <1>4, <2>2 DEF MainGoes, JoinThrows, Joinable
<1>5. \/ \E k \in 1..5 : main = k - 1
      \/ \E k \in 1..5 : main = k + 4
      \/ \E k \in 1..5 : main = k + 9
  <2>1. PICK m \in 0..14 : m = main
    BY <1>1
  <2>2. m + 1 \in 1..5 \/ m - 4 \in 1..5 \/ m - 9 \in 1..5
    BY <2>1
  <2>3. m = (m + 1) - 1 /\ m = (m - 4) + 4 /\ m = (m - 9) + 9
    BY <2>1
  <2> QED
    BY <2>1, <2>2, <2>3
<1> QED
  BY <1>2, <1>3, <1>4, <1>5

-----------------------------------------------------------------------------
(* Theorems.                                                               *)

\* The variables keep their types.
THEOREM PipelineTypes == Spec => []TypeOK
<1>1. PipelineInv => TypeOK
  BY DEF PipelineInv
<1> QED
  BY <1>1, InitPipeline, PipelineInvStep, PTL DEF Spec

\* Through every channel goes its stream, in order and without a gap.
THEOREM ChannelsInOrder == Spec => []InOrder
<1>1. PipelineInv => InOrder
  BY DEF PipelineInv
<1> QED
  BY <1>1, InitPipeline, PipelineInvStep, PTL DEF Spec

\* BufferedMean holds the newest frames, B of them once it was filled.
THEOREM BufferHolding == Spec => []BufferHolds
<1>1. PipelineInv => BufferHolds
  BY DEF PipelineInv
<1> QED
  BY <1>1, InitPipeline, PipelineInvStep, PTL DEF Spec

\* The assertion fails for short files only, and the program ends in another way
\* for unreadable files only; after the joins all is delivered,
\* and the header stream ended with the frames; and while the headers do not
\* end before the frames, somebody can always go on.
THEOREM MainOutcome == Spec => []Outcome
<1>1. ASSUME PipelineInv, LifeInv, CrashInv PROVE Outcome
  <2>1. aborted => frames <= B
    BY <1>1 DEF PipelineInv, MeanInv
  <2>2. ASSUME main >= 10
        PROVE  /\ firstZero = frames + 1 /\ header = <<>>
               /\ \A c \in Channels : chan[c] = <<>> /\ taken[c] = Total(c)
               /\ got = IF frames > B + 1 THEN Window(frames - B) ELSE Null
    <3>1. /\ frames \in Nat /\ B \in Nat /\ B >= 1
          /\ Total("buffer") = IF frames > B THEN frames - B + 1 ELSE 1
          /\ Total("mean") = IF frames > B THEN frames - B ELSE 0
          /\ Total("frame") = frames + 1
      BY <1>1, NatFacts DEF Total
    <3>2. \A k \in 1..5 : pc[JoinOrder[k]] = "done"
      BY <1>1, <2>2 DEF PipelineInv, ControlInv, TypeOK
    <3>3. /\ pc["r"] = "done" /\ pc["hr"] = "done" /\ pc["mf"] = "done"
          /\ pc["bf"] = "done" /\ pc["fr"] = "done"
      BY <3>2, Orders
    <3>4. firstZero = frames + 1 /\ header = <<>> /\ Puts("frame") = frames + 1
      BY <1>1, <3>1, <3>3 DEF PipelineInv, ReaderInv, HeaderInv, HeadersTaken
    <3>5. taken["frame"] = Total("frame") /\ Puts("buffer") = Total("buffer")
      BY <1>1, <3>1, <3>3 DEF PipelineInv, BufferInv, MeansDue
    <3>6. /\ taken["buffer"] = Total("buffer") /\ frames > B
          /\ Puts("mean") = Total("mean")
      BY <1>1, <3>1, <3>3 DEF PipelineInv, MeanInv
    <3>7. /\ taken["mean"] = Total("mean") /\ taken["mean"] = frames - B
          /\ got = IF frames - B = 1 THEN Null ELSE MeanMsg(frames - B)
      BY <1>1, <3>1, <3>3, <3>6 DEF PipelineInv, RecvInv
    <3>8. \A c \in Channels : Puts(c) = Total(c) /\ taken[c] = Total(c)
      BY <3>1, <3>4, <3>5, <3>6, <3>7 DEF Channels
    <3>9. ASSUME NEW c \in Channels PROVE chan[c] = <<>>
      <4>1. chan[c] \in Seq(Seq(Nat)) /\ Len(chan[c]) \in Nat /\ taken[c] \in Nat
        BY <1>1, ChannelTypes DEF PipelineInv
      <4>2. Len(chan[c]) = 0
        BY <3>8, <4>1 DEF Puts
      <4> QED
        BY <4>1, <4>2
    <3>10. got = IF frames > B + 1 THEN Window(frames - B) ELSE Null
      BY <3>1, <3>6, <3>7 DEF MeanMsg
    <3> QED
      BY <3>4, <3>8, <3>9, <3>10
  <2>3. ASSUME crashed PROVE kind # "whole" /\ taken["frame"] = 0
    <3>1. kind # "whole" /\ i = 0 /\ pc["r"] \in {"off", "send_frame"}
      BY <1>1, <2>3 DEF CrashInv
    <3>2. Puts("frame") = 0
      BY <1>1, <3>1 DEF PipelineInv, ReaderInv
    <3>3. taken["frame"] \in Nat /\ Len(chan["frame"]) \in Nat
      BY <1>1, ChannelTypes DEF PipelineInv, Channels
    <3> QED
      BY <3>1, <3>2, <3>3 DEF Puts
  <2> QED
    BY <1>1, <2>1, <2>2, <2>3, NeverStuck DEF Outcome
<1>2. PipelineInv /\ LifeInv /\ CrashInv => Outcome
  BY <1>1
<1> QED
  BY <1>2, InitPipeline, InitLife, InitCrash, PipelineInvStep, LifeStep, CrashInvStep, PTL
  DEF Spec

\* The number of the mean delivered last.
LastMean == IF got = Null THEN 1 ELSE Head(got)

LEMMA LastMeanIs ==
  ASSUME PipelineInv
  PROVE  LastMean = IF pc["fr"] = "done" THEN taken["mean"] ELSE taken["mean"] + 1
<1> DEFINE V == taken["mean"]
<1>1. V \in Nat /\ frames \in Nat /\ B \in Nat /\ B >= 1
  BY NatFacts
<1>2. ASSUME NEW n \in Nat, n <= frames - B, got = MeanMsg(n) PROVE LastMean = n
  BY <1>1, <1>2, MeanMsgSeq, WindowMsg DEF LastMean
<1>3. CASE pc["fr"] = "done"
  <2>1. V = frames - B /\ V >= 1 /\ got = IF V = 1 THEN Null ELSE MeanMsg(V)
    BY <1>3 DEF PipelineInv, RecvInv
  <2> QED
    BY <1>1, <1>2, <1>3, <2>1 DEF LastMean
<1>4. CASE pc["fr"] # "done"
  <2>1. (V = 0 \/ V < frames - B) /\ got = IF V = 0 THEN Null ELSE MeanMsg(V + 1)
    BY <1>4 DEF PipelineInv, RecvInv
  <2>2. CASE V = 0
    BY <1>4, <2>1, <2>2 DEF LastMean
  <2>3. CASE V # 0
    <3>1. V + 1 \in Nat /\ V + 1 <= frames - B /\ got = MeanMsg(V + 1)
      BY <1>1, <2>1, <2>3
    <3> QED
      BY <1>2, <1>4, <3>1
  <2> QED
    BY <2>2, <2>3
<1> QED
  BY <1>3, <1>4

LEMMA LastMeanThen ==
  PipelineInv' => LastMean' = IF pc'["fr"] = "done" THEN taken'["mean"] ELSE taken'["mean"] + 1
<1> DEFINE Is == LastMean = IF pc["fr"] = "done" THEN taken["mean"] ELSE taken["mean"] + 1
<1>1. PipelineInv => Is
  BY LastMeanIs
<1>2. PipelineInv' => Is'
  BY <1>1, PTL
<1> QED
  BY <1>2

\* The consumer gets the means it is promised: in order, complete, one end
\* and nothing after it.
THEOREM MeansDelivered == Spec => DeliversMeans
<1> DEFINE Mapped == <<LastMean, frames - B, pc["fr"] = "done">>
<1>1. ASSUME PipelineInv, PipelineInv', FrameReceived PROVE Delivered!StreamNext
  <2>1. PICK n : n = taken["mean"]
    OBVIOUS
  <2>2. /\ n \in Nat /\ frames \in Nat /\ B \in Nat /\ n < frames - B
        /\ (Head(chan["mean"]) = Null) <=> (n + 1 = frames - B)
        /\ taken'["mean"] = n + 1 /\ pc["fr"] = "recv" /\ frames' = frames
    BY <1>1, <2>1, FrameTaken
  <2>3. pc'["fr"] = IF n + 1 = frames - B THEN "done" ELSE "recv"
    BY <1>1, <2>2 DEF FrameReceived, Return, Goto, PipelineInv, TypeOK, Threads
  <2>4. LastMean = n + 1
    BY <1>1, <2>1, <2>2, LastMeanIs
  <2>5. LastMean' = IF pc'["fr"] = "done" THEN n + 1 ELSE n + 2
    <3>1. LastMean' = IF pc'["fr"] = "done" THEN taken'["mean"] ELSE taken'["mean"] + 1
      BY <1>1, LastMeanThen
    <3>2. n + 1 + 1 = n + 2
      BY <2>2
    <3> QED
      BY <2>2, <3>1, <3>2
  <2>6. CASE n + 1 = frames - B
    BY <2>2, <2>3, <2>4, <2>5, <2>6
    DEF Delivered!StreamNext, Delivered!End, LastMean
  <2>7. CASE n + 1 # frames - B
    BY <2>2, <2>3, <2>4, <2>5, <2>7
    DEF Delivered!StreamNext, Delivered!Deliver, LastMean
  <2> QED
    BY <2>6, <2>7
<1>2. ASSUME PipelineInv, [Next]_vars, ~FrameReceived PROVE UNCHANGED Delivered!StreamVars
  <2>1. UNCHANGED <<got, frames>>
    BY <1>2 DEF Next, Reader, SendFrame, FrameSent, SendHeader, HeaderSent, BufferedMean,
       Fill, BufferFrame, Send, Sent, FrameMean, FirstMean, ForwardMean, HeaderReceived,
       Main, MainStarts, MainJoins, MainDestroys, ReaderCrashes, MainCrashes, Crash, vars,
       file, work
  <2>2. pc'["fr"] = "done" <=> pc["fr"] = "done"
    <3>1. /\ pc \in [Threads -> {"off", "send_frame", "frame_sent", "send_header",
                            "header_sent", "fill", "first", "recv", "send",
                            "sent", "done"}]
          /\ "fr" \in Threads
      BY <1>2 DEF PipelineInv, TypeOK, Threads
    <3>2. CASE Reader
      BY <3>1, <3>2 DEF Reader, SendFrame, FrameSent, SendHeader, HeaderSent, Goto, Return
    <3>3. CASE BufferedMean
      BY <3>1, <3>3 DEF BufferedMean, Fill, BufferFrame, Send, Sent, EndMeans, StartSend,
                        Goto, Return
    <3>4. CASE FrameMean
      BY <3>1, <3>4 DEF FrameMean, FirstMean, ForwardMean, Send, Sent, StartSend,
                        Goto, Return
    <3>5. CASE HeaderReceived
      BY <3>1, <3>5 DEF HeaderReceived, Goto, Return
    <3>6. CASE MainStarts
      <4>1. PICK k : k = main + 1
        OBVIOUS
      <4>2. k \in 1..5 /\ main < k
        BY <1>2, <3>6, <4>1, Orders DEF MainStarts, Statement, PipelineInv, TypeOK
      <4>3. PICK t \in Threads : t = StartOrder[k]
        BY <4>2, InOrders
      <4>4. pc' = [pc EXCEPT ![t] = Entry[t]]
        BY <3>6, <4>1, <4>3 DEF MainStarts
      <4>5. pc[t] = "off"
        BY <1>2, <4>2, <4>3 DEF PipelineInv, ControlInv
      <4>6. Entry["fr"] = "recv"
        BY DEF Entry
      <4> QED
        BY <3>1, <4>4, <4>5, <4>6
    <3>7. CASE \/ MainJoins \/ MainDestroys \/ ReaderCrashes \/ MainCrashes
               \/ UNCHANGED vars
      BY <3>7 DEF MainJoins, MainDestroys, ReaderCrashes, MainCrashes, Crash, vars
    <3> QED
      BY <1>2, <3>2, <3>3, <3>4, <3>5, <3>6, <3>7 DEF Next, Main
  <2> QED
    BY <2>1, <2>2 DEF Delivered!StreamVars
<1>3. PipelineInv /\ PipelineInv' /\ [Next]_vars
        => [Delivered!StreamNext]_(Delivered!StreamVars)
  BY <1>1, <1>2
<1>4. Init => Delivered!StreamInit
  <2> SUFFICES ASSUME Init PROVE Delivered!StreamInit
    OBVIOUS
  <2>1. frames \in Nat /\ B \in Nat
    BY CubviewerAssumption DEF Init
  <2> QED
    BY <2>1 DEF Init, Delivered!StreamInit, Threads
<1> QED
  BY <1>3, <1>4, InitPipeline, PipelineInvStep, PTL
  DEF Spec, DeliversMeans, Delivered!StreamSpec

=============================================================================
