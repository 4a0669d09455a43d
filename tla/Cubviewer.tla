----------------------------- MODULE Cubviewer -----------------------------
(***************************************************************************)
(* The program apps/gloria/cubviewer.cc: ReadNode reads the frames of a    *)
(* file and sends them, BufferedMean turns them into running means over    *)
(* its buffer of B frames, FrameMean passes all means but the first on,    *)
(* FrameRecv consumes them; HeaderRecv receives the frame headers on a     *)
(* synchronous channel.  main() starts the five threads and joins them.    *)
(*                                                                         *)
(* Each channel has one sender and one receiver, and behaves as GoChannel, *)
(* which Channel implements, says: a send puts its message when at most    *)
(* Cap messages are ahead and returns when at most Cap are left.  A        *)
(* message is the sequence of the frames it was computed from: <<k>> for   *)
(* frame k, B frames for a mean, and the empty sequence for nullptr.       *)
(*                                                                         *)
(* The file may also have frames that getFrame() refuses, or no header     *)
(* that can be read: either ends the program, or may.                      *)
(***************************************************************************)
EXTENDS Integers, Sequences, Runnable

CONSTANTS
  B,         \* the frames BufferedMean holds (40)
  Cap,       \* the buffer of the three frame channels (5)
  MaxFrames  \* bound on the frames of a file

ASSUME CubviewerAssumption ==
  B \in Nat \ {0} /\ Cap \in Nat /\ MaxFrames \in Nat

VARIABLES
  kind,       \* "whole", "tiny" (frames of less than 16 pixels), or "headless"
              \* (no file, or none with a header)
  frames,     \* cub.getFrameCount()
  firstZero,  \* the first header with status 0; frames + 2 if there is none
  chan,       \* the contents of the frame channels, oldest message first
  taken,      \* (history) how many messages were received from each of them
  header,     \* the contents of the header channel: statuses
  pc, node,   \* where each thread is, and its Runnable
  i,          \* the loop counter of ReadNode
  buffer_,    \* the buffer of BufferedMean
  out,        \* the message BufferedMean and FrameMean are sending
  got,        \* the message FrameRecv received last
  main,       \* how many statements of main() are done
  aborted,    \* the assertion of FrameMean failed
  crashed     \* a division by zero or an exception nobody catches ended main()

file == <<frames, firstZero, kind>>
link == <<chan, taken>>
work == <<i, buffer_, out, got>>
vars == <<file, link, header, pc, node, work, main, aborted, crashed>>

Threads  == {"r", "bf", "mf", "fr", "hr"}
Channels == {"frame", "buffer", "mean"}
Null     == <<>>

StartOrder   == <<"fr", "bf", "mf", "hr", "r">>
JoinOrder    == <<"r", "hr", "mf", "bf", "fr">>
DestroyOrder == <<"mf", "hr", "fr", "bf", "r">>

\* Where run() begins.
Entry == [r |-> "send_frame", bf |-> "fill", mf |-> "first", fr |-> "recv",
          hr |-> "recv"]

Init ==
  /\ kind \in {"whole", "tiny", "headless"}
  /\ frames \in 0..MaxFrames
  /\ kind = "headless" => frames = 0
  /\ firstZero \in 1..(frames + 2)
  /\ chan = [c \in Channels |-> <<>>]
  /\ taken = [c \in Channels |-> 0]
  /\ header = <<>>
  /\ pc = [t \in Threads |-> "off"]
  /\ node = [t \in Threads |-> NewRunnable]
  /\ i = 0
  /\ buffer_ = <<>>
  /\ out = [t \in {"bf", "mf"} |-> Null]
  /\ got = Null
  /\ main = 0
  /\ aborted = FALSE
  /\ crashed = FALSE

-----------------------------------------------------------------------------
(* Steps of a thread.                                                      *)

Alive == ~aborted /\ ~crashed

At(t, label) == pc[t] = label /\ Alive

Goto(t, label) == pc' = [pc EXCEPT ![t] = label] /\ UNCHANGED node

\* run() returns.
Return(t) == /\ pc' = [pc EXCEPT ![t] = "done"]
             /\ node' = [node EXCEPT ![t] = Exited(@)]

\* (Mutant: the channel is a stack.)
Put_Front(c, msg) ==
  /\ Len(chan[c]) <= Cap
  /\ chan' = [chan EXCEPT ![c] = <<msg>> \o @]
  /\ UNCHANGED taken

Put(c, msg) ==
  /\ Len(chan[c]) <= Cap
  /\ chan' = [chan EXCEPT ![c] = Append(@, msg)]
  /\ UNCHANGED taken

SendReturns(c) == Len(chan[c]) <= Cap

Take(c) ==
  /\ chan[c] # <<>>
  /\ chan' = [chan EXCEPT ![c] = Tail(@)]
  /\ taken' = [taken EXCEPT ![c] = @ + 1]

-----------------------------------------------------------------------------
(* ReadNode: a frame, then its header; at the end nullptr, then a header   *)
(* that was never assigned.                                                *)

\* (Mutant: the loop runs once too often.)
HasFrame_OneMore == i <= frames

\* The loop of run() goes on.
HasFrame == i < frames

Crash == /\ crashed' = TRUE
         /\ UNCHANGED <<file, link, header, pc, node, work, main, aborted>>

\* getFrame() throws FrameToShortException.
Throws == kind = "tiny" /\ HasFrame

\* The count of the frames is a division by the length in the header, which may
\* be 0 when it is what was left in memory.
ReaderCrashes ==
  /\ At("r", "send_frame")
  /\ Throws \/ (kind = "headless" /\ i = 0)
  /\ Crash

SendFrame ==
  /\ At("r", "send_frame")
  /\ ~Throws
  /\ Put("frame", IF HasFrame THEN <<i + 1>> ELSE Null)
  /\ Goto("r", "frame_sent")
  /\ UNCHANGED <<file, header, work, main, aborted, crashed>>

FrameSent ==
  /\ At("r", "frame_sent")
  /\ SendReturns("frame")
  /\ Goto("r", "send_header")
  /\ UNCHANGED <<file, link, header, work, main, aborted, crashed>>

SendHeader ==
  /\ At("r", "send_header")
  /\ header = <<>>
  /\ header' = <<IF i + 1 = firstZero THEN 0 ELSE 1>>
  /\ Goto("r", "header_sent")
  /\ UNCHANGED <<file, link, work, main, aborted, crashed>>

HeaderSent ==
  /\ At("r", "header_sent")
  /\ header = <<>>
  /\ IF HasFrame
       THEN i' = i + 1 /\ Goto("r", "send_frame")
       ELSE UNCHANGED i /\ Return("r")
  /\ UNCHANGED <<file, link, header, buffer_, out, got, main, aborted, crashed>>

-----------------------------------------------------------------------------
(* BufferedMean and FrameMean.                                             *)

StartSend(t, msg) ==
  /\ out' = [out EXCEPT ![t] = msg]
  /\ Goto(t, "send")

Send(t, c) ==
  /\ At(t, "send")
  /\ Put(c, out[t])
  /\ Goto(t, "sent")
  /\ UNCHANGED <<file, header, work, main, aborted, crashed>>

\* After nullptr the thread ends.
Sent(t, c) ==
  /\ At(t, "sent")
  /\ SendReturns(c)
  /\ IF out[t] = Null THEN Return(t) ELSE Goto(t, "recv")
  /\ UNCHANGED <<file, link, header, work, main, aborted, crashed>>

\* The end marker is passed on.
EndMeans == StartSend("bf", Null)

\* (Mutant: the buffer is one frame longer.)
Filled_OneMore(b) == Len(b) = B + 1

Filled(b) == Len(b) = B

\* (Mutant: the mean is taken after the new frame entered the buffer.)
ComputeMean_Updated == Tail(buffer_) \o Head(chan["frame"])

\* compute_the_mean()
ComputeMean == buffer_

\* fill_the_buffer()
Fill ==
  /\ At("bf", "fill")
  /\ Take("frame")
  /\ LET frame == Head(chan["frame"])
     IN  IF frame = Null
           THEN EndMeans /\ UNCHANGED buffer_
           ELSE /\ buffer_' = buffer_ \o frame
                /\ Goto("bf", IF Filled(buffer_') THEN "recv" ELSE "fill")
                /\ UNCHANGED out
  /\ UNCHANGED <<file, header, i, got, main, aborted, crashed>>

\* The mean is that of the buffer before the new frame enters it.
BufferFrame ==
  /\ At("bf", "recv")
  /\ Take("frame")
  /\ LET frame == Head(chan["frame"])
     IN  IF frame = Null
           THEN EndMeans /\ UNCHANGED buffer_
           ELSE StartSend("bf", ComputeMean) /\ buffer_' = Tail(buffer_) \o frame
  /\ UNCHANGED <<file, header, i, got, main, aborted, crashed>>

\* FrameMean asserts that there is a first mean, and keeps it.
FirstMean ==
  /\ At("mf", "first")
  /\ Take("buffer")
  /\ aborted' = (Head(chan["buffer"]) = Null)
  /\ Goto("mf", "recv")
  /\ UNCHANGED <<file, header, work, main, crashed>>

ForwardMean ==
  /\ At("mf", "recv")
  /\ Take("buffer")
  /\ StartSend("mf", Head(chan["buffer"]))
  /\ UNCHANGED <<file, header, i, buffer_, got, main, aborted, crashed>>

-----------------------------------------------------------------------------
(* FrameRecv and HeaderRecv.                                               *)

FrameReceived ==
  /\ At("fr", "recv")
  /\ ~node["fr"].stop
  /\ Take("mean")
  /\ IF Head(chan["mean"]) = Null
       THEN Return("fr") /\ UNCHANGED got
       ELSE got' = Head(chan["mean"]) /\ Goto("fr", "recv")
  /\ UNCHANGED <<file, header, i, buffer_, out, main, aborted, crashed>>

\* (Mutant: the test of the status is the wrong way round.)
LastHeader_Inverted(status) == status # 0

LastHeader(status) == status = 0

HeaderReceived ==
  /\ At("hr", "recv")
  /\ header # <<>>
  /\ header' = <<>>
  /\ IF LastHeader(Head(header)) THEN Return("hr") ELSE Goto("hr", "recv")
  /\ UNCHANGED <<file, link, work, main, aborted, crashed>>

-----------------------------------------------------------------------------
(* main()                                                                  *)

Statement(order, k) == k \in 1..Len(order) /\ Alive /\ main' = main + 1

MainStarts ==
  /\ Statement(StartOrder, main + 1)
  /\ LET t == StartOrder[main + 1]
     IN  /\ CanStart(node[t])
         /\ node' = [node EXCEPT ![t] = Started(@)]
         /\ pc' = [pc EXCEPT ![t] = Entry[t]]
  /\ UNCHANGED <<file, link, header, work, aborted, crashed>>

MainJoins ==
  /\ Statement(JoinOrder, main - 4)
  /\ LET t == JoinOrder[main - 4]
     IN  /\ JoinReturns(node[t])
         /\ node' = [node EXCEPT ![t] = Joined(@)]
  /\ UNCHANGED <<file, link, header, pc, work, aborted, crashed>>

\* The destructor of a Runnable stops it; there is nothing to join any more,
\* and the exception of join() is swallowed.
MainDestroys ==
  /\ Statement(DestroyOrder, main - 9)
  /\ LET t == DestroyOrder[main - 9]
     IN  /\ JoinThrows(node[t])
         /\ node' = [node EXCEPT ![t] = StopSet(@)]
  /\ UNCHANGED <<file, link, header, pc, work, aborted, crashed>>

\* main() opens the file, too.
MainCrashes ==
  /\ Alive
  /\ main = 0
  /\ kind = "headless"
  /\ Crash

Reader       == SendFrame \/ FrameSent \/ SendHeader \/ HeaderSent
BufferedMean == Fill \/ BufferFrame \/ Send("bf", "buffer") \/ Sent("bf", "buffer")
FrameMean    == FirstMean \/ ForwardMean \/ Send("mf", "mean") \/ Sent("mf", "mean")
Main         == MainStarts \/ MainJoins \/ MainDestroys

Next == \/ Reader \/ BufferedMean \/ FrameMean
        \/ FrameReceived \/ HeaderReceived \/ Main
        \/ ReaderCrashes \/ MainCrashes

Spec == Init /\ [][Next]_vars

\* Every thread that can go on does.
FairSpec ==
  /\ Spec
  /\ WF_vars(Reader \/ ReaderCrashes) /\ WF_vars(BufferedMean) /\ WF_vars(FrameMean)
  /\ WF_vars(FrameReceived) /\ WF_vars(HeaderReceived) /\ WF_vars(Main \/ MainCrashes)

-----------------------------------------------------------------------------
(* Properties.                                                             *)

\* What travels through each channel: the frames, the means, and all means
\* but the first, each stream ended by nullptr.
Window(n)  == [k \in 1..B |-> n + k - 1]
MeanMsg(n) == IF n <= frames - B THEN Window(n) ELSE Null

Stream(c, n) ==
  CASE c = "frame"  -> IF n <= frames THEN <<n>> ELSE Null
    [] c = "buffer" -> MeanMsg(n)
    [] c = "mean"   -> MeanMsg(n + 1)

\* How many messages a channel carries in all.
Total(c) ==
  CASE c = "frame"  -> frames + 1
    [] c = "buffer" -> IF frames > B THEN frames - B + 1 ELSE 1
    [] c = "mean"   -> IF frames > B THEN frames - B ELSE 0

\* The values every variable takes.
TypeOK ==
  /\ kind \in {"whole", "tiny", "headless"}
  /\ frames \in 0..MaxFrames
  /\ firstZero \in 1..(frames + 2)
  /\ chan \in [Channels -> Seq(Seq(Nat))]
  /\ taken \in [Channels -> Nat]
  /\ header \in {<<>>, <<0>>, <<1>>}
  /\ pc \in [Threads -> {"off", "send_frame", "frame_sent", "send_header",
                         "header_sent", "fill", "first", "recv", "send",
                         "sent", "done"}]
  /\ node \in [Threads -> Runnables]
  /\ i \in 0..frames
  /\ buffer_ \in Seq(Nat)
  /\ out \in [{"bf", "mf"} -> Seq(Nat)]
  /\ got \in Seq(Nat)
  /\ main \in 0..15
  /\ aborted \in BOOLEAN
  /\ crashed \in BOOLEAN

\* Each channel holds the next messages of its stream, in order and without
\* a gap, and never more than its stream has: across the five threads no
\* frame is lost, doubled or overtaken, and nothing follows an end marker
\* (lines 92, 96, 145, 151, 194, 210, 217).
InOrder ==
  \A c \in Channels :
    /\ taken[c] + Len(chan[c]) \in 0..Total(c)
    /\ \A k \in 1..Len(chan[c]) : chan[c][k] = Stream(c, taken[c] + k)

\* BufferedMean holds the newest frames it has received, B of them once it
\* was filled, so that compute_the_mean() (line 171) never meets a place of
\* buffer_ without a frame.
BufferHolds ==
  LET received == IF taken["frame"] <= frames THEN taken["frame"] ELSE frames
  IN  /\ Len(buffer_) = IF received < B THEN received ELSE B
      /\ \A k \in 1..Len(buffer_) : buffer_[k] = received - Len(buffer_) + k

\* Whether a thread, or main(), can go on: the guards of their actions.
ReaderGoes ==
  IF pc["r"] \in {"send_frame", "frame_sent"} THEN SendReturns("frame")
  ELSE pc["r"] \in {"send_header", "header_sent"} /\ header = <<>>

BufferGoes == \/ pc["bf"] \in {"fill", "recv"} /\ chan["frame"] # <<>>
              \/ pc["bf"] \in {"send", "sent"} /\ SendReturns("buffer")

MeanGoes == \/ pc["mf"] \in {"first", "recv"} /\ chan["buffer"] # <<>>
            \/ pc["mf"] \in {"send", "sent"} /\ SendReturns("mean")

RecvGoes   == pc["fr"] = "recv" /\ ~node["fr"].stop /\ chan["mean"] # <<>>
HeaderGoes == pc["hr"] = "recv" /\ header # <<>>

MainGoes ==
  \E k \in 1..5 : \/ main = k - 1 /\ CanStart(node[StartOrder[k]])
                  \/ main = k + 4 /\ JoinReturns(node[JoinOrder[k]])
                  \/ main = k + 9 /\ JoinThrows(node[DestroyOrder[k]])

SomebodyGoes ==
  ReaderGoes \/ BufferGoes \/ MeanGoes \/ RecvGoes \/ HeaderGoes \/ MainGoes

\* The assertion of FrameMean (line 138) fails only for a file with no more
\* frames than BufferedMean holds back, and only a file without a header, or
\* with frames that are too short, ends the program in another way, before any
\* frame was received (lines 83, 88, 262).  When main() has joined the threads
\* (line 287), every message was received, the consumer has the last mean, and
\* the header that was never assigned (line 97) was the first with status 0:
\* with any other headers main() waits forever.  Before that, if the headers
\* end where the frames do, or the assertion is due and they do not end before,
\* the threads never all wait for one another (lines 92-98, 114, 145, 194-217,
\* 237, 282-287).
Outcome ==
  /\ aborted => frames <= B
  /\ crashed => kind # "whole" /\ taken["frame"] = 0
  /\ main >= 10 =>
       /\ firstZero = frames + 1
       /\ header = <<>>
       /\ \A c \in Channels : chan[c] = <<>> /\ taken[c] = Total(c)
       /\ got = IF frames > B + 1 THEN Window(frames - B) ELSE Null
  /\ (firstZero = frames + 1 \/ (frames <= B /\ firstZero > frames)) =>
       main = 15 \/ ~Alive \/ SomebodyGoes

\* FrameRecv (line 114) receives the means of the frames from the second on,
\* one by one in order, up to the one before last: a FrameStream.
Delivered == INSTANCE FrameStream
  WITH First <- 2,
       last  <- IF got = Null THEN 1 ELSE Head(got),
       total <- frames - B,
       ended <- pc["fr"] = "done"

DeliversMeans == Delivered!StreamSpec

\* Of a file that can be read, with more frames than the buffer, and headers
\* that end where the frames do, five threads and four channels never block
\* each other for good: main() returns (line 290).
MainReturns ==
  (kind = "whole" /\ frames > B /\ firstZero = frames + 1) ~> (main = 15)

-----------------------------------------------------------------------------
(* What an assertion says and the code does not do: this is violated in    *)
(* one run.                                                                *)

\* "assert(frame != nullptr)" (line 138): FrameMean receives a first mean.
FirstMeanExists == ~aborted

=============================================================================
