---------------------------- MODULE StreamReader ----------------------------
(***************************************************************************)
(* gloc::StreamReader of src/IterativeLevel0.cpp and .hpp: an object owns  *)
(* a channel of frames and a ReadNode, whose thread reads a file, sends    *)
(* its frames and then nullptr, and never looks at its stop flag.  The     *)
(* thread that uses the object calls get_next() and destroys it.  A copy   *)
(* has a channel and a reader of its own and starts at the first frame.    *)
(*                                                                         *)
(* A channel behaves as GoChannel, which Channel implements, says for one  *)
(* sender and one receiver.  Frame k is the number k, nullptr the number   *)
(* 0.  An exception that leaves run() ends the program.                    *)
(***************************************************************************)
EXTENDS Integers, Sequences, Runnable

CONSTANTS
  Objects,   \* the StreamReader objects, original and copies
  Cap,       \* the buffer of frame_channel_ (5)
  MaxFrames  \* bound on the frames of the file

ASSUME StreamReaderAssumption == Cap \in Nat /\ MaxFrames \in Nat

VARIABLES
  file,      \* the file: its frames, and whether they can be read
  owner,     \* what the thread that uses each object is doing with it
  pc, node,  \* where its reader is, and the Runnable
  i,         \* the loop counter of the reader
  chan,      \* the contents of its frame channel, oldest first
  last,      \* (history) the frame get_next() returned last
  ended,     \* (history) get_next() has returned nullptr
  crashed    \* the program was terminated

reader == <<pc, node, i>>
caller == <<owner, last, ended>>
vars   == <<file, reader, chan, caller, crashed>>

\* "tiny" frames have fewer pixels than setFrameHeader() asks for; a file
\* that cannot be opened has no frames.
Files == {f \in [frames : 0..MaxFrames, kind : {"good", "tiny", "missing"}] :
            f.kind = "missing" => f.frames = 0}

Init ==
  /\ file \in Files
  /\ owner = [o \in Objects |-> "none"]
  /\ pc = [o \in Objects |-> "off"]
  /\ node = [o \in Objects |-> NewRunnable]
  /\ i = [o \in Objects |-> 0]
  /\ chan = [o \in Objects |-> <<>>]
  /\ last = [o \in Objects |-> 0]
  /\ ended = [o \in Objects |-> FALSE]
  /\ crashed = FALSE

OwnerAt(o, label) == owner[o] = label /\ ~crashed
ReaderAt(o, label) == pc[o] = label /\ ~crashed

OwnerGoto(o, label) == owner' = [owner EXCEPT ![o] = label]
ReaderGoto(o, label) == pc' = [pc EXCEPT ![o] = label] /\ UNCHANGED node

-----------------------------------------------------------------------------
(* The reader.                                                             *)

\* CuboidFile cub(file_name_): without a file the header is not read, and its
\* length, by which the constructor divides, may be 0.
Open(o) ==
  /\ ReaderAt(o, "open")
  /\ ReaderGoto(o, "read")
  /\ crashed' \in IF file.kind = "missing" THEN BOOLEAN ELSE {FALSE}
  /\ UNCHANGED <<file, i, chan, caller>>

\* (Mutant: the loop runs once too often.)
HasFrame_OneMore(o) == i[o] <= file.frames

HasFrame(o) == i[o] < file.frames

\* (Mutant: the channel does not hold the reader back.)
Room_Always(o) == TRUE

\* (Mutant: a full buffer is not full yet.)
Room_Strict(o) == Len(chan[o]) < Cap

\* A send puts its value, and returns, when there is room.
Room(o) == Len(chan[o]) <= Cap

\* (Mutant: the end marker is the frame after the last.)
Send_NoMarker(o) == chan' = [chan EXCEPT ![o] = Append(@, i[o] + 1)]

\* (Mutant: there is no end marker.)
Send_NoEnd(o) ==
  chan' = IF HasFrame(o) THEN [chan EXCEPT ![o] = Append(@, i[o] + 1)] ELSE chan

Send(o) ==
  chan' = [chan EXCEPT ![o] = Append(@, IF HasFrame(o) THEN i[o] + 1 ELSE 0)]

\* setFrameHeader() throws.
TooShort == file.kind = "tiny"

SendFrame(o) ==
  /\ ReaderAt(o, "read")
  /\ IF HasFrame(o) /\ TooShort
       THEN crashed' = TRUE /\ UNCHANGED <<pc, node, chan>>
       ELSE /\ Room(o)
            /\ Send(o)
            /\ ReaderGoto(o, "sent")
            /\ UNCHANGED crashed
  /\ UNCHANGED <<file, i, caller>>

FrameSent(o) ==
  /\ ReaderAt(o, "sent")
  /\ Room(o)
  /\ IF HasFrame(o)
       THEN i' = [i EXCEPT ![o] = @ + 1] /\ ReaderGoto(o, "read")
       ELSE /\ pc' = [pc EXCEPT ![o] = "done"]
            /\ node' = [node EXCEPT ![o] = Exited(@)]
            /\ UNCHANGED i
  /\ UNCHANGED <<file, chan, caller, crashed>>

Reader(o) == Open(o) \/ SendFrame(o) \/ FrameSent(o)

-----------------------------------------------------------------------------
(* The thread that uses the object.                                        *)

\* Both constructors start the reader of the new object.
StartReader(o) ==
  /\ CanStart(node[o])
  /\ node' = [node EXCEPT ![o] = Started(@)]
  /\ pc' = [pc EXCEPT ![o] = "open"]
  /\ OwnerGoto(o, "idle")
  /\ UNCHANGED <<file, i, chan, last, ended, crashed>>

Construct(o) == OwnerAt(o, "none") /\ StartReader(o)

Copy(o, other) ==
  /\ OwnerAt(o, "none")
  /\ owner[other] \in {"idle", "getting"}
  /\ StartReader(o)

CallGetNext(o) ==
  /\ OwnerAt(o, "idle")
  /\ OwnerGoto(o, "getting")
  /\ UNCHANGED <<file, reader, chan, last, ended, crashed>>

\* get_next() returns the oldest frame of the channel, or nullptr.
GetNextReturns(o) ==
  /\ OwnerAt(o, "getting")
  /\ chan[o] # <<>>
  /\ chan' = [chan EXCEPT ![o] = Tail(@)]
  /\ IF Head(chan[o]) = 0
       THEN ended' = [ended EXCEPT ![o] = TRUE] /\ UNCHANGED last
       ELSE last' = [last EXCEPT ![o] = Head(chan[o])] /\ UNCHANGED ended
  /\ OwnerGoto(o, "idle")
  /\ UNCHANGED <<file, reader, crashed>>

\* (Mutant: ~StreamReader() leaves the reader to ~Runnable().)
CallDestructor_NoStop(o) ==
  /\ OwnerAt(o, "idle")
  /\ OwnerGoto(o, "members")
  /\ UNCHANGED <<file, reader, chan, last, ended, crashed>>

\* ~StreamReader() calls reader_.stop(): the flag is set, ...
CallDestructor(o) ==
  /\ OwnerAt(o, "idle")
  /\ node' = [node EXCEPT ![o] = StopSet(@)]
  /\ OwnerGoto(o, "stopping")
  /\ UNCHANGED <<file, pc, i, chan, last, ended, crashed>>

\* ... and the thread is joined.
StopReturns(o) ==
  /\ OwnerAt(o, "stopping")
  /\ JoinReturns(node[o])
  /\ node' = [node EXCEPT ![o] = Joined(@)]
  /\ OwnerGoto(o, "members")
  /\ UNCHANGED <<file, pc, i, chan, last, ended, crashed>>

\* The members of reader_ are destroyed, then ~Runnable() stops it again: the
\* exception of join() is swallowed.  The channels go last.
DestroyMembers(o) ==
  /\ OwnerAt(o, "members")
  /\ JoinThrows(node[o])
  /\ node' = [node EXCEPT ![o] = StopSet(@)]
  /\ OwnerGoto(o, "dead")
  /\ UNCHANGED <<file, pc, i, chan, last, ended, crashed>>

Destroy(o) == StopReturns(o) \/ DestroyMembers(o)

Next ==
  \E o \in Objects :
    \/ Reader(o) \/ Destroy(o)
    \/ Construct(o) \/ \E other \in Objects : Copy(o, other)
    \/ CallGetNext(o) \/ GetNextReturns(o) \/ CallDestructor(o)

Spec == Init /\ [][Next]_vars

\* Calls go on once they have begun; nobody has to make one.
FairSpec ==
  /\ Spec
  /\ \A o \in Objects :
       WF_vars(Reader(o)) /\ WF_vars(GetNextReturns(o)) /\ WF_vars(Destroy(o))

-----------------------------------------------------------------------------
(* Properties.                                                             *)

\* How many of the messages of its file a caller has not received yet.
Unread(o) == file.frames + 1 - (last[o] + IF ended[o] THEN 1 ELSE 0)

\* The values every variable takes.
TypeOK ==
  /\ file \in Files
  /\ owner \in [Objects -> {"none", "idle", "getting", "stopping", "members",
                            "dead"}]
  /\ pc \in [Objects -> {"off", "open", "read", "sent", "done"}]
  /\ node \in [Objects -> Runnables]
  /\ i \in [Objects -> 0..file.frames]
  /\ chan \in [Objects -> Seq(0..file.frames)]
  /\ last \in [Objects -> 0..file.frames]
  /\ ended \in [Objects -> BOOLEAN]
  /\ crashed \in BOOLEAN

\* The members of the reader, its handle to the channel among them, are
\* destroyed only when its thread has ended (~StreamReader, line 52, before
\* ~Runnable, parallel.hpp:15).
MembersOutliveThread ==
  \A o \in Objects :
    owner[o] \in {"members", "dead"} => node[o].thread # "running"

\* Whether the reader of a running program can go on: the guards of its actions.
ReaderGoes(o) ==
  \/ pc[o] = "open"
  \/ pc[o] = "read" /\ (Room(o) \/ (HasFrame(o) /\ TooShort))
  \/ pc[o] = "sent" /\ Room(o)

\* The stop flag does not reach the reader, so the destructor (line 52) gets
\* past its join only when what nobody read fits into the channel.  If it does
\* fit, the destructor, and up to the end get_next() (line 55), never wait for
\* a reader that waits for them.
WaitsAreMet ==
  \A o \in Objects :
    /\ owner[o] \in {"members", "dead"} => Unread(o) <= Cap
    /\ (owner[o] = "stopping" /\ Unread(o) <= Cap) =>
         ReaderGoes(o) \/ JoinReturns(node[o])
    /\ owner[o] = "members" => JoinThrows(node[o])
    /\ (owner[o] = "getting" /\ ~ended[o]) => ReaderGoes(o) \/ chan[o] # <<>>

\* Every object is a stream of the frames of the file, whatever copies of it
\* do: in order, complete, the end once and nothing after it (get_next(),
\* lines 54-57).
Frames(o) == INSTANCE FrameStream
  WITH First <- 1, last <- last[o], total <- file.frames, ended <- ended[o]

FrameStep(o) == Frames(o)!StreamNext \/ UNCHANGED Frames(o)!StreamVars

DeliversFrames ==
  /\ \A o \in Objects : Frames(o)!StreamInit
  /\ [][\A o \in Objects : FrameStep(o)]_vars

\* A file that cannot be read has ended the program.
Refused == crashed /\ file.kind # "good"

\* get_next() returns, up to the end of the stream; only a call after the end
\* waits forever.
GetNextProgress ==
  \A o \in Objects :
    (owner[o] = "getting" /\ ~ended[o]) ~> (owner[o] = "idle" \/ Refused)

\* The destructor returns if what nobody read fits into the channel.
DestructorReturns ==
  \A o \in Objects :
    (owner[o] = "stopping" /\ Unread(o) <= Cap)
      ~> (owner[o] = "dead" \/ Refused)

=============================================================================
