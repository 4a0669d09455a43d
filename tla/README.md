# A TLA+ model of gloc

gloc reads measurements of the GLORIA instrument (cuboid files of detector
frames, laser files) and processes them in threads that are connected by
Go-style channels. This directory models the channels and everything that is
built on them (`select`, the threads of the stream reader and of the viewer) and
the two file readers, checks the models with TLC on small instances and proves
their safety properties with TLAPS for every instance (four of the channel's only
for values that do not throw, see below).

Paths below are relative to the repository; `channel.hpp` stands for
`include/gloc/channel.hpp`.

## The system

| Component | State it keeps | Operations | Talks to |
|---|---|---|---|
| channel core, `internal::_channel<T, N>` (`channel.hpp:61-200, 582-750`) | a mutex, three condition variables, a deque of (sender, value), five flags | `send`, `recv` (three overloads), `try_send`, `try_recv_ptr` | called by any number of threads |
| `select` (`channel.hpp:381-560`) | a list of cases, a random generator | `send`, `recv`, `try_once`, `wait` | the cores of its cases, with `try_lock()` |
| `channel`, `ichannel`, `ochannel` (`channel.hpp:231-372`) | a `shared_ptr` to a core | forwarding, comparison | the core |
| `Runnable` (`include/gloc/parallel.hpp`) | a thread, a stop flag | `start`, `stop`, `join`, destructor | derived `run()` |
| `ReadNode`, `StreamReader` (`src/IterativeLevel0.*`) | a file name, a channel of 5 frames, a header channel, the reader thread | `run`, `get_next`, constructor, destructor | `CuboidFile`, the channel, the caller's thread |
| pipeline of `apps/gloria/cubviewer.cc` | five threads, three frame channels of 5 and a synchronous header channel, a buffer of 40 frames | `ReadNode`, `BufferedMean`, `FrameMean`, `FrameRecv`, `HeaderRecv` | one another, ended by a null frame and a last header |
| `CuboidFile`, `CuboidFrame` (`include/gloc/cuboid.hpp`) | an open stream, header, frame count, position | `loadCub`, `getFrame`, `getNextFrame`, `getFrameCount` | the file system |
| `LaserxaFile` (`include/gloc/laserxa.hpp`) | an open stream, record count | `get_data`, `operator[]`, `get_time_at`, `get_direction_from_lxa` | the file system |
| `Mat` (`include/gloc/matrix.hpp`) | height, width, data | element access | `ConvertArrayToMat`, Python |
| `Wavelet`, `filtlength`, `filtcoef` (`include/gloc/wavefilt.hpp`) | filter length, four coefficient vectors | constructor, getters | |
| `sinc`, `lanczos_filter`, `Polynome` (`include/gloc/math.hpp`) | parameters | evaluation | |
| Python bindings (`python/gloc`) | none | conversions | `StreamReader`, `Mat` |

`IteratorLevel0`, `resample.hpp`, `Resampler.*`, `main.cc` and `printlst.*`
are stubs or printing helpers; `gloriafile.hpp` is a copy nothing includes;
`logging.hpp` and `thirdparty/` are third-party code.

### What makes each component correct, and what is hard about it

* **Channel core.** Values leave in the order in which they entered, none is
  lost, invented or received twice; a send on a synchronous channel returns
  only after its value was received, on a buffered one only when at most N
  values are left. Hard: threads are notified after the lock was released, one
  `notify_one()` at a time, on one of two condition variables; waits end
  spuriously; one flag per direction serves all threads; values that throw on
  their way into the queue or out of it, after a flag was written or a wakeup
  was spent; a dozen assertions about what can never happen.
* **select.** Exactly one case goes ahead; a case that cannot has no effect;
  `wait()` gets through when its partner is waiting. Hard: it spins on
  `try_lock()`, relies on flags that a blocking receive announces, and may throw
  before a case took effect or after.
* **Runnable, StreamReader.** Every thread started is joined once, a consumer
  sees every frame in order and then the end marker, destruction terminates
  when what is unread fits into the channel.
  Hard: the reader thread never looks at the stop flag and may be waiting for
  room in the channel when the consumer goes away.
* **cubviewer pipeline.** All five threads end; every mean passes, in order.
  Hard: `BufferedMean` holds 40 frames back, so that the end marker can be its
  first message, and one thread feeds a buffered and a synchronous channel in
  turn, the last header of which was never assigned. A file that cannot be read
  ends the program while the others wait.
* **Files.** A call returns the record it was asked for, or says that there is
  none. Hard: signed and unsigned arithmetic of three widths, counts that are far
  too large and positions that wrap, stream state that survives a failed read.
* **Matrices and tables.** Whatever the shape of a frame, each pixel reaches the
  numpy element with its own row and column; two lists of wavelets and lengths
  agree.

PROJECT.json lists the single hazards, each at its line.

## Modules

| Module | What it is |
|---|---|
| `GoChannel` | What a channel promises: calls, and the steps in which they take effect. No locks, flags or condition variables. |
| `Channel` | The core with the cases of a `select`, step by step, and its properties. |
| `MCChannel` | Symmetry for TLC. |
| `Select`, `MCSelect` | `select` over several channels: the two loops over the cases. |
| `Runnable` | The thread and stop flag of a `Runnable`: operators used by the next two. |
| `FrameStream` | What a consumer of frames is promised, whatever is in between. |
| `StreamReader` | `StreamReader` objects and copies, their reader threads, their users. |
| `Cubviewer` | The program `cubviewer`: five threads, four channels, `main()`. |
| `IfStream` | `std::ifstream` as the two file readers use it (external). |
| `FrameMat` | The way of a pixel from a frame through `Mat` to numpy. |
| `CuboidFile`, `LaserxaFile`, `MCFiles` | The two file readers, and a program that uses one object of each. |
| `ChannelProofs` | Types, mutual exclusion and lemmas about labels, notifications and the queue. |
| `ChannelSafetyProofs` | The handshake, the bound of the queue, the assertions. |
| `ChannelWakeupProofs` | No wakeup is lost. |
| `ChannelRefinementProofs` | `Channel` implements `GoChannel`. |
| `StreamReaderProofs` | `StreamReader`: its properties, and that it implements `FrameStream`. |
| `CubviewerProofs` | `Cubviewer`: its safety properties, and that it implements `FrameStream`. |
| `SelectProofs` | `Select`: what a call has done when it ends, and that no case is passed over. |
| `FilesProofs` | `CuboidFile`, `LaserxaFile` and `FrameMat`: what every call returns, for any file. |

`Channel` is the only module with locks and condition variables. It implements
`GoChannel`, and the modules above it use a channel only through what
`GoChannel` promises: a send puts its value when at most N values are ahead and
returns when at most N are left; a receive takes the oldest value. `Select` does
the same for the nonblocking cases, whose failed `try_lock()` it keeps.

### Channel and the code

The variables carry the names of the members. `pc` says where each thread is;
its labels are the points between two steps:

| Label | Place in `channel.hpp` |
|---|---|
| `send_lock`, `send_enter`, `send_begin_wait` | first block of `_send()`: 675, 676-690, asleep in 676 |
| `send_notify`, `ack_lock`, `ack_enter`, `send_end_wait` | 693, 697, 704-706, asleep in 704 |
| `recv_lock`, `recv_enter`, `recv_wait`, `recv_relock`, `recv_recheck`, `recv_post` | `recv()`: 716, 94-98 and 719-720, asleep in 95, woken in 95, its predicate again, 733-735 and `_post_blocking_recv()` |
| `try_send_lock`, `try_send_enter`, `try_send_notify` | 390, 586-617, 618 |
| `try_recv_lock`, `try_recv_enter`, `try_recv_false`, `try_recv_post` | 414 and 432, 625-645, 627-628 and 424, 647-662 |
| `notify_begin`, `notify_end` | 709, 147 and 658; 161 and 661 |

A step is a critical section, the taking of the lock, or one `notify_one()`.
This is fine enough: outside a critical section a call touches only the mutex
and the condition variables. A receive is split in two where the value is
handed over, because that is where it can throw. A failed assertion ends the
program (`failed` names it): the project's build files do not define NDEBUG.

The deque stores the sender and, for the value, the number of the sender's
call. A value that has been moved from is the number 0, which no call has; the
copied thread id survives a move, as it does in the code.

Values may throw in three places. The threads in `SendThrowThreads` send values
that do so on the way into the queue: a `send()` then leaves everything as it was
(`SendThrow`), a `try_send()` has already written `m_is_try_send_done`
(`TrySendThrow`). The threads in `ThrowThreads` receive values that throw where
they are handed over (`RecvThrow`: the assignment of 734, the allocation of 747
and 645) or, after the pop, in the return of `T recv()` (723) or in the
assignment of a select (418): `ValueLost`. The move of the front element into the
local pair is taken not to throw; that is what `RecvFront` does in one step.

`Call` picks any thread
that is idle; the sets `SendThreads` ... `TryRecvThreads` say which calls it
makes, `SelectWaiters` whether its select is `wait()` or `try_once()`.
Notifications choose any waiter; a waiter may also wake by itself. `std::mutex`,
`std::condition_variable` and `assert` are external and modelled from their use.

A select has one case here: the other cases of its list do not touch the core.
`Select` has the list.

### Select and the code

`i` and `j` are the local variables of `try_once()` and `wait()`; an attempt
(`CaseSucceeds`, `CaseThrows`, `CaseFails`) is one step: `try_lock()` and, with
the lock, `try_send()` or `try_recv_ptr()`. The first index is any place of the
list, as `random_gen()` may return anything. At the far end of each channel a
peer makes blocking calls. One that receives has first called and then announced
itself (`PeerWaits`, line 94): a send of the select beyond the buffer counts on
the second only. `PeerLocks` lets a peer hold the lock for a moment without
effect, as a waiting thread that wakes up does. `try_done` is the flag a send of
the select writes (603) and a receive sets back.

An exception leaves an attempt in two ways. `CaseThrows`: where the value is put
into the queue (606) or moved out of it before the pop (645); no value has moved,
but a send in the place beyond the buffer has written the flag. `CaseSucceeds`
with the result "thrown": in the assignment of a received value (418) or in the
callback (392, 419, 436), after the case took effect. `CallOutcome` says no more
than the code does: one value or none. The calls of the peers do not throw; what
those do to a channel is in `Channel`.
A pause between two attempts (`wait(duration)`) is any step of somebody else, so
that both overloads are `CallWait`. Without a case `try_once()` returns false and
`wait()` computes `i % 0`, which ends the program (`at = "dead"`). `Net` is what
the select itself has put on a channel: what is there and the peer did not put
there. `before` keeps it from the beginning of the call, so that `CallOutcome`
compares the channels before and after, whatever the peers do meanwhile.

### StreamReader and the code

`pc` is the place of each reader thread: before `CuboidFile cub` (`open`), in the
loop before a send (`read`) and inside it (`sent`), or returned (`done`).
`owner` is what the thread that uses the object does. Opening a missing file may
end the program, because the constructor of `CuboidFile` divides by a header
that was never read; frames with fewer pixels than a frame header throw in
`setFrameHeader()`, and an exception that leaves `run()` ends the program:
`crashed`. `CallDestructor`, `StopReturns` and `DestroyMembers` are the order of
destruction in C++: `~StreamReader`, then the members of the reader, then
`~Runnable`, which stops the thread a second time and swallows the exception of
`join()`, then the channels. `last` and `ended` are history: what `get_next()`
returned last, and whether it returned `nullptr`.

### Cubviewer and the code

Each thread has a label and the local variables of its `run()`; `main` counts
the statements of `main()`: five `start()`, five `join()`, five destructors. A
message is the sequence of the frames it was computed from, so that a frame is
`<<k>>`, a mean is a sequence of B frames and `nullptr` the empty sequence; a
property of the numbers of the frames is then one of the pixels. The status of a
frame header is whatever the first pixels of the frame are
(`cuboid.hpp:310` overwrites the header just read), and the status of the last
header is whatever was on the stack (line 97): `firstZero` ranges over all
places at which the first status 0 may be, and none. `kind` says what file it is:
"whole"; "tiny", whose frames `getFrame()` refuses with an exception that nobody
catches (line 88); or "headless", not there or too short for a header, so that
`main()` (262) or the reader (83) may divide by what was in memory, or find no
frames. `crashed` is the end of the program in these ways, `aborted` the failed
assertion of line 138. Files that are cut off later, whose count is huge, are
left to `CuboidFile`. `Runnable` is a copy of
`parallel.hpp` in the program's own file.

### Files and the code

A file is its size and its header; a frame is the position its pixels were read
from, a laser record its index, and memory that no read has written is `Garbage`
or `NoRecord`. `IfStream` keeps of a stream whether it is open and whether a read
has failed: after that `seekg`, `tellg` and `read` do nothing until it is opened
again. Sizes and positions have the values of the code (512, 8, 12, 16 bytes);
only the ranges of `uint32_t` and `size_t` are scaled down, so that a product
that wraps, a position that wraps and a negative number stored as `size_t` happen
with small files and indices. `pos_header` and `pos_pixel` wrap twice, as
`cuboid.hpp:300-302` do: the product with 32 bits, the sum with those of
`size_t`.

## Runs

Bounds are the number of threads, the buffer size N and the calls a thread may
begin (`MaxCalls`). N is 0 (synchronous) or 1: the code only compares the
length of the deque with N, so that 1 already has an empty, a partly filled, a
full and an overfull queue. Two or three calls per thread let a thread come
back with the flags its last call, and those of others, left behind. Threads
are model values; runs without liveness use the permutations that keep each
role as symmetry. Every instance ends when all calls are made, and a blocking
call may rightly have no partner left: deadlock is not checked, the properties
say instead who may be asleep.

| Run | Instance | Shows |
|---|---|---|
| `sync_peers` | N = 0, 3 calls; two threads that send and receive, a select that waits to send; fair | types, no failed assertion, one handshake at a time, bound of the queue, implements GoChannel; a sender and a receiver never stay opposite each other, the select gets through while a receiver is announced |
| `select_send` | N = 1, 3 calls; a sender, a select that waits to send, both with values that may throw on the way into the queue, two receivers | no failed assertion, bound of the queue, the receiver a nonblocking send counts on exists, no lost wakeup of a sender or a receiver, implements GoChannel |
| `select_recv` | N = 1, 2 calls; two senders, a receiver, a select that waits to receive and may throw; fair | the lock is released on every path, no lost wakeup of a receiver, no lost acknowledgement; the select reaches a sender, a send whose value was received returns |
| `select_cases` | no case to three cases, two of them on one channel, N = 1, 3 calls, with everything that may throw; fair | a call that returns true moved one value, by the case it tried last, one that threw that value or none, any other none; false only when all failed, every case in its turn, `wait()` gets through |
| `stream_reader` | an object and a copy of it, a buffer of 2, files of up to 4 frames; fair | order and completeness, `get_next()` returns up to the end, the destructor waits for the thread and returns exactly when the unread rest fits, nobody waits for a reader that waits for him otherwise |
| `cubviewer` | B = 3, a buffer of 2, up to 9 frames, any first status 0, files without a header or with tiny frames; fair | the order in all four channels, the content of the buffer of means, that somebody can always go on, how `main()` ends |
| `files` | nine cuboid files, six laser files, any sequence of calls with indices at the ends, behind them and where positions wrap | what each call returns, what a failed read leaves behind |

B = 3 stands for 40 and a buffer of 2 for 5: the code compares the fill of the
buffer with its size and the number of frames with B, and 9 frames are enough
for each of: fewer than B, B, one mean that nobody gets, and more means than all
buffers together hold. `MaxFrames` = 4 in `stream_reader` is two frames more than
the channel holds with one being sent. In `select_cases` `MaxLocks` bounds how
often a peer takes the lock without effect: it stands for the assumption that
`try_lock()` does not fail forever, which no scheduler forbids. The files of
`files` are whole, cut off inside the header, before the first record and inside
a record, missing, and written with records that are too short for the code's
idea of them, with tiny frames, a length of 0, and a length that does not fit.

Five runs check what a comment, an assertion or a test of the code says and find
that the code does something else:

* `claim_offer_progress`: lines 88-89 promise that a waiting receive gives
  `try_send()` a chance. The flag is cleared for all receivers by the first one
  that finishes (123); with two receivers a select that waits to send on a
  synchronous channel can spin forever while one of them waits.
* `claim_own_item`: lines 720, 731, 744 and 642 assert that a thread does not
  find its own element in a full queue. With a buffer it can.
* `claim_exception`: line 733 promises strong exception safety, but line 730
  has already moved the front element out; after a throw the queue holds an
  element without its value.
* `claim_first_mean`: `cubviewer.cc:138` asserts that `FrameMean` receives a first
  mean. `BufferedMean` holds B frames back, so that of a file with at most B
  frames (40) the end marker is all it sends.
* `claim_end_of_records`: `laserxa.hpp:146` says that `get_data()` throws behind
  the end. `LaserxaFile` counts bytes instead of records, because `-` and `/` in
  line 85 group the other way; an index behind the last record is read, in vain,
  and a record that was never written is returned. The instance is the sequence
  of `test/fileio_check.cc:34-39`: `get_direction_from_lxa()` asks for the middle
  of the count, so that it never compares the counters lines 167-172 speak of,
  and leaves the stream failed; record 10, which exists, then cannot be read.

The passing runs describe behaviour that its callers may not expect:

* `~StreamReader` waits forever when more frames are unread than the channel
  holds (`WaitsAreMet`); `get_next()` after the end waits forever.
* `cubviewer` never shows its first and its last mean (`DeliversMeans`), and ends
  normally only if the uninitialised last header is the first with status 0
  (`Outcome`).
* A failed read spoils a `CuboidFile` until it is loaded again
  (`FailureSticks`). A file that is cut off before its first record may report a
  count near 2^64, where `cuboid.hpp:277-279` says "return the number of frames";
  no index is refused then, but what is returned are never the pixels of another
  frame, as long as the position does not wrap (`OwnPixels`). With a count like
  that there are indices whose position does: their pixels are somewhere else in
  the file.
* A select whose value throws in the place beyond the buffer leaves
  `m_is_try_send_done` false with nothing in that place: no send succeeds until a
  receive, and the receiver that was announced waits for a send (`QueueBound`
  and `TrySendThrow`).
* A `send()` that was woken and then throws has spent the notification: another
  sender may sleep although there is room. `NoLostSlot` is proved for values that
  do not throw there.

`Supported` collects the uses of a channel that remain: not inside selects at
both ends, and no thread at both ends unless the channel is synchronous and no
select sends to it. `NoAbort` says that no assertion fails then. (The flag that
line 625 sets stays set when the select gives up; with both ends of a channel
inside selects, one after the other is enough for the assertion of line 589 to
fail.)

### Fairness

`FairSpec` has weak fairness for the steps of a call inside the library (a
running thread goes on) and strong fairness for taking the lock: the comment in
lines 153-160 relies on a woken thread getting the mutex in the end although
others may be quicker, and `try_lock()` of a spinning select needs the same. No
thread has to make a call, and no wait has to end by itself: spurious wakeups
are not fair. Taking the lock is fair only while it is free, so that the failed
`try_lock()` of a select is no obligation. The implementation of a mutex does
not promise strong fairness; the liveness properties say that the protocol of
the channel adds no other way of being stranded.

In `StreamReader`, `Cubviewer` and `Select` weak fairness is enough: each channel
has one sender and one receiver there, whose calls, once they can take effect,
stay able to. It is stated per thread: each thread that can go on does, as the
operating system promises, and a user has to make no call. The liveness
properties carry the conditions under which the code keeps them (a file that can
be read, with more than B frames, headers that end in time, an unread rest that
fits).

## Proofs

The proofs about the channel are about `Spec` with any finite set of threads, any
N and any bound on the calls, from `ChannelAssumption` on the constants; those
about `StreamReader` are for any set of objects, any buffer and any bound on the
length of files, from `StreamReaderAssumption`; and those about `Cubviewer` for
any positive B, any buffer and any bound on the length of files, from
`CubviewerAssumption`. Those about `Select` are for any lists of cases, in which
a channel may occur more than once but in one direction only (the other use is
the unsupported one of line 588), and any buffer (`SelectAssumption`); those about the files for any sequence of calls on files
of any size with any header, and unsigned integers of any width
(`CuboidAssumption`, `LaserxaAssumption`: the size of a cuboid file fits into a
signed, that of a laser file into an unsigned `size_t`, a length into
`uint32_t`).

* `ChannelProofs`. `TypeOK` is not inductive by itself: a pop needs a nonempty
  queue. `MutexInv` adds that a receive that has moved the front out still has
  it (`PostHasFront`), which holds because only the owner of the mutex changes
  the queue (`LockOwnership`). One lemma per kind of step.
* `ChannelSafetyProofs`. `HandInv`, the conjunction of `OneHandshake` and
  `QueueBound`, is inductive over `MutexInv`: a send enqueues only when
  `m_is_send_done` and `m_is_try_send_done` are both set, hence when no thread
  is in the acknowledgement. While `m_is_try_send_done` denies the sends nothing
  is put, so that the buffer stays filled; that the place beyond it is taken as
  well needs that no value throws in `try_send()`. `NoAbort` needs more: that in a supported use the
  two try flags are never both set, and that the front of a full queue is the
  element of the thread that is handing it over or of a select.
* `ChannelWakeupProofs`. `NoLostSlot` and `NoLostAck` are inductive together:
  the acknowledged sender notifies the next one. The first needs that no value
  throws on its way into the queue, and says so in `SlotWakeups`; the second
  does not. `OfferHasReceiver` and
  `NoLostItem` are proved for receives that do not throw, and fail otherwise:
  a woken receiver that throws leaves its element, and the announcement flag,
  behind. `NoLostItem` counts: the elements in the queue never outnumber the
  threads that are going to look, or are about to notify one that will.
* `ChannelRefinementProofs`. The refinement mapping takes the deque for the
  buffer, a send to take effect where it enqueues and a receive where it pops.
  Its invariant: until the pop, a receive holds either nothing or the front
  element, and only a receive in progress has moved the front out. It is proved
  for receives that do not throw; values may throw where they are put, which to
  `GoChannel` is a call that ends without effect.

* `StreamReaderProofs`. None of the properties is inductive alone: they follow
  from one invariant per object, `ObjectInv`. `LifeOf` ties the state of the
  `std::thread` to the place of the reader and to the destructor. `StreamOf`
  counts: what was received and what is in the channel is what was sent, message
  for message, the end marker after all frames, and a reader that is done left
  at most `Cap` behind. A step changes one object only (`OnlyMoves`); one lemma
  per action says what it keeps. `GetNextFront` says what the front of the
  channel is, and is at the same time the step of `FrameStream`. `WaitsAreMet`
  follows from the same counts: what nobody read is in the channel or still to be
  sent (`UnreadSplit`), so a reader without room is one whose rest does not fit.

* `CubviewerProofs`. What is in a channel depends on what was put into it, and
  that on what its sender took from the one before. `PipelineInv` has one
  conjunct per thread that says so: `ReaderInv` (messages put against the loop
  counter), `HeaderInv` (headers received against the first status 0),
  `BufferInv` (means put against `MeansDue`, what the frames taken amount to),
  `MeanInv` (means passed on against means taken) and `RecvInv` (what the
  consumer has). With `ControlInv`, which ties the threads to the statements of
  `main()`, they are inductive together with `InOrder` and `BufferHolds`. A
  channel is reasoned about twice only, in `PutLink` and `TakeLink`; `Untouched`
  says which variables each conjunct depends on. `Outcome` holds because every
  thread that was joined has taken all that it was due, and the step of the
  consumer is the step of `FrameStream`.
  Its last part, that the threads never all wait for one another, also needs
  `LifeInv`: a thread can be started when its turn comes and joined once it has
  ended. `WaitingThreads` goes down the pipeline: a reader that cannot go on has
  filled the frame channel or is done, then `BufferedMean` has filled its channel
  or is done, then `FrameMean`; but `FrameRecv` takes whatever there is, so all
  are done and the next `join()` returns. With that, `MainReturns` lacks only
  that no thread goes on forever.

* `SelectProofs`. `InTurn` says that an attempt at a case lies fewer than `n`
  attempts back; the invariant is how many at most, by the distance of the case
  from the next one (`Behind`): the case just tried moves to the end, all others
  come one closer, and `%` takes the end of the list to its beginning
  (`TryFacts`). For the answer false, `try_once()` has refused every case at a
  distance below `j` from the first (`Offset`). `CallOutcome` needs that a peer
  is inside a call of its own direction only (`PeerInv`), so that no step of a
  peer changes `Net`; an attempt that throws before the case took effect
  (`ThrowStep`) changes no channel, one that succeeds (`SucceedStep`) one.

* `FilesProofs`. `OpenInv` says what the object knows of the file that is open:
  the header and the count are the file's when its twenty bytes are there, and
  the failbit is set otherwise; with a well-formed file no read ever fails. It
  rests on facts about `\div` and `%` (`CountFacts`: the count of a whole file,
  and the huge one of a file that is cut off) and about reads (`ReadStream`).
  `RecordRead` is the argument that a record below the count lies inside the
  file and is where `getFrame()` looks for it, `OwnPosition` the one that of any
  file, and with any count, the arithmetic of `getFrame()` is exact for the
  indices in `InRange`, so that it returns the frame's own pixels or none; `FrameEffect` and `FrameStep` are
  the step, `FailureSticks` follows from the first. For the laser file
  `LxaOpenInv` says that `data_count` is the number of bytes, or larger than the
  file, so that a record that exists is never refused, and `LxaRead` when a read
  succeeds. `PlacesAgree` composes the three
  index computations of `FrameMat`.

Model-checked only: everything under fairness (`OfferProgress`,
`AnnouncedProgress`, `PollProgress`, `HandshakeProgress`, `AckProgress`,
`WaitReturns`, `GetNextProgress`, `DestructorReturns`, `MainReturns`), which TLAPS
does not reach. Of `GetNextProgress`, `DestructorReturns` and `MainReturns` the half that needs no fairness is proved, in `WaitsAreMet`
and `Outcome`: as long as the goal is not reached, some action of the threads it
depends on has a true guard. `ReaderGoes` and `SomebodyGoes` spell these guards
out, because `ENABLED` is out of reach, too. No run of the project compares them
with the actions; TLC confirms `~crashed => (ReaderGoes(o) <=> ENABLED Reader(o))`
and `Alive => (SomebodyGoes <=> ENABLED Next)` as further invariants of the
instances of `stream_reader` and `cubviewer`.

## Not modelled

* `channel`, `ichannel` and `ochannel` forward to the core and keep nothing.
* `filtlength()` and `filtcoef()` are tables of constants; the 45 names and the
  number of coefficients of each were compared by reading and agree. (All
  four getters of `Wavelet` return the low-pass decomposition filter.)
* `sinc`, `apod_sinc`, `lanczos_filter`, `Polynome` and the conversion of laser
  time are stateless floating-point arithmetic, which TLC does not evaluate.
* The registration of types in `python/gloc`, and reference counting there, are
  Boost.Python's; printing, timing and the stubs have no behaviour to check.
* `thirdparty/` and `logging.hpp`, by far most of the lines of the repository,
  are third-party sources.

## Plan

1. *(done)* The channel: `GoChannel`, `Channel`, their runs and proofs.
2. *(done)* The threads built on it: `Runnable`, `FrameStream`, `StreamReader`,
   `Cubviewer`, `Select`.
3. *(done)* The files: `CuboidFile`, `LaserxaFile`, `FrameMat`.
4. *(done)* Proofs about `StreamReader` and `Cubviewer`.
5. *(done)* Proofs about `Select`, and about the record counts and positions of
   the files.
