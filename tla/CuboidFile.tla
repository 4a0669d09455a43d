----------------------------- MODULE CuboidFile -----------------------------
(***************************************************************************)
(* gloc::CuboidFile of include/gloc/cuboid.hpp: an open .cub file, read    *)
(* frame by frame, in order with getNextFrame() or by index with           *)
(* getFrame().  Sizes and positions are bytes and have the values of the   *)
(* code; only the ranges of uint32_t and size_t are scaled down.           *)
(*                                                                         *)
(* A frame is represented by the position its pixels were read from, or by *)
(* Garbage when the read failed and the buffer was never written.          *)
(***************************************************************************)
EXTENDS Integers, IfStream, FrameMat

CONSTANTS
  CubFiles,  \* the files: their size and the header written in them
  Indices,   \* the indices getFrame() is called with
  MaxNext,   \* bound on current_frame_position_
  U32, U64   \* the number of values of uint32_t and of size_t

ASSUME CuboidAssumption ==
  /\ U32 \in Nat /\ U64 \in Nat \ {0}
  /\ \A f \in CubFiles :
       /\ f.size \in NoFile..(U64 \div 2 - 1)
       /\ f.v_width \in Nat /\ f.h_width \in Nat /\ f.length \in 0..(U32 - 1)
  /\ Indices \subseteq 0..(U64 - 1)

VARIABLES
  cub,          \* the members of the object
  cub_file,     \* (history) the file it was opened for
  cub_asked,    \* (history) the index of the last call
  cub_result,   \* what that call returned
  cub_crashed   \* the program was ended by a division by zero

cubHistory == <<cub_file, cub_asked, cub_result>>
cubVars == <<cub, cubHistory, cub_crashed>>

InfoSize        == 8
HeaderSize      == 12
FrameHeaderSize == 16
getCubOffset    == 512

Garbage == -1

HeaderOf(f) ==
  [v_width |-> f.v_width, h_width |-> f.h_width, length |-> f.length]
Headers == {HeaderOf(f) : f \in CubFiles}

Result(kind, at) == [kind |-> kind, pixels |-> at]

\* Division of signed integers rounds towards zero.
Quotient(a, b) == IF a >= 0 THEN a \div b ELSE -((-a) \div b)

-----------------------------------------------------------------------------
(* Opening a file.                                                         *)

\* The stream after the two reads of readHeader().
HeaderRead(f) ==
  AfterRead(AfterRead(Opened(f.size), 0, InfoSize), InfoSize, HeaderSize)

\* What the header may be: the file's, or whatever was in memory.
HeadersSeen(f) == IF HeaderRead(f).fail THEN Headers ELSE {HeaderOf(f)}

\* frame_count_, which is a size_t.
FrameCount(end, first, length) == Quotient(end - first, 2 * length) % U64

Opening(f, h, object) ==
  LET s     == HeaderRead(f)
      first == PositionAt(s, getCubOffset)
  IN  [object EXCEPT
         !.header = h,
         !.stream = s,
         !.first  = first,
         !.pos    = -1,
         !.count  = FrameCount(PositionAt(s, s.size), first, h.length)]

NewObject == [header |-> [v_width |-> 0, h_width |-> 0, length |-> 0],
              stream |-> Opened(NoFile), first |-> 0, pos |-> -1, count |-> 0]

CubInit ==
  /\ cub = NewObject
  /\ cub_file \in CubFiles
  /\ cub_asked = -1
  /\ cub_result = Result("closed", Garbage)
  /\ cub_crashed = FALSE

\* The constructor with a file name, and loadCub().
Load(f) ==
  /\ ~cub_crashed
  /\ \E h \in HeadersSeen(f) :
       IF h.length = 0
         THEN cub_crashed' = TRUE /\ UNCHANGED cub
         ELSE cub' = Opening(f, h, cub) /\ UNCHANGED cub_crashed
  /\ cub_file' = f
  /\ cub_asked' = -1
  /\ cub_result' = Result("none", Garbage)

-----------------------------------------------------------------------------
(* Reading frames.                                                         *)

\* (Mutant: first_frame_ is forgotten.)
pos_header_NoOffset(n) == (((2 * cub.header.length) % U32) * n) % U64

\* Where frame n begins: the product 2 * header_.length has 32 bits, the sum
\* those of size_t.  A position is beyond the end of a file, or, as a negative
\* offset, refused by the seek, when it is U64 \div 2 or more.
pos_header(n) == (cub.first + ((2 * cub.header.length) % U32) * n) % U64

pos_pixel(n) == (pos_header(n) + 2 * cub.header.v_width) % U64

Pixels == cub.header.v_width * cub.header.h_width

\* (Mutant: the index may be the count.)
BeyondEnd_OffByOne(n) == n > cub.count

BeyondEnd(n) == n >= cub.count

\* getFrame(n).  The frame header read first is overwritten by the first
\* pixels, so that it needs no representation of its own.
Frame(n, object) ==
  /\ cub_asked' = n
  /\ IF BeyondEnd(n)
       THEN cub_result' = Result("end", Garbage) /\ cub' = object
       ELSE LET s == AfterRead(cub.stream, pos_header(n), FrameHeaderSize)
            IN  /\ cub' = [object EXCEPT
                             !.stream = AfterRead(s, pos_pixel(n), 2 * Pixels)]
                /\ cub_result' =
                     IF Pixels < FrameHeaderSize THEN Result("short", Garbage)
                     ELSE Result("frame", IF Complete(s, pos_pixel(n), 2 * Pixels)
                                            THEN pos_pixel(n) ELSE Garbage)
  /\ UNCHANGED <<cub_file, cub_crashed>>

Usable == cub_result.kind # "closed" /\ ~cub_crashed

getFrame(n) == Usable /\ Frame(n, cub)

\* The position advances even when there is no frame left.
getNextFrame ==
  /\ Usable
  /\ cub.pos < MaxNext
  /\ Frame(cub.pos + 1, [cub EXCEPT !.pos = @ + 1])

CubNext == \/ \E f \in CubFiles : Load(f)
           \/ \E n \in Indices : getFrame(n)
           \/ getNextFrame

CubSpec == CubInit /\ [][CubNext]_cubVars

-----------------------------------------------------------------------------
(* Properties.                                                             *)

\* The records of a file, by its size, and where the pixels of one are.
Records(f) == (f.size - getCubOffset) \div (2 * f.length)
PixelsOf(f, n) == getCubOffset + 2 * f.length * n + 2 * f.v_width

\* The arithmetic of lines 300-302 is exact for index n.
InRange(f, n) == 2 * f.length < U32 /\ PixelsOf(f, n) < U64

\* A file as the format means it: the header is complete, a record has room
\* for the pixels and a frame header's worth of them, and its length fits.
WellFormed(f) ==
  /\ f.size >= getCubOffset
  /\ f.length >= f.v_width + f.v_width * f.h_width
  /\ f.v_width * f.h_width >= FrameHeaderSize
  /\ 2 * f.length < U32

Asked == Usable /\ cub_asked >= 0

\* Of a well-formed file every call returns the frame asked for, or says that
\* there is none, whatever was called before (lines 292-312).
FramesAsAsked ==
  (Asked /\ WellFormed(cub_file)) =>
    cub_result = IF cub_asked < Records(cub_file)
                   THEN Result("frame", PixelsOf(cub_file, cub_asked))
                   ELSE Result("end", Garbage)

\* Of any file, cut off anywhere and whatever its count says, the pixels a
\* call returns are those of the frame asked for and all of them are in the
\* file, unless the positions of lines 300-302 do not fit into their integers.
\* Only a length of 0, in the file or left in memory where a header could not
\* be read, ends the program (line 189).
OwnPixels ==
  /\ (Asked /\ InRange(cub_file, cub_asked) /\ cub_result.pixels # Garbage) =>
       /\ cub_result.pixels = PixelsOf(cub_file, cub_asked)
       /\ cub_result.pixels + 2 * (cub_file.v_width * cub_file.h_width) <= cub_file.size
  /\ cub_crashed =>
       cub_file.length = 0 \/ cub_file.size < InfoSize + HeaderSize

\* Once a read has failed the object returns no frame until it loads a file
\* again: a read beyond the end spoils the good records too (line 304).
FailureSticks ==
  [][(cub.stream.fail /\ cub_file' = cub_file /\ cub_result'.kind = "frame")
        => cub_result'.pixels = Garbage]_cubVars

\* Whatever the shape of the frame, its pixels fill the matrix and each is
\* the element of the numpy array with its own row and column
\* (matrix.hpp:63, IterativeLevel0.cpp:28-29, gloripex.cpp:85-86).
PixelsKeepPlaces ==
  cub_result.kind = "frame" =>
    LET v == cub.header.v_width
        h == cub.header.h_width
    IN  \A j \in 0..(v - 1), i \in 0..(h - 1) :
          LET p == NumpyPosition(MatOf(v, h), j, i)
          IN  p \in DOMAIN PixelAt(v, h) /\ PixelAt(v, h)[p] = {j * h + i}

=============================================================================
