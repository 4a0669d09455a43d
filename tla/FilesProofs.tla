---------------------------- MODULE FilesProofs ----------------------------
(***************************************************************************)
(* CuboidFile and LaserxaFile, for files of any size and any contents, any *)
(* sequence of calls, and integers of any width: what each call returns,   *)
(* how failures stick, and the way of a pixel through FrameMat.            *)
(***************************************************************************)
EXTENDS CuboidFile, LaserxaFile, TLAPS

-----------------------------------------------------------------------------
(* Numbers and streams.                                                    *)

LEMMA Division ==
  ASSUME NEW a \in Nat, NEW b \in Nat \ {0}
  PROVE  /\ a \div b \in Nat /\ b * (a \div b) <= a /\ a < b * (a \div b) + b
         /\ a \div b = 0 <=> a < b
         /\ a \div b <= a
OBVIOUS

LEMMA Remainder ==
  ASSUME NEW a \in Int, NEW b \in Nat \ {0}
  PROVE  /\ a % b \in Nat /\ a % b < b
         /\ a \in 0..(b - 1) => a % b = a
         /\ -a \in 1..b => a % b = IF a = -b THEN 0 ELSE b + a
OBVIOUS

LEMMA Products ==
  ASSUME NEW a \in Nat, NEW b \in Nat
  PROVE  /\ a * b \in Nat /\ a * b = b * a
         /\ \A c \in Nat : a < c => a * b + b <= c * b
OBVIOUS

Streams == [size : Int, fail : BOOLEAN]

\* A read keeps the size, and the failbit once it is set; it sets the failbit
\* exactly when the bytes are not all there.
LEMMA ReadStream ==
  ASSUME NEW s \in Streams, NEW p \in Int, NEW k \in Int
  PROVE  /\ AfterRead(s, p, k) \in Streams /\ AfterRead(s, p, k).size = s.size
         /\ AfterRead(s, p, k).fail <=> ~Complete(s, p, k)
         /\ s.fail => AfterRead(s, p, k).fail /\ ~Complete(s, p, k)
         /\ Complete(s, p, k) <=> ~s.fail /\ s.size # NoFile /\ p + k <= s.size
<1>1. Complete(s, p, k) \in BOOLEAN
  BY DEF Complete, Streams
<1>2. Complete(s, p, k) = (~s.fail /\ s.size # NoFile /\ p + k <= s.size)
  BY DEF Complete
<1>3. AfterRead(s, p, k) = [size |-> s.size, fail |-> ~Complete(s, p, k)]
  BY DEF AfterRead, Streams
<1>4. (~Complete(s, p, k)) \in BOOLEAN /\ s.size \in Int
  BY <1>1 DEF Streams
<1>5. AfterRead(s, p, k) \in Streams
  BY <1>3, <1>4 DEF Streams
<1>6. AfterRead(s, p, k).size = s.size /\ AfterRead(s, p, k).fail = ~Complete(s, p, k)
  <2>1. PICK b : b = ~Complete(s, p, k)
    OBVIOUS
  <2>2. AfterRead(s, p, k) = [size |-> s.size, fail |-> b]
    BY <1>3, <2>1
  <2> QED
    BY <2>1, <2>2
<1> QED
  BY <1>2, <1>5, <1>6

LEMMA OpenStream ==
  ASSUME NEW size \in Int
  PROVE  /\ Opened(size) \in Streams /\ Opened(size).size = size
         /\ Opened(size).fail <=> size = NoFile
<1>1. (size = NoFile) \in BOOLEAN
  OBVIOUS
<1>2. Opened(size) = [size |-> size, fail |-> size = NoFile]
  BY DEF Opened
<1>3. Opened(size) \in Streams
  BY <1>1, <1>2 DEF Streams
<1>4. Opened(size).size = size /\ Opened(size).fail = (size = NoFile)
  BY Zenon DEF Opened
<1> QED
  BY <1>3, <1>4

-----------------------------------------------------------------------------
(* CuboidFile: types and the state of an open file.                        *)

CubTypeOK ==
  /\ cub \in [header : [v_width : Nat, h_width : Nat, length : Nat], stream : Streams,
              first : Int, pos : Int, count : Nat]
  /\ cub.pos >= -1
  /\ cub_file \in CubFiles
  /\ cub_asked \in Int
  /\ cub_result \in [kind : {"closed", "none", "end", "short", "frame"}, pixels : Int]
  /\ cub_crashed \in BOOLEAN

\* What a program that was not ended knows of the file that is open.
OpenInv ==
  Usable =>
    /\ cub.stream.size = cub_file.size
    /\ cub.header.length >= 1
    /\ IF cub_file.size < InfoSize + HeaderSize
         THEN cub.stream.fail /\ cub.first = -1 /\ cub.count = 0
         ELSE /\ cub.header = HeaderOf(cub_file) /\ cub.first = getCubOffset
              /\ cub.count = FrameCount(cub_file.size, getCubOffset, cub_file.length)
    /\ WellFormed(cub_file) => ~cub.stream.fail

CubInv == CubTypeOK /\ OpenInv /\ FramesAsAsked /\ OwnPixels

LEMMA FileTypes ==
  ASSUME NEW f \in CubFiles
  PROVE  /\ f.size \in Int /\ f.size >= -1 /\ f.size < U64 /\ NoFile = -1
         /\ f.v_width \in Nat /\ f.h_width \in Nat /\ f.length \in Nat
         /\ U32 \in Nat \ {0} /\ U64 \in Nat \ {0} /\ f.length < U32
         /\ HeaderOf(f) \in [v_width : Nat, h_width : Nat, length : Nat]
         /\ HeaderOf(f).length = f.length /\ HeaderOf(f).v_width = f.v_width
         /\ HeaderOf(f).h_width = f.h_width
<1>1. U64 \in Nat \ {0} /\ f.size \in NoFile..(U64 \div 2 - 1)
  BY CuboidAssumption
<1>2. U64 \div 2 \in Nat /\ U64 \div 2 <= U64
  BY <1>1
<1>3. f.size \in Int /\ f.size >= -1 /\ f.size < U64 /\ NoFile = -1
  BY <1>1, <1>2 DEF NoFile
<1> QED
  BY <1>1, <1>3, CuboidAssumption DEF HeaderOf

LEMMA IndexTypes ==
  ASSUME NEW n \in Indices
  PROVE  n \in Nat
BY CuboidAssumption

\* The header is read completely when the file has its twenty bytes.
LEMMA ReadHeader ==
  ASSUME NEW f \in CubFiles
  PROVE  /\ HeaderRead(f) \in Streams /\ HeaderRead(f).size = f.size
         /\ HeaderRead(f).fail <=> f.size < InfoSize + HeaderSize
<1>1. f.size \in Int /\ f.size >= -1 /\ NoFile = -1
  BY FileTypes
<1> DEFINE s == AfterRead(Opened(f.size), 0, InfoSize)
<1>2. /\ Opened(f.size) \in Streams /\ Opened(f.size).size = f.size
      /\ Opened(f.size).fail <=> f.size = NoFile
  BY <1>1, OpenStream
<1>3. s \in Streams /\ s.size = f.size /\ (s.fail <=> f.size < 8)
  BY <1>1, <1>2, ReadStream DEF InfoSize
<1> HIDE DEF s
<1>4. /\ AfterRead(s, InfoSize, HeaderSize) \in Streams
      /\ AfterRead(s, InfoSize, HeaderSize).size = f.size
      /\ AfterRead(s, InfoSize, HeaderSize).fail <=> f.size < 20
  BY <1>1, <1>3, ReadStream DEF InfoSize, HeaderSize
<1> QED
  BY <1>4 DEF s, HeaderRead, InfoSize, HeaderSize

\* frame_count_ for a file that has a header.
LEMMA CountFacts ==
  ASSUME NEW f \in CubFiles, f.length >= 1
  PROVE  /\ FrameCount(f.size, getCubOffset, f.length) \in Nat
         /\ WellFormed(f) =>
              /\ FrameCount(f.size, getCubOffset, f.length) = Records(f)
              /\ Records(f) \in Nat
<1> DEFINE L == 2 * f.length
<1>1. /\ f.size \in Int /\ f.size >= -1 /\ f.size < U64 /\ U64 \in Nat \ {0}
      /\ L \in Nat \ {0}
  BY FileTypes
<1>2. FrameCount(f.size, getCubOffset, f.length) = Quotient(f.size - 512, L) % U64
  BY DEF FrameCount, getCubOffset
<1>3. CASE f.size >= 512
  <2> DEFINE q == (f.size - 512) \div L
  <2>1. q \in Nat /\ q < U64
    <3>1. f.size - 512 \in Nat /\ f.size - 512 < U64
      BY <1>1, <1>3
    <3> QED
      BY <1>1, <3>1, Division
  <2>2. Quotient(f.size - 512, L) = q
    BY <1>1, <1>3 DEF Quotient
  <2>3. q % U64 = q
    BY <1>1, <2>1, Remainder
  <2>4. Records(f) = q
    BY Zenon DEF Records, getCubOffset
  <2>5. ~(f.size < getCubOffset)
    BY <1>1, <1>3 DEF getCubOffset
  <2>6. FrameCount(f.size, getCubOffset, f.length) = q
    BY <1>2, <2>2, <2>3
  <2> HIDE DEF q
  <2> QED
    BY <1>1, <1>3, <2>1, <2>4, <2>6 DEF getCubOffset
<1>4. CASE f.size < 512
  <2> DEFINE k == (512 - f.size) \div L
  <2>1. 512 - f.size \in Nat
    BY <1>1, <1>4
  <2>2. k \in Nat
    <3> HIDE DEF L
    <3> QED
      BY <1>1, <2>1, Division
  <2>3. Quotient(f.size - 512, L) = -k
    <3>1. ~(f.size - 512 >= 0) /\ -(f.size - 512) = 512 - f.size
      BY <1>1, <1>4
    <3> QED
      BY <3>1 DEF Quotient
  <2>4. (-k) % U64 \in Nat
    <3>1. PICK a \in Int : a = -k
      BY <2>2
    <3>2. a % U64 \in Nat
      BY <1>1, Remainder
    <3> QED
      BY <3>1, <3>2
  <2>5. FrameCount(f.size, getCubOffset, f.length) \in Nat
    BY <1>2, <2>3, <2>4
  <2>6. ~WellFormed(f)
    BY <1>1, <1>4 DEF WellFormed, getCubOffset
  <2> QED
    BY <2>5, <2>6
<1> QED
  BY <1>1, <1>3, <1>4

-----------------------------------------------------------------------------
(* CuboidFile: opening a file.                                             *)

LEMMA InitCub ==
  ASSUME CubInit PROVE CubInv
<1>1. Opened(NoFile) \in Streams
  BY OpenStream DEF NoFile
<1>2. ~Usable
  BY DEF CubInit, Usable, Result
<1>3. cub_crashed \in BOOLEAN /\ ~cub_crashed
  BY Zenon DEF CubInit
<1>4. CubTypeOK
  BY <1>1, <1>3 DEF CubInit, CubTypeOK, NewObject, Result, Garbage
<1> QED
  BY <1>2, <1>3, <1>4 DEF CubInv, OpenInv, FramesAsAsked, OwnPixels, Asked

\* The new object, for a header h that is the file's or garbage.
LEMMA OpenedFile ==
  ASSUME CubTypeOK, NEW f \in CubFiles, NEW h \in HeadersSeen(f), h.length # 0
  PROVE  LET new == Opening(f, h, cub)
         IN  /\ new \in [header : [v_width : Nat, h_width : Nat, length : Nat],
                         stream : Streams, first : Int, pos : Int, count : Nat]
             /\ new.pos = -1 /\ new.header = h /\ h.length >= 1
             /\ new.stream.size = f.size
             /\ new.stream.fail <=> f.size < InfoSize + HeaderSize
             /\ IF f.size < InfoSize + HeaderSize
                  THEN new.first = -1 /\ new.count = 0
                  ELSE /\ h = HeaderOf(f) /\ new.first = getCubOffset
                       /\ new.count = FrameCount(f.size, getCubOffset, f.length)
<1> DEFINE s == HeaderRead(f)
           new == Opening(f, h, cub)
           first == PositionAt(s, getCubOffset)
           count == FrameCount(PositionAt(s, s.size), first, h.length)
<1>1. /\ s \in Streams /\ s.size = f.size /\ (s.fail <=> f.size < 20)
      /\ f.size \in Int /\ f.size >= -1 /\ NoFile = -1 /\ U64 \in Nat \ {0}
      /\ InfoSize + HeaderSize = 20
  BY FileTypes, ReadHeader DEF InfoSize, HeaderSize
<1>2. /\ h \in [v_width : Nat, h_width : Nat, length : Nat] /\ h.length >= 1
      /\ f.size >= 20 => h = HeaderOf(f) /\ h.length = f.length
  <2>1. \A g \in CubFiles : HeaderOf(g) \in [v_width : Nat, h_width : Nat, length : Nat]
    BY FileTypes
  <2>2. h \in [v_width : Nat, h_width : Nat, length : Nat]
    BY <2>1 DEF HeadersSeen, Headers
  <2>3. f.size >= 20 => h = HeaderOf(f)
    BY <1>1 DEF HeadersSeen
  <2> QED
    BY <2>2, <2>3, FileTypes
<1>3. new = [header |-> h, stream |-> s, first |-> first, pos |-> -1, count |-> count]
  <2>1. new = [cub EXCEPT !.header = h, !.stream = s, !.first = first, !.pos = -1,
                          !.count = count]
    BY DEF Opening
  <2> HIDE DEF new, s, first, count
  <2> QED
    BY <2>1 DEF CubTypeOK
<1>4. CASE f.size < 20
  <2>1. first = -1 /\ PositionAt(s, s.size) = -1
    BY <1>1, <1>4 DEF PositionAt
  <2>2. count = 0
    <3>1. Quotient(-1 - -1, 2 * h.length) = 0
      BY <1>2 DEF Quotient
    <3>2. 0 % U64 = 0
      BY <1>1
    <3> QED
      BY <2>1, <3>1, <3>2 DEF FrameCount
  <2>3. new = [header |-> h, stream |-> s, first |-> -1, pos |-> -1, count |-> 0]
    BY <1>3, <2>1, <2>2
  <2> HIDE DEF new, s, first, count
  <2> QED
    BY <1>1, <1>2, <1>4, <2>3 DEF new
<1>5. CASE f.size >= 20
  <2>1. first = getCubOffset /\ PositionAt(s, s.size) = f.size
    BY <1>1, <1>5 DEF PositionAt
  <2>2. count = FrameCount(f.size, getCubOffset, f.length)
    BY <1>2, <1>5, <2>1
  <2>3. count \in Nat
    BY <1>2, <1>5, <2>2, CountFacts
  <2>4. getCubOffset \in Int
    BY DEF getCubOffset
  <2>5. new = [header |-> h, stream |-> s, first |-> getCubOffset, pos |-> -1,
               count |-> count]
    BY <1>3, <2>1
  <2> HIDE DEF new, s, first, count
  <2> QED
    BY <1>1, <1>2, <1>5, <2>2, <2>3, <2>4, <2>5 DEF new
<1> QED
  BY <1>1, <1>4, <1>5

\* loadCub(), with a header that may be the file's or what was in memory.
LEMMA LoadStep ==
  ASSUME CubInv, NEW f \in CubFiles, Load(f)
  PROVE  CubInv'
<1>1. PICK h \in HeadersSeen(f) :
        IF h.length = 0 THEN cub_crashed' = TRUE /\ UNCHANGED cub
                        ELSE cub' = Opening(f, h, cub) /\ UNCHANGED cub_crashed
  BY DEF Load
<1>2. /\ ~cub_crashed /\ cub_file' = f /\ cub_asked' = -1
      /\ cub_result' = Result("none", Garbage)
  BY DEF Load
<1>3. /\ cub_file' \in CubFiles /\ cub_asked' \in Int
      /\ cub_result' \in [kind : {"closed", "none", "end", "short", "frame"}, pixels : Int]
  BY <1>2 DEF Result, Garbage
<1>4. ~Asked'
  BY <1>2 DEF Asked
<1>5. CASE h.length = 0
  <2>1. cub_crashed' /\ cub_crashed' \in BOOLEAN /\ cub' = cub
    <3>1. cub_crashed' = TRUE /\ UNCHANGED cub
      BY <1>1, <1>5
    <3> QED
      BY <3>1, Zenon
  <2>2. CubTypeOK' /\ OpenInv'
    BY <1>3, <2>1 DEF CubInv, CubTypeOK, OpenInv, Usable
  <2>3. f.length = 0 \/ f.size < InfoSize + HeaderSize
    <3>1. CASE HeaderRead(f).fail
      BY <3>1, ReadHeader
    <3>2. CASE ~HeaderRead(f).fail
      BY <1>5, <3>2, FileTypes DEF HeadersSeen
    <3> QED
      BY <3>1, <3>2
  <2>4. FramesAsAsked'
    BY <1>4 DEF FramesAsAsked
  <2>5. OwnPixels'
    BY <1>2, <1>4, <2>3 DEF OwnPixels
  <2> QED
    BY <2>2, <2>4, <2>5 DEF CubInv
<1>6. CASE h.length # 0
  <2>1. cub' = Opening(f, h, cub) /\ cub_crashed' = cub_crashed
    BY <1>1, <1>6
  <2>2. CubTypeOK /\ ~cub_crashed'
    BY <1>2, <2>1 DEF CubInv
  <2>3. /\ cub' \in [header : [v_width : Nat, h_width : Nat, length : Nat],
                     stream : Streams, first : Int, pos : Int, count : Nat]
        /\ cub'.pos = -1 /\ cub'.header = h /\ h.length >= 1
        /\ cub'.stream.size = f.size
        /\ cub'.stream.fail <=> f.size < InfoSize + HeaderSize
        /\ IF f.size < InfoSize + HeaderSize
             THEN cub'.first = -1 /\ cub'.count = 0
             ELSE /\ h = HeaderOf(f) /\ cub'.first = getCubOffset
                  /\ cub'.count = FrameCount(f.size, getCubOffset, f.length)
    BY <1>6, <2>1, <2>2, OpenedFile
  <2>4. CubTypeOK'
    BY <1>3, <2>1, <2>2, <2>3 DEF CubTypeOK
  <2>5. WellFormed(f) => ~(f.size < InfoSize + HeaderSize)
    BY FileTypes DEF WellFormed, InfoSize, HeaderSize, getCubOffset
  <2>6. OpenInv'
    BY <1>2, <2>3, <2>5 DEF OpenInv
  <2> QED
    BY <1>4, <2>2, <2>4, <2>6 DEF CubInv, FramesAsAsked, OwnPixels
<1> QED
  BY <1>5, <1>6

-----------------------------------------------------------------------------
(* CuboidFile: reading frames.                                             *)

\* Where a frame is read from is a number of bytes.
LEMMA Positions ==
  ASSUME CubTypeOK, NEW n \in Nat
  PROVE  /\ pos_header(n) \in Nat /\ pos_pixel(n) \in Nat /\ 2 * Pixels \in Int
         /\ Pixels \in Nat /\ Pixels = cub.header.v_width * cub.header.h_width
<1>1. /\ cub.first \in Int /\ cub.header.v_width \in Nat /\ cub.header.h_width \in Nat
      /\ 2 * cub.header.length \in Int /\ U32 \in Nat \ {0} /\ U64 \in Nat \ {0}
  BY FileTypes DEF CubTypeOK
<1>2. (2 * cub.header.length) % U32 \in Nat
  BY <1>1, Remainder
<1>3. ((2 * cub.header.length) % U32) * n \in Nat
  BY <1>2, Products
<1>4. cub.header.v_width * cub.header.h_width \in Nat
  BY <1>1, Products
<1>5. pos_header(n) \in Nat
  <2>1. PICK a : a = cub.first + ((2 * cub.header.length) % U32) * n
    OBVIOUS
  <2>2. a \in Int
    BY <1>1, <1>3, <2>1
  <2>3. pos_header(n) = a % U64
    BY <2>1 DEF pos_header
  <2> QED
    BY <1>1, <2>2, <2>3, Remainder
<1>6. pos_pixel(n) \in Nat
  <2>1. PICK b : b = pos_header(n) + 2 * cub.header.v_width
    OBVIOUS
  <2>2. b \in Int
    BY <1>1, <1>5, <2>1
  <2>3. pos_pixel(n) = b % U64
    BY <2>1 DEF pos_pixel
  <2> QED
    BY <1>1, <2>2, <2>3, Remainder
<1> QED
  BY <1>4, <1>5, <1>6 DEF Pixels

\* The positions of a frame whose arithmetic is exact, in a file that has a
\* header.
LEMMA OwnPosition ==
  ASSUME CubTypeOK, OpenInv, Usable, ~(cub_file.size < InfoSize + HeaderSize),
         NEW n \in Nat, InRange(cub_file, n)
  PROVE  /\ pos_header(n) = 512 + (2 * cub_file.length) * n
         /\ pos_pixel(n) = 512 + (2 * cub_file.length) * n + 2 * cub_file.v_width
         /\ pos_pixel(n) = PixelsOf(cub_file, n)
         /\ Pixels = cub_file.v_width * cub_file.h_width
<1> DEFINE f == cub_file
           L == f.length
<1>1. /\ f \in CubFiles /\ f.v_width \in Nat /\ L \in Nat
      /\ U32 \in Nat \ {0} /\ U64 \in Nat \ {0}
  BY FileTypes DEF CubTypeOK
<1>2. /\ cub.header.length = L /\ cub.header.v_width = f.v_width
      /\ cub.header.h_width = f.h_width /\ cub.first = 512
  BY <1>1, FileTypes DEF OpenInv, getCubOffset
<1>3. (2 * L) % U32 = 2 * L
  <2>1. PICK a : a = 2 * L
    OBVIOUS
  <2>2. a \in 0..(U32 - 1) /\ a \in Int
    BY <1>1, <2>1 DEF InRange
  <2>3. a % U32 = a
    BY <1>1, <2>2, Remainder
  <2> QED
    BY <2>1, <2>3
<1>4. (2 * L) * n \in Nat
  <2>1. 2 * L \in Nat
    BY <1>1
  <2> QED
    BY <2>1, Products
<1>5. PixelsOf(f, n) = 512 + (2 * L) * n + 2 * f.v_width /\ PixelsOf(f, n) < U64
  BY DEF PixelsOf, InRange, getCubOffset
<1>6. pos_header(n) = 512 + (2 * L) * n
  <2>1. PICK a : a = 512 + (2 * L) * n
    OBVIOUS
  <2>2. pos_header(n) = a % U64
    BY <1>2, <1>3, <2>1 DEF pos_header
  <2>3. a \in 0..(U64 - 1) /\ a \in Int
    BY <1>1, <1>4, <1>5, <2>1
  <2>4. a % U64 = a
    BY <1>1, <2>3, Remainder
  <2> QED
    BY <2>1, <2>2, <2>4
<1>7. pos_pixel(n) = 512 + (2 * L) * n + 2 * f.v_width
  <2>1. PICK b : b = 512 + (2 * L) * n + 2 * f.v_width
    OBVIOUS
  <2>2. pos_pixel(n) = b % U64
    BY <1>2, <1>6, <2>1 DEF pos_pixel
  <2>3. b \in 0..(U64 - 1) /\ b \in Int
    BY <1>1, <1>4, <1>5, <2>1
  <2>4. b % U64 = b
    BY <1>1, <2>3, Remainder
  <2> QED
    BY <2>1, <2>2, <2>4
<1> QED
  BY <1>2, <1>5, <1>6, <1>7 DEF Pixels

\* A record of a well-formed file is read completely.
LEMMA RecordRead ==
  ASSUME CubTypeOK, OpenInv, Usable, WellFormed(cub_file), NEW n \in Nat, ~BeyondEnd(n)
  PROVE  LET s == AfterRead(cub.stream, pos_header(n), FrameHeaderSize)
         IN  /\ ~s.fail /\ Complete(s, pos_pixel(n), 2 * Pixels)
             /\ Pixels >= FrameHeaderSize /\ pos_pixel(n) = PixelsOf(cub_file, n)
<1> DEFINE f == cub_file
           L == f.length
           s == AfterRead(cub.stream, pos_header(n), FrameHeaderSize)
<1>1. /\ f \in CubFiles /\ f.size \in Int /\ f.size >= 512 /\ NoFile = -1
      /\ f.v_width \in Nat /\ f.h_width \in Nat /\ L \in Nat /\ 2 * L < U32
      /\ U32 \in Nat \ {0}
      /\ f.v_width * f.h_width \in Nat /\ f.v_width * f.h_width >= 16
      /\ L >= f.v_width + f.v_width * f.h_width
  BY FileTypes, Products DEF CubTypeOK, WellFormed, getCubOffset, FrameHeaderSize
<1>2. L >= 16 /\ 2 * L \in 0..(U32 - 1) /\ 2 * L \in Nat \ {0}
  BY <1>1
<1>3. /\ cub.stream \in Streams /\ cub.stream.size = f.size /\ ~cub.stream.fail
      /\ cub.header = HeaderOf(f) /\ cub.first = 512
      /\ cub.count = FrameCount(f.size, getCubOffset, L)
  BY <1>1 DEF CubTypeOK, OpenInv, getCubOffset, InfoSize, HeaderSize
<1>4. n < Records(f)
  <2>1. cub.count = Records(f) /\ Records(f) \in Nat
    BY <1>1, <1>2, <1>3, CountFacts
  <2>2. ~(n >= cub.count)
    BY DEF BeyondEnd
  <2> HIDE DEF f
  <2> QED
    BY <2>1, <2>2
<1>5. (2 * L) * n + 2 * L <= f.size - 512
  <2>1. PICK q : q = (f.size - 512) \div (2 * L)
    OBVIOUS
  <2>2. q \in Nat /\ (2 * L) * q <= f.size - 512
    <3>1. f.size - 512 \in Nat
      BY <1>1
    <3> HIDE DEF L, f
    <3> QED
      BY <1>2, <2>1, <3>1, Division
  <2>3. n < q
    BY <1>4, <2>1 DEF Records, getCubOffset
  <2>4. n * (2 * L) + 2 * L <= q * (2 * L)
    <3> HIDE DEF L
    <3> QED
      BY <1>2, <2>2, <2>3, Products
  <2>5. n * (2 * L) = (2 * L) * n /\ q * (2 * L) = (2 * L) * q /\ (2 * L) * n \in Nat
    <3> HIDE DEF L
    <3> QED
      BY <1>2, <2>2, Products
  <2> HIDE DEF L, f
  <2> QED
    BY <1>1, <1>2, <2>2, <2>4, <2>5
<1>6. /\ pos_header(n) = 512 + (2 * L) * n
      /\ pos_pixel(n) = 512 + (2 * L) * n + 2 * f.v_width
      /\ Pixels = f.v_width * f.h_width
      /\ pos_header(n) \in Int /\ pos_pixel(n) \in Int /\ 2 * Pixels \in Int
  <2>1. PixelsOf(f, n) = 512 + (2 * L) * n + 2 * f.v_width
    BY DEF PixelsOf, getCubOffset
  <2>2. f.size < U64 /\ U64 \in Nat
    BY <1>1, FileTypes
  <2>3. 512 + (2 * L) * n + 2 * f.v_width < U64
    <3> DEFINE a == (2 * L) * n
               w == f.v_width * f.h_width
    <3>1. /\ a \in Nat /\ w \in Nat /\ a + 2 * L <= f.size - 512 /\ L >= f.v_width + w
          /\ w >= 16
      BY <1>1, <1>2, <1>5, Products
    <3> HIDE DEF L, f, a, w
    <3>2. 512 + a + 2 * f.v_width < U64
      BY <1>1, <2>2, <3>1
    <3> QED
      BY <3>2 DEF a
  <2>4. InRange(f, n)
    BY <1>1, <2>1, <2>3 DEF InRange
  <2>5. ~(f.size < InfoSize + HeaderSize)
    BY <1>1 DEF InfoSize, HeaderSize
  <2>6. pos_header(n) \in Int /\ pos_pixel(n) \in Int /\ 2 * Pixels \in Int
    BY Positions
  <2> QED
    BY <2>4, <2>5, <2>6, OwnPosition
<1>7. (2 * L) * n \in Nat
  BY <1>2, Products
<1>8. Complete(cub.stream, pos_header(n), FrameHeaderSize)
  <2>1. pos_header(n) + 16 <= f.size
    <3> DEFINE a == (2 * L) * n
    <3>1. a \in Nat /\ a + 2 * L <= f.size - 512 /\ pos_header(n) = 512 + a
      BY <1>5, <1>6, <1>7
    <3> HIDE DEF L, f, a
    <3> QED
      BY <1>1, <1>2, <3>1
  <2> QED
    BY <1>1, <1>3, <2>1 DEF Complete, FrameHeaderSize
<1>9. s \in Streams /\ s.size = f.size /\ ~s.fail
  BY <1>3, <1>6, <1>8, ReadStream DEF FrameHeaderSize
<1>10. Complete(s, pos_pixel(n), 2 * Pixels)
  <2>1. pos_pixel(n) + 2 * Pixels <= f.size
    <3>1. \A a, v, w, l, z \in Int :
             a + 2 * l <= z - 512 /\ l >= v + w => 512 + a + 2 * v + 2 * w <= z
      OBVIOUS
    <3> DEFINE w == f.v_width * f.h_width
               a == (2 * L) * n
    <3>2. a \in Int /\ w \in Int /\ f.v_width \in Int /\ L \in Int /\ f.size \in Int
          /\ a + 2 * L <= f.size - 512 /\ L >= f.v_width + w
      BY <1>1, <1>5, <1>7
    <3>3. 512 + a + 2 * f.v_width + 2 * w <= f.size
      <4> HIDE DEF L, f, a, w
      <4> QED
        BY <3>1, <3>2
    <3> HIDE DEF L, f, s
    <3> QED
      BY <1>6, <3>3
  <2> HIDE DEF s
  <2> QED
    BY <1>1, <1>9, <2>1 DEF Complete
<1>11. pos_pixel(n) = PixelsOf(f, n)
  BY <1>6 DEF PixelsOf, getCubOffset
<1> QED
  BY <1>1, <1>6, <1>9, <1>10, <1>11 DEF FrameHeaderSize

\* What a call leaves behind, whatever the file.
LEMMA FrameEffect ==
  ASSUME CubTypeOK, NEW n \in Nat, NEW object,
         object = cub \/ object = [cub EXCEPT !.pos = @ + 1], Frame(n, object)
  PROVE  LET s == AfterRead(cub.stream, pos_header(n), FrameHeaderSize)
         IN  /\ cub' \in [header : [v_width : Nat, h_width : Nat, length : Nat],
                          stream : Streams, first : Int, pos : Int, count : Nat]
             /\ cub'.header = cub.header /\ cub'.first = cub.first
             /\ cub'.count = cub.count /\ cub'.pos >= -1
             /\ cub'.stream.size = cub.stream.size
             /\ cub_asked' = n /\ cub_file' = cub_file /\ cub_crashed' = cub_crashed
             /\ BeyondEnd(n) => /\ cub_result' = Result("end", Garbage)
                                /\ cub'.stream = cub.stream
             /\ ~BeyondEnd(n) =>
                  /\ cub'.stream = AfterRead(s, pos_pixel(n), 2 * Pixels)
                  /\ Pixels < FrameHeaderSize => cub_result' = Result("short", Garbage)
                  /\ ~(Pixels < FrameHeaderSize) =>
                       IF Complete(s, pos_pixel(n), 2 * Pixels)
                         THEN cub_result' = Result("frame", pos_pixel(n))
                         ELSE cub_result' = Result("frame", Garbage)
<1> DEFINE s == AfterRead(cub.stream, pos_header(n), FrameHeaderSize)
           t == AfterRead(s, pos_pixel(n), 2 * Pixels)
<1>1. /\ object \in [header : [v_width : Nat, h_width : Nat, length : Nat],
                     stream : Streams, first : Int, pos : Int, count : Nat]
      /\ object.header = cub.header /\ object.first = cub.first
      /\ object.count = cub.count /\ object.pos >= -1 /\ object.stream = cub.stream
  <2>1. CASE object = cub
    BY <2>1 DEF CubTypeOK
  <2>2. CASE object = [cub EXCEPT !.pos = @ + 1]
    BY <2>2 DEF CubTypeOK
  <2> QED
    BY <2>1, <2>2
<1>2. /\ pos_header(n) \in Int /\ pos_pixel(n) \in Int /\ 2 * Pixels \in Int
      /\ cub.stream \in Streams
  BY Positions DEF CubTypeOK
<1>3. s \in Streams /\ s.size = cub.stream.size
  <2>1. FrameHeaderSize \in Int
    BY DEF FrameHeaderSize
  <2> QED
    BY <1>2, <2>1, ReadStream
<1>4. t \in Streams /\ t.size = cub.stream.size
  <2> HIDE DEF s
  <2> QED
    BY <1>2, <1>3, ReadStream
<1>5. cub_asked' = n /\ cub_file' = cub_file /\ cub_crashed' = cub_crashed
  BY DEF Frame
<1>6. CASE BeyondEnd(n)
  <2>1. cub' = object /\ cub_result' = Result("end", Garbage)
    BY <1>6 DEF Frame
  <2> HIDE DEF s, t
  <2> QED
    BY <1>1, <1>5, <1>6, <2>1
<1>7. CASE ~BeyondEnd(n)
  <2>1. /\ cub' = [object EXCEPT !.stream = t]
        /\ cub_result' = IF Pixels < FrameHeaderSize THEN Result("short", Garbage)
                         ELSE Result("frame", IF Complete(s, pos_pixel(n), 2 * Pixels)
                                                THEN pos_pixel(n) ELSE Garbage)
    BY <1>7 DEF Frame
  <2> HIDE DEF t
  <2>2. /\ cub' \in [header : [v_width : Nat, h_width : Nat, length : Nat],
                     stream : Streams, first : Int, pos : Int, count : Nat]
        /\ cub'.header = object.header /\ cub'.first = object.first
        /\ cub'.count = object.count /\ cub'.pos = object.pos /\ cub'.stream = t
    BY <1>1, <1>4, <2>1
  <2>3. CASE Complete(s, pos_pixel(n), 2 * Pixels)
    <3> HIDE DEF s
    <3> QED
      BY <1>1, <1>4, <1>5, <1>7, <2>1, <2>2, <2>3 DEF t, s
  <2>4. CASE ~Complete(s, pos_pixel(n), 2 * Pixels)
    <3> HIDE DEF s
    <3> QED
      BY <1>1, <1>4, <1>5, <1>7, <2>1, <2>2, <2>4 DEF t, s
  <2> QED
    BY <2>3, <2>4
<1> QED
  BY <1>6, <1>7

\* A frame asked for by index or in order keeps the invariant.
LEMMA FrameStep ==
  ASSUME CubInv, Usable, NEW n \in Nat, NEW object,
         object = cub \/ object = [cub EXCEPT !.pos = @ + 1], Frame(n, object)
  PROVE  CubInv'
<1> DEFINE f == cub_file
           s == AfterRead(cub.stream, pos_header(n), FrameHeaderSize)
<1>1. CubTypeOK /\ OpenInv
  BY DEF CubInv
<1>2. /\ cub' \in [header : [v_width : Nat, h_width : Nat, length : Nat],
                   stream : Streams, first : Int, pos : Int, count : Nat]
      /\ cub'.header = cub.header /\ cub'.first = cub.first
      /\ cub'.count = cub.count /\ cub'.pos >= -1
      /\ cub'.stream.size = cub.stream.size
      /\ cub_asked' = n /\ cub_file' = cub_file /\ cub_crashed' = cub_crashed
  BY <1>1, FrameEffect
<1>3. BeyondEnd(n) => cub_result' = Result("end", Garbage) /\ cub'.stream = cub.stream
  BY <1>1, FrameEffect
<1>4. ~BeyondEnd(n) =>
        /\ cub'.stream = AfterRead(s, pos_pixel(n), 2 * Pixels)
        /\ Pixels < FrameHeaderSize => cub_result' = Result("short", Garbage)
        /\ ~(Pixels < FrameHeaderSize) =>
             IF Complete(s, pos_pixel(n), 2 * Pixels)
               THEN cub_result' = Result("frame", pos_pixel(n))
               ELSE cub_result' = Result("frame", Garbage)
  BY <1>1, FrameEffect
<1>5. /\ f \in CubFiles /\ f.size \in Int /\ f.size >= -1 /\ NoFile = -1
      /\ U64 \in Nat \ {0} /\ cub.count \in Nat /\ f.length \in Nat
      /\ pos_header(n) \in Int /\ pos_pixel(n) \in Int /\ 2 * Pixels \in Int
      /\ Pixels \in Nat /\ cub.stream \in Streams /\ ~cub_crashed
  BY <1>1, FileTypes, Positions DEF CubTypeOK, Usable
<1>6. /\ f.size < 20 => cub.first = -1 /\ cub.count = 0
      /\ f.size >= 20 => /\ cub.header = HeaderOf(f) /\ cub.first = 512
                         /\ cub.count = FrameCount(f.size, getCubOffset, f.length)
      /\ cub.header.length >= 1 /\ cub.stream.size = f.size
      /\ WellFormed(f) => ~cub.stream.fail
      /\ f.size < 20 => cub.stream.fail
  BY <1>1, <1>5 DEF OpenInv, InfoSize, HeaderSize, getCubOffset
<1>7. WellFormed(f) => f.size >= 512
  BY DEF WellFormed, getCubOffset
<1>8. /\ s \in Streams /\ s.size = f.size
      /\ cub.stream.fail => s.fail
  <2>1. FrameHeaderSize \in Int
    BY DEF FrameHeaderSize
  <2>2. s \in Streams /\ s.size = cub.stream.size /\ (cub.stream.fail => s.fail)
    BY <1>5, <2>1, ReadStream
  <2> QED
    BY <1>6, <2>2
<1>9. f.size >= 20 => f.length >= 1 /\ cub.header.length = f.length
  BY <1>5, <1>6, FileTypes
<1>10. CubTypeOK'
  <2>1. CASE BeyondEnd(n)
    BY <1>1, <1>2, <1>3, <2>1 DEF CubTypeOK, Result, Garbage
  <2>2. CASE ~BeyondEnd(n)
    BY <1>1, <1>2, <1>4, <1>5, <2>2 DEF CubTypeOK, Result, Garbage
  <2> QED
    BY <2>1, <2>2
<1>11. OpenInv'
  <2>1. f.size < 20 => cub'.stream.fail
    <3>1. CASE BeyondEnd(n)
      BY <1>3, <1>6, <3>1
    <3>2. CASE ~BeyondEnd(n)
      <4> HIDE DEF s
      <4>1. s.fail => AfterRead(s, pos_pixel(n), 2 * Pixels).fail
        BY <1>5, <1>8, ReadStream
      <4> QED
        BY <1>4, <1>6, <1>8, <3>2, <4>1
    <3> QED
      BY <3>1, <3>2
  <2>2. WellFormed(f) => ~cub'.stream.fail
    <3>1. CASE BeyondEnd(n)
      BY <1>3, <1>6, <3>1
    <3>2. CASE ~BeyondEnd(n)
      <4> SUFFICES ASSUME WellFormed(f) PROVE ~cub'.stream.fail
        OBVIOUS
      <4>1. ~s.fail /\ Complete(s, pos_pixel(n), 2 * Pixels)
        BY <1>1, <3>2, RecordRead
      <4> HIDE DEF s
      <4> QED
        BY <1>4, <1>5, <1>8, <3>2, <4>1, ReadStream
    <3> QED
      BY <3>1, <3>2
  <2>3. InfoSize + HeaderSize = 20 /\ getCubOffset = 512
    BY DEF InfoSize, HeaderSize, getCubOffset
  <2> HIDE DEF s
  <2> QED
    BY <1>2, <1>5, <1>6, <2>1, <2>2, <2>3 DEF OpenInv
<1>12. FramesAsAsked'
  <2> SUFFICES ASSUME WellFormed(f)
               PROVE  cub_result' = IF n < Records(f) THEN Result("frame", PixelsOf(f, n))
                                                      ELSE Result("end", Garbage)
    BY <1>2 DEF FramesAsAsked
  <2>1. cub.count = Records(f)
    BY <1>5, <1>6, <1>7, <1>9, CountFacts DEF getCubOffset
  <2>2. BeyondEnd(n) <=> ~(n < Records(f))
    <3>1. BeyondEnd(n) <=> n >= cub.count
      BY DEF BeyondEnd
    <3> QED
      BY <1>5, <2>1, <3>1
  <2>3. CASE BeyondEnd(n)
    BY <1>3, <2>2, <2>3
  <2>4. CASE ~BeyondEnd(n)
    <3>1. /\ Complete(s, pos_pixel(n), 2 * Pixels) /\ Pixels >= FrameHeaderSize
          /\ pos_pixel(n) = PixelsOf(f, n)
      BY <1>1, <2>4, RecordRead
    <3>2. ~(Pixels < FrameHeaderSize)
      BY <1>5, <3>1 DEF FrameHeaderSize
    <3> QED
      BY <1>4, <2>2, <2>4, <3>1, <3>2
  <2> QED
    BY <2>3, <2>4
<1>13. OwnPixels'
  <2> SUFFICES ASSUME InRange(f, n), cub_result'.pixels # Garbage
               PROVE  /\ cub_result'.pixels = PixelsOf(f, n)
                      /\ cub_result'.pixels + 2 * (f.v_width * f.h_width) <= f.size
    BY <1>2, <1>5 DEF OwnPixels, Asked
  <2>1. ~BeyondEnd(n)
    BY <1>3 DEF Result
  <2>2. Complete(s, pos_pixel(n), 2 * Pixels) /\ cub_result'.pixels = pos_pixel(n)
    BY <1>4, <2>1 DEF Result
  <2>3. ~s.fail /\ pos_pixel(n) + 2 * Pixels <= f.size
    <3> HIDE DEF s
    <3> QED
      BY <1>5, <1>8, <2>2, ReadStream
  <2>4. ~(f.size < InfoSize + HeaderSize)
    BY <1>6, <1>8, <2>3 DEF InfoSize, HeaderSize
  <2>5. pos_pixel(n) = PixelsOf(f, n) /\ Pixels = f.v_width * f.h_width
    BY <1>1, <2>4, OwnPosition
  <2> HIDE DEF s
  <2> QED
    BY <2>2, <2>3, <2>5
<1> QED
  BY <1>10, <1>11, <1>12, <1>13 DEF CubInv

LEMMA CubStep ==
  ASSUME CubInv, [CubNext]_cubVars PROVE CubInv'
<1>1. CASE \E f \in CubFiles : Load(f)
  BY <1>1, LoadStep
<1>2. CASE \E n \in Indices : getFrame(n)
  <2>1. PICK n \in Indices : getFrame(n)
    BY <1>2
  <2>2. n \in Nat /\ Usable /\ Frame(n, cub)
    BY <2>1, IndexTypes DEF getFrame
  <2> QED
    BY <2>2, FrameStep
<1>3. CASE getNextFrame
  <2> DEFINE object == [cub EXCEPT !.pos = @ + 1]
  <2>1. Usable /\ Frame(cub.pos + 1, object)
    BY <1>3 DEF getNextFrame
  <2>2. cub.pos + 1 \in Nat
    BY DEF CubInv, CubTypeOK
  <2>3. PICK n \in Nat : n = cub.pos + 1
    BY <2>2
  <2>4. Frame(n, object)
    BY <2>1, <2>3
  <2> QED
    BY <2>1, <2>4, FrameStep
<1>4. CASE UNCHANGED cubVars
  BY <1>4 DEF cubVars, cubHistory, CubInv, CubTypeOK, OpenInv, FramesAsAsked, OwnPixels,
              Usable, Asked
<1> QED
  BY <1>1, <1>2, <1>3, <1>4 DEF CubNext

-----------------------------------------------------------------------------
(* Theorems about CuboidFile.                                              *)

\* Every state of the object satisfies the inductive invariant: its types, what
\* is known of the open file, and the two properties of the calls.
THEOREM CubInvariant == CubSpec => []CubInv
<1>1. CubInit => CubInv
  BY InitCub
<1>2. CubInv /\ [CubNext]_cubVars => CubInv'
  BY CubStep
<1> QED
  BY <1>1, <1>2, PTL DEF CubSpec

\* Of a well-formed file every call returns the frame asked for, or says that
\* there is none.
THEOREM FramesReturned == CubSpec => []FramesAsAsked
<1>1. CubInv => FramesAsAsked
  BY DEF CubInv
<1> QED
  BY <1>1, CubInvariant, PTL

\* Of any file, cut off anywhere, the pixels a call returns are those of the
\* frame asked for, as long as its position fits into the integers; only a
\* length of 0 ends the program.
THEOREM PixelsOwned == CubSpec => []OwnPixels
<1>1. CubInv => OwnPixels
  BY DEF CubInv
<1> QED
  BY <1>1, CubInvariant, PTL

\* The three index computations of FrameMat agree, whatever the shape.
LEMMA PlacesAgree ==
  ASSUME NEW v \in Nat, NEW h \in Nat, NEW j \in 0..(v - 1), NEW i \in 0..(h - 1)
  PROVE  LET p == NumpyPosition(MatOf(v, h), j, i)
         IN  p \in DOMAIN PixelAt(v, h) /\ PixelAt(v, h)[p] = {j * h + i}
<1> DEFINE p == j * h + i
           written == {w \in (0..(v - 1)) \X (0..(h - 1)) : w[2] + w[1] * h = p}
<1>1. MatOf(v, h).width = h
  BY DEF MatOf, Mat
<1>2. NumpyPosition(MatOf(v, h), j, i) = p
  BY <1>1 DEF NumpyPosition
<1>3. p \in 0..(v * h - 1)
  <2>1. j \in Nat /\ i \in Nat /\ j < v /\ i < h
    OBVIOUS
  <2>2. j * h \in Nat /\ v * h \in Nat /\ j * h + h <= v * h
    BY <2>1, Products
  <2> QED
    BY <2>1, <2>2
<1>4. \A w : MatPosition(MatOf(v, h), w[2], w[1]) = w[2] + w[1] * h
  BY <1>1 DEF MatPosition
<1>5. PixelAt(v, h) = [q \in 0..(v * h - 1) |->
        {w[1] * h + w[2] : w \in {w \in (0..(v - 1)) \X (0..(h - 1)) :
                                    w[2] + w[1] * h = q}}]
  BY <1>4 DEF PixelAt
<1>6. PixelAt(v, h)[p] = {w[1] * h + w[2] : w \in written} /\ p \in DOMAIN PixelAt(v, h)
  BY <1>3, <1>5
<1>7. \A w \in written : w[1] * h + w[2] = p
  <2> SUFFICES ASSUME NEW w \in written PROVE w[1] * h + w[2] = p
    OBVIOUS
  <2>1. w[1] \in Nat /\ w[2] \in Nat /\ w[2] + w[1] * h = p
    OBVIOUS
  <2>2. w[1] * h \in Nat
    BY <2>1, Products
  <2> QED
    BY <2>1, <2>2
<1>8. <<j, i>> \in written
  <2>1. j * h \in Nat /\ i \in Nat
    BY Products
  <2> QED
    BY <2>1
<1>9. {w[1] * h + w[2] : w \in written} = {p}
  <2> HIDE DEF p, written
  <2> QED
    BY <1>7, <1>8
<1> QED
  BY <1>2, <1>6, <1>9

\* Each pixel of a frame is the element of the array with its row and column.
THEOREM PixelsInPlace == CubSpec => []PixelsKeepPlaces
<1>1. CubInv => PixelsKeepPlaces
  <2> SUFFICES ASSUME CubInv PROVE PixelsKeepPlaces
    OBVIOUS
  <2>1. cub.header.v_width \in Nat /\ cub.header.h_width \in Nat
    BY DEF CubInv, CubTypeOK
  <2> QED
    BY <2>1, PlacesAgree DEF PixelsKeepPlaces
<1> QED
  BY <1>1, CubInvariant, PTL

\* After a read failed, no frame is returned until a file is loaded again.
THEOREM FailedStaysFailed == CubSpec => FailureSticks
<1> DEFINE Sticks == (cub.stream.fail /\ cub_file' = cub_file
                        /\ cub_result'.kind = "frame") => cub_result'.pixels = Garbage
<1>1. ASSUME CubInv, NEW n \in Nat, NEW object,
             object = cub \/ object = [cub EXCEPT !.pos = @ + 1], Frame(n, object)
      PROVE  Sticks
  <2> DEFINE s == AfterRead(cub.stream, pos_header(n), FrameHeaderSize)
  <2> SUFFICES ASSUME cub.stream.fail, cub_result'.kind = "frame"
               PROVE  cub_result'.pixels = Garbage
    OBVIOUS
  <2>1. /\ BeyondEnd(n) => cub_result' = Result("end", Garbage)
        /\ ~BeyondEnd(n) =>
             /\ Pixels < FrameHeaderSize => cub_result' = Result("short", Garbage)
             /\ ~(Pixels < FrameHeaderSize) =>
                  IF Complete(s, pos_pixel(n), 2 * Pixels)
                    THEN cub_result' = Result("frame", pos_pixel(n))
                    ELSE cub_result' = Result("frame", Garbage)
    BY <1>1, FrameEffect DEF CubInv
  <2>2. /\ pos_header(n) \in Int /\ pos_pixel(n) \in Int /\ 2 * Pixels \in Int
        /\ cub.stream \in Streams /\ FrameHeaderSize \in Int
    BY <1>1, Positions DEF CubInv, CubTypeOK, FrameHeaderSize
  <2>3. s \in Streams /\ s.fail
    BY <2>2, ReadStream
  <2>4. ~Complete(s, pos_pixel(n), 2 * Pixels)
    <3> HIDE DEF s
    <3> QED
      BY <2>2, <2>3, ReadStream
  <2> HIDE DEF s
  <2> QED
    BY <2>1, <2>4 DEF Result
<1>2. CubInv /\ [CubNext]_cubVars => [Sticks]_cubVars
  <2> SUFFICES ASSUME CubInv, CubNext PROVE Sticks
    OBVIOUS
  <2>1. CASE \E f \in CubFiles : Load(f)
    BY <2>1 DEF Load, Result
  <2>2. CASE \E n \in Indices : getFrame(n)
    <3>1. PICK n \in Indices : getFrame(n)
      BY <2>2
    <3>2. n \in Nat /\ Frame(n, cub)
      BY <3>1, IndexTypes DEF getFrame
    <3> HIDE DEF Sticks
    <3> QED
      BY <1>1, <3>2
  <2>3. CASE getNextFrame
    <3>1. PICK object : object = [cub EXCEPT !.pos = @ + 1]
      OBVIOUS
    <3>2. Frame(cub.pos + 1, object) /\ cub.pos + 1 \in Nat
      BY <2>3, <3>1 DEF getNextFrame, CubInv, CubTypeOK
    <3>3. PICK n \in Nat : n = cub.pos + 1
      BY <3>2
    <3>4. Frame(n, object)
      BY <3>2, <3>3
    <3> HIDE DEF Sticks
    <3> QED
      BY <1>1, <3>1, <3>4
  <2> QED
    BY <2>1, <2>2, <2>3 DEF CubNext
<1> QED
  BY <1>2, CubInvariant, PTL DEF CubSpec, FailureSticks

-----------------------------------------------------------------------------
(* LaserxaFile.                                                            *)

LxaTypeOK ==
  /\ lxa_size \in LxaSizes /\ lxa_stream \in Streams /\ data_count \in Nat
  /\ lxa_asked \in Int
  /\ lxa_result \in [kind : {"none", "data", "exception"}, record : Int]
  /\ direction \in {-1, 0, 1} /\ strayed \in BOOLEAN

\* The object of a file: what counts as its records (line 85), and when a read
\* can still succeed.
LxaOpenInv ==
  /\ lxa_stream.size \in {lxa_size, NoFile}
  /\ lxa_size >= LxaInfoSize => data_count = lxa_size
  /\ lxa_size < LxaInfoSize => lxa_stream.fail /\ data_count >= LxaInfoSize
  /\ (~strayed /\ lxa_size >= LxaInfoSize) =>
       ~lxa_stream.fail /\ lxa_stream.size = lxa_size

LxaInv == LxaTypeOK /\ LxaOpenInv /\ RecordAsAsked

LEMMA LxaFacts ==
  ASSUME LxaTypeOK
  PROVE  /\ lxa_size \in Int /\ lxa_size >= -1 /\ lxa_size < SizeT /\ NoFile = -1
         /\ SizeT \in Nat /\ SizeT > 16 /\ LxaRecords \in Nat
         /\ lxa_size < 8 => LxaRecords = 0
         /\ lxa_size >= 8 =>
              16 * LxaRecords <= lxa_size - 8 /\ lxa_size - 8 < 16 * LxaRecords + 16
<1>1. /\ lxa_size \in Int /\ lxa_size >= -1 /\ lxa_size < SizeT /\ NoFile = -1
      /\ SizeT \in Nat /\ SizeT > 16
  BY LaserxaAssumption DEF LxaTypeOK, NoFile
<1>2. CASE lxa_size < 8
  BY <1>1, <1>2 DEF LxaRecords, LxaInfoSize
<1>3. CASE lxa_size >= 8
  <2>1. lxa_size - 8 \in Nat /\ 16 \in Nat \ {0}
    BY <1>1, <1>3
  <2>2. LxaRecords = (lxa_size - 8) \div 16
    BY <1>1, <1>3 DEF LxaRecords, LxaInfoSize, LxaDataSize
  <2> QED
    BY <1>1, <1>3, <2>1, <2>2, Division
<1> QED
  BY <1>1, <1>2, <1>3

\* The read of a record succeeds when the file is open, no read has failed,
\* and the record is complete.
LEMMA LxaRead ==
  ASSUME LxaTypeOK, NEW s \in Streams, s.size \in {lxa_size, NoFile}, NEW n \in Nat
  PROVE  /\ AfterRead(s, pos(n), LxaDataSize) \in Streams
         /\ AfterRead(s, pos(n), LxaDataSize).size = s.size
         /\ ~AfterRead(s, pos(n), LxaDataSize).fail <=> Complete(s, pos(n), LxaDataSize)
         /\ Complete(s, pos(n), LxaDataSize) <=>
              ~s.fail /\ s.size # NoFile /\ n < LxaRecords
<1>1. pos(n) = 8 + n * 16 /\ pos(n) \in Int /\ LxaDataSize = 16
  BY DEF pos, LxaInfoSize, LxaDataSize
<1>2. /\ AfterRead(s, pos(n), 16) \in Streams /\ AfterRead(s, pos(n), 16).size = s.size
      /\ AfterRead(s, pos(n), 16).fail <=> ~Complete(s, pos(n), 16)
      /\ Complete(s, pos(n), 16) <=> ~s.fail /\ s.size # NoFile /\ pos(n) + 16 <= s.size
  BY <1>1, ReadStream
<1>3. s.size = lxa_size => (pos(n) + 16 <= s.size <=> n < LxaRecords)
  BY <1>1, LxaFacts
<1> QED
  BY <1>1, <1>2, <1>3

LEMMA InitLxa ==
  ASSUME LxaInit PROVE LxaInv
<1> DEFINE s == AfterRead(Opened(lxa_size), 0, LxaInfoSize)
<1>1. /\ lxa_size \in LxaSizes /\ lxa_size \in Int /\ lxa_size >= -1
      /\ lxa_size < SizeT /\ NoFile = -1 /\ SizeT \in Nat /\ SizeT > 16
  BY LaserxaAssumption DEF LxaInit, NoFile
<1>2. s \in Streams /\ s.size = lxa_size /\ (s.fail <=> lxa_size < 8)
  <2>1. /\ Opened(lxa_size) \in Streams /\ Opened(lxa_size).size = lxa_size
        /\ Opened(lxa_size).fail <=> lxa_size = NoFile
    BY <1>1, OpenStream
  <2> QED
    BY <1>1, <2>1, ReadStream DEF LxaInfoSize
<1>3. lxa_stream = s
  BY DEF LxaInit
<1> HIDE DEF s
<1>4. data_count = DataCount(PositionAt(s, lxa_size), PositionAt(s, 8))
  BY <1>3 DEF LxaInit, LxaInfoSize
<1>5. ASSUME lxa_size < 8 PROVE data_count \in Nat /\ data_count >= 8
  <2>1. PositionAt(s, lxa_size) = -1 /\ PositionAt(s, 8) = -1
    BY <1>2, <1>5 DEF PositionAt
  <2>2. (-1) % SizeT = SizeT - 1
    BY <1>1
  <2> DEFINE k == (SizeT - 1) \div 16
  <2>3. data_count = ((SizeT - 1) - k) % SizeT
    BY <1>4, <2>1, <2>2 DEF DataCount, LxaDataSize
  <2>4. k \in Nat /\ 16 * k <= SizeT - 1
    <3>1. SizeT - 1 \in Nat /\ 16 \in Nat \ {0}
      BY <1>1
    <3> QED
      BY <3>1, Division
  <2> HIDE DEF k
  <2>5. PICK d : d = (SizeT - 1) - k
    OBVIOUS
  <2>6. d \in 0..(SizeT - 1) /\ d \in Int /\ d >= 8 /\ SizeT \in Nat \ {0}
    BY <1>1, <2>4, <2>5
  <2>7. d % SizeT = d
    BY <2>6, Remainder
  <2>8. data_count = d
    BY <2>3, <2>5, <2>7
  <2> QED
    BY <2>6, <2>8
<1>6. ASSUME lxa_size >= 8 PROVE data_count = lxa_size
  <2>1. PositionAt(s, lxa_size) = lxa_size /\ PositionAt(s, 8) = 8
    BY <1>1, <1>2, <1>6 DEF PositionAt
  <2>2. lxa_size % SizeT = lxa_size
    <3>1. lxa_size \in 0..(SizeT - 1) /\ SizeT \in Nat \ {0}
      BY <1>1, <1>6
    <3> QED
      BY <1>1, <3>1, Remainder
  <2>3. 8 % SizeT = 8
    <3>1. 8 \in 0..(SizeT - 1) /\ 8 \in Int /\ SizeT \in Nat \ {0}
      BY <1>1
    <3> QED
      BY <3>1, Remainder
  <2>4. data_count = (lxa_size - 8 \div 16) % SizeT
    BY <1>4, <2>1, <2>2, <2>3 DEF DataCount, LxaDataSize
  <2>5. 8 \div 16 = 0 /\ lxa_size - 0 = lxa_size
    BY <1>1
  <2>6. data_count = lxa_size
    BY <2>2, <2>4, <2>5
  <2> QED
    BY <1>6, <2>6
<1>7. LxaTypeOK
  <2>1. data_count \in Nat
    BY <1>1, <1>5, <1>6
  <2>2. strayed \in BOOLEAN
    BY Zenon DEF LxaInit
  <2> QED
    BY <1>2, <1>3, <2>1, <2>2 DEF LxaInit, LxaTypeOK, LxaResult, NoRecord
<1>8. LxaRecords \in Nat
  BY <1>7, LxaFacts
<1> QED
  BY <1>1, <1>2, <1>3, <1>5, <1>6, <1>7, <1>8
     DEF LxaInv, LxaOpenInv, LxaInit, RecordAsAsked, LxaInfoSize

\* A call of get_data().
LEMMA LxaDataStep ==
  ASSUME LxaInv, NEW n \in LxaIndices, get_data(n)
  PROVE  LxaInv'
<1> DEFINE s == AfterRead(lxa_stream, pos(n), LxaDataSize)
<1>1. /\ n \in Nat /\ lxa_size \in Int /\ LxaRecords \in Nat /\ data_count \in Nat
      /\ NoFile = -1 /\ lxa_size >= -1 /\ LxaTypeOK /\ LxaOpenInv
      /\ lxa_stream \in Streams /\ lxa_stream.size \in {lxa_size, NoFile}
  BY LaserxaAssumption, LxaFacts DEF LxaInv, LxaTypeOK, LxaOpenInv
<1>2. /\ s \in Streams /\ s.size = lxa_stream.size
      /\ ~s.fail <=> Complete(lxa_stream, pos(n), LxaDataSize)
      /\ Complete(lxa_stream, pos(n), LxaDataSize) <=>
           ~lxa_stream.fail /\ lxa_stream.size # NoFile /\ n < LxaRecords
  BY <1>1, LxaRead
<1>3. lxa_size < 8 => LxaRecords = 0
  BY <1>1, LxaFacts
<1>4. LxaRecords <= data_count /\ (lxa_size >= 0 => lxa_size <= data_count)
  BY <1>1, LxaFacts DEF LxaOpenInv, LxaInfoSize
<1>5. /\ lxa_asked' = n /\ lxa_size' = lxa_size /\ data_count' = data_count
      /\ direction' = direction /\ LxaRecords' = LxaRecords
  BY DEF get_data, lxaFile, LxaRecords
<1>6. CASE n >= data_count
  <2>1. /\ lxa_result' = LxaResult("exception", NoRecord)
        /\ lxa_stream' = lxa_stream /\ strayed' = strayed
    BY <1>6 DEF get_data
  <2>2. LxaTypeOK' /\ LxaOpenInv'
    BY <1>1, <1>5, <2>1 DEF LxaInv, LxaTypeOK, LxaOpenInv, LxaResult, NoRecord
  <2>3. RecordAsAsked'
    BY <1>1, <1>4, <1>5, <1>6 DEF RecordAsAsked
  <2> QED
    BY <2>2, <2>3 DEF LxaInv
<1>7. CASE ~(n >= data_count)
  <2>1. /\ lxa_result' = LxaResult("data", Fetched(lxa_stream, n))
        /\ lxa_stream' = s
    BY <1>7 DEF get_data
  <2>2. strayed' \in BOOLEAN /\ (strayed' <=> strayed \/ n >= LxaRecords)
    <3>1. strayed' = (strayed \/ n >= LxaRecords)
      BY <1>7 DEF get_data
    <3>2. (strayed \/ n >= LxaRecords) \in BOOLEAN
      OBVIOUS
    <3> QED
      BY <3>1, <3>2, Zenon
  <2> HIDE DEF s
  <2>3. /\ lxa_result' \in [kind : {"none", "data", "exception"}, record : Int]
        /\ Complete(lxa_stream, pos(n), LxaDataSize) => lxa_result' = LxaResult("data", n)
        /\ ~Complete(lxa_stream, pos(n), LxaDataSize) =>
             lxa_result' = LxaResult("data", NoRecord)
    BY <1>1, <2>1 DEF Fetched, LxaResult, NoRecord
  <2>4. LxaTypeOK'
    BY <1>1, <1>2, <1>5, <2>1, <2>2, <2>3 DEF LxaTypeOK
  <2>5. LxaOpenInv'
    BY <1>1, <1>2, <1>5, <2>1, <2>2 DEF LxaOpenInv, LxaInfoSize
  <2>6. RecordAsAsked'
    BY <1>1, <1>2, <1>3, <1>5, <2>2, <2>3 DEF RecordAsAsked, LxaOpenInv, LxaInfoSize
  <2> QED
    BY <2>4, <2>5, <2>6 DEF LxaInv
<1> QED
  BY <1>6, <1>7

\* get_direction_from_lxa() may leave the stream failed.
LEMMA LxaDirectionStep ==
  ASSUME LxaInv, get_direction
  PROVE  LxaInv'
<1> DEFINE m == Middle
           s == AfterRead(lxa_stream, pos(m), LxaDataSize)
           t == AfterRead(s, pos(m + 1), LxaDataSize)
<1>1. /\ lxa_size \in Int /\ LxaRecords \in Nat /\ data_count \in Nat
      /\ NoFile = -1 /\ lxa_size >= -1 /\ LxaTypeOK /\ LxaOpenInv
      /\ lxa_stream \in Streams /\ lxa_stream.size \in {lxa_size, NoFile}
  BY LxaFacts DEF LxaInv, LxaTypeOK, LxaOpenInv
<1>2. m \in Nat /\ m + 1 \in Nat /\ 2 * m <= data_count /\ data_count < 2 * m + 2
  <2>1. 2 \in Nat \ {0}
    OBVIOUS
  <2> QED
    BY <1>1, <2>1, Division DEF Middle
<1> HIDE DEF m
<1>3. /\ s \in Streams /\ s.size = lxa_stream.size
      /\ ~s.fail <=> ~lxa_stream.fail /\ lxa_stream.size # NoFile /\ m < LxaRecords
  BY <1>1, <1>2, LxaRead
<1> HIDE DEF s
<1>4. /\ t \in Streams /\ t.size = lxa_stream.size
      /\ ~t.fail <=> ~s.fail /\ s.size # NoFile /\ m + 1 < LxaRecords
  BY <1>1, <1>2, <1>3, LxaRead
<1> HIDE DEF t
<1>5. /\ lxa_size' = lxa_size /\ data_count' = data_count /\ LxaRecords' = LxaRecords
      /\ lxa_asked' = lxa_asked /\ lxa_result' = lxa_result
  BY DEF get_direction, lxaFile, LxaRecords
<1>6. CASE m >= data_count
  <2>1. direction' = -1 /\ UNCHANGED <<lxa_stream, strayed>>
    <3>1. CASE Middle + 1 # data_count
      BY <1>6, <3>1 DEF get_direction, m
    <3>2. CASE Middle + 1 = data_count
      BY <1>1, <1>2, <1>6, <3>2 DEF m
    <3> QED
      BY <3>1, <3>2
  <2> QED
    BY <1>1, <1>5, <2>1 DEF LxaInv, LxaTypeOK, LxaOpenInv, RecordAsAsked
<1>7. CASE ~(m >= data_count) /\ m + 1 = data_count
  <2>1. direction' = -1 /\ lxa_stream' = s
    BY <1>7 DEF get_direction, m, s
  <2>2. strayed' \in BOOLEAN /\ (strayed' <=> strayed \/ m >= LxaRecords)
    <3>1. strayed' = (strayed \/ m >= LxaRecords)
      BY <1>7 DEF get_direction, m
    <3>2. (strayed \/ m >= LxaRecords) \in BOOLEAN
      OBVIOUS
    <3> QED
      BY <3>1, <3>2, Zenon
  <2>3. LxaTypeOK'
    BY <1>1, <1>3, <1>5, <2>1, <2>2 DEF LxaTypeOK
  <2>4. LxaOpenInv'
    BY <1>1, <1>2, <1>3, <1>5, <2>1, <2>2 DEF LxaOpenInv, LxaInfoSize
  <2>5. RecordAsAsked'
    BY <1>5, <2>1, <2>2 DEF LxaInv, RecordAsAsked
  <2> QED
    BY <2>3, <2>4, <2>5 DEF LxaInv
<1>8. CASE ~(m >= data_count) /\ m + 1 # data_count
  <2>1. /\ direction' \in {-1, 0, 1} /\ lxa_stream' = t
    <3>1. \E l1, l2 \in Counters : direction' = IF Forward(l1, l2) THEN 0 ELSE 1
      BY <1>8 DEF get_direction, m
    <3>2. lxa_stream' = t
      BY <1>8 DEF get_direction, m, s, t
    <3> QED
      BY <3>1, <3>2
  <2>2. strayed' \in BOOLEAN /\ (strayed' <=> strayed \/ m + 1 >= LxaRecords)
    <3>1. strayed' = (strayed \/ m + 1 >= LxaRecords)
      BY <1>8 DEF get_direction, m
    <3>2. (strayed \/ m + 1 >= LxaRecords) \in BOOLEAN
      OBVIOUS
    <3> QED
      BY <3>1, <3>2, Zenon
  <2>3. LxaTypeOK'
    BY <1>1, <1>4, <1>5, <2>1, <2>2 DEF LxaTypeOK
  <2>4. LxaOpenInv'
    BY <1>1, <1>2, <1>3, <1>4, <1>5, <2>1, <2>2 DEF LxaOpenInv, LxaInfoSize
  <2>5. RecordAsAsked'
    BY <1>5, <2>2 DEF LxaInv, RecordAsAsked
  <2> QED
    BY <2>3, <2>4, <2>5 DEF LxaInv
<1> QED
  BY <1>6, <1>7, <1>8

LEMMA LxaStep ==
  ASSUME LxaInv, [LxaNext]_lxaVars PROVE LxaInv'
<1>1. CASE \E n \in LxaIndices : get_data(n)
  BY <1>1, LxaDataStep
<1>2. CASE get_direction
  BY <1>2, LxaDirectionStep
<1>3. CASE LxaClose
  <2>1. /\ lxa_stream' = Closed(lxa_stream) /\ lxa_size' = lxa_size
        /\ data_count' = data_count /\ lxa_asked' = lxa_asked
        /\ lxa_result' = lxa_result /\ direction' = direction
        /\ LxaRecords' = LxaRecords
    BY <1>3 DEF LxaClose, lxaFile, LxaRecords
  <2>2. strayed' \in BOOLEAN /\ strayed'
    <3>1. strayed' = TRUE
      BY <1>3 DEF LxaClose
    <3> QED
      BY <3>1, Zenon
  <2>3. /\ Closed(lxa_stream) \in Streams /\ Closed(lxa_stream).size = NoFile
        /\ Closed(lxa_stream).fail = lxa_stream.fail
    BY DEF LxaInv, LxaTypeOK, Closed, Streams, NoFile
  <2> QED
    BY <2>1, <2>2, <2>3 DEF LxaInv, LxaTypeOK, LxaOpenInv, RecordAsAsked
<1>4. CASE UNCHANGED lxaVars
  BY <1>4 DEF lxaVars, lxaFile, lxaObject, LxaInv, LxaTypeOK, LxaOpenInv, RecordAsAsked,
              LxaRecords
<1> QED
  BY <1>1, <1>2, <1>3, <1>4 DEF LxaNext

\* Every state of the object satisfies the inductive invariant.
THEOREM LxaInvariant == LxaSpec => []LxaInv
<1>1. LxaInit => LxaInv
  BY InitLxa
<1>2. LxaInv /\ [LxaNext]_lxaVars => LxaInv'
  BY LxaStep
<1> QED
  BY <1>1, <1>2, PTL DEF LxaSpec

\* Of an open file, as long as no record beyond its last was asked for, each
\* call returns the record it names.
THEOREM RecordsReturned == LxaSpec => []RecordAsAsked
<1>1. LxaInv => RecordAsAsked
  BY DEF LxaInv
<1> QED
  BY <1>1, LxaInvariant, PTL

=============================================================================
