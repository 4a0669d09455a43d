---------------------------- MODULE LaserxaFile ----------------------------
(***************************************************************************)
(* gloc::LaserxaFile of include/gloc/laserxa.hpp: an open .lxa file, eight *)
(* bytes and then records of sixteen, and get_direction_from_lxa(), which  *)
(* compares the counters of two records.  A record is represented by its   *)
(* index, or by NoRecord when the read failed and d was never written.     *)
(***************************************************************************)
EXTENDS Integers, IfStream

CONSTANTS
  LxaSizes,    \* the sizes of the files
  LxaIndices,  \* the indices get_data() is called with
  Counters,    \* the values of event_counter & 0xffffff
  SizeT        \* the number of values of size_t

ASSUME LaserxaAssumption ==
  /\ SizeT \in Nat /\ SizeT > 16
  /\ LxaSizes \subseteq NoFile..(SizeT - 1)
  /\ LxaIndices \subseteq Nat
  /\ 0 \in Counters

VARIABLES
  lxa_size,    \* the size of the file (fixed), or NoFile
  lxa_stream,  \* file_in_
  data_count,
  lxa_asked,   \* (history) the index of the last call of get_data()
  lxa_result,  \* what that call returned
  direction,   \* what get_direction_from_lxa() returned last, or -1
  strayed      \* (history) a record that does not exist was asked for, or
               \* the file was closed

lxaFile   == <<lxa_size, data_count>>
lxaObject == <<lxa_stream, lxa_asked, lxa_result, strayed>>
lxaVars   == <<lxaFile, lxaObject, direction>>

LxaInfoSize == 8
LxaDataSize == 16
NoRecord    == -1

LxaResult(kind, record) == [kind |-> kind, record |-> record]

\* The complete records of a file.
LxaRecords == IF lxa_size < LxaInfoSize THEN 0
              ELSE (lxa_size - LxaInfoSize) \div LxaDataSize

-----------------------------------------------------------------------------
(* Opening the file.                                                       *)

\* (Mutant: the last record is not counted.)
DataCount_ButLast(end, current) ==
  (((end % SizeT) - (current % SizeT)) \div LxaDataSize - 1) % SizeT

\* data_count_ as init() computes it: the quotient is taken first.
DataCount(end, current) ==
  ((end % SizeT) - (current % SizeT) \div LxaDataSize) % SizeT

LxaInit ==
  /\ lxa_size \in LxaSizes
  /\ lxa_stream = AfterRead(Opened(lxa_size), 0, LxaInfoSize)
  /\ data_count = DataCount(PositionAt(lxa_stream, lxa_size),
                            PositionAt(lxa_stream, LxaInfoSize))
  /\ lxa_asked = -1
  /\ lxa_result = LxaResult("none", NoRecord)
  /\ direction = -1
  /\ strayed = FALSE

-----------------------------------------------------------------------------
(* Reading records.                                                        *)

pos(n) == LxaInfoSize + n * LxaDataSize

Fetched(s, n) == IF Complete(s, pos(n), LxaDataSize) THEN n ELSE NoRecord

\* get_data(n), operator[] and get_time_at(n).
get_data(n) ==
  /\ lxa_asked' = n
  /\ IF n >= data_count
       THEN /\ lxa_result' = LxaResult("exception", NoRecord)
            /\ UNCHANGED <<lxa_stream, strayed>>
       ELSE /\ lxa_result' = LxaResult("data", Fetched(lxa_stream, n))
            /\ lxa_stream' = AfterRead(lxa_stream, pos(n), LxaDataSize)
            /\ strayed' = (strayed \/ n >= LxaRecords)
  /\ UNCHANGED <<lxaFile, direction>>

\* The difference of the counters is an unsigned number.
Forward(l1, l2) == l2 # l1

Middle == data_count \div 2

\* get_direction_from_lxa(): two calls of get_data(), each of which may throw.
\* The counters are those of the records, or of memory that was not written.
get_direction ==
  LET len2 == Middle
      s    == AfterRead(lxa_stream, pos(len2), LxaDataSize)
  IN  /\ CASE len2 >= data_count ->
                direction' = -1 /\ UNCHANGED <<lxa_stream, strayed>>
           [] len2 + 1 = data_count ->
                /\ direction' = -1
                /\ lxa_stream' = s
                /\ strayed' = (strayed \/ len2 >= LxaRecords)
           [] OTHER ->
                /\ \E l1, l2 \in Counters :
                     direction' = IF Forward(l1, l2) THEN 0 ELSE 1
                /\ lxa_stream' = AfterRead(s, pos(len2 + 1), LxaDataSize)
                /\ strayed' = (strayed \/ len2 + 1 >= LxaRecords)
      /\ UNCHANGED <<lxaFile, lxa_asked, lxa_result>>

\* close()
LxaClose ==
  /\ lxa_stream' = Closed(lxa_stream)
  /\ strayed' = TRUE
  /\ UNCHANGED <<lxaFile, lxa_asked, lxa_result, direction>>

LxaNext == \/ \E n \in LxaIndices : get_data(n)
           \/ get_direction
           \/ LxaClose

LxaSpec == LxaInit /\ [][LxaNext]_lxaVars

-----------------------------------------------------------------------------
(* Properties.                                                             *)

\* As long as only records of an open file are asked for, each call returns
\* the record it names (lines 149-162).
RecordAsAsked ==
  (lxa_asked \in 0..(LxaRecords - 1) /\ ~strayed) => lxa_result = LxaResult("data", lxa_asked)

-----------------------------------------------------------------------------
(* What comments and a test say and the code does not do: this is violated *)
(* in one run.                                                             *)

\* "throws out of file exception": of an open file a call of get_data() either
\* throws or returns a record.
EndReported ==
  (lxa_result.kind = "data" /\ lxa_stream.size # NoFile)
    => lxa_result.record # NoRecord
=============================================================================
