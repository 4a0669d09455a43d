------------------------------ MODULE MCFiles ------------------------------
(***************************************************************************)
(* Model checking of CuboidFile and LaserxaFile: a program that uses one   *)
(* object of each, as test/fileio_check.cc does, on files that are whole,  *)
(* cut off at any of the places that matter, or made by another writer.    *)
(***************************************************************************)
EXTENDS CuboidFile, LaserxaFile

CubFile(size, v, h, length) ==
  [size |-> size, v_width |-> v, h_width |-> h, length |-> length]

TestCubFiles ==
  {CubFile(512 + 100, 3, 6, 21),   \* two records and a part of a third
   CubFile(512 + 64, 4, 4, 16),    \* records without room for the offset
   CubFile(512 + 72, 3, 5, 18),    \* frames of fifteen pixels
   CubFile(500, 4, 4, 20),         \* cut off before the first record
   CubFile(100, 4, 4, 20),         \* cut off long before it
   CubFile(10, 4, 4, 20),          \* cut off in the header
   CubFile(NoFile, 4, 4, 20),      \* not there
   CubFile(512 + 40, 4, 4, 0),     \* a length of 0
   CubFile(512 + 520, 4, 4, 130)}  \* 2 * length does not fit into uint32_t

\* Not there, empty, cut off in the header, no record, two records, and two
\* and a part of a third.
TestLxaSizes == {NoFile, 0, 2, 8, 40, 50}

FilesInit == CubInit /\ LxaInit

FilesNext == \/ CubNext /\ UNCHANGED lxaVars
             \/ LxaNext /\ UNCHANGED cubVars

FilesSpec == FilesInit /\ [][FilesNext]_<<cubVars, lxaVars>>
=============================================================================
