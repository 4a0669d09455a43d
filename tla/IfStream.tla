------------------------------ MODULE IfStream ------------------------------
(***************************************************************************)
(* std::ifstream as CuboidFile and LaserxaFile use it: a file of some size *)
(* and a failbit.  Every access seeks first, so that the position between  *)
(* two accesses does not matter.  Seeking beyond the end succeeds, reading *)
(* there sets the failbit, and while it is set neither does anything.      *)
(***************************************************************************)
EXTENDS Integers

NoFile == -1   \* the size of a file that is not there, or not open

Opened(size) == [size |-> size, fail |-> size = NoFile]
Closed(s)    == [s EXCEPT !.size = NoFile]

\* seekg(pos) and tellg().
PositionAt(s, pos) == IF s.fail \/ s.size = NoFile THEN -1 ELSE pos

\* (Mutant: the failbit does not stop a read.)
Complete_IgnoringFail(s, pos, n) == s.size # NoFile /\ pos + n <= s.size

\* seekg(pos) and read(n): all n bytes arrive, or the failbit is set.
Complete(s, pos, n) == ~s.fail /\ s.size # NoFile /\ pos + n <= s.size

AfterRead(s, pos, n) == [s EXCEPT !.fail = ~Complete(s, pos, n)]
=============================================================================
