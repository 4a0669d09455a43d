------------------------------ MODULE Runnable ------------------------------
(***************************************************************************)
(* gloc::Runnable of include/gloc/parallel.hpp, and its copy in            *)
(* apps/gloria/cubviewer.cc: a std::thread and a stop flag that run() may  *)
(* look at.  Operators on one object; the modules that own such objects    *)
(* say when they are called.                                               *)
(*                                                                         *)
(* thread is "none" (not joinable), "running" (inside run()), or "exited"  *)
(* (run() has returned, nobody has joined it yet).                         *)
(***************************************************************************)

Runnables   == [thread : {"none", "running", "exited"}, stop : BOOLEAN]
NewRunnable == [thread |-> "none", stop |-> FALSE]

Joinable(r) == r.thread # "none"

\* start(); assigning to a thread that is joinable would end the program.
CanStart(r) == ~Joinable(r)
Started(r)  == [r EXCEPT !.thread = "running"]

\* run() returns.
Exited(r) == [r EXCEPT !.thread = "exited"]

\* The flag that stop() sets before it joins.
StopSet(r) == [r EXCEPT !.stop = TRUE]

\* (Mutant: join() does not wait.)
JoinReturns_Always(r) == TRUE

\* join() returns when run() has; on a thread that is not joinable it throws.
JoinReturns(r) == r.thread = "exited"

JoinThrows(r) == ~Joinable(r)

Joined(r) == [r EXCEPT !.thread = "none"]
=============================================================================
