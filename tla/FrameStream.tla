---------------------------- MODULE FrameStream ----------------------------
(***************************************************************************)
(* What a consumer of frames is promised, whatever stands between it and   *)
(* the file: the items come one by one, in order, none left out and none   *)
(* twice; the end is announced once, after the last item, and nothing      *)
(* comes after it.                                                         *)
(***************************************************************************)
EXTENDS Integers

CONSTANT First   \* the number of the first item

VARIABLES
  last,    \* the item delivered last, First - 1 before there is one
  total,   \* the number of the last item there is
  ended    \* the end has been announced

StreamInit ==
  /\ last = First - 1
  /\ total \in Int
  /\ ended = FALSE

Deliver ==
  /\ ~ended
  /\ last < total
  /\ last' = last + 1
  /\ UNCHANGED <<total, ended>>

End ==
  /\ ~ended
  /\ last >= total
  /\ ended' = TRUE
  /\ UNCHANGED <<last, total>>

StreamVars == <<last, total, ended>>
StreamNext == Deliver \/ End
StreamSpec == StreamInit /\ [][StreamNext]_StreamVars
=============================================================================
