------------------------------ MODULE MCSelect ------------------------------
(***************************************************************************)
(* Model checking of Select: no case, one, and several in both directions, *)
(* two of them on one channel.                                             *)
(***************************************************************************)
EXTENDS Select

CONSTANTS in1, out1   \* two channels

Recv(ch) == [chan |-> ch, dir |-> "recv"]
Send(ch) == [chan |-> ch, dir |-> "send"]

TestLists ==
  {<<>>, <<Recv(in1)>>, <<Recv(in1), Send(out1)>>, <<Recv(in1), Send(out1), Recv(in1)>>}
=============================================================================
