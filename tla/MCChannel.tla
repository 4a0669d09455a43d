----------------------------- MODULE MCChannel -----------------------------
(***************************************************************************)
(* Model checking of Channel: threads with the same role are               *)
(* interchangeable, so runs without liveness use them as symmetry sets.    *)
(***************************************************************************)
EXTENDS Channel, TLC

\* Every permutation that keeps each role within itself.
Roles == {SendThreads, RecvThreads, TrySendThreads, TryRecvThreads,
          SelectWaiters, ThrowThreads, SendThrowThreads}

Symmetry ==
  {p \in Permutations(Threads) : \A r \in Roles : {p[t] : t \in r} = r}
=============================================================================
