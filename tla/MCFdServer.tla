----------------------------- MODULE MCFdServer -----------------------------
(***************************************************************************)
(* Three connections, symmetric for the runs without liveness.             *)
(***************************************************************************)
EXTENDS FdServer, TLC

mcSymmetry == Permutations(Conns)
=============================================================================
