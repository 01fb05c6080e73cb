----------------------------- MODULE MCPreempt ------------------------------
(***************************************************************************)
(* The coordinator on a machine with nothing but a CPU, which has room for *)
(* one lease at a time.                                                    *)
(***************************************************************************)
EXTENDS PreemptCoordinator, TLC

CONSTANT cpu

mcHosts ==
  {[totalRam |-> 4, availRam |-> 2, npus |-> {}, drms |-> [d \in {} |-> {}],
    rank |-> cpu :> 1, hung |-> {}]}


=============================================================================
