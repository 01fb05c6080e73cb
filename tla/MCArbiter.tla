----------------------------- MODULE MCArbiter ------------------------------
(***************************************************************************)
(* A small machine for TLC: an NPU, an integrated GPU and the CPU, memory  *)
(* in GiB, and two situations discovery may meet.                        *)
(***************************************************************************)
EXTENDS Arbiter, TLC

CONSTANTS npu, igpu, cpu

mcAccels == {npu}
mcHailos == {}
mcDrms == {igpu}

mcRank == (npu :> 1) @@ (igpu :> 2) @@ (cpu :> 3)

Host(ram, npus, drms) ==
  [totalRam |-> 4, availRam |-> ram, npus |-> npus,
   drms |-> [d \in drms |-> [vendor |-> "intel", vram |-> 0]],
   rank |-> mcRank, hung |-> {}]

\* Everything plugged in; only the CPU left, and memory short.
mcHosts == {Host(4, {npu}, {igpu}), Host(3, {}, {})}

mcSymmetry == Permutations(LeaseIds)
=============================================================================
