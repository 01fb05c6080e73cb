---------------------------- MODULE MCDiscovery -----------------------------
(***************************************************************************)
(* An accel NPU, a Hailo and a GPU that is absent, discrete or integrated, *)
(* with every combination of presence and crash logs, and plenty of RAM or *)
(* little.                                                                 *)
(***************************************************************************)
EXTENDS Discovery, TLC

CONSTANTS accel0, hailo0, gpu, cpu

mcAccels == {accel0}
mcHailos == {hailo0}
mcDrms == {gpu}

mcRank == (accel0 :> 1) @@ (hailo0 :> 2) @@ (gpu :> 3) @@ (cpu :> 4)

mcGpus ==
  {[d \in {} |-> {}]} \cup
  {[d \in {gpu} |-> [vendor |-> v[1], vram |-> v[2]]] :
     v \in {<<"nvidia", 3>>, <<"amd", 3>>, <<"intel", 0>>}}

mcHosts ==
  [totalRam : {8}, availRam : {2, 6}, npus : SUBSET (mcAccels \cup mcHailos),
   drms : mcGpus, rank : {mcRank}, hung : SUBSET {"hailo", "nvidia"}]
=============================================================================
