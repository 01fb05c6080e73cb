------------------------------ MODULE Topology ------------------------------
(***************************************************************************)
(* Hardware discovery: HardwareTopology::discover and the functions it     *)
(* calls (topology/{npu,drm,cpu,pstore,triage}.rs).  Discovery is a pure   *)
(* function of what the kernel shows at that moment, here a "host": the    *)
(* memory counters, the device nodes present, what sysfs says of each      *)
(* render node, and the drivers whose hangs are in the pstore crash logs.  *)
(* A topology is a function from the identifiers of the planes found to    *)
(* records; "rank" is the plane's position in the vector of the code.      *)
(* Memory is counted in an abstract unit (1 GiB in the model checked).     *)
(***************************************************************************)
EXTENDS Naturals

CONSTANTS
  Accels,       \* "npu-accel*": nodes of /dev/accel
  Hailos,       \* "npu-hailo0": /dev/hailo0
  Drms,         \* "drm-renderD*": render nodes of /dev/dri
  Cpu,          \* "cpu-host", which discovery always adds
  AccelBytes,   \* 4 GiB, the fixed size of an accel plane
  HailoBytes,   \* 2 GiB, the fixed size of the Hailo plane
  MinUmaBytes,  \* 1 GiB, the least size of a render node without VRAM
  TriageBytes,  \* CPU_TRIAGE_RESERVED_BYTES, 2 GiB
  Hosts         \* the situations discovery may meet

Planes == Accels \cup Hailos \cup Drms \cup {Cpu}

\* ComputePlaneKind.
Kinds == {"DiscreteGpu", "IntegratedUma", "NpuAccelerator", "CpuMatrixExtension"}

\* The drivers scan_file_for_gpu_hangs can report.
Drivers == {"amdgpu", "xe", "i915", "nvidia", "hailo"}

\* The vendor file of a render node; "none" when it is missing or empty.
Vendors == {"nvidia", "amd", "intel", "other", "none"}

ComputePlane ==
  [kind : Kinds, rank : Nat, total : Nat, avail : Nat,
   reserved : BOOLEAN, quarantined : BOOLEAN]

IsTopology(t) ==
  /\ DOMAIN t \subseteq Planes
  /\ t \in [DOMAIN t -> ComputePlane]
  /\ \A p \in DOMAIN t : t[p].avail <= t[p].total

\* discover appends the accel planes, then Hailo, the render nodes and the CPU;
\* within a class the order is that of read_dir.
Before(p, q) ==
  LET class(r) == IF r \in Accels THEN 1 ELSE IF r \in Hailos THEN 2
                  ELSE IF r \in Drms THEN 3 ELSE 4
  IN class(p) < class(q)

IsHost(h) ==
  /\ h.totalRam \in Nat /\ h.availRam \in Nat
  /\ h.npus \subseteq Accels \cup Hailos
  /\ DOMAIN h.drms \subseteq Drms
  /\ \A d \in DOMAIN h.drms : h.drms[d] \in [vendor : Vendors, vram : Nat]
  /\ h.rank \in [Planes -> Nat]
  /\ \A p, q \in Planes : Before(p, q) => h.rank[p] < h.rank[q]
  /\ \A p, q \in Planes : p # q => h.rank[p] # h.rank[q]
  /\ h.hung \subseteq Drivers

ASSUME SizesAssumption ==
  /\ AccelBytes \in Nat /\ HailoBytes \in Nat
  /\ MinUmaBytes \in Nat /\ TriageBytes \in Nat
ASSUME DevicesAssumption ==
  /\ Accels \cap Hailos = {} /\ (Accels \cup Hailos) \cap Drms = {}
  /\ Cpu \notin Accels \cup Hailos \cup Drms
ASSUME HostsAssumption == Hosts # {} /\ \A h \in Hosts : IsHost(h)

Larger(a, b) == IF a < b THEN b ELSE a
Smaller(a, b) == IF a < b THEN a ELSE b

----------------------------------------------------------------------------
(* What each pass of discovery builds.                                      *)

\* discover_npu_planes: fixed sizes, whatever the device really has.
NpuPlane(h, p) ==
  LET bytes == IF p \in Hailos THEN HailoBytes ELSE AccelBytes
  IN [kind |-> "NpuAccelerator", rank |-> h.rank[p], total |-> bytes,
      avail |-> bytes, reserved |-> FALSE, quarantined |-> FALSE]

\* inspect_drm_sysfs: a node that reports VRAM is discrete; without it, an Intel
\* or nameless node is taken for integrated and any other for discrete, and both
\* get half of the host's RAM.
DrmPlane(h, p) ==
  LET dev == h.drms[p]
      integrated == dev.vram = 0 /\ dev.vendor \in {"intel", "none"}
      total == IF dev.vram > 0 THEN dev.vram
               ELSE Larger(h.totalRam \div 2, MinUmaBytes)
  IN [kind |-> IF integrated THEN "IntegratedUma" ELSE "DiscreteGpu",
      rank |-> h.rank[p], total |-> total,
      avail |-> IF integrated THEN Smaller(h.availRam, total) ELSE total,
      reserved |-> FALSE, quarantined |-> FALSE]

\* build_cpu_plane: three quarters of the available RAM may be leased.
CpuPlane(h) ==
  [kind |-> "CpuMatrixExtension", rank |-> h.rank[Cpu], total |-> h.availRam,
   avail |-> (3 * h.availRam) \div 4, reserved |-> FALSE, quarantined |-> FALSE]

\* The planes found, before the crash logs and the triage enclave.
Enumerated(h) ==
  [p \in h.npus \cup DOMAIN h.drms \cup {Cpu} |->
     IF p = Cpu THEN CpuPlane(h)
     ELSE IF p \in Drms THEN DrmPlane(h, p) ELSE NpuPlane(h, p)]

\* The drivers whose name occurs in the plane's id or name.  The names are the
\* vendors' ("Advanced Micro Devices [AMD/ATI]", "Intel Corporation"), so of the
\* five drivers only nvidia and hailo can match.
DriversNamed(h, p) ==
  CASE p \in Hailos -> {"hailo"}
    [] p \in Drms   -> {"nvidia"} \cap {h.drms[p].vendor}
    [] OTHER        -> {}

\* Step 4 of discover: a plane named after a driver that hung is quarantined.
Quarantine(h, t) ==
  [p \in DOMAIN t |->
     [t[p] EXCEPT !.quarantined = DriversNamed(h, p) \cap h.hung # {}]]

\* The planes of S that come first in the vector: one, or none if S is empty.
FirstOf(t, S) == {p \in S : \A q \in S : t[p].rank <= t[q].rank}

\* Mutation: the crash logs are not looked at.
AssignTriageEnclaveBlindly(t) ==
  [p \in DOMAIN t |->
     IF p \in FirstOf(t, {q \in DOMAIN t : t[q].kind = "NpuAccelerator"})
     THEN [t[p] EXCEPT !.reserved = TRUE] ELSE t[p]]

\* Mutation: a GPU will do where there is no NPU.
AssignTriageEnclaveOnGpu(t) ==
  [p \in DOMAIN t |->
     IF p \in FirstOf(t, {q \in DOMAIN t : t[q].kind # "CpuMatrixExtension"
                                             /\ ~t[q].quarantined})
     THEN [t[p] EXCEPT !.reserved = TRUE] ELSE t[p]]

\* assign_triage_enclave: the first healthy NPU is reserved; without one, a
\* quarter of what the CPU plane offers (at most TriageBytes) is set aside.
AssignTriageEnclave(t) ==
  LET healthy(kind) == {p \in DOMAIN t : t[p].kind = kind /\ ~t[p].quarantined}
      npus == healthy("NpuAccelerator")
      cpus == healthy("CpuMatrixExtension")
      quota(p) == Smaller(TriageBytes, t[p].avail \div 4)
  IN [p \in DOMAIN t |->
        IF p \in FirstOf(t, npus) THEN [t[p] EXCEPT !.reserved = TRUE]
        ELSE IF npus = {} /\ p \in FirstOf(t, cpus)
             THEN [t[p] EXCEPT !.reserved = FALSE, !.avail = @ - quota(p),
                               !.total = @ - quota(p)]
             ELSE t[p]]

Discover(h) == AssignTriageEnclave(Quarantine(h, Enumerated(h)))
=============================================================================
