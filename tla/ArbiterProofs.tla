--------------------------- MODULE ArbiterProofs ----------------------------
(***************************************************************************)
(* Proofs about the arbiter for any hardware, any number of leases and any *)
(* sizes.                                                                  *)
(***************************************************************************)
EXTENDS ArbiterBooks, SumLemmas

(* The planes as they are enumerated are typed and offer at most what they have. *)
LEMMA EnumeratedType ==
  ASSUME NEW h \in Hosts
  PROVE  IsTopology(Enumerated(h))
<1>0. IsHost(h)
  BY HostsAssumption
<1>1. ASSUME NEW p \in h.npus \cup DOMAIN h.drms \cup {Cpu}
      PROVE  p \in Planes /\ h.rank[p] \in Nat
  BY <1>0 DEF IsHost, Planes
<1>2. CpuPlane(h) \in ComputePlane /\ CpuPlane(h).avail <= CpuPlane(h).total
  BY <1>0, <1>1 DEF IsHost, CpuPlane, ComputePlane, Kinds
<1>3. ASSUME NEW p \in DOMAIN h.drms
      PROVE  DrmPlane(h, p) \in ComputePlane /\ DrmPlane(h, p).avail <= DrmPlane(h, p).total
  BY <1>0, <1>1, SizesAssumption
     DEF IsHost, DrmPlane, ComputePlane, Kinds, Larger, Smaller
<1>4. ASSUME NEW p \in h.npus
      PROVE  NpuPlane(h, p) \in ComputePlane /\ NpuPlane(h, p).avail <= NpuPlane(h, p).total
  BY <1>0, <1>1, SizesAssumption DEF IsHost, NpuPlane, ComputePlane, Kinds
<1>5. DOMAIN h.drms \subseteq Drms /\ h.npus \cap Drms = {} /\ Cpu \notin Drms
  BY <1>0, DevicesAssumption DEF IsHost
<1> QED
  BY <1>1, <1>2, <1>3, <1>4, <1>5 DEF Enumerated, IsTopology

(* Discovery: every plane it reports is typed and offers at most what it has. *)
LEMMA DiscoverType ==
  ASSUME NEW h \in Hosts
  PROVE  IsTopology(Discover(h))
<1> DEFINE e == Enumerated(h)
           q == Quarantine(h, e)
<1>1. IsTopology(e)
  BY EnumeratedType
<1>2. IsTopology(q)
  BY <1>1 DEF IsTopology, Quarantine, ComputePlane
<1>3. IsTopology(AssignTriageEnclave(q))
  <2> SUFFICES ASSUME NEW t, IsTopology(t)
               PROVE  IsTopology(AssignTriageEnclave(t))
    BY <1>2
  <2>1. ASSUME NEW p \in DOMAIN t
        PROVE  LET quota == Smaller(TriageBytes, t[p].avail \div 4)
               IN /\ quota \in Nat /\ quota <= t[p].avail
                  /\ t[p].avail - quota <= t[p].total - quota
                  /\ t[p].avail - quota \in Nat /\ t[p].total - quota \in Nat
    <3>1. t[p].avail \in Nat /\ t[p].total \in Nat /\ t[p].avail <= t[p].total
      BY DEF IsTopology, ComputePlane
    <3> QED
      BY <3>1, SizesAssumption DEF Smaller
  <2>2. ASSUME NEW x \in ComputePlane, NEW n \in Nat,
               x.avail <= x.total, x.avail - n \in Nat, x.total - n \in Nat
        PROVE  LET c == [x EXCEPT !.reserved = FALSE, !.avail = x.avail - n,
                                  !.total = x.total - n]
               IN c \in ComputePlane /\ c.avail <= c.total
    <3>1. x.avail \in Nat /\ x.total \in Nat
      BY DEF ComputePlane
    <3>2. x.avail - n <= x.total - n
      BY <2>2, <3>1
    <3> DEFINE a == x.avail - n
               b == x.total - n
    <3>3. a \in Nat /\ b \in Nat /\ a <= b
      BY <2>2, <3>2
    <3> HIDE DEF a, b
    <3>4. ASSUME NEW y \in ComputePlane
          PROVE  [y EXCEPT !.reserved = FALSE] \in ComputePlane
      BY DEF ComputePlane
    <3>5. ASSUME NEW y \in ComputePlane
          PROVE  LET z == [y EXCEPT !.avail = a, !.total = b]
                 IN z \in ComputePlane /\ z.avail = a /\ z.total = b
      BY <3>3 DEF ComputePlane
    <3>6. [x EXCEPT !.reserved = FALSE, !.avail = a, !.total = b]
            = [[x EXCEPT !.reserved = FALSE] EXCEPT !.avail = a, !.total = b]
      BY Zenon
    <3> QED
      BY <3>3, <3>4, <3>5, <3>6, Zenon DEF a, b
  <2>3. ASSUME NEW p \in DOMAIN t
        PROVE  LET a == AssignTriageEnclave(t)[p]
               IN a \in ComputePlane /\ a.avail <= a.total
    <3> DEFINE n == Smaller(TriageBytes, t[p].avail \div 4)
               r == [t[p] EXCEPT !.reserved = TRUE]
               c == [t[p] EXCEPT !.reserved = FALSE, !.avail = t[p].avail - n,
                                 !.total = t[p].total - n]
    <3>1. t[p] \in ComputePlane /\ t[p].avail <= t[p].total
      BY DEF IsTopology
    <3>2. r \in ComputePlane /\ r.avail <= r.total
      BY <3>1 DEF ComputePlane
    <3>3. n \in Nat /\ t[p].avail - n \in Nat /\ t[p].total - n \in Nat
      BY <2>1
    <3> HIDE DEF n
    <3>4. c \in ComputePlane /\ c.avail <= c.total
      BY <2>2, <3>1, <3>3, Zenon
    <3>5. AssignTriageEnclave(t)[p] \in {r, c, t[p]}
      BY DEF AssignTriageEnclave, n
    <3> QED
      BY <3>1, <3>2, <3>4, <3>5
  <2> QED
    <3>1. DOMAIN AssignTriageEnclave(t) = DOMAIN t
      BY DEF AssignTriageEnclave
    <3>2. AssignTriageEnclave(t) = [p \in DOMAIN t |-> AssignTriageEnclave(t)[p]]
      BY DEF AssignTriageEnclave
    <3>3. AssignTriageEnclave(t) \in [DOMAIN t -> ComputePlane]
      BY <2>3, <3>2
    <3> QED
      BY <2>3, <3>1, <3>3 DEF IsTopology
<1> QED
  BY <1>3 DEF Discover

----------------------------------------------------------------------------
(* The enclave.                                                             *)

(* The nodes discovery would report on machine h. *)
Nodes(h) == h.npus \cup DOMAIN h.drms \cup {Cpu}

(* Discovery finds the nodes there are, and so the arbiter offers them. *)
LEMMA DiscoverNodes ==
  ASSUME NEW h
  PROVE  DOMAIN Discover(h) = Nodes(h)
BY DEF Discover, AssignTriageEnclave, Quarantine, Enumerated, Nodes

(* The planes as discovery has them before the enclave is assigned. *)
Found(h) == Quarantine(h, Enumerated(h))

HealthyNpus(h) ==
  {p \in Nodes(h) : Found(h)[p].kind = "NpuAccelerator" /\ ~Found(h)[p].quarantined}

(* What a crash log changes of a plane. *)
LEMMA QuarantineFields ==
  ASSUME NEW r \in ComputePlane, NEW b \in BOOLEAN
  PROVE  /\ [r EXCEPT !.quarantined = b] \in ComputePlane
         /\ [r EXCEPT !.quarantined = b].kind = r.kind
         /\ [r EXCEPT !.quarantined = b].reserved = r.reserved
         /\ b = r.quarantined => [r EXCEPT !.quarantined = b] = r
BY DEF ComputePlane

(* Which planes discovery finds, and of what kind. *)
LEMMA FoundPlanes ==
  ASSUME NEW h \in Hosts
  PROVE  /\ DOMAIN Found(h) = Nodes(h)
         /\ \A p \in h.npus :
              Found(h)[p] = [NpuPlane(h, p) EXCEPT
                               !.quarantined = DriversNamed(h, p) \cap h.hung # {}]
         /\ Found(h)[Cpu] = CpuPlane(h)
         /\ \A p \in Nodes(h) : /\ Found(h)[p] \in ComputePlane
                                /\ Found(h)[p].reserved = FALSE
                                /\ p \notin h.npus => Found(h)[p].kind # "NpuAccelerator"
                                /\ p # Cpu => Found(h)[p].kind # "CpuMatrixExtension"
<1>1. /\ h.npus \subseteq Accels \cup Hailos /\ DOMAIN h.drms \subseteq Drms
      /\ h.npus \cap Drms = {} /\ Cpu \notin h.npus /\ Cpu \notin Drms /\ Cpu \notin Hailos
  BY HostsAssumption, DevicesAssumption DEF IsHost
<1>2. DOMAIN Enumerated(h) = Nodes(h) /\ DOMAIN Found(h) = Nodes(h)
  BY DEF Enumerated, Nodes, Found, Quarantine
<1> DEFINE b(p) == DriversNamed(h, p) \cap h.hung # {}
<1>3. ASSUME NEW p \in Nodes(h)
      PROVE  Found(h)[p] = [Enumerated(h)[p] EXCEPT !.quarantined = b(p)]
  BY <1>2, Zenon DEF Found, Quarantine
<1>4. ASSUME NEW p \in h.npus
      PROVE  p \in Nodes(h) /\ Enumerated(h)[p] = NpuPlane(h, p)
  BY <1>1 DEF Enumerated, Nodes
<1>5. Cpu \in Nodes(h) /\ Enumerated(h)[Cpu] = CpuPlane(h) /\ DriversNamed(h, Cpu) = {}
  BY <1>1 DEF Enumerated, Nodes, DriversNamed
<1>6. ASSUME NEW p \in Nodes(h), p \notin h.npus, p # Cpu
      PROVE  Enumerated(h)[p] = DrmPlane(h, p)
  BY <1>1, <1>6 DEF Enumerated, Nodes
<1>7. ASSUME NEW p \in Nodes(h)
      PROVE  Enumerated(h)[p] \in ComputePlane
  BY <1>2, EnumeratedType DEF IsTopology
<1>8. ASSUME NEW p \in Nodes(h)
      PROVE  /\ Found(h)[p] \in ComputePlane
             /\ Found(h)[p].kind = Enumerated(h)[p].kind
             /\ Found(h)[p].reserved = Enumerated(h)[p].reserved
             /\ b(p) = Enumerated(h)[p].quarantined => Found(h)[p] = Enumerated(h)[p]
  <2> DEFINE r == Enumerated(h)[p]
             c == b(p)
  <2>1. c \in BOOLEAN /\ r \in ComputePlane /\ Found(h)[p] = [r EXCEPT !.quarantined = c]
    BY <1>3, <1>7, Zenon
  <2> HIDE DEF r, c
  <2>2. /\ [r EXCEPT !.quarantined = c] \in ComputePlane
        /\ [r EXCEPT !.quarantined = c].kind = r.kind
        /\ [r EXCEPT !.quarantined = c].reserved = r.reserved
        /\ c = r.quarantined => [r EXCEPT !.quarantined = c] = r
    BY <2>1, QuarantineFields, Zenon
  <2> QED
    BY <2>1, <2>2, Zenon DEF r, c
<1>9. Found(h)[Cpu] = CpuPlane(h)
  <2>1. b(Cpu) = FALSE /\ CpuPlane(h).quarantined = FALSE
    BY <1>5 DEF CpuPlane
  <2> QED
    BY <1>5, <1>8, <2>1
<1>10. ASSUME NEW p \in Nodes(h)
       PROVE  /\ Found(h)[p].reserved = FALSE
              /\ p \notin h.npus => Found(h)[p].kind # "NpuAccelerator"
              /\ p # Cpu => Found(h)[p].kind # "CpuMatrixExtension"
  <2>1. CASE p = Cpu
    BY <1>1, <1>9, <2>1 DEF CpuPlane
  <2>2. CASE p \in h.npus
    <3>1. /\ NpuPlane(h, p).kind = "NpuAccelerator"
          /\ NpuPlane(h, p).reserved = FALSE
          /\ Enumerated(h)[p] = NpuPlane(h, p)
      BY <1>4, <2>2, Zenon DEF NpuPlane
    <3>2. /\ Found(h)[p].kind = Enumerated(h)[p].kind
          /\ Found(h)[p].reserved = Enumerated(h)[p].reserved
      BY <1>8
    <3> QED
      BY <1>1, <2>2, <3>1, <3>2
  <2>3. CASE p # Cpu /\ p \notin h.npus
    <3>1. /\ DrmPlane(h, p).kind \in {"IntegratedUma", "DiscreteGpu"}
          /\ DrmPlane(h, p).reserved = FALSE
      BY DEF DrmPlane
    <3>2. Enumerated(h)[p] = DrmPlane(h, p)
      BY <1>6, <2>3
    <3>3. /\ Found(h)[p].kind = Enumerated(h)[p].kind
          /\ Found(h)[p].reserved = Enumerated(h)[p].reserved
      BY <1>8
    <3> QED
      BY <2>3, <3>1, <3>2, <3>3
  <2> QED
    BY <2>1, <2>2, <2>3
<1>11. ASSUME NEW p \in h.npus
       PROVE  Found(h)[p] = [NpuPlane(h, p) EXCEPT !.quarantined = b(p)]
  BY <1>3, <1>4, Zenon
<1> QED
  BY <1>2, <1>8, <1>9, <1>10, <1>11, Zenon

(* What the assignment of the enclave changes of a plane. *)
LEMMA TriageFields ==
  ASSUME NEW r \in ComputePlane, NEW a, NEW b
  PROVE  /\ [r EXCEPT !.reserved = TRUE].kind = r.kind
         /\ [r EXCEPT !.reserved = TRUE].rank = r.rank
         /\ [r EXCEPT !.reserved = TRUE].quarantined = r.quarantined
         /\ [r EXCEPT !.reserved = TRUE].reserved = TRUE
         /\ [r EXCEPT !.reserved = FALSE, !.avail = a, !.total = b].kind = r.kind
         /\ [r EXCEPT !.reserved = FALSE, !.avail = a, !.total = b].rank = r.rank
         /\ [r EXCEPT !.reserved = FALSE, !.avail = a, !.total = b].quarantined = r.quarantined
         /\ [r EXCEPT !.reserved = FALSE, !.avail = a, !.total = b].reserved = FALSE
BY Zenon DEF ComputePlane

(* The planes that discovery reserves: the first healthy NPU, if any. *)
First(h) == FirstOf(Found(h), HealthyNpus(h))

(* The CPU plane less its triage partition. *)
Partitioned(c) ==
  LET quota == Smaller(TriageBytes, c.avail \div 4)
  IN [c EXCEPT !.reserved = FALSE, !.avail = @ - quota, !.total = @ - quota]

LEMMA PartitionedFields ==
  ASSUME NEW c \in ComputePlane
  PROVE  /\ Partitioned(c).kind = c.kind /\ Partitioned(c).rank = c.rank
         /\ Partitioned(c).quarantined = c.quarantined
         /\ Partitioned(c).reserved = FALSE
<1> DEFINE quota == Smaller(TriageBytes, c.avail \div 4)
           a == c.avail - quota
           b == c.total - quota
<1>1. Partitioned(c) = [c EXCEPT !.reserved = FALSE, !.avail = a, !.total = b]
  BY DEF Partitioned
<1> HIDE DEF a, b
<1>2. /\ [c EXCEPT !.reserved = FALSE, !.avail = a, !.total = b].kind = c.kind
      /\ [c EXCEPT !.reserved = FALSE, !.avail = a, !.total = b].rank = c.rank
      /\ [c EXCEPT !.reserved = FALSE, !.avail = a, !.total = b].quarantined = c.quarantined
      /\ [c EXCEPT !.reserved = FALSE, !.avail = a, !.total = b].reserved = FALSE
  BY TriageFields
<1> QED
  BY <1>1, <1>2, Zenon

(* How discovery assigns the enclave. *)
LEMMA Assigned ==
  ASSUME NEW h \in Hosts
  PROVE  /\ Cpu \in Nodes(h) /\ Cpu \notin First(h) /\ First(h) \subseteq h.npus \cap Nodes(h)
         /\ \A p \in First(h) : Discover(h)[p] = [Found(h)[p] EXCEPT !.reserved = TRUE]
         /\ Discover(h)[Cpu] =
              IF HealthyNpus(h) = {} THEN Partitioned(Found(h)[Cpu]) ELSE Found(h)[Cpu]
         /\ \A p \in Nodes(h) \ (First(h) \cup {Cpu}) : Discover(h)[p] = Found(h)[p]
<1>1. /\ DOMAIN Found(h) = Nodes(h) /\ Cpu \in Nodes(h)
      /\ Found(h)[Cpu] = CpuPlane(h)
      /\ \A p \in Nodes(h) : /\ p \notin h.npus => Found(h)[p].kind # "NpuAccelerator"
                             /\ p # Cpu => Found(h)[p].kind # "CpuMatrixExtension"
  BY FoundPlanes DEF Nodes
<1>2. /\ CpuPlane(h).kind = "CpuMatrixExtension" /\ ~CpuPlane(h).quarantined
      /\ CpuPlane(h).rank \in Nat
  BY HostsAssumption DEF CpuPlane, IsHost, Planes
<1>3. First(h) \subseteq HealthyNpus(h) /\ HealthyNpus(h) \subseteq h.npus \cap Nodes(h)
  BY <1>1 DEF First, FirstOf, HealthyNpus
<1>4. Cpu \notin HealthyNpus(h)
  BY <1>1, <1>2 DEF HealthyNpus
<1> DEFINE t == Found(h)
           cpus == {p \in DOMAIN t : t[p].kind = "CpuMatrixExtension" /\ ~t[p].quarantined}
<1>5. cpus = {Cpu}
  BY <1>1, <1>2
<1>6. FirstOf(t, cpus) = {Cpu}
  BY <1>1, <1>2, <1>5 DEF FirstOf
<1>7. HealthyNpus(h) = {p \in DOMAIN t : t[p].kind = "NpuAccelerator" /\ ~t[p].quarantined}
  BY <1>1 DEF HealthyNpus
<1>8. Discover(h) = AssignTriageEnclave(t)
  BY DEF Discover, Found
<1> HIDE DEF t
<1>9. AssignTriageEnclave(t) =
        [p \in DOMAIN t |->
           IF p \in FirstOf(t, HealthyNpus(h)) THEN [t[p] EXCEPT !.reserved = TRUE]
           ELSE IF HealthyNpus(h) = {} /\ p \in FirstOf(t, cpus)
                THEN Partitioned(t[p]) ELSE t[p]]
  BY <1>7, Zenon DEF AssignTriageEnclave, Partitioned
<1>10. ASSUME NEW p \in Nodes(h)
       PROVE  Discover(h)[p] =
                IF p \in First(h) THEN [Found(h)[p] EXCEPT !.reserved = TRUE]
                ELSE IF HealthyNpus(h) = {} /\ p = Cpu
                     THEN Partitioned(Found(h)[p]) ELSE Found(h)[p]
  <2>1. p \in DOMAIN t /\ (p \in FirstOf(t, cpus) <=> p = Cpu) /\ First(h) = FirstOf(t, HealthyNpus(h))
    BY <1>1, <1>6 DEF t, First
  <2> HIDE DEF cpus
  <2> QED
    BY <1>8, <1>9, <2>1, Zenon DEF t
<1> QED
  BY <1>1, <1>3, <1>4, <1>10, Zenon

(* Emergencies go to the first healthy NPU and, where there is none, to the CPU. *)
LEMMA EnclavePlane ==
  ASSUME NEW h \in Hosts
  PROVE  EmergencyPlane(Discover(h)) = IF First(h) # {} THEN First(h) ELSE {Cpu}
<1> DEFINE d == Discover(h)
<1>1. DOMAIN d = Nodes(h) /\ Cpu \in Nodes(h) /\ First(h) \subseteq Nodes(h) /\ Cpu \notin First(h)
  BY DiscoverNodes, Assigned
<1>2. ASSUME NEW p \in Nodes(h)
      PROVE  /\ d[p].kind = Found(h)[p].kind /\ d[p].rank = Found(h)[p].rank
             /\ p \in First(h) => d[p].reserved = TRUE
             /\ p \notin First(h) => d[p].reserved = FALSE
  <2>1. Found(h)[p] \in ComputePlane /\ Found(h)[p].reserved = FALSE
    BY FoundPlanes
  <2>2. CASE p \in First(h)
    <3>1. d[p] = [Found(h)[p] EXCEPT !.reserved = TRUE]
      BY <2>2, Assigned
    <3> QED
      BY <2>1, <2>2, <3>1, TriageFields, Zenon
  <2>3. CASE p = Cpu
    <3>1. d[p] = Partitioned(Found(h)[p]) \/ d[p] = Found(h)[p]
      BY <2>3, Assigned
    <3>2. CASE d[p] = Found(h)[p]
      BY <1>1, <2>1, <2>3, <3>2, Zenon
    <3>3. CASE d[p] = Partitioned(Found(h)[p])
      BY <1>1, <2>1, <2>3, <3>3, PartitionedFields, Zenon
    <3> QED
      BY <3>1, <3>2, <3>3
  <2>4. CASE p \notin First(h) \cup {Cpu}
    <3>1. d[p] = Found(h)[p]
      BY <2>4, Assigned
    <3> QED
      BY <2>1, <2>4, <3>1, Zenon
  <2> QED
    BY <2>2, <2>3, <2>4
<1>3. /\ Found(h)[Cpu].kind = "CpuMatrixExtension"
      /\ \A p \in Nodes(h) \ {Cpu} : Found(h)[p].kind # "CpuMatrixExtension"
      /\ \A p \in Nodes(h) : Found(h)[p].rank \in Nat
  <2>1. Found(h)[Cpu] = CpuPlane(h) /\ CpuPlane(h).kind = "CpuMatrixExtension"
    BY FoundPlanes DEF CpuPlane
  <2>2. \A p \in Nodes(h) : /\ Found(h)[p] \in ComputePlane
                            /\ p # Cpu => Found(h)[p].kind # "CpuMatrixExtension"
    BY FoundPlanes
  <2> QED
    BY <2>1, <2>2 DEF ComputePlane
<1> HIDE DEF d
<1>4. {p \in DOMAIN d : d[p].reserved} = First(h)
  <2>1. ASSUME NEW p \in DOMAIN d
        PROVE  d[p].reserved <=> p \in First(h)
    BY <1>1, <1>2, Zenon
  <2> QED
    BY <1>1, <2>1, Zenon
<1>5. {p \in DOMAIN d : d[p].kind = "CpuMatrixExtension"} = {Cpu}
  BY <1>1, <1>2, <1>3
<1>6. FirstOf(d, First(h)) = First(h)
  <2>1. ASSUME NEW p \in First(h), NEW q \in First(h)
        PROVE  d[p].rank <= d[q].rank
    <3>1. Found(h)[p].rank <= Found(h)[q].rank
      BY DEF First, FirstOf
    <3> QED
      BY <1>1, <1>2, <3>1
  <2> QED
    BY <2>1 DEF FirstOf
<1>7. FirstOf(d, {Cpu}) = {Cpu}
  <2>1. d[Cpu].rank \in Nat
    BY <1>1, <1>2, <1>3, Zenon
  <2> QED
    BY <2>1 DEF FirstOf
<1>8. EmergencyPlane(d) = IF First(h) # {} THEN First(h) ELSE {Cpu}
  BY <1>4, <1>5, <1>6, <1>7, Zenon DEF EmergencyPlane
<1> QED
  BY <1>8 DEF d

----------------------------------------------------------------------------
(* Memory.                                                                  *)

(* Deductions keep a topology well formed, whatever is subtracted. *)
LEMMA DeductType ==
  ASSUME NEW t, IsTopology(t), NEW p, NEW b
  PROVE  IsTopology(Deduct(t, p, b)) /\ DOMAIN Deduct(t, p, b) = DOMAIN t
<1>1. ASSUME NEW a \in Nat
      PROVE  SaturatingSub(a, b) \in Nat /\ SaturatingSub(a, b) <= a
  BY DEF SaturatingSub
<1> QED
  BY <1>1 DEF Deduct, IsTopology, ComputePlane

(* So do credits, which stop at the plane's size. *)
LEMMA RestoreType ==
  ASSUME NEW t, IsTopology(t), NEW p, NEW b
  PROVE  /\ IsTopology(RestorePlaneMemory(t, p, b))
         /\ DOMAIN RestorePlaneMemory(t, p, b) = DOMAIN t
<1>1. ASSUME NEW a, NEW total \in Nat
      PROVE  Credited(a, b, total) \in Nat /\ Credited(a, b, total) <= total
  BY DEF Credited
<1> QED
  BY <1>1 DEF RestorePlaneMemory, IsTopology, ComputePlane

(* The plane a request is served from is a plane of the topology. *)
LEMMA TargetExists ==
  ASSUME NEW prio, NEW pref, NEW p \in TargetPlane(prio, pref)
  PROVE  p \in DOMAIN topology
BY DEF TargetPlane, EmergencyPlane, DefaultPlane, LastMax, FirstOf

(* Only active leases on the plane asked for, of lower priority, are preempted. *)
LEMMA VictimsPreemptable ==
  ASSUME NEW p, NEW prio, NEW bytes, NEW V \in Victims(p, prio, bytes)
  PROVE  V \subseteq Preemptable(p, prio)
BY DEF Victims

(* Marking leases as preempted keeps them typed, and on the planes they are on. *)
LEMMA MarkType ==
  ASSUME TypeOK, NEW p, NEW prio, NEW V \in SUBSET Preemptable(p, prio)
  PROVE  /\ DOMAIN MarkPreempted(V) = DOMAIN leases
         /\ MarkPreempted(V) \in [DOMAIN leases -> ComputeLease]
         /\ \A l \in DOMAIN leases :
              IsLive(MarkPreempted(V)[l]) => leases[l].plane \in DOMAIN topology
         /\ \A l \in DOMAIN leases : MarkPreempted(V)[l].plane = leases[l].plane
BY DEF TypeOK, MarkPreempted, ComputeLease, LeaseStates, IsLive, IsActive, Preemptable

\* The map of leases is finite.
Finite == IsFiniteSet(DOMAIN leases)

(* It stays so, for a grant adds one lease. *)
LEMMA FiniteStep ==
  ASSUME Finite, [Next]_vars
  PROVE  Finite'
<1>1. CASE DOMAIN leases' = DOMAIN leases
  BY <1>1 DEF Finite
<1>2. ASSUME NEW psi, NEW prio, NEW bytes, NEW pref, NEW unit,
             AcquireGranted(psi, prio, bytes, pref, unit)
      PROVE  Finite'
  <2>1. PICK V, id : DOMAIN leases' = DOMAIN Prune(MarkPreempted(V)) \cup {id}
    BY <1>2 DEF AcquireGranted
  <2>2. DOMAIN Prune(MarkPreempted(V)) \subseteq DOMAIN leases
    BY DEF Prune, MarkPreempted
  <2> QED
    BY <2>1, <2>2, FS_Subset, FS_AddElement DEF Finite
<1>3. ASSUME NEW psi, NEW prio, NEW bytes, NEW pref,
             AcquireExhausted(psi, prio, bytes, pref)
      PROVE  DOMAIN leases' = DOMAIN leases
  BY <1>3 DEF AcquireExhausted, MarkPreempted
<1>4. ASSUME Manage PROVE DOMAIN leases' = DOMAIN leases
  BY <1>4 DEF Manage, ReleaseLease, RevokeLease, YieldLease, FreezeLease,
              ThawPreempted, ThawSuspended, SetState
<1>5. ASSUME NEW h, UpdateTopology(h) PROVE DOMAIN leases' = DOMAIN leases
  BY <1>5 DEF UpdateTopology
<1>6. ASSUME AcquireRejected \/ UNCHANGED vars PROVE DOMAIN leases' = DOMAIN leases
  BY <1>6 DEF AcquireRejected, vars
<1> QED
  BY <1>1, <1>2, <1>3, <1>4, <1>5, <1>6 DEF Next, Acquire

(* So the bytes of some leases are a natural. *)
LEMMA BytesNat ==
  ASSUME TypeOK, Finite, NEW V \in SUBSET DOMAIN leases
  PROVE  Bytes(leases, V) \in Nat
<1> DEFINE f == [l \in DOMAIN leases |-> leases[l].bytes]
<1>1. \A l \in V : f[l] \in Nat
  BY ArbiterAssumption DEF TypeOK, ComputeLease
<1>2. IsFiniteSet(V)
  BY FS_Subset DEF Finite
<1> HIDE DEF f
<1>3. SumFunctionOnSet(f, V) \in Nat
  BY <1>1, <1>2, SumNat
<1> QED
  BY <1>3 DEF Bytes, f

(* What the credit of the victims does to each plane. *)
LEMMA RestoreVictimsType ==
  ASSUME TypeOK, Finite, NEW p, NEW V \in SUBSET DOMAIN leases
  PROVE  /\ IsTopology(RestoreVictims(p, V))
         /\ DOMAIN RestoreVictims(p, V) = DOMAIN topology
<1> DEFINE b == Bytes(leases, V)
<1>1. b \in Nat
  BY BytesNat
<1> HIDE DEF b
<1>2. RestoreVictims(p, V) =
        [q \in DOMAIN topology |->
           IF Backs(topology, p, q)
           THEN [topology[q] EXCEPT !.avail = Smaller(@ + b, topology[q].total)]
           ELSE topology[q]]
  BY DEF RestoreVictims, b
<1>3. ASSUME NEW a \in Nat, NEW total \in Nat
      PROVE  Smaller(a + b, total) \in Nat /\ Smaller(a + b, total) <= total
  BY <1>1 DEF Smaller
<1> QED
  BY <1>2, <1>3 DEF TypeOK, IsTopology, ComputePlane

(* Initially the arbiter has what discovery found, and no lease. *)
LEMMA TypeInit == Init => TypeOK
<1> SUFFICES ASSUME Init PROVE TypeOK
  OBVIOUS
<1>1. IsTopology(topology)
  BY DiscoverType DEF Init
<1> QED
  BY <1>1 DEF Init, TypeOK

(* Every operation keeps the types. *)
LEMMA TypeStep == TypeOK /\ Finite /\ [Next]_vars => TypeOK'
<1> SUFFICES ASSUME TypeOK, Finite, [Next]_vars PROVE TypeOK'
  OBVIOUS
<1>1. ASSUME AcquireRejected
      PROVE  TypeOK'
  BY <1>1 DEF AcquireRejected, vars, TypeOK
<1>2. ASSUME NEW psi, NEW prio, NEW bytes, NEW pref,
             AcquireExhausted(psi, prio, bytes, pref)
      PROVE  TypeOK'
  <2>1. PICK p \in TargetPlane(prio, pref) : \E V \in Victims(p, prio, bytes) :
          /\ leases' = MarkPreempted(V)
          /\ topology' = RestoreVictims(p, V)
    BY <1>2 DEF AcquireExhausted
  <2>2. PICK V \in Victims(p, prio, bytes) :
          /\ leases' = MarkPreempted(V)
          /\ topology' = RestoreVictims(p, V)
    BY <2>1
  <2>3. V \in SUBSET Preemptable(p, prio) /\ V \in SUBSET DOMAIN leases
    BY VictimsPreemptable DEF Preemptable
  <2>4. IsTopology(topology') /\ DOMAIN topology' = DOMAIN topology
    BY <2>2, <2>3, RestoreVictimsType
  <2>5. issued' = issued /\ frozen' = frozen
    BY <1>2 DEF AcquireExhausted
  <2> QED
    BY <2>2, <2>3, <2>4, <2>5, MarkType DEF TypeOK
<1>3. ASSUME NEW psi, NEW prio \in Priorities, NEW bytes \in Sizes, NEW pref,
             NEW unit \in Units \cup {NoUnit},
             AcquireGranted(psi, prio, bytes, pref, unit)
      PROVE  TypeOK'
  <2>0. PICK p \in TargetPlane(prio, pref) :
          \E V \in Victims(p, prio, bytes), id \in LeaseIds \ issued :
          LET kept == Prune(MarkPreempted(V))
              lease == [plane |-> p, bytes |-> bytes, prio |-> prio,
                        unit |-> unit, state |-> "Active"]
          IN /\ leases' = [l \in DOMAIN kept \cup {id} |->
                             IF l = id THEN lease ELSE kept[l]]
             /\ issued' = issued \cup {id}
             /\ topology' = Deduct(RestoreVictims(p, V), p, bytes)
             /\ frozen' = frozen \cup FreezeUnits(V)
    BY <1>3 DEF AcquireGranted
  <2>1. PICK V \in Victims(p, prio, bytes), id \in LeaseIds \ issued :
          LET kept == Prune(MarkPreempted(V))
              lease == [plane |-> p, bytes |-> bytes, prio |-> prio,
                        unit |-> unit, state |-> "Active"]
          IN /\ leases' = [l \in DOMAIN kept \cup {id} |->
                             IF l = id THEN lease ELSE kept[l]]
             /\ issued' = issued \cup {id}
             /\ topology' = Deduct(RestoreVictims(p, V), p, bytes)
             /\ frozen' = frozen \cup FreezeUnits(V)
    BY <2>0
  <2> DEFINE kept == Prune(MarkPreempted(V))
             lease == [plane |-> p, bytes |-> bytes, prio |-> prio,
                       unit |-> unit, state |-> "Active"]
  <2>2. IsTopology(topology') /\ DOMAIN topology' = DOMAIN topology
    BY <2>1, VictimsPreemptable, RestoreVictimsType, DeductType DEF Preemptable
  <2>3. V \in SUBSET Preemptable(p, prio)
    BY VictimsPreemptable
  <2>4. /\ DOMAIN kept \subseteq DOMAIN leases
        /\ kept \in [DOMAIN kept -> ComputeLease]
        /\ \A l \in DOMAIN kept :
             IsLive(kept[l]) => kept[l].plane \in DOMAIN topology
    BY <2>3, MarkType DEF Prune
  <2>5. lease \in ComputeLease /\ lease.plane \in DOMAIN topology
    BY TargetExists DEF ComputeLease, LeaseStates, TypeOK, IsTopology
  <2>6. leases' \in [DOMAIN leases' -> ComputeLease]
    BY <2>1, <2>4, <2>5
  <2>7. \A l \in DOMAIN leases' :
          IsLive(leases'[l]) => leases'[l].plane \in DOMAIN topology'
    BY <2>1, <2>2, <2>4, <2>5
  <2>8. DOMAIN leases' \subseteq issued' /\ issued' \subseteq LeaseIds
    BY <2>1, <2>4 DEF TypeOK
  <2>9. frozen' \subseteq Freezable
    BY <2>1 DEF TypeOK, FreezeUnits
  <2> QED
    BY <2>2, <2>6, <2>7, <2>8, <2>9 DEF TypeOK, IsLive, IsActive
<1>4. ASSUME NEW id \in DOMAIN leases, NEW s \in LeaseStates,
             SetState(id, s), IsLive(leases[id]),
             IsTopology(topology'), DOMAIN topology' = DOMAIN topology,
             UNCHANGED <<issued, frozen>>
      PROVE  TypeOK'
  BY <1>4 DEF TypeOK, SetState, ComputeLease, IsLive, IsActive
<1>5. ASSUME NEW id \in DOMAIN leases, ReturnMemory(id)
      PROVE  IsTopology(topology') /\ DOMAIN topology' = DOMAIN topology
  BY <1>5, RestoreType DEF ReturnMemory, TypeOK
<1>6. ASSUME NEW id \in DOMAIN leases,
             \/ ReleaseLease(id) \/ RevokeLease(id) \/ YieldLease(id)
             \/ FreezeLease(id) \/ ThawSuspended(id) \/ ThawPreempted(id)
      PROVE  TypeOK'
  <2>1. CASE ReleaseLease(id)
    BY <2>1, <1>4, <1>5 DEF ReleaseLease, LeaseStates
  <2>2. CASE RevokeLease(id)
    BY <2>2, <1>4, <1>5 DEF RevokeLease, LeaseStates
  <2>3. CASE YieldLease(id)
    BY <2>3, <1>4 DEF YieldLease, LeaseStates, IsLive, TypeOK
  <2>4. CASE FreezeLease(id)
    BY <2>4, <1>4 DEF FreezeLease, LeaseStates, IsLive, TypeOK
  <2>5. CASE ThawSuspended(id)
    BY <2>5, <1>4 DEF ThawSuspended, LeaseStates, IsLive, IsActive, TypeOK
  <2>6. CASE ThawPreempted(id)
    <3>1. IsTopology(topology') /\ DOMAIN topology' = DOMAIN topology
      BY <2>6, DeductType DEF ThawPreempted, TypeOK
    <3> QED
      BY <2>6, <3>1, <1>4 DEF ThawPreempted, LeaseStates, IsLive
  <2> QED
    BY <1>6, <2>1, <2>2, <2>3, <2>4, <2>5, <2>6
<1>7. ASSUME NEW h \in Hosts, UpdateTopology(h)
      PROVE  TypeOK'
  <2> DEFINE t == Discover(h)
  <2>1. IsTopology(t)
    BY DiscoverType
  <2>2. ASSUME NEW a \in Nat, NEW b
        PROVE  SaturatingSub(a, b) \in Nat /\ SaturatingSub(a, b) <= a
    BY DEF SaturatingSub
  <2>3. topology' = [q \in DOMAIN t |->
           [t[q] EXCEPT !.avail = SaturatingSub(@, Charged(t, leases, q))]]
    BY <1>7 DEF UpdateTopology
  <2> HIDE DEF t
  <2>4. IsTopology(topology') /\ DOMAIN topology' = DOMAIN t
    BY <2>1, <2>2, <2>3 DEF IsTopology, ComputePlane
  <2>5. /\ leases' = [l \in DOMAIN leases |->
                        IF IsLive(leases[l]) /\ leases[l].plane \notin DOMAIN t
                        THEN [leases[l] EXCEPT !.state = "Revoked"] ELSE leases[l]]
        /\ issued' = issued /\ frozen' = frozen
    BY <1>7 DEF UpdateTopology, t
  <2> QED
    BY <2>4, <2>5 DEF TypeOK, ComputeLease, LeaseStates, IsLive, IsActive
<1>8. CASE UNCHANGED vars
  BY <1>8 DEF vars, TypeOK
<1> QED
  BY <1>1, <1>2, <1>3, <1>6, <1>7, <1>8 DEF Next, Acquire, Manage

(* Type correctness: no sequence of requests, releases, preemptions, thaws and
   topology changes takes the arbiter out of TypeOK (arbiter.rs). *)
THEOREM TypeCorrect == Spec => []TypeOK
<1>1. Init => Finite
  BY FS_EmptySet DEF Init, Finite
<1>2. Finite /\ [Next]_vars => Finite'
  BY FiniteStep
<1> QED
  BY <1>1, <1>2, TypeInit, TypeStep, PTL DEF Spec

(* One fresh lease, the leases that lost their memory to it, and the rest as they
   were, except that leases that are over may be gone. *)
GrantEffect(p, V, id, prio, bytes) ==
  /\ issued' = issued \cup {id}
  /\ id \in DOMAIN leases'
  /\ leases'[id].state = "Active" /\ leases'[id].plane = p
  /\ leases'[id].prio = prio /\ leases'[id].bytes = bytes
  /\ DOMAIN leases' \subseteq DOMAIN leases \cup {id}
  /\ \A l \in DOMAIN leases' \ {id} : leases'[l] = MarkPreempted(V)[l]
  /\ \A l \in DOMAIN leases \ DOMAIN leases' : ~IsLive(MarkPreempted(V)[l])

(* What granting a lease does to the map of leases. *)
LEMMA GrantedStep ==
  ASSUME TypeOK, NEW psi, NEW prio \in Priorities, NEW bytes \in Sizes, NEW pref,
         NEW unit \in Units \cup {NoUnit},
         AcquireGranted(psi, prio, bytes, pref, unit)
  PROVE  \E p \in DOMAIN topology : \E V \in Victims(p, prio, bytes),
            id \in LeaseIds \ issued : GrantEffect(p, V, id, prio, bytes)
<1>1. PICK p \in TargetPlane(prio, pref) :
        \E V \in Victims(p, prio, bytes), id \in LeaseIds \ issued :
          LET kept == Prune(MarkPreempted(V))
              lease == [plane |-> p, bytes |-> bytes, prio |-> prio,
                        unit |-> unit, state |-> "Active"]
          IN /\ leases' = [l \in DOMAIN kept \cup {id} |->
                             IF l = id THEN lease ELSE kept[l]]
             /\ issued' = issued \cup {id}
  BY DEF AcquireGranted
<1>2. PICK V \in Victims(p, prio, bytes), id \in LeaseIds \ issued :
          LET kept == Prune(MarkPreempted(V))
              lease == [plane |-> p, bytes |-> bytes, prio |-> prio,
                        unit |-> unit, state |-> "Active"]
          IN /\ leases' = [l \in DOMAIN kept \cup {id} |->
                             IF l = id THEN lease ELSE kept[l]]
             /\ issued' = issued \cup {id}
  BY <1>1
<1>3. DOMAIN MarkPreempted(V) = DOMAIN leases
  BY DEF MarkPreempted
<1>4. /\ DOMAIN Prune(MarkPreempted(V)) \subseteq DOMAIN leases
      /\ \A l \in DOMAIN Prune(MarkPreempted(V)) :
           Prune(MarkPreempted(V))[l] = MarkPreempted(V)[l]
      /\ \A l \in DOMAIN leases \ DOMAIN Prune(MarkPreempted(V)) :
           ~IsLive(MarkPreempted(V)[l])
  BY <1>3 DEF Prune
<1>5. id \notin DOMAIN leases
  BY DEF TypeOK
<1>6. p \in DOMAIN topology
  BY TargetExists
<1>7. GrantEffect(p, V, id, prio, bytes)
  BY <1>2, <1>4, <1>5 DEF GrantEffect
<1> QED
  BY <1>6, <1>7

(* The arbiter implements LeaseLifecycle: an id is granted once, a lease that is
   over stays over, and pruning drops only leases that are over (arbiter.rs:131). *)
THEOREM LifecycleImplemented == Spec => ImplementsLifecycle
<1>1. Init => Lifecycle!LInit
  BY DEF Init, Lifecycle!LInit, Status
<1>2. TypeOK /\ [Next]_vars => [Lifecycle!LNext]_Status
  <2> SUFFICES ASSUME TypeOK, [Next]_vars
               PROVE  Lifecycle!LNext \/ Status' = Status
    OBVIOUS
  <2> USE DEF Lifecycle!LNext, Lifecycle!InStatus, Lifecycle!Move
  <2>1. ASSUME AcquireRejected
        PROVE  Status' = Status
    BY <2>1 DEF AcquireRejected, vars, Status
  <2>2. ASSUME NEW psi, NEW prio, NEW bytes, NEW pref,
               AcquireExhausted(psi, prio, bytes, pref)
        PROVE  Lifecycle!LNext
    <3>1. PICK p \in TargetPlane(prio, pref) :
            \E V \in Victims(p, prio, bytes) : leases' = MarkPreempted(V)
      BY <2>2 DEF AcquireExhausted
    <3>2. PICK V \in Victims(p, prio, bytes) : leases' = MarkPreempted(V)
      BY <3>1
    <3>3. V \in SUBSET {l \in DOMAIN leases : IsActive(leases[l])}
      BY VictimsPreemptable DEF Preemptable
    <3>4. V \in SUBSET Lifecycle!InStatus("held")
      BY <3>3 DEF TypeOK, Status
    <3>5. Lifecycle!Park(V)
      BY <2>2, <3>2, <3>3 DEF AcquireExhausted, Lifecycle!Park, Status, MarkPreempted,
           IsActive, TypeOK, ComputeLease
    <3> QED
      BY <3>4, <3>5
  <2>3. ASSUME NEW psi, NEW prio \in Priorities, NEW bytes \in Sizes, NEW pref,
               NEW unit \in Units \cup {NoUnit},
               AcquireGranted(psi, prio, bytes, pref, unit)
        PROVE  Lifecycle!LNext
    <3>1. PICK p \in DOMAIN topology : \E V \in Victims(p, prio, bytes),
            id \in LeaseIds \ issued : GrantEffect(p, V, id, prio, bytes)
      BY <2>3, GrantedStep
    <3>2. PICK V \in Victims(p, prio, bytes), id \in LeaseIds \ issued :
            GrantEffect(p, V, id, prio, bytes)
      BY <3>1
    <3>3. V \in SUBSET {l \in DOMAIN leases : IsActive(leases[l])}
      BY VictimsPreemptable DEF Preemptable
    <3>4. V \in SUBSET Lifecycle!InStatus("held")
      BY <3>3 DEF TypeOK, Status
    <3>5. Lifecycle!Grant(id, V)
      <4>1. Status[id] = "unissued" /\ Status'[id] = "held"
        BY <3>2 DEF Status, IsActive, GrantEffect
      <4>2. ASSUME NEW l \in LeaseIds \ {id}
            PROVE  Status'[l] = IF l \in V THEN "parked" ELSE Status[l]
        <5>1. CASE l \in V
          <6>1. l \in DOMAIN leases /\ leases[l] \in ComputeLease /\ l \in issued
            BY <5>1, <3>3 DEF TypeOK
          <6>2. MarkPreempted(V)[l].state = "Preempted"
            BY <5>1, <6>1 DEF MarkPreempted, ComputeLease
          <6>3. /\ l \in DOMAIN leases' /\ l \in issued'
                /\ leases'[l].state = "Preempted"
            BY <6>1, <6>2, <3>2 DEF GrantEffect, IsLive
          <6> QED
            BY <5>1, <6>3 DEF Status, IsActive
        <5>2. CASE l \notin V /\ l \in DOMAIN leases
          BY <5>2, <3>2 DEF GrantEffect, Status, MarkPreempted, TypeOK, IsActive, IsLive
        <5>3. CASE l \notin DOMAIN leases
          BY <5>3, <3>2, <3>3 DEF GrantEffect, Status
        <5> QED
          BY <5>1, <5>2, <5>3
      <4> QED
        BY <4>1, <4>2 DEF Lifecycle!Grant, Status
    <3> QED
      BY <3>4, <3>5
  <2>4. ASSUME NEW id \in DOMAIN leases, NEW s, SetState(id, s), issued' = issued
        PROVE  /\ id \in LeaseIds /\ id \in issued
               /\ leases'[id].state = s
               /\ \A l \in LeaseIds \ {id} : Status'[l] = Status[l]
    BY <2>4 DEF SetState, Status, TypeOK, ComputeLease, IsActive
  <2>5. ASSUME NEW id \in DOMAIN leases, ReleaseLease(id) \/ RevokeLease(id)
        PROVE  Lifecycle!LNext
    <3>1. Status[id] \in {"held", "parked"} /\ id \in LeaseIds
      BY <2>5 DEF ReleaseLease, RevokeLease, IsLive, Status, TypeOK
    <3>2. Status'[id] = "over" /\ \A l \in LeaseIds \ {id} : Status'[l] = Status[l]
      BY <2>5, <2>4 DEF ReleaseLease, RevokeLease, Status, IsActive, TypeOK, SetState
    <3>3. Lifecycle!End({id})
      BY <3>1, <3>2 DEF Lifecycle!End, Status
    <3> QED
      BY <3>1, <3>3
  <2>6. ASSUME NEW id \in DOMAIN leases,
               YieldLease(id) \/ FreezeLease(id) \/ ThawSuspended(id)
        PROVE  Status' = Status
    BY <2>6, <2>4 DEF YieldLease, FreezeLease, ThawSuspended, Status, IsActive, TypeOK, SetState
  <2>7. ASSUME NEW id \in DOMAIN leases, ThawPreempted(id)
        PROVE  Lifecycle!LNext
    <3>1. Status[id] = "parked" /\ id \in LeaseIds
      BY <2>7 DEF ThawPreempted, IsActive, Status, TypeOK
    <3>2. Status'[id] = "held" /\ \A l \in LeaseIds \ {id} : Status'[l] = Status[l]
      BY <2>7, <2>4 DEF ThawPreempted, Status, IsActive, TypeOK, SetState
    <3>3. Lifecycle!Resume(id)
      BY <3>1, <3>2 DEF Lifecycle!Resume, Status
    <3> QED
      BY <3>1, <3>3
  <2>8. ASSUME NEW h \in Hosts, UpdateTopology(h)
        PROVE  Lifecycle!LNext
    <3> DEFINE S == {l \in DOMAIN leases :
                       IsLive(leases[l]) /\ leases[l].plane \notin DOMAIN Discover(h)}
    <3>1. S \subseteq {l \in LeaseIds : Status[l] \in {"held", "parked"}}
      BY DEF TypeOK, Status, IsLive
    <3>2. \A l \in LeaseIds : Status'[l] = IF l \in S THEN "over" ELSE Status[l]
      BY <2>8 DEF UpdateTopology, Status, TypeOK, IsActive, ComputeLease
    <3>3. Lifecycle!End(S)
      BY <3>2 DEF Lifecycle!End, Status
    <3>4. S \in SUBSET (Lifecycle!InStatus("held") \cup Lifecycle!InStatus("parked"))
      BY <3>1
    <3> HIDE DEF S
    <3> QED
      BY <3>3, <3>4
  <2>9. CASE UNCHANGED vars
    BY <2>9 DEF vars, Status
  <2> QED
    BY <2>1, <2>2, <2>3, <2>5, <2>6, <2>7, <2>8, <2>9 DEF Next, Acquire, Manage
<1> QED
  BY <1>1, <1>2, TypeCorrect, PTL DEF Spec, ImplementsLifecycle, Lifecycle!LSpec

(* What the choice of victims guarantees, from the sort by priority and the check
   that comes before it (arbiter.rs:96-101). *)
LEMMA VictimsOrderly ==
  ASSUME TypeOK, NEW p \in DOMAIN topology, NEW prio \in Priorities,
         NEW bytes \in Sizes, NEW V \in Victims(p, prio, bytes), NEW v \in V
  PROVE  /\ v \in DOMAIN leases /\ leases[v].plane = p /\ leases[v].prio < prio
         /\ leases[v].prio < EmergencyTriage
         /\ topology[p].avail < bytes
         /\ \A w \in DOMAIN leases :
              leases[w].plane = p /\ IsActive(leases[w]) /\ w \notin V
                => leases[w].prio >= leases[v].prio
<1>1. v \in DOMAIN leases /\ leases[v].plane = p /\ leases[v].prio < prio
  BY VictimsPreemptable DEF Preemptable
<1>2. topology[p].avail \in Nat /\ bytes \in Nat
  BY ArbiterAssumption DEF TypeOK, IsTopology, ComputePlane
<1>3. ~(topology[p].avail >= bytes) 
  BY DEF Victims
<1>4. \A l \in DOMAIN leases : leases[l].prio \in Priorities
  BY DEF TypeOK, ComputeLease
<1>5. \A w \in Preemptable(p, prio) \ V : leases[v].prio <= leases[w].prio
  BY <1>3 DEF Victims
<1>6. \A w \in DOMAIN leases :
        leases[w].plane = p /\ IsActive(leases[w]) /\ w \notin V
          => leases[w].prio >= leases[v].prio
  BY <1>1, <1>4, <1>5 DEF Preemptable, Priorities, Batch, Interactive, EmergencyTriage
<1> QED
  BY <1>1, <1>2, <1>3, <1>4, <1>6 DEF Priorities, Batch, Interactive, EmergencyTriage

(* Preemption is orderly for every plane, size and set of leases: victims are of
   strictly lower priority than the request, on the plane it is served from, and
   nobody of lower priority is spared (arbiter.rs:96-113). *)
THEOREM OrderlyPreemption == Spec => PreemptionIsOrderly
<1>1. TypeOK /\ [Next]_vars => [OrderlyStep]_vars
  <2> SUFFICES ASSUME TypeOK, Next PROVE OrderlyStep
    BY DEF vars
  <2>1. ASSUME NEW v \in DOMAIN leases, IsActive(leases[v]),
               NEW V \in SUBSET DOMAIN leases, LosesMemory(v),
               leases'[v] = MarkPreempted(V)[v]
        PROVE  v \in V
    BY <2>1 DEF LosesMemory, MarkPreempted, IsActive
  <2>2. ASSUME AcquireRejected
        PROVE  OrderlyStep
    BY <2>2 DEF AcquireRejected, vars, OrderlyStep, LosesMemory, IsActive
  <2>3. ASSUME NEW psi, NEW prio \in Priorities, NEW bytes \in Sizes, NEW pref,
               AcquireExhausted(psi, prio, bytes, pref)
        PROVE  OrderlyStep
    <3>1. PICK p \in TargetPlane(prio, pref) :
            \E V \in Victims(p, prio, bytes) : leases' = MarkPreempted(V)
      BY <2>3 DEF AcquireExhausted
    <3>2. PICK V \in Victims(p, prio, bytes) : leases' = MarkPreempted(V)
      BY <3>1
    <3>3. p \in DOMAIN topology
      BY TargetExists
    <3>4. issued' = issued
      BY <2>3 DEF AcquireExhausted
    <3>5. V \in SUBSET DOMAIN leases
      BY VictimsPreemptable DEF Preemptable
    <3> SUFFICES ASSUME NEW v \in DOMAIN leases, LosesMemory(v)
                 PROVE  /\ leases[v].prio < EmergencyTriage
                        /\ \A w \in DOMAIN leases :
                             leases[w].plane = leases[v].plane /\ IsActive(leases'[w])
                               => leases[w].prio >= leases[v].prio
      BY <3>4 DEF OrderlyStep
    <3>6. v \in V
      BY <2>1, <3>2, <3>5 DEF LosesMemory
    <3>7. \A w \in DOMAIN leases : IsActive(leases'[w]) =>
                                     IsActive(leases[w]) /\ w \notin V
      BY <3>2 DEF MarkPreempted, IsActive, TypeOK, ComputeLease
    <3> QED
      BY <3>3, <3>6, <3>7, VictimsOrderly
  <2>4. ASSUME NEW psi, NEW prio \in Priorities, NEW bytes \in Sizes, NEW pref,
               NEW unit \in Units \cup {NoUnit},
               AcquireGranted(psi, prio, bytes, pref, unit)
        PROVE  OrderlyStep
    <3>1. PICK p \in DOMAIN topology : \E V \in Victims(p, prio, bytes),
            id \in LeaseIds \ issued : GrantEffect(p, V, id, prio, bytes)
      BY <2>4, GrantedStep
    <3>2. PICK V \in Victims(p, prio, bytes), id \in LeaseIds \ issued :
            GrantEffect(p, V, id, prio, bytes)
      BY <3>1
    <3>3. V \in SUBSET DOMAIN leases
      BY VictimsPreemptable DEF Preemptable
    <3>4. id \notin DOMAIN leases
      BY DEF TypeOK
    <3> SUFFICES ASSUME NEW v \in DOMAIN leases, LosesMemory(v)
                 PROVE  /\ leases[v].prio < EmergencyTriage
                        /\ \A w \in DOMAIN leases \cap DOMAIN leases' :
                             leases[w].plane = leases[v].plane /\ IsActive(leases'[w])
                               => leases[w].prio >= leases[v].prio
                        /\ \A n \in issued' \ issued :
                             /\ leases'[n].plane = leases[v].plane
                             /\ leases'[n].prio > leases[v].prio
                             /\ topology[leases[v].plane].avail < leases'[n].bytes
      BY DEF OrderlyStep
    <3>5. v \in V
      BY <2>1, <3>2, <3>3, <3>4 DEF LosesMemory, GrantEffect
    <3>6. \A w \in DOMAIN leases \cap DOMAIN leases' :
            IsActive(leases'[w]) => IsActive(leases[w]) /\ w \notin V
      BY <3>2, <3>4 DEF GrantEffect, MarkPreempted, IsActive, TypeOK, ComputeLease
    <3>7. \A n \in issued' \ issued :
            leases'[n].plane = p /\ leases'[n].prio = prio /\ leases'[n].bytes = bytes
      BY <3>2 DEF GrantEffect
    <3>8. prio > leases[v].prio
      BY <3>5, VictimsOrderly DEF TypeOK, ComputeLease, Priorities, Batch, Interactive,
           EmergencyTriage
    <3> QED
      BY <3>5, <3>6, <3>7, <3>8, VictimsOrderly
  <2>5. ASSUME NEW id \in DOMAIN leases, NEW s, s # "Preempted", SetState(id, s)
        PROVE  OrderlyStep
    BY <2>5 DEF SetState, OrderlyStep, LosesMemory, IsActive, TypeOK, ComputeLease
  <2>6. ASSUME NEW id \in DOMAIN leases,
               \/ ReleaseLease(id) \/ RevokeLease(id) \/ YieldLease(id)
               \/ FreezeLease(id) \/ ThawSuspended(id) \/ ThawPreempted(id)
        PROVE  OrderlyStep
    BY <2>5, <2>6 DEF ReleaseLease, RevokeLease, YieldLease, FreezeLease,
         ThawSuspended, ThawPreempted
  <2>7. ASSUME NEW h \in Hosts, UpdateTopology(h)
        PROVE  OrderlyStep
    BY <2>7 DEF UpdateTopology, OrderlyStep, LosesMemory, IsActive, TypeOK, ComputeLease
  <2> QED
    BY <2>2, <2>3, <2>4, <2>6, <2>7 DEF Next, Acquire, Manage
<1> QED
  BY <1>1, TypeCorrect, PTL DEF Spec, PreemptionIsOrderly

----------------------------------------------------------------------------
(* The hardware behind the arbiter's topology.                              *)

\* The same planes, but for the memory they have available.
AlikePlanes(x, y) ==
  /\ x.kind = y.kind /\ x.rank = y.rank /\ x.total = y.total
  /\ x.reserved = y.reserved /\ x.quarantined = y.quarantined

Alike(t, u) == DOMAIN t = DOMAIN u /\ \A p \in DOMAIN u : AlikePlanes(t[p], u[p])

\* Apart from memory, the arbiter's planes are those discovery found on a machine.
Shaped == \E h \in Hosts : Alike(topology, Discover(h))

(* Another number of available bytes leaves a plane what it is. *)
LEMMA AvailAlike ==
  ASSUME NEW x \in ComputePlane, NEW a
  PROVE  AlikePlanes([x EXCEPT !.avail = a], x) /\ [x EXCEPT !.avail = a].avail = a
BY Zenon DEF ComputePlane, AlikePlanes

(* Deductions and credits change nothing but that number. *)
LEMMA MemoryAlike ==
  ASSUME NEW t, IsTopology(t), NEW p, NEW b
  PROVE  Alike(Deduct(t, p, b), t) /\ Alike(RestorePlaneMemory(t, p, b), t)
<1>1. ASSUME NEW q \in DOMAIN t
      PROVE  t[q] \in ComputePlane /\ AlikePlanes(t[q], t[q])
  BY DEF IsTopology, AlikePlanes
<1>2. ASSUME NEW q \in DOMAIN t
      PROVE  /\ AlikePlanes(Deduct(t, p, b)[q], t[q])
             /\ AlikePlanes(RestorePlaneMemory(t, p, b)[q], t[q])
  BY <1>1, AvailAlike, Zenon DEF Deduct, RestorePlaneMemory
<1>3. DOMAIN Deduct(t, p, b) = DOMAIN t /\ DOMAIN RestorePlaneMemory(t, p, b) = DOMAIN t
  BY DEF Deduct, RestorePlaneMemory
<1> QED
  BY <1>2, <1>3 DEF Alike

(* So do the credits for the victims. *)
LEMMA VictimsAlike ==
  ASSUME IsTopology(topology), NEW p, NEW V
  PROVE  Alike(RestoreVictims(p, V), topology)
<1>1. ASSUME NEW q \in DOMAIN topology
      PROVE  topology[q] \in ComputePlane /\ AlikePlanes(topology[q], topology[q])
  BY DEF IsTopology, AlikePlanes
<1>2. ASSUME NEW q \in DOMAIN topology
      PROVE  AlikePlanes(RestoreVictims(p, V)[q], topology[q])
  BY <1>1, AvailAlike, Zenon DEF RestoreVictims
<1>3. DOMAIN RestoreVictims(p, V) = DOMAIN topology
  BY DEF RestoreVictims
<1> QED
  BY <1>2, <1>3 DEF Alike

(* Likeness is passed on. *)
LEMMA AlikeTransitive ==
  ASSUME NEW t, NEW u, NEW w, Alike(t, u), Alike(u, w)
  PROVE  Alike(t, w)
BY DEF Alike, AlikePlanes

(* The hardware changes only when it is discovered anew. *)
LEMMA AlikeStep ==
  ASSUME TypeOK, Finite, Acquire \/ Manage \/ UNCHANGED vars
  PROVE  Alike(topology', topology)
<1>0. IsTopology(topology)
  BY DEF TypeOK
<1>1. CASE topology' = topology
  BY <1>1 DEF Alike, AlikePlanes
<1>2. ASSUME NEW psi, NEW prio, NEW bytes, NEW pref,
             AcquireExhausted(psi, prio, bytes, pref)
      PROVE  Alike(topology', topology)
  BY <1>0, <1>2, VictimsAlike DEF AcquireExhausted
<1>3. ASSUME NEW psi, NEW prio, NEW bytes, NEW pref, NEW unit,
             AcquireGranted(psi, prio, bytes, pref, unit)
      PROVE  Alike(topology', topology)
  <2>1. PICK p \in TargetPlane(prio, pref) : \E V \in Victims(p, prio, bytes) :
          topology' = Deduct(RestoreVictims(p, V), p, bytes)
    BY <1>3 DEF AcquireGranted
  <2>2. PICK V \in Victims(p, prio, bytes) :
          topology' = Deduct(RestoreVictims(p, V), p, bytes)
    BY <2>1
  <2>3. V \in SUBSET DOMAIN leases
    BY VictimsPreemptable DEF Preemptable
  <2>4. IsTopology(RestoreVictims(p, V)) /\ Alike(RestoreVictims(p, V), topology)
    BY <1>0, <2>3, RestoreVictimsType, VictimsAlike
  <2> QED
    BY <2>2, <2>4, MemoryAlike, AlikeTransitive
<1>4. ASSUME NEW id \in DOMAIN leases, ThawPreempted(id)
      PROVE  Alike(topology', topology)
  BY <1>0, <1>4, MemoryAlike DEF ThawPreempted
<1>5. ASSUME NEW id \in DOMAIN leases, ReleaseLease(id) \/ RevokeLease(id)
      PROVE  Alike(topology', topology)
  BY <1>0, <1>1, <1>5, MemoryAlike DEF ReleaseLease, RevokeLease, ReturnMemory
<1>6. ASSUME NEW id \in DOMAIN leases, YieldLease(id) \/ FreezeLease(id) \/ ThawSuspended(id)
      PROVE  topology' = topology
  BY <1>6 DEF YieldLease, FreezeLease, ThawSuspended
<1>7. ASSUME AcquireRejected \/ UNCHANGED vars PROVE topology' = topology
  BY <1>7 DEF AcquireRejected, vars
<1> QED
  BY <1>1, <1>2, <1>3, <1>4, <1>5, <1>6, <1>7 DEF Acquire, Manage

(* A new discovery. *)
LEMMA UpdateAlike ==
  ASSUME NEW h \in Hosts, UpdateTopology(h)
  PROVE  Alike(topology', Discover(h))
<1> DEFINE t == Discover(h)
<1>1. IsTopology(t)
  BY DiscoverType
<1>2. topology' = [q \in DOMAIN t |->
         [t[q] EXCEPT !.avail = SaturatingSub(@, Charged(t, leases, q))]]
  BY DEF UpdateTopology
<1> HIDE DEF t
<1>3. ASSUME NEW q \in DOMAIN t
      PROVE  AlikePlanes(topology'[q], t[q])
  <2>1. t[q] \in ComputePlane
    BY <1>1 DEF IsTopology
  <2> QED
    BY <1>2, <2>1, AvailAlike, Zenon
<1>4. DOMAIN topology' = DOMAIN t
  BY <1>2
<1>5. Alike(topology', t)
  BY <1>3, <1>4 DEF Alike
<1> QED
  BY <1>5 DEF t

(* Every operation keeps the arbiter's planes those of some machine. *)
LEMMA ShapedStep ==
  ASSUME TypeOK, Finite, Shaped, [Next]_vars
  PROVE  Shaped'
<1>1. CASE Acquire \/ Manage \/ UNCHANGED vars
  <2>1. PICK h \in Hosts : Alike(topology, Discover(h))
    BY DEF Shaped
  <2>2. Alike(topology', Discover(h))
    BY <1>1, <2>1, AlikeStep, AlikeTransitive
  <2> QED
    BY <2>2 DEF Shaped
<1>2. ASSUME NEW h \in Hosts, UpdateTopology(h)
      PROVE  Shaped'
  BY <1>2, UpdateAlike DEF Shaped
<1> QED
  BY <1>1, <1>2 DEF Next

----------------------------------------------------------------------------
(* Emergencies.                                                             *)

(* The plane of the enclave is found on any plane's memory. *)
LEMMA EmergencyAlike ==
  ASSUME NEW t, NEW u, Alike(t, u), \E p \in DOMAIN u : u[p].kind = "CpuMatrixExtension"
  PROVE  EmergencyPlane(t) = EmergencyPlane(u)
<1>1. {p \in DOMAIN t : t[p].reserved} = {p \in DOMAIN u : u[p].reserved}
  BY Zenon DEF Alike, AlikePlanes
<1>2. {p \in DOMAIN t : t[p].kind = "CpuMatrixExtension"}
        = {p \in DOMAIN u : u[p].kind = "CpuMatrixExtension"}
  BY Zenon DEF Alike, AlikePlanes
<1>3. ASSUME NEW S \in SUBSET DOMAIN u
      PROVE  FirstOf(t, S) = FirstOf(u, S)
  BY DEF Alike, AlikePlanes, FirstOf
<1> DEFINE R == {p \in DOMAIN u : u[p].reserved}
           C == {p \in DOMAIN u : u[p].kind = "CpuMatrixExtension"}
<1>4. C # {} /\ FirstOf(t, R) = FirstOf(u, R) /\ FirstOf(t, C) = FirstOf(u, C)
  BY <1>3
<1>5. EmergencyPlane(t) = IF R # {} THEN FirstOf(t, R) ELSE FirstOf(t, C)
  BY <1>1, <1>2, <1>4, Zenon DEF EmergencyPlane
<1>6. EmergencyPlane(u) = IF R # {} THEN FirstOf(u, R) ELSE FirstOf(u, C)
  BY <1>4, Zenon DEF EmergencyPlane
<1> QED
  BY <1>4, <1>5, <1>6

(* On every machine discovery leaves the emergencies a plane that no crash log
   speaks against. *)
LEMMA EnclaveHealthy ==
  ASSUME NEW h \in Hosts
  PROVE  /\ EmergencyPlane(Discover(h)) # {}
         /\ EmergencyPlane(Discover(h)) \subseteq DOMAIN Discover(h)
         /\ \A p \in EmergencyPlane(Discover(h)) : Discover(h)[p].quarantined = FALSE
         /\ \E p \in DOMAIN Discover(h) : Discover(h)[p].kind = "CpuMatrixExtension"
<1>1. /\ DOMAIN Discover(h) = Nodes(h) /\ Cpu \in Nodes(h) /\ First(h) \subseteq Nodes(h)
      /\ EmergencyPlane(Discover(h)) = IF First(h) # {} THEN First(h) ELSE {Cpu}
  BY DiscoverNodes, Assigned, EnclavePlane
<1>2. ASSUME NEW p \in First(h)
      PROVE  Discover(h)[p].quarantined = FALSE
  <2>1. Found(h)[p] \in ComputePlane /\ ~Found(h)[p].quarantined
    BY <1>1, FoundPlanes DEF First, FirstOf, HealthyNpus
  <2>2. Found(h)[p].quarantined = FALSE
    BY <2>1 DEF ComputePlane
  <2>3. Discover(h)[p] = [Found(h)[p] EXCEPT !.reserved = TRUE]
    BY Assigned
  <2> QED
    BY <2>1, <2>2, <2>3, TriageFields, Zenon
<1>3. Discover(h)[Cpu].quarantined = FALSE /\ Discover(h)[Cpu].kind = "CpuMatrixExtension"
  <2>1. /\ Found(h)[Cpu] \in ComputePlane /\ Found(h)[Cpu] = CpuPlane(h)
        /\ CpuPlane(h).quarantined = FALSE /\ CpuPlane(h).kind = "CpuMatrixExtension"
    BY <1>1, FoundPlanes, Zenon DEF CpuPlane
  <2>2. Discover(h)[Cpu] = Found(h)[Cpu] \/ Discover(h)[Cpu] = Partitioned(Found(h)[Cpu])
    BY Assigned
  <2>3. /\ Partitioned(Found(h)[Cpu]).quarantined = Found(h)[Cpu].quarantined
        /\ Partitioned(Found(h)[Cpu]).kind = Found(h)[Cpu].kind
    BY <2>1, PartitionedFields
  <2> QED
    BY <2>1, <2>2, <2>3, Zenon
<1> QED
  BY <1>1, <1>2, <1>3, Zenon

(* The loop over the candidates always ends with a set of victims (arbiter.rs:105):
   the smallest set it may stop at that is closed downwards by priority. *)
LEMMA VictimsExist ==
  ASSUME TypeOK, Finite, NEW p, NEW prio, NEW bytes
  PROVE  Victims(p, prio, bytes) # {}
<1> DEFINE cand == Preemptable(p, prio)
           short(V) == Room(p, V) < bytes
           closed(V) == \A v \in V, w \in cand \ V : leases[v].prio <= leases[w].prio
           stops == {V \in SUBSET cand : (short(V) => V = cand) /\ closed(V)}
           sizes == {Cardinality(V) : V \in stops}
<1>1. CASE topology[p].avail >= bytes
  BY <1>1 DEF Victims
<1>2. CASE ~(topology[p].avail >= bytes)
  <2>1. IsFiniteSet(cand) /\ cand \subseteq DOMAIN leases
    BY FS_Subset DEF Finite, Preemptable
  <2>2. \A V \in SUBSET cand : IsFiniteSet(V) /\ Cardinality(V) \in Nat
    BY <2>1, FS_Subset, FS_CardinalityType
  <2>3. \A v \in cand : leases[v].prio \in Priorities
    BY <2>1 DEF TypeOK, ComputeLease
  <2> HIDE DEF cand, short
  <2>4. cand \in stops
    OBVIOUS
  <2>5. sizes \subseteq Nat /\ sizes # {}
    BY <2>2, <2>4
  <2>6. PICK n \in sizes : \A m \in sizes : n <= m
    <3> HIDE DEF sizes
    <3> QED
      BY <2>5, LeastNatural
  <2>7. PICK V \in stops : n = Cardinality(V)
    BY <2>6
  <2>8. V # {} => \E v \in V : /\ \A w \in V : leases[w].prio <= leases[v].prio
                                /\ short(V \ {v})
    <3> SUFFICES ASSUME V # {}
                 PROVE  \E v \in V : /\ \A w \in V : leases[w].prio <= leases[v].prio
                                      /\ short(V \ {v})
      OBVIOUS
    <3>1. PICK v \in V : \A w \in V : leases[w].prio <= leases[v].prio
      BY <2>3 DEF Priorities, Batch, Interactive, EmergencyTriage
    <3> DEFINE W == V \ {v}
    <3>2. W \in SUBSET cand /\ closed(W)
      BY <3>1
    <3>3. Cardinality(W) = Cardinality(V) - 1 /\ Cardinality(V) \in Nat /\ Cardinality(W) \in Nat
      BY <2>2, FS_RemoveElement
    <3>4. W \notin stops
      BY <2>6, <2>7, <3>3
    <3>5. short(W)
      BY <3>2, <3>4
    <3> QED
      BY <3>1, <3>5
  <2>9. V \in {X \in SUBSET cand :
                 /\ short(X) => X = cand
                 /\ closed(X)
                 /\ X # {} => \E v \in X : /\ \A w \in X : leases[w].prio <= leases[v].prio
                                             /\ short(X \ {v})}
    BY <2>7, <2>8
  <2> QED
    BY <1>2, <2>9, Zenon DEF Victims, cand, short
<1> QED
  BY <1>1, <1>2

(* On the planes of any machine an emergency is served. *)
LEMMA ServedWhenShaped ==
  ASSUME TypeOK, Finite, Shaped
  PROVE  EmergencyIsServed
<1>1. PICK h \in Hosts : Alike(topology, Discover(h))
  BY DEF Shaped
<1>2. TargetPlane(EmergencyTriage, NoPlane) = EmergencyPlane(Discover(h))
  BY <1>1, EmergencyAlike, EnclaveHealthy DEF TargetPlane
<1>3. PICK p \in EmergencyPlane(Discover(h)) :
        p \in DOMAIN Discover(h) /\ Discover(h)[p].quarantined = FALSE
  BY EnclaveHealthy
<1>4. topology[p].quarantined = FALSE
  BY <1>1, <1>3, Zenon DEF Alike, AlikePlanes
<1> QED
  BY <1>2, <1>3, <1>4, VictimsExist DEF EmergencyIsServed

(* However many leases there are, whatever they hold and whatever hardware is left,
   an emergency that names no plane is served, and never from a plane in quarantine
   (arbiter.rs:82-121). *)
THEOREM EmergencyAlwaysServed == Spec => []EmergencyIsServed
<1> DEFINE Inv == TypeOK /\ Finite /\ Shaped
<1>1. Init => Inv
  <2> SUFFICES ASSUME Init PROVE Inv
    OBVIOUS
  <2>1. PICK h \in Hosts : topology = Discover(h)
    BY DEF Init
  <2>2. Shaped
    BY <2>1 DEF Shaped, Alike, AlikePlanes
  <2> QED
    BY <2>2, TypeInit, FS_EmptySet DEF Init, Finite
<1>2. Inv /\ [Next]_vars => Inv'
  BY TypeStep, FiniteStep, ShapedStep
<1>3. Inv => EmergencyIsServed
  BY ServedWhenShaped
<1> QED
  BY <1>1, <1>2, <1>3, PTL DEF Spec

----------------------------------------------------------------------------
(* The books: sums over leases.                                             *)

\* The leases charged to plane q, and those that hold memory at all.
Charging(t, ls, q) ==
  {l \in DOMAIN ls : /\ IsActive(ls[l]) /\ ls[l].plane \in DOMAIN t
                     /\ Backs(t, ls[l].plane, q)}

Holding(ls) == {l \in DOMAIN ls : IsActive(ls[l])}

\* A finite map of leases.
Book(ls) == IsFiniteSet(DOMAIN ls) /\ ls \in [DOMAIN ls -> ComputeLease]

(* Planes that are alike back each other alike. *)
LEMMA BacksAlike ==
  ASSUME NEW t, NEW u, Alike(t, u), NEW p, NEW q
  PROVE  Backs(t, p, q) <=> Backs(u, p, q)
<1>1. {r \in DOMAIN t : t[r].kind = "CpuMatrixExtension"}
        = {r \in DOMAIN u : u[r].kind = "CpuMatrixExtension"}
  BY Zenon DEF Alike, AlikePlanes
<1> DEFINE C == {r \in DOMAIN u : u[r].kind = "CpuMatrixExtension"}
<1>2. FirstOf(t, C) = FirstOf(u, C)
  BY DEF Alike, AlikePlanes, FirstOf
<1> QED
  BY <1>1, <1>2, Zenon DEF Backs, Alike, AlikePlanes

(* The bytes of leases, as sums. *)
LEMMA BytesSums ==
  ASSUME NEW ls, Book(ls), NEW S \in SUBSET DOMAIN ls
  PROVE  /\ Bytes(ls, S) \in Nat
         /\ \A V \in SUBSET S : Bytes(ls, S) = Bytes(ls, V) + Bytes(ls, S \ V)
<1> DEFINE f == [l \in DOMAIN ls |-> ls[l].bytes]
<1>1. \A l \in S : f[l] \in Nat
  BY ArbiterAssumption DEF Book, ComputeLease
<1>2. IsFiniteSet(S)
  BY FS_Subset DEF Book
<1>3. \A V : Bytes(ls, V) = SumFunctionOnSet(f, V)
  BY DEF Bytes
<1> HIDE DEF f
<1>4. SumFunctionOnSet(f, S) \in Nat
  BY <1>1, <1>2, SumNat
<1>5. \A V \in SUBSET S :
        SumFunctionOnSet(f, S) = SumFunctionOnSet(f, V) + SumFunctionOnSet(f, S \ V)
  BY <1>1, <1>2, SumSplit
<1> QED
  BY <1>3, <1>4, <1>5

(* No lease, and one lease. *)
LEMMA BytesFew ==
  ASSUME NEW ls, Book(ls)
  PROVE  /\ Bytes(ls, {}) = 0
         /\ \A l \in DOMAIN ls : Bytes(ls, {l}) = ls[l].bytes
<1> DEFINE f == [l \in DOMAIN ls |-> ls[l].bytes]
<1>1. \A l \in DOMAIN ls : f[l] = ls[l].bytes /\ f[l] \in Nat
  BY ArbiterAssumption DEF Book, ComputeLease
<1>2. \A V : Bytes(ls, V) = SumFunctionOnSet(f, V)
  BY DEF Bytes
<1> HIDE DEF f
<1> QED
  BY <1>1, <1>2, SumEmpty, SumOne

(* Leases that keep their bytes. *)
LEMMA BytesKept ==
  ASSUME NEW ls, Book(ls), NEW ms, NEW S \in SUBSET DOMAIN ls, S \subseteq DOMAIN ms,
         \A l \in S : ms[l].bytes = ls[l].bytes
  PROVE  Bytes(ms, S) = Bytes(ls, S)
<1> DEFINE f == [l \in DOMAIN ls |-> ls[l].bytes]
           g == [l \in DOMAIN ms |-> ms[l].bytes]
<1>1. \A l \in S : f[l] = g[l]
  OBVIOUS
<1>2. IsFiniteSet(S)
  BY FS_Subset DEF Book
<1>3. Bytes(ls, S) = SumFunctionOnSet(f, S) /\ Bytes(ms, S) = SumFunctionOnSet(g, S)
  BY DEF Bytes
<1> HIDE DEF f, g
<1> QED
  BY <1>1, <1>2, <1>3, SumSame

(* What every change of the leases does to what is charged: the leases V of plane p
   lose their memory, the leases W of plane p get theirs, and the other leases that
   hold memory are left alone. *)
LEMMA ChargedMoves ==
  ASSUME NEW t, NEW u, Alike(u, t), NEW ls, NEW ms, Book(ls), Book(ms),
         NEW p \in DOMAIN t, NEW V \in SUBSET Holding(ls), NEW W,
         Holding(ms) = (Holding(ls) \ V) \cup W, W \cap Holding(ls) = {},
         \A l \in V : ls[l].plane = p, \A l \in W : ms[l].plane = p,
         \A l \in Holding(ls) \ V : ms[l].plane = ls[l].plane /\ ms[l].bytes = ls[l].bytes,
         NEW q
  PROVE  /\ Charged(t, ls, q) \in Nat /\ Charged(u, ms, q) \in Nat
         /\ ~Backs(t, p, q) => Charged(u, ms, q) = Charged(t, ls, q)
         /\ Backs(t, p, q) =>
              /\ Bytes(ls, V) <= Charged(t, ls, q)
              /\ Charged(u, ms, q) + Bytes(ls, V) = Charged(t, ls, q) + Bytes(ms, W)
<1> DEFINE C == Charging(t, ls, q)
           D == Charging(u, ms, q)
<1>1. /\ C \in SUBSET DOMAIN ls /\ D \in SUBSET DOMAIN ms
      /\ Charged(t, ls, q) = Bytes(ls, C) /\ Charged(u, ms, q) = Bytes(ms, D)
  BY DEF Charging, Charged
<1>2. \A r : Backs(u, r, q) <=> Backs(t, r, q)
  BY BacksAlike
<1>3. DOMAIN u = DOMAIN t
  BY DEF Alike
<1>4. C = {l \in Holding(ls) : ls[l].plane \in DOMAIN t /\ Backs(t, ls[l].plane, q)}
  BY DEF Charging, Holding
<1>5. D = {l \in Holding(ms) : ms[l].plane \in DOMAIN t /\ Backs(t, ms[l].plane, q)}
  BY <1>2, <1>3 DEF Charging, Holding
<1>6. Bytes(ls, C) \in Nat /\ Bytes(ms, D) \in Nat
  BY <1>1, BytesSums
<1>7. ASSUME ~Backs(t, p, q)
      PROVE  Bytes(ms, D) = Bytes(ls, C)
  <2>1. D = C /\ C \subseteq Holding(ls) \ V /\ C \subseteq DOMAIN ms
    BY <1>1, <1>4, <1>5, <1>7
  <2> HIDE DEF C, D
  <2> QED
    BY <1>1, <2>1, BytesKept
<1>8. ASSUME Backs(t, p, q)
      PROVE  /\ Bytes(ls, V) <= Bytes(ls, C)
             /\ Bytes(ms, D) + Bytes(ls, V) = Bytes(ls, C) + Bytes(ms, W)
  <2>1. /\ V \subseteq C /\ W \subseteq D /\ D \ W = C \ V /\ C \ V \subseteq Holding(ls) \ V
        /\ C \ V \subseteq DOMAIN ms
    BY <1>1, <1>4, <1>5, <1>8
  <2> HIDE DEF C, D
  <2>2. Bytes(ls, C) = Bytes(ls, V) + Bytes(ls, C \ V)
    BY <1>1, <2>1, BytesSums
  <2>3. Bytes(ms, D) = Bytes(ms, W) + Bytes(ms, D \ W)
    BY <1>1, <2>1, BytesSums
  <2>4. Bytes(ms, C \ V) = Bytes(ls, C \ V)
    BY <1>1, <2>1, BytesKept
  <2>5. Bytes(ls, V) \in Nat /\ Bytes(ls, C \ V) \in Nat /\ Bytes(ms, W) \in Nat
    <3>1. V \in SUBSET DOMAIN ls /\ C \ V \in SUBSET DOMAIN ls /\ W \in SUBSET DOMAIN ms
      BY <1>1, <2>1
    <3> QED
      BY <3>1, BytesSums
  <2>6. Bytes(ms, D) = Bytes(ms, W) + Bytes(ls, C \ V)
    BY <2>1, <2>3, <2>4
  <2> QED
    BY <2>2, <2>5, <2>6
<1> HIDE DEF C, D
<1> QED
  BY <1>1, <1>6, <1>7, <1>8

----------------------------------------------------------------------------
(* The books: the inductive invariant.                                      *)

\* The books were opened with what discovery found on the machine whose planes the
\* arbiter has.
Recorded ==
  \E h \in Hosts : Alike(topology, Discover(h)) /\ discovered = Offered(h)

BooksInv == TypeOK /\ Finite /\ Recorded /\ NothingLeaks /\ BooksBalance

(* The numbers of a plane. *)
LEMMA BookFacts ==
  ASSUME TypeOK, Finite, Recorded
  PROVE  /\ Book(leases)
         /\ DOMAIN discovered = DOMAIN topology
         /\ \A q \in DOMAIN topology :
              /\ topology[q] \in ComputePlane
              /\ topology[q].avail \in Nat /\ topology[q].total \in Nat
              /\ topology[q].avail <= topology[q].total
              /\ discovered[q] \in Nat /\ discovered[q] <= topology[q].total
              /\ topology[q].total < Word
         /\ \A b \in Sizes : b \in Nat
<1>1. PICK h \in Hosts : Alike(topology, Discover(h)) /\ discovered = Offered(h)
  BY DEF Recorded
<1> DEFINE t == Discover(h)
<1>2. IsTopology(t)
  BY DiscoverType
<1>3. discovered = [p \in DOMAIN t |-> t[p].avail]
  BY <1>1 DEF Offered
<1>4. \A p \in DOMAIN t : t[p].total < Word
  <2> SUFFICES ASSUME NEW p \in DOMAIN t PROVE t[p].total < Word
    OBVIOUS
  <2>1. t[p].total + t[p].total < Word
    BY MemoryAssumption
  <2>2. t[p].total \in Nat
    BY <1>2 DEF IsTopology, ComputePlane
  <2> HIDE DEF t
  <2> QED
    BY <2>1, <2>2, ArbiterAssumption
<1>5. \A b \in Sizes : b \in Nat
  BY ArbiterAssumption
<1>6. Alike(topology, t)
  BY <1>1
<1> HIDE DEF t
<1>7. DOMAIN topology = DOMAIN t /\ \A q \in DOMAIN t : topology[q].total = t[q].total
  BY <1>6 DEF Alike, AlikePlanes
<1>8. \A q \in DOMAIN t : t[q].avail \in Nat /\ t[q].total \in Nat /\ t[q].avail <= t[q].total
  BY <1>2 DEF IsTopology, ComputePlane
<1>9. \A q \in DOMAIN topology :
        /\ topology[q] \in ComputePlane
        /\ topology[q].avail \in Nat /\ topology[q].total \in Nat
        /\ topology[q].avail <= topology[q].total
  BY DEF TypeOK, IsTopology, ComputePlane
<1>10. Book(leases)
  BY DEF TypeOK, Finite, Book
<1> QED
  BY <1>3, <1>4, <1>5, <1>7, <1>8, <1>9, <1>10

(* What is left to show of a step that keeps the hardware: the two sums. *)
LEMMA BooksKept ==
  ASSUME BooksInv, Acquire \/ Manage \/ UNCHANGED vars, UNCHANGED discovered,
         \A q \in DOMAIN topology :
           /\ q \notin wrapped' =>
                topology'[q].avail + Charged(topology', leases', q) >= discovered[q]
           /\ q \notin overdrawn' =>
                topology'[q].avail + Charged(topology', leases', q) = discovered[q]
  PROVE  BooksInv'
<1>1. TypeOK' /\ Finite'
  BY TypeStep, FiniteStep DEF BooksInv, Next
<1>2. Alike(topology', topology)
  BY AlikeStep DEF BooksInv
<1>3. Recorded'
  <2>1. PICK h \in Hosts : Alike(topology, Discover(h)) /\ discovered = Offered(h)
    BY DEF BooksInv, Recorded
  <2>2. Alike(topology', Discover(h))
    BY <1>2, <2>1, AlikeTransitive
  <2> QED
    BY <2>1, <2>2 DEF Recorded, Offered
<1>4. NothingLeaks' /\ BooksBalance'
  BY <1>2 DEF Alike, NothingLeaks, BooksBalance, ChargedNow
<1> QED
  BY <1>1, <1>3, <1>4 DEF BooksInv

\* How the auditor follows an operation that keeps the hardware.
Audited ==
  /\ overdrawn' = IF leases' = leases THEN overdrawn
                  ELSE overdrawn \cup Overdraws([p \in DOMAIN topology |-> topology[p].avail])
  /\ wrapped' = wrapped \cup Wraps
  /\ UNCHANGED discovered

(* A plane that is not overdrawn after the step was not before, and gave no more than
   it had. *)
LEMMA AuditedPlane ==
  ASSUME Audited, NEW q \in DOMAIN topology, q \notin overdrawn'
  PROVE  /\ q \notin overdrawn
         /\ leases' # leases =>
              ~(Charged(topology', leases', q) > topology[q].avail + ChargedNow(q))
<1> DEFINE had == [p \in DOMAIN topology |-> topology[p].avail]
<1>1. had[q] = topology[q].avail /\ q \in DOMAIN had
  OBVIOUS
<1>2. Overdraws(had) =
        {p \in DOMAIN had : Charged(topology', leases', p) > had[p] + ChargedNow(p)}
  BY DEF Overdraws
<1>3. overdrawn' = IF leases' = leases THEN overdrawn ELSE overdrawn \cup Overdraws(had)
  BY DEF Audited
<1> HIDE DEF had
<1> QED
  BY <1>1, <1>2, <1>3

(* The books of one plane, when leases V of plane p lose their memory and leases W get
   theirs. *)
LEMMA PlaneMoves ==
  ASSUME BooksInv, Acquire \/ Manage, Audited,
         NEW p \in DOMAIN topology, NEW V \in SUBSET Holding(leases), NEW W,
         Holding(leases') = (Holding(leases) \ V) \cup W, W \cap Holding(leases) = {},
         \A l \in V : leases[l].plane = p, \A l \in W : leases'[l].plane = p,
         \A l \in Holding(leases) \ V :
           leases'[l].plane = leases[l].plane /\ leases'[l].bytes = leases[l].bytes,
         NEW q \in DOMAIN topology,
         topology'[q].avail =
           IF Backs(topology, p, q)
           THEN SaturatingSub(Smaller(topology[q].avail + Bytes(leases, V), topology[q].total),
                              Bytes(leases', W))
           ELSE topology[q].avail
  PROVE  /\ q \notin wrapped' =>
              topology'[q].avail + Charged(topology', leases', q) >= discovered[q]
         /\ q \notin overdrawn' =>
              topology'[q].avail + Charged(topology', leases', q) = discovered[q]
<1> DEFINE a == topology[q].avail
           T == topology[q].total
           d == discovered[q]
           c == Charged(topology, leases, q)
           e == Charged(topology', leases', q)
           b == Bytes(leases, V)
           w == Bytes(leases', W)
<1>1. TypeOK' /\ Finite'
  BY TypeStep, FiniteStep DEF BooksInv, Next
<1>2. Book(leases) /\ Book(leases')
  BY <1>1 DEF BooksInv, TypeOK, Finite, Book
<1>3. Alike(topology', topology)
  BY AlikeStep DEF BooksInv
<1>4. /\ c \in Nat /\ e \in Nat
      /\ ~Backs(topology, p, q) => e = c
      /\ Backs(topology, p, q) => b <= c /\ e + b = c + w
  BY <1>2, <1>3, ChargedMoves
<1>5. a \in Nat /\ T \in Nat /\ d \in Nat /\ a <= T /\ d <= T
  BY BookFacts DEF BooksInv
<1>6. b \in Nat /\ w \in Nat
  <2>1. V \in SUBSET DOMAIN leases /\ W \in SUBSET DOMAIN leases'
    BY DEF Holding
  <2> QED
    BY <1>2, <2>1, BytesSums
<1>7. (q \notin wrapped' => a + c >= d) /\ (q \notin overdrawn => a + c = d)
  BY DEF BooksInv, Audited, NothingLeaks, BooksBalance, ChargedNow
<1>8. leases' = leases => e = c
  BY <1>2, <1>3, BacksAlike, Zenon DEF Charged, Alike
<1>9. q \notin overdrawn' => q \notin overdrawn /\ (leases' # leases => ~(e > a + c))
  BY AuditedPlane DEF ChargedNow
<1>10. topology'[q].avail = IF Backs(topology, p, q) THEN SaturatingSub(Smaller(a + b, T), w)
                            ELSE a
  OBVIOUS
<1> HIDE DEF a, T, d, c, e, b, w
<1>11. q \notin overdrawn' => a + c = d /\ e <= a + c
  BY <1>4, <1>5, <1>7, <1>8, <1>9
<1>12. /\ q \notin wrapped' => topology'[q].avail + e >= d
       /\ q \notin overdrawn' => topology'[q].avail + e = d
  <2>1. CASE Backs(topology, p, q)
    <3> DEFINE r == Smaller(a + b, T)
    <3>1. r \in Nat /\ (r = a + b \/ r = T) /\ (a + b <= T => r = a + b)
      BY <1>5, <1>6 DEF Smaller
    <3>2. SaturatingSub(r, w) = IF w <= r THEN r - w ELSE 0
      BY <1>6, <3>1 DEF SaturatingSub
    <3>3. topology'[q].avail = SaturatingSub(r, w)
      BY <1>10, <2>1
    <3>4. b <= c /\ e + b = c + w
      BY <1>4, <2>1
    <3> HIDE DEF r
    <3>5. topology'[q].avail = IF w <= r THEN r - w ELSE 0
      BY <3>2, <3>3
    <3>6. ASSUME q \notin wrapped' PROVE topology'[q].avail + e >= d
      BY <1>4, <1>5, <1>6, <1>7, <3>1, <3>4, <3>5, <3>6
    <3>7. ASSUME q \notin overdrawn' PROVE topology'[q].avail + e = d
      BY <1>4, <1>5, <1>6, <1>11, <3>1, <3>4, <3>5, <3>7
    <3> QED
      BY <3>6, <3>7
  <2>2. CASE ~Backs(topology, p, q)
    BY <1>4, <1>7, <1>10, <1>11, <2>2
  <2> QED
    BY <2>1, <2>2
<1> QED
  BY <1>12 DEF d, e

(* Numbers that a plane has. *)
LEMMA NoBytesMove ==
  ASSUME NEW a \in Nat, NEW T \in Nat, a <= T
  PROVE  Smaller(a + 0, T) = a /\ SaturatingSub(a, 0) = a
BY DEF Smaller, SaturatingSub

(* A change of state that neither gives nor takes memory. *)
LEMMA QuietBooks ==
  ASSUME BooksInv, Acquire \/ Manage, Audited, topology' = topology,
         Holding(leases') = Holding(leases),
         \A l \in Holding(leases) :
           leases'[l].plane = leases[l].plane /\ leases'[l].bytes = leases[l].bytes
  PROVE  BooksInv'
<1>1. Book(leases)
  BY DEF BooksInv, TypeOK, Finite, Book
<1>2. ASSUME NEW q
      PROVE  Charged(topology', leases', q) = Charged(topology, leases, q)
  <2> DEFINE C == {l \in Holding(leases) : /\ leases[l].plane \in DOMAIN topology
                                          /\ Backs(topology, leases[l].plane, q)}
  <2>1. Charging(topology, leases, q) = C
    BY DEF Charging, Holding
  <2>2. Charging(topology', leases', q) =
          {l \in Holding(leases') : /\ leases'[l].plane \in DOMAIN topology'
                                    /\ Backs(topology', leases'[l].plane, q)}
    BY DEF Charging, Holding
  <2>3. Charging(topology', leases', q) = C
    BY <2>2, Zenon
  <2>4. C \in SUBSET DOMAIN leases /\ C \subseteq DOMAIN leases'
    BY DEF Holding
  <2>5. \A l \in C : leases'[l].bytes = leases[l].bytes
    OBVIOUS
  <2> HIDE DEF C
  <2>6. Bytes(leases', C) = Bytes(leases, C)
    BY <1>1, <2>4, <2>5, BytesKept
  <2> QED
    BY <2>1, <2>3, <2>6 DEF Charged, Charging
<1>3. ASSUME NEW q \in DOMAIN topology
      PROVE  /\ q \notin wrapped' =>
                  topology'[q].avail + Charged(topology', leases', q) >= discovered[q]
             /\ q \notin overdrawn' =>
                  topology'[q].avail + Charged(topology', leases', q) = discovered[q]
  <2>1. q \notin wrapped' => q \notin wrapped
    BY DEF Audited
  <2> QED
    BY <1>2, <2>1, AuditedPlane, Zenon DEF BooksInv, NothingLeaks, BooksBalance, ChargedNow
<1> QED
  BY <1>3, BooksKept DEF Audited

(* What a change of one lease's state does to the leases that hold memory. *)
LEMMA StateMoves ==
  ASSUME TypeOK, NEW id \in DOMAIN leases, NEW s, SetState(id, s)
  PROVE  /\ DOMAIN leases' = DOMAIN leases
         /\ \A l \in DOMAIN leases :
              leases'[l].plane = leases[l].plane /\ leases'[l].bytes = leases[l].bytes
         /\ Holding(leases') = IF s \in {"Active", "Preempting", "Frozen"}
                               THEN Holding(leases) \cup {id} ELSE Holding(leases) \ {id}
<1>1. /\ DOMAIN leases' = DOMAIN leases
      /\ \A l \in DOMAIN leases :
           /\ leases'[l].plane = leases[l].plane /\ leases'[l].bytes = leases[l].bytes
           /\ leases'[l].state = IF l = id THEN s ELSE leases[l].state
  BY DEF TypeOK, ComputeLease, SetState
<1> QED
  BY <1>1 DEF Holding, IsActive

(* A release and a revocation give back what was charged, once. *)
LEMMA EndBooks ==
  ASSUME BooksInv, Audited, NEW id \in DOMAIN leases, ReleaseLease(id) \/ RevokeLease(id)
  PROVE  BooksInv'
<1> DEFINE p == leases[id].plane
           b == leases[id].bytes
           V == {id}
           W == {}
<1>0. TypeOK /\ Finite /\ Recorded /\ Manage
  BY DEF BooksInv, Manage
<1>1. PICK s \in {"Expired", "Revoked"} : SetState(id, s)
  BY DEF ReleaseLease, RevokeLease
<1>2. IsLive(leases[id]) /\ ReturnMemory(id)
  BY DEF ReleaseLease, RevokeLease
<1>3. /\ \A l \in DOMAIN leases :
           leases'[l].plane = leases[l].plane /\ leases'[l].bytes = leases[l].bytes
      /\ Holding(leases') = Holding(leases) \ {id}
      /\ id \in DOMAIN leases' /\ leases'[id].state \in {"Expired", "Revoked"}
  <2>1. leases'[id].state = s /\ id \in DOMAIN leases'
    BY <1>0, <1>1 DEF SetState, TypeOK, ComputeLease
  <2> QED
    BY <1>0, <1>1, <2>1, StateMoves
<1>4. CASE ~IsActive(leases[id])
  <2>1. topology' = topology /\ Holding(leases') = Holding(leases)
    BY <1>2, <1>3, <1>4 DEF ReturnMemory, Holding
  <2>2. \A l \in Holding(leases) : l \in DOMAIN leases
    BY DEF Holding
  <2> QED
    BY <1>0, <1>3, <2>1, <2>2, QuietBooks
<1>5. CASE IsActive(leases[id])
  <2>1. p \in DOMAIN topology /\ b \in Sizes
    BY <1>0, <1>2 DEF TypeOK, ComputeLease
  <2>2. Book(leases) /\ Book(leases')
    BY <1>0, TypeStep, FiniteStep DEF TypeOK, Finite, Book, Next
  <2>3. Bytes(leases, V) = b /\ Bytes(leases', W) = 0
    BY <2>2, BytesFew
  <2>4. topology' = RestorePlaneMemory(topology, p, b)
    BY <1>2, <1>5 DEF ReturnMemory
  <2>5. /\ V \in SUBSET Holding(leases)
        /\ Holding(leases') = (Holding(leases) \ V) \cup W /\ W \cap Holding(leases) = {}
        /\ \A l \in V : leases[l].plane = p
        /\ \A l \in W : leases'[l].plane = p
        /\ \A l \in Holding(leases) \ V :
             leases'[l].plane = leases[l].plane /\ leases'[l].bytes = leases[l].bytes
    BY <1>3, <1>5 DEF Holding
  <2> HIDE DEF V, W
  <2>6. ASSUME NEW q \in DOMAIN topology
        PROVE  /\ q \notin wrapped' =>
                    topology'[q].avail + Charged(topology', leases', q) >= discovered[q]
               /\ q \notin overdrawn' =>
                    topology'[q].avail + Charged(topology', leases', q) = discovered[q]
    <3> DEFINE a == topology[q].avail
               T == topology[q].total
    <3>1. /\ topology[q] \in ComputePlane
          /\ a \in Nat /\ T \in Nat /\ a <= T /\ b \in Nat /\ T < Word
      BY <1>0, <2>1, BookFacts
    <3>2. topology'[q].avail = IF Backs(topology, p, q) THEN Credited(a, b, T) ELSE a
      BY <2>4, <3>1, AvailAlike, Zenon DEF RestorePlaneMemory
    <3>3. CASE Backs(topology, p, q) /\ a + b >= Word
      <4> DEFINE c == Charged(topology, leases, q)
                 d == discovered[q]
      <4>1. q \in wrapped'
        BY <1>3, <1>5, <3>3 DEF Audited, Wraps
      <4>2. c \in Nat /\ b <= c
        <5>1. Alike(topology', topology)
          BY <1>0, AlikeStep
        <5> QED
          BY <2>1, <2>2, <2>3, <2>5, <3>3, <5>1, ChargedMoves
      <4>3. d \in Nat /\ d <= T
        BY <1>0, BookFacts
      <4>4. q \notin overdrawn => a + c = d
        BY DEF BooksInv, BooksBalance, ChargedNow
      <4> HIDE DEF a, T, b, c, d
      <4>5. q \in overdrawn
        BY <3>1, <3>3, <4>2, <4>3, <4>4, ArbiterAssumption
      <4> QED
        BY <4>1, <4>5, AuditedPlane
    <3>4. CASE ~(Backs(topology, p, q) /\ a + b >= Word)
      <4> HIDE DEF a, T, b, p
      <4>1. Backs(topology, p, q) => (a + b) % Word = a + b
        BY <3>1, <3>4, ArbiterAssumption
      <4>2. Smaller(a + b, T) \in Nat
        BY <3>1 DEF Smaller
      <4>3. Backs(topology, p, q) => Credited(a, b, T) = Smaller(a + b, T)
        BY <3>1, <4>1 DEF Credited, Smaller
      <4>4. SaturatingSub(Smaller(a + b, T), 0) = Smaller(a + b, T)
        BY <4>2 DEF SaturatingSub
      <4>5. topology'[q].avail =
              IF Backs(topology, p, q)
              THEN SaturatingSub(Smaller(topology[q].avail + Bytes(leases, V), topology[q].total),
                                 Bytes(leases', W))
              ELSE topology[q].avail
        BY <2>3, <3>2, <4>3, <4>4, Zenon DEF a, T
      <4> QED
        BY <1>0, <2>1, <2>5, <4>5, PlaneMoves
    <3> QED
      BY <3>3, <3>4
  <2> QED
    BY <1>0, <2>6, BooksKept DEF Audited
<1> QED
  BY <1>4, <1>5

(* A thaw takes the memory again where it is there. *)
LEMMA ThawBooks ==
  ASSUME BooksInv, Audited, NEW id \in DOMAIN leases, ThawPreempted(id)
  PROVE  BooksInv'
<1> DEFINE p == leases[id].plane
           b == leases[id].bytes
           V == {}
           W == {id}
<1>0. TypeOK /\ Finite /\ Recorded /\ Manage
  BY DEF BooksInv, Manage
<1>1. /\ SetState(id, "Active") /\ ~IsActive(leases[id])
      /\ topology' = Deduct(topology, p, b) /\ p \in DOMAIN topology
  BY DEF ThawPreempted, FitsAgain, IsActive
<1>2. b \in Sizes
  BY <1>0 DEF TypeOK, ComputeLease
<1>3. /\ DOMAIN leases' = DOMAIN leases
      /\ \A l \in DOMAIN leases :
           leases'[l].plane = leases[l].plane /\ leases'[l].bytes = leases[l].bytes
      /\ Holding(leases') = Holding(leases) \cup {id}
  BY <1>0, <1>1, StateMoves
<1>4. Book(leases) /\ Book(leases')
  BY <1>0, TypeStep, FiniteStep DEF TypeOK, Finite, Book, Next
<1>5. Bytes(leases, V) = 0 /\ Bytes(leases', W) = b
  BY <1>3, <1>4, BytesFew
<1>6. /\ V \in SUBSET Holding(leases)
      /\ Holding(leases') = (Holding(leases) \ V) \cup W /\ W \cap Holding(leases) = {}
      /\ \A l \in V : leases[l].plane = p
      /\ \A l \in W : leases'[l].plane = p
      /\ \A l \in Holding(leases) \ V :
           leases'[l].plane = leases[l].plane /\ leases'[l].bytes = leases[l].bytes
  BY <1>1, <1>3 DEF Holding
<1> HIDE DEF V, W
<1>7. ASSUME NEW q \in DOMAIN topology
      PROVE  /\ q \notin wrapped' =>
                  topology'[q].avail + Charged(topology', leases', q) >= discovered[q]
             /\ q \notin overdrawn' =>
                  topology'[q].avail + Charged(topology', leases', q) = discovered[q]
  <2> DEFINE a == topology[q].avail
             T == topology[q].total
  <2>1. topology[q] \in ComputePlane /\ a \in Nat /\ T \in Nat /\ a <= T
    BY <1>0, BookFacts
  <2>2. topology'[q].avail = IF Backs(topology, p, q) THEN SaturatingSub(a, b) ELSE a
    BY <1>1, <2>1, AvailAlike, Zenon DEF Deduct
  <2>3. Smaller(a + 0, T) = a
    BY <2>1, NoBytesMove
  <2>4. topology'[q].avail =
          IF Backs(topology, p, q)
          THEN SaturatingSub(Smaller(topology[q].avail + Bytes(leases, V), topology[q].total),
                             Bytes(leases', W))
          ELSE topology[q].avail
    BY <1>5, <2>2, <2>3, Zenon
  <2> HIDE DEF p
  <2> QED
    BY <1>0, <1>1, <1>6, <2>4, PlaneMoves
<1> QED
  BY <1>0, <1>7, BooksKept DEF Audited

(* The remaining operations on a lease move no memory. *)
LEMMA ManageBooks ==
  ASSUME BooksInv, Audited, Manage
  PROVE  BooksInv'
<1>0. TypeOK
  BY DEF BooksInv
<1>1. PICK id \in DOMAIN leases :
        \/ ReleaseLease(id) \/ RevokeLease(id) \/ YieldLease(id) \/ FreezeLease(id)
        \/ ThawPreempted(id) \/ ThawSuspended(id)
  BY DEF Manage
<1>2. CASE YieldLease(id) \/ FreezeLease(id) \/ ThawSuspended(id)
  <2>1. PICK s : SetState(id, s) /\ s \in {"Active", "Preempting", "Frozen"}
    BY <1>2 DEF YieldLease, FreezeLease, ThawSuspended
  <2>2. topology' = topology /\ id \in Holding(leases)
    BY <1>2 DEF YieldLease, FreezeLease, ThawSuspended, Holding, IsActive
  <2>3. /\ \A l \in DOMAIN leases :
             leases'[l].plane = leases[l].plane /\ leases'[l].bytes = leases[l].bytes
        /\ Holding(leases') = Holding(leases) \cup {id}
    BY <1>0, <2>1, StateMoves
  <2>4. Holding(leases') = Holding(leases) /\ Holding(leases) \subseteq DOMAIN leases
    BY <2>2, <2>3 DEF Holding
  <2> QED
    BY <2>2, <2>3, <2>4, QuietBooks
<1> QED
  BY <1>1, <1>2, EndBooks, ThawBooks

(* The leases preempted to make room are held on the plane asked for, and marking them
   takes them, and no other, out of those that hold memory. *)
LEMMA MarkMoves ==
  ASSUME TypeOK, NEW p, NEW prio, NEW bytes, NEW V \in Victims(p, prio, bytes)
  PROVE  /\ V \in SUBSET Holding(leases) /\ \A l \in V : leases[l].plane = p
         /\ DOMAIN MarkPreempted(V) = DOMAIN leases
         /\ \A l \in DOMAIN leases :
              /\ MarkPreempted(V)[l].plane = leases[l].plane
              /\ MarkPreempted(V)[l].bytes = leases[l].bytes
         /\ Holding(MarkPreempted(V)) = Holding(leases) \ V
<1>1. V \subseteq Preemptable(p, prio)
  BY VictimsPreemptable
<1>2. V \in SUBSET Holding(leases) /\ \A l \in V : leases[l].plane = p
  BY <1>1 DEF Preemptable, Holding
<1>3. /\ DOMAIN MarkPreempted(V) = DOMAIN leases
      /\ \A l \in DOMAIN leases :
           /\ MarkPreempted(V)[l].plane = leases[l].plane
           /\ MarkPreempted(V)[l].bytes = leases[l].bytes
           /\ MarkPreempted(V)[l].state = IF l \in V THEN "Preempted" ELSE leases[l].state
  BY DEF MarkPreempted, TypeOK, ComputeLease
<1>4. Holding(MarkPreempted(V)) = Holding(leases) \ V
  BY <1>2, <1>3 DEF Holding, IsActive
<1> QED
  BY <1>2, <1>3, <1>4

(* What the victims' credit leaves on a plane. *)
LEMMA VictimsCredit ==
  ASSUME TypeOK, NEW p, NEW V, NEW q \in DOMAIN topology
  PROVE  RestoreVictims(p, V)[q].avail =
           IF Backs(topology, p, q)
           THEN Smaller(topology[q].avail + Bytes(leases, V), topology[q].total)
           ELSE topology[q].avail
<1>1. topology[q] \in ComputePlane
  BY DEF TypeOK, IsTopology
<1> QED
  BY <1>1, AvailAlike, Zenon DEF RestoreVictims

(* A request that is turned away for want of memory leaves its victims' memory on the
   plane. *)
LEMMA ExhaustedBooks ==
  ASSUME BooksInv, Audited, Acquire, NEW psi, NEW prio, NEW bytes, NEW pref,
         AcquireExhausted(psi, prio, bytes, pref)
  PROVE  BooksInv'
<1>0. TypeOK /\ Finite /\ Recorded
  BY DEF BooksInv
<1>1. PICK p \in TargetPlane(prio, pref) : \E V \in Victims(p, prio, bytes) :
        leases' = MarkPreempted(V) /\ topology' = RestoreVictims(p, V)
  BY DEF AcquireExhausted
<1>2. PICK V \in Victims(p, prio, bytes) :
        leases' = MarkPreempted(V) /\ topology' = RestoreVictims(p, V)
  BY <1>1
<1>3. p \in DOMAIN topology
  BY TargetExists
<1>4. Book(leases) /\ Book(leases')
  BY <1>0, TypeStep, FiniteStep DEF TypeOK, Finite, Book, Next
<1> DEFINE W == {}
<1>5. Bytes(leases', W) = 0
  BY <1>4, BytesFew
<1>6. V \in SUBSET Holding(leases) /\ V \in SUBSET DOMAIN leases
  BY <1>0, MarkMoves DEF Holding
<1>7. /\ Holding(leases') = (Holding(leases) \ V) \cup W /\ W \cap Holding(leases) = {}
      /\ \A l \in V : leases[l].plane = p
      /\ \A l \in W : leases'[l].plane = p
      /\ \A l \in Holding(leases) \ V :
           leases'[l].plane = leases[l].plane /\ leases'[l].bytes = leases[l].bytes
  BY <1>0, <1>2, MarkMoves DEF Holding
<1> HIDE DEF W
<1>8. ASSUME NEW q \in DOMAIN topology
      PROVE  /\ q \notin wrapped' =>
                  topology'[q].avail + Charged(topology', leases', q) >= discovered[q]
             /\ q \notin overdrawn' =>
                  topology'[q].avail + Charged(topology', leases', q) = discovered[q]
  <2> DEFINE r == Smaller(topology[q].avail + Bytes(leases, V), topology[q].total)
  <2>1. topology'[q].avail = IF Backs(topology, p, q) THEN r ELSE topology[q].avail
    BY <1>0, <1>2, VictimsCredit, Zenon
  <2>2. r \in Nat
    <3>1. topology[q].avail \in Nat /\ topology[q].total \in Nat
      BY <1>0, BookFacts
    <3>2. Bytes(leases, V) \in Nat
      BY <1>0, <1>6, BytesNat
    <3> QED
      BY <3>1, <3>2 DEF Smaller
  <2>3. topology'[q].avail =
          IF Backs(topology, p, q)
          THEN SaturatingSub(Smaller(topology[q].avail + Bytes(leases, V), topology[q].total),
                             Bytes(leases', W))
          ELSE topology[q].avail
    <3> HIDE DEF r
    <3>1. SaturatingSub(r, 0) = r
      BY <2>2 DEF SaturatingSub
    <3> QED
      BY <1>5, <2>1, <3>1 DEF r
  <2> HIDE DEF r
  <2> QED
    BY <1>3, <1>6, <1>7, <2>3, PlaneMoves
<1> QED
  BY <1>8, BooksKept DEF Audited

\* How a grant on plane p that preempts V and draws id moves memory.
GrantMoved(p, V, id, bytes) ==
  /\ topology' = Deduct(RestoreVictims(p, V), p, bytes)
  /\ id \in DOMAIN leases' /\ leases'[id].bytes = bytes /\ leases'[id].plane = p
  /\ id \notin Holding(leases)
  /\ Holding(leases') = (Holding(leases) \ V) \cup {id}
  /\ \A l \in V : leases[l].plane = p
  /\ \A l \in Holding(leases) \ V :
       leases'[l].plane = leases[l].plane /\ leases'[l].bytes = leases[l].bytes

(* A grant adds one active lease, and trimming the map costs no memory. *)
LEMMA GrantMoves ==
  ASSUME TypeOK, NEW psi, NEW prio, NEW bytes, NEW pref, NEW unit,
         AcquireGranted(psi, prio, bytes, pref, unit)
  PROVE  \E p \in DOMAIN topology : \E V \in SUBSET Holding(leases) : \E id :
           GrantMoved(p, V, id, bytes)
<1>1. PICK p \in TargetPlane(prio, pref) : \E V \in Victims(p, prio, bytes) :
        /\ topology' = Deduct(RestoreVictims(p, V), p, bytes)
        /\ \E id \in LeaseIds \ issued :
             leases' = [l \in DOMAIN Prune(MarkPreempted(V)) \cup {id} |->
                          IF l = id
                          THEN [plane |-> p, bytes |-> bytes, prio |-> prio,
                                unit |-> unit, state |-> "Active"]
                          ELSE Prune(MarkPreempted(V))[l]]
  BY Zenon DEF AcquireGranted
<1>2. PICK V \in Victims(p, prio, bytes) :
        /\ topology' = Deduct(RestoreVictims(p, V), p, bytes)
        /\ \E id \in LeaseIds \ issued :
             leases' = [l \in DOMAIN Prune(MarkPreempted(V)) \cup {id} |->
                          IF l = id
                          THEN [plane |-> p, bytes |-> bytes, prio |-> prio,
                                unit |-> unit, state |-> "Active"]
                          ELSE Prune(MarkPreempted(V))[l]]
  BY <1>1
<1>3. PICK id \in LeaseIds \ issued :
        leases' = [l \in DOMAIN Prune(MarkPreempted(V)) \cup {id} |->
                     IF l = id
                     THEN [plane |-> p, bytes |-> bytes, prio |-> prio,
                           unit |-> unit, state |-> "Active"]
                     ELSE Prune(MarkPreempted(V))[l]]
  BY <1>2
<1> DEFINE marked == MarkPreempted(V)
           kept == Prune(marked)
<1>4. /\ V \in SUBSET Holding(leases) /\ \A l \in V : leases[l].plane = p
      /\ DOMAIN marked = DOMAIN leases
      /\ \A l \in DOMAIN leases :
           marked[l].plane = leases[l].plane /\ marked[l].bytes = leases[l].bytes
      /\ Holding(marked) = Holding(leases) \ V
  BY MarkMoves
<1>5. id \notin DOMAIN leases /\ id \notin Holding(leases)
  BY DEF TypeOK, Holding
<1>6. leases' = [l \in DOMAIN kept \cup {id} |->
                   IF l = id THEN [plane |-> p, bytes |-> bytes, prio |-> prio,
                                   unit |-> unit, state |-> "Active"]
                   ELSE kept[l]]
  BY <1>3
<1> HIDE DEF marked
<1>7. /\ DOMAIN kept \subseteq DOMAIN marked /\ \A l \in DOMAIN kept : kept[l] = marked[l]
      /\ Holding(kept) = Holding(marked)
  BY DEF Prune, Holding, IsLive
<1> HIDE DEF kept
<1>8. /\ DOMAIN leases' = DOMAIN kept \cup {id}
      /\ leases'[id].bytes = bytes /\ leases'[id].plane = p /\ leases'[id].state = "Active"
      /\ \A l \in DOMAIN kept : l # id => leases'[l] = kept[l]
  BY <1>6
<1>9. Holding(leases') = Holding(kept) \cup {id}
  BY <1>4, <1>5, <1>7, <1>8 DEF Holding, IsActive
<1>10. \A l \in Holding(leases) \ V :
         leases'[l].plane = leases[l].plane /\ leases'[l].bytes = leases[l].bytes
  <2> SUFFICES ASSUME NEW l \in Holding(leases) \ V
               PROVE  leases'[l].plane = leases[l].plane /\ leases'[l].bytes = leases[l].bytes
    OBVIOUS
  <2>1. l \in DOMAIN kept /\ l \in DOMAIN leases
    BY <1>4, <1>7 DEF Holding
  <2> QED
    BY <1>4, <1>5, <1>7, <1>8, <2>1
<1>11. p \in DOMAIN topology
  BY TargetExists
<1>12. GrantMoved(p, V, id, bytes)
  BY <1>2, <1>4, <1>5, <1>7, <1>8, <1>9, <1>10 DEF GrantMoved
<1> QED
  BY <1>4, <1>11, <1>12, Zenon

(* A grant charges what it takes; a plane that has too little ends at zero, and the
   auditor has noted it. *)
LEMMA GrantedBooks ==
  ASSUME BooksInv, Audited, Acquire, NEW psi, NEW prio, NEW bytes \in Sizes, NEW pref,
         NEW unit, AcquireGranted(psi, prio, bytes, pref, unit)
  PROVE  BooksInv'
<1>0. TypeOK /\ Finite /\ Recorded
  BY DEF BooksInv
<1>1. PICK p \in DOMAIN topology : \E V \in SUBSET Holding(leases) : \E id :
        GrantMoved(p, V, id, bytes)
  BY <1>0, GrantMoves
<1>2. PICK V \in SUBSET Holding(leases) : \E id : GrantMoved(p, V, id, bytes)
  BY <1>1
<1>3. PICK id : GrantMoved(p, V, id, bytes)
  BY <1>2
<1> DEFINE W == {id}
           credited == RestoreVictims(p, V)
<1>4. Book(leases')
  BY <1>0, TypeStep, FiniteStep DEF TypeOK, Finite, Book, Next
<1>5. Bytes(leases', W) = bytes
  BY <1>3, <1>4, BytesFew DEF GrantMoved
<1>6. /\ Holding(leases') = (Holding(leases) \ V) \cup W /\ W \cap Holding(leases) = {}
      /\ \A l \in V : leases[l].plane = p
      /\ \A l \in W : leases'[l].plane = p
      /\ \A l \in Holding(leases) \ V :
           leases'[l].plane = leases[l].plane /\ leases'[l].bytes = leases[l].bytes
  BY <1>3 DEF GrantMoved
<1>7. V \in SUBSET DOMAIN leases
  BY DEF Holding
<1>8. IsTopology(credited) /\ DOMAIN credited = DOMAIN topology /\ Alike(credited, topology)
  BY <1>0, <1>7, RestoreVictimsType, VictimsAlike DEF TypeOK
<1>9. topology' = Deduct(credited, p, bytes)
  BY <1>3 DEF GrantMoved
<1> HIDE DEF W
<1>10. ASSUME NEW q \in DOMAIN topology
       PROVE  /\ q \notin wrapped' =>
                   topology'[q].avail + Charged(topology', leases', q) >= discovered[q]
              /\ q \notin overdrawn' =>
                   topology'[q].avail + Charged(topology', leases', q) = discovered[q]
  <2>1. credited[q].avail =
          IF Backs(topology, p, q)
          THEN Smaller(topology[q].avail + Bytes(leases, V), topology[q].total)
          ELSE topology[q].avail
    BY <1>0, VictimsCredit
  <2> HIDE DEF credited
  <2>2. credited[q] \in ComputePlane /\ (Backs(credited, p, q) <=> Backs(topology, p, q))
    BY <1>8, BacksAlike DEF IsTopology
  <2>3. topology'[q].avail = IF Backs(topology, p, q)
                             THEN SaturatingSub(credited[q].avail, bytes)
                             ELSE credited[q].avail
    BY <1>8, <1>9, <2>2, AvailAlike, Zenon DEF Deduct
  <2>4. topology'[q].avail =
          IF Backs(topology, p, q)
          THEN SaturatingSub(Smaller(topology[q].avail + Bytes(leases, V), topology[q].total),
                             Bytes(leases', W))
          ELSE topology[q].avail
    BY <1>5, <2>1, <2>3, Zenon
  <2> QED
    BY <1>6, <2>4, PlaneMoves
<1> QED
  BY <1>10, BooksKept DEF Audited

(* Every request keeps the books. *)
LEMMA AcquireBooks ==
  ASSUME BooksInv, Audited, Acquire
  PROVE  BooksInv'
<1>1. CASE AcquireRejected
  BY <1>1, QuietBooks DEF AcquireRejected, vars
<1> QED
  BY <1>1, ExhaustedBooks, GrantedBooks DEF Acquire

(* A new discovery opens the books again: the leases of planes that are gone are
   revoked, and the others are charged to what was found. *)
LEMMA UpdateBooks ==
  ASSUME BooksInv, NEW h \in Hosts, UpdateTopology(h), discovered' = Offered(h),
         overdrawn' = {p \in DOMAIN topology' :
                         Charged(topology, leases, p)' > discovered'[p]},
         wrapped' = {}
  PROVE  BooksInv'
<1> DEFINE t == Discover(h)
<1>0. TypeOK /\ Finite /\ Book(leases)
  BY DEF BooksInv, TypeOK, Finite, Book
<1>1. TypeOK' /\ Finite'
  BY <1>0, TypeStep, FiniteStep DEF Next
<1>2. Alike(topology', t) /\ IsTopology(t)
  BY UpdateAlike, DiscoverType
<1>3. Recorded'
  BY <1>2 DEF Recorded, Offered
<1>4. topology' = [q \in DOMAIN t |->
         [t[q] EXCEPT !.avail = SaturatingSub(@, Charged(t, leases, q))]]
  BY DEF UpdateTopology
<1>5. leases' = [l \in DOMAIN leases |->
         IF IsLive(leases[l]) /\ leases[l].plane \notin DOMAIN t
         THEN [leases[l] EXCEPT !.state = "Revoked"] ELSE leases[l]]
  BY DEF UpdateTopology
<1>6. discovered' = [p \in DOMAIN t |-> t[p].avail]
  BY DEF Offered
<1> HIDE DEF t
<1>7. /\ DOMAIN leases' = DOMAIN leases
      /\ \A l \in DOMAIN leases :
           /\ leases'[l].plane = leases[l].plane /\ leases'[l].bytes = leases[l].bytes
           /\ leases'[l].state = IF IsLive(leases[l]) /\ leases[l].plane \notin DOMAIN t
                                 THEN "Revoked" ELSE leases[l].state
  BY <1>0, <1>5 DEF TypeOK, ComputeLease
<1>8. ASSUME NEW q \in DOMAIN t
      PROVE  /\ Charged(topology', leases', q) = Charged(t, leases, q)
             /\ Charged(t, leases, q) \in Nat
  <2> DEFINE C == Charging(t, leases, q)
  <2>1. \A r : Backs(topology', r, q) <=> Backs(t, r, q)
    BY <1>2, BacksAlike
  <2>2. DOMAIN topology' = DOMAIN t
    BY <1>4
  <2>3. Charging(topology', leases', q) =
          {l \in DOMAIN leases' : /\ IsActive(leases'[l]) /\ leases'[l].plane \in DOMAIN t
                                  /\ Backs(t, leases'[l].plane, q)}
    BY <2>1, <2>2 DEF Charging
  <2>4. \A l \in DOMAIN leases : leases[l].plane \in DOMAIN t =>
          (IsActive(leases'[l]) <=> IsActive(leases[l]))
    BY <1>7 DEF IsActive
  <2>5. Charging(topology', leases', q) = C
    BY <1>7, <2>3, <2>4 DEF Charging
  <2>6. C \in SUBSET DOMAIN leases /\ C \subseteq DOMAIN leases'
    BY <1>7 DEF Charging
  <2>7. \A l \in C : leases'[l].bytes = leases[l].bytes
    BY <1>7, <2>6
  <2> HIDE DEF C
  <2>8. Bytes(leases', C) = Bytes(leases, C) /\ Bytes(leases, C) \in Nat
    BY <1>0, <2>6, <2>7, BytesKept, BytesSums
  <2>9. Charged(topology', leases', q) = Bytes(leases', Charging(topology', leases', q))
    BY DEF Charged, Charging
  <2>10. Charged(t, leases, q) = Bytes(leases, C)
    BY DEF Charged, Charging, C
  <2> QED
    BY <2>5, <2>8, <2>9, <2>10
<1>9. ASSUME NEW q \in DOMAIN t
      PROVE  /\ q \notin wrapped' =>
                  topology'[q].avail + Charged(topology', leases', q) >= discovered'[q]
             /\ q \notin overdrawn' =>
                  topology'[q].avail + Charged(topology', leases', q) = discovered'[q]
  <2> DEFINE c == Charged(t, leases, q)
             d == t[q].avail
  <2>1. t[q] \in ComputePlane /\ d \in Nat
    BY <1>2 DEF IsTopology, ComputePlane
  <2>2. topology'[q].avail = SaturatingSub(d, c)
    BY <1>4, <2>1, AvailAlike, Zenon
  <2>3. q \notin overdrawn' => ~(Charged(topology', leases', q) > discovered'[q])
    BY <1>4
  <2>4. Charged(topology', leases', q) = c /\ c \in Nat /\ discovered'[q] = d
    BY <1>6, <1>8
  <2> HIDE DEF c, d
  <2>5. SaturatingSub(d, c) = IF c <= d THEN d - c ELSE 0
    BY <2>1, <2>4 DEF SaturatingSub
  <2>6. SaturatingSub(d, c) + c >= d /\ (~(c > d) => SaturatingSub(d, c) + c = d)
    BY <2>1, <2>4, <2>5
  <2> QED
    BY <2>2, <2>3, <2>4, <2>6, Zenon
<1>10. NothingLeaks' /\ BooksBalance'
  BY <1>4, <1>9 DEF NothingLeaks, BooksBalance, ChargedNow
<1> QED
  BY <1>1, <1>3, <1>10 DEF BooksInv

(* The books are right to begin with, when there is no lease. *)
LEMMA BooksInvInit == BooksInit => BooksInv
<1> SUFFICES ASSUME BooksInit PROVE BooksInv
  OBVIOUS
<1>1. PICK h \in Hosts : topology = Discover(h)
  BY DEF BooksInit, Init
<1>2. TypeOK /\ Finite
  BY TypeInit, FS_EmptySet DEF BooksInit, Init, Finite
<1>3. Recorded
  BY <1>1 DEF BooksInit, Recorded, Offered, Alike, AlikePlanes
<1>4. \A q : Charged(topology, leases, q) = 0
  <2>1. \A q : Charging(topology, leases, q) = {}
    BY DEF BooksInit, Init, Charging
  <2>2. Bytes(leases, {}) = 0
    BY <1>2, BytesFew DEF TypeOK, Finite, Book
  <2> QED
    BY <2>1, <2>2 DEF Charged, Charging
<1>5. \A q \in DOMAIN topology : topology[q].avail \in Nat
                                /\ discovered[q] = topology[q].avail
  BY <1>2, <1>3, BookFacts DEF BooksInit
<1>6. NothingLeaks /\ BooksBalance
  BY <1>4, <1>5 DEF NothingLeaks, BooksBalance, ChargedNow
<1> QED
  BY <1>2, <1>3, <1>6 DEF BooksInv

(* Every step keeps them right. *)
LEMMA BooksInvStep == BooksInv /\ [BooksNext]_booksVars => BooksInv'
<1> SUFFICES ASSUME BooksInv, [BooksNext]_booksVars PROVE BooksInv'
  OBVIOUS
<1>1. CASE Acquire /\ Audited
  BY <1>1, AcquireBooks
<1>2. CASE Manage /\ Audited
  BY <1>2, ManageBooks
<1>3. ASSUME NEW h \in Hosts, UpdateTopology(h), discovered' = Offered(h),
             overdrawn' = {p \in DOMAIN topology' :
                             Charged(topology, leases, p)' > discovered'[p]},
             wrapped' = {}
      PROVE  BooksInv'
  BY <1>3, UpdateBooks
<1>4. CASE UNCHANGED booksVars
  <2>1. UNCHANGED <<topology, leases, issued, frozen, discovered, overdrawn, wrapped>>
    BY <1>4 DEF booksVars, vars
  <2> QED
    BY <2>1, Zenon DEF BooksInv, TypeOK, Finite, Recorded, NothingLeaks, BooksBalance, ChargedNow
<1> QED
  BY <1>1, <1>2, <1>3, <1>4, Zenon DEF BooksNext, Audited

(* No memory is lost by preempting, thawing, releasing, revoking or unplugging, whatever
   sizes clients ask for, but where the credit of an ending lease wraps: elsewhere what
   a plane offers and what its leases hold make up at least what was discovered
   (arbiter.rs:29-246; the addition that wraps is at :239). *)
THEOREM MemoryNotLost == BooksSpec => []NothingLeaks
<1>1. BooksInv => NothingLeaks
  BY DEF BooksInv
<1> QED
  BY <1>1, BooksInvInit, BooksInvStep, PTL DEF BooksSpec

(* No memory is handed out twice: on a plane that was never made to give more than it
   had, the two sum to exactly what was discovered, the CPU plane that shares its RAM
   with an integrated GPU included, and no credit wraps there (arbiter.rs:29-246). *)
THEOREM MemoryBalances == BooksSpec => []BooksBalance
<1>1. BooksInv => BooksBalance
  BY DEF BooksInv
<1> QED
  BY <1>1, BooksInvInit, BooksInvStep, PTL DEF BooksSpec
=============================================================================
