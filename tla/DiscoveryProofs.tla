-------------------------- MODULE DiscoveryProofs ---------------------------
(***************************************************************************)
(* Proofs about discovery for any devices and any changes of the machine   *)
(* between one discovery and the next.                                     *)
(***************************************************************************)
EXTENDS Discovery, ArbiterProofs

(* The arbiter of a machine nobody uses offers what discovery found. *)
LEMMA UpdateIsDiscover ==
  ASSUME NEW h \in Hosts, DOMAIN leases = {}, UpdateTopology(h)
  PROVE  topology' = Discover(h) /\ DOMAIN leases' = {}
<1> DEFINE t == Discover(h)
<1>1. IsTopology(t)
  BY DiscoverType
<1>2. ASSUME NEW q \in DOMAIN t
      PROVE  Charged(t, leases, q) = 0
  <2>1. {l \in DOMAIN leases :
           /\ IsActive(leases[l]) /\ leases[l].plane \in DOMAIN t
           /\ Backs(t, leases[l].plane, q)} = {}
    OBVIOUS
  <2> QED
    BY <2>1, SumEmpty, Zenon DEF Charged, Bytes
<1>3. /\ topology' = [q \in DOMAIN t |->
                       [t[q] EXCEPT !.avail = SaturatingSub(@, Charged(t, leases, q))]]
      /\ DOMAIN leases' = DOMAIN leases
  BY DEF UpdateTopology
<1> HIDE DEF t
<1>4. ASSUME NEW q \in DOMAIN t
      PROVE  [t[q] EXCEPT !.avail = SaturatingSub(@, Charged(t, leases, q))] = t[q]
  <2>1. t[q] \in ComputePlane /\ t[q].avail \in Nat
    BY <1>1 DEF IsTopology, ComputePlane
  <2>2. SaturatingSub(t[q].avail, 0) = t[q].avail
    BY <2>1 DEF SaturatingSub
  <2> QED
    BY <1>2, <2>1, <2>2 DEF ComputePlane
<1>5. t = [q \in DOMAIN t |-> t[q]]
  BY <1>1 DEF IsTopology
<1>6. topology' = t
  BY <1>3, <1>4, <1>5
<1> QED
  BY <1>3, <1>6 DEF t

----------------------------------------------------------------------------
(* A plane that is not a GPU's is found alike on machines that differ in GPUs only. *)
LEMMA FoundAlike ==
  ASSUME NEW h \in Hosts, NEW g \in Hosts, BesidesGpus(h) = BesidesGpus(g)
  PROVE  /\ h.npus = g.npus
         /\ \A p \in h.npus \cup {Cpu} : Found(h)[p] = Found(g)[p]
<1>1. /\ h.availRam = g.availRam /\ h.npus = g.npus
      /\ [p \in Planes \ Drms |-> h.rank[p]] = [p \in Planes \ Drms |-> g.rank[p]]
      /\ h.hung \cap {"hailo"} = g.hung \cap {"hailo"}
  BY DEF BesidesGpus
<1>2. \A p \in Planes \ Drms : h.rank[p] = g.rank[p]
  BY <1>1
<1>3. h.npus \cup {Cpu} \subseteq Planes \ Drms
  BY HostsAssumption, DevicesAssumption DEF IsHost, Planes
<1>4. CpuPlane(h) = CpuPlane(g)
  BY <1>1, <1>2, <1>3 DEF CpuPlane
<1>5. ASSUME NEW p \in h.npus
      PROVE  /\ NpuPlane(h, p) = NpuPlane(g, p)
             /\ (DriversNamed(h, p) \cap h.hung # {}) = (DriversNamed(g, p) \cap g.hung # {})
  <2>1. h.rank[p] = g.rank[p] /\ p \notin Drms
    BY <1>2, <1>3
  <2>2. NpuPlane(h, p) = NpuPlane(g, p)
    BY <2>1 DEF NpuPlane
  <2>3. DriversNamed(h, p) = DriversNamed(g, p) /\ DriversNamed(h, p) \subseteq {"hailo"}
    BY <2>1 DEF DriversNamed
  <2>4. (DriversNamed(h, p) \cap h.hung # {}) <=> (DriversNamed(g, p) \cap g.hung # {})
    BY <1>1, <2>3
  <2> QED
    BY <2>2, <2>4
<1>6. ASSUME NEW p \in h.npus
      PROVE  Found(h)[p] = Found(g)[p]
  <2>1. /\ Found(h)[p] = [NpuPlane(h, p) EXCEPT
                            !.quarantined = DriversNamed(h, p) \cap h.hung # {}]
        /\ Found(g)[p] = [NpuPlane(g, p) EXCEPT
                            !.quarantined = DriversNamed(g, p) \cap g.hung # {}]
    BY <1>1, FoundPlanes, Zenon
  <2> QED
    BY <1>5, <2>1, Zenon
<1>7. Found(h)[Cpu] = Found(g)[Cpu]
  BY <1>4, FoundPlanes, Zenon
<1> QED
  BY <1>1, <1>6, <1>7

(* The enclave is the same on machines that differ in their GPUs only. *)
LEMMA EnclaveAlike ==
  ASSUME NEW h \in Hosts, NEW g \in Hosts, BesidesGpus(h) = BesidesGpus(g)
  PROVE  [p \in EmergencyPlane(Discover(h)) |-> Discover(h)[p]]
           = [p \in EmergencyPlane(Discover(g)) |-> Discover(g)[p]]
<1>1. h.npus = g.npus /\ \A p \in h.npus \cup {Cpu} : Found(h)[p] = Found(g)[p]
  BY FoundAlike
<1>2. HealthyNpus(h) = HealthyNpus(g) /\ HealthyNpus(h) \subseteq h.npus
  <2>1. \A p \in Nodes(h) : p \notin h.npus => Found(h)[p].kind # "NpuAccelerator"
    BY FoundPlanes
  <2>2. \A p \in Nodes(g) : p \notin g.npus => Found(g)[p].kind # "NpuAccelerator"
    BY FoundPlanes
  <2>3. h.npus \subseteq Nodes(h) /\ g.npus \subseteq Nodes(g)
    BY DEF Nodes
  <2> QED
    BY <1>1, <2>1, <2>2, <2>3 DEF HealthyNpus
<1>3. First(h) = First(g)
  BY <1>1, <1>2 DEF First, FirstOf
<1>4. ASSUME NEW p \in First(h) \cup {Cpu}
      PROVE  Discover(h)[p] = Discover(g)[p]
  <2>1. CASE p \in First(h)
    <3>1. Found(h)[p] = Found(g)[p]
      BY <1>1, <2>1, Assigned
    <3>2. /\ Discover(h)[p] = [Found(h)[p] EXCEPT !.reserved = TRUE]
          /\ Discover(g)[p] = [Found(g)[p] EXCEPT !.reserved = TRUE]
      BY <1>3, <2>1, Assigned, Zenon
    <3> QED
      BY <3>1, <3>2, Zenon
  <2>2. CASE p = Cpu
    BY <1>1, <1>2, <2>2, Assigned
  <2> QED
    BY <2>1, <2>2
<1>5. EmergencyPlane(Discover(h)) = EmergencyPlane(Discover(g))
  BY <1>3, EnclavePlane
<1>6. EmergencyPlane(Discover(h)) \subseteq First(h) \cup {Cpu}
  BY EnclavePlane
<1> QED
  BY <1>4, <1>5, <1>6

----------------------------------------------------------------------------
(* Nobody holds a lease here, so the arbiter's topology is what discovery made of
   the machine it saw last. *)
OffersFound ==
  /\ host \in Hosts /\ DOMAIN leases = {}
  /\ topology = Discover(host)

LEMMA OffersFoundInvariant == DiscoverySpec => []OffersFound
<1>1. DiscoveryInit => OffersFound
  BY DEF DiscoveryInit, OffersFound
<1>2. OffersFound /\ [DiscoveryNext]_discoveryVars => OffersFound'
  <2> SUFFICES ASSUME OffersFound, [DiscoveryNext]_discoveryVars
               PROVE  OffersFound'
    OBVIOUS
  <2>1. ASSUME NEW h \in Hosts, RefreshTopology(h)
        PROVE  OffersFound'
    BY <2>1, UpdateIsDiscover DEF RefreshTopology, OffersFound
  <2>2. ASSUME NEW h \in Hosts, Restart(h)
        PROVE  OffersFound'
    BY <2>2 DEF Restart, OffersFound
  <2>3. CASE UNCHANGED discoveryVars
    BY <2>3 DEF discoveryVars, vars, OffersFound
  <2> QED
    BY <2>1, <2>2, <2>3 DEF DiscoveryNext
<1> QED
  BY <1>1, <1>2, PTL DEF DiscoverySpec

(* Driver Fault Immunity (Discovery!EnclaveSurvivesGpus), for any devices: whatever
   becomes of the GPUs, the enclave is the same plane with the same memory. *)
THEOREM EnclaveSurvives == DiscoverySpec => EnclaveSurvivesGpus
<1>1. OffersFound /\ OffersFound'
        => LET enclave(t) == [p \in EmergencyPlane(t) |-> t[p]]
           IN BesidesGpus(host) = BesidesGpus(host')
                => enclave(topology)' = enclave(topology)
  BY EnclaveAlike DEF OffersFound
<1> QED
  BY <1>1, OffersFoundInvariant, PTL DEF EnclaveSurvivesGpus

(* Emergencies are served whatever hardware is left (Arbiter!EmergencyIsServed), on
   a machine nobody else uses: there is an enclave, and it is not in quarantine. *)
THEOREM EmergencyServed == DiscoverySpec => []EmergencyIsServed
<1>1. OffersFound => EmergencyIsServed
  <2> SUFFICES ASSUME OffersFound, NEW b \in Sizes
               PROVE  \E p \in TargetPlane(EmergencyTriage, NoPlane) :
                        ~topology[p].quarantined /\ Victims(p, EmergencyTriage, b) # {}
    BY DEF EmergencyIsServed
  <2>1. TargetPlane(EmergencyTriage, NoPlane) = EmergencyPlane(Discover(host))
    BY DEF TargetPlane, OffersFound
  <2>2. PICK p \in EmergencyPlane(Discover(host)) : Discover(host)[p].quarantined = FALSE
    BY EnclaveHealthy DEF OffersFound
  <2>3. topology[p].quarantined = FALSE
    BY <2>2 DEF OffersFound
  <2>4. Preemptable(p, EmergencyTriage) = {}
    BY DEF Preemptable, OffersFound
  <2>5. {} \in Victims(p, EmergencyTriage, b)
    BY <2>4 DEF Victims
  <2> QED
    BY <2>1, <2>2, <2>3, <2>5
<1> QED
  BY <1>1, OffersFoundInvariant, PTL
=============================================================================
