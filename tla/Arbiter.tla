------------------------------ MODULE Arbiter -------------------------------
(***************************************************************************)
(* The lease arbiter of crates/inferenced-core (arbiter.rs, lease.rs).     *)
(* Its whole state sits behind one RwLock and every operation takes the    *)
(* write lock for its whole body, so each operation is one action.  The    *)
(* two reads made before the lock is taken, the PSI level in acquire_lease *)
(* and the discovery in refresh_topology, are inputs: whatever they saw,   *)
(* it may be out of date when the lock is granted.                         *)
(*                                                                         *)
(* Calls that return early without touching the state (a lease id that is  *)
(* unknown, a lease that is already over) are stuttering steps and appear  *)
(* here as the guard of the operation.                                     *)
(***************************************************************************)
EXTENDS Topology, FiniteSets, Functions

CONSTANTS
  LeaseIds,   \* the UUIDs a run may use; each is drawn at most once
  Units,      \* client_unit values: the clients' cgroups
  NoUnit,     \* client_unit = None
  NoPlane,    \* preferred_plane = None
  Freezable,  \* the units whose cgroup.freeze file can be written
  Sizes,      \* the memory sizes clients ask for
  MaxLeases,  \* 128: above it a grant drops the leases that are over
  Word        \* 2^64: one more than the largest byte count

VARIABLES
  topology,   \* state.topology: plane id -> plane
  leases,     \* state.leases: lease id -> lease, a partial function
  issued,     \* the lease ids drawn so far
  frozen      \* the units whose cgroup.freeze holds "1" (kernel state)

vars == <<topology, leases, issued, frozen>>

\* LeasePriority and its weights.
Batch == 0
Interactive == 10
EmergencyTriage == 100
Priorities == {Batch, Interactive, EmergencyTriage}

LeaseStates ==
  {"Active", "Preempting", "Frozen", "Preempted", "Revoked", "Expired"}

\* The PSI readings acquire_lease tells apart.
PressureLevels == {"BelowCritical", "Critical"}

ComputeLease ==
  [plane : Planes, bytes : Sizes, prio : Priorities, unit : Units \cup {NoUnit},
   state : LeaseStates]

ASSUME ArbiterAssumption ==
  /\ Sizes \subseteq Nat /\ MaxLeases \in Nat
  /\ NoPlane \notin Planes /\ NoUnit \notin Units
  /\ Freezable \subseteq Units
  /\ Word \in Nat \ {0} /\ \A b \in Sizes : b < Word

\* A machine has far less than 2^64 bytes: any two of its planes, now and after a
\* later discovery, have less together.  What clients ask for is not bounded so.
ASSUME MemoryAssumption ==
  \A g, h \in Hosts : \A p \in DOMAIN Discover(g), q \in DOMAIN Discover(h) :
    Discover(g)[p].total + Discover(h)[q].total < Word

----------------------------------------------------------------------------
(* Leases.                                                                  *)

\* ComputeLease::is_active: the states that hold memory of a plane.
IsActive(l) == l.state \in {"Active", "Preempting", "Frozen"}

\* The states release and revoke act on, and pruning keeps.
IsLive(l) == IsActive(l) \/ l.state = "Preempted"

----------------------------------------------------------------------------
(* Memory accounting.                                                       *)

\* u64::saturating_sub.
SaturatingSub(a, b) == IF a - b \in 0 .. a THEN a - b ELSE 0

\* Mutation: the sum is not clipped at the total.
CreditedUnclipped(avail, bytes, total) == (avail + bytes) % Word

\* (available + bytes).min(total): the sum wraps at Word in a release build.
Credited(avail, bytes, total) ==
  LET sum == (avail + bytes) % Word
  IN IF sum \in 0 .. total THEN sum ELSE total

\* A lease on plane p takes its memory out of plane q: p itself and, when p is
\* an integrated GPU, the host CPU plane whose RAM it shares.
Backs(t, p, q) ==
  \/ q = p
  \/ /\ p \in DOMAIN t /\ t[p].kind = "IntegratedUma"
     /\ q \in FirstOf(t, {r \in DOMAIN t : t[r].kind = "CpuMatrixExtension"})

\* The deduction made by a grant and by a thaw.
Deduct(t, p, bytes) ==
  [q \in DOMAIN t |->
     IF Backs(t, p, q) THEN [t[q] EXCEPT !.avail = SaturatingSub(@, bytes)]
     ELSE t[q]]

\* restore_plane_memory.
RestorePlaneMemory(t, p, bytes) ==
  [q \in DOMAIN t |->
     IF Backs(t, p, q)
     THEN [t[q] EXCEPT !.avail = Credited(@, bytes, t[q].total)]
     ELSE t[q]]

\* The bytes of a set of leases.
Bytes(ls, S) == SumFunctionOnSet([l \in DOMAIN ls |-> ls[l].bytes], S)

\* What the active leases take out of plane q of topology t.
Charged(t, ls, q) ==
  Bytes(ls, {l \in DOMAIN ls :
               /\ IsActive(ls[l]) /\ ls[l].plane \in DOMAIN t
               /\ Backs(t, ls[l].plane, q)})

----------------------------------------------------------------------------
(* acquire_lease: the plane a request is served from.                       *)

\* Iterator::max_by_key: the last of the planes of S with the largest value.
LastMax(t, S, key(_)) ==
  {p \in S : \A q \in S : \/ key(q) < key(p)
                          \/ key(q) = key(p) /\ t[q].rank <= t[p].rank}

\* Mutation: no fallback for a machine without an enclave plane.
EmergencyPlaneReservedOnly(t) == FirstOf(t, {p \in DOMAIN t : t[p].reserved})

\* An emergency without a preferred plane: the enclave, else the CPU, else the
\* largest plane.
EmergencyPlane(t) ==
  LET reserved == {p \in DOMAIN t : t[p].reserved}
      cpus == {p \in DOMAIN t : t[p].kind = "CpuMatrixExtension"}
      total(p) == t[p].total
  IN IF reserved # {} THEN FirstOf(t, reserved)
     ELSE IF cpus # {} THEN FirstOf(t, cpus)
     ELSE LastMax(t, DOMAIN t, total)

\* Any other request: the roomiest plane that is neither in quarantine nor the
\* enclave.
DefaultPlane(t) ==
  LET avail(p) == t[p].avail
  IN LastMax(t, {p \in DOMAIN t : ~t[p].quarantined /\ ~t[p].reserved}, avail)

\* The plane chosen, or none (Error::PlaneNotFound).  A preferred plane is taken
\* as it is: neither its reservation nor its quarantine is looked at.
TargetPlane(prio, pref) ==
  IF pref # NoPlane THEN {pref} \cap DOMAIN topology
  ELSE IF prio = EmergencyTriage THEN EmergencyPlane(topology)
  ELSE DefaultPlane(topology)

\* PSI gate, read before the lock is taken.
Throttled(psi, prio) == psi = "Critical" /\ prio # EmergencyTriage

----------------------------------------------------------------------------
(* acquire_lease: preemption.                                               *)

\* Mutation: leases of the same priority may be preempted too.
PreemptableOrEqual(p, prio) ==
  {l \in DOMAIN leases : /\ leases[l].plane = p /\ IsActive(leases[l])
                         /\ leases[l].prio <= prio}

Preemptable(p, prio) ==
  {l \in DOMAIN leases : /\ leases[l].plane = p /\ IsActive(leases[l])
                         /\ leases[l].prio < prio}

\* The loop credits the victims one by one.  A victim is no emergency: it fitted a
\* plane when it was granted, so no single credit wraps (MemoryAssumption), and the
\* clipped credits come to one clipped credit of their sum.
RestoreVictims(p, V) ==
  [q \in DOMAIN topology |->
     IF Backs(topology, p, q)
     THEN [topology[q] EXCEPT
             !.avail = Smaller(@ + Bytes(leases, V), topology[q].total)]
     ELSE topology[q]]

\* The room on plane p once the leases V are preempted.
Room(p, V) == RestoreVictims(p, V)[p].avail

\* The candidates are taken by increasing priority until the request fits;
\* among equals the order is that of a HashMap.  V is a set the loop may take:
\* it goes on until there is room or nobody is left, a lease is spared only if
\* no victim outranks it, and without the last one taken there was no room.
Victims(p, prio, bytes) ==
  LET cand == Preemptable(p, prio)
      short(V) == Room(p, V) < bytes
  IN IF topology[p].avail >= bytes THEN {{}}
     ELSE {V \in SUBSET cand :
             /\ short(V) => V = cand
             /\ \A v \in V, w \in cand \ V : leases[v].prio <= leases[w].prio
             /\ V # {} => \E v \in V :
                            /\ \A w \in V : leases[w].prio <= leases[v].prio
                            /\ short(V \ {v})}

MarkPreempted(V) ==
  [l \in DOMAIN leases |->
     IF l \in V THEN [leases[l] EXCEPT !.state = "Preempted"] ELSE leases[l]]

\* Mutation: retain(is_active) forgets the leases that wait for a thaw.
PruneInactive(ls) ==
  IF Cardinality(DOMAIN ls) > MaxLeases
  THEN [l \in {k \in DOMAIN ls : IsActive(ls[k])} |-> ls[l]]
  ELSE ls

\* leases.retain(active or Preempted) once the map has grown past MaxLeases.
Prune(ls) ==
  IF Cardinality(DOMAIN ls) > MaxLeases
  THEN [l \in {k \in DOMAIN ls : IsLive(ls[k])} |-> ls[l]]
  ELSE ls

\* The units of the preempted leases, as far as freeze_cgroup succeeds; its
\* errors are ignored.
FreezeUnits(V) == {leases[v].unit : v \in V} \cap Freezable

----------------------------------------------------------------------------
(* The operations.                                                          *)

Init ==
  /\ topology \in {Discover(h) : h \in Hosts}
  /\ leases = [l \in {} |-> {}]
  /\ issued = {}
  /\ frozen = {}

\* The requests turned away with BusSaturation or PlaneNotFound.
Rejected ==
  {r \in [psi : PressureLevels, prio : Priorities, pref : Planes \cup {NoPlane}] :
     Throttled(r.psi, r.prio) \/ TargetPlane(r.prio, r.pref) = {}}

\* Nothing has changed yet when they are.
AcquireRejected == Rejected # {} /\ UNCHANGED vars

\* ResourceExhaustion: the leases preempted to make room stay preempted, and
\* since the error returns before the loop that signals and freezes them, their
\* clients are never told.
AcquireExhausted(psi, prio, bytes, pref) ==
  /\ ~Throttled(psi, prio) /\ prio # EmergencyTriage
  /\ \E p \in TargetPlane(prio, pref) : \E V \in Victims(p, prio, bytes) :
       /\ Room(p, V) < bytes
       /\ leases' = MarkPreempted(V)
       /\ topology' = RestoreVictims(p, V)
  /\ UNCHANGED <<issued, frozen>>

\* The lease is granted; an emergency is granted even where there is no room.
AcquireGranted(psi, prio, bytes, pref, unit) ==
  /\ ~Throttled(psi, prio)
  /\ \E p \in TargetPlane(prio, pref) : \E V \in Victims(p, prio, bytes) :
       /\ Room(p, V) >= bytes \/ prio = EmergencyTriage
       /\ \E id \in LeaseIds \ issued :
            LET kept == Prune(MarkPreempted(V))
                lease == [plane |-> p, bytes |-> bytes, prio |-> prio,
                          unit |-> unit, state |-> "Active"]
            IN /\ leases' = [l \in DOMAIN kept \cup {id} |->
                               IF l = id THEN lease ELSE kept[l]]
               /\ issued' = issued \cup {id}
       /\ topology' = Deduct(RestoreVictims(p, V), p, bytes)
       /\ frozen' = frozen \cup FreezeUnits(V)

SetState(id, state) == leases' = [leases EXCEPT ![id].state = state]

\* Mutation: a lease that is Frozen or Preempting gives nothing back.
ReturnMemoryIfRunning(id) ==
  topology' = IF leases[id].state = "Active"
              THEN RestorePlaneMemory(topology, leases[id].plane, leases[id].bytes)
              ELSE topology

\* Mutation: the memory of a preempted lease is given back a second time.
ReturnMemoryAlways(id) ==
  topology' = RestorePlaneMemory(topology, leases[id].plane, leases[id].bytes)

\* The memory an ending lease gives back: none if it was preempted, for then it
\* was given back already.
ReturnMemory(id) ==
  topology' = IF IsActive(leases[id])
              THEN RestorePlaneMemory(topology, leases[id].plane, leases[id].bytes)
              ELSE topology

ReleaseLease(id) ==
  /\ IsLive(leases[id])
  /\ SetState(id, "Expired")
  /\ ReturnMemory(id)
  /\ UNCHANGED <<issued, frozen>>

RevokeLease(id) ==
  /\ IsLive(leases[id])
  /\ SetState(id, "Revoked")
  /\ ReturnMemory(id)
  /\ UNCHANGED <<issued, frozen>>

YieldLease(id) ==
  /\ IsActive(leases[id])
  /\ SetState(id, "Preempting")
  /\ UNCHANGED <<topology, issued, frozen>>

\* freeze_lease records the state; it writes no cgroup.freeze file.
FreezeLease(id) ==
  /\ IsActive(leases[id])
  /\ SetState(id, "Frozen")
  /\ UNCHANGED <<topology, issued, frozen>>

\* There is memory for l: on its plane and, for an integrated GPU, on the CPU's.
FitsAgain(l) ==
  /\ l.plane \in DOMAIN topology
  /\ \A q \in DOMAIN topology :
       Backs(topology, l.plane, q) => topology[q].avail >= l.bytes

\* thaw_lease of a preempted lease takes its memory again, if it is there;
\* otherwise nothing changes.
ThawPreempted(id) ==
  LET l == leases[id]
  IN /\ l.state = "Preempted"
     /\ FitsAgain(l)
     /\ topology' = Deduct(topology, l.plane, l.bytes)
     /\ SetState(id, "Active")
     /\ UNCHANGED <<issued, frozen>>

ThawSuspended(id) ==
  /\ leases[id].state \in {"Frozen", "Preempting"}
  /\ SetState(id, "Active")
  /\ UNCHANGED <<topology, issued, frozen>>

\* update_topology with what discovery found on host h: the live leases of a
\* plane that is gone are revoked and the active ones charged again.
UpdateTopology(h) ==
  LET t == Discover(h)
  IN /\ topology' =
          [q \in DOMAIN t |->
             [t[q] EXCEPT !.avail = SaturatingSub(@, Charged(t, leases, q))]]
     /\ leases' =
          [l \in DOMAIN leases |->
             IF IsLive(leases[l]) /\ leases[l].plane \notin DOMAIN t
             THEN [leases[l] EXCEPT !.state = "Revoked"] ELSE leases[l]]
     /\ UNCHANGED <<issued, frozen>>

Acquire ==
  \/ AcquireRejected
  \/ \E psi \in PressureLevels, prio \in Priorities, bytes \in Sizes,
        pref \in Planes \cup {NoPlane} :
       \/ AcquireExhausted(psi, prio, bytes, pref)
       \/ \E unit \in Units \cup {NoUnit} :
            AcquireGranted(psi, prio, bytes, pref, unit)

Manage ==
  \E id \in DOMAIN leases :
    \/ ReleaseLease(id) \/ RevokeLease(id) \/ YieldLease(id) \/ FreezeLease(id)
    \/ ThawPreempted(id) \/ ThawSuspended(id)

Next == Acquire \/ Manage \/ \E h \in Hosts : UpdateTopology(h)

Spec == Init /\ [][Next]_vars

----------------------------------------------------------------------------
(* Properties.                                                              *)

\* Every component has its type, a plane never offers more than it has, and a
\* lease that holds memory holds it on a plane that exists.
TypeOK ==
  /\ IsTopology(topology)
  /\ DOMAIN leases \subseteq issued
  /\ leases \in [DOMAIN leases -> ComputeLease]
  /\ \A l \in DOMAIN leases : IsLive(leases[l]) => leases[l].plane \in DOMAIN topology
  /\ issued \subseteq LeaseIds
  /\ frozen \subseteq Freezable

\* The lease as LeaseLifecycle sees it; a lease that was pruned is over.
Status ==
  [l \in LeaseIds |->
     IF l \notin issued THEN "unissued"
     ELSE IF l \notin DOMAIN leases THEN "over"
     ELSE IF IsActive(leases[l]) THEN "held"
     ELSE IF leases[l].state = "Preempted" THEN "parked" ELSE "over"]

Lifecycle == INSTANCE LeaseLifecycle WITH status <- Status

\* The arbiter implements the lifecycle it promises: no id is granted twice, a
\* lease that was released, revoked or unplugged never runs again (not even by a
\* late thaw), and trimming the map drops only leases that are over.
ImplementsLifecycle == Lifecycle!LSpec

LosesMemory(l) == /\ IsActive(leases[l]) /\ l \in DOMAIN leases'
                  /\ leases'[l].state = "Preempted"

OrderlyStep ==
  \A v \in DOMAIN leases : LosesMemory(v) =>
    /\ leases[v].prio < EmergencyTriage
    /\ \A w \in DOMAIN leases \cap DOMAIN leases' :
         leases[w].plane = leases[v].plane /\ IsActive(leases'[w])
           => leases[w].prio >= leases[v].prio
    /\ \A n \in issued' \ issued :
         /\ leases'[n].plane = leases[v].plane
         /\ leases'[n].prio > leases[v].prio
         /\ topology[leases[v].plane].avail < leases'[n].bytes

\* Who may be preempted for whom.  A lease loses its memory only to a request of
\* higher priority for the same plane that did not fit beforehand, so never an
\* emergency lease, and never while a lease of lower priority keeps its own.
PreemptionIsOrderly == [][OrderlyStep]_vars

\* An emergency that names no plane is always served, whatever hardware is left
\* and however full it is, and never from a plane in quarantine.
EmergencyIsServed ==
  \A b \in Sizes : \E p \in TargetPlane(EmergencyTriage, NoPlane) :
    ~topology[p].quarantined /\ Victims(p, EmergencyTriage, b) # {}
=============================================================================
