----------------------------- MODULE Discovery ------------------------------
(***************************************************************************)
(* Discovery as the arbiter lives it: the daemon discovers the machine     *)
(* when it starts, and refresh_topology discovers it again and hands the   *)
(* result to update_topology.  Nobody holds a lease here; what changes is  *)
(* the machine between one discovery and the next: nodes appear and        *)
(* vanish, memory comes and goes, and drivers leave hangs in the crash     *)
(* logs.  The variable host, which the daemon never stores, is what the    *)
(* last discovery saw.  Hotplug adds the events that should lead to it.    *)
(***************************************************************************)
EXTENDS Arbiter

VARIABLE host

discoveryVars == <<vars, host>>

DiscoveryInit ==
  /\ host \in Hosts
  /\ topology = Discover(host)
  /\ leases = [l \in {} |-> {}] /\ issued = {} /\ frozen = {}

\* Arbiter::refresh_topology.
RefreshTopology(h) == UpdateTopology(h) /\ host' = h

\* systemd starts the daemon again: main discovers the machine and builds a new
\* arbiter, which knows no lease.
Restart(h) ==
  /\ host' = h
  /\ topology' = Discover(h)
  /\ leases' = [l \in {} |-> {}] /\ frozen' = {}
  /\ UNCHANGED issued

DiscoveryNext == \E h \in Hosts : RefreshTopology(h) \/ Restart(h)

DiscoverySpec == DiscoveryInit /\ [][DiscoveryNext]_discoveryVars

----------------------------------------------------------------------------
\* The machine apart from its GPUs: memory, NPUs, their order, and hangs of the
\* drivers that are not a GPU's.
BesidesGpus(h) ==
  <<h.totalRam, h.availRam, h.npus, [p \in Planes \ Drms |-> h.rank[p]],
    h.hung \cap {"hailo"}>>

\* The enclave outlives the GPUs (docs/SENTRY_ENCLAVE.md, "Driver Fault
\* Immunity").  However the render nodes appear, vanish, hang or change, as long
\* as the rest of the machine stays as it is, emergencies are served from the same
\* plane and find the same memory there.
EnclaveSurvivesGpus ==
  [][LET enclave(t) == [p \in EmergencyPlane(t) |-> t[p]]
     IN BesidesGpus(host) = BesidesGpus(host')
          => enclave(topology)' = enclave(topology)]_discoveryVars
=============================================================================
