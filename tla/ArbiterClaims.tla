---------------------------- MODULE ArbiterClaims ---------------------------
(***************************************************************************)
(* What the documents of the repository say of the arbiter and its clients *)
(* and TLC refutes.                                                        *)
(***************************************************************************)
EXTENDS Arbiter

\* docs/VARLINK_SPEC.md: Thaw "resumes a frozen workload", so once a preempted
\* lease is active again, and its client has no other that is not, the client
\* runs.  acquire_lease wrote "1" to the client's cgroup.freeze and thaw_lease,
\* which the method calls, never writes "0".
ThawResumes ==
  [][\A l \in DOMAIN leases \cap DOMAIN leases' :
       /\ leases[l].state = "Preempted" /\ leases'[l].state = "Active"
       /\ \A k \in DOMAIN leases' : leases'[k].unit = leases'[l].unit
                                     => leases'[k].state = "Active"
       => leases'[l].unit \notin frozen']_vars
=============================================================================
