--------------------------- MODULE LeaseLifecycle ---------------------------
(***************************************************************************)
(* What the arbiter promises its clients about one lease, whatever it does *)
(* to make room, whatever hardware comes and goes and however it trims its *)
(* map: an id is granted once, a lease that holds memory may be parked     *)
(* (preempted) and come back, and a lease that is over stays over.         *)
(* Connections, the gateway and the sentry server only rely on this.       *)
(***************************************************************************)
CONSTANT LeaseIds

VARIABLE status     \* what became of each lease id

Statuses == {"unissued", "held", "parked", "over"}

LifecycleTypeOK == status \in [LeaseIds -> Statuses]

InStatus(st) == {l \in LeaseIds : status[l] = st}

Move(S, st) == status' = [l \in LeaseIds |-> IF l \in S THEN st ELSE status[l]]

LInit == status = [l \in LeaseIds |-> "unissued"]

\* A new lease; the leases V lose their memory to it.
Grant(id, V) ==
  /\ status[id] = "unissued"
  /\ status' = [l \in LeaseIds |-> IF l = id THEN "held"
                                   ELSE IF l \in V THEN "parked" ELSE status[l]]

\* A request that took memory from the leases V and was refused all the same.
Park(V) == Move(V, "parked")

Resume(id) == status[id] = "parked" /\ Move({id}, "held")

\* A release, a revocation, or planes that vanished under their leases.
End(S) == Move(S, "over")

LNext ==
  \/ \E V \in SUBSET InStatus("held") :
       Park(V) \/ \E id \in LeaseIds : Grant(id, V)
  \/ \E id \in LeaseIds : Resume(id)
  \/ \E S \in SUBSET (InStatus("held") \cup InStatus("parked")) : End(S)

LSpec == LInit /\ [][LNext]_status
=============================================================================
