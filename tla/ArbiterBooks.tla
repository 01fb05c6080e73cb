---------------------------- MODULE ArbiterBooks ----------------------------
(***************************************************************************)
(* The arbiter with an auditor beside it.  The code keeps one number per   *)
(* plane, the memory still available, and changes it by clipped additions  *)
(* and subtractions as leases come and go.  The auditor remembers what the *)
(* last discovery offered on each plane, the planes that have since been   *)
(* made to give more than they had, and those on which a credit wrapped;   *)
(* from these the number the code should be showing can be worked out in   *)
(* every state.                                                            *)
(***************************************************************************)
EXTENDS Arbiter

VARIABLES
  discovered,   \* what each plane had available when it was last discovered
  overdrawn,    \* planes that had to give more than they had available since
  wrapped       \* planes whose credit for an ending lease wrapped since

booksVars == <<vars, discovered, overdrawn, wrapped>>

Offered(h) == LET t == Discover(h) IN [p \in DOMAIN t |-> t[p].avail]

ChargedNow(p) == Charged(topology, leases, p)

\* The planes whose leases, after a step, take more than the plane had.
Overdraws(had) ==
  {p \in DOMAIN had : Charged(topology, leases, p)' > had[p] + ChargedNow(p)}

\* The planes on which a lease that ends gives back so much that the sum wraps: an
\* emergency is granted whatever it asks for, and asks for any 64-bit number.
Wraps ==
  {p \in DOMAIN topology : \E l \in DOMAIN leases \cap DOMAIN leases' :
     /\ IsActive(leases[l]) /\ leases'[l].state \in {"Expired", "Revoked"}
     /\ Backs(topology, leases[l].plane, p)
     /\ topology[p].avail + leases[l].bytes >= Word}

BooksInit ==
  /\ Init
  /\ discovered = [p \in DOMAIN topology |-> topology[p].avail]
  /\ overdrawn = {} /\ wrapped = {}

BooksNext ==
  \/ /\ Acquire \/ Manage
     /\ overdrawn' =
          IF leases' = leases THEN overdrawn
          ELSE overdrawn \cup Overdraws([p \in DOMAIN topology |-> topology[p].avail])
     /\ wrapped' = wrapped \cup Wraps
     /\ UNCHANGED discovered
  \/ \E h \in Hosts :
       /\ UpdateTopology(h)
       /\ discovered' = Offered(h)
       /\ overdrawn' = {p \in DOMAIN topology' :
                          Charged(topology, leases, p)' > discovered'[p]}
       /\ wrapped' = {}

BooksSpec == BooksInit /\ [][BooksNext]_booksVars

----------------------------------------------------------------------------
\* No memory is lost, but by a credit that wraps.  Whatever is preempted, thawed,
\* released twice, revoked or unplugged, and even where an emergency took more than
\* there was, a plane that nobody uses offers at least what discovery found: the
\* memory available and the memory of the active leases make up the plane again.
\* The one way to lose memory is the unchecked addition of restore_plane_memory.
NothingLeaks ==
  \A p \in DOMAIN topology \ wrapped :
    topology[p].avail + ChargedNow(p) >= discovered[p]

\* No memory is handed out twice.  As long as no plane was made to give more than
\* it had, the two sum to exactly what was discovered, on the plane itself and on
\* the CPU plane that shares its RAM; no credit can wrap there.
BooksBalance ==
  \A p \in DOMAIN topology \ overdrawn :
    topology[p].avail + ChargedNow(p) = discovered[p]
=============================================================================
