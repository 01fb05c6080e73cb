--------------------------- MODULE SessionsProofs ---------------------------
(***************************************************************************)
(* Every live lease has somebody who will release it, for any number of    *)
(* connections, sentries, streams and leases: LiveIsOwned is inductive     *)
(* once the types of the sessions are known.                               *)
(***************************************************************************)
EXTENDS Sessions, TLAPS

\* The types of the sessions.
SessionsTypeOK ==
  /\ LifecycleTypeOK
  /\ conn \in [Conns -> {"open", "closing", "closed"}]
  /\ mine \in [Conns -> SUBSET LeaseIds]
  /\ duty \in [Handlers -> [pc : {"ready", "holding", "done"},
                            lease : LeaseIds \cup {NoLease}]]
  /\ holder \in [LeaseIds -> Actors \cup {NoLease}]

OwnedInv == SessionsTypeOK /\ LiveIsOwned

(* What a release leaves alive: all that was, but that one lease. *)
LEMMA ReleaseEnds ==
  ASSUME LifecycleTypeOK, NEW id, ReleaseLease(id)
  PROVE  LifecycleTypeOK' /\ Live' = Live \ {id}
<1>1. /\ status' \in [LeaseIds -> Statuses]
      /\ \A l \in LeaseIds : status'[l] = IF l = id /\ l \in Live THEN "over" ELSE status[l]
  BY DEF LifecycleTypeOK, ReleaseLease, End, Move, Statuses
<1> QED
  BY <1>1 DEF LifecycleTypeOK, Live, InStatus

(* What a grant makes alive: the lease granted. *)
LEMMA GrantAdds ==
  ASSUME LifecycleTypeOK, NEW a, NEW id \in LeaseIds, Granted(a, id)
  PROVE  LifecycleTypeOK' /\ Live' = Live \cup {id} /\ id \notin Live
<1>1. PICK V \in SUBSET InStatus("held") : Grant(id, V)
  BY DEF Granted
<1>2. /\ status' \in [LeaseIds -> Statuses] /\ status[id] = "unissued"
      /\ \A l \in LeaseIds : status'[l] = IF l = id THEN "held"
                                          ELSE IF l \in V THEN "parked" ELSE status[l]
  BY <1>1 DEF LifecycleTypeOK, Grant, Statuses
<1> QED
  BY <1>1, <1>2 DEF LifecycleTypeOK, Live, InStatus

(* What the arbiter does on its own account makes no lease alive. *)
LEMMA OthersStay ==
  ASSUME LifecycleTypeOK,
         \/ \E V \in SUBSET InStatus("held") : Park(V)
         \/ \E S \in SUBSET Live : End(S)
         \/ \E id \in LeaseIds : Resume(id)
         \/ UNCHANGED status
  PROVE  LifecycleTypeOK' /\ Live' \subseteq Live
<1>1. ASSUME NEW S \in SUBSET Live, NEW st \in Statuses, Move(S, st)
      PROVE  LifecycleTypeOK' /\ Live' \subseteq Live
  <2>1. /\ status' \in [LeaseIds -> Statuses]
        /\ \A l \in LeaseIds : status'[l] = IF l \in S THEN st ELSE status[l]
    BY <1>1 DEF LifecycleTypeOK, Move
  <2> QED
    BY <2>1 DEF LifecycleTypeOK, Live, InStatus
<1>2. ASSUME NEW V \in SUBSET InStatus("held"), Park(V)
      PROVE  LifecycleTypeOK' /\ Live' \subseteq Live
  BY <1>1, <1>2 DEF Park, Live, Statuses
<1>3. ASSUME NEW S \in SUBSET Live, End(S)
      PROVE  LifecycleTypeOK' /\ Live' \subseteq Live
  BY <1>1, <1>3 DEF End, Statuses
<1>4. ASSUME NEW id \in LeaseIds, Resume(id)
      PROVE  LifecycleTypeOK' /\ Live' \subseteq Live
  BY <1>1, <1>4 DEF Resume, Live, InStatus, Statuses
<1>5. CASE UNCHANGED status
  BY <1>5 DEF LifecycleTypeOK, Live, InStatus
<1> QED
  BY <1>2, <1>3, <1>4, <1>5

(* The Varlink connections keep the invariant. *)
LEMMA ConnsKeep ==
  ASSUME OwnedInv, NEW v \in Conns, NEW id,
         \/ Disconnect(v) \/ Close(v)
         \/ /\ id \in LeaseIds
            /\ \/ VarlinkAcquire(v, id) \/ VarlinkRelease(v, id) \/ VarlinkThaw(v, id)
               \/ Reclaim(v, id)
  PROVE  OwnedInv'
<1> USE DEF OwnedInv
<1>1. CASE id \in LeaseIds /\ VarlinkAcquire(v, id)
  <2>1. LifecycleTypeOK' /\ Live' = Live \cup {id} /\ id \notin Live
    BY <1>1, GrantAdds DEF VarlinkAcquire, SessionsTypeOK
  <2>2. /\ id \in LeaseIds /\ conn[v] = "open" /\ conn' = conn /\ duty' = duty
        /\ mine' = [mine EXCEPT ![v] = @ \cup {id}]
        /\ holder' = [holder EXCEPT ![id] = v]
    BY <1>1 DEF VarlinkAcquire, Granted
  <2>3. SessionsTypeOK'
    BY <2>1, <2>2 DEF SessionsTypeOK, Actors
  <2>4. LiveIsOwned'
    BY <2>1, <2>2 DEF SessionsTypeOK, LiveIsOwned, Owners
  <2> QED
    BY <2>3, <2>4
<1>2. CASE id \in LeaseIds /\ (VarlinkRelease(v, id) \/ Reclaim(v, id))
  <2>1. LifecycleTypeOK' /\ Live' = Live \ {id}
    BY <1>2, ReleaseEnds DEF VarlinkRelease, Reclaim, SessionsTypeOK
  <2>2. /\ conn' = conn /\ duty' = duty /\ holder' = holder
        /\ mine' = [mine EXCEPT ![v] = @ \ {id}] \/ mine' = mine
    BY <1>2 DEF VarlinkRelease, Reclaim
  <2>3. SessionsTypeOK'
    BY <2>1, <2>2 DEF SessionsTypeOK
  <2>4. LiveIsOwned'
    BY <2>1, <2>2 DEF SessionsTypeOK, LiveIsOwned, Owners
  <2> QED
    BY <2>3, <2>4
<1>3. CASE (id \in LeaseIds /\ VarlinkThaw(v, id)) \/ Disconnect(v) \/ Close(v)
  <2>1. LifecycleTypeOK' /\ Live' \subseteq Live
    BY <1>3, OthersStay DEF VarlinkThaw, Disconnect, Close, SessionsTypeOK
  <2>2. /\ mine' = mine /\ duty' = duty /\ holder' = holder
        /\ \/ conn' = conn
           \/ conn' = [conn EXCEPT ![v] = "closing"]
           \/ mine[v] = {} /\ conn' = [conn EXCEPT ![v] = "closed"]
    BY <1>3 DEF VarlinkThaw, Disconnect, Close
  <2>3. SessionsTypeOK'
    BY <2>1, <2>2 DEF SessionsTypeOK
  <2>4. \A l \in Live : Owners(l) \ Conns \subseteq Owners(l)'
                        /\ Owners(l) \cap Conns \subseteq Owners(l)'
    BY <1>3, <2>2 DEF SessionsTypeOK, Owners, VarlinkThaw, Disconnect, Close
  <2>5. LiveIsOwned'
    BY <2>1, <2>2, <2>4 DEF SessionsTypeOK, LiveIsOwned
  <2> QED
    BY <2>3, <2>5
<1> QED
  BY <1>1, <1>2, <1>3

(* So do the handlers: one that is cancelled is excepted. *)
LEMMA HandlersKeep ==
  ASSUME OwnedInv, NEW h \in Handlers, NEW id,
         GiveUp(h) \/ Finish(h) \/ Cancel(h) \/ (id \in LeaseIds /\ Serve(h, id))
  PROVE  OwnedInv'
<1> USE DEF OwnedInv
<1>1. CASE id \in LeaseIds /\ Serve(h, id)
  <2>1. LifecycleTypeOK' /\ Live' = Live \cup {id} /\ id \notin Live
    BY <1>1, GrantAdds DEF Serve, SessionsTypeOK
  <2>2. /\ id \in LeaseIds /\ duty[h].pc = "ready" /\ conn' = conn /\ mine' = mine
        /\ duty' = [duty EXCEPT ![h] = [pc |-> "holding", lease |-> id]]
        /\ holder' = [holder EXCEPT ![id] = h]
    BY <1>1 DEF Serve, Granted
  <2>3. SessionsTypeOK'
    BY <2>1, <2>2 DEF SessionsTypeOK, Actors
  <2>4. LiveIsOwned'
    BY <2>1, <2>2 DEF SessionsTypeOK, LiveIsOwned, Owners
  <2> QED
    BY <2>3, <2>4
<1>2. CASE Finish(h)
  <2>1. LifecycleTypeOK' /\ Live' = Live \ {duty[h].lease}
    BY <1>2, ReleaseEnds DEF Finish, SessionsTypeOK
  <2>2. /\ conn' = conn /\ mine' = mine /\ holder' = holder
        /\ duty' = [duty EXCEPT ![h] = Done] \/ duty' = [duty EXCEPT ![h] = Ready]
    BY <1>2 DEF Finish
  <2>3. SessionsTypeOK'
    BY <2>1, <2>2 DEF SessionsTypeOK, Done, Ready
  <2>4. LiveIsOwned'
    BY <2>1, <2>2 DEF SessionsTypeOK, LiveIsOwned, Owners, Done, Ready
  <2> QED
    BY <2>3, <2>4
<1>3. CASE GiveUp(h) \/ Cancel(h)
  <2>1. LifecycleTypeOK' /\ Live' \subseteq Live
    BY <1>3, OthersStay DEF GiveUp, Cancel, SessionsTypeOK
  <2>2. /\ conn' = conn /\ mine' = mine /\ holder' = holder
        /\ duty' = [duty EXCEPT ![h] = Done]
        /\ duty[h].pc # "holding" \/ h \in Inlines
    BY <1>3 DEF GiveUp, Cancel
  <2>3. SessionsTypeOK'
    BY <2>1, <2>2 DEF SessionsTypeOK, Done
  <2>4. \A l \in Live : Owners(l) \subseteq Owners(l)' \cup Inlines
    BY <2>2 DEF SessionsTypeOK, Owners
  <2>5. LiveIsOwned'
    BY <2>1, <2>2, <2>4 DEF SessionsTypeOK, LiveIsOwned
  <2> QED
    BY <2>3, <2>5
<1> QED
  BY <1>1, <1>2, <1>3

(* No lease is left without somebody to release it, however many connections, sentries
   and requests there are and whatever clients do to each other's leases
   (varlink/mod.rs:96-103, sentry/mod.rs:54-107, gateway/handlers.rs:59-213). *)
THEOREM LiveAlwaysOwned == Spec => []LiveIsOwned
<1>1. Init => OwnedInv
  BY DEF Init, LInit, OwnedInv, SessionsTypeOK, LifecycleTypeOK, Statuses, LiveIsOwned,
         Live, InStatus, Ready
<1>2. OwnedInv /\ [Next]_vars => OwnedInv'
  <2> SUFFICES ASSUME OwnedInv, [Next]_vars PROVE OwnedInv'
    OBVIOUS
  <2>1. CASE Refused \/ Unplugged \/ UNCHANGED vars
    <3>1. UNCHANGED <<conn, mine, duty, holder>>
      BY <2>1 DEF Refused, Unplugged, vars
    <3>2. LifecycleTypeOK' /\ Live' \subseteq Live
      BY <2>1, OthersStay DEF Refused, Unplugged, vars, OwnedInv, SessionsTypeOK
    <3> QED
      BY <3>1, <3>2 DEF OwnedInv, SessionsTypeOK, LiveIsOwned, Owners
  <2> QED
    BY <2>1, ConnsKeep, HandlersKeep DEF Next, Reclaims
<1>3. OwnedInv => LiveIsOwned
  BY DEF OwnedInv
<1> QED
  BY <1>1, <1>2, <1>3, PTL DEF Spec

\* A connection that is closed has left no lease alive that was granted over it.
ClosedLeavesNothing ==
  \A v \in Conns : conn[v] = "closed" => \A l \in Live : holder[l] # v

(* The safety half of DeadClientIsReclaimed: once the loop over active_leases has ended,
   nothing granted over the connection is held or parked, and no late thaw revives it
   (varlink/mod.rs:96-104). *)
THEOREM ClosedIsReclaimed == Spec => []ClosedLeavesNothing
<1>1. LiveIsOwned => ClosedLeavesNothing
  BY SessionsAssumption DEF LiveIsOwned, ClosedLeavesNothing, Owners, Handlers
<1> QED
  BY <1>1, LiveAlwaysOwned, PTL
=============================================================================
