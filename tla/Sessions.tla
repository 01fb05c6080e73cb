------------------------------ MODULE Sessions ------------------------------
(***************************************************************************)
(* Those who hold leases on behalf of clients: the Varlink connections     *)
(* (varlink/mod.rs, leases.rs), the sentry connections (sentry/mod.rs) and *)
(* the HTTP handlers of the gateway (gateway/handlers.rs).  They know the  *)
(* arbiter only through the lifecycle it promises, so it appears here as   *)
(* LeaseLifecycle: any grant or refusal may park leases of others, any     *)
(* lease may be resumed by a late thaw, and hardware that vanishes ends    *)
(* leases at any time.                                                     *)
(***************************************************************************)
EXTENDS LeaseLifecycle

CONSTANTS
  Conns,      \* Varlink connections
  Sentries,   \* connections to the sentry socket
  Streams,    \* /api/generate requests that stream: a task of their own
  Inlines,    \* /v1/chat/completions and /api/generate without streaming
  NoLease

VARIABLES
  conn,       \* Varlink connections: open, closing (reclaiming) or closed
  mine,       \* active_leases of each connection
  duty,       \* what each handler is at, and the lease it is to release
  holder      \* history: on whose behalf a lease was granted

vars == <<status, conn, mine, duty, holder>>

Handlers == Sentries \cup Streams \cup Inlines
Actors == Conns \cup Handlers

ASSUME SessionsAssumption ==
  /\ NoLease \notin LeaseIds
  /\ Sentries \cap Streams = {} /\ (Sentries \cup Streams) \cap Inlines = {}
  /\ Conns \cap Handlers = {}

Live == InStatus("held") \cup InStatus("parked")

\* Mutation: a lease that is parked is taken for one that is over.
ReleaseHeldLease(id) == End({id} \cap InStatus("held"))

\* release_lease: ends the lease if it is live, else Ok or LeaseNotFound.
ReleaseLease(id) == End({id} \cap Live)

\* acquire_lease for actor a: Ok with lease id, at the expense of the leases V.
Granted(a, id) ==
  /\ \E V \in SUBSET InStatus("held") : Grant(id, V)
  /\ holder' = [holder EXCEPT ![id] = a]

----------------------------------------------------------------------------
(* Varlink connections.                                                     *)

\* Mutation: the id is not noted.
VarlinkAcquireUnnoted(v, id) ==
  /\ conn[v] = "open"
  /\ Granted(v, id)
  /\ UNCHANGED <<conn, mine, duty>>

\* handle_acquire_lease: the id is noted before the reply is written.
VarlinkAcquire(v, id) ==
  /\ conn[v] = "open"
  /\ Granted(v, id)
  /\ mine' = [mine EXCEPT ![v] = @ \cup {id}]
  /\ UNCHANGED <<conn, duty>>

\* handle_release_lease takes any id; only the caller's own list is updated, and
\* only if the arbiter still knows the lease.
VarlinkRelease(v, id) ==
  /\ conn[v] = "open" /\ status[id] # "unissued"
  /\ ReleaseLease(id)
  /\ \/ mine' = [mine EXCEPT ![v] = @ \ {id}]
     \/ status[id] = "over" /\ UNCHANGED mine
  /\ UNCHANGED <<conn, duty, holder>>

\* handle_thaw takes any id as well.
VarlinkThaw(v, id) ==
  /\ conn[v] = "open"
  /\ Resume(id)
  /\ UNCHANGED <<conn, mine, duty, holder>>

\* End of file, a request that does not parse, a failed read or write.
Disconnect(v) ==
  /\ conn[v] = "open"
  /\ conn' = [conn EXCEPT ![v] = "closing"]
  /\ UNCHANGED <<status, mine, duty, holder>>

\* One turn of the loop over active_leases; errors are ignored.
Reclaim(v, id) ==
  /\ conn[v] = "closing" /\ id \in mine[v]
  /\ ReleaseLease(id)
  /\ mine' = [mine EXCEPT ![v] = @ \ {id}]
  /\ UNCHANGED <<conn, duty, holder>>

Close(v) ==
  /\ conn[v] = "closing" /\ mine[v] = {}
  /\ conn' = [conn EXCEPT ![v] = "closed"]
  /\ UNCHANGED <<status, mine, duty, holder>>

----------------------------------------------------------------------------
(* Handlers: acquire, answer, release.                                      *)

Ready == [pc |-> "ready", lease |-> NoLease]
Done == [pc |-> "done", lease |-> NoLease]

Serve(h, id) ==
  /\ duty[h].pc = "ready"
  /\ Granted(h, id)
  /\ duty' = [duty EXCEPT ![h] = [pc |-> "holding", lease |-> id]]
  /\ UNCHANGED <<conn, mine>>

\* The peer hung up, or the lease was refused.
GiveUp(h) ==
  /\ duty[h].pc = "ready"
  /\ duty' = [duty EXCEPT ![h] = Done]
  /\ UNCHANGED <<status, conn, mine, holder>>

\* The lease is released whether or not the reply could be written; the sentry
\* then reads the next incident, if the reply was written.
Finish(h) ==
  /\ duty[h].pc = "holding"
  /\ ReleaseLease(duty[h].lease)
  /\ \E next \in {Done} \cup (IF h \in Sentries THEN {Ready} ELSE {}) :
       duty' = [duty EXCEPT ![h] = next]
  /\ UNCHANGED <<conn, mine, holder>>

\* The HTTP client is gone while the handler waits for the arbiter's lock to
\* release its lease: the server drops the handler's future where it is.
Cancel(h) ==
  /\ h \in Inlines /\ duty[h].pc = "holding"
  /\ duty' = [duty EXCEPT ![h] = Done]
  /\ UNCHANGED <<status, conn, mine, holder>>

----------------------------------------------------------------------------
(* The arbiter on its own account: requests it refuses, and hardware that   *)
(* vanishes.                                                                *)

Refused ==
  /\ \E V \in SUBSET InStatus("held") : Park(V)
  /\ UNCHANGED <<conn, mine, duty, holder>>

Unplugged ==
  /\ \E S \in SUBSET Live : End(S)
  /\ UNCHANGED <<conn, mine, duty, holder>>

Init ==
  /\ LInit
  /\ conn = [v \in Conns |-> "open"]
  /\ mine = [v \in Conns |-> {}]
  /\ duty = [h \in Handlers |-> Ready]
  /\ holder = [l \in LeaseIds |-> NoLease]

Reclaims(v) == Close(v) \/ \E id \in LeaseIds : Reclaim(v, id)

Next ==
  \/ \E v \in Conns :
       \/ Disconnect(v) \/ Reclaims(v)
       \/ \E id \in LeaseIds :
            VarlinkAcquire(v, id) \/ VarlinkRelease(v, id) \/ VarlinkThaw(v, id)
  \/ \E h \in Handlers :
       GiveUp(h) \/ Finish(h) \/ Cancel(h) \/ \E id \in LeaseIds : Serve(h, id)
  \/ Refused \/ Unplugged

\* The connections' and the handlers' tasks are spawned, so nothing but the
\* runtime's end stops them; the channel of a stream has room for all its chunks;
\* a sentry reads its answer or hangs up.
Fairness ==
  /\ \A v \in Conns : WF_vars(Reclaims(v))
  /\ \A h \in Handlers : WF_vars(Finish(h))

Spec == Init /\ [][Next]_vars /\ Fairness

----------------------------------------------------------------------------
(* Properties.                                                              *)

\* Who will release the lease.
Owners(l) ==
  {v \in Conns : conn[v] # "closed" /\ l \in mine[v]}
    \cup {h \in Handlers : duty[h].pc = "holding" /\ duty[h].lease = l}

\* No lease is left without somebody to release it: one that is held or parked is
\* on the list of the connection it was granted to, or with the handler it was
\* granted to, although any client may release or thaw the leases of others.  The
\* HTTP handlers that can be cancelled are excepted.
LiveIsOwned == \A l \in Live : holder[l] \in Owners(l) \cup Inlines

\* A client that goes away loses its leases: once its connection ends, all that
\* were granted over it come to be over and no late thaw revives them.
DeadClientIsReclaimed ==
  \A v \in Conns :
    conn[v] = "closing" ~> [](\A l \in LeaseIds : holder[l] = v => status[l] = "over")
=============================================================================
