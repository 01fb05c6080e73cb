--------------------------- MODULE ModelRegistry ----------------------------
(***************************************************************************)
(* The model registry (model.rs) as the daemon drives it: the Varlink      *)
(* methods RegisterModel, EvictModel and PinModel (varlink/models.rs).  It *)
(* lives behind the arbiter's lock, so every method is one action; only    *)
(* the time stamp of a registration is read before the lock and may be     *)
(* older than "now" when it is stored.  The lookups of the HTTP gateway    *)
(* change nothing: the daemon always registers with access_count = 0 and   *)
(* never counts an access, so the eviction key (access_count,              *)
(* last_accessed) is the stamp.                                            *)
(***************************************************************************)
EXTENDS Naturals, FiniteSetsExt

CONSTANTS
  ModelIds,
  Capacity,   \* 256
  MaxTime     \* bound on the clock

VARIABLES
  models,     \* the map: model id -> placement and time stamp
  now,        \* the clock
  peakPins    \* history: the most models that were ever pinned at once

vars == <<models, now, peakPins>>

ASSUME RegistryAssumption ==
  IsFiniteSet(ModelIds) /\ Capacity \in Nat /\ MaxTime \in Nat

Placements == {"Dormant", "PinnedTriage"}

Pinned(ms) == {m \in DOMAIN ms : ms[m].placement = "PinnedTriage"}

\* Mutation: pinned models are evicted like any other.
EvictableAny(ms) ==
  {m \in DOMAIN ms : \A n \in DOMAIN ms : ms[m].stamp <= ms[n].stamp}

\* The models eviction may take: of those not pinned, one with the least stamp.
Evictable(ms) ==
  LET free == DOMAIN ms \ Pinned(ms)
  IN {m \in free : \A n \in free : ms[m].stamp <= ms[n].stamp}

Without(ms, S) == [m \in DOMAIN ms \ S |-> ms[m]]

Insert(ms, id, desc) ==
  [m \in DOMAIN ms \cup {id} |-> IF m = id THEN desc ELSE ms[m]]

\* Mutation: room is made only once the map is over its capacity.
RegisteredLate(ms, id, desc) ==
  {Insert(Without(ms, S), id, desc) :
     S \in IF id \notin DOMAIN ms /\ Cardinality(DOMAIN ms) > Capacity
              /\ Evictable(ms) # {}
           THEN {{m} : m \in Evictable(ms)} ELSE {{}}}

\* ModelRegistry::register: a new id makes room first, once the map is full; if
\* everything is pinned there is nothing to evict and the map grows.
Registered(ms, id, desc) ==
  {Insert(Without(ms, S), id, desc) :
     S \in IF id \notin DOMAIN ms /\ Cardinality(DOMAIN ms) >= Capacity
              /\ Evictable(ms) # {}
           THEN {{m} : m \in Evictable(ms)} ELSE {{}}}

----------------------------------------------------------------------------
Init ==
  /\ models = [m \in {} |-> {}]
  /\ now = 0
  /\ peakPins = 0

\* handle_register_model: a fresh, Dormant descriptor, whatever was there before.
RegisterModel(id, stamp) ==
  /\ models' \in Registered(models, id, [placement |-> "Dormant", stamp |-> stamp])
  /\ UNCHANGED <<now, peakPins>>

\* handle_evict_model: pinned or not.
EvictModel(id) ==
  /\ id \in DOMAIN models
  /\ models' = Without(models, {id})
  /\ UNCHANGED <<now, peakPins>>

\* handle_pin_model.
PinModel(id) ==
  /\ id \in DOMAIN models
  /\ models' = [models EXCEPT ![id].placement = "PinnedTriage"]
  /\ peakPins' = LET n == Cardinality(Pinned(models'))
                 IN IF peakPins < n THEN n ELSE peakPins
  /\ UNCHANGED now

Tick ==
  /\ now < MaxTime
  /\ now' = now + 1
  /\ UNCHANGED <<models, peakPins>>

Next ==
  \/ Tick
  \/ \E id \in ModelIds :
       \/ \E stamp \in 0 .. now : RegisterModel(id, stamp)
       \/ EvictModel(id) \/ PinModel(id)

----------------------------------------------------------------------------
(* Properties.                                                              *)

\* The registry outgrows its capacity only on account of pins: it never holds
\* more than one model beyond the most that were ever pinned at once, however
\* registrations, re-registrations, evictions and pins follow each other.
GrowthIsPinned ==
  Cardinality(DOMAIN models) <= Max({Capacity, peakPins + 1})

\* A model that is pinned loses its place or its pin only to a call that names it
\* and that touches no other model: no registration of another one, at whatever
\* pressure, removes or unpins it.
PinnedStep ==
  \A m \in Pinned(models) :
    \/ m \in Pinned(models')
    \/ models' = Without(models, {m})
    \/ /\ DOMAIN models' = DOMAIN models
       /\ Without(models', {m}) = Without(models, {m})
=============================================================================
