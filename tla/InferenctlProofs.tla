-------------------------- MODULE InferenctlProofs --------------------------
(***************************************************************************)
(* Proofs about the model registry under inferenctl and other clients, and *)
(* about the conversation of a command with the server: for any number of  *)
(* models, any capacity and time stamps, any prompts and limits.           *)
(***************************************************************************)
EXTENDS Inferenctl, SumLemmas, SequenceTheorems

Descriptor == [placement : Placements, stamp : Nat]

\* The registry maps finitely many ids to descriptors.
IsRegistry(ms) ==
  /\ IsFiniteSet(DOMAIN ms)
  /\ ms \in [DOMAIN ms -> Descriptor]

(* While a model is not pinned there is one to evict. *)
LEMMA EvictableExists ==
  ASSUME NEW ms, IsRegistry(ms), DOMAIN ms # Pinned(ms)
  PROVE  Evictable(ms) # {}
<1> DEFINE free == DOMAIN ms \ Pinned(ms)
           stamps == {ms[m].stamp : m \in free}
<1>1. free # {}
  BY DEF Pinned
<1>2. stamps \subseteq Nat
  BY DEF IsRegistry, Descriptor
<1>3. PICK x \in stamps : \A y \in stamps : x <= y
  <2>1. stamps # {}
    BY <1>1
  <2> HIDE DEF stamps
  <2> QED
    BY <1>2, <2>1, LeastNatural
<1>4. PICK m \in free : x = ms[m].stamp
  BY <1>3
<1>5. \A n \in free : ms[m].stamp <= ms[n].stamp
  BY <1>3, <1>4
<1> QED
  BY <1>4, <1>5 DEF Evictable

(* A registration of id leaves every other model as it was, except one that is    *)
(* evicted, and that one was not pinned.                                         *)
LEMMA RegisteredShape ==
  ASSUME NEW ms, IsRegistry(ms), NEW id, NEW desc \in Descriptor,
         NEW new \in Registered(ms, id, desc)
  PROVE  \E S \in SUBSET (DOMAIN ms \ Pinned(ms)) :
           /\ new = Insert(Without(ms, S), id, desc)
           /\ S = {} \/ \E m \in Evictable(ms) : S = {m} /\ id \notin DOMAIN ms
           /\ S = {} => \/ id \in DOMAIN ms
                        \/ ~(Cardinality(DOMAIN ms) >= Capacity)
                        \/ Evictable(ms) = {}
<1>1. Evictable(ms) \subseteq DOMAIN ms \ Pinned(ms)
  BY DEF Evictable
<1> QED
  BY <1>1 DEF Registered

----------------------------------------------------------------------------
(* Growth.                                                                  *)

\* The strengthening of GrowthIsPinned: peakPins is at least the pins there are.
Growth ==
  /\ IsRegistry(models)
  /\ peakPins \in Nat /\ now \in Nat
  /\ Cardinality(Pinned(models)) <= peakPins
  /\ Cardinality(DOMAIN models) <= Capacity \/ Cardinality(DOMAIN models) <= peakPins + 1

(* The sets of ids a registry has are finite. *)
LEMMA RegistryFinite ==
  ASSUME NEW ms, IsRegistry(ms)
  PROVE  /\ IsFiniteSet(DOMAIN ms) /\ Cardinality(DOMAIN ms) \in Nat
         /\ IsFiniteSet(Pinned(ms)) /\ Cardinality(Pinned(ms)) \in Nat
<1>1. IsFiniteSet(DOMAIN ms) /\ Pinned(ms) \in SUBSET DOMAIN ms
  BY DEF IsRegistry, Pinned
<1> QED
  BY <1>1, FS_Subset, FS_CardinalityType

(* Each of the registry's operations preserves it. *)
LEMMA GrowthRegister ==
  ASSUME Growth, NEW id, NEW stamp \in Nat, RegisterModel(id, stamp)
  PROVE  Growth'
<1> DEFINE desc == [placement |-> "Dormant", stamp |-> stamp]
<1>1. desc \in Descriptor /\ IsRegistry(models)
  BY DEF Descriptor, Placements, Growth
<1>2. models' \in Registered(models, id, desc) /\ UNCHANGED <<now, peakPins>>
  BY DEF RegisterModel
<1> HIDE DEF desc
<1>3. PICK S \in SUBSET (DOMAIN models \ Pinned(models)) :
        /\ models' = Insert(Without(models, S), id, desc)
        /\ S = {} \/ \E m \in Evictable(models) : S = {m} /\ id \notin DOMAIN models
        /\ S = {} => \/ id \in DOMAIN models
                     \/ ~(Cardinality(DOMAIN models) >= Capacity)
                     \/ Evictable(models) = {}
  BY <1>1, <1>2, RegisteredShape
<1> DEFINE kept == DOMAIN models \ S
<1>4. DOMAIN models' = kept \cup {id}
  BY <1>3 DEF Insert, Without
<1>5. \A m \in DOMAIN models' : models'[m] = IF m = id THEN desc ELSE models[m]
  BY <1>3 DEF Insert, Without
<1>6. IsRegistry(models')
  <2>1. models' = [m \in DOMAIN models' |-> models'[m]]
    BY <1>3 DEF Insert
  <2>2. \A m \in DOMAIN models' : models'[m] \in Descriptor
    BY <1>1, <1>4, <1>5 DEF IsRegistry
  <2>3. IsFiniteSet(DOMAIN models')
    <3>1. IsFiniteSet(DOMAIN models) /\ kept \in SUBSET DOMAIN models
      BY <1>1 DEF IsRegistry
    <3>2. IsFiniteSet(kept)
      BY <3>1, FS_Subset
    <3> QED
      BY <1>4, <3>2, FS_AddElement
  <2> QED
    BY <2>1, <2>2, <2>3 DEF IsRegistry
<1>7. Pinned(models') \subseteq Pinned(models)
  <2>1. desc.placement # "PinnedTriage"
    BY DEF desc
  <2> QED
    BY <1>4, <1>5, <2>1 DEF Pinned
<1>8. Cardinality(Pinned(models')) <= peakPins'
  BY <1>1, <1>2, <1>6, <1>7, RegistryFinite, FS_Subset DEF Growth
<1>9. \/ Cardinality(DOMAIN models') <= Capacity
      \/ Cardinality(DOMAIN models') <= peakPins + 1
  <2> DEFINE n == Cardinality(DOMAIN models)
  <2>0. n \in Nat /\ IsFiniteSet(DOMAIN models) /\ Capacity \in Nat /\ peakPins \in Nat
    BY <1>1, RegistryFinite, RegistryAssumption DEF Growth
  <2>1. CASE id \in DOMAIN models
    <3>1. S = {} /\ DOMAIN models' = DOMAIN models
      BY <1>3, <1>4, <2>1
    <3> QED
      BY <3>1 DEF Growth
  <2>2. CASE id \notin DOMAIN models /\ S # {}
    <3>1. PICK m \in DOMAIN models : S = {m}
      BY <1>3, <2>2
    <3>2. IsFiniteSet(kept) /\ Cardinality(kept) = n - 1
      BY <2>0, <3>1, FS_RemoveElement
    <3>3. id \notin kept
      BY <2>2
    <3>4. Cardinality(kept \cup {id}) = n
      <4> HIDE DEF kept, n
      <4>1. Cardinality(kept \cup {id}) = (n - 1) + 1
        BY <3>2, <3>3, FS_AddElement
      <4> QED
        BY <2>0, <4>1
    <3> QED
      BY <1>4, <3>4 DEF Growth
  <2>3. CASE id \notin DOMAIN models /\ S = {}
    <3>1. DOMAIN models' = DOMAIN models \cup {id}
      BY <1>4, <2>3
    <3>2. Cardinality(DOMAIN models') = n + 1
      BY <2>0, <2>3, <3>1, FS_AddElement
    <3>3. CASE ~(n >= Capacity)
      BY <2>0, <3>2, <3>3
    <3>4. CASE Evictable(models) = {}
      <4>1. DOMAIN models = Pinned(models)
        BY <1>1, <3>4, EvictableExists
      <4> QED
        BY <2>0, <3>2, <4>1 DEF Growth
    <3> QED
      BY <1>3, <2>3, <3>3, <3>4
  <2> QED
    BY <2>1, <2>2, <2>3
<1> QED
  BY <1>2, <1>6, <1>8, <1>9 DEF Growth

LEMMA GrowthEvict ==
  ASSUME Growth, NEW id, EvictModel(id)
  PROVE  Growth'
<1>1. /\ models' = [m \in DOMAIN models \ {id} |-> models[m]]
      /\ peakPins' = peakPins /\ now' = now
  BY DEF EvictModel, Without
<1>2. /\ DOMAIN models' \in SUBSET DOMAIN models
      /\ Pinned(models') \in SUBSET Pinned(models)
  BY <1>1 DEF Pinned
<1>3. IsFiniteSet(DOMAIN models) /\ IsFiniteSet(Pinned(models)) /\ Capacity \in Nat
  BY RegistryFinite, RegistryAssumption DEF Growth
<1>4. IsRegistry(models')
  <2>1. IsFiniteSet(DOMAIN models')
    BY <1>2, <1>3, FS_Subset
  <2> QED
    BY <1>1, <2>1 DEF IsRegistry, Growth
<1>5. /\ Cardinality(DOMAIN models') <= Cardinality(DOMAIN models)
      /\ Cardinality(Pinned(models')) <= Cardinality(Pinned(models))
  BY <1>2, <1>3, FS_Subset
<1>6. /\ Cardinality(DOMAIN models) \in Nat /\ Cardinality(Pinned(models)) \in Nat
      /\ Cardinality(DOMAIN models') \in Nat /\ Cardinality(Pinned(models')) \in Nat
  BY <1>4, RegistryFinite DEF Growth
<1> QED
  BY <1>1, <1>3, <1>4, <1>5, <1>6 DEF Growth

LEMMA GrowthPin ==
  ASSUME Growth, NEW id, PinModel(id)
  PROVE  Growth'
<1> DEFINE n == Cardinality(Pinned(models'))
<1>1. /\ models' = [models EXCEPT ![id].placement = "PinnedTriage"]
      /\ peakPins' = (IF peakPins < n THEN n ELSE peakPins)
      /\ now' = now
  BY DEF PinModel
<1>2. DOMAIN models' = DOMAIN models
  BY <1>1
<1>3. IsRegistry(models')
  BY <1>1, <1>2 DEF IsRegistry, Growth, Descriptor, Placements
<1>4. n \in Nat /\ Cardinality(DOMAIN models) \in Nat /\ Capacity \in Nat
  BY <1>3, RegistryFinite, RegistryAssumption DEF Growth
<1> HIDE DEF n
<1>5. peakPins' \in Nat /\ n <= peakPins' /\ peakPins <= peakPins'
  BY <1>1, <1>4 DEF Growth
<1> QED
  BY <1>1, <1>2, <1>3, <1>4, <1>5 DEF Growth, n

----------------------------------------------------------------------------
(* The registry's part in a step of the whole.                              *)

\* What a step may do to the registry.
RegistryStep ==
  \/ UNCHANGED vars
  \/ \E id : \/ \E stamp \in 0 .. now : RegisterModel(id, stamp)
            \/ EvictModel(id)
            \/ PinModel(id)
  \/ Tick

\* The daemon ends, and the registry is a new one.
RegistryLost == listener' = "off" /\ models' = [m \in {} |-> {}] /\ UNCHANGED <<now, peakPins>>

(* Every step of a command, of the server or of another client is one of these. *)
LEMMA CtlSteps ==
  ASSUME [CtlNext]_ctlVars
  PROVE  RegistryStep \/ RegistryLost
<1>1. CASE UNCHANGED ctlVars
  BY <1>1 DEF ctlVars, RegistryStep
<1>2. ASSUME NEW model \in ModelIds, NEW cmd \in Commands, NEW size \in Prompts \cup {0},
             Start(cmd, size, model)
      PROVE  UNCHANGED vars
  BY <1>2 DEF Start, Begin
<1>3. ASSUME NEW model \in ModelIds, NEW calls \in Probes, Probe(calls, model)
      PROVE  UNCHANGED vars
  BY <1>3 DEF Probe, Begin
<1>4. CASE Client
  BY <1>4 DEF Client, SendRequest, SendFails, TakeReply, TakeChunk, EndOfFile, RegistryStep
<1>5. CASE Again \/ Accept \/ AcceptFails
  BY <1>5 DEF Again, Accept, AcceptFails, RegistryStep
<1>6. CASE Server
  <2>1. CASE ParseError \/ ServeQuery \/ ServeStream \/ SendChunk
    BY <2>1 DEF ParseError, ServeQuery, ServeStream, SendChunk, RegistryStep
  <2>2. CASE ServeModel
    BY <2>2 DEF ServeModel, RegistryStep
  <2> QED
    BY <1>6, <2>1, <2>2 DEF Server
<1>7. CASE DaemonDies
  BY <1>7 DEF DaemonDies, RegistryLost
<1>8. CASE DaemonStarts
  BY <1>8 DEF DaemonStarts, RegistryStep
<1>9. CASE Others
  BY <1>9 DEF Others, Next, RegistryStep
<1> QED
  BY <1>1, <1>2, <1>3, <1>4, <1>5, <1>6, <1>7, <1>8, <1>9 DEF CtlNext, RegistryStep

LEMMA GrowthInit ==
  ASSUME CtlInit
  PROVE  Growth
<1>1. /\ DOMAIN models = {} /\ Pinned(models) = {}
      /\ models \in [DOMAIN models -> Descriptor] /\ now = 0 /\ peakPins = 0
  BY DEF CtlInit, Init, Pinned
<1>2. IsFiniteSet({}) /\ Cardinality({}) = 0
  BY FS_EmptySet
<1> QED
  BY <1>1, <1>2, RegistryAssumption DEF Growth, IsRegistry

LEMMA GrowthStep ==
  ASSUME Growth, [CtlNext]_ctlVars
  PROVE  Growth'
<1>1. CASE UNCHANGED vars
  BY <1>1 DEF vars, Growth, IsRegistry, Pinned
<1>2. ASSUME NEW id, NEW stamp \in 0 .. now, RegisterModel(id, stamp)
      PROVE  Growth'
  <2>1. stamp \in Nat
    BY <1>2 DEF Growth
  <2> QED
    BY <1>2, <2>1, GrowthRegister
<1>3. ASSUME NEW id, EvictModel(id)
      PROVE  Growth'
  BY <1>3, GrowthEvict
<1>4. ASSUME NEW id, PinModel(id)
      PROVE  Growth'
  BY <1>4, GrowthPin
<1>5. CASE Tick
  BY <1>5 DEF Tick, Growth, IsRegistry, Pinned
<1>6. CASE RegistryLost
  <2>1. /\ DOMAIN models' = {} /\ Pinned(models') = {}
        /\ models' \in [DOMAIN models' -> Descriptor]
    BY <1>6 DEF RegistryLost, Pinned
  <2>2. IsFiniteSet({}) /\ Cardinality({}) = 0
    BY FS_EmptySet
  <2>3. now' = now /\ peakPins' = peakPins
    BY <1>6 DEF RegistryLost
  <2>4. IsRegistry(models')
    BY <2>1, <2>2 DEF IsRegistry
  <2>5. Cardinality(DOMAIN models') = 0 /\ Cardinality(Pinned(models')) = 0
    BY <2>1, <2>2
  <2> QED
    BY <2>3, <2>4, <2>5, RegistryAssumption DEF Growth
<1> QED
  BY <1>1, <1>2, <1>3, <1>4, <1>5, <1>6, CtlSteps DEF RegistryStep

(* GrowthIsPinned for any models, capacity and clients: however registrations,     *)
(* evictions, pins and daemons follow each other, the registry holds no more       *)
(* models than its capacity or one more than were ever pinned at once.             *)
THEOREM GrowthPinned == CtlSpec => []GrowthIsPinned
<1>1. CtlInit => Growth
  BY GrowthInit
<1>2. Growth /\ [CtlNext]_ctlVars => Growth'
  BY GrowthStep
<1>3. Growth => GrowthIsPinned
  <2> SUFFICES ASSUME Growth PROVE GrowthIsPinned
    OBVIOUS
  <2> DEFINE bounds == {Capacity, peakPins + 1}
  <2>1. Capacity \in Nat /\ peakPins \in Nat /\ Cardinality(DOMAIN models) \in Nat
    BY RegistryAssumption, RegistryFinite DEF Growth
  <2>2. \E x \in bounds : \A y \in bounds : x >= y
    BY <2>1
  <2>3. Max(bounds) \in bounds /\ \A y \in bounds : Max(bounds) >= y
    <3> HIDE DEF bounds
    <3> QED
      BY <2>2 DEF Max
  <2> QED
    BY <2>1, <2>3 DEF Growth, GrowthIsPinned
<1> QED
  BY <1>1, <1>2, <1>3, PTL DEF CtlSpec

----------------------------------------------------------------------------
(* Pins.                                                                    *)

(* A registration, an eviction and a pin each spare the pinned models that they    *)
(* do not name.                                                                   *)
LEMMA PinnedRegister ==
  ASSUME Growth, NEW id, NEW stamp \in Nat, RegisterModel(id, stamp)
  PROVE  PinnedStep
<1> DEFINE desc == [placement |-> "Dormant", stamp |-> stamp]
<1>1. desc \in Descriptor /\ IsRegistry(models)
  BY DEF Descriptor, Placements, Growth
<1>2. models' \in Registered(models, id, desc)
  BY DEF RegisterModel
<1> HIDE DEF desc
<1>3. PICK S \in SUBSET (DOMAIN models \ Pinned(models)) :
        /\ models' = Insert(Without(models, S), id, desc)
        /\ S = {} \/ \E m \in Evictable(models) : S = {m} /\ id \notin DOMAIN models
  BY <1>1, <1>2, RegisteredShape
<1>4. /\ DOMAIN models' = (DOMAIN models \ S) \cup {id}
      /\ \A m \in DOMAIN models' : models'[m] = IF m = id THEN desc ELSE models[m]
  BY <1>3 DEF Insert, Without
<1>5. ASSUME NEW m \in Pinned(models)
      PROVE  \/ m \in Pinned(models')
             \/ /\ DOMAIN models' = DOMAIN models
                /\ Without(models', {m}) = Without(models, {m})
  <2>1. m \in DOMAIN models /\ m \notin S
    BY DEF Pinned
  <2>2. CASE m # id
    BY <1>4, <2>1, <2>2 DEF Pinned
  <2>3. CASE m = id
    <3>1. S = {} /\ DOMAIN models' = DOMAIN models
      BY <1>3, <1>4, <2>1, <2>3
    <3> QED
      BY <1>4, <2>3, <3>1 DEF Without
  <2> QED
    BY <2>2, <2>3
<1> QED
  BY <1>5 DEF PinnedStep

LEMMA PinnedEvict ==
  ASSUME NEW id, EvictModel(id)
  PROVE  PinnedStep
<1>1. models' = Without(models, {id})
  BY DEF EvictModel
<1>2. ASSUME NEW m \in Pinned(models), m # id
      PROVE  m \in Pinned(models')
  BY <1>1, <1>2 DEF Without, Pinned
<1> QED
  BY <1>1, <1>2 DEF PinnedStep

LEMMA PinnedPin ==
  ASSUME Growth, NEW id, PinModel(id)
  PROVE  PinnedStep
<1>1. models' = [models EXCEPT ![id].placement = "PinnedTriage"]
  BY DEF PinModel
<1>2. ASSUME NEW m \in Pinned(models)
      PROVE  m \in Pinned(models')
  BY <1>1 DEF Pinned, Growth, IsRegistry, Descriptor
<1> QED
  BY <1>2 DEF PinnedStep

(* PinsAreKept for any models, capacity and clients: while the daemon lives, no    *)
(* command takes away or unpins a pinned model that it does not name.              *)
THEOREM PinsKept == CtlSpec => PinsAreKept
<1>1. CtlSpec => []Growth
  BY GrowthInit, GrowthStep, PTL DEF CtlSpec
<1>2. Growth /\ [CtlNext]_ctlVars => [listener' = "off" \/ PinnedStep]_ctlVars
  <2> SUFFICES ASSUME Growth, [CtlNext]_ctlVars PROVE listener' = "off" \/ PinnedStep
    OBVIOUS
  <2>1. CASE UNCHANGED vars \/ Tick
    BY <2>1 DEF vars, Tick, PinnedStep, Pinned
  <2>2. ASSUME NEW id, NEW stamp \in 0 .. now, RegisterModel(id, stamp)
        PROVE  PinnedStep
    <3>1. stamp \in Nat
      BY <2>2 DEF Growth
    <3> QED
      BY <2>2, <3>1, PinnedRegister
  <2>3. ASSUME NEW id, EvictModel(id) \/ PinModel(id)
        PROVE  PinnedStep
    BY <2>3, PinnedEvict, PinnedPin
  <2>4. CASE RegistryLost
    BY <2>4 DEF RegistryLost
  <2> QED
    BY <2>1, <2>2, <2>3, <2>4, CtlSteps DEF RegistryStep
<1> QED
  BY <1>1, <1>2, PTL DEF CtlSpec, PinsAreKept
----------------------------------------------------------------------------
(* The conversation of a command with the server.                           *)

MethodNames == ServiceMethods \cup SystemdMethods
CallType ==
  [iface : Interfaces, name : MethodNames, otherwise : {"fail", "default", "local"}]
ReplyType ==
  [kind : {"ok", "error", "fragment", "tail"}, of : MethodNames, continues : BOOLEAN]
ServerType ==
  [pc : {"none", "queued", "reading", "streaming", "closed"}, sent : 0 .. Chunks - 1]
Fields ==
  {"cmd", "pc", "calls", "at", "size", "model", "taken", "printed", "local", "effect",
   "exit"}

Handler(call) == HandlerOf(call.iface, call.name)

\* What matters of the calls of a command.  All of them have a handler; a stream
\* is asked for last; a call that the command does without although its reply may
\* come in pieces is the last but one at most.
Plan(cmd, calls) ==
  /\ calls \in Seq(CallType) /\ calls # <<>>
  /\ \A i \in DOMAIN calls :
       /\ Handler(calls[i]) # "none"
       /\ Handler(calls[i]) = "StreamInference"
            => calls[i].name = "StreamInference" /\ i = Len(calls)
       /\ calls[i].name \in Large /\ calls[i].otherwise = "default"
            => Len(calls) <= i + 1
  /\ cmd = "exec" => Len(calls) = 1 /\ Handler(calls[1]) = "StreamInference"
                     /\ calls[1].otherwise = "local"
  /\ OnModel(cmd) => /\ Len(calls) = 1 /\ Handler(calls[1]) \in ModelHandlers
                     /\ calls[1].otherwise = "fail"

\* A command has its fields, and each answer it took belongs to its call.
Told(c) ==
  /\ DOMAIN c = Fields
  /\ c.size \in Nat /\ c.printed \in Nat /\ c.taken \in Seq(MethodNames \cup {"default"})
  /\ Plan(c.cmd, c.calls) /\ c.at \in DOMAIN c.calls
  /\ Len(c.taken) <= c.at
  /\ \A i \in DOMAIN c.taken : c.taken[i] \in {"default", c.calls[i].name}

\* A command that is over told the truth: one on a model had its effect.
Truthful(c) ==
  /\ c.exit \in {"ok", "failed"}
  /\ OnModel(c.cmd) /\ c.exit = "ok" /\ ~c.local => c.effect

\* The tail of a reply that was given up may be waiting, in the last call.
OnlyTails(c, rp) == \A i \in DOMAIN rp : rp[i].kind = "tail" /\ c.at = Len(c.calls)

\* What may be read once the server has taken the call: the answer to this call,
\* and no more than that unless it is the last.
Answer(c, call, rp) ==
  /\ \A i \in DOMAIN rp :
       rp[i].kind = "ok" => rp[i].of = call.name /\ (OnModel(c.cmd) => c.effect)
  /\ \/ c.at = Len(c.calls)
     \/ rp = <<>> \/ Len(rp) = 1
     \/ /\ Len(rp) = 2 /\ rp[1].kind = "fragment" /\ rp[2].kind = "tail"
        /\ call.name \in Large

\* The last piece there will ever be is a part of a chunk.
CutChunk(s, rp, i) ==
  s.pc = "closed" /\ i = Len(rp) /\ rp[i] = Fragment("StreamInference")

\* The command is about to send, or has sent and waits.
Sends(c, s, rq, rp) ==
  /\ s.pc = "closed" \/ (s.pc \in {"queued", "reading"} /\ rq = <<>>)
  /\ OnlyTails(c, rp)
  /\ c.cmd = "exec" => rp = <<>> /\ c.printed = 0

Waits(c, s, rq, rp) ==
  LET call == c.calls[c.at]
  IN \/ /\ s.pc \in {"queued", "reading", "closed"} /\ rq = <<call>>
        /\ OnlyTails(c, rp)
        /\ c.cmd = "exec" => rp = <<>> /\ c.printed = 0
     \/ /\ s.pc \in {"reading", "streaming", "closed"} /\ rq = <<>>
        /\ Answer(c, call, rp)
        /\ s.pc = "streaming" =>
             Handler(call) = "StreamInference" /\ RequestFrame + c.size <= Limit
        /\ c.cmd = "exec" =>
             /\ \A i \in DOMAIN rp : rp[i].kind = "ok" \/ CutChunk(s, rp, i)
             /\ RequestFrame + c.size <= Limit \/ (rp = <<>> /\ c.printed = 0)

\* The inductive invariant: at each place of a command, what is on the wire and
\* what the command has made of it.
Talk(c, s, rq, rp) ==
  /\ c.pc \in {"idle", "sending", "waiting", "over"}
  /\ s \in ServerType
  /\ rp \in Seq(ReplyType)
  /\ c.pc = "idle" => c = Idle
  /\ c.pc # "idle" => Told(c)
  /\ c.pc \in {"idle", "over"} => s.pc = "none" /\ rq = <<>> /\ rp = <<>>
  /\ c.pc = "over" => Truthful(c)
  /\ c.pc \in {"sending", "waiting"} =>
       c.exit = "none" /\ Len(c.taken) = c.at - 1 /\ ~c.local
  /\ c.pc = "sending" => Sends(c, s, rq, rp)
  /\ c.pc = "waiting" => Waits(c, s, rq, rp)

Conversation ==
  /\ activated \in BOOLEAN /\ listener \in {"on", "dead", "off"}
  /\ Talk(ctl, server, requests, replies)

(* A method that is described has a handler, and only StreamInference streams. *)
LEMMA DescribedHandled ==
  ASSUME NEW iface \in Interfaces, NEW name \in Described(iface)
  PROVE  /\ name \in MethodNames
         /\ HandlerOf(iface, name) # "none"
         /\ HandlerOf(iface, name) = "StreamInference" => name = "StreamInference"
<1>1. CASE iface = Service
  <2>1. name \in ServiceMethods
    BY <1>1 DEF Described, Service, Syntrop, Systemd
  <2> QED
    BY <1>1, <2>1 DEF HandlerOf, ServiceMethods, Service, MethodNames
<1>2. CASE iface \in {Syntrop, Systemd}
  <2>1. iface # Service
    BY <1>2 DEF Service, Syntrop, Systemd
  <2>2. name \in SystemdMethods
    BY <1>2, <2>1 DEF Described, Service, Syntrop, Systemd, SyntropMethods, SystemdMethods
  <2> QED
    BY <2>1, <2>2 DEF HandlerOf, SystemdMethods, MethodNames
<1> QED
  BY <1>1, <1>2 DEF Interfaces

(* The handlers that the commands name are there, under the same name. *)
LEMMA NamedHandlers ==
  /\ Systemd \in Interfaces /\ Service \in Interfaces
  /\ "GetInfo" \in MethodNames /\ HandlerOf(Service, "GetInfo") = "GetInfo"
  /\ \A name \in {"GetTopology", "GetPressure", "AcquireLease", "ReleaseLease", "ListLeases",
                  "ListModels", "RegisterModel", "EvictModel", "PinModel",
                  "StreamInference", "Freeze", "Thaw"} :
       name \in MethodNames /\ HandlerOf(Systemd, name) = name
<1>1. Systemd # Service
  BY DEF Systemd, Service
<1> QED
  BY <1>1 DEF HandlerOf, Interfaces, ServiceMethods, SystemdMethods, MethodNames

(* Every command's calls are such a plan. *)
LEMMA SingleCall ==
  ASSUME NEW cmd, NEW name \in MethodNames, NEW otherwise \in {"fail", "default", "local"},
         HandlerOf(Systemd, name) = name, name # "none",
         cmd = "exec" => name = "StreamInference" /\ otherwise = "local",
         OnModel(cmd) => name \in ModelHandlers /\ otherwise = "fail"
  PROVE  Plan(cmd, <<Call(name, otherwise)>>)
<1> DEFINE call == Call(name, otherwise)
           calls == <<call>>
<1>1. /\ call.iface = Systemd /\ call.name = name /\ call.otherwise = otherwise
      /\ call \in CallType
  BY NamedHandlers DEF Call, CallType
<1>2. Handler(call) = name
  BY <1>1 DEF Handler
<1> HIDE DEF call
<1>3. calls \in Seq(CallType) /\ Len(calls) = 1 /\ calls[1] = call /\ DOMAIN calls = {1}
  BY <1>1
<1>4. calls # <<>>
  BY <1>3
<1> HIDE DEF calls
<1>5. Plan(cmd, calls)
  BY <1>1, <1>2, <1>3, <1>4 DEF Plan
<1> QED
  BY <1>5 DEF calls, call

LEMMA StatusPlan == Plan("status", StatusCalls)
<1> DEFINE a == Call("GetTopology", "default")
           b == Call("GetPressure", "default")
           c == Call("ListLeases", "default")
<1>1. /\ a \in CallType /\ a.name = "GetTopology" /\ Handler(a) = "GetTopology"
      /\ b \in CallType /\ Handler(b) = "GetPressure"
      /\ c \in CallType /\ Handler(c) = "ListLeases"
  BY NamedHandlers DEF Call, CallType, Handler
<1> HIDE DEF a, b, c
<1> DEFINE calls == <<a, b, c>>
<1>2. /\ calls \in Seq(CallType) /\ Len(calls) = 3 /\ DOMAIN calls = {1, 2, 3}
      /\ calls[1] = a /\ calls[2] = b /\ calls[3] = c /\ calls # <<>>
  BY <1>1
<1> HIDE DEF calls
<1>3. Plan("status", calls)
  BY <1>1, <1>2, LargeAssumption DEF Plan, OnModel
<1> QED
  BY <1>3 DEF calls, a, b, c, StatusCalls

LEMMA DumpPlan == Plan("dump", DumpCalls)
<1> DEFINE a == Call("GetTopology", "fail")
           b == Call("GetPressure", "fail")
           c == Call("ListLeases", "fail")
           d == Call("ListModels", "default")
           e == Ask("GetInfo", "default")
<1>1. /\ a \in CallType /\ a.otherwise = "fail" /\ Handler(a) = "GetTopology"
      /\ b \in CallType /\ b.otherwise = "fail" /\ Handler(b) = "GetPressure"
      /\ c \in CallType /\ c.otherwise = "fail" /\ Handler(c) = "ListLeases"
      /\ d \in CallType /\ Handler(d) = "ListModels"
      /\ e \in CallType /\ Handler(e) = "GetInfo"
  BY NamedHandlers DEF Call, Ask, CallType, Handler
<1> HIDE DEF a, b, c, d, e
<1> DEFINE calls == <<a, b, c, d, e>>
<1>2. /\ calls \in Seq(CallType) /\ Len(calls) = 5 /\ DOMAIN calls = {1, 2, 3, 4, 5}
      /\ calls[1] = a /\ calls[2] = b /\ calls[3] = c /\ calls[4] = d /\ calls[5] = e
      /\ calls # <<>>
  BY <1>1
<1> HIDE DEF calls
<1>3. Plan("dump", calls)
  BY <1>1, <1>2 DEF Plan, OnModel
<1> QED
  BY <1>3 DEF calls, a, b, c, d, e, DumpCalls

LEMMA BenchmarkPlan == Plan("benchmark", BenchmarkCalls)
<1> DEFINE p == Call("GetPressure", "fail")
           a == Call("AcquireLease", "fail")
           r == Call("ReleaseLease", "fail")
<1>1. /\ p \in CallType /\ p.otherwise = "fail" /\ Handler(p) = "GetPressure"
      /\ a \in CallType /\ a.otherwise = "fail" /\ Handler(a) = "AcquireLease"
      /\ r \in CallType /\ r.otherwise = "fail" /\ Handler(r) = "ReleaseLease"
  BY NamedHandlers DEF Call, CallType, Handler
<1> HIDE DEF p, a, r
<1> DEFINE calls == <<p, p>> \o <<a, r>> \o <<a, r>>
<1>2. /\ calls \in Seq(CallType) /\ Len(calls) = 6
      /\ \A i \in DOMAIN calls : calls[i] \in {p, a, r}
  <2>1. /\ <<p, p>> \in Seq({p, a, r}) /\ <<a, r>> \in Seq({p, a, r})
        /\ Len(<<p, p>>) = 2 /\ Len(<<a, r>>) = 2
    OBVIOUS
  <2>2. calls \in Seq({p, a, r}) /\ Len(calls) = 6
    BY <2>1
  <2> HIDE DEF calls
  <2>3. \A i \in 1 .. Len(calls) : calls[i] \in {p, a, r}
    BY <2>2
  <2>4. calls = [i \in 1 .. 6 |-> calls[i]] /\ DOMAIN calls = 1 .. 6
    BY <2>2
  <2>5. calls \in Seq(CallType)
    BY <1>1, <2>2, <2>3, <2>4
  <2> QED
    BY <2>2, <2>3, <2>4, <2>5
<1>3. calls # <<>>
  BY <1>2
<1> HIDE DEF calls
<1>4. Plan("benchmark", calls)
  BY <1>1, <1>2, <1>3 DEF Plan, OnModel
<1> QED
  BY <1>4 DEF calls, p, a, r, BenchmarkCalls

LEMMA ScriptPlan ==
  ASSUME NEW cmd \in Commands
  PROVE  Plan(cmd, Script(cmd))
<1>1. CASE cmd = "status"
  BY <1>1, StatusPlan DEF Script
<1>2. CASE cmd = "dump"
  BY <1>2, DumpPlan DEF Script
<1>3. CASE cmd = "benchmark"
  BY <1>3, BenchmarkPlan DEF Script
<1>4. ASSUME NEW name \in MethodNames, NEW otherwise \in {"fail", "default", "local"},
             HandlerOf(Systemd, name) = name, name # "none",
             cmd = "exec" => name = "StreamInference" /\ otherwise = "local",
             OnModel(cmd) => name \in ModelHandlers /\ otherwise = "fail",
             Script(cmd) = <<Call(name, otherwise)>>
      PROVE  Plan(cmd, Script(cmd))
  BY <1>4, SingleCall
<1>5. CASE cmd \in {"planes", "leases", "models", "freeze", "thaw"}
  <2> DEFINE name == CASE cmd = "planes" -> "GetTopology" [] cmd = "leases" -> "ListLeases"
                       [] cmd = "models" -> "ListModels" [] cmd = "freeze" -> "Freeze"
                       [] cmd = "thaw" -> "Thaw"
  <2>1. Script(cmd) = <<Call(name, "fail")>>
    BY <1>5 DEF Script
  <2>2. /\ name \in MethodNames /\ name # "none" /\ HandlerOf(Systemd, name) = name
        /\ cmd # "exec" /\ ~OnModel(cmd)
    BY <1>5, NamedHandlers DEF OnModel
  <2> HIDE DEF name
  <2> QED
    BY <1>4, <2>1, <2>2
<1>6. CASE cmd \in {"monitor", "inspect", "exec"}
  <2> DEFINE name == CASE cmd = "monitor" -> "GetPressure" [] cmd = "inspect" -> "GetTopology"
                       [] cmd = "exec" -> "StreamInference"
  <2>1. Script(cmd) = <<Call(name, "local")>>
    BY <1>6 DEF Script
  <2>2. /\ name \in MethodNames /\ name # "none" /\ HandlerOf(Systemd, name) = name
        /\ cmd = "exec" => name = "StreamInference"
        /\ ~OnModel(cmd)
    BY <1>6, NamedHandlers DEF OnModel
  <2> HIDE DEF name
  <2> QED
    BY <1>4, <2>1, <2>2
<1>7. CASE cmd \in {"register", "pin", "evict"}
  <2> DEFINE name == CASE cmd = "register" -> "RegisterModel" [] cmd = "pin" -> "PinModel"
                       [] cmd = "evict" -> "EvictModel"
  <2>1. Script(cmd) = <<Call(name, "fail")>>
    BY <1>7 DEF Script
  <2>2. /\ name \in MethodNames /\ name # "none" /\ HandlerOf(Systemd, name) = name
        /\ cmd # "exec" /\ name \in ModelHandlers
    BY <1>7, NamedHandlers DEF ModelHandlers
  <2> HIDE DEF name
  <2> QED
    BY <1>4, <2>1, <2>2
<1>8. CASE cmd = "warm"
  <2>1. Script(cmd) = <<Call("StreamInference", "default")>>
    BY <1>8 DEF Script
  <2>2. /\ "StreamInference" \in MethodNames
        /\ HandlerOf(Systemd, "StreamInference") = "StreamInference"
        /\ cmd # "exec" /\ ~OnModel(cmd)
    BY <1>8, NamedHandlers DEF OnModel
  <2> QED
    BY <1>4, <2>1, <2>2
<1> QED
  BY <1>1, <1>2, <1>3, <1>5, <1>6, <1>7, <1>8 DEF Commands

LEMMA ProbePlan ==
  ASSUME NEW calls \in Probes
  PROVE  Plan("probe", calls)
<1> DEFINE a == Ask("GetInfo", "fail")
           b == Ask("GetInterfaceDescription", "fail")
<1>1. PICK iface \in Interfaces,
           name \in ServiceMethods \cup SyntropMethods \cup SystemdMethods :
        /\ name \in Described(iface)
        /\ calls = <<a, b, [iface |-> iface, name |-> name, otherwise |-> "fail"]>>
  BY DEF Probes
<1> DEFINE c == [iface |-> iface, name |-> name, otherwise |-> "fail"]
<1>2. /\ a \in CallType /\ a.otherwise = "fail" /\ Handler(a) = "GetInfo"
      /\ b \in CallType /\ b.otherwise = "fail"
      /\ Handler(b) = "GetInterfaceDescription"
  BY NamedHandlers DEF Ask, CallType, Handler, HandlerOf, ServiceMethods, MethodNames
<1>3. /\ c \in CallType /\ c.otherwise = "fail" /\ Handler(c) # "none"
      /\ Handler(c) = "StreamInference" => c.name = "StreamInference"
  BY <1>1, DescribedHandled DEF Handler, CallType
<1>4. calls = <<a, b, c>>
  BY <1>1
<1> HIDE DEF a, b, c
<1>5. /\ calls \in Seq(CallType) /\ Len(calls) = 3 /\ DOMAIN calls = {1, 2, 3}
      /\ calls[1] = a /\ calls[2] = b /\ calls[3] = c /\ calls # <<>>
  BY <1>2, <1>3, <1>4
<1> QED
  BY <1>2, <1>3, <1>5 DEF Plan, OnModel

----------------------------------------------------------------------------
(* The ways on from a call.                                                 *)

\* The conversation after a step.
TalkNext == Talk(ctl', server', requests', replies')

(* A command that ends, *)
LEMMA ExitTalk ==
  ASSUME NEW c, Told(c), NEW how \in {"ok", "failed"},
         OnModel(c.cmd) /\ how = "ok" /\ ~c.local => c.effect,
         Exit(c, how)
  PROVE  TalkNext
<1>1. /\ ctl' = [c EXCEPT !.pc = "over", !.exit = how]
      /\ server' = NoTask /\ requests' = <<>> /\ replies' = <<>>
  BY DEF Exit
<1>2. /\ DOMAIN ctl' = Fields /\ ctl'.pc = "over" /\ ctl'.exit = how
      /\ ctl'.cmd = c.cmd /\ ctl'.calls = c.calls /\ ctl'.at = c.at
      /\ ctl'.size = c.size /\ ctl'.taken = c.taken /\ ctl'.printed = c.printed
      /\ ctl'.local = c.local /\ ctl'.effect = c.effect
  BY <1>1 DEF Told, Fields
<1>3. Told(ctl')
  BY <1>2 DEF Told
<1>4. Truthful(ctl')
  BY <1>2 DEF Truthful
<1>5. server' \in ServerType /\ server'.pc = "none" /\ replies' \in Seq(ReplyType)
  BY <1>1 DEF NoTask, ServerType, Chunks
<1> QED
  BY <1>1, <1>2, <1>3, <1>4, <1>5 DEF TalkNext, Talk, ServerType

(* that does without the daemon, *)
LEMMA LocalTalk ==
  ASSUME NEW c, Told(c), Local(c)
  PROVE  TalkNext
<1> DEFINE d == [c EXCEPT !.local = TRUE]
<1>1. PICK how \in {"ok", "failed"} : Exit(d, how)
  BY DEF Local
<1>2. /\ DOMAIN d = Fields /\ d.local = TRUE
      /\ d.cmd = c.cmd /\ d.calls = c.calls /\ d.at = c.at
      /\ d.size = c.size /\ d.taken = c.taken /\ d.printed = c.printed
  BY DEF Told, Fields
<1>3. Told(d)
  BY <1>2 DEF Told
<1> HIDE DEF d
<1> QED
  BY <1>1, <1>2, <1>3, ExitTalk

(* and one that goes on to its next call or ends after its last. *)
LEMMA ProceedTalk ==
  ASSUME NEW c, Told(c), Len(c.taken) = c.at, c.exit = "none", ~c.local,
         OnModel(c.cmd) => c.effect,
         server \in ServerType, NEW left \in Seq(ReplyType),
         c.at # Len(c.calls) =>
           /\ server.pc = "closed" \/ (server.pc \in {"queued", "reading"} /\ requests = <<>>)
           /\ \A i \in DOMAIN left : left[i].kind = "tail" /\ c.at + 1 = Len(c.calls),
         Proceed(c, left)
  PROVE  TalkNext
<1>1. CASE ~(c.at < Len(c.calls))
  BY <1>1, ExitTalk DEF Proceed
<1>2. CASE c.at < Len(c.calls)
  <2>1. /\ ctl' = [c EXCEPT !.pc = "sending", !.at = c.at + 1]
        /\ replies' = left /\ server' = server /\ requests' = requests
    BY <1>2 DEF Proceed
  <2>2. /\ DOMAIN ctl' = Fields /\ ctl'.pc = "sending" /\ ctl'.exit = "none"
        /\ ctl'.cmd = c.cmd /\ ctl'.calls = c.calls /\ ctl'.at = c.at + 1
        /\ ctl'.size = c.size /\ ctl'.taken = c.taken /\ ctl'.printed = c.printed
        /\ ctl'.local = c.local
    BY <2>1 DEF Told, Fields
  <2>3. c.calls \in Seq(CallType) /\ Len(c.calls) \in Nat /\ c.at \in 1 .. Len(c.calls)
    BY DEF Told, Plan
  <2>4. c.cmd # "exec"
    BY <1>2, <2>3 DEF Told, Plan
  <2>5. Told(ctl')
    BY <1>2, <2>2, <2>3 DEF Told
  <2>6. Sends(ctl', server', requests', replies')
    BY <1>2, <2>1, <2>2, <2>3, <2>4 DEF Sends, OnlyTails
  <2> QED
    BY <2>1, <2>2, <2>3, <2>5, <2>6 DEF TalkNext, Talk, ServerType
<1> QED
  BY <1>1, <1>2

(* A call that failed: what is left to read matters only if it goes on. *)
LEMMA CallFailsTalk ==
  ASSUME Talk(ctl, server, requests, replies), ctl.pc \in {"sending", "waiting"},
         NEW left \in Seq(ReplyType),
         ctl.at # Len(ctl.calls) /\ TheCall.otherwise = "default" =>
           /\ server.pc = "closed" \/ (server.pc \in {"queued", "reading"} /\ requests = <<>>)
           /\ \A i \in DOMAIN left : left[i].kind = "tail" /\ ctl.at + 1 = Len(ctl.calls),
         CallFails(left)
  PROVE  TalkNext
<1>1. /\ Told(ctl) /\ ctl.exit = "none" /\ ~ctl.local /\ Len(ctl.taken) = ctl.at - 1
      /\ server \in ServerType
  BY DEF Talk, ServerType
<1>2. ctl.at \in DOMAIN ctl.calls /\ TheCall \in CallType
  BY <1>1 DEF Told, Plan, TheCall
<1>3. CASE TheCall.otherwise = "fail"
  BY <1>1, <1>3, ExitTalk DEF CallFails
<1>4. CASE TheCall.otherwise = "local"
  BY <1>1, <1>4, LocalTalk DEF CallFails
<1>5. CASE TheCall.otherwise = "default"
  <2> DEFINE d == [ctl EXCEPT !.taken = Append(ctl.taken, "default")]
  <2>1. Proceed(d, left)
    BY <1>5 DEF CallFails
  <2>2. /\ DOMAIN d = Fields /\ d.taken = Append(ctl.taken, "default")
        /\ d.cmd = ctl.cmd /\ d.calls = ctl.calls /\ d.at = ctl.at /\ d.size = ctl.size
        /\ d.printed = ctl.printed /\ d.local = ctl.local /\ d.exit = ctl.exit
    BY <1>1 DEF Told, Fields
  <2>3. ctl.taken \in Seq(MethodNames \cup {"default"}) /\ ctl.at \in Nat
    BY <1>1 DEF Told, Plan
  <2>4. /\ d.taken \in Seq(MethodNames \cup {"default"}) /\ Len(d.taken) = ctl.at
        /\ \A i \in DOMAIN d.taken : \/ i = ctl.at /\ d.taken[i] = "default"
                                     \/ i \in DOMAIN ctl.taken /\ d.taken[i] = ctl.taken[i]
    BY <1>1, <2>2, <2>3
  <2>5. Told(d)
    BY <1>1, <2>2, <2>3, <2>4 DEF Told
  <2>6. ~OnModel(ctl.cmd)
    BY <1>1, <1>2, <1>5 DEF Told, Plan, TheCall
  <2> HIDE DEF d
  <2>7. d.at # Len(d.calls) =>
          /\ server.pc = "closed" \/ (server.pc \in {"queued", "reading"} /\ requests = <<>>)
          /\ \A i \in DOMAIN left : left[i].kind = "tail" /\ d.at + 1 = Len(d.calls)
    BY <1>5, <2>2
  <2>8. Len(d.taken) = d.at /\ d.exit = "none" /\ ~d.local /\ ~OnModel(d.cmd)
    BY <1>1, <2>2, <2>4, <2>6
  <2> QED
    BY <1>1, <2>1, <2>5, <2>7, <2>8, ProceedTalk
<1> QED
  BY <1>2, <1>3, <1>4, <1>5 DEF CallType

----------------------------------------------------------------------------
(* The command's steps.                                                     *)

TalkNow == Talk(ctl, server, requests, replies)

LEMMA BeginTalk ==
  ASSUME TalkNow, NEW cmd, NEW calls, Plan(cmd, calls), NEW size \in Nat, NEW model,
         Begin(cmd, calls, size, model)
  PROVE  TalkNext
<1> DEFINE c == [Idle EXCEPT !.cmd = cmd, !.calls = calls, !.size = size,
                             !.model = model, !.at = 1]
<1>1. /\ DOMAIN c = Fields /\ c.cmd = cmd /\ c.calls = calls /\ c.size = size /\ c.at = 1
      /\ c.taken = <<>> /\ c.printed = 0 /\ c.local = FALSE /\ c.exit = "none"
  BY DEF Idle, Fields
<1>2. 1 \in DOMAIN calls
  BY DEF Plan
<1>3. Told(c)
  <2> HIDE DEF c
  <2>1. Len(c.taken) = 0 /\ DOMAIN c.taken = {} /\ c.taken \in Seq(MethodNames \cup {"default"})
    BY <1>1
  <2> QED
    BY <1>1, <1>2, <2>1 DEF Told
<1>4. requests = <<>> /\ replies = <<>>
  BY DEF Begin, TalkNow, Talk
<1>5. CASE activated \/ listener = "on"
  <2>1. /\ ctl' = [c EXCEPT !.pc = "sending"]
        /\ server' = [NoTask EXCEPT !.pc = "queued"]
        /\ requests' = <<>> /\ replies' = <<>>
    BY <1>4, <1>5 DEF Begin
  <2> HIDE DEF c
  <2>2. /\ DOMAIN ctl' = Fields /\ ctl'.pc = "sending"
        /\ ctl'.cmd = cmd /\ ctl'.calls = calls /\ ctl'.size = size /\ ctl'.at = 1
        /\ ctl'.taken = <<>> /\ ctl'.printed = 0 /\ ctl'.local = FALSE /\ ctl'.exit = "none"
    BY <1>1, <2>1 DEF Fields
  <2>3. Told(ctl')
    BY <1>2, <2>2 DEF Told
  <2>4. server' \in ServerType /\ server'.pc = "queued"
    BY <2>1 DEF NoTask, ServerType, Chunks
  <2>5. Sends(ctl', server', requests', replies')
    BY <2>1, <2>2, <2>4 DEF Sends, OnlyTails
  <2>6. replies' \in Seq(ReplyType) /\ Len(ctl'.taken) = ctl'.at - 1
    BY <2>1, <2>2
  <2> QED
    BY <2>2, <2>3, <2>4, <2>5, <2>6 DEF TalkNext, Talk, ServerType
<1>6. CASE ~(activated \/ listener = "on")
  <2>1. Local(c) \/ Exit(c, "failed")
    BY <1>6 DEF Begin
  <2> HIDE DEF c
  <2> QED
    BY <1>1, <1>3, <2>1, ExitTalk, LocalTalk
<1> QED
  BY <1>5, <1>6

LEMMA SendRequestTalk ==
  ASSUME TalkNow, SendRequest
  PROVE  TalkNext
<1>1. /\ Told(ctl) /\ Sends(ctl, server, requests, replies) /\ server \in ServerType
      /\ ctl.exit = "none" /\ Len(ctl.taken) = ctl.at - 1 /\ ~ctl.local
      /\ replies \in Seq(ReplyType)
  BY DEF SendRequest, TalkNow, Talk, ServerType
<1>2. server.pc \in {"queued", "reading"} /\ requests = <<>>
  BY <1>1 DEF SendRequest, Closed, Sends
<1>3. /\ ctl' = [ctl EXCEPT !.pc = "waiting"] /\ requests' = <<TheCall>>
      /\ server' = server /\ replies' = replies
  BY <1>2 DEF SendRequest
<1>4. /\ DOMAIN ctl' = Fields /\ ctl'.pc = "waiting" /\ ctl'.exit = ctl.exit
      /\ ctl'.cmd = ctl.cmd /\ ctl'.calls = ctl.calls /\ ctl'.at = ctl.at
      /\ ctl'.size = ctl.size /\ ctl'.taken = ctl.taken /\ ctl'.printed = ctl.printed
      /\ ctl'.local = ctl.local
  BY <1>1, <1>3 DEF Told, Fields
<1>5. Told(ctl')
  BY <1>1, <1>4 DEF Told
<1>6. Waits(ctl', server', requests', replies')
  BY <1>1, <1>2, <1>3, <1>4 DEF Waits, Sends, OnlyTails, TheCall
<1> QED
  BY <1>1, <1>3, <1>4, <1>5, <1>6 DEF TalkNext, Talk, ServerType

LEMMA SendFailsTalk ==
  ASSUME TalkNow, SendFails
  PROVE  TalkNext
<1>1. /\ Sends(ctl, server, requests, replies) /\ replies \in Seq(ReplyType)
      /\ ctl.pc = "sending" /\ server.pc = "closed" /\ CallFails(replies)
  BY DEF SendFails, Closed, TalkNow, Talk
<1>2. ctl.at # Len(ctl.calls) =>
        \A i \in DOMAIN replies : replies[i].kind = "tail" /\ ctl.at + 1 = Len(ctl.calls)
  BY <1>1 DEF Sends, OnlyTails
<1> QED
  BY <1>1, <1>2, CallFailsTalk DEF TalkNow

(* What the first reply is, and what is left behind it. *)
LEMMA FirstReply ==
  ASSUME NEW rp \in Seq(ReplyType), rp # <<>>
  PROVE  /\ Len(rp) \in Nat \ {0} /\ 1 \in DOMAIN rp
         /\ Head(rp) = rp[1] /\ Head(rp) \in ReplyType
         /\ Tail(rp) \in Seq(ReplyType) /\ Len(Tail(rp)) = Len(rp) - 1
         /\ \A i \in DOMAIN Tail(rp) : i + 1 \in DOMAIN rp /\ Tail(rp)[i] = rp[i + 1]
OBVIOUS

LEMMA TakeReplyTalk ==
  ASSUME TalkNow, TakeReply
  PROVE  TalkNext
<1>1. /\ ctl.pc = "waiting" /\ ctl.cmd # "exec" /\ replies # <<>>
      /\ Told(ctl) /\ Waits(ctl, server, requests, replies) /\ server \in ServerType
      /\ ctl.exit = "none" /\ Len(ctl.taken) = ctl.at - 1 /\ ~ctl.local
      /\ replies \in Seq(ReplyType)
  BY DEF TakeReply, TalkNow, Talk, ServerType
<1> DEFINE first == Head(replies)
           left == Tail(replies)
<1>2. /\ Len(replies) \in Nat \ {0} /\ 1 \in DOMAIN replies
      /\ first = replies[1] /\ first \in ReplyType
      /\ left \in Seq(ReplyType) /\ Len(left) = Len(replies) - 1
      /\ \A i \in DOMAIN left : i + 1 \in DOMAIN replies /\ left[i] = replies[i + 1]
  BY <1>1, FirstReply
<1>3. /\ ctl.calls \in Seq(CallType) /\ ctl.at \in 1 .. Len(ctl.calls)
      /\ TheCall \in CallType /\ Len(ctl.calls) \in Nat
      /\ Handler(TheCall) = "StreamInference" => ctl.at = Len(ctl.calls)
      /\ TheCall.name \in Large /\ TheCall.otherwise = "default"
           => Len(ctl.calls) <= ctl.at + 1
  BY <1>1 DEF Told, Plan, TheCall
<1> DEFINE answered == [ctl EXCEPT !.taken = Append(ctl.taken, first.of)]
<1>4. ASSUME first.kind = "ok"
      PROVE  /\ first.of = TheCall.name /\ (OnModel(ctl.cmd) => ctl.effect)
             /\ ctl.at # Len(ctl.calls) =>
                  left = <<>> /\ server.pc \in {"reading", "closed"} /\ requests = <<>>
             /\ Told(answered) /\ Len(answered.taken) = answered.at
             /\ answered.cmd = ctl.cmd /\ answered.calls = ctl.calls
             /\ answered.at = ctl.at /\ answered.exit = ctl.exit
             /\ answered.local = ctl.local /\ answered.effect = ctl.effect
  <2>1. /\ requests = <<>> /\ Answer(ctl, TheCall, replies)
        /\ server.pc \in {"reading", "streaming", "closed"}
        /\ server.pc = "streaming" => Handler(TheCall) = "StreamInference"
    BY <1>1, <1>2, <1>4 DEF Waits, OnlyTails, TheCall
  <2>2. first.of = TheCall.name /\ (OnModel(ctl.cmd) => ctl.effect)
    BY <1>2, <1>4, <2>1 DEF Answer
  <2>3. ctl.at # Len(ctl.calls) => Len(replies) = 1
    BY <1>1, <1>2, <1>4, <2>1 DEF Answer
  <2>4. ctl.at # Len(ctl.calls) => left = <<>>
    <3> HIDE DEF left
    <3>1. left \in Seq(ReplyType) /\ (ctl.at # Len(ctl.calls) => Len(left) = 0)
      BY <1>2, <2>3
    <3> QED
      BY <3>1
  <2>5. first.of \in MethodNames
    BY <1>2 DEF ReplyType
  <2> HIDE DEF first, left
  <2>6. /\ DOMAIN answered = Fields /\ answered.taken = Append(ctl.taken, first.of)
        /\ answered.cmd = ctl.cmd /\ answered.calls = ctl.calls
        /\ answered.at = ctl.at /\ answered.size = ctl.size
        /\ answered.printed = ctl.printed /\ answered.local = ctl.local
        /\ answered.effect = ctl.effect /\ answered.exit = ctl.exit
    BY <1>1 DEF Told, Fields
  <2> HIDE DEF answered
  <2>7. ctl.taken \in Seq(MethodNames \cup {"default"}) /\ ctl.at \in Nat
    BY <1>1, <1>3 DEF Told
  <2>8. /\ answered.taken \in Seq(MethodNames \cup {"default"})
        /\ Len(answered.taken) = ctl.at
        /\ \A i \in DOMAIN answered.taken :
             \/ i = ctl.at /\ answered.taken[i] = first.of
             \/ i \in DOMAIN ctl.taken /\ answered.taken[i] = ctl.taken[i]
    BY <1>1, <2>5, <2>6, <2>7
  <2>9. Told(answered)
    BY <1>1, <2>2, <2>6, <2>7, <2>8 DEF Told, TheCall
  <2> QED
    BY <1>3, <2>1, <2>2, <2>4, <2>6, <2>8, <2>9
<1>5. CASE first.kind = "ok" /\ Proceed(answered, left)
  <2> HIDE DEF answered, first, left
  <2>1. answered.at # Len(answered.calls) =>
          /\ server.pc = "closed" \/ (server.pc \in {"queued", "reading"} /\ requests = <<>>)
          /\ \A i \in DOMAIN left : left[i].kind = "tail" /\ answered.at + 1 = Len(answered.calls)
    BY <1>4, <1>5
  <2> QED
    BY <1>1, <1>2, <1>4, <1>5, <2>1, ProceedTalk
<1>6. CASE first.kind = "ok" /\ Local(answered)
  <2> HIDE DEF answered, first, left
  <2> QED
    BY <1>1, <1>4, <1>6, LocalTalk
<1>7. CASE first.kind # "ok" /\ CallFails(left)
  <2>1. ASSUME ctl.at # Len(ctl.calls), TheCall.otherwise = "default"
        PROVE  /\ server.pc = "closed" \/ (server.pc \in {"queued", "reading"} /\ requests = <<>>)
               /\ \A i \in DOMAIN left : left[i].kind = "tail" /\ ctl.at + 1 = Len(ctl.calls)
    <3>1. /\ requests = <<>> /\ Answer(ctl, TheCall, replies)
          /\ server.pc \in {"reading", "streaming", "closed"}
          /\ server.pc = "streaming" => Handler(TheCall) = "StreamInference"
      BY <1>1, <1>2, <2>1 DEF Waits, OnlyTails, TheCall
    <3>2. server.pc \in {"reading", "closed"}
      BY <1>3, <2>1, <3>1
    <3>3. \/ Len(replies) = 1
          \/ Len(replies) = 2 /\ replies[2].kind = "tail" /\ TheCall.name \in Large
      BY <1>1, <2>1, <3>1 DEF Answer
    <3>4. ASSUME NEW i \in DOMAIN left
          PROVE  left[i].kind = "tail" /\ ctl.at + 1 = Len(ctl.calls)
      <4> HIDE DEF left
      <4>1. i = 1 /\ Len(replies) = 2
        BY <1>2, <3>3
      <4> QED
        BY <1>2, <1>3, <2>1, <3>3, <4>1
    <3> QED
      BY <3>1, <3>2, <3>4
  <2> HIDE DEF first, left
  <2> QED
    BY <1>1, <1>2, <1>7, <2>1, CallFailsTalk DEF TalkNow
<1> QED
  BY <1>5, <1>6, <1>7 DEF TakeReply

LEMMA TakeChunkTalk ==
  ASSUME TalkNow, TakeChunk
  PROVE  TalkNext
<1>1. /\ ctl.pc = "waiting" /\ ctl.cmd = "exec" /\ replies # <<>>
      /\ Told(ctl) /\ Waits(ctl, server, requests, replies) /\ server \in ServerType
      /\ ctl.exit = "none" /\ Len(ctl.taken) = ctl.at - 1 /\ ~ctl.local
      /\ replies \in Seq(ReplyType)
  BY DEF TakeChunk, TalkNow, Talk, ServerType
<1> DEFINE first == Head(replies)
           left == Tail(replies)
           more == [ctl EXCEPT !.printed = ctl.printed + 1]
<1>2. /\ 1 \in DOMAIN replies /\ first = replies[1] /\ left \in Seq(ReplyType)
      /\ Len(replies) \in Nat /\ Len(left) = Len(replies) - 1
      /\ \A i \in DOMAIN left : i + 1 \in DOMAIN replies /\ left[i] = replies[i + 1]
  BY <1>1, FirstReply
<1>3. /\ requests = <<>> /\ Answer(ctl, TheCall, replies)
      /\ server.pc \in {"reading", "streaming", "closed"}
      /\ server.pc = "streaming" => Handler(TheCall) = "StreamInference"
      /\ \A i \in DOMAIN replies : replies[i].kind = "ok" \/ CutChunk(server, replies, i)
      /\ RequestFrame + ctl.size <= Limit
  BY <1>1 DEF Waits, TheCall
<1>4. ctl.at = Len(ctl.calls) /\ ~OnModel(ctl.cmd)
  BY <1>1 DEF Told, Plan, OnModel
<1>5. /\ DOMAIN more = Fields /\ more.printed = ctl.printed + 1
      /\ more.pc = ctl.pc /\ more.cmd = ctl.cmd /\ more.calls = ctl.calls
      /\ more.at = ctl.at /\ more.size = ctl.size /\ more.taken = ctl.taken
      /\ more.local = ctl.local /\ more.exit = ctl.exit
  BY <1>1 DEF Told, Fields
<1> HIDE DEF more
<1>6. Told(more)
  BY <1>1, <1>5 DEF Told
<1>7. CASE first.kind = "ok" /\ ~first.continues
  <2>1. Exit(more, "ok")
    BY <1>2, <1>3, <1>7 DEF TakeChunk, more
  <2> QED
    BY <1>1, <1>4, <1>5, <1>6, <2>1, ExitTalk
<1>8. CASE first.kind = "ok" /\ first.continues
  <2>1. ctl' = more /\ replies' = left /\ server' = server /\ requests' = requests
    BY <1>2, <1>3, <1>8 DEF TakeChunk, more
  <2> HIDE DEF first, left
  <2>2. Answer(more, TheCall, left)
    BY <1>2, <1>3, <1>4, <1>5 DEF Answer
  <2>3. \A i \in DOMAIN left : left[i].kind = "ok" \/ CutChunk(server, left, i)
    BY <1>2, <1>3 DEF CutChunk
  <2>4. Waits(more, server, requests, left)
    BY <1>2, <1>3, <1>5, <2>2, <2>3 DEF Waits, TheCall
  <2> QED
    BY <1>1, <1>2, <1>5, <1>6, <2>1, <2>4 DEF TalkNext, Talk, ServerType
<1>9. CASE first.kind # "ok"
  <2>1. CallFails(left)
    BY <1>9 DEF TakeChunk
  <2> HIDE DEF first, left
  <2> QED
    BY <1>1, <1>2, <1>4, <2>1, CallFailsTalk DEF TalkNow
<1> QED
  BY <1>7, <1>8, <1>9

LEMMA EndOfFileTalk ==
  ASSUME TalkNow, EndOfFile
  PROVE  TalkNext
<1>1. /\ ctl.pc = "waiting" /\ server.pc = "closed"
      /\ Told(ctl) /\ Waits(ctl, server, requests, replies) /\ ~ctl.local
  BY DEF EndOfFile, Closed, TalkNow, Talk
<1>2. CASE ctl.cmd = "exec" /\ Exit(ctl, "ok")
  <2>1. ~OnModel(ctl.cmd)
    BY <1>2 DEF OnModel
  <2> QED
    BY <1>1, <1>2, <2>1, ExitTalk
<1>3. CASE (requests # <<>> \/ Oversized \/ ctl.cmd # "exec") /\ CallFails(<<>>)
  <2>1. <<>> \in Seq(ReplyType) /\ DOMAIN <<>> = {}
    OBVIOUS
  <2> QED
    BY <1>1, <1>3, <2>1, CallFailsTalk DEF TalkNow
<1> QED
  BY <1>2, <1>3 DEF EndOfFile

LEMMA AgainTalk ==
  ASSUME TalkNow, Again
  PROVE  TalkNext
<1>1. /\ ctl' = Idle /\ Idle.pc = "idle" /\ server' = server
      /\ requests' = requests /\ replies' = replies
      /\ ctl.pc = "over"
  BY DEF Again, wireVars, Idle
<1> QED
  BY <1>1 DEF TalkNow, TalkNext, Talk

----------------------------------------------------------------------------
(* The server's steps.  They leave the command alone, but for the effect it   *)
(* has had on a model.                                                       *)

LEMMA ServerTalk ==
  ASSUME TalkNow, server' \in ServerType, requests' \in {requests, <<>>},
         replies' \in Seq(ReplyType), server'.pc = "none" <=> server.pc = "none",
         \/ ctl' = ctl
         \/ \E b : ctl' = [ctl EXCEPT !.effect = b] /\ ctl.pc = "waiting",
         ctl.pc \in {"idle", "over"} => replies' = <<>>,
         ctl.pc = "sending" => Sends(ctl, server', requests', replies'),
         ctl.pc = "waiting" => Waits(ctl', server', requests', replies')
  PROVE  TalkNext
<1>1. CASE ctl' = ctl
  <2>1. ctl'.pc = ctl.pc
    BY <1>1
  <2> QED
    BY <1>1, <2>1 DEF TalkNow, TalkNext, Talk, ServerType
<1>2. CASE \E b : ctl' = [ctl EXCEPT !.effect = b] /\ ctl.pc = "waiting"
  <2>1. PICK b : ctl' = [ctl EXCEPT !.effect = b]
    BY <1>2
  <2>2. Told(ctl) /\ ctl.pc = "waiting"
    BY <1>2 DEF TalkNow, Talk
  <2>3. /\ DOMAIN ctl' = Fields /\ ctl'.pc = "waiting" /\ ctl'.exit = ctl.exit
        /\ ctl'.cmd = ctl.cmd /\ ctl'.calls = ctl.calls /\ ctl'.at = ctl.at
        /\ ctl'.size = ctl.size /\ ctl'.taken = ctl.taken /\ ctl'.printed = ctl.printed
        /\ ctl'.local = ctl.local
    BY <2>1, <2>2 DEF Told, Fields
  <2>4. Told(ctl')
    BY <2>2, <2>3 DEF Told
  <2> QED
    BY <2>2, <2>3, <2>4 DEF TalkNow, TalkNext, Talk, ServerType
<1> QED
  BY <1>1, <1>2

(* A connection is accepted, or goes away. *)
LEMMA ConnectionTalk ==
  ASSUME TalkNow, UNCHANGED <<requests, replies, ctl>>,
         \/ server' = server
         \/ server.pc = "queued" /\ server' = [server EXCEPT !.pc = "reading"]
         \/ server.pc # "none" /\ Hangup
  PROVE  TalkNext
<1>1. server \in ServerType /\ replies \in Seq(ReplyType)
  BY DEF TalkNow, Talk, ServerType
<1>2. /\ server' \in ServerType
      /\ \/ server' = server
         \/ server.pc = "queued" /\ server'.pc = "reading"
         \/ server.pc # "none" /\ server'.pc = "closed"
  BY <1>1 DEF ServerType, Hangup
<1>3. ctl.pc = "sending" => Sends(ctl, server', requests', replies')
  BY <1>2 DEF TalkNow, Talk, Sends
<1>4. ctl.pc = "waiting" => Waits(ctl', server', requests', replies')
  BY <1>2 DEF TalkNow, Talk, Waits, CutChunk
<1>5. server'.pc = "none" <=> server.pc = "none"
  BY <1>2
<1>6. ctl.pc \in {"idle", "over"} => replies' = <<>>
  BY DEF TalkNow, Talk
<1> QED
  BY <1>1, <1>2, <1>3, <1>4, <1>5, <1>6, ServerTalk

(* What is left of the pieces of a reply when the daemon dies. *)
LEMMA TornPieces ==
  ASSUME NEW rp \in Seq(ReplyType), NEW new \in Torn(rp)
  PROVE  /\ new \in Seq(ReplyType)
         /\ Len(new) = Len(rp) \/ (Len(new) = Len(rp) - 1 /\ rp # <<>>)
         /\ \A i \in DOMAIN new :
              /\ i \in DOMAIN rp
              /\ \/ new[i] = rp[i]
                 \/ /\ i = Len(new) /\ i = Len(rp) /\ rp[i].kind # "tail"
                    /\ new[i] = Fragment(rp[i].of)
<1> DEFINE last == Len(rp)
<1>1. CASE new = rp
  BY <1>1
<1>2. CASE rp # <<>> /\ new = SubSeq(rp, 1, last - 1)
  <2>1. last \in Nat \ {0}
    BY <1>2
  <2> DEFINE n == last - 1
  <2>2. n \in Nat /\ 1 \in Int /\ \A i \in 1 .. n : rp[i] \in ReplyType
    BY <2>1
  <2>3. new = SubSeq(rp, 1, n)
    BY <1>2
  <2> HIDE DEF n
  <2>4. /\ new \in Seq(ReplyType) /\ Len(new) = IF 1 <= n THEN n - 1 + 1 ELSE 0
        /\ \A i \in 1 .. n - 1 + 1 : new[i] = rp[1 + i - 1]
    BY <2>2, <2>3, SubSeqProperties
  <2>5. new \in Seq(ReplyType) /\ Len(new) = n /\ \A i \in 1 .. n : new[i] = rp[i]
    BY <2>2, <2>4
  <2> QED
    BY <1>2, <2>1, <2>5 DEF n
<1>3. CASE rp # <<>> /\ rp[last].kind # "tail"
           /\ new = [rp EXCEPT ![last] = Fragment(rp[last].of)]
  <2>1. last \in Nat \ {0} /\ last \in DOMAIN rp /\ rp[last] \in ReplyType
    BY <1>3
  <2>2. Fragment(rp[last].of) \in ReplyType
    BY <2>1 DEF Fragment, Reply, ReplyType
  <2>3. /\ new \in Seq(ReplyType) /\ Len(new) = last
        /\ new[last] = Fragment(rp[last].of)
        /\ \A i \in DOMAIN new : i \in DOMAIN rp /\ (i # last => new[i] = rp[i])
    <3> DEFINE f == Fragment(rp[last].of)
    <3>1. f \in ReplyType /\ new = [rp EXCEPT ![last] = f]
      BY <1>3, <2>2
    <3> HIDE DEF f
    <3>2. new \in Seq(ReplyType) /\ Len(new) = last /\ new[last] = f
      BY <2>1, <3>1
    <3> QED
      BY <2>1, <3>1, <3>2 DEF f
  <2> QED
    BY <1>3, <2>1, <2>3
<1> QED
  BY <1>1, <1>2, <1>3 DEF Torn

(* The daemon dies, perhaps while it writes. *)
LEMMA DeathTalk ==
  ASSUME TalkNow, UNCHANGED <<requests, ctl>>, server.pc \in {"reading", "streaming"},
         Hangup, replies' \in Torn(replies)
  PROVE  TalkNext
<1>1. server \in ServerType /\ replies \in Seq(ReplyType)
  BY DEF TalkNow, Talk, ServerType
<1>2. server' \in ServerType /\ server'.pc = "closed"
  BY <1>1 DEF ServerType, Hangup
<1> DEFINE new == replies'
<1>3. /\ new \in Seq(ReplyType)
      /\ Len(new) = Len(replies) \/ (Len(new) = Len(replies) - 1 /\ replies # <<>>)
      /\ \A i \in DOMAIN new :
           /\ i \in DOMAIN replies
           /\ \/ new[i] = replies[i]
              \/ /\ i = Len(new) /\ i = Len(replies) /\ replies[i].kind # "tail"
                 /\ new[i] = Fragment(replies[i].of)
  BY <1>1, TornPieces
<1> HIDE DEF new
<1>4. OnlyTails(ctl, replies) => OnlyTails(ctl, new)
  BY <1>3 DEF OnlyTails
<1>5. replies = <<>> => new = <<>>
  BY <1>1, <1>3
<1>6. \A of : Fragment(of).kind = "fragment"
  BY DEF Fragment, Reply
<1>7. ASSUME NEW call, Answer(ctl, call, replies)
      PROVE  Answer(ctl, call, new)
  <2>1. \A i \in DOMAIN new :
          new[i].kind = "ok" => new[i].of = call.name /\ (OnModel(ctl.cmd) => ctl.effect)
    BY <1>3, <1>6, <1>7 DEF Answer
  <2>2. CASE Len(replies) = 1
    BY <1>1, <1>3, <2>1, <2>2 DEF Answer
  <2>3. CASE /\ Len(replies) = 2 /\ replies[1].kind = "fragment" /\ replies[2].kind = "tail"
             /\ call.name \in Large
    <3>1. CASE Len(new) = 1
      BY <2>1, <3>1 DEF Answer
    <3>2. CASE Len(new) = 2
      <4>1. 1 \in DOMAIN new /\ 2 \in DOMAIN new
        BY <1>3, <3>2
      <4>2. new[1] = replies[1] /\ new[2] = replies[2]
        BY <1>3, <2>3, <3>2, <4>1
      <4> QED
        BY <2>1, <2>3, <3>2, <4>2 DEF Answer
    <3> QED
      BY <1>3, <2>3, <3>1, <3>2
  <2> QED
    BY <1>5, <1>7, <2>1, <2>2, <2>3 DEF Answer
<1>8. ctl.pc = "sending" => Sends(ctl, server', requests', new)
  BY <1>2, <1>4, <1>5 DEF TalkNow, Talk, Sends
<1>9. ASSUME ctl.pc = "waiting" PROVE Waits(ctl, server', requests', new)
  <2>1. Waits(ctl, server, requests, replies) /\ Told(ctl)
    BY <1>9 DEF TalkNow, Talk
  <2>2. CASE requests = <<TheCall>> /\ OnlyTails(ctl, replies)
             /\ (ctl.cmd = "exec" => replies = <<>> /\ ctl.printed = 0)
    BY <1>2, <1>4, <1>5, <2>2 DEF Waits, TheCall
  <2>3. CASE /\ requests = <<>> /\ Answer(ctl, TheCall, replies)
             /\ ctl.cmd = "exec" =>
                  /\ \A i \in DOMAIN replies : replies[i].kind = "ok" \/ CutChunk(server, replies, i)
                  /\ RequestFrame + ctl.size <= Limit \/ (replies = <<>> /\ ctl.printed = 0)
    <3>1. Answer(ctl, TheCall, new)
      BY <1>7, <2>3
    <3>2. ASSUME ctl.cmd = "exec", NEW i \in DOMAIN new
          PROVE  new[i].kind = "ok" \/ CutChunk(server', new, i)
      <4>1. i \in DOMAIN replies /\ replies[i].kind = "ok"
        BY <1>3, <2>3, <3>2 DEF CutChunk
      <4>2. replies[i].of = "StreamInference"
        BY <2>1, <2>3, <3>2, <4>1 DEF Answer, Told, Plan, TheCall
      <4> QED
        BY <1>2, <1>3, <3>2, <4>1, <4>2 DEF CutChunk
    <3> QED
      BY <1>2, <1>5, <2>3, <3>1, <3>2 DEF Waits, TheCall
  <2> QED
    BY <2>1, <2>2, <2>3 DEF Waits, TheCall
<1>10. ctl.pc \in {"idle", "over"} => new = <<>>
  BY <1>5 DEF TalkNow, Talk
<1> QED
  BY <1>2, <1>3, <1>8, <1>9, <1>10, ServerTalk DEF new

(* The request that is read is the call that the command waits for. *)
LEMMA RequestIsCall ==
  ASSUME TalkNow, Reading
  PROVE  /\ ctl.pc = "waiting" /\ Told(ctl) /\ server \in ServerType
         /\ requests = <<TheCall>> /\ TheRequest = TheCall /\ Tail(requests) = <<>>
         /\ TheHandler = Handler(TheCall) /\ TheCall \in CallType
         /\ ctl.at \in DOMAIN ctl.calls
         /\ replies \in Seq(ReplyType) /\ OnlyTails(ctl, replies)
         /\ ctl.cmd = "exec" => replies = <<>> /\ ctl.printed = 0
<1>1. server.pc = "reading" /\ requests # <<>>
  BY DEF Reading
<1>2. ctl.pc = "waiting"
  BY <1>1 DEF TalkNow, Talk, Sends
<1>3. /\ Told(ctl) /\ Waits(ctl, server, requests, replies) /\ server \in ServerType
      /\ replies \in Seq(ReplyType)
  BY <1>2 DEF TalkNow, Talk, ServerType
<1>4. requests = <<TheCall>> /\ OnlyTails(ctl, replies)
      /\ (ctl.cmd = "exec" => replies = <<>> /\ ctl.printed = 0)
  BY <1>1, <1>3 DEF Waits, TheCall
<1>5. Head(requests) = TheCall /\ Tail(requests) = <<>>
  BY <1>4
<1>6. TheHandler = Handler(TheCall)
  BY <1>5 DEF TheHandler, TheRequest, Handler
<1>7. ctl.at \in DOMAIN ctl.calls /\ TheCall \in CallType
  BY <1>3 DEF Told, Plan, TheCall
<1> QED
  BY <1>2, <1>3, <1>4, <1>5, <1>6, <1>7 DEF TheRequest

(* Tails answer nothing. *)
LEMMA TailsAnswer ==
  ASSUME NEW c, NEW call, NEW rp \in Seq(ReplyType), OnlyTails(c, rp)
  PROVE  Answer(c, call, rp) /\ (c.at # Len(c.calls) => rp = <<>>)
<1>1. c.at # Len(c.calls) => DOMAIN rp = {}
  BY DEF OnlyTails
<1>2. c.at # Len(c.calls) => rp = <<>>
  BY <1>1
<1> QED
  BY <1>2 DEF Answer, OnlyTails

(* Pieces after the tails are the answer to the call. *)
LEMMA PiecesAnswer ==
  ASSUME NEW c, NEW call, NEW rp \in Seq(ReplyType), OnlyTails(c, rp),
         NEW pieces \in Seq(ReplyType),
         \A i \in DOMAIN pieces :
           pieces[i].kind = "ok" => pieces[i].of = call.name /\ (OnModel(c.cmd) => c.effect),
         \/ Len(pieces) = 1
         \/ /\ Len(pieces) = 2 /\ pieces[1].kind = "fragment" /\ pieces[2].kind = "tail"
            /\ call.name \in Large
  PROVE  /\ rp \o pieces \in Seq(ReplyType) /\ Answer(c, call, rp \o pieces)
         /\ rp = <<>> => rp \o pieces = pieces
<1>1. c.at # Len(c.calls) => rp = <<>>
  BY TailsAnswer
<1>2. rp = <<>> => rp \o pieces = pieces
  OBVIOUS
<1> DEFINE all == rp \o pieces
<1>3. /\ all \in Seq(ReplyType)
      /\ \A i \in DOMAIN all : \/ i \in DOMAIN rp /\ all[i] = rp[i]
                               \/ i - Len(rp) \in DOMAIN pieces /\ all[i] = pieces[i - Len(rp)]
  OBVIOUS
<1> HIDE DEF all
<1>4. \A i \in DOMAIN all :
        all[i].kind = "ok" => all[i].of = call.name /\ (OnModel(c.cmd) => c.effect)
  BY <1>3 DEF OnlyTails
<1>5. c.at # Len(c.calls) => all = pieces
  BY <1>1, <1>2 DEF all
<1>6. Answer(c, call, all)
  BY <1>4, <1>5 DEF Answer
<1> QED
  BY <1>2, <1>3, <1>6 DEF all

LEMMA ParseErrorTalk ==
  ASSUME TalkNow, ParseError
  PROVE  TalkNext
<1>1. Reading /\ Hangup /\ requests' = Tail(requests) /\ replies' = replies /\ ctl' = ctl
  BY DEF ParseError
<1>2. server' \in ServerType /\ server'.pc = "closed" /\ server.pc = "reading"
  BY <1>1, RequestIsCall DEF Hangup, ServerType, Reading
<1>3. Waits(ctl', server', requests', replies')
  BY <1>1, <1>2, RequestIsCall, TailsAnswer DEF Waits
<1> QED
  BY <1>1, <1>2, <1>3, RequestIsCall, ServerTalk

LEMMA ServeQueryTalk ==
  ASSUME TalkNow, ServeQuery
  PROVE  TalkNext
<1>1. /\ Reading /\ requests' = Tail(requests) /\ server' = server /\ ctl' = ctl
      /\ TheHandler \notin ModelHandlers \cup {"StreamInference"}
  BY DEF ServeQuery
<1>2. Handler(TheCall) # "none" /\ ctl.cmd # "exec" /\ ~OnModel(ctl.cmd)
  BY <1>1, RequestIsCall DEF Told, Plan, TheCall
<1>3. PICK kind \in {"ok", "error"} : Write(Reply(kind, TheCall.name, FALSE))
  BY <1>1, <1>2, RequestIsCall DEF ServeQuery
<1> DEFINE reply == Reply(kind, TheCall.name, FALSE)
<1>4. reply \in ReplyType /\ reply.of = TheCall.name /\ reply.kind = kind
  BY <1>1, RequestIsCall DEF Reply, ReplyType, CallType
<1> HIDE DEF reply
<1>5. PICK size \in {0, Limit + 1} :
        /\ replies' = replies \o Pieces(reply, size)
        /\ size # 0 => reply.of \in Large /\ reply.kind = "ok"
  BY <1>3 DEF Write, reply
<1> DEFINE pieces == Pieces(reply, size)
<1>6. /\ pieces \in Seq(ReplyType)
      /\ \A i \in DOMAIN pieces : pieces[i].kind = "ok" => pieces[i].of = TheCall.name
      /\ \/ Len(pieces) = 1
         \/ /\ Len(pieces) = 2 /\ pieces[1].kind = "fragment" /\ pieces[2].kind = "tail"
            /\ TheCall.name \in Large
  <2>1. CASE size <= Limit
    <3>1. pieces = <<reply>>
      BY <2>1 DEF Pieces
    <3> HIDE DEF pieces
    <3> QED
      BY <1>4, <3>1
  <2>2. CASE ~(size <= Limit)
    <3> DEFINE a == Fragment(reply.of)
               b == TailPiece(reply.of)
    <3>1. pieces = <<a, b>> /\ TheCall.name \in Large
      BY <1>4, <1>5, <2>2, FramingAssumption DEF Pieces
    <3>2. a \in ReplyType /\ b \in ReplyType /\ a.kind = "fragment" /\ b.kind = "tail"
      BY <1>4 DEF Fragment, TailPiece, Reply, ReplyType
    <3> HIDE DEF pieces, a, b
    <3> QED
      BY <3>1, <3>2
  <2> QED
    BY <2>1, <2>2
<1> HIDE DEF pieces
<1>7. replies' \in Seq(ReplyType) /\ Answer(ctl, TheCall, replies')
  <2>1. replies' = replies \o pieces
    BY <1>5 DEF pieces
  <2>2. replies \in Seq(ReplyType) /\ OnlyTails(ctl, replies)
    BY <1>1, RequestIsCall
  <2> QED
    BY <1>2, <1>6, <2>1, <2>2, PiecesAnswer
<1>8. server.pc = "reading" /\ requests' = <<>> /\ ctl.pc = "waiting" /\ server \in ServerType
  BY <1>1, RequestIsCall DEF Reading
<1>9. Waits(ctl', server', requests', replies')
  BY <1>1, <1>2, <1>7, <1>8 DEF Waits, TheCall
<1> QED
  BY <1>1, <1>7, <1>8, <1>9, ServerTalk

(* A handler that answers well has done what the command is for. *)
LEMMA ModelEffect ==
  ASSUME Growth, NEW h \in ModelHandlers, NEW id,
         \/ h = "RegisterModel" /\ \E stamp \in 0 .. now : RegisterModel(id, stamp)
         \/ h = "EvictModel" /\ EvictModel(id)
         \/ h = "PinModel" /\ PinModel(id)
  PROVE  CASE h = "RegisterModel" -> id \in DOMAIN models'
           [] h = "EvictModel" -> id \notin DOMAIN models'
           [] h = "PinModel" -> id \in Pinned(models')
<1>1. CASE h = "RegisterModel"
  <2>1. PICK stamp \in 0 .. now : RegisterModel(id, stamp)
    BY <1>1
  <2>2. id \in DOMAIN models'
    BY <2>1 DEF RegisterModel, Registered, Insert
  <2> QED
    BY <1>1, <2>2
<1>2. CASE h = "EvictModel"
  <2>1. id \notin DOMAIN models'
    BY <1>2 DEF EvictModel, Without
  <2> QED
    BY <1>2, <2>1
<1>3. CASE h = "PinModel"
  <2>1. id \in DOMAIN models /\ models' = [models EXCEPT ![id].placement = "PinnedTriage"]
    BY <1>3 DEF PinModel
  <2>2. models[id] \in Descriptor
    BY <2>1 DEF Growth, IsRegistry
  <2>3. id \in DOMAIN models' /\ models'[id].placement = "PinnedTriage"
    BY <2>1, <2>2 DEF Descriptor
  <2>4. id \in Pinned(models')
    BY <2>3 DEF Pinned
  <2> QED
    BY <1>3, <2>4
<1> QED
  BY <1>1, <1>2, <1>3 DEF ModelHandlers

LEMMA ServeModelTalk ==
  ASSUME TalkNow, Growth, ServeModel
  PROVE  TalkNext
<1> DEFINE id == ctl.model
           h == TheHandler
           known == h = "RegisterModel" \/ id \in DOMAIN models
           effect == Achieved(h, models')
           kind == IF known THEN "ok" ELSE "error"
           reply == Reply(kind, TheCall.name, FALSE)
<1>1. /\ Reading /\ requests' = Tail(requests) /\ server' = server /\ h \in ModelHandlers
      /\ ctl' = [ctl EXCEPT !.effect = effect]
  BY DEF ServeModel
<1>2. replies' = Append(replies, reply)
  BY <1>1, RequestIsCall DEF ServeModel
<1>3. kind = "ok" => effect
  <2>1. ASSUME known
        PROVE  \/ h = "RegisterModel" /\ \E stamp \in 0 .. now : RegisterModel(id, stamp)
               \/ h = "EvictModel" /\ EvictModel(id)
               \/ h = "PinModel" /\ PinModel(id)
    BY <2>1 DEF ServeModel
  <2>2. known => effect
    BY <1>1, <2>1, ModelEffect DEF Achieved
  <2> QED
    BY <2>2
<1>4. reply \in ReplyType /\ reply.of = TheCall.name /\ reply.kind = kind
  BY <1>1, RequestIsCall DEF Reply, ReplyType, CallType
<1> HIDE DEF reply, kind, effect, h
<1>5. /\ ctl.pc = "waiting" /\ Told(ctl) /\ server \in ServerType /\ requests' = <<>>
      /\ replies \in Seq(ReplyType) /\ OnlyTails(ctl, replies) /\ server.pc = "reading"
  BY <1>1, RequestIsCall DEF Reading
<1>6. /\ ctl'.cmd = ctl.cmd /\ ctl'.calls = ctl.calls /\ ctl'.at = ctl.at
      /\ ctl'.effect = effect
  BY <1>1, <1>5 DEF Told, Fields
<1>7. ctl.cmd # "exec"
  <2>1. Handler(TheCall) \in ModelHandlers /\ ctl.at \in DOMAIN ctl.calls
    BY <1>1, RequestIsCall DEF h
  <2> QED
    BY <1>5, <2>1 DEF Told, Plan, TheCall, ModelHandlers
<1>8. replies' \in Seq(ReplyType) /\ Answer(ctl', TheCall, replies')
  <2> DEFINE pieces == <<reply>>
  <2>1. /\ pieces \in Seq(ReplyType) /\ Len(pieces) = 1
        /\ \A i \in DOMAIN pieces : pieces[i] = reply
    BY <1>4
  <2>2. replies' = replies \o pieces
    BY <1>2, <1>4, <1>5
  <2>3. OnlyTails(ctl', replies)
    BY <1>5, <1>6 DEF OnlyTails
  <2> HIDE DEF pieces
  <2>4. \A i \in DOMAIN pieces :
          pieces[i].kind = "ok" => pieces[i].of = TheCall.name /\ ctl'.effect
    BY <1>3, <1>4, <1>6, <2>1
  <2> QED
    BY <1>5, <2>1, <2>2, <2>3, <2>4, PiecesAnswer
<1>9. Waits(ctl', server', requests', replies')
  BY <1>1, <1>5, <1>6, <1>7, <1>8 DEF Waits, TheCall
<1> QED
  BY <1>1, <1>5, <1>8, <1>9, ServerTalk

LEMMA ServeStreamTalk ==
  ASSUME TalkNow, ServeStream
  PROVE  TalkNext
<1>1. /\ Reading /\ ~Oversized /\ TheHandler = "StreamInference"
      /\ server' = [server EXCEPT !.pc = "streaming"] /\ requests' = Tail(requests)
      /\ replies' = replies /\ ctl' = ctl
  BY DEF ServeStream
<1>2. server' \in ServerType /\ server'.pc = "streaming" /\ server.pc = "reading"
  BY <1>1, RequestIsCall DEF ServerType, Reading
<1>3. RequestFrame + ctl.size <= Limit
  BY <1>1, RequestIsCall, FramingAssumption DEF Oversized, Told
<1>4. Waits(ctl', server', requests', replies')
  BY <1>1, <1>2, <1>3, RequestIsCall, TailsAnswer DEF Waits, TheCall
<1> QED
  BY <1>1, <1>2, <1>4, RequestIsCall, ServerTalk

LEMMA SendChunkTalk ==
  ASSUME TalkNow, SendChunk
  PROVE  TalkNext
<1> DEFINE i == server.sent + 1
           reply == Reply("ok", "StreamInference", Continues(i))
<1>1. /\ server.pc = "streaming" /\ requests' = requests /\ ctl' = ctl
      /\ replies' = replies \o Pieces(reply, ChunkSize(i, ctl.size))
      /\ server' = IF i < Chunks THEN [server EXCEPT !.sent = i]
                   ELSE [pc |-> "reading", sent |-> 0]
  BY DEF SendChunk
<1>2. ctl.pc = "waiting"
  BY <1>1 DEF TalkNow, Talk, Sends
<1>3. /\ Told(ctl) /\ Waits(ctl, server, requests, replies) /\ server \in ServerType
      /\ replies \in Seq(ReplyType)
  BY <1>2 DEF TalkNow, Talk, ServerType
<1>4. /\ requests = <<>> /\ Answer(ctl, TheCall, replies)
      /\ Handler(TheCall) = "StreamInference" /\ RequestFrame + ctl.size <= Limit
      /\ ctl.cmd = "exec" => \A j \in DOMAIN replies : replies[j].kind = "ok"
  BY <1>1, <1>3 DEF Waits, TheCall, CutChunk
<1>5. /\ TheCall.name = "StreamInference" /\ ctl.at = Len(ctl.calls) /\ ctl.size \in Nat
      /\ ~OnModel(ctl.cmd)
  BY <1>3, <1>4 DEF Told, Plan, TheCall, ModelHandlers
<1>6. /\ server' \in ServerType /\ server'.pc \in {"streaming", "reading"}
  BY <1>1, <1>3 DEF ServerType, Chunks
<1>7. ChunkSize(i, ctl.size) <= Limit
  BY <1>4, <1>5, FramingAssumption DEF ChunkSize
<1>8. reply \in ReplyType /\ reply.kind = "ok" /\ reply.of = "StreamInference"
  BY <1>3 DEF Reply, ReplyType, MethodNames, SystemdMethods, Continues
<1> HIDE DEF reply, i
<1>9. replies' = Append(replies, reply)
  <2>1. replies' = replies \o <<reply>>
    BY <1>1, <1>7 DEF Pieces
  <2> QED
    BY <1>3, <1>8, <2>1
<1>10. /\ replies' \in Seq(ReplyType)
       /\ \A j \in DOMAIN replies' :
            \/ replies'[j] = reply
            \/ j \in DOMAIN replies /\ replies'[j] = replies[j]
  BY <1>3, <1>8, <1>9
<1>11. Answer(ctl, TheCall, replies')
  BY <1>4, <1>5, <1>8, <1>10 DEF Answer
<1>12. Waits(ctl', server', requests', replies')
  BY <1>1, <1>4, <1>6, <1>8, <1>10, <1>11 DEF Waits, TheCall
<1> QED
  BY <1>1, <1>2, <1>6, <1>10, <1>12, ServerTalk

----------------------------------------------------------------------------
(* All steps together.                                                      *)

LEMMA ConversationInit ==
  ASSUME CtlInit
  PROVE  Conversation
<1>1. /\ ctl = Idle /\ Idle.pc = "idle" /\ server = NoTask /\ requests = <<>> /\ replies = <<>>
  BY DEF CtlInit, Idle
<1>2. server \in ServerType /\ server.pc = "none" /\ replies \in Seq(ReplyType)
  BY <1>1 DEF NoTask, ServerType, Chunks
<1> QED
  BY <1>1, <1>2 DEF CtlInit, Conversation, Talk, ServerType

LEMMA ConversationStep ==
  ASSUME Conversation, Growth, [CtlNext]_ctlVars
  PROVE  Conversation'
<1>0. TalkNow
  BY DEF Conversation, TalkNow
<1>1. TalkNext
  <2>1. CASE UNCHANGED ctlVars
    BY <1>0, <2>1 DEF ctlVars, wireVars, TalkNow, TalkNext
  <2>2. ASSUME NEW model \in ModelIds, NEW cmd \in Commands, NEW size \in Prompts \cup {0},
               Start(cmd, size, model)
        PROVE  TalkNext
    <3>1. size \in Nat /\ Begin(cmd, Script(cmd), size, model)
      BY <2>2, PromptsAssumption DEF Start
    <3> QED
      BY <1>0, <3>1, ScriptPlan, BeginTalk
  <2>3. ASSUME NEW model \in ModelIds, NEW calls \in Probes, Probe(calls, model)
        PROVE  TalkNext
    <3>1. Begin("probe", calls, 0, model)
      BY <2>3 DEF Probe
    <3> QED
      BY <1>0, <3>1, ProbePlan, BeginTalk
  <2>4. CASE Client
    BY <1>0, <2>4, SendRequestTalk, SendFailsTalk, TakeReplyTalk, TakeChunkTalk, EndOfFileTalk
       DEF Client
  <2>5. CASE Again
    BY <1>0, <2>5, AgainTalk
  <2>6. CASE Accept \/ AcceptFails \/ DaemonStarts \/ Others
    <3>1. /\ UNCHANGED <<requests, replies, ctl>>
          /\ \/ server' = server
             \/ server.pc = "queued" /\ server' = [server EXCEPT !.pc = "reading"]
             \/ server.pc # "none" /\ Hangup
      BY <2>6 DEF Accept, AcceptFails, DaemonStarts, Others, wireVars
    <3> QED
      BY <1>0, <3>1, ConnectionTalk
  <2>8. CASE DaemonDies
    <3>1. CASE server.pc \in {"reading", "streaming"}
      BY <1>0, <2>8, <3>1, DeathTalk DEF DaemonDies
    <3>2. CASE server.pc \notin {"reading", "streaming"}
      <4>1. /\ UNCHANGED <<requests, replies, ctl>>
            /\ server' = server \/ (server.pc # "none" /\ Hangup)
        BY <2>8, <3>2 DEF DaemonDies
      <4> QED
        BY <1>0, <4>1, ConnectionTalk
    <3> QED
      BY <3>1, <3>2
  <2>7. CASE Server
    BY <1>0, <2>7, ParseErrorTalk, ServeQueryTalk, ServeModelTalk, ServeStreamTalk,
       SendChunkTalk DEF Server
  <2> QED
    BY <2>1, <2>2, <2>3, <2>4, <2>5, <2>6, <2>7, <2>8 DEF CtlNext
<1>2. activated' = activated /\ listener' \in {"on", "dead", "off"}
  <2>1. CASE Client \/ Server \/ Again \/ Accept \/ Others \/ UNCHANGED ctlVars
    BY <2>1 DEF Conversation, Client, SendRequest, SendFails, TakeReply, TakeChunk, EndOfFile,
       Server, ParseError, ServeQuery, ServeModel, ServeStream, SendChunk, Again, Accept,
       Others, wireVars, ctlVars
  <2>2. CASE AcceptFails \/ DaemonDies \/ DaemonStarts
    BY <2>2 DEF AcceptFails, DaemonDies, DaemonStarts
  <2>3. ASSUME NEW cmd, NEW calls, NEW size, NEW model, Begin(cmd, calls, size, model)
        PROVE  UNCHANGED <<activated, listener>>
    BY <2>3 DEF Begin
  <2> QED
    BY <2>1, <2>2, <2>3 DEF CtlNext, Start, Probe, Conversation
<1> QED
  BY <1>1, <1>2 DEF Conversation, TalkNext

LEMMA ConversationHolds == CtlSpec => [](Growth /\ Conversation)
<1>1. CtlInit => Growth /\ Conversation
  BY GrowthInit, ConversationInit
<1>2. Growth /\ Conversation /\ [CtlNext]_ctlVars => (Growth /\ Conversation)'
  BY GrowthStep, ConversationStep
<1> QED
  BY <1>1, <1>2, PTL DEF CtlSpec

(* CtlTypeOK for any prompts, limits and models: a stream never sends a fifth      *)
(* chunk, and no command is asked for a call that it does not have.               *)
THEOREM CtlTypeCorrect == CtlSpec => []CtlTypeOK
<1>1. Conversation => CtlTypeOK
  <2> SUFFICES ASSUME Conversation PROVE CtlTypeOK
    OBVIOUS
  <2>1. Talk(ctl, server, requests, replies)
    BY DEF Conversation
  <2>2. Idle.exit = "none" /\ (ctl.pc = "idle" => ctl = Idle)
    BY <2>1 DEF Talk, Idle
  <2>3. ctl.exit \in {"none", "ok", "failed"}
    BY <2>1, <2>2 DEF Talk, Truthful
  <2>4. ctl.pc # "idle" => ctl.at \in DOMAIN ctl.calls
    BY <2>1 DEF Talk, Told
  <2> QED
    BY <2>1, <2>3, <2>4 DEF Conversation, Talk, ServerType, CtlTypeOK
<1> QED
  BY <1>1, ConversationHolds, PTL

(* AnswersMatch for any limit and any sizes of replies: whatever pieces a reply    *)
(* comes in and whenever the daemon dies, no reply is taken for another's answer.  *)
THEOREM AnswersAlwaysMatch == CtlSpec => []AnswersMatch
<1>1. Conversation => AnswersMatch
  <2> SUFFICES ASSUME Conversation PROVE AnswersMatch
    OBVIOUS
  <2>1. Talk(ctl, server, requests, replies)
    BY DEF Conversation
  <2>2. CASE ctl.pc = "idle"
    <3>1. ctl.taken = <<>>
      BY <2>1, <2>2 DEF Talk, Idle
    <3> QED
      BY <3>1 DEF AnswersMatch
  <2>3. CASE ctl.pc # "idle"
    BY <2>1, <2>3 DEF Talk, Told, AnswersMatch
  <2> QED
    BY <2>2, <2>3
<1> QED
  BY <1>1, ConversationHolds, PTL

(* DescribedIsServed: no client that calls what a description lists, and no        *)
(* command of inferenctl, is ever told that the method does not exist.            *)
THEOREM DescribedAlwaysServed == CtlSpec => []DescribedIsServed
<1>1. Conversation => DescribedIsServed
  <2> SUFFICES ASSUME Conversation, NEW i \in DOMAIN replies
               PROVE  replies[i].kind # "unknown"
    BY DEF DescribedIsServed
  <2>1. replies[i] \in ReplyType
    BY DEF Conversation, Talk
  <2> QED
    BY <2>1 DEF ReplyType
<1> QED
  BY <1>1, ConversationHolds, PTL

(* A command that ends, goes on or is left alone keeps what it worked on. *)
LEMMA LocalKept ==
  ASSUME Told(ctl), NEW c, c \in {ctl, [ctl EXCEPT !.printed = ctl.printed + 1]},
         \/ ctl' = c
         \/ ctl' = [c EXCEPT !.pc = "waiting"]
         \/ \E b : ctl' = [c EXCEPT !.effect = b]
         \/ \E how : Exit(c, how)
  PROVE  ctl'.local = ctl.local
<1>1. DOMAIN c = Fields /\ c.local = ctl.local
  BY DEF Told, Fields
<1> QED
  BY <1>1 DEF Exit, Fields

(* The steps by which exec turns to its own text. *)
LEMMA OneAnswerStep ==
  ASSUME Conversation, [CtlNext]_ctlVars, ctl.cmd = "exec", ctl.printed > 0,
         ~ctl.local, ctl'.local
  PROVE  Closed /\ replies = <<Fragment("StreamInference")>>
<1>1. TalkNow
  BY DEF Conversation, TalkNow
<1>2. ctl.pc # "idle" /\ Told(ctl)
  BY <1>1 DEF TalkNow, Talk, Idle
<1>3. ASSUME NEW cmd, NEW calls, NEW size, NEW model, Begin(cmd, calls, size, model)
      PROVE  FALSE
  BY <1>2, <1>3 DEF Begin
<1>4. CASE UNCHANGED ctl
  BY <1>4
<1>5. CASE SendRequest
  BY <1>2, <1>5, LocalKept DEF SendRequest
<1>6. CASE SendFails
  <2>1. Sends(ctl, server, requests, replies)
    BY <1>1, <1>6 DEF TalkNow, Talk, SendFails
  <2> QED
    BY <2>1 DEF Sends
<1>7. CASE TakeReply
  BY <1>7 DEF TakeReply
<1>8. CASE TakeChunk
  <2>1. /\ Waits(ctl, server, requests, replies) /\ replies \in Seq(ReplyType)
        /\ replies # <<>>
    BY <1>1, <1>8 DEF TalkNow, Talk, TakeChunk
  <2>2. Head(replies).kind # "ok"
    BY <1>2, <1>8, LocalKept DEF TakeChunk
  <2>3. 1 \in DOMAIN replies /\ Head(replies) = replies[1]
    BY <2>1, FirstReply
  <2>4. CutChunk(server, replies, 1)
    BY <2>1, <2>2, <2>3 DEF Waits
  <2>5. Len(replies) = 1 /\ replies[1] = Fragment("StreamInference") /\ server.pc = "closed"
    BY <2>4 DEF CutChunk
  <2> DEFINE f == Fragment("StreamInference")
  <2> HIDE DEF f
  <2>6. replies = <<f>>
    BY <2>1, <2>5 DEF f
  <2> QED
    BY <2>5, <2>6 DEF Closed, f
<1>9. CASE EndOfFile
  <2>1. Waits(ctl, server, requests, replies)
    BY <1>1, <1>9 DEF TalkNow, Talk, EndOfFile
  <2>2. requests # <<>> \/ Oversized
    BY <1>2, <1>9, LocalKept DEF EndOfFile
  <2>3. CASE requests # <<>>
    BY <2>1, <2>3 DEF Waits
  <2>4. CASE Oversized
    <3>1. ~(RequestFrame + ctl.size <= Limit)
      BY <1>2, <2>4, FramingAssumption DEF Oversized, Told
    <3> QED
      BY <2>1, <3>1 DEF Waits
  <2> QED
    BY <2>2, <2>3, <2>4
<1>10. CASE Again
  BY <1>10 DEF Again, Idle
<1>11. CASE ServeModel
  BY <1>2, <1>11, LocalKept DEF ServeModel
<1> QED
  BY <1>3, <1>4, <1>5, <1>6, <1>7, <1>8, <1>9, <1>10, <1>11
     DEF CtlNext, ctlVars, wireVars, Start, Probe, Client, Server, Accept, AcceptFails,
         ParseError, ServeQuery, ServeStream, SendChunk, DaemonDies, DaemonStarts, Others

(* OneAnswer for any prompt and any limit that exceeds the frames: exec turns to    *)
(* its own text after printing some of the daemon's only if the daemon died in      *)
(* the middle of a chunk.                                                          *)
THEOREM OneAnswerOnly == CtlSpec => OneAnswer
<1>1. Conversation /\ [CtlNext]_ctlVars
        => [ctl.cmd = "exec" /\ ctl.printed > 0 /\ ~ctl.local /\ ctl'.local
              => Closed /\ replies = <<Fragment("StreamInference")>>]_ctlVars
  BY OneAnswerStep
<1> QED
  BY <1>1, ConversationHolds, PTL DEF CtlSpec, OneAnswer

(* ReportedIsDone for any models and other clients: register, pin and evict        *)
(* report success of a daemon's answer only if the registry had taken the change.  *)
THEOREM ReportedAlwaysDone == CtlSpec => []ReportedIsDone
<1>1. Conversation => ReportedIsDone
  <2> SUFFICES ASSUME Conversation, OnModel(ctl.cmd), ctl.exit = "ok", ~ctl.local
               PROVE  ctl.effect
    BY DEF ReportedIsDone
  <2>1. Talk(ctl, server, requests, replies)
    BY DEF Conversation
  <2>2. ctl.pc = "over"
    BY <2>1 DEF Talk, Idle
  <2> QED
    BY <2>1, <2>2 DEF Talk, Truthful
<1> QED
  BY <1>1, ConversationHolds, PTL

=============================================================================
