---------------------------- MODULE PreemptProofs ---------------------------
(***************************************************************************)
(* The preemption coordinator's records, for any number of callers, leases *)
(* and units.  A call works on a snapshot of its lease while everybody     *)
(* else uses the arbiter; the invariant says what of the snapshot stays    *)
(* true: the lease was issued, and if it is still in the map it has the    *)
(* client the snapshot says.                                               *)
(***************************************************************************)
EXTENDS PreemptCoordinator, ArbiterProofs

Calls == [pc : Places, lease : LeaseIds \cup {NoLease},
          unit : Units \cup {NoUnit}, froze : BOOLEAN]

\* The places of a preemption, and those at which its record waits for it.
Waiting == {"polling", "noting", "freezing", "stopping", "marking", "closing"}
Preempting == {"yielding", "recording"} \cup Waiting

\* What the snapshot of a preemption is good for, and what "froze" has seen so far.
Snapshot(r, ls, known) ==
  r.pc \in Preempting =>
    /\ r.lease \in known
    /\ r.lease \in DOMAIN ls => ls[r.lease].unit = r.unit
    /\ r.pc = "stopping" /\ ~r.froze => r.unit \notin Freezable
    /\ r.pc \in {"marking", "closing"} /\ ~r.froze => r.unit \notin Freezable \cup Signalable

CoordInv ==
  /\ TypeOK /\ Finite /\ CoordTypeOK
  /\ DOMAIN records \subseteq issued
  /\ \A c \in Callers : Snapshot(call[c], leases, issued)
  /\ IncompleteIsExplained

\* What a step of the arbiter leaves of the leases that were issued before it.
ClientsKept ==
  /\ TypeOK' /\ Finite' /\ issued \subseteq issued'
  /\ \A l \in DOMAIN leases' \cap issued :
       l \in DOMAIN leases /\ leases'[l].unit = leases[l].unit

(* No operation of the arbiter changes the client of a lease, or brings back one that
   was dropped. *)
LEMMA ArbiterKeepsClients ==
  ASSUME TypeOK, Finite, [Next]_vars
  PROVE  ClientsKept
<1>1. TypeOK' /\ Finite'
  BY TypeStep, FiniteStep
<1>2. CASE /\ issued' = issued /\ DOMAIN leases' = DOMAIN leases
           /\ \A l \in DOMAIN leases : leases'[l].unit = leases[l].unit
  BY <1>1, <1>2 DEF ClientsKept
<1>3. ASSUME NEW psi, NEW prio, NEW bytes, NEW pref,
             AcquireExhausted(psi, prio, bytes, pref)
      PROVE  ClientsKept
  BY <1>2, <1>3 DEF AcquireExhausted, MarkPreempted, TypeOK, ComputeLease
<1>4. ASSUME NEW psi, NEW prio \in Priorities, NEW bytes \in Sizes, NEW pref,
             NEW unit \in Units \cup {NoUnit},
             AcquireGranted(psi, prio, bytes, pref, unit)
      PROVE  ClientsKept
  <2>1. PICK p \in DOMAIN topology : \E V \in Victims(p, prio, bytes),
               id \in LeaseIds \ issued : GrantEffect(p, V, id, prio, bytes)
    BY <1>4, GrantedStep
  <2>2. PICK V \in Victims(p, prio, bytes), id \in LeaseIds \ issued :
               GrantEffect(p, V, id, prio, bytes)
    BY <2>1
  <2>3. \A l \in DOMAIN leases : MarkPreempted(V)[l].unit = leases[l].unit
    BY DEF MarkPreempted, TypeOK, ComputeLease
  <2> QED
    BY <1>1, <2>2, <2>3 DEF GrantEffect, ClientsKept
<1>5. ASSUME NEW id \in DOMAIN leases, NEW s, SetState(id, s), issued' = issued
      PROVE  ClientsKept
  BY <1>2, <1>5 DEF SetState, TypeOK, ComputeLease
<1>6. CASE Manage
  BY <1>5, <1>6 DEF Manage, ReleaseLease, RevokeLease, YieldLease, FreezeLease,
                    ThawPreempted, ThawSuspended
<1>7. ASSUME NEW h \in Hosts, UpdateTopology(h)
      PROVE  ClientsKept
  BY <1>2, <1>7 DEF UpdateTopology, TypeOK, ComputeLease
<1>8. CASE AcquireRejected \/ UNCHANGED vars
  BY <1>2, <1>8 DEF AcquireRejected, vars
<1> QED
  BY <1>3, <1>4, <1>6, <1>7, <1>8 DEF Next, Acquire

(* The kernel's side of a freeze is no business of the leases. *)
LEMMA KernelKeepsClients ==
  ASSUME TypeOK, Finite, UNCHANGED <<topology, leases, issued>>, frozen' \subseteq Freezable
  PROVE  ClientsKept
BY DEF TypeOK, Finite, ClientsKept

(* Snapshots outlive what others do to the lease. *)
LEMMA SnapshotKept ==
  ASSUME ClientsKept, NEW r, Snapshot(r, leases, issued)
  PROVE  Snapshot(r, leases', issued')
BY DEF ClientsKept, Snapshot

(* What is left to show of a step of call c that takes it to r: that the new snapshot is
   good, and that the incomplete records are explained: by r, by the lease's being gone,
   by a client that cannot be stopped, or as before. *)
LEMMA CallKeeps ==
  ASSUME CoordInv, ClientsKept, NEW c \in Callers, NEW r \in Calls,
         call' = [call EXCEPT ![c] = r], Snapshot(r, leases', issued'),
         records' \in [DOMAIN records' -> [tier : Tiers, completed : BOOLEAN]],
         DOMAIN records' \subseteq issued', stopped' \subseteq Signalable,
         \A id \in DOMAIN records' :
           \/ records'[id].completed
           \/ r.lease = id /\ r.pc \in Waiting
           \/ id \notin DOMAIN leases'
           \/ /\ records'[id].tier = "Tier2ForcedFreeze"
              /\ leases'[id].unit \notin Freezable \cup Signalable
           \/ id \in DOMAIN records /\ records'[id] = records[id] /\ c \notin Pending(id)
  PROVE  CoordInv'
<1>1. TypeOK' /\ Finite' /\ DOMAIN records' \subseteq issued'
  BY DEF ClientsKept
<1>2. CoordTypeOK'
  <2>1. call' \in [Callers -> Calls]
    BY DEF CoordInv, CoordTypeOK, Calls
  <2>2. DOMAIN records' \subseteq LeaseIds
    BY <1>1 DEF TypeOK
  <2> QED
    BY <2>1, <2>2 DEF CoordTypeOK, Calls
<1>3. \A d \in Callers : call'[d] = IF d = c THEN r ELSE call[d]
  BY DEF CoordInv, CoordTypeOK
<1>4. \A d \in Callers : Snapshot(call'[d], leases', issued')
  BY <1>3, SnapshotKept DEF CoordInv
<1>5. ASSUME NEW id \in DOMAIN records'
      PROVE  \/ records'[id].completed
             \/ Pending(id)' # {}
             \/ id \notin DOMAIN leases'
             \/ /\ records'[id].tier = "Tier2ForcedFreeze"
                /\ leases'[id].unit \notin Freezable \cup Signalable
  <2>1. CASE r.lease = id /\ r.pc \in Waiting
    <3>1. c \in Pending(id)'
      BY <1>3, <2>1 DEF Pending, Waiting
    <3> QED
      BY <3>1
  <2>2. CASE id \in DOMAIN records /\ records'[id] = records[id] /\ c \notin Pending(id)
    <3>1. id \in issued
      BY <2>2 DEF CoordInv
    <3>2. \A d \in Pending(id) : d \in Pending(id)'
      BY <1>3, <2>2 DEF Pending
    <3>3. \/ records[id].completed
          \/ Pending(id) # {}
          \/ id \notin DOMAIN leases
          \/ /\ records[id].tier = "Tier2ForcedFreeze"
             /\ leases[id].unit \notin Freezable \cup Signalable
      BY <2>2 DEF CoordInv, IncompleteIsExplained
    <3>4. id \in DOMAIN leases' => id \in DOMAIN leases /\ leases'[id].unit = leases[id].unit
      BY <3>1 DEF ClientsKept
    <3> QED
      BY <2>2, <3>2, <3>3, <3>4, Zenon
  <2> QED
    BY <2>1, <2>2
<1>6. IncompleteIsExplained'
  BY <1>5, Zenon DEF IncompleteIsExplained
<1> QED
  BY <1>1, <1>2, <1>4, <1>6 DEF CoordInv

(* Steps that keep the records and leave every lease to its waiting calls. *)
LEMMA RecordsKept ==
  ASSUME CoordInv, ClientsKept, NEW c \in Callers, NEW r \in Calls,
         call' = [call EXCEPT ![c] = r], Snapshot(r, leases', issued'), records' = records,
         stopped' \subseteq Signalable,
         call[c].pc \in Waiting =>
           (r.lease = call[c].lease /\ r.pc \in Waiting) \/ call[c].lease \notin DOMAIN leases'
  PROVE  CoordInv'
<1>1. ASSUME NEW id \in DOMAIN records
      PROVE  \/ r.lease = id /\ r.pc \in Waiting
             \/ id \notin DOMAIN leases'
             \/ c \notin Pending(id)
  BY DEF Pending, Waiting
<1>2. /\ records' \in [DOMAIN records' -> [tier : Tiers, completed : BOOLEAN]]
      /\ DOMAIN records' \subseteq issued'
  BY DEF CoordInv, CoordTypeOK, ClientsKept
<1>3. \A id \in DOMAIN records' :
        \/ records'[id].completed
        \/ r.lease = id /\ r.pc \in Waiting
        \/ id \notin DOMAIN leases'
        \/ /\ records'[id].tier = "Tier2ForcedFreeze"
           /\ leases'[id].unit \notin Freezable \cup Signalable
        \/ id \in DOMAIN records /\ records'[id] = records[id] /\ c \notin Pending(id)
  BY <1>1, Zenon
<1> QED
  BY <1>2, <1>3, CallKeeps

(* The arbiter's own steps. *)
LEMMA OthersKeep ==
  ASSUME CoordInv, ClientsKept, UNCHANGED <<call, records, stopped>>
  PROVE  CoordInv'
<1>1. TypeOK' /\ Finite' /\ DOMAIN records' \subseteq issued' /\ CoordTypeOK'
  BY DEF ClientsKept, CoordInv, CoordTypeOK
<1>2. \A d \in Callers : Snapshot(call'[d], leases', issued')
  BY SnapshotKept DEF CoordInv
<1>3. IncompleteIsExplained'
  <2> SUFFICES ASSUME NEW id \in DOMAIN records, ~records[id].completed
               PROVE  \/ Pending(id) # {}
                      \/ id \notin DOMAIN leases'
                      \/ /\ records[id].tier = "Tier2ForcedFreeze"
                         /\ leases'[id].unit \notin Freezable \cup Signalable
    BY DEF IncompleteIsExplained, Pending
  <2> QED
    BY Zenon DEF CoordInv, IncompleteIsExplained, ClientsKept
<1> QED
  BY <1>1, <1>2, <1>3 DEF CoordInv

----------------------------------------------------------------------------
(* The steps of a call.                                                     *)

(* Going on to the next place keeps the snapshot. *)
LEMMA GotoMoves ==
  ASSUME CoordTypeOK, NEW c \in Callers, NEW pc \in Places, Goto(c, pc)
  PROVE  \E r \in Calls : /\ call' = [call EXCEPT ![c] = r]
                          /\ r.pc = pc /\ r.lease = call[c].lease
                          /\ r.unit = call[c].unit /\ r.froze = call[c].froze
<1> DEFINE r == [call[c] EXCEPT !.pc = pc]
<1>1. call \in [Callers -> Calls] /\ call[c] \in Calls
  BY DEF CoordTypeOK, Calls
<1>2. /\ r \in Calls /\ r.pc = pc /\ r.lease = call[c].lease
      /\ r.unit = call[c].unit /\ r.froze = call[c].froze
  BY <1>1 DEF Calls
<1>3. call' = [call EXCEPT ![c] = r]
  BY <1>1 DEF Goto
<1> QED
  BY <1>2, <1>3

(* So does returning, which forgets it. *)
LEMMA IdleCall == Idle \in Calls /\ \A ls, known : Snapshot(Idle, ls, known)
BY DEF Idle, Calls, Places, Snapshot, Preempting, Waiting

(* A call that begins. *)
LEMMA EnterKeeps ==
  ASSUME CoordInv, NEW c \in Callers, NEW id \in LeaseIds,
         Preempt(c, id) \/ Thaw(c, id) \/ Revoke(c, id)
  PROVE  CoordInv'
<1>1. ClientsKept
  BY ArbiterKeepsClients DEF CoordInv, Preempt, Thaw, Revoke, Enter
<1>2. /\ call[c].pc = "idle" /\ UNCHANGED <<vars, records, stopped>>
      /\ stopped' \subseteq Signalable
  BY DEF Preempt, Thaw, Revoke, Enter, At, CoordInv, CoordTypeOK
<1>3. \E r \in Calls : call' = [call EXCEPT ![c] = r] /\ Snapshot(r, leases', issued')
  <2>1. ASSUME NEW pc \in {"yielding", "thawing"}, Enter(c, id, pc)
        PROVE  \E r \in Calls : call' = [call EXCEPT ![c] = r]
                                /\ Snapshot(r, leases', issued')
    <3> DEFINE r == [pc |-> pc, lease |-> id, unit |-> leases[id].unit, froze |-> FALSE]
    <3>1. id \in DOMAIN leases /\ call' = [call EXCEPT ![c] = r]
      BY <2>1 DEF Enter
    <3>2. leases[id].unit \in Units \cup {NoUnit} /\ id \in issued
      BY <3>1 DEF CoordInv, TypeOK, ComputeLease
    <3>3. r \in Calls
      BY <3>2 DEF Calls, Places
    <3>4. leases' = leases /\ issued' = issued
      BY <1>2 DEF vars
    <3>5. Snapshot(r, leases', issued')
      BY <3>2, <3>4 DEF Snapshot, Preempting, Waiting
    <3> QED
      BY <3>1, <3>3, <3>5
  <2>2. ASSUME Revoke(c, id)
        PROVE  \E r \in Calls : call' = [call EXCEPT ![c] = r]
                                /\ Snapshot(r, leases', issued')
    <3> DEFINE r == [Idle EXCEPT !.pc = "revoking", !.lease = id]
    <3>1. r \in Calls /\ r.pc = "revoking"
      BY DEF Idle, Calls, Places
    <3>2. call' = [call EXCEPT ![c] = r]
      BY <2>2 DEF Revoke
    <3> HIDE DEF r
    <3>3. Snapshot(r, leases', issued')
      BY <3>1 DEF Snapshot, Preempting, Waiting
    <3> QED
      BY <3>1, <3>2, <3>3
  <2> QED
    BY <2>1, <2>2 DEF Preempt, Thaw
<1>4. PICK r \in Calls : call' = [call EXCEPT ![c] = r] /\ Snapshot(r, leases', issued')
  BY <1>3
<1> QED
  BY <1>1, <1>2, <1>4, RecordsKept DEF Waiting

(* What asking the arbiter comes to: a step of the arbiter, and the call goes on, or ends
   because the lease is gone. *)
LEMMA AskMoves ==
  ASSUME NEW c \in Callers,
         YieldIt(c) \/ MarkFrozen(c) \/ ResumeLease(c) \/ RevokeIt(c)
  PROVE  /\ [Next]_vars /\ UNCHANGED <<records, stopped>>
         /\ \/ Return(c) /\ leases' = leases /\ call[c].lease \notin DOMAIN leases
            \/ Return(c) /\ At(c, "resuming")
            \/ At(c, "yielding") /\ Goto(c, "recording")
            \/ At(c, "marking") /\ Goto(c, "closing")
            \/ At(c, "revoking") /\ Goto(c, "crossing")
<1> DEFINE id == call[c].lease
<1>1. CASE id \notin DOMAIN leases
  BY <1>1 DEF YieldIt, MarkFrozen, ResumeLease, RevokeIt, Ask, vars
<1>2. CASE id \in DOMAIN leases
  <2>1. ASSUME \/ YieldLease(id) \/ FreezeLease(id) \/ ThawLease(id) \/ RevokeLease(id)
               \/ UNCHANGED vars
        PROVE  [Next]_vars
    BY <1>2, <2>1 DEF ThawLease, Manage, Next
  <2>2. CASE YieldIt(c)
    BY <1>2, <2>1, <2>2 DEF YieldIt, Ask
  <2>3. CASE MarkFrozen(c)
    BY <1>2, <2>1, <2>3 DEF MarkFrozen, Ask
  <2>4. CASE ResumeLease(c)
    BY <1>2, <2>1, <2>4 DEF ResumeLease, Ask
  <2>5. CASE RevokeIt(c)
    BY <1>2, <2>1, <2>5 DEF RevokeIt, Ask
  <2> QED
    BY <2>2, <2>3, <2>4, <2>5
<1> QED
  BY <1>1, <1>2

(* The steps that ask the arbiter. *)
LEMMA AskKeeps ==
  ASSUME CoordInv, NEW c \in Callers,
         YieldIt(c) \/ MarkFrozen(c) \/ ResumeLease(c) \/ RevokeIt(c)
  PROVE  CoordInv'
<1>1. ClientsKept
  BY AskMoves, ArbiterKeepsClients DEF CoordInv
<1>2. records' = records /\ stopped' \subseteq Signalable /\ CoordTypeOK
  BY AskMoves DEF CoordInv, CoordTypeOK
<1>3. Snapshot(call[c], leases', issued')
  BY <1>1, SnapshotKept DEF CoordInv
<1>4. CASE /\ Return(c)
           /\ \/ leases' = leases /\ call[c].lease \notin DOMAIN leases
              \/ At(c, "resuming")
  BY <1>1, <1>2, <1>4, IdleCall, RecordsKept DEF Return, At, Waiting
<1>5. ASSUME NEW pc \in Places, Goto(c, pc), pc \in {"recording", "closing", "crossing"},
             call[c].pc \in Waiting => pc \in Waiting,
             pc = "recording" => At(c, "yielding"), pc = "closing" => At(c, "marking")
      PROVE  CoordInv'
  <2>1. PICK r \in Calls : /\ call' = [call EXCEPT ![c] = r]
                           /\ r.pc = pc /\ r.lease = call[c].lease
                           /\ r.unit = call[c].unit /\ r.froze = call[c].froze
    BY <1>2, <1>5, GotoMoves
  <2>2. Snapshot(r, leases', issued')
    BY <1>3, <1>5, <2>1 DEF Snapshot, Preempting, Waiting, At
  <2> QED
    BY <1>1, <1>2, <1>5, <2>1, <2>2, RecordsKept
<1>6. \/ /\ Return(c)
         /\ \/ leases' = leases /\ call[c].lease \notin DOMAIN leases
            \/ At(c, "resuming")
      \/ At(c, "yielding") /\ Goto(c, "recording")
      \/ At(c, "marking") /\ Goto(c, "closing")
      \/ At(c, "revoking") /\ Goto(c, "crossing")
  BY AskMoves
<1> QED
  BY <1>4, <1>5, <1>6 DEF At, Waiting, Places

(* The steps that write no record: polls, and the writes to the kernel. *)
LEMMA QuietKeeps ==
  ASSUME CoordInv, NEW c \in Callers,
         \/ SeesYield(c) \/ Deadline(c) \/ FreezeCgroup(c) \/ StopProcess(c)
         \/ ThawCgroup(c) \/ ContinueProcess(c)
  PROVE  CoordInv'
<1>0. TypeOK /\ Finite /\ CoordTypeOK /\ call[c] \in Calls /\ call \in [Callers -> Calls]
  BY DEF CoordInv, CoordTypeOK, Calls
<1>1. ClientsKept
  <2>1. CASE UNCHANGED vars
    BY <1>0, <2>1, ArbiterKeepsClients
  <2>2. CASE FreezeCgroup(c) \/ ThawCgroup(c)
    <3>1. UNCHANGED <<topology, leases, issued>> /\ frozen' \subseteq Freezable
      BY <1>0, <2>2 DEF FreezeCgroup, ThawCgroup, WriteFreeze, TypeOK
    <3> QED
      BY <1>0, <3>1, KernelKeepsClients
  <2> QED
    BY <2>1, <2>2 DEF SeesYield, Deadline, StopProcess, ContinueProcess
<1>2. records' = records /\ stopped' \subseteq Signalable
  BY <1>0 DEF CoordTypeOK, SeesYield, Deadline, FreezeCgroup, StopProcess, ThawCgroup,
              ContinueProcess, SignalProcess
<1>3. Snapshot(call[c], leases', issued')
  BY <1>1, SnapshotKept DEF CoordInv
<1>4. ASSUME NEW r \in Calls, call' = [call EXCEPT ![c] = r],
             r.lease = call[c].lease, r.unit = call[c].unit,
             \/ call[c].pc = "polling" /\ r.pc \in {"noting", "freezing"}
             \/ /\ call[c].pc = "freezing" /\ r.pc = "stopping"
                /\ r.froze = (r.unit \in Freezable)
             \/ /\ call[c].pc = "stopping" /\ r.pc = "marking"
                /\ r.froze = (call[c].froze \/ r.unit \in Signalable)
             \/ call[c].pc = "thawing" /\ r.pc = "continuing"
             \/ call[c].pc = "continuing" /\ r.pc = "resuming"
      PROVE  CoordInv'
  <2>1. Snapshot(r, leases', issued')
    BY <1>3, <1>4, Zenon DEF Snapshot, Preempting, Waiting
  <2>2. call[c].pc \in Waiting => r.lease = call[c].lease /\ r.pc \in Waiting
    BY <1>4 DEF Waiting
  <2> QED
    BY <1>1, <1>2, <1>4, <2>1, <2>2, RecordsKept
<1>5. ASSUME NEW pc \in Places, Goto(c, pc),
             \/ call[c].pc = "polling" /\ pc \in {"noting", "freezing"}
             \/ call[c].pc = "thawing" /\ pc = "continuing"
             \/ call[c].pc = "continuing" /\ pc = "resuming"
      PROVE  CoordInv'
  BY <1>0, <1>4, <1>5, GotoMoves
<1>6. CASE FreezeCgroup(c)
  <2> DEFINE f == call[c].unit \in Freezable
             r == [call[c] EXCEPT !.pc = "stopping", !.froze = f]
  <2>0. f \in BOOLEAN
    OBVIOUS
  <2>1. call[c].pc = "freezing" /\ call' = [call EXCEPT ![c] = r]
    BY <1>0, <1>6 DEF FreezeCgroup, At
  <2>2. /\ r \in Calls /\ r.lease = call[c].lease /\ r.unit = call[c].unit
        /\ r.pc = "stopping" /\ r.froze = f
    <3> HIDE DEF f
    <3> QED
      BY <1>0, <2>0, Zenon DEF Calls, Places
  <2> HIDE DEF r
  <2> QED
    BY <1>4, <2>1, <2>2, Zenon
<1>7. CASE StopProcess(c)
  <2> DEFINE f == call[c].froze \/ call[c].unit \in Signalable
             r == [call[c] EXCEPT !.pc = "marking", !.froze = f]
  <2>0. f \in BOOLEAN
    OBVIOUS
  <2>1. call[c].pc = "stopping" /\ call' = [call EXCEPT ![c] = r]
    BY <1>0, <1>7 DEF StopProcess, At
  <2>2. /\ r \in Calls /\ r.lease = call[c].lease /\ r.unit = call[c].unit
        /\ r.pc = "marking" /\ r.froze = f
    <3> HIDE DEF f
    <3> QED
      BY <1>0, <2>0, Zenon DEF Calls, Places
  <2> HIDE DEF r
  <2> QED
    BY <1>4, <2>1, <2>2, Zenon
<1> QED
  BY <1>5, <1>6, <1>7 DEF SeesYield, Deadline, ThawCgroup, ContinueProcess, At, Places

(* The step that opens the record, and the trimming that goes with it. *)
LEMMA RecordKeeps ==
  ASSUME CoordInv, NEW c \in Callers, Record(c)
  PROVE  CoordInv'
<1> DEFINE id == call[c].lease
<1>0. TypeOK /\ Finite /\ CoordTypeOK
  BY DEF CoordInv
<1>1. /\ call[c].pc = "recording" /\ UNCHANGED <<vars, stopped>> /\ Goto(c, "polling")
  BY DEF Record, At
<1>2. ClientsKept
  BY <1>0, <1>1, ArbiterKeepsClients
<1>3. Snapshot(call[c], leases', issued')
  BY <1>2, SnapshotKept DEF CoordInv
<1>4. PICK r \in Calls : /\ call' = [call EXCEPT ![c] = r]
                         /\ r.pc = "polling" /\ r.lease = id /\ r.unit = call[c].unit
  BY <1>0, <1>1, GotoMoves DEF Places
<1>5. Snapshot(r, leases', issued')
  BY <1>1, <1>3, <1>4 DEF Snapshot, Preempting, Waiting
<1>6. id \in issued'
  BY <1>1, <1>3 DEF Snapshot, Preempting
<1>7. PICK kept \in SUBSET DOMAIN records :
        records' = [x \in kept \cup {id} |->
                      IF x = id THEN [tier |-> "Tier1Cooperative", completed |-> FALSE]
                      ELSE records[x]]
  BY DEF Record
<1> HIDE DEF id
<1>8. /\ records' \in [DOMAIN records' -> [tier : Tiers, completed : BOOLEAN]]
      /\ DOMAIN records' = kept \cup {id}
      /\ \A x \in kept : x # id => records'[x] = records[x]
  BY <1>0, <1>7 DEF CoordTypeOK, Tiers
<1>9. DOMAIN records' \subseteq issued'
  BY <1>2, <1>6, <1>8 DEF CoordInv, ClientsKept
<1>10. \A x : c \notin Pending(x)
  BY <1>1 DEF Pending
<1>11. \A x \in DOMAIN records' :
         \/ r.lease = x /\ r.pc \in Waiting
         \/ x \in DOMAIN records /\ records'[x] = records[x] /\ c \notin Pending(x)
  BY <1>4, <1>8, <1>10 DEF Waiting
<1>12. stopped' \subseteq Signalable
  BY <1>0, <1>1 DEF CoordTypeOK
<1> QED
  BY <1>2, <1>4, <1>5, <1>8, <1>9, <1>11, <1>12, CallKeeps, Zenon

(* The steps that close a record: after a yield, a freeze or a revocation. *)
LEMMA NoteKeeps ==
  ASSUME CoordInv, NEW c \in Callers, NoteYield(c) \/ CloseRecord(c) \/ CrossOut(c)
  PROVE  CoordInv'
<1> DEFINE id == call[c].lease
<1>0. TypeOK /\ Finite /\ CoordTypeOK
  BY DEF CoordInv
<1>1. UNCHANGED <<vars, stopped>> /\ call' = [call EXCEPT ![c] = Idle]
  BY DEF NoteYield, CloseRecord, CrossOut, Return
<1>2. ClientsKept
  BY <1>0, <1>1, ArbiterKeepsClients
<1>3. Snapshot(call[c], leases', issued')
  BY <1>2, SnapshotKept DEF CoordInv
<1>4. call[c] \in Calls
  BY <1>0 DEF CoordTypeOK, Calls
<1>5. ASSUME NEW note \in [tier : Tiers, completed : BOOLEAN],
             records' = [x \in DOMAIN records |-> IF x = id THEN note ELSE records[x]],
             \/ note.completed
             \/ id \notin DOMAIN leases'
             \/ /\ note.tier = "Tier2ForcedFreeze"
                /\ leases'[id].unit \notin Freezable \cup Signalable
      PROVE  CoordInv'
  <2>1. /\ records' \in [DOMAIN records' -> [tier : Tiers, completed : BOOLEAN]]
        /\ DOMAIN records' = DOMAIN records
        /\ \A x \in DOMAIN records : records'[x] = IF x = id THEN note ELSE records[x]
    BY <1>0, <1>5 DEF CoordTypeOK
  <2>2. DOMAIN records' \subseteq issued' /\ stopped' \subseteq Signalable
    BY <1>0, <1>1, <1>2, <2>1 DEF CoordInv, ClientsKept, CoordTypeOK
  <2>3. \A x : x # id => c \notin Pending(x)
    BY DEF Pending
  <2>4. \A x \in DOMAIN records' :
          \/ records'[x].completed
          \/ x \notin DOMAIN leases'
          \/ /\ records'[x].tier = "Tier2ForcedFreeze"
             /\ leases'[x].unit \notin Freezable \cup Signalable
          \/ x \in DOMAIN records /\ records'[x] = records[x] /\ c \notin Pending(x)
    BY <1>5, <2>1, <2>3, Zenon
  <2> QED
    BY <1>1, <1>2, <2>1, <2>2, <2>4, IdleCall, CallKeeps, Zenon
<1>6. CASE id \notin DOMAIN records
  <2>1. records' = [x \in DOMAIN records |-> records[x]]
    <3>1. CASE NoteYield(c)
      BY <1>6, <3>1 DEF NoteYield
    <3>2. CASE CloseRecord(c)
      BY <1>6, <3>2 DEF CloseRecord, Note
    <3>3. CASE CrossOut(c)
      BY <1>6, <3>3 DEF CrossOut, Note
    <3> QED
      BY <3>1, <3>2, <3>3
  <2> DEFINE note == [tier |-> "Revoked", completed |-> TRUE]
  <2>2. note \in [tier : Tiers, completed : BOOLEAN] /\ note.completed
    BY DEF Tiers
  <2>3. records' = [x \in DOMAIN records |-> IF x = id THEN note ELSE records[x]]
    BY <1>6, <2>1
  <2> HIDE DEF note
  <2> QED
    BY <1>5, <2>2, <2>3
<1>7. CASE id \in DOMAIN records /\ NoteYield(c)
  <2> DEFINE note == [records[id] EXCEPT !.completed = TRUE]
  <2>1. records[id] \in [tier : Tiers, completed : BOOLEAN]
    BY <1>0, <1>7 DEF CoordTypeOK
  <2>2. note \in [tier : Tiers, completed : BOOLEAN] /\ note.completed
    BY <2>1, Zenon
  <2>3. records' = [x \in DOMAIN records |-> IF x = id THEN note ELSE records[x]]
    BY <1>7 DEF NoteYield
  <2> HIDE DEF note
  <2> QED
    BY <1>5, <2>2, <2>3
<1>8. CASE CrossOut(c)
  <2> DEFINE note == [tier |-> "Revoked", completed |-> TRUE]
  <2>1. note \in [tier : Tiers, completed : BOOLEAN] /\ note.completed
    BY DEF Tiers
  <2>2. records' = [x \in DOMAIN records |-> IF x = id THEN note ELSE records[x]]
    BY <1>8 DEF CrossOut, Note
  <2> HIDE DEF note
  <2> QED
    BY <1>5, <2>1, <2>2
<1>9. CASE CloseRecord(c)
  <2> DEFINE note == [tier |-> "Tier2ForcedFreeze", completed |-> call[c].froze]
  <2>1. /\ note \in [tier : Tiers, completed : BOOLEAN]
        /\ note.tier = "Tier2ForcedFreeze" /\ note.completed = call[c].froze
    BY <1>4, Zenon DEF Tiers, Calls
  <2>2. records' = [x \in DOMAIN records |-> IF x = id THEN note ELSE records[x]]
    BY <1>9 DEF CloseRecord, Note
  <2>3. call[c].froze \/ call[c].unit \notin Freezable \cup Signalable
    BY <1>3, <1>9, Zenon DEF CloseRecord, At, Snapshot, Preempting, Waiting
  <2>4. id \in DOMAIN leases' => leases'[id].unit = call[c].unit
    BY <1>3, <1>9 DEF CloseRecord, At, Snapshot, Preempting, Waiting
  <2> HIDE DEF note
  <2> QED
    BY <1>5, <2>1, <2>2, <2>3, <2>4, Zenon
<1> QED
  BY <1>6, <1>7, <1>8, <1>9

(* The invariant of the coordinator. *)
LEMMA CoordInvInit == CoordInit => CoordInv
<1> SUFFICES ASSUME CoordInit PROVE CoordInv
  OBVIOUS
<1>1. TypeOK /\ Finite
  BY TypeInit, FS_EmptySet DEF CoordInit, Init, Finite
<1>2. CoordTypeOK
  BY IdleCall DEF CoordInit, CoordTypeOK, Calls
<1>3. \A c \in Callers : Snapshot(call[c], leases, issued)
  BY IdleCall DEF CoordInit
<1> QED
  BY <1>1, <1>2, <1>3 DEF CoordInit, CoordInv, IncompleteIsExplained

(* Every step keeps it. *)
LEMMA CoordInvStep == CoordInv /\ [CoordNext]_coordVars => CoordInv'
<1> SUFFICES ASSUME CoordInv, [CoordNext]_coordVars PROVE CoordInv'
  OBVIOUS
<1>1. CASE (Next \/ UNCHANGED vars) /\ UNCHANGED <<call, records, stopped>>
  <2>1. ClientsKept
    BY <1>1, ArbiterKeepsClients DEF CoordInv
  <2> QED
    BY <1>1, <2>1, OthersKeep
<1> QED
  BY <1>1, EnterKeeps, AskKeeps, QuietKeeps, RecordKeeps, NoteKeeps
     DEF CoordNext, Work, coordVars

(* The coordinator's state keeps its types, and only processes that take a signal are
   ever counted as stopped (preempt.rs:40-195). *)
THEOREM CoordTypeCorrect == CoordSpec => []CoordTypeOK
<1>1. CoordInv => CoordTypeOK
  BY DEF CoordInv
<1> QED
  BY <1>1, CoordInvInit, CoordInvStep, PTL DEF CoordSpec

(* Whatever calls overlap and whoever else ends, parks or thaws the lease between their
   steps, a record is left incomplete only while a call is at it, or when the lease was
   dropped, or when its client could not be stopped (preempt.rs:62-195). *)
THEOREM IncompleteExplained == CoordSpec => []IncompleteIsExplained
<1>1. CoordInv => IncompleteIsExplained
  BY DEF CoordInv
<1> QED
  BY <1>1, CoordInvInit, CoordInvStep, PTL DEF CoordSpec
=============================================================================
