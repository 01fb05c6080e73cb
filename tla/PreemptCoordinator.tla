------------------------- MODULE PreemptCoordinator -------------------------
(***************************************************************************)
(* The two-tier preemption coordinator (preempt.rs, freezer.rs) beside the *)
(* arbiter it drives and everybody else who uses that arbiter.  A call     *)
(* awaits the arbiter's lock, the records' mutex and a timer, so it is a   *)
(* sequence of steps between which the lease it works on may be released,  *)
(* revoked, preempted, thawed or dropped from the map.  The client's       *)
(* cgroup and process are those of the snapshot taken at the start.        *)
(***************************************************************************)
EXTENDS Arbiter

CONSTANTS
  Callers,      \* tasks that call the coordinator
  NoLease,      \* the lease of a caller that is not in a call
  Signalable,   \* the units whose client_pid takes a SIGSTOP
  MaxRecords    \* 128: above it a new record drops the completed ones

VARIABLES
  call,         \* the calls: where each caller is, and its snapshot
  records,      \* lease id -> tier and completed
  stopped       \* units whose process was stopped by SIGSTOP (kernel state)

coordVars == <<vars, call, records, stopped>>

ASSUME CoordinatorAssumption ==
  /\ NoLease \notin LeaseIds /\ Signalable \subseteq Units
  /\ MaxRecords \in Nat

Tiers == {"Tier1Cooperative", "Tier2ForcedFreeze", "Revoked"}

Places ==
  {"idle", "yielding", "recording", "polling", "noting", "freezing", "stopping",
   "marking", "closing", "thawing", "continuing", "resuming", "revoking", "crossing"}

Idle == [pc |-> "idle", lease |-> NoLease, unit |-> NoUnit, froze |-> FALSE]

At(c, pc) == call[c].pc = pc
Goto(c, pc) == call' = [call EXCEPT ![c].pc = pc]
Return(c) == call' = [call EXCEPT ![c] = Idle]

\* A call starts with get_lease; its clone gives the client for the whole call.
Enter(c, id, pc) ==
  /\ At(c, "idle") /\ id \in DOMAIN leases
  /\ call' = [call EXCEPT ![c] = [pc |-> pc, lease |-> id,
                                  unit |-> leases[id].unit, froze |-> FALSE]]
  /\ UNCHANGED <<vars, records, stopped>>

\* An arbiter operation on the lease of c: Err(LeaseNotFound) ends the call, an
\* operation that does not apply does nothing, and the call goes on at pc.
Ask(c, op(_), applies(_), pc) ==
  LET id == call[c].lease
  IN /\ IF id \notin DOMAIN leases THEN Return(c) /\ UNCHANGED vars
        ELSE /\ IF applies(leases[id]) THEN op(id) ELSE UNCHANGED vars
             /\ IF pc = "idle" THEN Return(c) ELSE Goto(c, pc)
     /\ UNCHANGED <<records, stopped>>

\* write_cgroup_freeze: "1" or "0" in the unit's cgroup.freeze, if that can be
\* written.
WriteFreeze(unit, on) ==
  frozen' = IF on THEN frozen \cup ({unit} \cap Freezable) ELSE frozen \ {unit}

\* signal_process of the client's process: SIGSTOP or SIGCONT, if it takes one.
SignalProcess(unit, stop) ==
  stopped' = IF stop THEN stopped \cup ({unit} \cap Signalable) ELSE stopped \ {unit}

\* if let Some(rec) = recs.get_mut(..): a record that is gone stays gone.
Note(id, tier, completed) ==
  records' = [r \in DOMAIN records |->
                IF r = id THEN [tier |-> tier, completed |-> completed]
                ELSE records[r]]

----------------------------------------------------------------------------
(* preempt_lease.                                                           *)

Preempt(c, id) ==
  /\ Enter(c, id, "yielding")
  /\ IsActive(leases[id])

YieldIt(c) == At(c, "yielding") /\ Ask(c, YieldLease, IsActive, "recording")

\* The completed records go once there are more than MaxRecords.
Record(c) ==
  LET id == call[c].lease
      kept == IF Cardinality(DOMAIN records) > MaxRecords
              THEN {r \in DOMAIN records : ~records[r].completed}
              ELSE DOMAIN records
  IN /\ At(c, "recording")
     /\ records' = [r \in kept \cup {id} |->
                      IF r = id THEN [tier |-> "Tier1Cooperative", completed |-> FALSE]
                      ELSE records[r]]
     /\ Goto(c, "polling")
     /\ UNCHANGED <<vars, stopped>>

\* A poll that finds the lease gone or no longer active; one that finds it active
\* changes nothing.
SeesYield(c) ==
  /\ At(c, "polling")
  /\ call[c].lease \in DOMAIN leases => ~IsActive(leases[call[c].lease])
  /\ Goto(c, "noting")
  /\ UNCHANGED <<vars, records, stopped>>

\* Mutation: the yield is logged but not recorded.
NoteYieldUnrecorded(c) ==
  /\ At(c, "noting")
  /\ Return(c)
  /\ UNCHANGED <<vars, records, stopped>>

NoteYield(c) ==
  /\ At(c, "noting")
  /\ records' = [r \in DOMAIN records |->
                   IF r = call[c].lease THEN [records[r] EXCEPT !.completed = TRUE]
                   ELSE records[r]]
  /\ Return(c)
  /\ UNCHANGED <<vars, stopped>>

\* Mutation: no deadline ends the wait for a client that does not yield.
DeadlineNever(c) == At(c, "polling") /\ FALSE /\ UNCHANGED coordVars

\* The deadline has passed: what became of the lease since the last poll, or at
\* all when a deadline of zero leaves no poll, is not looked at.
Deadline(c) ==
  /\ At(c, "polling")
  /\ Goto(c, "freezing")
  /\ UNCHANGED <<vars, records, stopped>>

FreezeCgroup(c) ==
  /\ At(c, "freezing")
  /\ WriteFreeze(call[c].unit, TRUE)
  /\ call' = [call EXCEPT ![c].pc = "stopping",
                          ![c].froze = call[c].unit \in Freezable]
  /\ UNCHANGED <<topology, leases, issued, records, stopped>>

\* Mutation: the missing process of a lease without one is taken for stopped.
StopProcessUnchecked(c) ==
  /\ At(c, "stopping")
  /\ stopped' = stopped \cup {call[c].unit}
  /\ call' = [call EXCEPT ![c].pc = "marking", ![c].froze = TRUE]
  /\ UNCHANGED <<vars, records>>

StopProcess(c) ==
  /\ At(c, "stopping")
  /\ SignalProcess(call[c].unit, TRUE)
  /\ call' = [call EXCEPT ![c].pc = "marking",
                          ![c].froze = @ \/ call[c].unit \in Signalable]
  /\ UNCHANGED <<vars, records>>

MarkFrozen(c) == At(c, "marking") /\ Ask(c, FreezeLease, IsActive, "closing")

\* Mutation: the record keeps saying that Tier 1 is under way.
CloseRecordUnrecorded(c) ==
  /\ At(c, "closing")
  /\ Return(c)
  /\ UNCHANGED <<vars, records, stopped>>

CloseRecord(c) ==
  /\ At(c, "closing")
  /\ Note(call[c].lease, "Tier2ForcedFreeze", call[c].froze)
  /\ Return(c)
  /\ UNCHANGED <<vars, stopped>>

----------------------------------------------------------------------------
(* thaw_lease: the client runs again before the arbiter is asked, and goes   *)
(* on running if the arbiter has no memory for it.                          *)

Thaw(c, id) == Enter(c, id, "thawing")

ThawCgroup(c) ==
  /\ At(c, "thawing")
  /\ WriteFreeze(call[c].unit, FALSE)
  /\ Goto(c, "continuing")
  /\ UNCHANGED <<topology, leases, issued, records, stopped>>

ContinueProcess(c) ==
  /\ At(c, "continuing")
  /\ SignalProcess(call[c].unit, FALSE)
  /\ Goto(c, "resuming")
  /\ UNCHANGED <<vars, records>>

\* thaw_lease of the arbiter and when it does anything.
ThawLease(id) == ThawPreempted(id) \/ ThawSuspended(id)
MayThaw(l) == \/ l.state = "Preempted" /\ FitsAgain(l)
              \/ l.state \in {"Frozen", "Preempting"}

ResumeLease(c) == At(c, "resuming") /\ Ask(c, ThawLease, MayThaw, "idle")

----------------------------------------------------------------------------
(* revoke_lease.                                                            *)

Revoke(c, id) ==
  /\ At(c, "idle") /\ id \in LeaseIds
  /\ call' = [call EXCEPT ![c] = [Idle EXCEPT !.pc = "revoking", !.lease = id]]
  /\ UNCHANGED <<vars, records, stopped>>

RevokeIt(c) == At(c, "revoking") /\ Ask(c, RevokeLease, IsLive, "crossing")

CrossOut(c) ==
  /\ At(c, "crossing")
  /\ Note(call[c].lease, "Revoked", TRUE)
  /\ Return(c)
  /\ UNCHANGED <<vars, stopped>>

----------------------------------------------------------------------------
CoordInit ==
  /\ Init
  /\ call = [c \in Callers |-> Idle]
  /\ records = [r \in {} |-> {}]
  /\ stopped = {}

\* The steps of a call once it is made.
Work(c) ==
  \/ YieldIt(c) \/ Record(c) \/ SeesYield(c) \/ NoteYield(c) \/ Deadline(c)
  \/ FreezeCgroup(c) \/ StopProcess(c) \/ MarkFrozen(c) \/ CloseRecord(c)
  \/ ThawCgroup(c) \/ ContinueProcess(c) \/ ResumeLease(c)
  \/ RevokeIt(c) \/ CrossOut(c)

CoordNext ==
  \/ Next /\ UNCHANGED <<call, records, stopped>>
  \/ \E c \in Callers :
       \/ \E id \in LeaseIds : Preempt(c, id) \/ Thaw(c, id) \/ Revoke(c, id)
       \/ Work(c)

\* The runtime polls every task that is ready, locks are handed out in turn, and
\* the deadline of 250 ms passes.
CoordSpec ==
  CoordInit /\ [][CoordNext]_coordVars /\ \A c \in Callers : WF_coordVars(Work(c))

----------------------------------------------------------------------------
(* Properties.                                                              *)

\* Every component has its type, and only processes that exist are stopped.
CoordTypeOK ==
  /\ call \in [Callers -> [pc : Places, lease : LeaseIds \cup {NoLease},
                          unit : Units \cup {NoUnit}, froze : BOOLEAN]]
  /\ records \in [DOMAIN records -> [tier : Tiers, completed : BOOLEAN]]
  /\ DOMAIN records \subseteq LeaseIds
  /\ stopped \subseteq Signalable

\* The calls that have a record to complete.
Pending(id) ==
  {c \in Callers : /\ call[c].lease = id
                   /\ call[c].pc \in {"polling", "noting", "freezing", "stopping",
                                      "marking", "closing"}}

\* A record left incomplete means something.  Whatever calls overlap on the lease
\* and whoever else ends it meanwhile, a record that is not completed is being
\* worked on, or its client could be stopped neither by cgroup nor by signal, or
\* the lease was dropped from the map and freeze_lease failed.
IncompleteIsExplained ==
  \A id \in DOMAIN records :
    ~records[id].completed =>
      \/ Pending(id) # {}
      \/ id \notin DOMAIN leases
      \/ /\ records[id].tier = "Tier2ForcedFreeze"
         /\ leases[id].unit \notin Freezable \cup Signalable

\* Every call returns: a preemption gets its yield or its deadline, whatever the
\* others do to the lease in the meantime.
CallsReturn == \A c \in Callers : ~At(c, "idle") ~> At(c, "idle")
=============================================================================
