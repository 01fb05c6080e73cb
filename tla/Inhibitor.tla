------------------------------ MODULE Inhibitor -----------------------------
(***************************************************************************)
(* The sleep inhibitor (inhibit.rs) and the task of main.rs that drives    *)
(* it: every 250 ms the number of active leases is read from the arbiter   *)
(* and the inhibitor's counter is moved there one by one; the step away    *)
(* from zero takes a lock by one of three means and the step back to zero  *)
(* gives it up.  Meanwhile leases come and go, which is all of the arbiter *)
(* that matters here: it appears as LeaseLifecycle, where a lease that is  *)
(* held is one that is_active.                                             *)
(***************************************************************************)
EXTENDS LeaseLifecycle, Naturals, FiniteSets

VARIABLES
  steady,     \* the means that always succeed on this host; others may fail
  monitor,    \* where the monitor task is
  prev,       \* prev_count
  todo,       \* the calls left of on_lease_acquired or on_lease_released
  count,      \* active_leases of the inhibitor
  handle,     \* active_handle: the means in use, or None
  inhibited,  \* is_inhibited
  child       \* what became of the last systemd-inhibit child

inhibitVars == <<steady, monitor, prev, todo, count, handle, inhibited, child>>
vars == <<status, inhibitVars>>

None == "None"
Means == {"SystemdInhibit", "FileLock", "BusSocket"}

ASSUME InhibitorAssumption == IsFiniteSet(LeaseIds)

Goto(place) == monitor' = place

----------------------------------------------------------------------------
\* A tick: the leases that are active now against those of the last tick.
Sample ==
  LET active == Cardinality(InStatus("held"))
  IN /\ monitor = "sleeping"
     /\ prev' = active
     /\ IF active >= prev THEN todo' = active - prev /\ Goto("adding")
        ELSE todo' = prev - active /\ Goto("removing")
     /\ UNCHANGED <<status, steady, count, handle, inhibited, child>>

Tick ==
  /\ monitor \in {"adding", "removing"} /\ todo = 0
  /\ Goto("sleeping")
  /\ UNCHANGED <<status, steady, prev, todo, count, handle, inhibited, child>>

\* Mutation: the value after the addition is compared.
OnLeaseAcquiredAfter ==
  /\ monitor = "adding" /\ todo > 0
  /\ count' = count + 1 /\ todo' = todo - 1
  /\ IF count' = 0 /\ handle = None THEN Goto("spawning") ELSE UNCHANGED monitor
  /\ UNCHANGED <<status, steady, prev, handle, inhibited, child>>

\* on_lease_acquired: the first one asks for the lock, unless there is a handle.
OnLeaseAcquired ==
  /\ monitor = "adding" /\ todo > 0
  /\ count' = count + 1 /\ todo' = todo - 1
  /\ IF count = 0 /\ handle = None THEN Goto("spawning") ELSE UNCHANGED monitor
  /\ UNCHANGED <<status, steady, prev, handle, inhibited, child>>

\* acquire_inhibit_lock: the means m is in use, and no other is tried.
Locked(m) ==
  /\ handle' = m /\ inhibited' = TRUE
  /\ Goto("adding")
  /\ UNCHANGED <<status, steady, prev, todo, count>>

\* The means m failed; the next one, if any, is tried at place.
Fails(m, place) ==
  /\ m \notin steady
  /\ Goto(place)
  /\ UNCHANGED <<status, steady, prev, todo, count, handle, inhibited, child>>

SpawnSystemdInhibit ==
  /\ monitor = "spawning"
  /\ \/ Locked("SystemdInhibit") /\ child' = "running"
     \/ Fails("SystemdInhibit", "flocking")

StandaloneFdLock ==
  /\ monitor = "flocking"
  /\ \/ Locked("FileLock") /\ UNCHANGED child
     \/ Fails("FileLock", "connecting")

\* With the last means gone the lock is given up without a word.
UnixBusSocket ==
  /\ monitor = "connecting"
  /\ \/ Locked("BusSocket") /\ UNCHANGED child
     \/ Fails("BusSocket", "adding")

\* Mutation: the value after the subtraction is compared.
OnLeaseReleasedAfter ==
  /\ monitor = "removing" /\ todo > 0
  /\ count' = count - 1 /\ todo' = todo - 1
  /\ IF count' = 1 THEN Goto("unlocking") ELSE UNCHANGED monitor
  /\ UNCHANGED <<status, steady, prev, handle, inhibited, child>>

\* on_lease_released: the last one gives the lock up.
OnLeaseReleased ==
  /\ monitor = "removing" /\ todo > 0
  /\ count' = count - 1 /\ todo' = todo - 1
  /\ IF count = 1 THEN Goto("unlocking") ELSE UNCHANGED monitor
  /\ UNCHANGED <<status, steady, prev, handle, inhibited, child>>

\* Mutation: a child that has exited by itself is not cleared away.
ReleaseInhibitLockOfLiving ==
  /\ monitor = "unlocking"
  /\ IF handle = "SystemdInhibit" /\ child # "running"
     THEN UNCHANGED <<handle, inhibited, child>>
     ELSE /\ handle' = None /\ inhibited' = FALSE
          /\ child' = IF handle = "SystemdInhibit" THEN "none" ELSE child
  /\ Goto("removing")
  /\ UNCHANGED <<status, steady, prev, todo, count>>

\* release_inhibit_lock: whatever the handle is, it is taken and undone; errors
\* (a child that is dead already, a file that is gone) are ignored.
ReleaseInhibitLock ==
  /\ monitor = "unlocking"
  /\ handle' = None
  /\ inhibited' = FALSE
  /\ child' = IF handle = "SystemdInhibit" THEN "none" ELSE child
  /\ Goto("removing")
  /\ UNCHANGED <<status, steady, prev, todo, count>>

----------------------------------------------------------------------------
(* Around the daemon.                                                       *)

\* systemd-inhibit exits: logind refuses it, or somebody kills it.  Nobody waits
\* for the child before the lock is released.
ChildExits ==
  /\ child = "running"
  /\ child' = "exited"
  /\ UNCHANGED <<status, steady, monitor, prev, todo, count, handle, inhibited>>

Leases == LNext /\ UNCHANGED inhibitVars

Monitor ==
  \/ Sample \/ Tick \/ OnLeaseAcquired \/ OnLeaseReleased \/ ReleaseInhibitLock
  \/ SpawnSystemdInhibit \/ StandaloneFdLock \/ UnixBusSocket

----------------------------------------------------------------------------
(* Properties.                                                              *)

\* Between two ticks the inhibitor agrees with what the last tick saw: the counter
\* is the number of leases, the flag tells whether there is a handle, and without
\* leases there is none, so no lock and no child is left behind, whatever failed,
\* exited or changed while the counter was being moved.
LockFollowsLeases ==
  monitor = "sleeping" =>
    /\ count = prev
    /\ inhibited <=> handle # None
    /\ count = 0 => handle = None /\ child = "none"

\* Something outside the daemon really keeps the host awake: a file that is locked,
\* a socket that is open, or a child that runs.
Locking == handle \in {"FileLock", "BusSocket"}
             \/ (handle = "SystemdInhibit" /\ child = "running")

\* A lease that stays keeps the host awake: as long as one of the three means
\* works, a moment comes when a lock is really held or the leases are gone.  The
\* one exception is a systemd-inhibit child that was started and has exited: the
\* daemon takes its handle for a lock until the last lease is gone, and tries no
\* other means.
SleepIsInhibited ==
  InStatus("held") # {} /\ steady # {}
    ~> Locking \/ InStatus("held") = {} \/ (handle = "SystemdInhibit" /\ child = "exited")

\* And an idle host may sleep: with the leases gone the lock is given up and no
\* child of this daemon or of one that died is left, also where the child had
\* exited before.
SleepIsAllowed ==
  InStatus("held") = {}
    ~> (handle = None /\ ~inhibited /\ child # "running") \/ InStatus("held") # {}
=============================================================================
