---------------------------- MODULE DaemonProofs ----------------------------
(***************************************************************************)
(* Proofs about the daemon's life for any number of leases and faults, any *)
(* lists of descriptors and any reliability of the inhibitor's means.      *)
(***************************************************************************)
EXTENDS Daemon, SumLemmas

----------------------------------------------------------------------------
(* The watchdog.                                                            *)

\* A daemon that is not stuck has lost a ping for every tick it is behind, except
\* the one whose ping is due.
PingsAreDue ==
  /\ age \in Nat /\ lost \in Nat
  /\ stuck \/ age <= lost \/ (due /\ age <= lost + 1)

LEMMA PingsAreDueInit == DaemonInit => PingsAreDue
BY DEF DaemonInit, PingsAreDue

LEMMA PingsAreDueStep == PingsAreDue /\ [DaemonNext]_daemonVars => PingsAreDue'
<1> SUFFICES ASSUME PingsAreDue, [DaemonNext]_daemonVars PROVE PingsAreDue'
  OBVIOUS
<1>1. ASSUME NEW how, Die(how) PROVE PingsAreDue'
  BY <1>1 DEF Die, PingsAreDue
<1>2. CASE NotifyReady
  BY <1>2 DEF NotifyReady, Notify, PingsAreDue
<1>3. CASE Terminate
  BY <1>1, <1>3 DEF Terminate, PingsAreDue
<1>4. CASE Ping
  BY <1>4 DEF Ping, Notify, PingsAreDue
<1>5. CASE Tick10
  <2>1. (age + 1) % 1 = 0
    BY DEF PingsAreDue
  <2>2. age' = age + 1 /\ due' = TRUE /\ (due => stuck) /\ UNCHANGED <<stuck, lost>>
    BY <1>5, <2>1 DEF Tick10, Interval
  <2> QED
    BY <2>2 DEF PingsAreDue
<1>6. CASE GetStuck
  BY <1>6 DEF GetStuck, PingsAreDue
<1>7. CASE UNCHANGED <<age, lost, due, stuck>>
  BY <1>7 DEF PingsAreDue
<1>8. CASE Crash \/ GatewayFails \/ Finish \/ StopTimeout \/ WatchdogKill \/ StartTimeout
             \/ \E s \in Slots : BindFails(s)
  BY <1>1, <1>8 DEF Crash, GatewayFails, Finish, StopTimeout, WatchdogKill, StartTimeout,
                    BindFails
<1>9. CASE Restart \/ StartOnDemand \/ KillControlGroup \/ MonitorRuns \/ Drained
             \/ Clients \/ ChildEnds \/ (\E s \in Slots : TakeListener(s) \/ ListenerDies(s))
             \/ UNCHANGED daemonVars
  BY <1>7, <1>9 DEF Restart, StartOnDemand, Begin, KillControlGroup, MonitorRuns, Drained,
                    Clients, ChildEnds, TakeListener, ListenerDies, lifeVars, daemonVars
<1> QED
  BY <1>2, <1>3, <1>4, <1>5, <1>6, <1>8, <1>9 DEF DaemonNext, MainRuns, Systemd

\* For every number of faults, systemd's watchdog ends only a daemon that is stuck
\* or that lost two pings in a row.
THEOREM PatientWatchdog == DaemonSpec => WatchdogIsPatient
<1>1. PingsAreDue /\ [DaemonNext]_daemonVars
        => [result' = "watchdog" => result = "watchdog" \/ stuck \/ lost >= 2]_daemonVars
  <2> SUFFICES ASSUME PingsAreDue, DaemonNext, result' = "watchdog", result # "watchdog"
               PROVE  stuck \/ lost >= 2
    BY DEF daemonVars, lifeVars
  <2>1. WatchdogKill
    <3>1. ASSUME NEW how, how # "watchdog", Die(how) PROVE FALSE
      BY <3>1 DEF Die
    <3>2. "clean" # "watchdog" /\ "failed" # "watchdog" /\ "timeout" # "watchdog"
      OBVIOUS
    <3>3. result' # result /\ result' # "none"
      OBVIOUS
    <3> QED
      BY <3>1, <3>2, <3>3
         DEF DaemonNext, MainRuns, Systemd, Crash, GatewayFails, Finish, StopTimeout,
             StartTimeout, BindFails, Restart, StartOnDemand, Begin, KillControlGroup,
             MonitorRuns, Drained, Clients, ChildEnds, TakeListener, ListenerDies,
             NotifyReady, Notify, Terminate, Ping, Tick10, GetStuck, lifeVars
  <2> QED
    BY <2>1 DEF WatchdogKill, WatchdogTicks, PingsAreDue
<1> QED
  BY <1>1, PingsAreDueInit, PingsAreDueStep, PTL DEF DaemonSpec, WatchdogIsPatient

----------------------------------------------------------------------------
(* Starting up.                                                             *)

Running == {"serving", "draining", "quiescing"}

\* The servers that main has started by the time it is at a place.
Started(place) ==
  CASE place \in {"down", "varlink"} -> {}
    [] place = "sentry" -> {"varlink"}
    [] place = "fd" -> {"varlink", "sentry"}
    [] place = "gateway" -> {"varlink", "sentry", "fd"}
    [] OTHER -> Slots

\* main is at one of its places, has the listeners of those before it, and is past
\* them all when systemd is told.
Stages ==
  /\ main \in {"down", "notify"} \cup Slots \cup Running
  /\ tasks \in [Slots -> {"none", "on", "dead"}]
  /\ \A s \in Started(main) : tasks[s] # "none"
  /\ known => main \in Running

LEMMA StagesInit == DaemonInit => Stages
BY DEF DaemonInit, Stages, Started, NoTasks, Slots

LEMMA StagesStep == Stages /\ [DaemonNext]_daemonVars => Stages'
<1> SUFFICES ASSUME Stages, [DaemonNext]_daemonVars PROVE Stages'
  OBVIOUS
<1>1. ASSUME NEW how, Die(how) PROVE Stages'
  BY <1>1 DEF Die, Stages, Started, NoTasks, Slots
<1>2. CASE NotifyReady
  BY <1>2 DEF NotifyReady, Notify, Stages, Started, Running, Slots
<1>3. CASE Terminate
  BY <1>1, <1>3 DEF Terminate, Stages, Started, Running, Slots
<1>4. CASE Drained
  BY <1>4 DEF Drained, Stages, Started, Running, Slots
<1>5. ASSUME NEW s \in Slots, TakeListener(s) PROVE Stages'
  <2>1. main' = NextPlace(s) /\ main' \notin {"down", "varlink"} \cup Running
    BY <1>5 DEF TakeListener, NextPlace, Slots, Running
  <2>2. NextPlace(s) \in Slots \cup {"notify"}
    BY DEF NextPlace, Slots
  <2>3. Started(NextPlace(s)) = Started(s) \cup {s}
    BY DEF NextPlace, Started, Slots
  <2>4. s \notin Running
    BY DEF Slots, Running
  <2> QED
    BY <1>5, <2>1, <2>2, <2>3, <2>4 DEF TakeListener, Stages
<1>6. ASSUME NEW s \in Slots, ListenerDies(s) PROVE Stages'
  BY <1>6 DEF ListenerDies, Stages
<1>7. CASE Restart \/ StartOnDemand
  BY <1>7 DEF Restart, StartOnDemand, Begin, Stages, Started, Running, Slots
<1>8. CASE Crash \/ GatewayFails \/ Finish \/ StopTimeout \/ WatchdogKill \/ StartTimeout
             \/ \E s \in Slots : BindFails(s)
  BY <1>1, <1>8 DEF Crash, GatewayFails, Finish, StopTimeout, WatchdogKill, StartTimeout,
                    BindFails
<1>9. CASE UNCHANGED <<main, tasks, known>>
  BY <1>9 DEF Stages
<1>10. CASE KillControlGroup \/ MonitorRuns \/ Clients \/ ChildEnds \/ Ping \/ Tick10
              \/ GetStuck \/ UNCHANGED daemonVars
  BY <1>9, <1>10 DEF KillControlGroup, MonitorRuns, Clients, ChildEnds, Ping, Tick10,
                     GetStuck, lifeVars, daemonVars
<1> QED
  BY <1>2, <1>3, <1>4, <1>5, <1>6, <1>7, <1>8, <1>10 DEF DaemonNext, MainRuns, Systemd

\* For every list of descriptors, READY=1 is sent only when all four servers have
\* their listeners.
THEOREM ReadyServes == DaemonSpec => []ReadyIsServed
<1>1. Stages => ReadyIsServed
  BY DEF Stages, ReadyIsServed, Started, Running, Slots
<1> QED
  BY <1>1, StagesInit, StagesStep, PTL DEF DaemonSpec

----------------------------------------------------------------------------
(* The inhibitor.                                                           *)

Adding == {"adding", "spawning", "flocking", "connecting"}
Removing == {"removing", "unlocking"}

\* The counter and the calls still to be made add up to what the last tick saw.
CountsAddUp ==
  /\ count \in Nat /\ todo \in Nat /\ prev \in Nat
  /\ monitor \in {"off", "sleeping"} => count = prev
  /\ monitor \in Adding => count + todo = prev
  /\ monitor \in Removing => count = prev + todo
  /\ monitor \in {"spawning", "flocking", "connecting"} => count > 0
  /\ monitor = "unlocking" => count = 0

\* Who has a handle, and who has a child: there is no handle while one is being
\* sought nor, but for the moment of giving it up, without leases, and the child
\* belongs to the handle unless the daemon it belonged to is gone.
HandleIsOwned ==
  /\ monitor \in {"off", "sleeping"} \cup Adding \cup Removing
  /\ monitor = "off" <=> main \in {"down", "notify"} \cup Slots
  /\ inhibited <=> handle # None
  /\ monitor \in {"off", "spawning", "flocking", "connecting"} => handle = None
  /\ count = 0 /\ monitor # "unlocking" => handle = None
  /\ main # "down" /\ handle # "SystemdInhibit" => child = "none"

LEMMA CountsInit == DaemonInit => CountsAddUp
BY DEF DaemonInit, CountsAddUp, Adding, Removing

LEMMA HeldIsCounted == Cardinality(InStatus("held")) \in Nat
<1>1. InStatus("held") \in SUBSET LeaseIds
  BY DEF InStatus
<1> QED
  BY <1>1, InhibitorAssumption, FS_Subset, FS_CardinalityType

LEMMA CountsStep ==
  CountsAddUp /\ HandleIsOwned /\ [DaemonNext]_daemonVars => CountsAddUp'
<1> SUFFICES ASSUME CountsAddUp, HandleIsOwned, [DaemonNext]_daemonVars PROVE CountsAddUp'
  OBVIOUS
<1> USE DEF CountsAddUp, Adding, Removing
<1>1. ASSUME NEW how, Die(how) PROVE CountsAddUp'
  BY <1>1 DEF Die
<1>2. CASE MonitorRuns
  <2>1. CASE Sample
    BY <2>1, HeldIsCounted DEF Sample, Goto
  <2>2. CASE Tick
    BY <2>2 DEF Tick, Goto
  <2>3. CASE OnLeaseAcquired
    BY <2>3 DEF OnLeaseAcquired, Goto
  <2>4. CASE OnLeaseReleased
    BY <2>4 DEF OnLeaseReleased, Goto
  <2>5. CASE ReleaseInhibitLock
    BY <2>5 DEF ReleaseInhibitLock, Goto
  <2>6. CASE SpawnSystemdInhibit \/ StandaloneFdLock \/ UnixBusSocket
    BY <2>6 DEF SpawnSystemdInhibit, StandaloneFdLock, UnixBusSocket, Locked, Fails, Goto
  <2> QED
    BY <1>2, <2>1, <2>2, <2>3, <2>4, <2>5, <2>6 DEF MonitorRuns, Monitor
<1>3. CASE NotifyReady
  BY <1>3 DEF NotifyReady, Notify, HandleIsOwned
<1>4. CASE Terminate
  BY <1>1, <1>4 DEF Terminate, vars, inhibitVars
<1>5. CASE Crash \/ GatewayFails \/ Finish \/ StopTimeout \/ WatchdogKill \/ StartTimeout
             \/ \E s \in Slots : BindFails(s)
  BY <1>1, <1>5 DEF Crash, GatewayFails, Finish, StopTimeout, WatchdogKill, StartTimeout,
                    BindFails
<1>6. CASE UNCHANGED <<monitor, prev, todo, count>>
  BY <1>6
<1>7. CASE KillControlGroup \/ Clients \/ ChildEnds \/ Ping \/ Tick10 \/ GetStuck
             \/ Drained \/ Restart \/ StartOnDemand
             \/ (\E s \in Slots : TakeListener(s) \/ ListenerDies(s))
             \/ UNCHANGED daemonVars
  BY <1>6, <1>7 DEF KillControlGroup, Clients, Leases, ChildEnds, ChildExits, Ping, Tick10,
                    GetStuck, Drained, Restart, StartOnDemand, Begin, TakeListener,
                    ListenerDies, vars, inhibitVars, daemonVars
<1> QED
  BY <1>2, <1>3, <1>4, <1>5, <1>7 DEF DaemonNext, MainRuns, Systemd

LEMMA HandleInit == DaemonInit => HandleIsOwned
BY Zenon DEF DaemonInit, HandleIsOwned, Adding, Removing

LEMMA HandleStep ==
  HandleIsOwned /\ CountsAddUp /\ Stages /\ [DaemonNext]_daemonVars => HandleIsOwned'
<1> SUFFICES ASSUME HandleIsOwned, CountsAddUp, Stages, [DaemonNext]_daemonVars
             PROVE  HandleIsOwned'
  OBVIOUS
<1>1. ASSUME NEW how, Die(how) PROVE HandleIsOwned'
  BY <1>1 DEF Die, HandleIsOwned, Adding, Removing
<1>2. CASE MonitorRuns
  <2> USE DEF HandleIsOwned, Adding, Removing, Goto
  <2>0. UNCHANGED main
    BY <1>2 DEF MonitorRuns, lifeVars
  <2>1. CASE Sample
    BY <2>0, <2>1 DEF Sample
  <2>2. CASE Tick
    BY <2>0, <2>2 DEF Tick
  <2>3. CASE OnLeaseAcquired
    BY <2>0, <2>3 DEF OnLeaseAcquired, CountsAddUp
  <2>4. CASE OnLeaseReleased
    BY <2>0, <2>4 DEF OnLeaseReleased, CountsAddUp
  <2>5. CASE ReleaseInhibitLock
    BY <2>0, <2>5 DEF ReleaseInhibitLock, None
  <2>6. CASE SpawnSystemdInhibit
    BY <2>0, <2>6 DEF SpawnSystemdInhibit, Locked, Fails, CountsAddUp, None
  <2>7. CASE StandaloneFdLock
    BY <2>0, <2>7 DEF StandaloneFdLock, Locked, Fails, CountsAddUp, None
  <2>8. CASE UnixBusSocket
    BY <2>0, <2>8 DEF UnixBusSocket, Locked, Fails, CountsAddUp, None
  <2> QED
    BY <1>2, <2>1, <2>2, <2>3, <2>4, <2>5, <2>6, <2>7, <2>8 DEF MonitorRuns, Monitor
<1>3. CASE NotifyReady
  BY <1>3 DEF NotifyReady, Notify, HandleIsOwned, CountsAddUp, Adding, Removing, Slots
<1>4. CASE Terminate
  BY <1>1, <1>4 DEF Terminate, HandleIsOwned, Slots, vars, inhibitVars
<1>5. CASE Drained
  BY <1>5 DEF Drained, HandleIsOwned, Slots, vars, inhibitVars
<1>6. ASSUME NEW s \in Slots, TakeListener(s) PROVE HandleIsOwned'
  <2>1. main \in Slots /\ main' \in Slots \cup {"notify"}
    BY <1>6 DEF TakeListener, NextPlace, Slots
  <2>2. main # "down" /\ main' # "down"
    BY <2>1 DEF Slots
  <2> QED
    BY <1>6, <2>1, <2>2 DEF TakeListener, HandleIsOwned, vars, inhibitVars
<1>7. CASE Restart \/ StartOnDemand
  BY <1>7 DEF Restart, StartOnDemand, Begin, HandleIsOwned, Slots, vars, inhibitVars
<1>8. CASE KillControlGroup
  BY <1>8 DEF KillControlGroup, HandleIsOwned, lifeVars
<1>9. CASE ChildEnds
  BY <1>9 DEF ChildEnds, ChildExits, HandleIsOwned, lifeVars
<1>10. CASE Crash \/ GatewayFails \/ Finish \/ StopTimeout \/ WatchdogKill \/ StartTimeout
              \/ \E s \in Slots : BindFails(s)
  BY <1>1, <1>10 DEF Crash, GatewayFails, Finish, StopTimeout, WatchdogKill, StartTimeout,
                     BindFails
<1>11. CASE UNCHANGED <<main, inhibitVars>>
  BY <1>11 DEF HandleIsOwned, inhibitVars
<1>12. CASE Clients \/ Ping \/ Tick10 \/ GetStuck \/ (\E s \in Slots : ListenerDies(s))
              \/ UNCHANGED daemonVars
  BY <1>11, <1>12 DEF Clients, Leases, Ping, Tick10, GetStuck, ListenerDies, vars,
                      lifeVars, daemonVars
<1> QED
  BY <1>2, <1>3, <1>4, <1>5, <1>6, <1>7, <1>8, <1>9, <1>10, <1>12
     DEF DaemonNext, MainRuns, Systemd

\* For any number of leases, the inhibitor's counter, flag, lock and child follow
\* what the monitor's last tick saw, across crashes and restarts too.
THEOREM LockFollows == DaemonSpec => []LockFollowsLeases
<1> DEFINE IInv == Stages /\ CountsAddUp /\ HandleIsOwned
<1>1. DaemonInit => IInv
  BY StagesInit, CountsInit, HandleInit
<1>2. IInv /\ [DaemonNext]_daemonVars => IInv'
  BY StagesStep, CountsStep, HandleStep
<1>3. IInv => LockFollowsLeases
  <2> SUFFICES ASSUME IInv, monitor = "sleeping"
               PROVE  /\ count = prev
                      /\ inhibited <=> handle # None
                      /\ count = 0 => handle = None /\ child = "none"
    BY DEF LockFollowsLeases
  <2>1. main # "down" /\ None # "SystemdInhibit"
    BY DEF HandleIsOwned, None
  <2> QED
    BY <2>1 DEF HandleIsOwned, CountsAddUp
<1> QED
  BY <1>1, <1>2, <1>3, PTL DEF DaemonSpec

----------------------------------------------------------------------------
(* Socket activation.                                                       *)

\* What each slot should hold once the first n descriptors of f were looked at.
Naming(f, n, s) == {i \in 1 .. n : Named(f[i]) = s}
Placed(f, n, s) ==
  {i \in 1 .. n : Positional(i) = s /\ f[i].family = "Unix" /\ Named(f[i]) = "none"}

IntendedUpTo(f, n, s) ==
  CASE Naming(f, n, s) # {} -> CHOOSE i \in Naming(f, n, s) : \A j \in Naming(f, n, s) : j <= i
    [] Naming(f, n, s) = {} /\ Placed(f, n, s) # {} -> CHOOSE i \in Placed(f, n, s) : TRUE
    [] OTHER -> 0

\* The same said of a number x, without a choice.
Holds(f, n, s, x) ==
  \/ x \in Naming(f, n, s) /\ \A j \in Naming(f, n, s) : j <= x
  \/ Naming(f, n, s) = {} /\ x \in Placed(f, n, s)
  \/ Naming(f, n, s) = {} /\ Placed(f, n, s) = {} /\ x = 0

(* A position belongs to one slot. *)
LEMMA PositionsDiffer ==
  ASSUME NEW i \in Nat, NEW j \in Nat, Positional(i) = Positional(j), Positional(i) # "none"
  PROVE  i = j
<1>1. i \in 1 .. 4 /\ j \in 1 .. 4
  BY DEF Positional
<1>2. /\ Positional(1) = "varlink" /\ Positional(2) = "sentry"
      /\ Positional(3) = "gateway" /\ Positional(4) = "fd"
  BY DEF Positional
<1> QED
  BY <1>1, <1>2

LEMMA PositionIsSlot ==
  ASSUME NEW i \in Nat, Positional(i) # "none"
  PROVE  Positional(i) \in Slots
<1>1. i \in 1 .. 4
  BY DEF Positional
<1>2. /\ Positional(1) = "varlink" /\ Positional(2) = "sentry"
      /\ Positional(3) = "gateway" /\ Positional(4) = "fd"
  BY DEF Positional
<1> QED
  BY <1>1, <1>2 DEF Slots

LEMMA NamedIsSlot ==
  ASSUME NEW d \in Descriptors
  PROVE  Named(d) \in Slots \cup {"none"}
<1>1. ClassifyUnixSocket(d.name) \in Slots \cup {"none"}
  BY DEF ClassifyUnixSocket, Slots
<1> QED
  BY <1>1 DEF Named, Slots

(* A set of numbers up to n has a greatest one. *)
LEMMA LastExists ==
  ASSUME NEW n \in Nat, NEW T \in SUBSET (1 .. n), T # {}
  PROVE  \E x \in T : \A y \in T : y <= x
<1> DEFINE D == {n - x : x \in T}
<1>1. D \subseteq Nat /\ D # {}
  <2>1. \A x \in T : n - x \in Nat
    OBVIOUS
  <2> QED
    BY <2>1
<1>2. PICK d \in D : \A e \in D : d <= e
  <2> HIDE DEF D
  <2> QED
    BY <1>1, LeastNatural
<1>3. PICK x \in T : d = n - x
  BY <1>2
<1>4. ASSUME NEW y \in T PROVE y <= x
  <2>1. n - x <= n - y
    BY <1>2, <1>3
  <2> QED
    BY <2>1
<1> QED
  BY <1>4

LEMMA HoldsOne ==
  ASSUME NEW f, NEW n \in Nat, NEW s \in Slots, NEW x, NEW y,
         Holds(f, n, s, x), Holds(f, n, s, y)
  PROVE  x = y
<1>1. CASE x \in Naming(f, n, s)
  <2>1. y \in Naming(f, n, s) /\ x <= y /\ y <= x
    BY <1>1 DEF Holds
  <2> QED
    BY <1>1, <2>1 DEF Naming
<1>2. CASE Naming(f, n, s) = {} /\ x \in Placed(f, n, s)
  <2>1. y \in Placed(f, n, s)
    BY <1>2 DEF Holds
  <2>2. s # "none"
    BY DEF Slots
  <2> QED
    BY <1>2, <2>1, <2>2, PositionsDiffer DEF Placed
<1>3. CASE Naming(f, n, s) = {} /\ Placed(f, n, s) = {} /\ x = 0
  BY <1>3 DEF Holds
<1> QED
  BY <1>1, <1>2, <1>3 DEF Holds

LEMMA IntendedHolds ==
  ASSUME NEW f, NEW n \in Nat, NEW s \in Slots
  PROVE  Holds(f, n, s, IntendedUpTo(f, n, s))
<1> DEFINE N == Naming(f, n, s)
           P == Placed(f, n, s)
           x == IntendedUpTo(f, n, s)
<1>1. CASE N # {}
  <2>1. \E i \in N : \A j \in N : j <= i
    <3>1. N \in SUBSET (1 .. n)
      BY DEF Naming
    <3> HIDE DEF N
    <3> QED
      BY <1>1, <3>1, LastExists
  <2>2. x = CHOOSE i \in N : \A j \in N : j <= i
    BY <1>1, Zenon DEF IntendedUpTo
  <2> HIDE DEF x, N
  <2>3. x \in N /\ \A j \in N : j <= x
    BY <2>1, <2>2, Zenon
  <2> QED
    BY <2>3 DEF Holds, N, x
<1>2. CASE N = {} /\ P # {}
  <2>1. x = CHOOSE i \in P : TRUE
    BY <1>2 DEF IntendedUpTo
  <2> HIDE DEF x, P
  <2>2. x \in P
    BY <1>2, <2>1, Zenon
  <2> QED
    BY <1>2, <2>2 DEF Holds, P, x
<1>3. CASE N = {} /\ P = {}
  BY <1>3 DEF Holds, IntendedUpTo
<1> QED
  BY <1>1, <1>2, <1>3

(* One turn of the loop makes of what is intended so far what is intended next. *)
LEMMA AdoptIntended ==
  ASSUME NEW f \in Seq(Descriptors), NEW n \in 1 .. Len(f),
         NEW before, before = [s \in Slots |-> IntendedUpTo(f, n - 1, s)]
  PROVE  Adopt(before, n, f[n]) = [s \in Slots |-> IntendedUpTo(f, n, s)]
<1> DEFINE d == f[n]
           m == n - 1
           after == Adopt(before, n, d)
<1>1. d \in Descriptors /\ m \in Nat /\ n \in Nat /\ 1 .. n = (1 .. m) \cup {n} /\ n \notin 1 .. m
  OBVIOUS
<1>2. Named(d) \in Slots \cup {"none"} /\ "none" \notin Slots
  BY <1>1, NamedIsSlot DEF Slots
<1>3. Positional(n) # "none" => Positional(n) \in Slots
  BY <1>1, PositionIsSlot
<1>4. after = [s \in Slots |-> after[s]]
  BY <1>1, <1>2, <1>3 DEF Adopt
<1>5. ASSUME NEW s \in Slots
      PROVE  after[s] = IntendedUpTo(f, n, s)
  <2> DEFINE x == before[s]
  <2>1. Holds(f, m, s, x)
    BY <1>1, IntendedHolds
  <2>2. /\ Naming(f, n, s) = Naming(f, m, s) \cup (IF Named(d) = s THEN {n} ELSE {})
        /\ Placed(f, n, s) = Placed(f, m, s)
             \cup (IF Positional(n) = s /\ d.family = "Unix" /\ Named(d) = "none"
                   THEN {n} ELSE {})
    BY <1>1 DEF Naming, Placed
  <2>3. Naming(f, m, s) \subseteq 1 .. m /\ Placed(f, m, s) \subseteq 1 .. m
    BY DEF Naming, Placed
  <2>4. Holds(f, n, s, after[s])
    <3>1. CASE Named(d) = s
      <4>1. after[s] = n
        BY <1>2, <3>1 DEF Adopt
      <4>2. n \in Naming(f, n, s) /\ \A j \in Naming(f, n, s) : j <= n
        BY <1>1, <2>2, <2>3, <3>1
      <4> QED
        BY <4>1, <4>2 DEF Holds
    <3>2. CASE Named(d) = "none" /\ d.family = "Unix" /\ Positional(n) = s
      <4>1. Placed(f, m, s) = {}
        <5>1. ASSUME NEW i \in Placed(f, m, s) PROVE FALSE
          <6>1. i \in 1 .. m /\ Positional(i) = s /\ i \in Nat
            BY <1>1, <5>1 DEF Placed
          <6>2. i = n
            BY <1>1, <1>2, <3>2, <6>1, PositionsDiffer
          <6> QED
            BY <1>1, <6>1, <6>2
        <5> QED
          BY <5>1
      <4>2. Naming(f, n, s) = Naming(f, m, s) /\ Placed(f, n, s) = {n}
        BY <1>2, <2>2, <3>2, <4>1
      <4>3. CASE x = 0
        <5>1. after[s] = n
          BY <1>2, <3>2, <4>3 DEF Adopt
        <5>2. Naming(f, m, s) = {}
          BY <1>1, <2>1, <2>3, <4>1, <4>3 DEF Holds
        <5> QED
          BY <4>2, <5>1, <5>2 DEF Holds
      <4>4. CASE x # 0
        <5>1. after[s] = x
          BY <1>2, <3>2, <4>4 DEF Adopt
        <5> QED
          BY <2>1, <4>1, <4>2, <4>4, <5>1 DEF Holds
      <4> QED
        BY <4>3, <4>4
    <3>3. CASE /\ Named(d) # s
               /\ ~(Named(d) = "none" /\ d.family = "Unix" /\ Positional(n) = s)
      <4>1. after[s] = x
        BY <1>2, <1>3, <3>3 DEF Adopt
      <4>2. Naming(f, n, s) = Naming(f, m, s) /\ Placed(f, n, s) = Placed(f, m, s)
        BY <2>2, <3>3
      <4> QED
        BY <2>1, <4>1, <4>2 DEF Holds
    <3> QED
      BY <3>1, <3>2, <3>3
  <2>5. Holds(f, n, s, IntendedUpTo(f, n, s))
    BY <1>1, IntendedHolds
  <2> HIDE DEF after
  <2> QED
    BY <1>1, <2>4, <2>5, HoldsOne
<1> HIDE DEF after
<1>6. after = [s \in Slots |-> IntendedUpTo(f, n, s)]
  BY <1>4, <1>5, Zenon
<1> QED
  BY <1>6 DEF after, d

(* The loop as a whole computes what is intended: that function satisfies the      *)
(* recursion, and a function that does is this one.                              *)
LEMMA AdoptsIntended ==
  ASSUME NEW f \in Seq(Descriptors)
  PROVE  CheckAndAdoptSockets(f) = [s \in Slots |-> Intended(f, s)]
<1> DEFINE Turns(g) == g = [i \in 0 .. Len(f) |->
                              IF i = 0 THEN NoSockets ELSE Adopt(g[i - 1], i, f[i])]
           h == [i \in 0 .. Len(f) |-> [s \in Slots |-> IntendedUpTo(f, i, s)]]
           k == [i \in 0 .. Len(f) |->
                   IF i = 0 THEN NoSockets ELSE Adopt(h[i - 1], i, f[i])]
           it == CHOOSE g : Turns(g)
<1>1. Len(f) \in Nat /\ DOMAIN f = 1 .. Len(f)
  OBVIOUS
<1>2. h[0] = NoSockets
  <2>1. \A s \in Slots : IntendedUpTo(f, 0, s) = 0
    <3> TAKE s \in Slots
    <3>1. Naming(f, 0, s) = {} /\ Placed(f, 0, s) = {}
      BY DEF Naming, Placed
    <3> QED
      BY <3>1 DEF IntendedUpTo
  <2> QED
    BY <1>1, <2>1 DEF NoSockets
<1>3. \A i \in 0 .. Len(f) : h[i] = k[i]
  <2> TAKE i \in 0 .. Len(f)
  <2>1. CASE i = 0
    BY <1>2, <2>1
  <2>2. CASE i # 0
    <3>1. i \in 1 .. Len(f) /\ i - 1 \in 0 .. Len(f)
      BY <2>2
    <3>2. h[i - 1] = [s \in Slots |-> IntendedUpTo(f, i - 1, s)]
      BY <3>1
    <3>3. Adopt(h[i - 1], i, f[i]) = [s \in Slots |-> IntendedUpTo(f, i, s)]
      BY <3>1, <3>2, AdoptIntended
    <3> QED
      BY <2>2, <3>3
  <2> QED
    BY <2>1, <2>2
<1>4. h = k
  BY <1>3, Zenon
<1>5. Turns(h)
  BY <1>4, Zenon
<1>6. Turns(it)
  <2> HIDE DEF h
  <2> QED
    BY <1>5, Zenon
<1>7. CheckAndAdoptSockets(f) = it[Len(f)]
  BY Zenon DEF CheckAndAdoptSockets
<1> HIDE DEF it
<1>8. \A n \in Nat : n \in {i \in Nat : i \in 0 .. Len(f) => it[i] = h[i]}
  <2> DEFINE G == {i \in Nat : i \in 0 .. Len(f) => it[i] = h[i]}
  <2>1. ASSUME NEW i \in 0 .. Len(f)
        PROVE  it[i] = IF i = 0 THEN NoSockets ELSE Adopt(it[i - 1], i, f[i])
    BY <1>6, Zenon
  <2>2. ASSUME NEW i \in 0 .. Len(f)
        PROVE  h[i] = IF i = 0 THEN NoSockets ELSE Adopt(h[i - 1], i, f[i])
    <3>1. k[i] = IF i = 0 THEN NoSockets ELSE Adopt(h[i - 1], i, f[i])
      BY Zenon
    <3> QED
      BY <1>3, <3>1, Zenon
  <2> HIDE DEF h
  <2>3. 0 \in G
    BY <2>1, <2>2
  <2>4. \A n \in Nat : n \in G => n + 1 \in G
    <3> SUFFICES ASSUME NEW n \in G, n + 1 \in 0 .. Len(f) PROVE it[n + 1] = h[n + 1]
      OBVIOUS
    <3>1. n \in 0 .. Len(f) /\ (n + 1) - 1 = n /\ n + 1 # 0
      BY <1>1
    <3>2. it[n] = h[n]
      BY <3>1
    <3> QED
      BY <2>1, <2>2, <3>1, <3>2
  <2> HIDE DEF G
  <2>5. \A n \in Nat : n \in G
    BY <2>3, <2>4, InductionOnNat
  <2> QED
    BY <2>5 DEF G
<1>9. it[Len(f)] = h[Len(f)]
  <2> HIDE DEF h
  <2>1. Len(f) \in 0 .. Len(f)
    BY <1>1
  <2> QED
    BY <1>1, <1>8, <2>1
<1>10. \A s \in Slots : IntendedUpTo(f, Len(f), s) = Intended(f, s)
  <2> TAKE s \in Slots
  <2>1. /\ Naming(f, Len(f), s) = {i \in DOMAIN f : Named(f[i]) = s}
        /\ Placed(f, Len(f), s) = {i \in DOMAIN f : /\ Positional(i) = s
                                                    /\ f[i].family = "Unix"
                                                    /\ Named(f[i]) = "none"}
    BY <1>1 DEF Naming, Placed
  <2> QED
    BY <2>1, Zenon DEF IntendedUpTo, Intended
<1> QED
  BY <1>1, <1>7, <1>9, <1>10

(* With a shipped unit every slot is named, and holds a socket of its name. *)
LEMMA ShippedHolds ==
  ASSUME NEW f \in Shipped, NEW held, held = [s \in Slots |-> Intended(f, s)],
         NEW s \in Slots
  PROVE  HoldsItsOwn(f, held, s)
<1> DEFINE x == held[s]
           n == Len(f)
<1>1. f \in Seq(Descriptors) /\ n \in Nat /\ DOMAIN f = 1 .. n
  BY DaemonAssumption
<1>2. PICK v \in {"io.syntrop.Inference1", "io.systemd.inferenced1"} :
        {v, "sentry.sock", "gateway.sock", "fd.sock"} \subseteq {f[i].name : i \in DOMAIN f}
  BY ShippedAssumption
<1>3. PICK i \in DOMAIN f : Named(f[i]) = s
  <2>1. ASSUME NEW i \in DOMAIN f, f[i].name # "unnamed"
        PROVE  Named(f[i]) = ClassifyUnixSocket(f[i].name)
    <3>1. f[i] \in Descriptors
      BY <1>1, <2>1
    <3>2. f[i].family = "Unix"
      BY <2>1, <3>1 DEF Descriptors
    <3> QED
      BY <3>2 DEF Named
  <2>2. /\ ClassifyUnixSocket(v) = "varlink"
        /\ ClassifyUnixSocket("sentry.sock") = "sentry"
        /\ ClassifyUnixSocket("gateway.sock") = "gateway"
        /\ ClassifyUnixSocket("fd.sock") = "fd"
    BY DEF ClassifyUnixSocket
  <2>3. \E name \in {v, "sentry.sock", "gateway.sock", "fd.sock"} :
          ClassifyUnixSocket(name) = s /\ name # "unnamed"
    BY <2>2 DEF Slots
  <2> QED
    BY <1>2, <2>1, <2>3
<1>4. x \in {j \in DOMAIN f : Named(f[j]) = s}
  <2> DEFINE N == {j \in DOMAIN f : Named(f[j]) = s}
  <2>1. N # {} /\ N \in SUBSET (1 .. n)
    BY <1>1, <1>3
  <2>2. x = CHOOSE j \in N : \A l \in N : l <= j
    BY <2>1, Zenon DEF Intended
  <2> HIDE DEF N, x
  <2>3. \E j \in N : \A l \in N : l <= j
    BY <1>1, <2>1, LastExists
  <2>4. x \in N
    BY <2>2, <2>3, Zenon
  <2> QED
    BY <2>4 DEF N
<1> HIDE DEF x
<1>5. x \in DOMAIN f /\ Named(f[x]) = s /\ x # 0 /\ f[x] \in Descriptors
  BY <1>1, <1>4
<1>6. \/ f[x].family = "Inet" /\ s = "gateway"
      \/ s = "varlink" /\ f[x].name \in {"io.syntrop.Inference1", "io.systemd.inferenced1"}
      \/ s = "sentry" /\ f[x].name = "sentry.sock"
      \/ s = "fd" /\ f[x].name = "fd.sock"
      \/ s = "gateway" /\ f[x].name = "gateway.sock"
  BY <1>5 DEF Named, ClassifyUnixSocket, Slots
<1> QED
  BY <1>5, <1>6 DEF HoldsItsOwn, x

\* main has adopted its sockets and has not taken any yet.
Adopted ==
  main = "varlink" =>
    fds \in Shipped \cup FdLists /\ sockets = CheckAndAdoptSockets(fds)

LEMMA AdoptedStep ==
  ASSUME Adopted, [DaemonNext]_daemonVars
  PROVE  Adopted'
<1>1. CASE UNCHANGED <<main, fds, sockets>>
  BY <1>1 DEF Adopted
<1>2. ASSUME NEW how, Die(how) PROVE Adopted'
  BY <1>2 DEF Die, Adopted
<1>3. CASE Begin
  BY <1>3 DEF Begin, Adopted
<1>4. ASSUME NEW s \in Slots, TakeListener(s) PROVE Adopted'
  <2>1. NextPlace(s) # "varlink"
    BY DEF NextPlace, Slots
  <2> QED
    BY <1>4, <2>1 DEF TakeListener, Adopted
<1>5. CASE NotifyReady \/ Terminate \/ Drained
  BY <1>2, <1>5 DEF NotifyReady, Terminate, Drained, Adopted
<1>6. CASE Crash \/ GatewayFails \/ Finish \/ StopTimeout \/ WatchdogKill \/ StartTimeout
             \/ \E s \in Slots : BindFails(s)
  BY <1>2, <1>6 DEF Crash, GatewayFails, Finish, StopTimeout, WatchdogKill, StartTimeout,
                    BindFails
<1>7. CASE KillControlGroup \/ MonitorRuns \/ Clients \/ ChildEnds \/ Ping \/ Tick10 \/ GetStuck
             \/ (\E s \in Slots : ListenerDies(s)) \/ UNCHANGED daemonVars
  BY <1>1, <1>7 DEF KillControlGroup, MonitorRuns, Clients, ChildEnds, Ping, Tick10, GetStuck,
                    ListenerDies, lifeVars, daemonVars
<1> QED
  BY <1>3, <1>4, <1>5, <1>6, <1>7 DEF DaemonNext, MainRuns, Systemd, Restart, StartOnDemand

\* For any list of descriptors, in any order and with any duplicates, each slot holds
\* the last one that names it or failing that the one at its position; with a
\* shipped unit every slot holds its own.
THEOREM SlotsAlwaysMatch == DaemonSpec => []SlotsMatchNames
<1>1. DaemonInit => Adopted
  BY DEF DaemonInit, Adopted
<1>2. Adopted /\ [DaemonNext]_daemonVars => Adopted'
  BY AdoptedStep
<1>3. Adopted => SlotsMatchNames
  <2> SUFFICES ASSUME Adopted, main = "varlink"
               PROVE  /\ \A s \in Slots : sockets[s] = Intended(fds, s)
                      /\ fds \in Shipped => \A s \in Slots : HoldsItsOwn(fds, sockets, s)
    BY DEF SlotsMatchNames
  <2>1. fds \in Seq(Descriptors) /\ sockets = CheckAndAdoptSockets(fds)
    BY DaemonAssumption DEF Adopted
  <2>2. sockets = [s \in Slots |-> Intended(fds, s)]
    BY <2>1, AdoptsIntended
  <2> QED
    BY <2>2, ShippedHolds
<1> QED
  BY <1>1, <1>2, <1>3, PTL DEF DaemonSpec

=============================================================================
