------------------------------- MODULE Daemon -------------------------------
(***************************************************************************)
(* The life of the daemon under systemd: main.rs from the adoption of its  *)
(* sockets to its end, the notifications of notify.rs, the watchdog task   *)
(* and the inhibitor's monitor (Inhibitor), with crashes, a lock that is   *)
(* never given back, listeners that give up and notifications that are     *)
(* lost.  Of systemd (external) it has what the shipped units ask for:     *)
(* Type=notify, WatchdogSec=30s, Restart=on-failure and the default        *)
(* KillMode, which ends the whole control group.                           *)
(***************************************************************************)
EXTENDS Inhibitor, Activation

CONSTANTS
  Shipped,      \* the lists of descriptors that the shipped socket units make
  FdLists,      \* further lists of descriptors, the empty one among them
  Steady,       \* sets of inhibitor means that always work
  MaxFaults     \* bound on the faults of a behaviour

VARIABLES
  main,       \* where main() is; a slot's name while its listener is being set up
  fds,        \* the descriptors of this start
  sockets,    \* ActivatedSockets: those not taken yet
  tasks,      \* the four servers: not there yet, on, or dead
  stuck,      \* somebody holds the arbiter's lock and never gives it back
  known,      \* systemd has had READY=1
  age,        \* ticks of the watchdog interval since systemd last heard of it
  due,        \* a tick of the watchdog task is waiting to be served
  lost,       \* history: pings that were lost since one arrived
  result,     \* how the process ended, as systemd sees it
  faults      \* faults so far

lifeVars == <<main, fds, sockets, tasks, stuck, known, age, due, lost, result>>
daemonVars == <<vars, lifeVars, faults>>

ASSUME DaemonAssumption ==
  /\ \A f \in Shipped \cup FdLists : f \in Seq(Descriptors)
  /\ Steady \subseteq SUBSET Means
  /\ Shipped # {} /\ <<>> \in FdLists /\ MaxFaults \in Nat

\* Each of the two socket units has a Varlink socket and the other three.
ASSUME ShippedAssumption ==
  \A f \in Shipped : \E v \in {"io.syntrop.Inference1", "io.systemd.inferenced1"} :
    {v, "sentry.sock", "gateway.sock", "fd.sock"} \subseteq {f[i].name : i \in DOMAIN f}

\* The order in which main sets its listeners up.
NextPlace(s) ==
  CASE s = "varlink" -> "sentry" [] s = "sentry" -> "fd"
    [] s = "fd" -> "gateway" [] s = "gateway" -> "notify"

NoTasks == [s \in Slots |-> "none"]

Fault == faults < MaxFaults /\ faults' = faults + 1

Alive == main # "down"

\* send_notification: the datagram arrives, or an error is logged and forgotten.
Notify(arrives, fails) == (arrives /\ UNCHANGED faults) \/ (fails /\ Fault)

----------------------------------------------------------------------------
(* The end of the process.  Leases, counters and locks held by descriptors   *)
(* go with it; a systemd-inhibit child does not, for it is not killed on     *)
(* drop.                                                                    *)
Die(how) ==
  /\ main' = "down" /\ result' = how
  /\ fds' = <<>> /\ sockets' = NoSockets /\ tasks' = NoTasks
  /\ stuck' = FALSE /\ known' = FALSE /\ age' = 0 /\ due' = FALSE /\ lost' = 0
  /\ End(InStatus("held") \cup InStatus("parked"))
  /\ monitor' = "off" /\ prev' = 0 /\ todo' = 0
  /\ count' = 0 /\ handle' = None /\ inhibited' = FALSE
  /\ UNCHANGED <<steady, child>>

\* A crash at any point; an error that ends main early looks the same from outside
\* (a descriptor that cannot be set up, a discovery that fails).
Crash == Alive /\ Fault /\ Die("failed")

----------------------------------------------------------------------------
(* main().                                                                  *)

\* check_and_adopt_sockets; nothing else runs yet.
Begin ==
  /\ main = "down" /\ child = "none"
  /\ fds' \in Shipped \cup FdLists
  /\ sockets' = CheckAndAdoptSockets(fds')
  /\ main' = "varlink" /\ result' = "none"
  /\ UNCHANGED <<vars, tasks, stuck, known, age, due, lost, faults>>

\* systemd starts a service that failed again after RestartSec=3s (too slowly for
\* the limit of starts), and one that ended well when somebody connects.
Restart == result # "clean" /\ Begin
StartOnDemand == result = "clean" /\ Begin

\* The listener of slot s is the socket adopted, or one that is bound now.  From
\* the first one on all that matters of the sockets is which slots they fill.
TakeListener(s) ==
  /\ main = s
  /\ tasks' = [tasks EXCEPT ![s] = "on"]
  /\ fds' = <<>>
  /\ sockets' = [q \in Slots |-> IF q = s \/ sockets[q] = 0 THEN 0 ELSE 1]
  /\ main' = NextPlace(s)
  /\ UNCHANGED <<vars, stuck, known, age, due, lost, result, faults>>

BindFails(s) ==
  /\ main = s /\ sockets[s] = 0
  /\ Fault
  /\ Die("failed")

\* Mutation: READY=1 is sent while the gateway is still to be bound.
NotifyReadyEarly ==
  /\ main = "gateway" \/ main = "notify"
  /\ main' = IF main = "notify" THEN "serving" ELSE main
  /\ monitor' = IF main = "notify" THEN "sleeping" ELSE monitor
  /\ known' = TRUE
  /\ UNCHANGED <<status, steady, prev, todo, count, handle, inhibited, child, fds,
                 sockets, tasks, stuck, age, due, lost, result, faults>>

\* notify_systemd_ready, after which the watchdog's and the monitor's tasks start.
\* A failure is only logged.
NotifyReady ==
  /\ main = "notify"
  /\ main' = "serving" /\ monitor' = "sleeping" /\ due' = TRUE
  /\ Notify(known' = TRUE, known' = FALSE)
  /\ UNCHANGED <<status, steady, prev, todo, count, handle, inhibited, child, fds,
                 sockets, tasks, stuck, age, lost, result>>

\* SIGTERM or SIGINT: the handlers are installed when the gateway is served; until
\* then the signal ends the process.  shutdown_signal asks for the list of models,
\* which takes the lock, before it lets the gateway stop.  systemd does not mind the
\* watchdog of a service that is being stopped.
Terminate ==
  \/ main \in Slots \cup {"notify"} /\ Die("clean") /\ UNCHANGED faults
  \/ /\ main = "serving"
     /\ main' = "draining" /\ age' = 0 /\ due' = FALSE /\ lost' = 0
     /\ UNCHANGED <<vars, fds, sockets, tasks, stuck, known, result, faults>>

\* Served over TCP, the gateway then waits for the requests under way, over a Unix
\* socket it ends at once; and the watchdog's task is aborted.
Drained ==
  /\ main = "draining" /\ ~stuck
  /\ main' = "quiescing"
  /\ UNCHANGED <<vars, fds, sockets, tasks, stuck, known, age, due, lost, result, faults>>

\* quiesce_for_sleep and notify_systemd_stopping.
Finish == main = "quiescing" /\ ~stuck /\ Die("clean") /\ UNCHANGED faults

\* The stop takes too long for systemd.
StopTimeout ==
  main \in {"draining", "quiescing"} /\ Die("clean") /\ UNCHANGED faults

----------------------------------------------------------------------------
(* The servers.                                                             *)

\* accept fails: the Varlink and the descriptor server end for good, the gateway
\* on a Unix socket takes the daemon with it; the sentry server goes on.
ListenerDies(s) ==
  /\ s \in {"varlink", "fd"} /\ tasks[s] = "on" /\ Fault
  /\ tasks' = [tasks EXCEPT ![s] = "dead"]
  /\ UNCHANGED <<vars, main, fds, sockets, stuck, known, age, due, lost, result>>

GatewayFails == main = "serving" /\ Fault /\ Die("failed")

GetStuck ==
  /\ Alive /\ ~stuck /\ tasks["varlink"] # "none" /\ Fault
  /\ stuck' = TRUE
  /\ UNCHANGED <<vars, main, fds, sockets, tasks, known, age, due, lost, result>>

\* What clients do to leases, and what the monitor does about it.
Clients ==
  /\ tasks # NoTasks /\ ~stuck
  /\ Leases
  /\ UNCHANGED <<lifeVars, faults>>

MonitorRuns ==
  /\ stuck => monitor # "sleeping"
  /\ Monitor
  /\ UNCHANGED <<lifeVars, faults>>

ChildEnds == ChildExits /\ UNCHANGED <<lifeVars, faults>>

----------------------------------------------------------------------------
(* The watchdog.                                                            *)

\* Mutation: the ping does not depend on the health check.
PingUnchecked ==
  /\ main = "serving" /\ due
  /\ due' = FALSE
  /\ Notify(age' = 0 /\ lost' = 0, lost' = lost + 1 /\ UNCHANGED age)
  /\ UNCHANGED <<vars, main, fds, sockets, tasks, stuck, known, result>>

\* A turn of the watchdog task: health_check finds the lock free in time and the
\* ping arrives, or one of the two goes wrong this time.
Ping ==
  /\ main = "serving" /\ due /\ ~stuck
  /\ due' = FALSE
  /\ Notify(age' = 0 /\ lost' = 0, lost' = lost + 1 /\ UNCHANGED age)
  /\ UNCHANGED <<vars, main, fds, sockets, tasks, stuck, known, result>>

\* WatchdogSec in intervals of the task.
WatchdogTicks == 3

\* Mutation: the task pings every 30 seconds.
IntervalOfWatchdog == 3

\* The interval of the task: 10 seconds, one tick.
Interval == 1

\* Ten seconds go by, during which a daemon that can ping does.
Tick10 ==
  /\ main = "serving" /\ known /\ age < WatchdogTicks
  /\ due => stuck
  /\ age' = age + 1
  /\ due' = (age' % Interval = 0)
  /\ UNCHANGED <<vars, main, fds, sockets, tasks, stuck, known, lost, result,
                 faults>>

\* systemd ends a service that it has not heard of for WatchdogSec, or that is
\* not ready in time.
WatchdogKill ==
  /\ main = "serving" /\ age = WatchdogTicks
  /\ Die("watchdog") /\ UNCHANGED faults

StartTimeout == Alive /\ ~known /\ main \notin {"draining", "quiescing"}
                /\ (main = "serving" \/ stuck) /\ Die("timeout") /\ UNCHANGED faults

\* The rest of the control group is ended before the service starts again.
KillControlGroup ==
  /\ main = "down" /\ child # "none"
  /\ child' = "none"
  /\ UNCHANGED <<status, steady, monitor, prev, todo, count, handle, inhibited,
                 lifeVars, faults>>

----------------------------------------------------------------------------
DaemonInit ==
  /\ LInit /\ steady \in Steady
  /\ monitor = "off" /\ prev = 0 /\ todo = 0
  /\ count = 0 /\ handle = None /\ inhibited = FALSE /\ child = "none"
  /\ main = "down" /\ result = "none"
  /\ fds = <<>> /\ sockets = NoSockets /\ tasks = NoTasks
  /\ stuck = FALSE /\ known = FALSE /\ age = 0 /\ due = FALSE /\ lost = 0
  /\ faults = 0

MainRuns == NotifyReady \/ Finish \/ \E s \in Slots : TakeListener(s)

Systemd ==
  Restart \/ WatchdogKill \/ StartTimeout \/ StopTimeout \/ KillControlGroup

DaemonNext ==
  \/ MainRuns \/ Systemd \/ MonitorRuns \/ Ping \/ Tick10
  \/ StartOnDemand \/ Crash \/ Terminate \/ Drained \/ GatewayFails \/ GetStuck
  \/ Clients \/ ChildEnds
  \/ \E s \in Slots : BindFails(s) \/ ListenerDies(s)

\* main and the tasks run on unless they are stuck, time passes and systemd keeps
\* to its units; clients, faults and signals are free to happen or not.
DaemonSpec ==
  /\ DaemonInit /\ [][DaemonNext]_daemonVars
  /\ WF_daemonVars(MainRuns) /\ WF_daemonVars(Systemd) /\ WF_daemonVars(MonitorRuns)
  /\ WF_daemonVars(Ping) /\ WF_daemonVars(Tick10)

----------------------------------------------------------------------------
(* Properties.                                                              *)

\* Sockets go where their names say, whatever their order: each slot holds the
\* last descriptor that names it and only failing that one by position, and with
\* the shipped socket units, the older one too, no listener is handed another's
\* socket.
SlotsMatchNames ==
  main = "varlink" =>
    /\ \A s \in Slots : sockets[s] = Intended(fds, s)
    /\ fds \in Shipped => \A s \in Slots : HoldsItsOwn(fds, sockets, s)

\* systemd is told READY=1 only once each of the four servers has its listener, so
\* what is ordered after the service finds them.
ReadyIsServed == known => \A s \in Slots : tasks[s] # "none"

\* The watchdog is patient: a daemon whose lock is free is not ended by systemd
\* for one ping that was late or lost.
WatchdogIsPatient ==
  [][result' = "watchdog" => result = "watchdog" \/ stuck \/ lost >= 2]_daemonVars

\* A daemon that crashed, was ended or holds its own lock for ever is replaced by
\* one that serves, unless somebody stops the service, once faults have ceased.
ServiceReturns ==
  stuck \/ result \notin {"none", "clean"}
    ~> result = "clean" \/ main \in {"draining", "quiescing"}
         \/ (main = "serving" /\ known /\ ~stuck)
=============================================================================
