------------------------------ MODULE Hotplug -------------------------------
(***************************************************************************)
(* Hotplug end to end: the machine changes, the kernel multicasts uevents  *)
(* (external), and the task of main.rs is to receive them, filter them,    *)
(* wait and refresh the topology: discover the machine, and only then wait *)
(* for the arbiter's lock.  Discovery keeps, in host, the machine that the *)
(* arbiter's topology was made from.                                       *)
(***************************************************************************)
EXTENDS Discovery, Sequences

CONSTANT QueueMax     \* uevents that fit the socket's buffer

VARIABLES
  machine,    \* the hardware as it is
  queue,      \* uevents in the socket
  loop,       \* where the task of main.rs is
  seen,       \* the machine as discover found it, while the lock is awaited
  missed      \* history: an event found the buffer full

hotplugVars == <<discoveryVars, machine, queue, loop, seen, missed>>

----------------------------------------------------------------------------
(* Events.                                                                  *)

Uevent(subsystem, devname) == [subsystem |-> subsystem, devname |-> devname]

IsComputeDevice(u) ==
  u.subsystem \in {"drm", "accel", "kfd"}
    \/ (u.subsystem = "misc" /\ u.devname = "hailo")

\* Uevents that tell of no change here; one that does not parse is like the last.
Noise == {Uevent("kfd", "none"), Uevent("input", "other")}

\* The machine h becomes g by one event: a node comes or goes, or a driver resets
\* its device and leaves a trace in the crash logs.
Announced(h, g) ==
  LET nodes == (h.npus \ g.npus) \cup (g.npus \ h.npus)
  IN CASE nodes \cap Accels # {} -> {Uevent("accel", "other")}
       [] nodes \cap Hailos # {} -> {Uevent("misc", "hailo")}
       [] h.drms # g.drms \/ (h.hung # g.hung /\ "hailo" \notin g.hung \ h.hung) ->
            {Uevent("drm", "other")}
       [] OTHER -> {}

\* g differs from h in one thing.
OneChange(h, g) ==
  LET fields == DOMAIN h
  IN /\ \E f \in fields : h[f] # g[f] /\ \A e \in fields \ {f} : h[e] = g[e]
     /\ \E p \in Planes : (h.npus \ g.npus) \cup (g.npus \ h.npus) \subseteq {p}

----------------------------------------------------------------------------
(* The kernel.                                                              *)

\* A full buffer loses the event; recv_from returns ENOBUFS once, which is ignored.
Multicast(us) ==
  IF us = {} THEN UNCHANGED <<queue, missed>>
  ELSE \E u \in us :
         IF Len(queue) < QueueMax
         THEN queue' = Append(queue, u) /\ UNCHANGED missed
         ELSE missed' = TRUE /\ UNCHANGED queue

MachineChanges(g) ==
  /\ OneChange(machine, g)
  /\ machine' = g
  /\ Multicast(Announced(machine, g))
  /\ UNCHANGED <<discoveryVars, loop, seen>>

OtherUevent ==
  /\ Len(queue) < QueueMax
  /\ Multicast(Noise)
  /\ UNCHANGED <<discoveryVars, machine, loop, seen>>

----------------------------------------------------------------------------
(* The task of main.rs.                                                     *)

\* open_uevent_socket makes a socket of this family, and what it receives comes
\* from an address of this family.
AddressFamily == "netlink"

\* recv_from of the UdpSocket that the descriptor is wrapped in: the message is taken
\* off the socket, and is returned only with a sender's address that is an internet
\* address; any other is an error.
RecvFrom(u) == IF AddressFamily \in {"inet", "inet6"} THEN {u} ELSE {}

\* One round of the loop: an error, a message that does not parse and a device that
\* is none of ours all lead back to recv_from.
Receive ==
  /\ loop = "receiving" /\ queue # <<>>
  /\ queue' = Tail(queue)
  /\ loop' = IF \E u \in RecvFrom(Head(queue)) : IsComputeDevice(u)
             THEN "settling" ELSE loop
  /\ UNCHANGED <<discoveryVars, machine, seen, missed>>

\* After 200 ms, refresh_topology: discover ...
DiscoverMachine ==
  /\ loop = "settling"
  /\ seen' = machine
  /\ loop' = "updating"
  /\ UNCHANGED <<discoveryVars, machine, queue, missed>>

\* ... and update_topology, once the lock is had.
Update ==
  /\ loop = "updating"
  /\ RefreshTopology(seen)
  /\ loop' = "receiving"
  /\ seen' = host'
  /\ UNCHANGED <<machine, queue, missed>>

----------------------------------------------------------------------------
HotplugInit ==
  /\ DiscoveryInit
  /\ machine = host /\ seen = host
  /\ queue = <<>> /\ loop = "receiving" /\ missed = FALSE

HotplugNext ==
  \/ Receive \/ DiscoverMachine \/ Update
  \/ OtherUevent
  \/ \E g \in Hosts : MachineChanges(g)

HotplugSpec == HotplugInit /\ [][HotplugNext]_hotplugVars

----------------------------------------------------------------------------
\* The planes the arbiter offers are the devices there are.
Current == DOMAIN topology = machine.npus \cup DOMAIN machine.drms \cup {Cpu}

\* What main.rs:151 says of the task, a "listener for hardware hotplug & driver
\* resets": when no uevent is left and none was lost, the arbiter knows every device
\* that came and none that went.  The code does not keep it: recv_from turns every
\* uevent into an error and drops it, so no refresh ever takes place.
QuietIsCurrent ==
  ~missed /\ queue = <<>> /\ loop = "receiving" => Current
=============================================================================
