----------------------------- MODULE Activation -----------------------------
(***************************************************************************)
(* Socket activation (activation.rs): which of the descriptors passed by   *)
(* systemd becomes which of the daemon's four listeners.  A descriptor is  *)
(* what getsockname says of it; the result names, for each slot, the       *)
(* position of the descriptor adopted, or 0.                               *)
(***************************************************************************)
EXTENDS Naturals, Sequences

Slots == {"varlink", "sentry", "gateway", "fd"}

\* Basenames of Unix sockets; "other" is any further one, "unnamed" none at all.
Names ==
  {"io.syntrop.Inference1", "io.systemd.inferenced1", "sentry.sock", "fd.sock",
   "gateway.sock", "other", "unnamed"}

\* getsockname: a Unix socket, an IPv4 or IPv6 one, one of another family, or an
\* error (the descriptor is closed or is no socket).
Descriptors ==
  [family : {"Unix"}, name : Names]
    \cup [family : {"Inet", "Unrecognized", "Error"}, name : {"unnamed"}]

\* Mutation: the alias of the older socket unit is forgotten.
ClassifyWithoutAlias(name) ==
  CASE name = "io.syntrop.Inference1" -> "varlink"
    [] name = "sentry.sock" -> "sentry"
    [] name = "fd.sock" -> "fd"
    [] name = "gateway.sock" -> "gateway"
    [] OTHER -> "none"

\* classify_unix_socket.
ClassifyUnixSocket(name) ==
  CASE name \in {"io.syntrop.Inference1", "io.systemd.inferenced1"} -> "varlink"
    [] name = "sentry.sock" -> "sentry"
    [] name = "fd.sock" -> "fd"
    [] name = "gateway.sock" -> "gateway"
    [] OTHER -> "none"

\* The slot a descriptor names by itself: a TCP socket can only be the gateway's.
Named(d) ==
  CASE d.family = "Unix" -> ClassifyUnixSocket(d.name)
    [] d.family = "Inet" -> "gateway"
    [] OTHER -> "none"

\* The slot of an unclassified Unix socket at position i, counted from 1.
Positional(i) ==
  IF i \in 1 .. 4 THEN <<"varlink", "sentry", "gateway", "fd">>[i] ELSE "none"

NoSockets == [s \in Slots |-> 0]

\* One turn of the loop in check_and_adopt_sockets.  A named socket takes its slot
\* from whoever has it; any other one takes the slot of its position if that is
\* empty.  What is not kept, or not kept any more, is closed.
Adopt(sockets, i, d) ==
  IF Named(d) # "none" THEN [sockets EXCEPT ![Named(d)] = i]
  ELSE IF d.family = "Unix" /\ Positional(i) # "none"
          /\ sockets[Positional(i)] = 0
       THEN [sockets EXCEPT ![Positional(i)] = i] ELSE sockets

\* check_and_adopt_sockets, for a process that is_socket_activated if there are
\* any descriptors.
CheckAndAdoptSockets(fds) ==
  LET after[i \in 0 .. Len(fds)] ==
        IF i = 0 THEN NoSockets ELSE Adopt(after[i - 1], i, fds[i])
  IN after[Len(fds)]

----------------------------------------------------------------------------
(* What it should compute, said without the loop.                           *)

\* The last descriptor that names the slot; if there is none, the one at the
\* slot's position, provided that it is a Unix socket which names no slot at all.
Intended(fds, s) ==
  LET naming == {i \in DOMAIN fds : Named(fds[i]) = s}
      placed == {i \in DOMAIN fds : /\ Positional(i) = s
                                    /\ fds[i].family = "Unix"
                                    /\ Named(fds[i]) = "none"}
  IN CASE naming # {} -> CHOOSE i \in naming : \A j \in naming : j <= i
       [] naming = {} /\ placed # {} -> CHOOSE i \in placed : TRUE
       [] OTHER -> 0

\* Whether a slot holds the socket of its own name.
HoldsItsOwn(fds, sockets, s) ==
  /\ sockets[s] # 0
  /\ \/ fds[sockets[s]].family = "Inet" /\ s = "gateway"
     \/ <<s, fds[sockets[s]].name>> \in
          {<<"varlink", "io.syntrop.Inference1">>, <<"varlink", "io.systemd.inferenced1">>,
           <<"sentry", "sentry.sock">>, <<"fd", "fd.sock">>,
           <<"gateway", "gateway.sock">>}
=============================================================================
