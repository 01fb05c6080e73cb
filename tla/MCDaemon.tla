------------------------------ MODULE MCDaemon ------------------------------
(***************************************************************************)
(* The two socket units of the repository with their sockets in any order, *)
(* no sockets, every list of up to three from five kinds, and the sockets  *)
(* of both units together.                                                 *)
(***************************************************************************)
EXTENDS Daemon

SeqsUpTo(S, n) == UNION {[1 .. k -> S] : k \in 0 .. n}

Unix(name) == [family |-> "Unix", name |-> name]

Orders == {o \in [1 .. 4 -> 1 .. 4] : \A i, j \in 1 .. 4 : o[i] = o[j] => i = j}

UnitOf(varlink) ==
  <<Unix(varlink), Unix("sentry.sock"), Unix("gateway.sock"), Unix("fd.sock")>>

New == UnitOf("io.syntrop.Inference1")
Old == UnitOf("io.systemd.inferenced1")

mcShipped == {[i \in 1 .. 4 |-> u[o[i]]] : u \in {New, Old}, o \in Orders}

Odd ==
  {Unix("io.systemd.inferenced1"), Unix("gateway.sock"), Unix("other"),
   [family |-> "Inet", name |-> "unnamed"], [family |-> "Error", name |-> "unnamed"]}

mcFdLists == SeqsUpTo(Odd, 3) \cup {New \o Old, Old \o New}
\* Nothing to rely on, or the last means only: where an earlier one always works
\* the behaviours are some of those.
mcSteady == {{}, {"BusSocket"}}
=============================================================================
