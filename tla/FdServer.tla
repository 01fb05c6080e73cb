------------------------------ MODULE FdServer ------------------------------
(***************************************************************************)
(* The SCM_RIGHTS handoff server (fd_server.rs) and its quota              *)
(* (fd_quota.rs).  Every connection is a task on a multi-threaded runtime  *)
(* and serves one request; the tasks share nothing but the atomic counter  *)
(* of the quota, whose loads, exchanges and subtractions are the steps     *)
(* that interleave here.  Byte counts are in an abstract unit.             *)
(***************************************************************************)
EXTENDS Naturals, FiniteSets, Functions

CONSTANTS
  Conns,       \* connections, each accepted once
  Sizes,       \* size_bytes of the requests
  MaxMemfd,    \* MAX_MEMFD_BYTES, 16 GiB
  Ceiling,     \* ceiling_bytes, half of the RAM
  Word         \* 2^64

VARIABLES
  allocated,   \* allocated_bytes
  task,        \* the tasks: where they are, what they asked for and last read
  open         \* the connections whose memfd the daemon holds open

vars == <<allocated, task, open>>

\* The ceiling is half of a number of bytes: the saturated sum is over it.
ASSUME FdAssumption ==
  /\ IsFiniteSet(Conns) /\ Sizes \subseteq Nat /\ MaxMemfd \in Nat
  /\ Ceiling \in Nat /\ Word \in Nat /\ Ceiling < Word - 1
  /\ \A s \in Sizes : s < Word

Places ==
  {"reading", "loading", "reserving", "creating", "sending", "releasing",
   "subtracting", "replying", "returning", "done"}

\* A task; "after" is where it goes on once release has returned.
Task == [pc : Places, size : Sizes \cup {0}, seen : 0 .. Ceiling,
         after : {"replying", "returning"}]

Goto(c, pc) == task' = [task EXCEPT ![c].pc = pc]

At(c, pc) == task[c].pc = pc

\* A task that has nothing read yet, or whose locals are gone.
Blank(pc) == [pc |-> pc, size |-> 0, seen |-> 0, after |-> "replying"]

Finish(c) == task' = [task EXCEPT ![c] = Blank("done")]

----------------------------------------------------------------------------
Init ==
  /\ allocated = 0
  /\ task = [c \in Conns |-> Blank("reading")]
  /\ open = {}

\* The peer hung up, or sent what is no request.
NoRequest(c) ==
  /\ At(c, "reading")
  /\ Finish(c)
  /\ UNCHANGED <<allocated, open>>

\* An unknown action, or more than a single memfd may have.
BadRequest(c) ==
  /\ At(c, "reading")
  /\ Goto(c, "replying")
  /\ UNCHANGED <<allocated, open>>

Request(c, size) ==
  /\ At(c, "reading")
  /\ IF size > MaxMemfd THEN Goto(c, "replying")
     ELSE task' = [task EXCEPT ![c].pc = "loading", ![c].size = size]
  /\ UNCHANGED <<allocated, open>>

\* try_reserve: the first load.
Load(c) ==
  /\ At(c, "loading")
  /\ task' = [task EXCEPT ![c].pc = "reserving", ![c].seen = allocated]
  /\ UNCHANGED <<allocated, open>>

\* u64::saturating_add.
SaturatingAdd(a, b) == IF a + b < Word THEN a + b ELSE Word - 1

\* Mutation: the request alone is held against the ceiling.
TryReserveAlone(c) ==
  LET next == SaturatingAdd(task[c].seen, task[c].size)
  IN /\ At(c, "reserving")
     /\ \/ task[c].size > Ceiling /\ Goto(c, "replying") /\ UNCHANGED allocated
        \/ /\ task[c].size <= Ceiling /\ allocated = task[c].seen
           /\ allocated' = next /\ Goto(c, "creating")
        \/ /\ task[c].size <= Ceiling /\ allocated # task[c].seen
           /\ task' = [task EXCEPT ![c].seen = allocated] /\ UNCHANGED allocated
     /\ UNCHANGED open

\* Mutation: a store instead of the exchange.
TryReserveStore(c) ==
  LET next == SaturatingAdd(task[c].seen, task[c].size)
  IN /\ At(c, "reserving")
     /\ \/ next > Ceiling /\ Goto(c, "replying") /\ UNCHANGED allocated
        \/ next <= Ceiling /\ allocated' = next /\ Goto(c, "creating")
     /\ UNCHANGED open

\* Mutation: a failed exchange is tried again with the value it failed with.
TryReserveStale(c) ==
  LET next == SaturatingAdd(task[c].seen, task[c].size)
  IN /\ At(c, "reserving")
     /\ \/ next > Ceiling /\ Goto(c, "replying") /\ UNCHANGED allocated
        \/ /\ next <= Ceiling /\ allocated = task[c].seen
           /\ allocated' = next /\ Goto(c, "creating")
        \/ next <= Ceiling /\ allocated # task[c].seen /\ UNCHANGED <<allocated, task>>
     /\ UNCHANGED open

\* One turn of the loop of try_reserve: over the ceiling the request is refused,
\* else compare_exchange, which on failure yields the value to go on with.
TryReserve(c) ==
  LET next == SaturatingAdd(task[c].seen, task[c].size)
  IN /\ At(c, "reserving")
     /\ \/ /\ next > Ceiling
           /\ Goto(c, "replying")
           /\ UNCHANGED allocated
        \/ /\ next <= Ceiling /\ allocated = task[c].seen
           /\ allocated' = next
           /\ Goto(c, "creating")
        \/ /\ next <= Ceiling /\ allocated # task[c].seen
           /\ task' = [task EXCEPT ![c].seen = allocated]
           /\ UNCHANGED allocated
     /\ UNCHANGED open

CreateMemfd(c) ==
  /\ At(c, "creating")
  /\ Goto(c, "sending")
  /\ open' = open \cup {c}
  /\ UNCHANGED allocated

CreateFails(c) ==
  /\ At(c, "creating")
  /\ task' = [task EXCEPT ![c].pc = "releasing", ![c].after = "replying"]
  /\ UNCHANGED <<allocated, open>>

\* The memfd is passed on by reference: the daemon's own handle stays open.
SendFd(c) ==
  /\ At(c, "sending")
  /\ task' = [task EXCEPT ![c].pc = "releasing", ![c].after = "returning"]
  /\ UNCHANGED <<allocated, open>>

\* The peer is gone; here the memfd is dropped before the quota is released.
SendFails(c) ==
  /\ At(c, "sending")
  /\ task' = [task EXCEPT ![c].pc = "releasing", ![c].after = "returning"]
  /\ open' = open \ {c}
  /\ UNCHANGED allocated

\* release: a load, then fetch_sub of what is reserved, clamped to that load.
ReleaseLoad(c) ==
  /\ At(c, "releasing")
  /\ task' = [task EXCEPT ![c].pc = "subtracting", ![c].seen = allocated]
  /\ UNCHANGED <<allocated, open>>

ReleaseSub(c) ==
  LET amount == IF task[c].seen < task[c].size THEN task[c].seen ELSE task[c].size
  IN /\ At(c, "subtracting")
     /\ allocated' = (allocated + Word - amount) % Word
     /\ Goto(c, task[c].after)
     /\ UNCHANGED open

\* write_response, whether it succeeds or not.
Reply(c) ==
  /\ At(c, "replying")
  /\ Finish(c)
  /\ UNCHANGED <<allocated, open>>

\* handle_connection returns and drops what it still holds.
Return(c) ==
  /\ At(c, "returning")
  /\ Finish(c)
  /\ open' = open \ {c}
  /\ UNCHANGED allocated

\* Everything a task does by itself, once it has its request.
Serve(c) ==
  \/ Load(c) \/ TryReserve(c) \/ CreateMemfd(c) \/ CreateFails(c) \/ SendFd(c)
  \/ SendFails(c) \/ ReleaseLoad(c) \/ ReleaseSub(c) \/ Reply(c) \/ Return(c)

Next ==
  \E c \in Conns :
    \/ NoRequest(c) \/ BadRequest(c) \/ \E size \in Sizes : Request(c, size)
    \/ Serve(c)

\* The runtime polls every task that can go on.  A peer may never send.
Fairness == \A c \in Conns : WF_vars(Serve(c))

Spec == Init /\ [][Next]_vars /\ Fairness

----------------------------------------------------------------------------
(* Properties.                                                              *)

\* Every component has its type, and no task ever reads a counter beyond the
\* ceiling.
TypeOK ==
  /\ allocated \in 0 .. Word - 1
  /\ task \in [Conns -> Task]
  /\ open \subseteq Conns

\* The tasks between a successful try_reserve and the fetch_sub of release.
Reserved ==
  {c \in Conns : task[c].pc \in {"creating", "sending", "releasing", "subtracting"}}

SizeOf(S) == SumFunctionOnSet([c \in Conns |-> task[c].size], S)

\* The counter is the sum of the reservations that are held, and within the
\* ceiling, however the loads, exchanges and subtractions of the connections
\* interleave: nothing is lost, counted twice or wrapped around, although release
\* loads and subtracts in two steps.
QuotaIsExact == allocated = SizeOf(Reserved) /\ allocated <= Ceiling

\* Every request that reached the quota comes to its end: the exchange loop is
\* not left spinning and nobody keeps a reservation.
RequestEnds == \A c \in Conns : At(c, "loading") ~> At(c, "done")

\* fd_quota.rs: the quota "bounds concurrent in-flight memfd allocations", so what
\* the daemon has open stays within the ceiling; fd_server.rs adds that its handle
\* "is consumed by send_fd_over_unix".  It is not: it is open until the handler
\* returns, after the reservation was released.
OpenIsBounded == SizeOf(open) <= Ceiling
=============================================================================
