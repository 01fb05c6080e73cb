--------------------------- MODULE FdServerProofs ---------------------------
(***************************************************************************)
(* Proofs about the handoff server and its quota, for every number of      *)
(* connections, every set of sizes and every ceiling.                      *)
(***************************************************************************)
EXTENDS FdServer, SumLemmas

\* What a task reads before it gives its reservation back is at least that
\* reservation: what fetch_sub takes off is never clamped.
Unclamped == \A c \in Conns : At(c, "subtracting") => task[c].size <= task[c].seen

\* The counter and the tasks, as every step needs them.
QuotaInv == TypeOK /\ Unclamped /\ QuotaIsExact

\* A step of task c, which becomes t, and of no other.
Becomes(c, t) == t \in Task /\ task' = [task EXCEPT ![c] = t]

Holding == {"creating", "sending", "releasing", "subtracting"}

----------------------------------------------------------------------------
(* Tasks.                                                                   *)

(* A step of one task changes no other. *)
LEMMA OneTask ==
  ASSUME TypeOK, NEW c \in Conns, NEW t, Becomes(c, t)
  PROVE  /\ task' \in [Conns -> Task]
         /\ task'[c] = t
         /\ \A d \in Conns \ {c} : task'[d] = task[d]
BY DEF Becomes, TypeOK

(* The blank tasks have their type. *)
LEMMA BlankType ==
  ASSUME NEW pc \in Places
  PROVE  Blank(pc) \in Task /\ Blank(pc).pc = pc
BY FdAssumption DEF Blank, Task

(* The locals of a task. *)
LEMMA TaskFields ==
  ASSUME NEW t \in Task
  PROVE  /\ t.pc \in Places /\ t.after \in {"replying", "returning"}
         /\ t.size \in Sizes \cup {0} /\ t.size \in Nat /\ t.size < Word
         /\ t.seen \in 0 .. Ceiling
<1>1. /\ t.pc \in Places /\ t.after \in {"replying", "returning"}
      /\ t.size \in Sizes \cup {0} /\ t.seen \in 0 .. Ceiling
  BY DEF Task
<1>2. \A z \in Sizes \cup {0} : z \in Nat /\ z < Word
  BY FdAssumption
<1> QED
  BY <1>1, <1>2

(* A task with another place or another local. *)
LEMMA TaskMoves ==
  ASSUME NEW t \in Task, NEW pc \in Places, NEW a \in {"replying", "returning"},
         NEW s \in 0 .. Ceiling, NEW z \in Sizes \cup {0}
  PROVE  /\ [t EXCEPT !.pc = pc] \in Task
         /\ [t EXCEPT !.pc = pc, !.after = a] \in Task
         /\ [t EXCEPT !.pc = pc, !.seen = s] \in Task
         /\ [t EXCEPT !.seen = s] \in Task
         /\ [t EXCEPT !.pc = pc, !.size = z] \in Task
         /\ [t EXCEPT !.pc = pc].pc = pc /\ [t EXCEPT !.pc = pc].size = t.size
         /\ [t EXCEPT !.seen = s].pc = t.pc
BY DEF Task

----------------------------------------------------------------------------
(* Sums of reservations.                                                    *)

(* What is reserved, in numbers. *)
LEMMA Amounts ==
  ASSUME TypeOK
  PROVE  /\ IsFiniteSet(Reserved) /\ Reserved \subseteq Conns
         /\ \A c \in Conns : [d \in Conns |-> task[d].size][c] = task[c].size
         /\ \A c \in Conns : task[c].size \in Nat
         /\ SizeOf(Reserved) \in Nat
         /\ \A c \in Reserved : task[c].size <= SizeOf(Reserved)
<1>1. IsFiniteSet(Reserved) /\ Reserved \subseteq Conns
  BY FdAssumption, FS_Subset DEF Reserved
<1> DEFINE f == [d \in Conns |-> task[d].size]
<1>2. \A c \in Conns : f[c] = task[c].size /\ f[c] \in Nat
  BY TaskFields DEF TypeOK
<1>3. SizeOf(Reserved) = SumFunctionOnSet(f, Reserved)
  BY DEF SizeOf
<1> HIDE DEF f
<1>4. SizeOf(Reserved) \in Nat
  BY <1>1, <1>2, <1>3, SumNat
<1>5. ASSUME NEW c \in Reserved
      PROVE  task[c].size <= SizeOf(Reserved)
  <2>1. SumFunctionOnSet(f, Reserved) = f[c] + SumFunctionOnSet(f, Reserved \ {c})
    BY <1>1, <1>2, SumTake
  <2>2. SumFunctionOnSet(f, Reserved \ {c}) \in Nat
    BY <1>1, <1>2, SumNat, FS_Subset
  <2> QED
    BY <1>1, <1>2, <1>3, <2>1, <2>2
<1> QED
  BY <1>1, <1>2, <1>4, <1>5 DEF f

(* A step of c changes the reservations of c only. *)
LEMMA OtherReservations ==
  ASSUME TypeOK, TypeOK', NEW c \in Conns, \A d \in Conns \ {c} : task'[d] = task[d]
  PROVE  /\ Reserved \ {c} = Reserved' \ {c}
         /\ SumFunctionOnSet([d \in Conns |-> task'[d].size], Reserved' \ {c})
              = SumFunctionOnSet([d \in Conns |-> task[d].size], Reserved \ {c})
         /\ SizeOf(Reserved) = (IF c \in Reserved THEN task[c].size ELSE 0)
              + SumFunctionOnSet([d \in Conns |-> task[d].size], Reserved \ {c})
         /\ SizeOf(Reserved)' = (IF c \in Reserved' THEN task'[c].size ELSE 0)
              + SumFunctionOnSet([d \in Conns |-> task'[d].size], Reserved' \ {c})
         /\ SumFunctionOnSet([d \in Conns |-> task[d].size], Reserved \ {c}) \in Nat
<1> DEFINE f == [d \in Conns |-> task[d].size]
           g == [d \in Conns |-> task'[d].size]
<1>1. \A d \in Conns : /\ f[d] = task[d].size /\ f[d] \in Nat
                       /\ g[d] = task'[d].size /\ g[d] \in Nat
  BY TaskFields DEF TypeOK
<1>2. SizeOf(Reserved) = SumFunctionOnSet(f, Reserved)
  BY DEF SizeOf
<1>3. SizeOf(Reserved)' = SumFunctionOnSet(g, Reserved')
  BY DEF SizeOf
<1>4. /\ Reserved \subseteq Conns /\ Reserved' \subseteq Conns
      /\ Reserved \ {c} = Reserved' \ {c}
  BY DEF Reserved
<1> HIDE DEF f, g
<1>5. IsFiniteSet(Reserved) /\ IsFiniteSet(Reserved')
  BY <1>4, FdAssumption, FS_Subset
<1>6. IsFiniteSet(Reserved \ {c})
  BY <1>5, FS_Subset
<1>7. SumFunctionOnSet(g, Reserved \ {c}) = SumFunctionOnSet(f, Reserved \ {c})
  BY <1>1, <1>4, <1>6, SumSame
<1>8. SumFunctionOnSet(f, Reserved \ {c}) \in Nat
  BY <1>1, <1>4, <1>6, SumNat
<1>9. SumFunctionOnSet(f, Reserved)
        = (IF c \in Reserved THEN task[c].size ELSE 0) + SumFunctionOnSet(f, Reserved \ {c})
  <2>1. CASE c \in Reserved
    BY <1>1, <1>4, <1>5, <2>1, SumTake
  <2>2. CASE c \notin Reserved
    <3>1. Reserved \ {c} = Reserved
      BY <2>2
    <3> QED
      BY <1>8, <2>2, <3>1
  <2> QED
    BY <2>1, <2>2
<1>10. SumFunctionOnSet(g, Reserved')
        = (IF c \in Reserved' THEN task'[c].size ELSE 0) + SumFunctionOnSet(g, Reserved' \ {c})
  <2>1. CASE c \in Reserved'
    BY <1>1, <1>4, <1>5, <2>1, SumTake
  <2>2. CASE c \notin Reserved'
    <3>1. Reserved' \ {c} = Reserved'
      BY <2>2
    <3> QED
      BY <1>4, <1>7, <1>8, <2>2, <3>1
  <2> QED
    BY <2>1, <2>2
<1> QED
  BY <1>2, <1>3, <1>4, <1>7, <1>8, <1>9, <1>10, Zenon DEF f, g

----------------------------------------------------------------------------
(* Steps.                                                                   *)

(* The step of c leaves the types and the other tasks' clamps alone. *)
LEMMA StepTypes ==
  ASSUME QuotaInv, NEW c \in Conns, NEW t, Becomes(c, t),
         allocated' \in 0 .. Word - 1, open' \subseteq Conns,
         t.pc = "subtracting" => t.size <= t.seen
  PROVE  /\ TypeOK' /\ Unclamped'
         /\ task'[c] = t /\ \A d \in Conns \ {c} : task'[d] = task[d]
         /\ c \in Reserved <=> task[c].pc \in Holding
         /\ c \in Reserved' <=> t.pc \in Holding
<1>1. /\ task' \in [Conns -> Task] /\ task'[c] = t
      /\ \A d \in Conns \ {c} : task'[d] = task[d]
  BY OneTask DEF QuotaInv
<1>2. TypeOK'
  BY <1>1 DEF TypeOK
<1>3. Unclamped'
  BY <1>1 DEF QuotaInv, Unclamped, At
<1>4. c \in Reserved <=> task[c].pc \in Holding
  BY DEF Reserved, Holding
<1>5. c \in Reserved' <=> t.pc \in Holding
  BY <1>1 DEF Reserved, Holding
<1> QED
  BY <1>1, <1>2, <1>3, <1>4, <1>5

(* A step that leaves the counter alone, and neither takes nor gives back. *)
LEMMA QuietStep ==
  ASSUME QuotaInv, NEW c \in Conns, NEW t, Becomes(c, t),
         allocated' = allocated, open' \subseteq Conns,
         t.pc = "subtracting" => t.size <= t.seen,
         task[c].pc \in Holding <=> t.pc \in Holding,
         t.pc \in Holding => t.size = task[c].size
  PROVE  QuotaInv'
<1>1. allocated' \in 0 .. Word - 1
  BY DEF QuotaInv, TypeOK
<1>2. /\ TypeOK' /\ Unclamped'
      /\ task'[c] = t /\ \A d \in Conns \ {c} : task'[d] = task[d]
      /\ c \in Reserved <=> c \in Reserved'
      /\ c \in Reserved => task'[c].size = task[c].size
  BY <1>1, StepTypes
<1>3. SizeOf(Reserved)' = SizeOf(Reserved)
  <2> DEFINE R == SumFunctionOnSet([d \in Conns |-> task[d].size], Reserved \ {c})
             Q == SumFunctionOnSet([d \in Conns |-> task'[d].size], Reserved' \ {c})
  <2>1. /\ Q = R
        /\ SizeOf(Reserved) = (IF c \in Reserved THEN task[c].size ELSE 0) + R
        /\ SizeOf(Reserved)' = (IF c \in Reserved' THEN task'[c].size ELSE 0) + Q
    BY <1>2, OtherReservations DEF QuotaInv
  <2> HIDE DEF R, Q
  <2> QED
    BY <1>2, <2>1
<1>4. QuotaIsExact'
  BY <1>3 DEF QuotaInv, QuotaIsExact
<1> QED
  BY <1>2, <1>4 DEF QuotaInv

(* try_reserve: what is exchanged is what was read, and nothing saturates. *)
LEMMA ReserveStep ==
  ASSUME QuotaInv, NEW c \in Conns, TryReserve(c)
  PROVE  QuotaInv'
<1> DEFINE t == task[c]
           next == SaturatingAdd(t.seen, t.size)
<1>1. /\ TypeOK /\ t \in Task /\ t.pc = "reserving" /\ t.size \in Nat /\ t.seen \in 0 .. Ceiling
      /\ open \subseteq Conns /\ allocated \in 0 .. Ceiling /\ open' = open
  BY TaskFields, FdAssumption DEF QuotaInv, TypeOK, QuotaIsExact, TryReserve, At
<1>2. CASE Goto(c, "replying") /\ UNCHANGED allocated
  <2> DEFINE u == [t EXCEPT !.pc = "replying"]
  <2>1. u \in Task /\ u.pc = "replying"
    BY <1>1, TaskMoves DEF Places
  <2>2. Becomes(c, u)
    BY <1>2, <2>1 DEF Becomes, Goto
  <2> HIDE DEF u
  <2> QED
    BY <1>1, <1>2, <2>1, <2>2, QuietStep DEF Holding
<1>3. CASE next <= Ceiling /\ allocated = t.seen /\ allocated' = next /\ Goto(c, "creating")
  <2> DEFINE u == [t EXCEPT !.pc = "creating"]
  <2>1. u \in Task /\ u.pc = "creating" /\ u.size = t.size
    BY <1>1, TaskMoves DEF Places
  <2>2. Becomes(c, u)
    BY <1>3, <2>1 DEF Becomes, Goto
  <2> HIDE DEF u
  <2>3. allocated' = allocated + t.size /\ allocated' <= Ceiling /\ allocated' \in 0 .. Word - 1
    <3>1. t.seen + t.size \in Nat /\ Word \in Nat /\ Ceiling \in Nat /\ Ceiling < Word - 1
      BY <1>1, FdAssumption
    <3>2. t.seen + t.size < Word
      BY <1>3, <3>1 DEF SaturatingAdd
    <3>3. next = t.seen + t.size
      BY <3>2 DEF SaturatingAdd
    <3> QED
      BY <1>1, <1>3, <3>1, <3>3
  <2>4. /\ TypeOK' /\ Unclamped'
        /\ task'[c] = u /\ \A d \in Conns \ {c} : task'[d] = task[d]
        /\ c \notin Reserved /\ c \in Reserved'
    BY <1>1, <2>1, <2>2, <2>3, StepTypes DEF Holding
  <2>5. SizeOf(Reserved)' = t.size + SizeOf(Reserved)
    <3> DEFINE R == SumFunctionOnSet([d \in Conns |-> task[d].size], Reserved \ {c})
               Q == SumFunctionOnSet([d \in Conns |-> task'[d].size], Reserved' \ {c})
    <3>1. /\ Q = R
          /\ SizeOf(Reserved) = (IF c \in Reserved THEN task[c].size ELSE 0) + R
          /\ SizeOf(Reserved)' = (IF c \in Reserved' THEN task'[c].size ELSE 0) + Q
          /\ R \in Nat
      BY <1>1, <2>4, OtherReservations
    <3> HIDE DEF R, Q
    <3> QED
      BY <1>1, <2>1, <2>4, <3>1
  <2>6. QuotaIsExact'
    BY <1>1, <2>3, <2>5 DEF QuotaInv, QuotaIsExact
  <2> QED
    BY <2>4, <2>6 DEF QuotaInv
<1>4. CASE task' = [task EXCEPT ![c].seen = allocated] /\ UNCHANGED allocated
  <2> DEFINE u == [t EXCEPT !.seen = allocated]
  <2>1. u \in Task /\ u.pc = "reserving"
    <3>1. /\ "reserving" \in Places /\ "replying" \in {"replying", "returning"}
          /\ 0 \in Sizes \cup {0}
      BY DEF Places
    <3> QED
      BY <1>1, <3>1, TaskMoves
  <2>2. Becomes(c, u)
    BY <1>4, <2>1 DEF Becomes
  <2> HIDE DEF u
  <2> QED
    BY <1>1, <1>4, <2>1, <2>2, QuietStep DEF Holding
<1> QED
  BY <1>2, <1>3, <1>4 DEF TryReserve

(* release: fetch_sub takes off exactly what was reserved. *)
LEMMA ReleaseStep ==
  ASSUME QuotaInv, NEW c \in Conns, ReleaseSub(c)
  PROVE  QuotaInv'
<1> DEFINE t == task[c]
           u == [t EXCEPT !.pc = t.after]
<1>1. /\ TypeOK /\ t \in Task /\ t.pc = "subtracting" /\ t.size \in Nat /\ t.seen \in 0 .. Ceiling
      /\ t.after \in {"replying", "returning"} /\ t.size <= t.seen
      /\ open \subseteq Conns /\ allocated \in 0 .. Ceiling /\ open' = open
  BY TaskFields, FdAssumption DEF QuotaInv, TypeOK, QuotaIsExact, Unclamped, ReleaseSub, At
<1>2. u \in Task /\ u.pc = t.after /\ u.pc \notin Holding
  <2>1. t.after \in Places /\ 0 \in Sizes \cup {0} /\ t.after \notin Holding
    BY <1>1 DEF Places, Holding
  <2> QED
    BY <1>1, <2>1, TaskMoves
<1>3. Becomes(c, u)
  BY <1>2 DEF ReleaseSub, Becomes, Goto
<1> HIDE DEF u
<1>4. c \in Reserved /\ t.size <= SizeOf(Reserved) /\ allocated = SizeOf(Reserved)
  BY <1>1, Amounts DEF Reserved, QuotaInv, QuotaIsExact
<1>5. allocated' = allocated - t.size
  <2>1. allocated' = (allocated + Word - t.size) % Word
    BY <1>1, FdAssumption DEF ReleaseSub
  <2>2. ASSUME NEW w \in Nat, NEW a \in 0 .. w - 1, NEW z \in 0 .. a
        PROVE  (a + w - z) % w = a - z
    OBVIOUS
  <2>3. Word \in Nat /\ allocated \in 0 .. Word - 1 /\ t.size \in 0 .. allocated
    BY <1>1, <1>4, FdAssumption
  <2>4. (allocated + Word - t.size) % Word = allocated - t.size
    <3> HIDE DEF t
    <3> QED
      BY <2>2, <2>3
  <2> QED
    BY <2>1, <2>4
<1>6. allocated' \in 0 .. Word - 1 /\ allocated' <= Ceiling
  BY <1>1, <1>4, <1>5, FdAssumption
<1>7. /\ TypeOK' /\ Unclamped'
      /\ task'[c] = u /\ \A d \in Conns \ {c} : task'[d] = task[d]
      /\ c \notin Reserved'
  BY <1>1, <1>2, <1>3, <1>6, StepTypes DEF Holding
<1>8. SizeOf(Reserved) = t.size + SizeOf(Reserved)' /\ SizeOf(Reserved)' \in Nat
  <2> DEFINE R == SumFunctionOnSet([d \in Conns |-> task[d].size], Reserved \ {c})
             Q == SumFunctionOnSet([d \in Conns |-> task'[d].size], Reserved' \ {c})
  <2>1. /\ Q = R
        /\ SizeOf(Reserved) = (IF c \in Reserved THEN task[c].size ELSE 0) + R
        /\ SizeOf(Reserved)' = (IF c \in Reserved' THEN task'[c].size ELSE 0) + Q
        /\ R \in Nat
    BY <1>1, <1>7, OtherReservations
  <2> HIDE DEF R, Q
  <2> QED
    BY <1>1, <1>4, <1>7, <2>1
<1>9. QuotaIsExact'
  BY <1>1, <1>4, <1>5, <1>6, <1>8 DEF QuotaIsExact
<1> QED
  BY <1>7, <1>9 DEF QuotaInv

(* Before the quota: a request is read, refused, or goes to try_reserve. *)
LEMMA RequestSteps ==
  ASSUME QuotaInv, NEW c \in Conns,
         \/ NoRequest(c) \/ BadRequest(c) \/ \E size \in Sizes : Request(c, size)
         \/ Load(c)
  PROVE  QuotaInv'
<1> DEFINE t == task[c]
<1>0. /\ TypeOK /\ t \in Task /\ open \subseteq Conns /\ allocated \in 0 .. Ceiling
      /\ "replying" \in {"replying", "returning"} /\ 0 \in Sizes \cup {0}
      /\ {"replying", "loading", "reserving", "done"} \subseteq Places
  BY FdAssumption DEF QuotaInv, TypeOK, QuotaIsExact, Places
<1>1. CASE NoRequest(c)
  <2>1. Becomes(c, Blank("done")) /\ Blank("done").pc = "done"
    BY <1>0, <1>1, BlankType DEF NoRequest, Finish, Becomes
  <2>2. t.pc = "reading" /\ UNCHANGED <<allocated, open>>
    BY <1>1 DEF NoRequest, At
  <2> QED
    BY <1>0, <2>1, <2>2, QuietStep DEF Holding
<1>2. ASSUME t.pc = "reading", Goto(c, "replying"), UNCHANGED <<allocated, open>>
      PROVE  QuotaInv'
  <2> DEFINE u == [t EXCEPT !.pc = "replying"]
  <2>1. u \in Task /\ u.pc = "replying"
    BY <1>0, TaskMoves
  <2>2. Becomes(c, u)
    BY <1>2, <2>1 DEF Becomes, Goto
  <2> HIDE DEF u
  <2> QED
    BY <1>0, <1>2, <2>1, <2>2, QuietStep DEF Holding
<1>3. ASSUME NEW size \in Sizes, t.pc = "reading", UNCHANGED <<allocated, open>>,
             task' = [task EXCEPT ![c].pc = "loading", ![c].size = size]
      PROVE  QuotaInv'
  <2> DEFINE u == [t EXCEPT !.pc = "loading", !.size = size]
  <2>1. u \in Task /\ u.pc = "loading"
    BY <1>0, TaskMoves DEF Task
  <2>2. Becomes(c, u)
    BY <1>3, <2>1 DEF Becomes
  <2> HIDE DEF u
  <2> QED
    BY <1>0, <1>3, <2>1, <2>2, QuietStep DEF Holding
<1>4. CASE Load(c)
  <2> DEFINE u == [t EXCEPT !.pc = "reserving", !.seen = allocated]
  <2>1. u \in Task /\ u.pc = "reserving"
    BY <1>0, TaskMoves DEF Task
  <2>2. Becomes(c, u)
    BY <1>4, <2>1 DEF Becomes, Load
  <2>3. t.pc = "loading" /\ UNCHANGED <<allocated, open>>
    BY <1>4 DEF Load, At
  <2> HIDE DEF u
  <2> QED
    BY <1>0, <2>1, <2>2, <2>3, QuietStep DEF Holding
<1> QED
  BY <1>1, <1>2, <1>3, <1>4 DEF BadRequest, Request, At

(* Between reserving and giving back: the memfd is made and sent, or is not. *)
LEMMA HandoffSteps ==
  ASSUME QuotaInv, NEW c \in Conns,
         CreateMemfd(c) \/ CreateFails(c) \/ SendFd(c) \/ SendFails(c)
  PROVE  QuotaInv'
<1> DEFINE t == task[c]
<1>0. /\ TypeOK /\ t \in Task /\ open \subseteq Conns /\ allocated \in 0 .. Ceiling
      /\ 0 \in Sizes \cup {0} /\ {"sending", "releasing"} \subseteq Places
  BY FdAssumption DEF QuotaInv, TypeOK, QuotaIsExact, Places
<1>1. CASE CreateMemfd(c)
  <2> DEFINE u == [t EXCEPT !.pc = "sending"]
  <2>1. u \in Task /\ u.pc = "sending" /\ u.size = t.size
    BY <1>0, TaskMoves
  <2>2. Becomes(c, u)
    BY <1>1, <2>1 DEF Becomes, CreateMemfd, Goto
  <2>3. t.pc = "creating" /\ UNCHANGED allocated /\ open' \subseteq Conns
    BY <1>0, <1>1 DEF CreateMemfd, At
  <2> HIDE DEF u
  <2> QED
    BY <1>0, <2>1, <2>2, <2>3, QuietStep DEF Holding
<1>2. ASSUME NEW a \in {"replying", "returning"}, t.pc \in {"creating", "sending"},
             UNCHANGED allocated, open' \subseteq Conns,
             task' = [task EXCEPT ![c].pc = "releasing", ![c].after = a]
      PROVE  QuotaInv'
  <2> DEFINE u == [t EXCEPT !.pc = "releasing", !.after = a]
  <2>1. u \in Task /\ u.pc = "releasing" /\ u.size = t.size
    BY <1>0, TaskMoves DEF Task
  <2>2. Becomes(c, u)
    BY <1>2, <2>1 DEF Becomes
  <2> HIDE DEF u
  <2> QED
    BY <1>0, <1>2, <2>1, <2>2, QuietStep DEF Holding
<1>3. CASE CreateFails(c)
  BY <1>0, <1>2, <1>3 DEF CreateFails, At
<1>4. CASE SendFd(c)
  BY <1>0, <1>2, <1>4 DEF SendFd, At
<1>5. CASE SendFails(c)
  BY <1>0, <1>2, <1>5 DEF SendFails, At
<1> QED
  BY <1>1, <1>3, <1>4, <1>5

(* The load of release sees at least what the task itself holds. *)
LEMMA ReleaseLoadStep ==
  ASSUME QuotaInv, NEW c \in Conns, ReleaseLoad(c)
  PROVE  QuotaInv'
<1> DEFINE t == task[c]
           u == [t EXCEPT !.pc = "subtracting", !.seen = allocated]
<1>1. /\ TypeOK /\ t \in Task /\ open \subseteq Conns /\ allocated \in 0 .. Ceiling
      /\ t.pc = "releasing" /\ UNCHANGED <<allocated, open>>
      /\ "subtracting" \in Places
  BY FdAssumption DEF QuotaInv, TypeOK, QuotaIsExact, Places, ReleaseLoad, At
<1>2. t.size <= allocated
  BY <1>1, Amounts DEF Reserved, QuotaInv, QuotaIsExact
<1>3. u \in Task /\ u.pc = "subtracting" /\ u.size = t.size /\ u.seen = allocated
  BY <1>1, TaskMoves DEF Task
<1>4. Becomes(c, u)
  BY <1>3 DEF Becomes, ReleaseLoad
<1> HIDE DEF u
<1> QED
  BY <1>1, <1>2, <1>3, <1>4, QuietStep DEF Holding

(* The task answers or returns, and is over. *)
LEMMA EndSteps ==
  ASSUME QuotaInv, NEW c \in Conns, Reply(c) \/ Return(c)
  PROVE  QuotaInv'
<1>1. "done" \in Places /\ open \subseteq Conns
  BY DEF Places, QuotaInv, TypeOK
<1>2. Becomes(c, Blank("done")) /\ Blank("done").pc = "done"
  BY <1>1, BlankType DEF Reply, Return, Finish, Becomes
<1>3. /\ task[c].pc \in {"replying", "returning"}
      /\ UNCHANGED allocated /\ open' \subseteq Conns
  BY <1>1 DEF Reply, Return, At
<1> QED
  BY <1>2, <1>3, QuietStep DEF Holding

(* Every step keeps the counter exact. *)
LEMMA QuotaStep ==
  ASSUME QuotaInv, [Next]_vars
  PROVE  QuotaInv'
<1>1. CASE UNCHANGED vars
  <2>1. TypeOK' /\ Unclamped'
    BY <1>1 DEF QuotaInv, TypeOK, Unclamped, At, vars
  <2>2. SizeOf(Reserved)' = SizeOf(Reserved) /\ allocated' = allocated
    BY <1>1 DEF SizeOf, Reserved, vars
  <2> QED
    BY <2>1, <2>2 DEF QuotaInv, QuotaIsExact
<1>2. ASSUME NEW c \in Conns, Serve(c)
      PROVE  QuotaInv'
  BY <1>2, RequestSteps, ReserveStep, HandoffSteps, ReleaseLoadStep, ReleaseStep, EndSteps
  DEF Serve
<1>3. CASE Next
  BY <1>2, <1>3, RequestSteps DEF Next
<1> QED
  BY <1>1, <1>3

(* Initially nothing is reserved. *)
LEMMA QuotaInit == Init => QuotaInv
<1> SUFFICES ASSUME Init PROVE QuotaInv
  OBVIOUS
<1>1. "reading" \in Places
  BY DEF Places
<1>2. Blank("reading") \in Task /\ Blank("reading").pc = "reading"
  BY <1>1, BlankType
<1>3. TypeOK /\ \A c \in Conns : task[c].pc = "reading"
  BY <1>2, FdAssumption DEF Init, TypeOK
<1>4. Reserved = {} /\ Unclamped
  BY <1>3 DEF Reserved, Unclamped, At
<1>5. SizeOf(Reserved) = 0
  BY <1>4, SumEmpty DEF SizeOf
<1> QED
  BY <1>3, <1>4, <1>5, FdAssumption DEF QuotaInv, QuotaIsExact, Init

(* The locals of the tasks and the counter keep their types: no connection   *)
(* ever reads a counter beyond the ceiling (fd_quota.rs).                    *)
THEOREM FdTypeCorrect == Spec => []TypeOK
<1>1. QuotaInv /\ [Next]_vars => QuotaInv'
  BY QuotaStep
<1>2. QuotaInv => TypeOK
  BY DEF QuotaInv
<1> QED
  BY QuotaInit, <1>1, <1>2, PTL DEF Spec

(* However many connections interleave their loads, exchanges and            *)
(* subtractions, the counter of the quota is the sum of what is held and     *)
(* stays within the ceiling; the two steps of release lose nothing.          *)
THEOREM QuotaExact == Spec => []QuotaIsExact
<1>1. QuotaInv /\ [Next]_vars => QuotaInv'
  BY QuotaStep
<1>2. QuotaInv => QuotaIsExact
  BY DEF QuotaInv
<1> QED
  BY QuotaInit, <1>1, <1>2, PTL DEF Spec
=============================================================================
