----------------------------- MODULE SumLemmas ------------------------------
(***************************************************************************)
(* Sums over finite sets.  The quota of the FD server and the books of the *)
(* arbiter are numbers that must equal a sum over the requests or leases   *)
(* of the moment, written with SumFunctionOnSet of module Functions.  This *)
(* module proves what such a sum is and how it changes with its set.       *)
(* Induction is by a least counterexample, since the theorems on induction *)
(* take an operator, which the provers cannot instantiate.                 *)
(***************************************************************************)
EXTENDS Functions, FiniteSetTheorems, WellFoundedInduction, TLAPS

(* A set of naturals has a least element. *)
LEMMA LeastNatural ==
  ASSUME NEW T, T \subseteq Nat, T # {}
  PROVE  \E x \in T : \A y \in T : x <= y
<1>1. \E x \in T : \A y \in T : ~(<<y, x>> \in OpToRel(<, Nat))
  BY NatLessThanWellFounded, WFMin
<1>2. OpToRel(<, Nat) = {ss \in Nat \X Nat : ss[1] < ss[2]}
  BY Zenon DEF OpToRel
<1>3. PICK x \in T : \A y \in T : ~(<<y, x>> \in {ss \in Nat \X Nat : ss[1] < ss[2]})
  BY <1>1, <1>2, Zenon
<1>4. ASSUME NEW y \in T PROVE x <= y
  <2>1. ~(<<y, x>> \in {ss \in Nat \X Nat : ss[1] < ss[2]})
    BY <1>3
  <2>2. x \in Nat /\ y \in Nat /\ <<y, x>> \in Nat \X Nat
    OBVIOUS
  <2>3. ~(<<y, x>>[1] < <<y, x>>[2])
    BY <2>1, <2>2, Zenon
  <2> QED
    BY <2>2, <2>3
<1> QED
  BY <1>4

(* Induction on the naturals, for membership in a set. *)
LEMMA InductionOnNat ==
  ASSUME NEW G, 0 \in G, \A n \in Nat : n \in G => n + 1 \in G
  PROVE  \A n \in Nat : n \in G
<1> DEFINE bad == Nat \ G
<1> SUFFICES ASSUME bad # {} PROVE FALSE
  OBVIOUS
<1>1. PICK x \in bad : \A y \in bad : x <= y
  BY LeastNatural
<1>2. x # 0 /\ x - 1 \in Nat /\ x - 1 \notin bad
  BY <1>1
<1> QED
  BY <1>1, <1>2

(* Induction on the subsets of a finite set, by inclusion. *)
LEMMA InductionOnSubsets ==
  ASSUME NEW S, IsFiniteSet(S), NEW G,
         \A T \in SUBSET S : (\A U \in SUBSET T : U # T => U \in G) => T \in G
  PROVE  \A T \in SUBSET S : T \in G
<1> DEFINE bad == {T \in SUBSET S : T \notin G}
           sizes == {Cardinality(T) : T \in bad}
<1> SUFFICES ASSUME bad # {} PROVE FALSE
  OBVIOUS
<1>1. \A T \in SUBSET S : IsFiniteSet(T) /\ Cardinality(T) \in Nat
  BY FS_Subset, FS_CardinalityType
<1>2. PICK n \in sizes : \A m \in sizes : n <= m
  <2>1. sizes \subseteq Nat /\ sizes # {}
    BY <1>1
  <2> HIDE DEF sizes
  <2> QED
    BY <2>1, LeastNatural
<1>3. PICK T \in bad : n = Cardinality(T)
  BY <1>2
<1>4. ASSUME NEW U \in SUBSET T, U # T
      PROVE  U \in G
  <2>1. Cardinality(U) <= Cardinality(T) /\ Cardinality(U) # Cardinality(T)
    BY <1>1, <1>4, FS_Subset
  <2>2. Cardinality(U) \in Nat /\ Cardinality(T) \in Nat
    BY <1>1
  <2> QED
    BY <1>2, <1>3, <2>1, <2>2
<1> QED
  BY <1>3, <1>4

----------------------------------------------------------------------------
(* The sum as a recursive function.                                         *)

\* The element by which the fold goes on from s.
Chosen(s) == CHOOSE x \in s : TRUE

\* g sums f over every set of D.
Sums(f, D, g) ==
  g = [s \in D |-> IF s = {} THEN 0 ELSE f[Chosen(s)] + g[s \ {Chosen(s)}]]

\* The subsets of S of at most n elements.
UpTo(S, n) == {s \in SUBSET S : Cardinality(s) <= n}

(* What is chosen from a set is one of its elements. *)
LEMMA ChosenInSet ==
  ASSUME NEW s, s # {}
  PROVE  Chosen(s) \in s
BY Zenon DEF Chosen

(* The sums of the small sets give the sums of the next larger ones. *)
LEMMA SumsGrow ==
  ASSUME NEW S, IsFiniteSet(S), NEW f, NEW n \in Nat,
         NEW g, Sums(f, UpTo(S, n), g)
  PROVE  \E h : Sums(f, UpTo(S, n + 1), h)
<1> DEFINE D == UpTo(S, n + 1)
           E == UpTo(S, n)
           h == [s \in D |-> IF s = {} THEN 0 ELSE f[Chosen(s)] + g[s \ {Chosen(s)}]]
           k == [s \in D |-> IF s = {} THEN 0 ELSE f[Chosen(s)] + h[s \ {Chosen(s)}]]
<1>1. ASSUME NEW s \in D, s # {}
      PROVE  s \ {Chosen(s)} \in E /\ s \ {Chosen(s)} \in D
  <2>1. Chosen(s) \in s /\ s \in SUBSET S /\ IsFiniteSet(s)
    BY <1>1, ChosenInSet, FS_Subset DEF UpTo
  <2>2. Cardinality(s \ {Chosen(s)}) = Cardinality(s) - 1 /\ Cardinality(s) \in Nat
    BY <2>1, FS_RemoveElement, FS_CardinalityType
  <2> QED
    BY <2>1, <2>2 DEF UpTo
<1>2. ASSUME NEW t \in E, t \in D
      PROVE  h[t] = g[t]
  <2>1. g[t] = IF t = {} THEN 0 ELSE f[Chosen(t)] + g[t \ {Chosen(t)}]
    BY Zenon DEF Sums
  <2>2. h[t] = IF t = {} THEN 0 ELSE f[Chosen(t)] + g[t \ {Chosen(t)}]
    BY <1>2, Zenon
  <2> QED
    BY <2>1, <2>2, Zenon
<1> HIDE DEF D, E
<1>3. \A s \in D : h[s] = k[s]
  <2> TAKE s \in D
  <2>1. h[s] = IF s = {} THEN 0 ELSE f[Chosen(s)] + g[s \ {Chosen(s)}]
    BY Zenon
  <2>2. k[s] = IF s = {} THEN 0 ELSE f[Chosen(s)] + h[s \ {Chosen(s)}]
    BY Zenon
  <2>3. s # {} => h[s \ {Chosen(s)}] = g[s \ {Chosen(s)}]
    BY <1>1, <1>2, Zenon
  <2> QED
    BY <2>1, <2>2, <2>3, Zenon
<1>4. h = k
  BY <1>3, Zenon
<1>5. Sums(f, D, h)
  BY <1>4, Zenon DEF Sums
<1> QED
  BY <1>5 DEF D

(* Over a finite set the recursion has a solution. *)
LEMMA SumsExist ==
  ASSUME NEW S, IsFiniteSet(S), NEW f
  PROVE  \E g : Sums(f, SUBSET S, g)
<1> DEFINE G == {n \in Nat : \E g : Sums(f, UpTo(S, n), g)}
<1>1. 0 \in G
  <2>1. UpTo(S, 0) = {{}}
    BY FS_Subset, FS_EmptySet, FS_CardinalityType DEF UpTo
  <2> DEFINE g == [s \in {{}} |-> 0]
             k == [s \in {{}} |-> IF s = {} THEN 0 ELSE f[Chosen(s)] + g[s \ {Chosen(s)}]]
  <2>2. \A s \in {{}} : g[s] = k[s]
    OBVIOUS
  <2>3. g = k
    BY <2>2, Zenon
  <2>4. Sums(f, {{}}, g)
    BY <2>3, Zenon DEF Sums
  <2> QED
    BY <2>1, <2>4
<1>2. \A n \in Nat : n \in G => n + 1 \in G
  BY SumsGrow
<1> HIDE DEF G
<1>3. Cardinality(S) \in G /\ Cardinality(S) \in Nat
  BY <1>1, <1>2, InductionOnNat, FS_CardinalityType
<1>4. UpTo(S, Cardinality(S)) = SUBSET S
  BY FS_Subset DEF UpTo
<1> QED
  BY <1>3, <1>4, Zenon DEF G

(* Solutions agree where both are defined. *)
LEMMA SumsAgree ==
  ASSUME NEW S, IsFiniteSet(S), NEW T \in SUBSET S, NEW f,
         NEW g, Sums(f, SUBSET T, g), NEW h, Sums(f, SUBSET S, h)
  PROVE  g[T] = h[T]
<1> DEFINE G == {s \in SUBSET T : g[s] = h[s]}
<1>1. ASSUME NEW s \in SUBSET T, \A u \in SUBSET s : u # s => u \in G
      PROVE  s \in G
  <2>1. g[s] = IF s = {} THEN 0 ELSE f[Chosen(s)] + g[s \ {Chosen(s)}]
    BY Zenon DEF Sums
  <2>2. s \in SUBSET S
    OBVIOUS
  <2>3. h[s] = IF s = {} THEN 0 ELSE f[Chosen(s)] + h[s \ {Chosen(s)}]
    BY <2>2, Zenon DEF Sums
  <2>4. s # {} => s \ {Chosen(s)} \in G
    BY <1>1, ChosenInSet
  <2> QED
    BY <2>1, <2>3, <2>4, Zenon
<1>2. IsFiniteSet(T)
  BY FS_Subset
<1> HIDE DEF G
<1>3. T \in G
  BY <1>1, <1>2, InductionOnSubsets
<1> QED
  BY <1>3 DEF G

(* The fold is the value of a solution. *)
LEMMA SumIs ==
  ASSUME NEW S, IsFiniteSet(S), NEW f, NEW g, Sums(f, SUBSET S, g)
  PROVE  \A T \in SUBSET S : SumFunctionOnSet(f, T) = g[T]
<1> TAKE T \in SUBSET S
<1> DEFINE it == CHOOSE k : k = [s \in SUBSET T |->
                    IF s = {} THEN 0
                    ELSE f[CHOOSE x \in s : TRUE] + k[s \ {CHOOSE x \in s : TRUE}]]
<1>1. SumFunctionOnSet(f, T) = it[T]
  BY Zenon DEF SumFunctionOnSet, FoldFunctionOnSet, MapThenFoldSet
<1>2. \E k : Sums(f, SUBSET T, k)
  BY FS_Subset, SumsExist
<1>3. Sums(f, SUBSET T, it)
  BY <1>2, Zenon DEF Sums, Chosen
<1>4. PICK k : Sums(f, SUBSET T, k) /\ SumFunctionOnSet(f, T) = k[T]
  BY <1>1, <1>3, Zenon
<1>5. Sums(f, SUBSET T, k)
  BY <1>4, Zenon
<1> HIDE DEF it
<1>6. k[T] = g[T]
  BY <1>5, SumsAgree
<1> QED
  BY <1>4, <1>6

----------------------------------------------------------------------------
(* What a sum is.                                                           *)

(* The sum over no element. *)
LEMMA SumEmpty ==
  ASSUME NEW f
  PROVE  SumFunctionOnSet(f, {}) = 0
<1>1. PICK g : Sums(f, SUBSET {}, g)
  BY SumsExist, FS_EmptySet
<1>2. SumFunctionOnSet(f, {}) = g[{}]
  BY <1>1, SumIs, FS_EmptySet
<1>3. {} \in SUBSET {}
  OBVIOUS
<1>4. g[{}] = IF {} = {} THEN 0 ELSE f[Chosen({})] + g[{} \ {Chosen({})}]
  BY <1>1, <1>3, Zenon DEF Sums
<1> QED
  BY <1>2, <1>4

(* The sum is that of the chosen element and of the others. *)
LEMMA SumChosen ==
  ASSUME NEW S, IsFiniteSet(S), S # {}, NEW f
  PROVE  SumFunctionOnSet(f, S) = f[Chosen(S)] + SumFunctionOnSet(f, S \ {Chosen(S)})
<1>1. PICK g : Sums(f, SUBSET S, g)
  BY SumsExist
<1>2. S \in SUBSET S /\ S \ {Chosen(S)} \in SUBSET S
  OBVIOUS
<1>3. SumFunctionOnSet(f, S) = g[S] /\ SumFunctionOnSet(f, S \ {Chosen(S)}) = g[S \ {Chosen(S)}]
  BY <1>1, <1>2, SumIs
<1>4. g[S] = IF S = {} THEN 0 ELSE f[Chosen(S)] + g[S \ {Chosen(S)}]
  BY <1>1, <1>2, Zenon DEF Sums
<1> QED
  BY <1>3, <1>4

(* A sum of naturals is a natural. *)
LEMMA SumNat ==
  ASSUME NEW S, IsFiniteSet(S), NEW f, \A x \in S : f[x] \in Nat
  PROVE  SumFunctionOnSet(f, S) \in Nat
<1> DEFINE G == {T \in SUBSET S : SumFunctionOnSet(f, T) \in Nat}
<1>1. ASSUME NEW T \in SUBSET S, \A U \in SUBSET T : U # T => U \in G
      PROVE  T \in G
  <2>1. CASE T = {}
    BY <2>1, SumEmpty
  <2>2. CASE T # {}
    <3>1. Chosen(T) \in T /\ T \ {Chosen(T)} \in G
      BY <1>1, <2>2, ChosenInSet
    <3>2. SumFunctionOnSet(f, T) = f[Chosen(T)] + SumFunctionOnSet(f, T \ {Chosen(T)})
      BY <2>2, SumChosen, FS_Subset
    <3> QED
      BY <3>1, <3>2
  <2> QED
    BY <2>1, <2>2
<1> HIDE DEF G
<1>2. S \in G
  BY <1>1, InductionOnSubsets
<1> QED
  BY <1>2 DEF G

(* Any element may be taken out first. *)
LEMMA SumTake ==
  ASSUME NEW S, IsFiniteSet(S), NEW f, \A x \in S : f[x] \in Nat, NEW x \in S
  PROVE  SumFunctionOnSet(f, S) = f[x] + SumFunctionOnSet(f, S \ {x})
<1> DEFINE G == {T \in SUBSET S : \A y \in T :
                   SumFunctionOnSet(f, T) = f[y] + SumFunctionOnSet(f, T \ {y})}
<1>1. ASSUME NEW T \in SUBSET S, \A U \in SUBSET T : U # T => U \in G
      PROVE  T \in G
  <2> SUFFICES ASSUME NEW y \in T
               PROVE  SumFunctionOnSet(f, T) = f[y] + SumFunctionOnSet(f, T \ {y})
    OBVIOUS
  <2> DEFINE c == Chosen(T)
  <2>1. c \in T
    BY ChosenInSet
  <2>2. SumFunctionOnSet(f, T) = f[c] + SumFunctionOnSet(f, T \ {c})
    BY SumChosen, FS_Subset
  <2> HIDE DEF c
  <2>3. CASE y = c
    BY <2>2, <2>3
  <2>4. CASE y # c
    <3>1. T \ {c} \in G /\ y \in T \ {c} /\ T \ {y} \in G /\ c \in T \ {y}
      BY <1>1, <2>1, <2>4
    <3>2. SumFunctionOnSet(f, T \ {c}) = f[y] + SumFunctionOnSet(f, (T \ {c}) \ {y})
      BY <3>1
    <3>3. SumFunctionOnSet(f, T \ {y}) = f[c] + SumFunctionOnSet(f, (T \ {y}) \ {c})
      BY <3>1
    <3>4. (T \ {c}) \ {y} = (T \ {y}) \ {c}
      OBVIOUS
    <3>5. SumFunctionOnSet(f, (T \ {y}) \ {c}) \in Nat
      BY SumNat, FS_Subset
    <3>6. f[y] \in Nat /\ f[c] \in Nat
      BY <2>1
    <3> QED
      BY <2>2, <3>2, <3>3, <3>4, <3>5, <3>6
  <2> QED
    BY <2>3, <2>4
<1> HIDE DEF G
<1>2. S \in G
  BY <1>1, InductionOnSubsets
<1> QED
  BY <1>2 DEF G

(* Functions that agree on a set have the same sum over it. *)
LEMMA SumSame ==
  ASSUME NEW S, IsFiniteSet(S), NEW f, NEW g, \A x \in S : f[x] = g[x]
  PROVE  SumFunctionOnSet(f, S) = SumFunctionOnSet(g, S)
<1> DEFINE G == {T \in SUBSET S : SumFunctionOnSet(f, T) = SumFunctionOnSet(g, T)}
<1>1. ASSUME NEW T \in SUBSET S, \A U \in SUBSET T : U # T => U \in G
      PROVE  T \in G
  <2>1. CASE T = {}
    BY <2>1, SumEmpty
  <2>2. CASE T # {}
    <3>1. Chosen(T) \in T /\ T \ {Chosen(T)} \in G
      BY <1>1, <2>2, ChosenInSet
    <3>2. /\ SumFunctionOnSet(f, T) = f[Chosen(T)] + SumFunctionOnSet(f, T \ {Chosen(T)})
          /\ SumFunctionOnSet(g, T) = g[Chosen(T)] + SumFunctionOnSet(g, T \ {Chosen(T)})
      BY <2>2, SumChosen, FS_Subset
    <3> QED
      BY <3>1, <3>2
  <2> QED
    BY <2>1, <2>2
<1> HIDE DEF G
<1>2. S \in G
  BY <1>1, InductionOnSubsets
<1> QED
  BY <1>2 DEF G

(* The sum grows with its set. *)
LEMMA SumGrows ==
  ASSUME NEW S, IsFiniteSet(S), NEW f, \A x \in S : f[x] \in Nat, NEW T \in SUBSET S
  PROVE  SumFunctionOnSet(f, T) <= SumFunctionOnSet(f, S)
<1> DEFINE G == {U \in SUBSET S : T \subseteq U =>
                   SumFunctionOnSet(f, T) <= SumFunctionOnSet(f, U)}
<1>1. ASSUME NEW U \in SUBSET S, \A V \in SUBSET U : V # U => V \in G
      PROVE  U \in G
  <2> SUFFICES ASSUME T \subseteq U
               PROVE  SumFunctionOnSet(f, T) <= SumFunctionOnSet(f, U)
    OBVIOUS
  <2>0. \A V \in SUBSET S : SumFunctionOnSet(f, V) \in Nat
    BY SumNat, FS_Subset
  <2>1. CASE T = U
    BY <2>0, <2>1
  <2>2. CASE T # U
    <3>1. PICK y \in U : y \notin T
      BY <2>2
    <3>2. U \ {y} \in G /\ T \subseteq U \ {y}
      BY <1>1, <3>1
    <3>3. SumFunctionOnSet(f, U) = f[y] + SumFunctionOnSet(f, U \ {y})
      BY SumTake, FS_Subset
    <3>4. f[y] \in Nat /\ U \ {y} \in SUBSET S
      OBVIOUS
    <3> QED
      BY <2>0, <3>2, <3>3, <3>4
  <2> QED
    BY <2>1, <2>2
<1> HIDE DEF G
<1>2. S \in G
  BY <1>1, InductionOnSubsets
<1> QED
  BY <1>2 DEF G

(* The sum over a single element. *)
LEMMA SumOne ==
  ASSUME NEW f, NEW x, f[x] \in Nat
  PROVE  SumFunctionOnSet(f, {x}) = f[x]
<1>1. IsFiniteSet({x}) /\ {x} \ {x} = {}
  BY FS_Singleton
<1>2. SumFunctionOnSet(f, {x}) = f[x] + SumFunctionOnSet(f, {x} \ {x})
  BY <1>1, SumTake
<1> QED
  BY <1>1, <1>2, SumEmpty

(* A part and the rest make up the whole. *)
LEMMA SumSplit ==
  ASSUME NEW S, IsFiniteSet(S), NEW f, \A x \in S : f[x] \in Nat, NEW T \in SUBSET S
  PROVE  SumFunctionOnSet(f, S) = SumFunctionOnSet(f, T) + SumFunctionOnSet(f, S \ T)
<1> DEFINE G == {U \in SUBSET S : SumFunctionOnSet(f, S)
                   = SumFunctionOnSet(f, U) + SumFunctionOnSet(f, S \ U)}
<1>0. \A U \in SUBSET S : IsFiniteSet(U) /\ SumFunctionOnSet(f, U) \in Nat
  BY SumNat, FS_Subset
<1>1. ASSUME NEW U \in SUBSET S, \A V \in SUBSET U : V # U => V \in G
      PROVE  U \in G
  <2>1. CASE U = {}
    <3>1. S \ U = S
      BY <2>1
    <3> QED
      BY <1>0, <2>1, <3>1, SumEmpty
  <2>2. CASE U # {}
    <3>1. PICK x : x \in U
      BY <2>2
    <3> DEFINE V == U \ {x}
    <3>2. V \in G /\ V \in SUBSET S /\ S \ V \in SUBSET S /\ x \in S \ V /\ x \in S
      BY <1>1, <3>1
    <3>3. (S \ V) \ {x} = S \ U
      BY <3>1
    <3>4. SumFunctionOnSet(f, S) = SumFunctionOnSet(f, V) + SumFunctionOnSet(f, S \ V)
      BY <3>2
    <3>5. SumFunctionOnSet(f, U) = f[x] + SumFunctionOnSet(f, V)
      BY <1>0, <3>1, SumTake
    <3>6. SumFunctionOnSet(f, S \ V) = f[x] + SumFunctionOnSet(f, (S \ V) \ {x})
      <4> HIDE DEF V
      <4> QED
        BY <1>0, <3>2, SumTake
    <3>7. /\ f[x] \in Nat /\ SumFunctionOnSet(f, V) \in Nat
          /\ SumFunctionOnSet(f, S \ U) \in Nat
      BY <1>0, <3>2
    <3> DEFINE a == SumFunctionOnSet(f, V)
               b == SumFunctionOnSet(f, S \ U)
               c == SumFunctionOnSet(f, S \ V)
               d == SumFunctionOnSet(f, U)
    <3>8. SumFunctionOnSet(f, S) = a + c /\ d = f[x] + a /\ c = f[x] + b
      BY <3>3, <3>4, <3>5, <3>6
    <3> HIDE DEF a, b, c, d
    <3>9. SumFunctionOnSet(f, S) = d + b
      BY <3>7, <3>8 DEF a, b
    <3> QED
      BY <3>9 DEF b, d
  <2> QED
    BY <2>1, <2>2
<1> HIDE DEF G
<1>2. T \in G
  BY <1>1, InductionOnSubsets
<1> QED
  BY <1>2 DEF G
=============================================================================
