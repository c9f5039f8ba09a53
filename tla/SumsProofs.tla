----------------------------- MODULE SumsProofs -----------------------------
(***************************************************************************)
(* What the proofs of the other modules need of sums over finite sets: the  *)
(* stock of a room, of a document, of what a purchase has received.  The    *)
(* sums are the community module's SumFunction, a fold.  The induction over *)
(* the set that is summed is done here once, on the strict subsets of a     *)
(* finite set, which are well-founded; elsewhere the facts are cited.       *)
(***************************************************************************)
EXTENDS Functions, FiniteSetTheorems, WellFoundedInduction, TLAPS

(* Induction. *)

\* Whatever holds of a set as soon as it holds of its strict subsets holds of every
\* part of a finite set.
LEMMA SetInduction ==
  ASSUME NEW S, IsFiniteSet(S), NEW G,
         \A T \in SUBSET S : (\A U \in SUBSET T : U # T => U \in G) => T \in G
  PROVE  SUBSET S \subseteq G
<1> DEFINE Bad == (SUBSET S) \ G
<1>1. FiniteSubsetsOf(S) = SUBSET S
  BY FS_FiniteSubsetsOfFinite
<1>2. IsWellFoundedOn(StrictSubsetOrdering(S), SUBSET S)
  BY <1>1, FS_StrictSubsetOrderingWellFounded
<1>3. SUFFICES ASSUME Bad # {} PROVE FALSE
  OBVIOUS
<1>4. Bad \subseteq SUBSET S
  OBVIOUS
<1> HIDE DEF Bad
<1>5. PICK T \in Bad : \A U \in Bad : <<U, T>> \notin StrictSubsetOrdering(S)
  BY <1>2, <1>3, <1>4, WFMin
<1>6. \A U \in SUBSET T : U # T => U \in G
  BY <1>5 DEF Bad, StrictSubsetOrdering
<1> QED BY <1>5, <1>6 DEF Bad

\* A set of numbers has a smallest.
LEMMA Smallest ==
  ASSUME NEW N \in SUBSET Nat, N # {}
  PROVE  \E n \in N : \A m \in N : n <= m
<1> DEFINE Segments == {1 .. n : n \in N}
<1>1. IsWellFoundedOn(StrictSubsetOrdering(Nat), FiniteSubsetsOf(Nat))
  BY FS_StrictSubsetOrderingWellFounded
<1>2. Segments \subseteq FiniteSubsetsOf(Nat)
  BY FS_Interval DEF FiniteSubsetsOf
<1>3. Segments # {}
  OBVIOUS
<1> HIDE DEF Segments
<1>4. PICK T \in Segments : \A U \in Segments : <<U, T>> \notin StrictSubsetOrdering(Nat)
  BY <1>1, <1>2, <1>3, WFMin
<1>5. PICK n \in N : T = 1 .. n
  BY DEF Segments
<1>6. ASSUME NEW m \in N, m < n PROVE FALSE
  <2>1. <<1 .. m, 1 .. n>> \in StrictSubsetOrdering(Nat)
    <3>1. 1 .. m \subseteq 1 .. n /\ n \in 1 .. n /\ n \notin 1 .. m
      BY <1>6
    <3> QED BY <3>1 DEF StrictSubsetOrdering
  <2>2. 1 .. m \in Segments
    BY DEF Segments
  <2> QED BY <1>4, <1>5, <2>1, <2>2
<1> QED BY <1>6

LEMMA NatSetInduction ==
  ASSUME NEW G, 0 \in G, \A n \in Nat : n \in G => n + 1 \in G
  PROVE  Nat \subseteq G
<1>1. SUFFICES ASSUME Nat \ G # {} PROVE FALSE
  OBVIOUS
<1>2. PICK n \in Nat \ G : \A m \in Nat \ G : n <= m
  BY <1>1, Smallest
<1>3. n - 1 \in Nat /\ n - 1 \in G
  BY <1>2
<1> QED BY <1>2, <1>3

-----------------------------------------------------------------------------
(* What the fold computes. *)

TakenFirst(s) == CHOOSE x \in s : TRUE

\* One turn of the fold, and the function over all parts of the domain it defines.
TurnOf(f, it, s) == IF s = {} THEN 0 ELSE f[TakenFirst(s)] + it[s \ {TakenFirst(s)}]
Iterated(f) == CHOOSE it : it = [s \in SUBSET (DOMAIN f) |-> TurnOf(f, it, s)]

LEMMA Unfold ==
  ASSUME NEW f
  PROVE  SumFunction(f) = Iterated(f)[DOMAIN f]
BY DEF SumFunction, SumFunctionOnSet, FoldFunctionOnSet, MapThenFoldSet, TakenFirst, Iterated, TurnOf

LEMMA TakenFirstIn == \A s : s # {} => TakenFirst(s) \in s
BY DEF TakenFirst

\* There is such a function, and it counts in whole numbers.
LEMMA IterationExists ==
  ASSUME NEW S, IsFiniteSet(S), NEW f \in [S -> Int]
  PROVE  /\ Iterated(f) \in [SUBSET S -> Int]
         /\ \A s \in SUBSET S : Iterated(f)[s] = TurnOf(f, Iterated(f), s)
<1> DEFINE D(n) == {s \in SUBSET S : Cardinality(s) <= n}
           G == {n \in Nat : \E g \in [D(n) -> Int] : \A s \in D(n) : g[s] = TurnOf(f, g, s)}
<1>0. \A s \in SUBSET S : IsFiniteSet(s) /\ Cardinality(s) \in Nat
  BY FS_Subset, FS_CardinalityType
<1>1. 0 \in G
  <2>1. D(0) = {{}}
    BY <1>0, FS_EmptySet
  <2>2. [s \in D(0) |-> 0] \in [D(0) -> Int] /\ \A s \in D(0) : [x \in D(0) |-> 0][s] = TurnOf(f, [x \in D(0) |-> 0], s)
    BY <2>1 DEF TurnOf
  <2> QED BY <2>2
<1>2. ASSUME NEW n \in Nat, n \in G PROVE n + 1 \in G
  <2>1. PICK g \in [D(n) -> Int] : \A s \in D(n) : g[s] = TurnOf(f, g, s)
    BY <1>2
  <2> DEFINE h == [s \in D(n + 1) |-> TurnOf(f, g, s)]
  <2>2. \A s \in D(n + 1) : s # {} => TakenFirst(s) \in S /\ s \ {TakenFirst(s)} \in D(n)
    <3> SUFFICES ASSUME NEW s \in D(n + 1), s # {} PROVE TakenFirst(s) \in S /\ s \ {TakenFirst(s)} \in D(n)
      OBVIOUS
    <3>1. TakenFirst(s) \in s
      BY TakenFirstIn
    <3>2. Cardinality(s \ {TakenFirst(s)}) = Cardinality(s) - 1
      BY <3>1, <1>0, FS_RemoveElement
    <3> QED BY <3>1, <3>2, <1>0
  <2>3. \A s \in D(n) : s \in D(n + 1) /\ h[s] = g[s]
    BY <2>1, <1>0
  <2>4. h \in [D(n + 1) -> Int]
    <3> SUFFICES ASSUME NEW s \in D(n + 1) PROVE TurnOf(f, g, s) \in Int
      OBVIOUS
    <3> QED BY <2>2 DEF TurnOf
  <2>5. \A s \in D(n + 1) : h[s] = TurnOf(f, h, s)
    <3> SUFFICES ASSUME NEW s \in D(n + 1) PROVE h[s] = TurnOf(f, h, s)
      OBVIOUS
    <3>1. h[s] = TurnOf(f, g, s)
      OBVIOUS
    <3> HIDE DEF h
    <3> QED BY <2>2, <2>3, <3>1 DEF TurnOf
  <2> HIDE DEF h
  <2>6. \E k \in [D(n + 1) -> Int] : \A s \in D(n + 1) : k[s] = TurnOf(f, k, s)
    BY <2>4, <2>5
  <2> HIDE DEF D
  <2> QED BY <2>6
<1> HIDE DEF G
<1>3. Cardinality(S) \in G
  BY <1>0, <1>1, <1>2, NatSetInduction
<1>4. D(Cardinality(S)) = SUBSET S
  BY FS_Subset, <1>0
<1>5. PICK g \in [SUBSET S -> Int] : \A s \in SUBSET S : g[s] = TurnOf(f, g, s)
  BY <1>3, <1>4 DEF G
<1>6. g = [s \in SUBSET (DOMAIN f) |-> TurnOf(f, g, s)]
  BY <1>5
<1>7. Iterated(f) = [s \in SUBSET (DOMAIN f) |-> TurnOf(f, Iterated(f), s)]
  BY <1>6 DEF Iterated
<1>8. \A s \in SUBSET S : Iterated(f)[s] = TurnOf(f, Iterated(f), s)
  <2> DEFINE it == Iterated(f)
  <2>1. it = [s \in SUBSET S |-> TurnOf(f, it, s)]
    BY <1>7
  <2> HIDE DEF it
  <2>2. \A s \in SUBSET S : it[s] = TurnOf(f, it, s)
    BY <2>1
  <2> QED BY <2>2 DEF it
<1> DEFINE H == {s \in SUBSET S : Iterated(f)[s] \in Int}
<1>9. ASSUME NEW T \in SUBSET S, \A U \in SUBSET T : U # T => U \in H PROVE T \in H
  <2>1. CASE T = {}
    <3>1. Iterated(f)[T] = TurnOf(f, Iterated(f), T)
      BY <1>8
    <3>2. TurnOf(f, Iterated(f), T) = 0
      BY <2>1 DEF TurnOf
    <3> QED BY <3>1, <3>2
  <2>2. CASE T # {}
    <3>1. TakenFirst(T) \in T
      BY <2>2, TakenFirstIn
    <3>2. T \ {TakenFirst(T)} \in H
      BY <3>1, <1>9
    <3>3. f[TakenFirst(T)] \in Int
      BY <3>1
    <3>4. Iterated(f)[T] = f[TakenFirst(T)] + Iterated(f)[T \ {TakenFirst(T)}]
      BY <1>8, <2>2 DEF TurnOf
    <3>5. Iterated(f)[T \ {TakenFirst(T)}] \in Int
      BY <3>2
    <3> QED BY <3>3, <3>4, <3>5
  <2> QED BY <2>1, <2>2
<1>10. SUBSET S \subseteq H
  <2> HIDE DEF H
  <2> QED BY <1>9, SetInduction
<1>11. Iterated(f) = [s \in SUBSET S |-> Iterated(f)[s]]
  BY <1>7
<1> QED BY <1>8, <1>10, <1>11

\* The order in which the elements are taken does not matter.
LEMMA TakeAny ==
  ASSUME NEW S, IsFiniteSet(S), NEW f \in [S -> Int]
  PROVE  \A T \in SUBSET S : \A x \in T : Iterated(f)[T] = f[x] + Iterated(f)[T \ {x}]
<1> DEFINE it == Iterated(f)
           H == {s \in SUBSET S : \A y \in s : it[s] = f[y] + it[s \ {y}]}
<1>1. it \in [SUBSET S -> Int] /\ \A s \in SUBSET S : it[s] = TurnOf(f, it, s)
  BY IterationExists
<1> HIDE DEF it
<1>2. ASSUME NEW s \in SUBSET S, \A U \in SUBSET s : U # s => U \in H,
             NEW y \in s
      PROVE  it[s] = f[y] + it[s \ {y}]
  <2> DEFINE p == TakenFirst(s)
  <2>1. p \in s
    BY TakenFirstIn
  <2>2. it[s] = f[p] + it[s \ {p}]
    BY <1>1, <2>1 DEF TurnOf
  <2> HIDE DEF p
  <2>3. CASE y = p
    BY <2>2, <2>3
  <2>4. CASE y # p
    <3>1. it[s \ {p}] = f[y] + it[(s \ {p}) \ {y}]
      BY <1>2, <2>1, <2>4
    <3>2. it[s \ {y}] = f[p] + it[(s \ {y}) \ {p}]
      BY <1>2, <2>1, <2>4
    <3>3. (s \ {p}) \ {y} = (s \ {y}) \ {p}
      OBVIOUS
    <3>4. f[p] \in Int /\ f[y] \in Int /\ it[(s \ {y}) \ {p}] \in Int
      BY <1>1, <2>1
    <3>5. it[s] = f[p] + (f[y] + it[(s \ {y}) \ {p}])
      BY <2>2, <3>1, <3>3
    <3> QED BY <3>2, <3>4, <3>5
  <2> QED BY <2>3, <2>4
<1>3. \A s \in SUBSET S : (\A U \in SUBSET s : U # s => U \in H) => s \in H
  BY <1>2
<1>4. SUBSET S \subseteq H
  <2> HIDE DEF H
  <2> QED BY <1>3, SetInduction
<1> QED BY <1>4 DEF it

\* it sums f over the parts of S.
Additive(it, f, S) ==
    /\ it \in [SUBSET S -> Int]
    /\ it[{}] = 0
    /\ \A s \in SUBSET S : \A y \in s : it[s] = f[y] + it[s \ {y}]

LEMMA IteratedAdds ==
  ASSUME NEW S, IsFiniteSet(S), NEW f \in [S -> Int]
  PROVE  Additive(Iterated(f), f, S)
<1>1. Iterated(f)[{}] = TurnOf(f, Iterated(f), {})
  BY IterationExists
<1>2. Iterated(f)[{}] = 0
  BY <1>1 DEF TurnOf
<1>3. Iterated(f) \in [SUBSET S -> Int]
  BY IterationExists
<1>4. \A s \in SUBSET S : \A y \in s : Iterated(f)[s] = f[y] + Iterated(f)[s \ {y}]
  <2> SUFFICES ASSUME NEW s \in SUBSET S, NEW y \in s
               PROVE  Iterated(f)[s] = f[y] + Iterated(f)[s \ {y}]
    OBVIOUS
  <2> QED BY TakeAny
<1>5. PICK it : it = Iterated(f)
  OBVIOUS
<1>6. it \in [SUBSET S -> Int] /\ it[{}] = 0
  BY <1>2, <1>3, <1>5
<1>7. \A s \in SUBSET S : \A y \in s : it[s] = f[y] + it[s \ {y}]
  BY <1>4, <1>5
<1>8. Additive(it, f, S)
  BY <1>6, <1>7 DEF Additive
<1> QED BY <1>5, <1>8

\* The sum of a part does not depend on the rest.
LEMMA SumOfPart ==
  ASSUME NEW S, IsFiniteSet(S), NEW f \in [S -> Int], NEW T \in SUBSET S
  PROVE  SumFunction([x \in T |-> f[x]]) = Iterated(f)[T]
<1> DEFINE g == [x \in T |-> f[x]]
           it == Iterated(f)
           jt == Iterated(g)
           H == {s \in SUBSET T : jt[s] = it[s]}
<1>0. DOMAIN g = T /\ \A x \in T : g[x] = f[x]
  OBVIOUS
<1>g. g \in [T -> Int]
  OBVIOUS
<1>1. IsFiniteSet(T)
  BY FS_Subset
<1> HIDE DEF g
<1>2. \A s \in SUBSET S : it[s] = TurnOf(f, it, s)
  BY IterationExists
<1> HIDE DEF it, H
<1>3. \A s \in SUBSET T : jt[s] = TurnOf(g, jt, s)
  BY <1>1, <1>g, IterationExists
<1> HIDE DEF jt
<1> USE DEF H
<1>4. ASSUME NEW s \in SUBSET T, \A U \in SUBSET s : U # s => U \in H PROVE s \in H
  <2>1. CASE s = {}
    BY <1>2, <1>3, <2>1 DEF TurnOf
  <2>2. CASE s # {}
    <3>1. TakenFirst(s) \in s
      BY <2>2, TakenFirstIn
    <3>2. jt[s \ {TakenFirst(s)}] = it[s \ {TakenFirst(s)}]
      BY <3>1, <1>4
    <3>3. g[TakenFirst(s)] = f[TakenFirst(s)]
      BY <3>1, <1>0
    <3> QED BY <1>2, <1>3, <2>2, <3>2, <3>3 DEF TurnOf
  <2> QED BY <2>1, <2>2
<1>5. SUBSET T \subseteq H
  <2> HIDE DEF H
  <2> QED BY <1>1, <1>4, SetInduction
<1>6. SumFunction(g) = jt[T]
  BY <1>0, Unfold DEF jt
<1> QED BY <1>5, <1>6 DEF g, it

-----------------------------------------------------------------------------
(* The facts to cite. *)

\* A sum over nothing is 0.
THEOREM SumEmpty ==
  ASSUME NEW f \in [{} -> Int]
  PROVE  SumFunction(f) = 0
<1>1. IsFiniteSet({}) /\ {} \in SUBSET {} /\ DOMAIN f = {}
  BY FS_EmptySet
<1>2. Iterated(f)[{}] = TurnOf(f, Iterated(f), {})
  BY <1>1, IterationExists
<1> QED BY <1>1, <1>2, Unfold DEF TurnOf

\* A sum of whole numbers is one.
THEOREM SumType ==
  ASSUME NEW S, IsFiniteSet(S), NEW f \in [S -> Int]
  PROVE  SumFunction(f) \in Int
<1>1. Iterated(f) \in [SUBSET S -> Int] /\ S \in SUBSET S
  BY IterationExists
<1> QED BY <1>1, Unfold

\* One summand can be taken out of a sum, whichever it is.
THEOREM SumTake ==
  ASSUME NEW S, IsFiniteSet(S), NEW f \in [S -> Int], NEW x \in S
  PROVE  SumFunction(f) = f[x] + SumFunction([y \in S \ {x} |-> f[y]])
<1>1. SumFunction(f) = Iterated(f)[S]
  BY Unfold
<1>2. SumFunction([y \in S \ {x} |-> f[y]]) = Iterated(f)[S \ {x}]
  BY SumOfPart
<1> QED BY <1>1, <1>2, TakeAny

\* A sum falls into the sums over a part and over the rest.
THEOREM SumSplit ==
  ASSUME NEW S, IsFiniteSet(S), NEW f \in [S -> Int], NEW A \in SUBSET S
  PROVE  SumFunction(f) = SumFunction([x \in A |-> f[x]]) + SumFunction([x \in S \ A |-> f[x]])
<1> DEFINE it == Iterated(f)
           B == S \ A
           H == {s \in SUBSET A : it[B \cup s] = it[s] + it[B]}
<1>0. Additive(it, f, S)
  BY IteratedAdds
<1>1. it \in [SUBSET S -> Int] /\ \A s \in SUBSET S : it[s] = TurnOf(f, it, s)
  BY IterationExists
<1> HIDE DEF it
<1>2. \A s \in SUBSET S : \A y \in s : it[s] = f[y] + it[s \ {y}]
  BY <1>0 DEF Additive
<1>3. ASSUME NEW s \in SUBSET A, \A U \in SUBSET s : U # s => U \in H PROVE s \in H
  <2>1. CASE s = {}
    <3>1. it[s] = 0
      BY <1>1, <2>1 DEF TurnOf
    <3>2. B \cup s = B
      BY <2>1
    <3>4. B \in SUBSET S /\ it[B] \in Int
      BY <1>1
    <3> HIDE DEF B
    <3>5. it[B \cup s] = it[B]
      BY <3>2
    <3>6. it[B] = 0 + it[B]
      BY <3>4
    <3>3. it[B \cup s] = it[s] + it[B]
      BY <3>1, <3>5, <3>6
    <3> QED BY <3>3
  <2>2. CASE s # {}
    <3>1. PICK y \in s : TRUE
      BY <2>2
    <3>2. (B \cup s) \ {y} = B \cup (s \ {y}) /\ B \cup s \in SUBSET S
      BY <3>1
    <3>3. it[B \cup s] = f[y] + it[B \cup (s \ {y})]
      BY <1>2, <3>1, <3>2
    <3>4. it[B \cup (s \ {y})] = it[s \ {y}] + it[B]
      BY <1>3, <3>1
    <3>5. it[s] = f[y] + it[s \ {y}]
      BY <1>2, <3>1
    <3>6. it[s \ {y}] \in Int /\ it[B] \in Int /\ f[y] \in Int
      BY <1>1, <3>1
    <3>7. it[B \cup s] = it[s] + it[B]
      BY <3>3, <3>4, <3>5, <3>6
    <3> QED BY <3>7
  <2> QED BY <2>1, <2>2
<1>4. IsFiniteSet(A) /\ B \cup A = S /\ B \in SUBSET S
  BY FS_Subset
<1>5. SUBSET A \subseteq H
  <2> HIDE DEF H
  <2> QED BY <1>3, <1>4, SetInduction
<1>6. it[S] = it[A] + it[B]
  BY <1>4, <1>5
<1>7. /\ SumFunction(f) = Iterated(f)[S]
      /\ SumFunction([x \in A |-> f[x]]) = Iterated(f)[A]
      /\ SumFunction([x \in B |-> f[x]]) = Iterated(f)[B]
  <2>1. SumFunction(f) = Iterated(f)[S]
    BY Unfold
  <2>2. SumFunction([x \in A |-> f[x]]) = Iterated(f)[A]
    BY SumOfPart
  <2>3. SumFunction([x \in B |-> f[x]]) = Iterated(f)[B]
    BY <1>4, SumOfPart
  <2> QED BY <2>1, <2>2, <2>3
<1> QED BY <1>6, <1>7 DEF it

\* What is at most as much in every place is at most as much in all.
THEOREM SumMonotone ==
  ASSUME NEW S, IsFiniteSet(S), NEW f \in [S -> Int], NEW g \in [S -> Int],
         \A x \in S : f[x] <= g[x]
  PROVE  SumFunction(f) <= SumFunction(g)
<1> DEFINE it == Iterated(f)
           jt == Iterated(g)
           H == {s \in SUBSET S : it[s] <= jt[s]}
<1>1. Additive(it, f, S)
  BY IteratedAdds
<1>2. Additive(jt, g, S)
  BY IteratedAdds
<1> HIDE DEF it, jt
<1>5. ASSUME NEW s \in SUBSET S, \A U \in SUBSET s : U # s => U \in H PROVE s \in H
  <2>1. CASE s = {}
    BY <1>1, <1>2, <2>1 DEF Additive
  <2>2. CASE s # {}
    <3>1. PICK y \in s : TRUE
      BY <2>2
    <3>2. it[s \ {y}] <= jt[s \ {y}]
      BY <1>5, <3>1
    <3>3. it[s \ {y}] \in Int /\ jt[s \ {y}] \in Int /\ f[y] \in Int /\ g[y] \in Int
      BY <1>1, <1>2, <3>1 DEF Additive
    <3>4. it[s] = f[y] + it[s \ {y}] /\ jt[s] = g[y] + jt[s \ {y}]
      BY <1>1, <1>2, <3>1 DEF Additive
    <3>5. f[y] <= g[y]
      BY <3>1
    <3>6. it[s] <= jt[s]
      BY <3>2, <3>3, <3>4, <3>5
    <3> QED BY <3>6
  <2> QED BY <2>1, <2>2
<1>6. SUBSET S \subseteq H
  <2> HIDE DEF H
  <2> QED BY <1>5, SetInduction
<1>7. it[S] <= jt[S]
  BY <1>6
<1>8. SumFunction(f) = Iterated(f)[S] /\ SumFunction(g) = Iterated(g)[S]
  BY Unfold
<1> QED BY <1>7, <1>8 DEF it, jt

\* When one summand changes, the sum changes by as much.
THEOREM SumUpdate ==
  ASSUME NEW S, IsFiniteSet(S), NEW f \in [S -> Int], NEW x \in S, NEW v \in Int
  PROVE  SumFunction([f EXCEPT ![x] = v]) = SumFunction(f) - f[x] + v
<1> DEFINE g == [f EXCEPT ![x] = v]
           rest == SumFunction([y \in S \ {x} |-> f[y]])
<1>1. g \in [S -> Int] /\ g[x] = v /\ [y \in S \ {x} |-> g[y]] = [y \in S \ {x} |-> f[y]]
  OBVIOUS
<1> HIDE DEF g
<1>2. SumFunction(g) = v + rest
  BY <1>1, SumTake
<1>3. SumFunction(f) = f[x] + rest
  BY SumTake
<1>4. rest \in Int
  <2>1. IsFiniteSet(S \ {x}) /\ [y \in S \ {x} |-> f[y]] \in [S \ {x} -> Int]
    BY FS_Subset
  <2> QED BY <2>1, SumType
<1>5. f[x] \in Int
  OBVIOUS
<1> HIDE DEF rest
<1>6. SumFunction(g) = SumFunction(f) - f[x] + v
  BY <1>2, <1>3, <1>4, <1>5
<1> QED BY <1>6 DEF g

\* Nothing adds up to nothing.
THEOREM SumZero ==
  ASSUME NEW S, IsFiniteSet(S)
  PROVE  SumFunction([x \in S |-> 0]) = 0
<1> DEFINE f == [x \in S |-> 0]
           it == Iterated(f)
           H == {s \in SUBSET S : it[s] = 0}
<1>0. f \in [S -> Int] /\ \A x \in S : f[x] = 0
  OBVIOUS
<1>d. SumFunction(f) = it[S]
  BY Unfold
<1> HIDE DEF f
<1>1. Additive(it, f, S)
  BY <1>0, IteratedAdds
<1> HIDE DEF it
<1>2. ASSUME NEW s \in SUBSET S, \A U \in SUBSET s : U # s => U \in H PROVE s \in H
  <2>1. CASE s = {}
    BY <1>1, <2>1 DEF Additive
  <2>2. CASE s # {}
    <3>1. PICK y \in s : TRUE
      BY <2>2
    <3>2. it[s \ {y}] = 0
      BY <1>2, <3>1
    <3>3. it[s] = f[y] + it[s \ {y}] /\ f[y] = 0
      BY <1>0, <1>1, <3>1 DEF Additive
    <3> QED BY <3>2, <3>3
  <2> QED BY <2>1, <2>2
<1>3. SUBSET S \subseteq H
  <2> HIDE DEF H
  <2> QED BY <1>2, SetInduction
<1> QED BY <1>d, <1>3 DEF f

\* What is not negative anywhere is not negative in all.
THEOREM SumNat ==
  ASSUME NEW S, IsFiniteSet(S), NEW f \in [S -> Nat]
  PROVE  SumFunction(f) \in Nat
<1> DEFINE z == [x \in S |-> 0]
<1>1. z \in [S -> Int] /\ f \in [S -> Int] /\ \A x \in S : z[x] <= f[x]
  OBVIOUS
<1>2. SumFunction(z) = 0
  BY SumZero
<1> HIDE DEF z
<1>3. SumFunction(z) <= SumFunction(f)
  BY <1>1, SumMonotone
<1>4. SumFunction(f) \in Int
  BY <1>1, SumType
<1> QED BY <1>2, <1>3, <1>4

\* Two sums over one set add up place by place.
THEOREM SumPlus ==
  ASSUME NEW S, IsFiniteSet(S), NEW f \in [S -> Int], NEW g \in [S -> Int]
  PROVE  SumFunction([x \in S |-> f[x] + g[x]]) = SumFunction(f) + SumFunction(g)
<1> DEFINE h == [x \in S |-> f[x] + g[x]]
           it == Iterated(f)
           jt == Iterated(g)
           kt == Iterated(h)
           H == {s \in SUBSET S : kt[s] = it[s] + jt[s]}
<1>0. h \in [S -> Int] /\ \A x \in S : h[x] = f[x] + g[x]
  OBVIOUS
<1>d. SumFunction(f) = it[S] /\ SumFunction(g) = jt[S] /\ SumFunction(h) = kt[S]
  BY <1>0, Unfold
<1> HIDE DEF h
<1>1. Additive(it, f, S)
  BY IteratedAdds
<1>2. Additive(jt, g, S)
  BY IteratedAdds
<1>3. Additive(kt, h, S)
  BY <1>0, IteratedAdds
<1> HIDE DEF it, jt, kt
<1>4. ASSUME NEW s \in SUBSET S, \A U \in SUBSET s : U # s => U \in H PROVE s \in H
  <2>1. CASE s = {}
    BY <1>1, <1>2, <1>3, <2>1 DEF Additive
  <2>2. CASE s # {}
    <3>1. PICK y \in s : TRUE
      BY <2>2
    <3>2. kt[s \ {y}] = it[s \ {y}] + jt[s \ {y}]
      BY <1>4, <3>1
    <3>3. it[s \ {y}] \in Int /\ jt[s \ {y}] \in Int /\ f[y] \in Int /\ g[y] \in Int
      BY <1>1, <1>2, <3>1 DEF Additive
    <3>4. it[s] = f[y] + it[s \ {y}] /\ jt[s] = g[y] + jt[s \ {y}] /\ kt[s] = h[y] + kt[s \ {y}]
      BY <1>1, <1>2, <1>3, <3>1 DEF Additive
    <3>5. h[y] = f[y] + g[y]
      BY <1>0, <3>1
    <3>6. kt[s] = it[s] + jt[s]
      BY <3>2, <3>3, <3>4, <3>5
    <3> QED BY <3>6
  <2> QED BY <2>1, <2>2
<1>5. SUBSET S \subseteq H
  <2> HIDE DEF H
  <2> QED BY <1>4, SetInduction
<1>6. kt[S] = it[S] + jt[S]
  BY <1>5
<1> QED BY <1>d, <1>6 DEF h

\* Of a sum with one place that is not 0 that place is left.
THEOREM SumOfOne ==
  ASSUME NEW S, IsFiniteSet(S), NEW f \in [S -> Int], NEW x \in S, \A y \in S \ {x} : f[y] = 0
  PROVE  SumFunction(f) = f[x]
<1>1. SumFunction(f) = f[x] + SumFunction([y \in S \ {x} |-> f[y]])
  BY ONLY SumTake, IsFiniteSet(S), f \in [S -> Int], x \in S
<1>2. [y \in S \ {x} |-> f[y]] = [y \in S \ {x} |-> 0] /\ IsFiniteSet(S \ {x})
  BY FS_Subset
<1>3. SumFunction([y \in S \ {x} |-> f[y]]) = 0
  BY <1>2, SumZero
<1>4. f[x] \in Int
  OBVIOUS
<1> QED BY <1>1, <1>3, <1>4

\* A sum is smaller than another when no summand is larger and one is smaller.
THEOREM SumStrict ==
  ASSUME NEW S, IsFiniteSet(S), NEW f \in [S -> Int], NEW g \in [S -> Int],
         \A x \in S : f[x] <= g[x], NEW y \in S, f[y] < g[y]
  PROVE  SumFunction(f) < SumFunction(g)
<1> DEFINE R == S \ {y}
           fr == [x \in R |-> f[x]]
           gr == [x \in R |-> g[x]]
<1>1. IsFiniteSet(R)
  BY FS_Subset
<1>2. fr \in [R -> Int] /\ gr \in [R -> Int] /\ \A x \in R : fr[x] <= gr[x]
  OBVIOUS
<1>3. SumFunction(f) = f[y] + SumFunction(fr) /\ SumFunction(g) = g[y] + SumFunction(gr)
  BY SumTake
<1> HIDE DEF R, fr, gr
<1>4. SumFunction(fr) <= SumFunction(gr)
  BY <1>1, <1>2, SumMonotone
<1>5. SumFunction(fr) \in Int /\ SumFunction(gr) \in Int /\ f[y] \in Int /\ g[y] \in Int
  BY <1>1, <1>2, SumType
<1> QED BY <1>3, <1>4, <1>5

\* A sum may be taken class by class, whatever key sorts the domain into classes.
THEOREM SumPartition ==
  ASSUME NEW S, IsFiniteSet(S), NEW K, IsFiniteSet(K), NEW key \in [S -> K], NEW f \in [S -> Int],
         NEW part, part = [k \in K |-> SumFunction([x \in {y \in S : key[y] = k} |-> f[x]])]
  PROVE  part \in [K -> Int] /\ SumFunction(part) = SumFunction(f)
<1> DEFINE Of(T) == {y \in S : key[y] \in T}
           Class(k) == {y \in S : key[y] = k}
           H == {T \in SUBSET K : SumFunction([k \in T |-> part[k]]) = SumFunction([x \in Of(T) |-> f[x]])}
<1>1. \A T \in SUBSET S : IsFiniteSet(T) /\ [x \in T |-> f[x]] \in [T -> Int]
  BY FS_Subset
<1>2. \A k \in K : SumFunction([x \in Class(k) |-> f[x]]) \in Int
  <2> SUFFICES ASSUME NEW k \in K PROVE SumFunction([x \in Class(k) |-> f[x]]) \in Int
    OBVIOUS
  <2>1. PICK C : C = Class(k)
    OBVIOUS
  <2>2. IsFiniteSet(C) /\ [x \in C |-> f[x]] \in [C -> Int]
    BY <1>1, <2>1
  <2>3. SumFunction([x \in C |-> f[x]]) \in Int
    BY <2>2, SumType
  <2> QED BY <2>1, <2>3
<1>3. part \in [K -> Int] /\ \A k \in K : part[k] = SumFunction([x \in Class(k) |-> f[x]])
  BY <1>2
<1>4. ASSUME NEW T \in SUBSET K, \A U \in SUBSET T : U # T => U \in H
      PROVE  T \in H
  <2>1. CASE T = {}
    <3>1. [k \in T |-> part[k]] \in [{} -> Int] /\ [x \in Of(T) |-> f[x]] \in [{} -> Int]
      BY <2>1
    <3> QED BY <3>1, SumEmpty
  <2>2. CASE T # {}
    <3>1. PICK k \in T : TRUE
      BY <2>2
    <3>2. PICK U : U = T \ {k}
      OBVIOUS
    <3>3. U \in H
      BY <1>4, <3>1, <3>2
    <3>4. PICK g : g = [j \in T |-> part[j]]
      OBVIOUS
    <3>5. g \in [T -> Int] /\ g[k] = part[k] /\ [j \in T \ {k} |-> g[j]] = [j \in U |-> part[j]]
      BY <1>3, <3>1, <3>2, <3>4
    <3>6. IsFiniteSet(T)
      BY FS_Subset
    <3>7. SumFunction(g) = g[k] + SumFunction([j \in T \ {k} |-> g[j]])
      <4>1. k \in T /\ g \in [T -> Int]
        BY <3>1, <3>5
      <4> QED BY ONLY <4>1, <3>6, SumTake
    <3>8. PICK R : R = Of(T)
      OBVIOUS
    <3>9. PICK h : h = [x \in R |-> f[x]]
      OBVIOUS
    <3>10. R \in SUBSET S /\ Class(k) \in SUBSET R /\ R \ Class(k) = Of(U)
      BY <3>1, <3>2, <3>8
    <3>11. IsFiniteSet(R) /\ h \in [R -> Int]
      BY <1>1, <3>9, <3>10
    <3>12. PICK A : A = Class(k)
      OBVIOUS
    <3>13. SumFunction(h) = SumFunction([x \in A |-> h[x]]) + SumFunction([x \in R \ A |-> h[x]])
      BY ONLY <3>10, <3>11, <3>12, SumSplit
    <3>14. [x \in A |-> h[x]] = [x \in Class(k) |-> f[x]] /\ [x \in R \ A |-> h[x]] = [x \in Of(U) |-> f[x]]
      BY <3>9, <3>10, <3>12
    <3>15. SumFunction([j \in U |-> part[j]]) = SumFunction([x \in Of(U) |-> f[x]])
      BY <3>3
    <3>16. SumFunction(g) = SumFunction(h)
      BY <1>3, <3>1, <3>5, <3>7, <3>13, <3>14, <3>15
    <3> QED BY <3>4, <3>8, <3>9, <3>16
  <2> QED BY <2>1, <2>2
<1> HIDE DEF H
<1>5. SUBSET K \subseteq H
  BY <1>4, SetInduction
<1>6. K \in H
  BY <1>5
<1>7. SumFunction([k \in K |-> part[k]]) = SumFunction([x \in Of(K) |-> f[x]])
  BY <1>6 DEF H
<1>8. [k \in K |-> part[k]] = part /\ [x \in Of(K) |-> f[x]] = f
  BY <1>3
<1> QED BY <1>3, <1>7, <1>8

\* What a condition leaves out of a sum might as well count for nothing.
THEOREM SumFilter ==
  ASSUME NEW S, IsFiniteSet(S), NEW f \in [S -> Int], NEW A \in SUBSET S
  PROVE  SumFunction([x \in A |-> f[x]]) = SumFunction([x \in S |-> IF x \in A THEN f[x] ELSE 0])
<1>1. PICK g : g = [x \in S |-> IF x \in A THEN f[x] ELSE 0]
  OBVIOUS
<1>2. g \in [S -> Int]
  BY <1>1
<1>3. SumFunction(g) = SumFunction([x \in A |-> g[x]]) + SumFunction([x \in S \ A |-> g[x]])
  BY <1>2, SumSplit
<1>4. [x \in A |-> g[x]] = [x \in A |-> f[x]] /\ [x \in S \ A |-> g[x]] = [x \in S \ A |-> 0]
  BY <1>1
<1>5. IsFiniteSet(S \ A) /\ IsFiniteSet(A)
  BY FS_Subset
<1>6. SumFunction([x \in S \ A |-> 0]) = 0
  BY <1>5, SumZero
<1>7. SumFunction([x \in A |-> f[x]]) \in Int
  <2>1. [x \in A |-> f[x]] \in [A -> Int]
    OBVIOUS
  <2> QED BY <1>5, <2>1, SumType
<1> QED BY <1>1, <1>3, <1>4, <1>6, <1>7

\* The same so many times.
THEOREM SumSame ==
  ASSUME NEW n \in Nat, NEW q \in Int
  PROVE  SumFunction([d \in 0..n |-> q]) = (n + 1) * q
<1> DEFINE P(m) == SumFunction([d \in 0..m |-> q]) = (m + 1) * q
           G == {m \in Nat : P(m)}
<1>1. 0 \in G
  <2>1. PICK D : D = 0..0
    OBVIOUS
  <2>2. IsFiniteSet(D) /\ D = {0}
    <3>1. D = {0}
      BY <2>1
    <3> QED BY <3>1, FS_Singleton
  <2>3. PICK f : f = [d \in D |-> q]
    OBVIOUS
  <2>4. f \in [D -> Int] /\ 0 \in D /\ \A y \in D \ {0} : f[y] = 0
    BY <2>2, <2>3
  <2>5. SumFunction(f) = f[0]
    BY ONLY <2>2, <2>4, SumOfOne
  <2> QED BY <2>1, <2>3, <2>4, <2>5
<1>2. ASSUME NEW m \in G PROVE m + 1 \in G
  <2>1. PICK D : D = 0..(m + 1)
    OBVIOUS
  <2>2. PICK l : l = m + 1
    OBVIOUS
  <2>3. PICK f : f = [d \in D |-> q]
    OBVIOUS
  <2>4. IsFiniteSet(D)
    BY <2>1, FS_Interval
  <2>5. f \in [D -> Int] /\ l \in D
    BY <2>1, <2>2, <2>3
  <2>6. SumFunction(f) = f[l] + SumFunction([y \in D \ {l} |-> f[y]])
    <3>1. l \in D /\ f \in [D -> Int]
      BY <2>5
    <3> HIDE DEF P, G
    <3> QED BY ONLY <3>1, <2>4, SumTake
  <2>7. D \ {l} = 0..m
    BY <2>1, <2>2
  <2>8. [y \in D \ {l} |-> f[y]] = [y \in 0..m |-> q]
    BY <2>3, <2>7
  <2>9. SumFunction(f) = q + (m + 1) * q
    BY <2>3, <2>5, <2>6, <2>8
  <2>10. q + (m + 1) * q = ((m + 1) + 1) * q
    OBVIOUS
  <2> QED BY <2>1, <2>3, <2>9, <2>10
<1> HIDE DEF G
<1>3. Nat \subseteq G
  BY <1>1, <1>2, NatSetInduction
<1>4. n \in G
  BY <1>3
<1> QED BY <1>4 DEF G
====
