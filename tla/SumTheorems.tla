------------------------------ MODULE SumTheorems ------------------------------
(***************************************************************************)
(* Facts about sums of the values of a function over a finite set, as the  *)
(* models write them for budgets, increases and repeated messages, and     *)
(* about the ranks of a finite set that is ordered.                        *)
(*                                                                         *)
(* Induction is on sets: a set of counterexamples that would have a        *)
(* smaller one with every element is empty.                                *)
(***************************************************************************)
EXTENDS Integers, FiniteSetsExt, FiniteSetTheorems, WellFoundedInduction, TLAPS

\* Natural numbers that are excluded one after the other
LEMMA NoLeast ==
    ASSUME NEW T, T \subseteq Nat, 0 \notin T, \A n \in Nat : n + 1 \in T => n \in T
    PROVE  T = {}
  <1>1. ASSUME T # {} PROVE FALSE
    <2>1. IsWellFoundedOn(OpToRel(<, Nat), Nat)
      BY NatLessThanWellFounded
    <2>2. PICK x \in T : \A y \in T : <<y, x>> \notin OpToRel(<, Nat)
      BY <1>1, <2>1, WFMin
    <2>3. x \in Nat /\ x # 0
      BY <2>2
    <2>4. x - 1 \in Nat /\ x - 1 + 1 = x /\ x - 1 < x
      BY <2>3
    <2>5. x - 1 \in T
      BY <2>2, <2>4
    <2>6. <<x - 1, x>> \in OpToRel(<, Nat)
      BY <2>3, <2>4 DEF OpToRel
    <2> QED BY <2>2, <2>5, <2>6
  <1> QED BY <1>1

\* Finite sets that are excluded one element after the other
LEMMA NoLeastSet ==
    ASSUME NEW S, IsFiniteSet(S), NEW T, T \subseteq SUBSET S, {} \notin T,
           \A s \in T : \E x \in s : s \ {x} \in T
    PROVE  T = {}
  <1> DEFINE U == {n \in Nat : \E s \in T : Cardinality(s) = n}
  <1>1. \A s \in T : IsFiniteSet(s) /\ Cardinality(s) \in Nat
    BY FS_Subset, FS_CardinalityType
  <1>2. 0 \notin U
    BY <1>1, FS_EmptySet
  <1>3. ASSUME NEW n \in Nat, n + 1 \in U PROVE n \in U
    <2>1. PICK s \in T : Cardinality(s) = n + 1
      BY <1>3
    <2>2. PICK x \in s : s \ {x} \in T
      OBVIOUS
    <2>3. Cardinality(s \ {x}) = n
      BY <1>1, <2>1, FS_RemoveElement
    <2> QED BY <2>2, <2>3
  <1>4. U = {}
    <2> HIDE DEF U
    <2> QED BY <1>2, <1>3, NoLeast DEF U
  <1> QED BY <1>1, <1>4

-----------------------------------------------------------------------------
(* The sum is what its recursion says.                                      *)

Pick(s) == CHOOSE x \in s : TRUE
Summed(f, s, g) == IF s = {} THEN 0 ELSE f[Pick(s)] + g[s \ {Pick(s)}]

\* The subsets of S with n elements at most
Small(S, n) == {s \in SUBSET S : Cardinality(s) <= n}

\* Small sets grow by an element at a time.
LEMMA SmallSets ==
    ASSUME NEW S, IsFiniteSet(S), NEW n \in Nat
    PROVE  /\ Small(S, 0) = {{}}
           /\ Small(S, n) \subseteq Small(S, n + 1) /\ Small(S, Cardinality(S)) = SUBSET S
           /\ \A s \in Small(S, n + 1) : s # {} => s \ {Pick(s)} \in Small(S, n)
           /\ \A s \in Small(S, n) : s # {} => s \ {Pick(s)} \in Small(S, n)
  <1>1. \A s \in SUBSET S : IsFiniteSet(s) /\ Cardinality(s) \in Nat /\ Cardinality(s) <= Cardinality(S)
    BY FS_Subset, FS_CardinalityType
  <1>2. \A s \in SUBSET S : Cardinality(s) <= 0 <=> s = {}
    <2>1. \A s \in SUBSET S : Cardinality(s) = 0 <=> s = {}
      BY <1>1, FS_EmptySet
    <2> QED BY <1>1, <2>1
  <1>3. \A s \in SUBSET S : s # {} => Cardinality(s \ {Pick(s)}) = Cardinality(s) - 1
    <2>1. ASSUME NEW s \in SUBSET S, s # {} PROVE Cardinality(s \ {Pick(s)}) = Cardinality(s) - 1
      <3>1. Pick(s) \in s
        BY <2>1 DEF Pick
      <3> QED BY <1>1, <3>1, FS_RemoveElement
    <2> QED BY <2>1
  <1>4. \A c \in Nat : (c <= n => c <= n + 1) /\ (c <= n + 1 => c - 1 <= n) /\ (c <= n => c - 1 <= n)
    OBVIOUS
  <1> QED BY <1>1, <1>2, <1>3, <1>4 DEF Small

\* A function that satisfies the recursion on all subsets
LEMMA SummingExists ==
    ASSUME NEW f, NEW S, IsFiniteSet(S)
    PROVE  \E g : g = [s \in SUBSET S |-> Summed(f, s, g)]
  <1> DEFINE Good(n) == \E g : g = [s \in Small(S, n) |-> Summed(f, s, g)]
             T == {n \in Nat : ~Good(n)}
  <1>1. Good(0)
    <2> DEFINE g == [s \in Small(S, 0) |-> 0]
    <2>1. g = [s \in Small(S, 0) |-> Summed(f, s, g)]
      BY SmallSets DEF Summed
    <2> QED BY <2>1
  <1>2. ASSUME NEW n \in Nat, Good(n) PROVE Good(n + 1)
    <2>1. PICK g : g = [s \in Small(S, n) |-> Summed(f, s, g)]
      BY <1>2
    <2> DEFINE h == [s \in Small(S, n + 1) |-> Summed(f, s, g)]
    <2>2. ASSUME NEW s \in Small(S, n) PROVE h[s] = g[s]
      <3>1. g[s] = Summed(f, s, g)
        BY <2>1
      <3>2. s \in Small(S, n + 1)
        BY SmallSets
      <3> QED BY <3>1, <3>2
    <2>3. ASSUME NEW s \in Small(S, n + 1) PROVE Summed(f, s, g) = Summed(f, s, h)
      <3>1. CASE s = {}
        BY <3>1 DEF Summed
      <3>2. CASE s # {}
        <4>1. s \ {Pick(s)} \in Small(S, n)
          BY <3>2, SmallSets
        <4>2. h[s \ {Pick(s)}] = g[s \ {Pick(s)}]
          BY <2>2, <4>1
        <4> HIDE DEF h
        <4> QED BY <3>2, <4>2 DEF Summed
      <3> QED BY <3>1, <3>2
    <2>4. h = [s \in Small(S, n + 1) |-> Summed(f, s, h)]
      BY <2>3
    <2> HIDE DEF h
    <2> QED BY <2>4
  <1>3. T = {}
    <2>1. 0 \notin T /\ \A n \in Nat : n + 1 \in T => n \in T
      <3> HIDE DEF Good
      <3> QED BY <1>1, <1>2
    <2> HIDE DEF T
    <2>2. T \subseteq Nat
      BY DEF T
    <2> QED BY <2>1, <2>2, NoLeast
  <1>4. Cardinality(S) \in Nat
    BY FS_CardinalityType
  <1>5. Good(Cardinality(S))
    BY <1>3, <1>4
  <1> QED BY <1>5, SmallSets

Summing(f, S) == CHOOSE g : g = [s \in SUBSET S |-> Summed(f, s, g)]

\* The fold over S is a function of the subsets that takes one element off.
LEMMA SummingIs ==
    ASSUME NEW f, NEW S, IsFiniteSet(S)
    PROVE  /\ SumFunctionOnSet(f, S) = Summing(f, S)[S]
           /\ \A s \in SUBSET S : Summing(f, S)[s] = Summed(f, s, Summing(f, S))
  <1> DEFINE G == Summing(f, S)
  <1>1. SumFunctionOnSet(f, S) =
          (CHOOSE g : g = [s \in SUBSET S |->
                              IF s = {} THEN 0
                              ELSE f[CHOOSE x \in s : TRUE] + g[s \ {CHOOSE x \in s : TRUE}]])[S]
    BY DEF SumFunctionOnSet, FoldFunctionOnSet, MapThenFoldSet
  <1>2. SumFunctionOnSet(f, S) = G[S]
    BY <1>1 DEF Summing, Summed, Pick
  <1>3. G = [s \in SUBSET S |-> Summed(f, s, G)]
    BY SummingExists DEF Summing
  <1> HIDE DEF G
  <1>4. \A s \in SUBSET S : G[s] = Summed(f, s, G)
    BY <1>3
  <1> QED BY <1>2, <1>4 DEF G

\* The sum over a set is the same whatever larger set the recursion is taken on.
LEMMA SummingAgrees ==
    ASSUME NEW f, NEW S, IsFiniteSet(S), NEW R \in SUBSET S
    PROVE  SumFunctionOnSet(f, R) = Summing(f, S)[R]
  <1> DEFINE G == Summing(f, S)
             H == Summing(f, R)
             T == {s \in SUBSET R : G[s] # H[s]}
  <1>1. IsFiniteSet(R)
    BY FS_Subset
  <1>2. /\ \A s \in SUBSET R : G[s] = Summed(f, s, G) /\ H[s] = Summed(f, s, H)
        /\ SumFunctionOnSet(f, R) = H[R]
    BY <1>1, SummingIs
  <1> HIDE DEF G, H
  <1>3. {} \notin T
    BY <1>2 DEF Summed
  <1>4. ASSUME NEW s \in T PROVE \E x \in s : s \ {x} \in T
    <2>1. s # {} /\ Pick(s) \in s
      BY <1>3 DEF Pick
    <2>2. G[s \ {Pick(s)}] # H[s \ {Pick(s)}]
      BY <1>2, <2>1 DEF Summed
    <2> QED BY <2>1, <2>2
  <1>5. T = {}
    <2>1. T \subseteq SUBSET R
      OBVIOUS
    <2> HIDE DEF T
    <2> QED BY <1>1, <1>3, <1>4, <2>1, NoLeastSet
  <1> QED BY <1>2, <1>5 DEF G

\* The recursion of the sum
LEMMA SumStep ==
    ASSUME NEW f, NEW S, IsFiniteSet(S)
    PROVE  /\ S = {} => SumFunctionOnSet(f, S) = 0
           /\ S # {} => /\ Pick(S) \in S
                        /\ SumFunctionOnSet(f, S) = f[Pick(S)] + SumFunctionOnSet(f, S \ {Pick(S)})
  <1>1. SumFunctionOnSet(f, S) = Summed(f, S, Summing(f, S))
    BY SummingIs
  <1>2. CASE S = {}
    BY <1>1, <1>2 DEF Summed
  <1>3. CASE S # {}
    <2>1. Pick(S) \in S
      BY <1>3 DEF Pick
    <2>2. SumFunctionOnSet(f, S \ {Pick(S)}) = Summing(f, S)[S \ {Pick(S)}]
      BY SummingAgrees
    <2> QED BY <1>1, <1>3, <2>1, <2>2 DEF Summed
  <1> QED BY <1>2, <1>3

-----------------------------------------------------------------------------
(* What the models use.                                                     *)

\* A sum of integers is an integer.
LEMMA SumType ==
    ASSUME NEW S, IsFiniteSet(S), NEW f, \A x \in S : f[x] \in Int
    PROVE  SumFunctionOnSet(f, S) \in Int
  <1> DEFINE T == {s \in SUBSET S : SumFunctionOnSet(f, s) \notin Int}
  <1>1. \A s \in SUBSET S : IsFiniteSet(s)
    BY FS_Subset
  <1>2. {} \notin T
    <2>1. SumFunctionOnSet(f, {}) = 0
      BY <1>1, SumStep
    <2> QED BY <2>1
  <1>3. ASSUME NEW s \in T PROVE \E x \in s : s \ {x} \in T
    <2>1. s # {} /\ s \in SUBSET S
      BY <1>2
    <2>2. Pick(s) \in s /\ SumFunctionOnSet(f, s) = f[Pick(s)] + SumFunctionOnSet(f, s \ {Pick(s)})
      BY <1>1, <2>1, SumStep
    <2>3. s \ {Pick(s)} \in T
      BY <2>1, <2>2
    <2> QED BY <2>2, <2>3
  <1>4. T = {}
    <2>1. T \subseteq SUBSET S
      OBVIOUS
    <2> HIDE DEF T
    <2> QED BY <1>2, <1>3, <2>1, NoLeastSet
  <1> QED BY <1>4

\* The sum over a set is any of its values and the sum over the rest.
LEMMA SumRemove ==
    ASSUME NEW S, IsFiniteSet(S), NEW f, \A y \in S : f[y] \in Int, NEW x \in S
    PROVE  SumFunctionOnSet(f, S) = f[x] + SumFunctionOnSet(f, S \ {x})
  <1> DEFINE Holds(s) == \A y \in s : SumFunctionOnSet(f, s) = f[y] + SumFunctionOnSet(f, s \ {y})
             T == {s \in SUBSET S : ~Holds(s)}
  <1>1. \A s \in SUBSET S : IsFiniteSet(s) /\ SumFunctionOnSet(f, s) \in Int
    <2>1. ASSUME NEW s \in SUBSET S PROVE IsFiniteSet(s) /\ SumFunctionOnSet(f, s) \in Int
      <3>1. IsFiniteSet(s)
        BY FS_Subset
      <3> QED BY <3>1, SumType
    <2> QED BY <2>1
  <1>2. {} \notin T
    OBVIOUS
  \* Two elements are taken out in one order or the other.
  <1>3. ASSUME NEW s \in SUBSET S, \A p \in s : s \ {p} \notin T PROVE s \notin T
    <2>1. ASSUME NEW y \in s PROVE SumFunctionOnSet(f, s) = f[y] + SumFunctionOnSet(f, s \ {y})
      <3> DEFINE p == Pick(s)
      <3>1. p \in s /\ SumFunctionOnSet(f, s) = f[p] + SumFunctionOnSet(f, s \ {p})
        BY <1>1, <2>1, SumStep
      <3> HIDE DEF p
      <3>2. CASE y = p
        BY <3>1, <3>2
      <3>3. CASE y # p
        <4>1. y \in s \ {p} /\ p \in s \ {y}
          BY <3>1, <3>3
        <4>2. Holds(s \ {p}) /\ Holds(s \ {y})
          BY <1>3, <2>1, <3>1
        <4>3. SumFunctionOnSet(f, s \ {p}) = f[y] + SumFunctionOnSet(f, (s \ {p}) \ {y})
          BY <4>1, <4>2
        <4>4. SumFunctionOnSet(f, s \ {y}) = f[p] + SumFunctionOnSet(f, (s \ {y}) \ {p})
          BY <4>1, <4>2
        <4>5. (s \ {y}) \ {p} = (s \ {p}) \ {y}
          OBVIOUS
        <4>6. f[p] \in Int /\ f[y] \in Int /\ SumFunctionOnSet(f, (s \ {p}) \ {y}) \in Int
          <5>1. (s \ {p}) \ {y} \in SUBSET S /\ p \in S /\ y \in S
            BY <3>1
          <5> QED BY <1>1, <5>1
        <4>7. \A a, b, c \in Int : a + (b + c) = b + (a + c)
          OBVIOUS
        <4> DEFINE r == SumFunctionOnSet(f, (s \ {p}) \ {y})
        <4>8. SumFunctionOnSet(f, s \ {y}) = f[p] + r
          BY <4>4, <4>5
        <4>9. SumFunctionOnSet(f, s) = f[p] + (f[y] + r)
          BY <3>1, <4>3
        <4>10. f[p] + (f[y] + r) = f[y] + (f[p] + r)
          BY <4>6, <4>7
        <4> QED BY <4>8, <4>9, <4>10
      <3> QED BY <3>2, <3>3
    <2> QED BY <2>1
  <1>4. T = {}
    <2>1. T \subseteq SUBSET S
      OBVIOUS
    <2>2. \A s \in T : \E p \in s : s \ {p} \in T
      BY <1>3, <2>1
    <2> HIDE DEF T
    <2> QED BY <1>2, <2>1, <2>2, NoLeastSet
  <1>5. S \notin T
    <2> HIDE DEF T
    <2> QED BY <1>4
  <1> QED BY <1>5

\* Equal values have equal sums.
LEMMA SumEqual ==
    ASSUME NEW S, IsFiniteSet(S), NEW f, NEW g, \A x \in S : f[x] = g[x]
    PROVE  SumFunctionOnSet(f, S) = SumFunctionOnSet(g, S)
  <1> DEFINE T == {s \in SUBSET S : SumFunctionOnSet(f, s) # SumFunctionOnSet(g, s)}
  <1>1. \A s \in SUBSET S : IsFiniteSet(s)
    BY FS_Subset
  <1>2. {} \notin T
    BY <1>1, SumStep
  <1>3. ASSUME NEW s \in T PROVE \E x \in s : s \ {x} \in T
    <2>1. s # {} /\ s \in SUBSET S
      BY <1>2
    <2>2. /\ Pick(s) \in s
          /\ SumFunctionOnSet(f, s) = f[Pick(s)] + SumFunctionOnSet(f, s \ {Pick(s)})
          /\ SumFunctionOnSet(g, s) = g[Pick(s)] + SumFunctionOnSet(g, s \ {Pick(s)})
      BY <1>1, <2>1, SumStep
    <2>3. f[Pick(s)] = g[Pick(s)]
      BY <2>1, <2>2
    <2>4. s \ {Pick(s)} \in T
      BY <2>1, <2>2, <2>3
    <2> QED BY <2>2, <2>4
  <1>4. T = {}
    <2>1. T \subseteq SUBSET S
      OBVIOUS
    <2> HIDE DEF T
    <2> QED BY <1>2, <1>3, <2>1, NoLeastSet
  <1> QED BY <1>4

\* Values that are at most others have a sum that is at most the other.
LEMMA SumOrdered ==
    ASSUME NEW S, IsFiniteSet(S), NEW f, NEW g,
           \A x \in S : f[x] \in Int /\ g[x] \in Int /\ f[x] <= g[x]
    PROVE  SumFunctionOnSet(f, S) <= SumFunctionOnSet(g, S)
  <1> DEFINE T == {s \in SUBSET S : ~(SumFunctionOnSet(f, s) <= SumFunctionOnSet(g, s))}
  <1>1. \A s \in SUBSET S : /\ IsFiniteSet(s) /\ SumFunctionOnSet(f, s) \in Int
                            /\ SumFunctionOnSet(g, s) \in Int
    <2>1. ASSUME NEW s \in SUBSET S
          PROVE  IsFiniteSet(s) /\ SumFunctionOnSet(f, s) \in Int /\ SumFunctionOnSet(g, s) \in Int
      <3>1. IsFiniteSet(s)
        BY FS_Subset
      <3> QED BY <3>1, SumType
    <2> QED BY <2>1
  <1>2. {} \notin T
    <2>1. SumFunctionOnSet(f, {}) = 0 /\ SumFunctionOnSet(g, {}) = 0
      BY <1>1, SumStep
    <2> QED BY <2>1
  <1>3. ASSUME NEW s \in T PROVE \E x \in s : s \ {x} \in T
    <2> DEFINE p == Pick(s)
    <2>1. s # {} /\ s \in SUBSET S
      BY <1>2
    <2>2. /\ p \in s
          /\ SumFunctionOnSet(f, s) = f[p] + SumFunctionOnSet(f, s \ {p})
          /\ SumFunctionOnSet(g, s) = g[p] + SumFunctionOnSet(g, s \ {p})
      BY <1>1, <2>1, SumStep
    <2> HIDE DEF p
    <2>3. f[p] \in Int /\ g[p] \in Int /\ f[p] <= g[p] /\ s \ {p} \in SUBSET S
      BY <2>1, <2>2
    <2>4. \A a, b, c, d \in Int : a <= b /\ c <= d => a + c <= b + d
      OBVIOUS
    <2>5. s \ {p} \in T
      BY <1>1, <2>2, <2>3, <2>4
    <2> QED BY <2>2, <2>5
  <1>4. T = {}
    <2>1. T \subseteq SUBSET S
      OBVIOUS
    <2> HIDE DEF T
    <2> QED BY <1>2, <1>3, <2>1, NoLeastSet
  <1> QED BY <1>4

\* The sum of two functions is the sum of their sums.
LEMMA SumPlus ==
    ASSUME NEW S, IsFiniteSet(S), NEW f, NEW g, NEW h,
           \A x \in S : f[x] \in Int /\ g[x] \in Int /\ h[x] = f[x] + g[x]
    PROVE  SumFunctionOnSet(h, S) = SumFunctionOnSet(f, S) + SumFunctionOnSet(g, S)
  <1> DEFINE Holds(s) == SumFunctionOnSet(h, s) = SumFunctionOnSet(f, s) + SumFunctionOnSet(g, s)
             T == {s \in SUBSET S : ~Holds(s)}
  <1>1. \A s \in SUBSET S : /\ IsFiniteSet(s) /\ SumFunctionOnSet(f, s) \in Int
                            /\ SumFunctionOnSet(g, s) \in Int
    <2>1. ASSUME NEW s \in SUBSET S
          PROVE  IsFiniteSet(s) /\ SumFunctionOnSet(f, s) \in Int /\ SumFunctionOnSet(g, s) \in Int
      <3>1. IsFiniteSet(s)
        BY FS_Subset
      <3> QED BY <3>1, SumType
    <2> QED BY <2>1
  <1>2. {} \notin T
    <2>1. SumFunctionOnSet(f, {}) = 0 /\ SumFunctionOnSet(g, {}) = 0 /\ SumFunctionOnSet(h, {}) = 0
      BY <1>1, SumStep
    <2> QED BY <2>1
  <1>3. ASSUME NEW s \in T PROVE \E x \in s : s \ {x} \in T
    <2> DEFINE p == Pick(s)
    <2>1. s # {} /\ s \in SUBSET S
      BY <1>2
    <2>2. /\ p \in s
          /\ SumFunctionOnSet(f, s) = f[p] + SumFunctionOnSet(f, s \ {p})
          /\ SumFunctionOnSet(g, s) = g[p] + SumFunctionOnSet(g, s \ {p})
          /\ SumFunctionOnSet(h, s) = h[p] + SumFunctionOnSet(h, s \ {p})
      BY <1>1, <2>1, SumStep
    <2> HIDE DEF p
    <2>3. f[p] \in Int /\ g[p] \in Int /\ h[p] = f[p] + g[p] /\ s \ {p} \in SUBSET S
      BY <2>1, <2>2
    <2>4. \A a, b, c, d \in Int : (a + b) + (c + d) = (a + c) + (b + d)
      OBVIOUS
    <2>5. s \ {p} \in T
      BY <1>1, <2>2, <2>3, <2>4
    <2> QED BY <2>2, <2>5
  <1>4. T = {}
    <2>1. T \subseteq SUBSET S
      OBVIOUS
    <2> HIDE DEF T
    <2> QED BY <1>2, <1>3, <2>1, NoLeastSet
  <1> QED BY <1>4

\* The sum of natural numbers is a natural number.
LEMMA SumNat ==
    ASSUME NEW S, IsFiniteSet(S), NEW f, \A x \in S : f[x] \in Nat
    PROVE  SumFunctionOnSet(f, S) \in Nat
  <1> DEFINE T == {s \in SUBSET S : SumFunctionOnSet(f, s) \notin Nat}
  <1>1. \A s \in SUBSET S : IsFiniteSet(s)
    BY FS_Subset
  <1>2. {} \notin T
    <2>1. SumFunctionOnSet(f, {}) = 0
      BY <1>1, SumStep
    <2> QED BY <2>1
  <1>3. ASSUME NEW s \in T PROVE \E x \in s : s \ {x} \in T
    <2>1. s # {} /\ s \in SUBSET S
      BY <1>2
    <2>2. Pick(s) \in s /\ SumFunctionOnSet(f, s) = f[Pick(s)] + SumFunctionOnSet(f, s \ {Pick(s)})
      BY <1>1, <2>1, SumStep
    <2>3. s \ {Pick(s)} \in T
      BY <2>1, <2>2
    <2> QED BY <2>2, <2>3
  <1>4. T = {}
    <2>1. T \subseteq SUBSET S
      OBVIOUS
    <2> HIDE DEF T
    <2> QED BY <1>2, <1>3, <2>1, NoLeastSet
  <1> QED BY <1>4

\* The sum over a set is the sum over a part and the sum over what is left.
LEMMA SumSplit ==
    ASSUME NEW S, IsFiniteSet(S), NEW f, \A y \in S : f[y] \in Int, NEW A \in SUBSET S
    PROVE  SumFunctionOnSet(f, S) = SumFunctionOnSet(f, A) + SumFunctionOnSet(f, S \ A)
  <1> DEFINE Holds(a) == SumFunctionOnSet(f, S) = SumFunctionOnSet(f, a) + SumFunctionOnSet(f, S \ a)
             T == {a \in SUBSET A : ~Holds(a)}
  <1>1. \A s \in SUBSET S : IsFiniteSet(s) /\ SumFunctionOnSet(f, s) \in Int
    <2>1. ASSUME NEW s \in SUBSET S PROVE IsFiniteSet(s) /\ SumFunctionOnSet(f, s) \in Int
      <3>1. IsFiniteSet(s)
        BY FS_Subset
      <3> QED BY <3>1, SumType
    <2> QED BY <2>1
  <1>2. {} \notin T
    <2>1. SumFunctionOnSet(f, {}) = 0 /\ S \ {} = S
      BY <1>1, SumStep
    <2> QED BY <1>1, <2>1
  <1>3. ASSUME NEW a \in T PROVE \E x \in a : a \ {x} \in T
    <2>1. a # {} /\ a \in SUBSET A /\ a \in SUBSET S
      BY <1>2
    <2>2. PICK x \in a : TRUE
      BY <2>1
    <2>3. SumFunctionOnSet(f, a) = f[x] + SumFunctionOnSet(f, a \ {x})
      BY <1>1, <2>1, SumRemove
    <2>4. SumFunctionOnSet(f, S \ (a \ {x})) = f[x] + SumFunctionOnSet(f, S \ a)
      <3>1. x \in S \ (a \ {x}) /\ (S \ (a \ {x})) \ {x} = S \ a /\ S \ (a \ {x}) \in SUBSET S
        BY <2>1, <2>2
      <3> DEFINE z == S \ (a \ {x})
      <3>2. IsFiniteSet(z) /\ x \in z /\ z \ {x} = S \ a /\ \A y \in z : f[y] \in Int
        BY <1>1, <3>1
      <3> HIDE DEF z
      <3>3. SumFunctionOnSet(f, z) = f[x] + SumFunctionOnSet(f, S \ a)
        BY <3>2, SumRemove
      <3> QED BY <3>3 DEF z
    <2>5. a \ {x} \notin T => Holds(a)
      <3> DEFINE u == SumFunctionOnSet(f, a \ {x})
                 v == SumFunctionOnSet(f, S \ a)
      <3>1. u \in Int /\ v \in Int /\ f[x] \in Int
        <4>1. a \ {x} \in SUBSET S /\ S \ a \in SUBSET S /\ x \in S
          BY <2>1, <2>2
        <4> QED BY <1>1, <4>1
      <3>2. SumFunctionOnSet(f, a) = f[x] + u /\ SumFunctionOnSet(f, S \ (a \ {x})) = f[x] + v
        BY <2>3, <2>4
      <3>3. a \ {x} \notin T => SumFunctionOnSet(f, S) = u + (f[x] + v)
        BY <2>1, <3>2
      <3>4. u + (f[x] + v) = (f[x] + u) + v
        <4> HIDE DEF u, v
        <4> QED BY <3>1
      <3> QED BY <3>2, <3>3, <3>4
    <2> QED BY <2>2, <2>5
  <1>4. T = {}
    <2>1. T \subseteq SUBSET A /\ IsFiniteSet(A)
      BY <1>1
    <2> HIDE DEF T
    <2> QED BY <1>2, <1>3, <2>1, NoLeastSet
  <1> QED BY <1>4

\* The sum of equal multiples
LEMMA SumTimes ==
    ASSUME NEW S, IsFiniteSet(S), NEW k \in Int, NEW f, NEW g,
           \A x \in S : f[x] \in Int /\ g[x] = f[x] * k
    PROVE  SumFunctionOnSet(g, S) = SumFunctionOnSet(f, S) * k
  <1> DEFINE Holds(s) == SumFunctionOnSet(g, s) = SumFunctionOnSet(f, s) * k
             T == {s \in SUBSET S : ~Holds(s)}
  <1>1. \A s \in SUBSET S : IsFiniteSet(s) /\ SumFunctionOnSet(f, s) \in Int
    <2>1. ASSUME NEW s \in SUBSET S PROVE IsFiniteSet(s) /\ SumFunctionOnSet(f, s) \in Int
      <3>1. IsFiniteSet(s)
        BY FS_Subset
      <3> QED BY <3>1, SumType
    <2> QED BY <2>1
  <1>2. {} \notin T
    <2>1. SumFunctionOnSet(f, {}) = 0 /\ SumFunctionOnSet(g, {}) = 0
      BY <1>1, SumStep
    <2> QED BY <2>1
  <1>3. ASSUME NEW s \in T PROVE \E x \in s : s \ {x} \in T
    <2> DEFINE p == Pick(s)
    <2>1. s # {} /\ s \in SUBSET S
      BY <1>2
    <2>2. /\ p \in s
          /\ SumFunctionOnSet(f, s) = f[p] + SumFunctionOnSet(f, s \ {p})
          /\ SumFunctionOnSet(g, s) = g[p] + SumFunctionOnSet(g, s \ {p})
      BY <1>1, <2>1, SumStep
    <2> HIDE DEF p
    <2> DEFINE u == SumFunctionOnSet(f, s \ {p})
    <2>3. f[p] \in Int /\ g[p] = f[p] * k /\ s \ {p} \in SUBSET S /\ u \in Int
      BY <1>1, <2>1, <2>2
    <2>4. s \ {p} \notin T => SumFunctionOnSet(g, s) = f[p] * k + u * k
      BY <2>2, <2>3
    <2>5. f[p] * k + u * k = (f[p] + u) * k
      <3>1. \A a, b, c \in Int : a * c + b * c = (a + b) * c
        OBVIOUS
      <3> HIDE DEF u
      <3> QED BY <2>3, <3>1
    <2>6. SumFunctionOnSet(f, s) * k = (f[p] + u) * k
      BY <2>2
    <2>7. s \ {p} \in T
      BY <2>4, <2>5, <2>6
    <2> QED BY <2>2, <2>7
  <1>4. T = {}
    <2>1. T \subseteq SUBSET S
      OBVIOUS
    <2> HIDE DEF T
    <2> QED BY <1>2, <1>3, <2>1, NoLeastSet
  <1> QED BY <1>4

\* The sum of ones and zeros counts the ones.
LEMMA SumCounts ==
    ASSUME NEW S, IsFiniteSet(S), NEW A \in SUBSET S, NEW f,
           \A x \in S : f[x] = IF x \in A THEN 1 ELSE 0
    PROVE  SumFunctionOnSet(f, S) = Cardinality(A)
  <1> DEFINE T == {s \in SUBSET S : SumFunctionOnSet(f, s) # Cardinality(s \cap A)}
  <1>1. \A s \in SUBSET S : IsFiniteSet(s) /\ IsFiniteSet(s \cap A) /\ Cardinality(s \cap A) \in Nat
    <2>1. ASSUME NEW s \in SUBSET S
          PROVE  IsFiniteSet(s) /\ IsFiniteSet(s \cap A) /\ Cardinality(s \cap A) \in Nat
      <3>1. s \cap A \in SUBSET S
        OBVIOUS
      <3>2. IsFiniteSet(s) /\ IsFiniteSet(s \cap A)
        BY <3>1, FS_Subset
      <3> QED BY <3>2, FS_CardinalityType
    <2> QED BY <2>1
  <1>2. {} \notin T
    <2>1. SumFunctionOnSet(f, {}) = 0 /\ {} \cap A = {}
      BY <1>1, SumStep
    <2> QED BY <2>1, FS_EmptySet
  <1>3. ASSUME NEW s \in T PROVE \E x \in s : s \ {x} \in T
    <2> DEFINE p == Pick(s)
    <2>1. s # {} /\ s \in SUBSET S
      BY <1>2
    <2>2. /\ p \in s
          /\ SumFunctionOnSet(f, s) = f[p] + SumFunctionOnSet(f, s \ {p})
      BY <1>1, <2>1, SumStep
    <2> HIDE DEF p
    <2>3. s \ {p} \in SUBSET S /\ p \in S
      BY <2>1, <2>2
    <2>4. CASE p \in A
      <3>1. (s \ {p}) \cap A = (s \cap A) \ {p} /\ p \in s \cap A
        BY <2>2, <2>4
      <3> DEFINE z == s \cap A
      <3>2. IsFiniteSet(z) /\ p \in z
        BY <1>1, <2>1, <3>1
      <3>3. Cardinality(z \ {p}) = Cardinality(z) - 1
        <4> HIDE DEF z
        <4> QED BY <3>2, FS_RemoveElement
      <3>4. f[p] = 1 /\ Cardinality(z) \in Nat
        BY <1>1, <2>1, <2>3, <2>4
      <3> DEFINE u == SumFunctionOnSet(f, s \ {p})
                 c == Cardinality(z)
      <3>5. SumFunctionOnSet(f, s) = 1 + u /\ Cardinality((s \ {p}) \cap A) = c - 1
        BY <2>2, <3>1, <3>3, <3>4
      <3>6. SumFunctionOnSet(f, s) # c
        OBVIOUS
      <3>7. u # c - 1
        <4> HIDE DEF u, c
        <4> QED BY <3>4, <3>5, <3>6 DEF c
      <3>8. s \ {p} \in T
        <4> HIDE DEF z
        <4> QED BY <2>3, <3>5, <3>7
      <3> QED BY <2>2, <3>8
    <2>5. CASE p \notin A
      <3>1. (s \ {p}) \cap A = s \cap A /\ f[p] = 0
        BY <2>3, <2>5
      <3>2. IsFiniteSet(s \ {p}) /\ \A x \in s \ {p} : f[x] \in Int
        <4>1. \A x \in s \ {p} : x \in S
          BY <2>3
        <4>2. \A x \in S : f[x] \in Int
          OBVIOUS
        <4> QED BY <1>1, <2>3, <4>1, <4>2
      <3>3. SumFunctionOnSet(f, s \ {p}) \in Int
        BY <3>2, SumType
      <3>4. SumFunctionOnSet(f, s) = SumFunctionOnSet(f, s \ {p})
        BY <2>2, <3>1, <3>3
      <3> QED BY <2>2, <2>3, <3>1, <3>4
    <2> QED BY <2>4, <2>5
  <1>4. T = {}
    <2>1. T \subseteq SUBSET S
      OBVIOUS
    <2> HIDE DEF T
    <2> QED BY <1>2, <1>3, <2>1, NoLeastSet
  <1>5. S \cap A = A
    OBVIOUS
  <1> QED BY <1>4, <1>5

-----------------------------------------------------------------------------
(* A finite set with a strict total order R                                 *)

Ordered(S, R) ==
    /\ \A x \in S : <<x, x>> \notin R
    /\ \A x, y, z \in S : <<x, y>> \in R /\ <<y, z>> \in R => <<x, z>> \in R
    /\ \A x, y \in S : x = y \/ <<x, y>> \in R \/ <<y, x>> \in R

\* Every part that is not empty has a first element.
LEMMA FirstExists ==
    ASSUME NEW S, IsFiniteSet(S), NEW R, Ordered(S, R), NEW A \in SUBSET S, A # {}
    PROVE  \E x \in A : \A y \in A \ {x} : <<x, y>> \in R
  <1> DEFINE First(s) == \E x \in s : \A y \in s \ {x} : <<x, y>> \in R
             T == {s \in SUBSET S : s # {} /\ ~First(s)}
  <1>1. ASSUME NEW s \in T PROVE \E x \in s : s \ {x} \in T
    <2>1. PICK x \in s : TRUE
      OBVIOUS
    <2>2. CASE s = {x}
      BY <2>2
    <2>3. CASE s # {x}
      <3>1. s \ {x} # {} /\ s \ {x} \in SUBSET S
        BY <2>1, <2>3
      <3>2. ASSUME NEW m \in s \ {x}, \A y \in (s \ {x}) \ {m} : <<m, y>> \in R PROVE FALSE
        <4>1. m \in S /\ x \in S /\ m # x /\ s \in SUBSET S
          BY <2>1
        <4>2. CASE <<m, x>> \in R
          <5>1. \A y \in s \ {m} : <<m, y>> \in R
            BY <3>2, <4>2
          <5> QED BY <5>1
        <4>3. CASE <<x, m>> \in R
          <5>1. \A y \in s \ {x} : <<x, y>> \in R
            BY <3>2, <4>1, <4>3 DEF Ordered
          <5> QED BY <2>1, <5>1
        <4> QED BY <4>1, <4>2, <4>3 DEF Ordered
      <3> QED BY <2>1, <3>1, <3>2
    <2> QED BY <2>2, <2>3
  <1>2. T = {}
    <2>1. T \subseteq SUBSET S /\ {} \notin T
      OBVIOUS
    <2> HIDE DEF T
    <2> QED BY <1>1, <2>1, NoLeastSet
  <1> QED BY <1>2

Lower(S, R, x) == {y \in S : <<y, x>> \in R}

\* As many elements have fewer than k ahead as k says.
LEMMA RanksCount ==
    ASSUME NEW S, IsFiniteSet(S), NEW R, Ordered(S, R), NEW k \in 0 .. Cardinality(S)
    PROVE  Cardinality({x \in S : Cardinality(Lower(S, R, x)) < k}) = k
  <1> DEFINE Up(n) == {x \in S : Cardinality(Lower(S, R, x)) < n}
             T == {n \in Nat : n <= Cardinality(S) /\ Cardinality(Up(n)) # n}
  <1>1. Cardinality(S) \in Nat
    BY FS_CardinalityType
  <1>2. \A s \in SUBSET S : IsFiniteSet(s) /\ Cardinality(s) \in Nat
    BY FS_Subset, FS_CardinalityType
  <1>3. \A x \in S : Lower(S, R, x) \in SUBSET S
    BY DEF Lower
  <1>4. 0 \notin T
    <2>1. Up(0) = {}
      BY <1>2, <1>3
    <2> QED BY <2>1, FS_EmptySet
  <1>5. ASSUME NEW n \in Nat, n + 1 \in T PROVE n \in T
    <2>1. n < Cardinality(S)
      BY <1>1, <1>5
    <2>2. SUFFICES ASSUME Cardinality(Up(n)) = n PROVE Cardinality(Up(n + 1)) = n + 1
      BY <1>1, <1>5, <2>1
    <2>3. Up(n) \in SUBSET S
      OBVIOUS
    <2>4. S \ Up(n) # {}
      <3>1. ASSUME S \ Up(n) = {} PROVE FALSE
        <4>1. Up(n) = S
          BY <2>3, <3>1
        <4> QED BY <1>1, <2>1, <2>2, <4>1
      <3> QED BY <3>1
    <2>5. PICK p \in S \ Up(n) : \A y \in (S \ Up(n)) \ {p} : <<p, y>> \in R
      <3> DEFINE A == S \ Up(n)
      <3>1. A \in SUBSET S /\ A # {}
        BY <2>4
      <3> HIDE DEF A
      <3>2. \E x \in A : \A y \in A \ {x} : <<x, y>> \in R
        BY <3>1, FirstExists
      <3> QED BY <3>2 DEF A
    <2>6. Lower(S, R, p) \subseteq Up(n)
      <3>1. ASSUME NEW q \in Lower(S, R, p), q \notin Up(n) PROVE FALSE
        <4>1. q \in S /\ <<q, p>> \in R
          BY DEF Lower
        <4>2. q # p
          BY <4>1 DEF Ordered
        <4>3. <<p, q>> \in R
          BY <2>5, <3>1, <4>1, <4>2
        <4> QED BY <4>1, <4>3 DEF Ordered
      <3> QED BY <3>1
    <2>7. Up(n) \subseteq Lower(S, R, p)
      <3>1. ASSUME NEW q \in Up(n), q \notin Lower(S, R, p) PROVE FALSE
        <4>1. q \in S /\ q # p /\ Cardinality(Lower(S, R, q)) < n
          BY <2>5
        <4>2. <<p, q>> \in R
          BY <3>1, <4>1 DEF Lower, Ordered
        <4>3. Lower(S, R, p) \subseteq Lower(S, R, q)
          BY <4>1, <4>2 DEF Lower, Ordered
        <4>4. Cardinality(Lower(S, R, p)) <= Cardinality(Lower(S, R, q))
          BY <1>2, <1>3, <4>1, <4>3, FS_Subset
        <4>5. Cardinality(Lower(S, R, p)) < n
          BY <1>2, <1>3, <4>1, <4>4
        <4> QED BY <2>5, <4>5
      <3> QED BY <3>1
    <2>8. Lower(S, R, p) = Up(n)
      BY <2>6, <2>7
    <2>9. ASSUME NEW q \in S \ Up(n), q # p PROVE q \notin Up(n + 1)
      <3>1. <<p, q>> \in R
        BY <2>5, <2>9
      <3>2. Up(n) \cup {p} \subseteq Lower(S, R, q)
        <4>1. p \in Lower(S, R, q)
          BY <3>1 DEF Lower
        <4>2. Lower(S, R, p) \subseteq Lower(S, R, q)
          BY <2>9, <3>1 DEF Lower, Ordered
        <4> QED BY <2>8, <4>1, <4>2
      <3>3. Cardinality(Up(n) \cup {p}) = n + 1
        <4> HIDE DEF Up
        <4> QED BY <1>2, <2>2, <2>3, <2>5, FS_AddElement
      <3>4. n + 1 <= Cardinality(Lower(S, R, q))
        BY <1>2, <1>3, <2>9, <3>2, <3>3, FS_Subset
      <3> QED BY <1>2, <1>3, <3>4
    <2>10. Up(n + 1) = Up(n) \cup {p}
      <3>1. Up(n) \subseteq Up(n + 1)
        BY <1>2, <1>3
      <3>2. p \in Up(n + 1)
        BY <2>2, <2>5, <2>8
      <3>3. Up(n + 1) \subseteq Up(n) \cup {p}
        <4> SUFFICES ASSUME NEW q \in Up(n + 1), q \notin Up(n), q # p PROVE FALSE
          OBVIOUS
        <4>1. q \in S
          OBVIOUS
        <4> QED BY <2>9, <4>1
      <3> QED BY <3>1, <3>2, <3>3
    <2>11. Cardinality(Up(n) \cup {p}) = n + 1
      <3> HIDE DEF Up
      <3> QED BY <1>2, <2>2, <2>3, <2>5, FS_AddElement
    <2> QED BY <2>10, <2>11
  <1>6. T = {}
    <2>1. T \subseteq Nat
      OBVIOUS
    <2> HIDE DEF T
    <2> QED BY <1>4, <1>5, <2>1, NoLeast
  <1>7. k \in Nat /\ k <= Cardinality(S)
    BY <1>1
  <1>8. Cardinality(Up(k)) = k
    <2> HIDE DEF Up
    <2> QED BY <1>6, <1>7
  <1> QED BY <1>8

================================================================================
