------------------------- MODULE CampaignPolicyProofs -------------------------
(***************************************************************************)
(* Proofs about CampaignPolicy, for any number of publications, any        *)
(* budgets, rates and limits.  IInv is inductive; that scales are          *)
(* proportional, that money follows the evidence and that the ledger       *)
(* explains the budgets in Meta follow from it, and with a cooldown of     *)
(* half a day at least the daily limit of increases.                       *)
(***************************************************************************)
EXTENDS CampaignPolicy, SumTheorems

-----------------------------------------------------------------------------
(* The inductive invariant.                                                 *)

Entry == [kind : {"reallocate", "scale"}, at : Nat, old : Nat, new : Nat]

\* The increases of a history, and the rolling day that its entry n ends
Inc(h) == [n \in DOMAIN h |-> Max({0, h[n].new - h[n].old})]
DayOf(h, n) == {m \in 1 .. n : h[m].at > h[n].at - Day}

\* The budget of the loser goes down, the winner has the rest.
Shifts(c, l, w) ==
    /\ l # w /\ DOMAIN c = {l, w}
    /\ c[l].old = approved[l] /\ c[w].old = approved[w]
    /\ c[l].new < c[l].old /\ c[l].new > 0
    /\ c[l].new + c[w].new = c[l].old + c[w].old

\* The open action is a decision about the approved budgets.
ActionIsDecided ==
    /\ action.kind = "reallocate" =>
          \E l, w \in Pub : Shifts(action.changes, l, w) /\ action.basis.rates[l] < action.basis.rates[w]
    /\ action.kind = "scale" =>
          \E total \in Nat : /\ total > Total(approved) /\ total <= Ceiling
                             /\ action.changes = ScaleChanges(total)

\* A scale is decided when there was none that day, for no more than is
\* permitted of the approved budgets.
ScaleIsFirst ==
    action.kind = "scale" =>
        /\ \A n \in Window : history[n].kind # "scale"
        /\ New(action.changes) - Total(approved) <= Permitted(Total(approved))

\* What the entries of the history record
HistoryIsExplained ==
    \A n \in DOMAIN history :
        /\ history[n].kind = "reallocate" =>
              history[n].new = history[n].old /\ history[n].old <= Total(approved)
        /\ history[n].kind = "scale" =>
              /\ history[n].old = Total(approved)
              /\ history[n].new - history[n].old <= Permitted(Total(approved))

\* The changes are a cooldown apart, and scales a day.
HistoryIsSpaced ==
    \A n \in DOMAIN history : \A m \in 1 .. n - 1 :
        /\ history[n].at - history[m].at >= Cooldown
        /\ history[n].kind = "scale" /\ history[m].kind = "scale" =>
              history[n].at - history[m].at >= Day

\* A day has its increases within the limit of the approved budgets; with a
\* cooldown of half a day, of the budget that it began with.
DaysBounded ==
    \A n \in DOMAIN history :
        /\ SumFunctionOnSet(Inc(history), DayOf(history, n)) <= Permitted(Total(approved))
        /\ Day <= 2 * Cooldown =>
              SumFunctionOnSet(Inc(history), DayOf(history, n))
                <= Permitted(history[Min(DayOf(history, n))].old)

\* With a cooldown of half a day, a scale has one change at most before it, and
\* is within the executor's limit for as long as it is open.
ScaleIsWithin ==
    action.kind = "scale" /\ Day <= 2 * Cooldown =>
        /\ \A m, n \in Window : m = n
        /\ ~IncreaseCap(action)

IInv == TypeOK /\ ActionIsDecided /\ ScaleIsFirst /\ HistoryIsExplained /\ HistoryIsSpaced
        /\ DaysBounded /\ ScaleIsWithin /\ LedgerExplainsLive

-----------------------------------------------------------------------------
(* Numbers                                                                  *)

\* The publications are finitely many.
LEMMA PubFacts ==
    /\ IsFiniteSet(Pub) /\ Cardinality(Pub) = Publications
    /\ Publications \in Nat /\ 1 \in Pub /\ 2 \in Pub
  <1>1. Publications \in Nat /\ Publications >= 2
    BY PolicyAssumption
  <1>2. IsFiniteSet(1 .. Publications) /\ Cardinality(1 .. Publications) = Publications
    BY <1>1, FS_Interval
  <1> QED BY <1>1, <1>2 DEF Pub

\* The increase of a budget
LEMMA MaxOfZero == ASSUME NEW x \in Int PROVE Max({0, x}) = IF x > 0 THEN x ELSE 0
  <1>1. \E m \in {0, x} : \A y \in {0, x} : m >= y
    BY x >= 0 \/ 0 >= x
  <1>2. Max({0, x}) \in {0, x} /\ \A y \in {0, x} : Max({0, x}) >= y
    BY <1>1 DEF Max
  <1> QED BY <1>2

\* The least of three numbers
LEMMA MinOfThree ==
    ASSUME NEW x \in Int, NEW y \in Int, NEW z \in Int
    PROVE  Min({x, y, z}) \in {x, y, z} /\ Min({x, y, z}) <= x /\ Min({x, y, z}) <= y /\ Min({x, y, z}) <= z
  <1>1. \E m \in {x, y, z} : \A n \in {x, y, z} : m <= n
    <2>1. CASE x <= y /\ x <= z
      BY <2>1
    <2>2. CASE y <= x /\ y <= z
      BY <2>2
    <2>3. CASE z <= x /\ z <= y
      BY <2>3
    <2> QED BY <2>1, <2>2, <2>3
  <1>2. Min({x, y, z}) \in {x, y, z} /\ \A n \in {x, y, z} : Min({x, y, z}) <= n
    BY <1>1 DEF Min
  <1> QED BY <1>2

\* The first of some positions
LEMMA MinOfSome ==
    ASSUME NEW n \in Nat, NEW w \in SUBSET (1 .. n), w # {}
    PROVE  Min(w) \in w /\ \A m \in w : Min(w) <= m
  <1> DEFINE R == {e \in (1 .. n) \X (1 .. n) : e[1] < e[2]}
  <1>1. \A x, y \in 1 .. n : <<x, y>> \in R <=> x < y
    OBVIOUS
  <1>2. Ordered(1 .. n, R)
    <2> HIDE DEF R
    <2> QED BY <1>1 DEF Ordered
  <1>3. IsFiniteSet(1 .. n)
    BY FS_Interval
  <1>4. \E x \in w : \A y \in w \ {x} : <<x, y>> \in R
    <2> DEFINE S == 1 .. n
    <2>1. IsFiniteSet(S) /\ Ordered(S, R) /\ w \in SUBSET S
      BY <1>2, <1>3
    <2> HIDE DEF R, S
    <2> QED BY <2>1, FirstExists
  <1>5. \E x \in w : \A y \in w : x <= y
    <2>1. PICK x \in w : \A y \in w \ {x} : <<x, y>> \in R
      BY <1>4
    <2>2. \A y \in w : y \in 1 .. n
      OBVIOUS
    <2> HIDE DEF R
    <2>3. ASSUME NEW y \in w PROVE x <= y
      <3>1. x \in 1 .. n /\ y \in 1 .. n
        BY <2>2
      <3>2. CASE y = x
        BY <3>1, <3>2
      <3>3. CASE y # x
        <4>1. <<x, y>> \in R
          BY <2>1, <3>3
        <4>2. x < y
          BY <1>1, <3>1, <4>1
        <4> QED BY <3>1, <4>2
      <3> QED BY <3>2, <3>3
    <2> QED BY <2>3
  <1> QED BY <1>5 DEF Min

\* Division by a budget
LEMMA Division ==
    ASSUME NEW a \in Nat, NEW b \in Nat \ {0}
    PROVE  a \div b \in Nat /\ a % b \in Nat /\ a % b < b /\ a = b * (a \div b) + (a % b)
  <1>1. a \div b \in Nat
    OBVIOUS
  <1>2. a % b \in Nat /\ a % b < b
    OBVIOUS
  <1>3. a = b * (a \div b) + (a % b)
    OBVIOUS
  <1> QED BY <1>1, <1>2, <1>3

\* A share that is permitted grows with the budget.
LEMMA PermittedFacts ==
    /\ \A a \in Nat : Permitted(a) \in Nat
    /\ \A a, b \in Nat : a <= b => Permitted(a) <= Permitted(b)
  <1>1. Percent \in Nat
    BY PolicyAssumption
  <1>2. \A a \in Nat : a * Percent \in Nat
    BY <1>1
  <1>3. \A a, b \in Nat : a <= b => a * Percent <= b * Percent
    BY <1>1
  <1>4. \A a \in Nat : a \div 100 \in Nat
    OBVIOUS
  <1>5. \A a, b \in Nat : a <= b => a \div 100 <= b \div 100
    OBVIOUS
  <1> QED BY <1>2, <1>3, <1>4, <1>5 DEF Permitted

\* The sum of zeros
LEMMA SumZero ==
    ASSUME NEW S, IsFiniteSet(S), NEW f, \A x \in S : f[x] = 0
    PROVE  SumFunctionOnSet(f, S) = 0
  <1>1. {} \in SUBSET S /\ \A x \in S : f[x] = IF x \in {} THEN 1 ELSE 0
    OBVIOUS
  <1>2. SumFunctionOnSet(f, S) = Cardinality({})
    BY <1>1, SumCounts
  <1> QED BY <1>2, FS_EmptySet

\* The total of positive budgets is positive.
LEMMA TotalFacts ==
    ASSUME NEW b \in [Pub -> Nat \ {0}]
    PROVE  Total(b) \in Nat \ {0} /\ \A A \in SUBSET Pub : SumFunctionOnSet(b, A) <= Total(b)
  <1>1. \A A \in SUBSET Pub : IsFiniteSet(A) /\ SumFunctionOnSet(b, A) \in Nat
    <2>1. ASSUME NEW A \in SUBSET Pub PROVE IsFiniteSet(A) /\ SumFunctionOnSet(b, A) \in Nat
      <3>1. IsFiniteSet(A) /\ \A p \in A : b[p] \in Nat
        BY PubFacts, FS_Subset
      <3> QED BY <3>1, SumNat
    <2> QED BY <2>1
  <1>2. IsFiniteSet(Pub) /\ (\A p \in Pub : b[p] \in Int) /\ 1 \in Pub
    BY PubFacts
  <1>3. Total(b) = b[1] + SumFunctionOnSet(b, Pub \ {1})
    BY <1>2, SumRemove DEF Total
  <1>4. ASSUME NEW A \in SUBSET Pub PROVE SumFunctionOnSet(b, A) <= Total(b)
    <2>1. Total(b) = SumFunctionOnSet(b, A) + SumFunctionOnSet(b, Pub \ A)
      BY <1>2, SumSplit DEF Total
    <2>2. SumFunctionOnSet(b, A) \in Nat /\ SumFunctionOnSet(b, Pub \ A) \in Nat
      BY <1>1
    <2> QED BY <2>1, <2>2
  <1>5. Total(b) \in Nat \ {0}
    <2>1. SumFunctionOnSet(b, Pub \ {1}) \in Nat /\ b[1] \in Nat \ {0}
      BY <1>1, <1>2
    <2> QED BY <1>3, <2>1
  <1> QED BY <1>4, <1>5

\* The sum of two values
LEMMA SumPair ==
    ASSUME NEW x, NEW y, x # y, NEW f, f[x] \in Int, f[y] \in Int
    PROVE  SumFunctionOnSet(f, {x, y}) = f[x] + f[y]
  <1>1. IsFiniteSet({x, y}) /\ IsFiniteSet({y}) /\ IsFiniteSet({})
    <2>1. IsFiniteSet({y}) /\ IsFiniteSet({})
      BY FS_Singleton, FS_EmptySet
    <2>2. {x, y} = {y} \cup {x}
      OBVIOUS
    <2> QED BY <2>1, <2>2, FS_AddElement
  <1>2. {x, y} \ {x} = {y} /\ {y} \ {y} = {}
    OBVIOUS
  <1>3. SumFunctionOnSet(f, {x, y}) = f[x] + SumFunctionOnSet(f, {x, y} \ {x})
    BY <1>1, SumRemove
  <1>4. SumFunctionOnSet(f, {y}) = f[y] + SumFunctionOnSet(f, {y} \ {y})
    BY <1>1, SumRemove
  <1>5. SumFunctionOnSet(f, {}) = 0
    BY <1>1, SumStep
  <1>6. SumFunctionOnSet(f, {y}) = f[y]
    <2>1. SumFunctionOnSet(f, {y}) = f[y] + 0
      BY <1>2, <1>4, <1>5
    <2> QED BY <2>1
  <1> QED BY <1>2, <1>3, <1>6

-----------------------------------------------------------------------------
(* A scale                                                                  *)

\* Multiples of a positive number compare like the numbers.
LEMMA Cancel3 ==
    ASSUME NEW x \in Int, NEW y \in Int, NEW k \in Nat \ {0}, x * k <= y * k
    PROVE  x <= y
  OBVIOUS

\* Quotas are rounded down: a quota is at least the old budget, and with or
\* without a cent less than a cent from the share.
LEMMA QuotaBounds ==
    ASSUME NEW t \in Nat \ {0}, NEW total \in Nat, total > t, NEW a \in Nat,
           NEW q \in Nat, NEW r \in Nat, r < t, a * total = t * q + r
    PROVE  /\ q >= a
           /\ q * t - a * total < t /\ a * total - q * t < t
           /\ r > 0 => (q + 1) * t - a * total < t /\ a * total - (q + 1) * t < t
  <1>1. q * t = t * q /\ (q + 1) * t = t * q + t /\ t * q \in Int /\ a * total \in Int
    OBVIOUS
  <1>2. q * t - a * total = -r /\ a * total - q * t = r
    BY <1>1
  <1>3. (q + 1) * t - a * total = t - r /\ a * total - (q + 1) * t = r - t
    BY <1>1
  <1>4. q >= a
    <2>1. a * t <= a * total
      OBVIOUS
    <2>2. a * t <= q * t + r
      BY <1>1, <2>1
    <2>3. a * t <= q * t + r /\ r < t => a <= q
      OBVIOUS
    <2> QED BY <2>2, <2>3
  <1> QED BY <1>2, <1>3, <1>4

\* The publications in the order in which they are given the remainder
Given(total) == {e \in Pub \X Pub : \/ Rest(total, e[1]) > Rest(total, e[2])
                                    \/ Rest(total, e[1]) = Rest(total, e[2]) /\ e[1] < e[2]}

\* A scale hands out the new total, lowers nobody and keeps to the shares.
LEMMA ScaleFacts ==
    ASSUME approved \in [Pub -> Budgets], NEW total \in Nat, total > Total(approved)
    PROVE  /\ ScaleChanges(total) \in [Pub -> [old : Nat, new : Nat]]
           /\ Old(ScaleChanges(total)) = Total(approved)
           /\ New(ScaleChanges(total)) = total
           /\ \A p \in Pub :
                 LET old == ScaleChanges(total)[p].old
                     new == ScaleChanges(total)[p].new
                 IN  /\ old = approved[p] /\ new >= old
                     /\ new * Total(approved) - old * total < Total(approved)
                     /\ old * total - new * Total(approved) < Total(approved)
  <1> DEFINE t == Total(approved)
             q == [p \in Pub |-> Quota(total, p)]
             r == [p \in Pub |-> Rest(total, p)]
             m == [p \in Pub |-> approved[p] * total]
             u == [p \in Pub |-> q[p] * t]
             quotas == SumFunctionOnSet(q, Pub)
             rests == SumFunctionOnSet(r, Pub)
             left == total - quotas
  <1>1. approved \in [Pub -> Nat \ {0}]
    BY PolicyAssumption
  <1>2. t \in Nat \ {0}
    BY <1>1, TotalFacts
  <1>3. IsFiniteSet(Pub)
    BY PubFacts
  <1>4. ASSUME NEW p \in Pub
        PROVE  /\ q[p] \in Nat /\ r[p] \in Nat /\ r[p] < t
               /\ approved[p] * total = t * q[p] + r[p] /\ approved[p] * total \in Nat
    <2>1. approved[p] * total \in Nat
      BY <1>1
    <2>2. q[p] = (approved[p] * total) \div t /\ r[p] = (approved[p] * total) % t
      BY DEF Quota, Rest
    <2> HIDE DEF q, r, t
    <2> QED BY <1>2, <2>1, <2>2, Division
  <1>5. quotas \in Nat /\ rests \in Nat
    <2> HIDE DEF q, r
    <2> QED BY <1>3, <1>4, SumNat
  <1>6. SumFunctionOnSet(m, Pub) = t * total
    <2>1. \A p \in Pub : approved[p] \in Int /\ m[p] = approved[p] * total
      BY <1>1
    <2> HIDE DEF m
    <2>2. SumFunctionOnSet(m, Pub) = SumFunctionOnSet(approved, Pub) * total
      BY <1>3, <2>1, SumTimes
    <2> QED BY <2>2 DEF Total
  <1>7. SumFunctionOnSet(u, Pub) = quotas * t
    <2>1. \A p \in Pub : q[p] \in Int /\ u[p] = q[p] * t
      BY <1>4
    <2>2. t \in Int
      BY <1>2
    <2> HIDE DEF q, u, t
    <2> QED BY <1>3, <2>1, <2>2, SumTimes
  <1>8. SumFunctionOnSet(m, Pub) = SumFunctionOnSet(u, Pub) + rests
    <2>1. ASSUME NEW p \in Pub PROVE u[p] \in Int /\ r[p] \in Int /\ m[p] = u[p] + r[p]
      <3>1. m[p] = approved[p] * total /\ u[p] = q[p] * t
        OBVIOUS
      <3>2. q[p] * t = t * q[p] /\ q[p] * t \in Int
        <4> HIDE DEF q, t
        <4> QED BY <1>2, <1>4
      <3> HIDE DEF m, u, q, r, t
      <3> QED BY <1>4, <3>1, <3>2
    <2> HIDE DEF m, u, r
    <2> QED BY <1>3, <2>1, SumPlus
  \* What is left over, in cents, is the sum of the rests.
  <1>9. left * t = rests
    <2>1. t * total = quotas * t + rests
      BY <1>6, <1>7, <1>8
    <2> HIDE DEF t, quotas, rests
    <2>2. (total - quotas) * t = total * t - quotas * t /\ total * t = t * total
      BY <1>2, <1>5
    <2> QED BY <1>2, <1>5, <2>1, <2>2
  <1> DEFINE Pos == {p \in Pub : r[p] > 0}
             h == [p \in Pub |-> IF p \in Pos THEN t ELSE 0]
             one == [p \in Pub |-> IF p \in Pos THEN 1 ELSE 0]
  <1>10. Pos \in SUBSET Pub /\ IsFiniteSet(Pos) /\ Cardinality(Pos) \in Nat /\ Cardinality(Pos) <= Publications
    <2>1. Pos \in SUBSET Pub
      OBVIOUS
    <2> HIDE DEF Pos
    <2>2. IsFiniteSet(Pos) /\ Cardinality(Pos) <= Cardinality(Pub)
      BY <1>3, <2>1, FS_Subset
    <2>3. Cardinality(Pos) \in Nat
      BY <2>2, FS_CardinalityType
    <2> QED BY <2>1, <2>2, <2>3, PubFacts
  <1>11. rests <= Cardinality(Pos) * t
    <2>1. SumFunctionOnSet(one, Pub) = Cardinality(Pos)
      <3>1. \A p \in Pub : one[p] = IF p \in Pos THEN 1 ELSE 0
        OBVIOUS
      <3> HIDE DEF one, Pos
      <3> QED BY <1>3, <1>10, <3>1, SumCounts
    <2>2. SumFunctionOnSet(h, Pub) = SumFunctionOnSet(one, Pub) * t
      <3>1. ASSUME NEW p \in Pub PROVE one[p] \in Int /\ h[p] = one[p] * t
        <4>1. CASE p \in Pos
          <5>1. one[p] = 1 /\ h[p] = t
            BY <4>1
          <5> HIDE DEF one, h, t
          <5> QED BY <1>2, <5>1
        <4>2. CASE p \notin Pos
          <5>1. one[p] = 0 /\ h[p] = 0
            BY <4>2
          <5> HIDE DEF one, h, t
          <5> QED BY <1>2, <5>1
        <4> QED BY <4>1, <4>2
      <3>2. t \in Int
        BY <1>2
      <3> HIDE DEF one, h, t
      <3> QED BY <1>3, <3>1, <3>2, SumTimes
    <2>3. ASSUME NEW p \in Pub PROVE r[p] \in Int /\ h[p] \in Int /\ r[p] <= h[p]
      <3>1. CASE p \in Pos
        <4>1. h[p] = t
          BY <3>1
        <4> HIDE DEF h, r, t
        <4> QED BY <1>2, <1>4, <4>1
      <3>2. CASE p \notin Pos
        <4>1. h[p] = 0 /\ ~(r[p] > 0)
          BY <3>2
        <4> HIDE DEF h, r
        <4> QED BY <1>4, <4>1
      <3> QED BY <3>1, <3>2
    <2>4. rests <= SumFunctionOnSet(h, Pub)
      <3> HIDE DEF r, h
      <3> QED BY <1>3, <2>3, SumOrdered
    <2> HIDE DEF rests, h, one, t, Pos
    <2> QED BY <2>1, <2>2, <2>4
  <1>12. left \in Nat /\ left <= Cardinality(Pos) /\ left <= Publications
    <2> HIDE DEF quotas, rests, Pos, t
    <2>1. left \in Int /\ 0 * t <= left * t /\ left * t <= Cardinality(Pos) * t
      BY <1>2, <1>5, <1>9, <1>11
    <2> HIDE DEF left
    <2>2. 0 <= left
      BY <1>2, <2>1, Cancel3
    <2>3. left <= Cardinality(Pos)
      BY <1>2, <1>10, <2>1, Cancel3
    <2> QED BY <1>10, <2>1, <2>2, <2>3, PubFacts
  <1>13. Ordered(Pub, Given(total)) /\ \A p \in Pub : Lower(Pub, Given(total), p) = Ahead(total, p)
    <2>1. \A p, x \in Pub : <<p, x>> \in Given(total) <=>
              (Rest(total, p) > Rest(total, x) \/ (Rest(total, p) = Rest(total, x) /\ p < x))
      BY DEF Given
    <2>2. \A p \in Pub : Rest(total, p) \in Nat /\ p \in Nat
      <3>1. \A p \in Pub : r[p] = Rest(total, p)
        OBVIOUS
      <3> HIDE DEF r
      <3> QED BY <1>4, <3>1, PubFacts DEF Pub
    <2>3. Ordered(Pub, Given(total))
      BY <2>1, <2>2 DEF Ordered
    <2>4. \A p \in Pub : Lower(Pub, Given(total), p) = Ahead(total, p)
      BY <2>1 DEF Lower, Ahead
    <2> QED BY <2>3, <2>4
  <1> DEFINE Lucky == {p \in Pub : Cardinality(Ahead(total, p)) < left}
             cent == [p \in Pub |-> IF p \in Lucky THEN 1 ELSE 0]
             new == [p \in Pub |-> q[p] + cent[p]]
  <1>14. Cardinality(Lucky) = left /\ Lucky \in SUBSET Pub
    <2>1. left \in 0 .. Cardinality(Pub)
      BY <1>12, PubFacts
    <2>2. Lucky = {p \in Pub : Cardinality(Lower(Pub, Given(total), p)) < left}
      BY <1>13
    <2> HIDE DEF left
    <2>3. Cardinality({p \in Pub : Cardinality(Lower(Pub, Given(total), p)) < left}) = left
      BY <1>3, <1>13, <2>1, RanksCount
    <2> QED BY <2>2, <2>3
  <1>15. SumFunctionOnSet(new, Pub) = total
    <2>1. SumFunctionOnSet(cent, Pub) = left
      <3>1. \A p \in Pub : cent[p] = IF p \in Lucky THEN 1 ELSE 0
        OBVIOUS
      <3> HIDE DEF cent, Lucky
      <3> QED BY <1>3, <1>14, <3>1, SumCounts
    <2>2. \A p \in Pub : q[p] \in Int /\ cent[p] \in Int /\ new[p] = q[p] + cent[p]
      BY <1>4
    <2>3. SumFunctionOnSet(new, Pub) = quotas + SumFunctionOnSet(cent, Pub)
      <3> HIDE DEF q, cent, new
      <3> QED BY <1>3, <2>2, SumPlus
    <2> HIDE DEF quotas, new, cent
    <2> QED BY <1>5, <2>1, <2>3
  <1>16. ASSUME NEW p \in Lucky PROVE r[p] > 0
    <2> SUFFICES ASSUME ~(r[p] > 0) PROVE FALSE
      OBVIOUS
    <2>1. p \in Pub /\ r[p] = 0
      <3>1. p \in Pub
        OBVIOUS
      <3> HIDE DEF r, Lucky
      <3> QED BY <1>4, <3>1
    <2>2. Pos \subseteq Ahead(total, p) /\ Ahead(total, p) \in SUBSET Pub
      <3>1. \A x \in Pub : r[x] = Rest(total, x)
        OBVIOUS
      <3> HIDE DEF r
      <3> QED BY <2>1, <3>1 DEF Ahead
    <2>3. IsFiniteSet(Ahead(total, p)) /\ Cardinality(Ahead(total, p)) \in Nat
      <3>1. IsFiniteSet(Ahead(total, p))
        BY <1>3, <2>2, FS_Subset
      <3> QED BY <3>1, FS_CardinalityType
    <2>4. Cardinality(Pos) <= Cardinality(Ahead(total, p))
      <3> HIDE DEF Pos
      <3> QED BY <2>2, <2>3, FS_Subset
    <2>5. Cardinality(Ahead(total, p)) < left
      OBVIOUS
    <2> HIDE DEF left, Pos
    <2> QED BY <1>10, <1>12, <2>3, <2>4, <2>5
  <1>17. ScaleChanges(total) = [p \in Pub |-> [old |-> approved[p], new |-> new[p]]]
    <2>1. SumFunction([p \in Pub |-> Quota(total, p)]) = quotas
      BY DEF SumFunction
    <2>2. \A p \in Pub : Quota(total, p) + (IF Cardinality(Ahead(total, p)) < left THEN 1 ELSE 0) = new[p]
      OBVIOUS
    <2> QED BY <2>1, <2>2 DEF ScaleChanges
  <1>18. \A p \in Pub : new[p] \in Nat
    <2>1. \A p \in Pub : new[p] = q[p] + cent[p] /\ cent[p] \in {0, 1}
      OBVIOUS
    <2> HIDE DEF new, q, cent
    <2> QED BY <1>4, <2>1
  <1>19. Old(ScaleChanges(total)) = Total(approved) /\ New(ScaleChanges(total)) = total
    <2> HIDE DEF new
    <2>1. Old(ScaleChanges(total)) = SumFunctionOnSet([p \in Pub |-> approved[p]], Pub)
      BY <1>17 DEF Old, SumFunction
    <2>2. New(ScaleChanges(total)) = SumFunctionOnSet([p \in Pub |-> new[p]], Pub)
      BY <1>17 DEF New, SumFunction
    <2>3. SumFunctionOnSet([p \in Pub |-> approved[p]], Pub) = SumFunctionOnSet(approved, Pub)
      BY <1>3, SumEqual
    <2>4. SumFunctionOnSet([p \in Pub |-> new[p]], Pub) = SumFunctionOnSet(new, Pub)
      BY <1>3, SumEqual
    <2> QED BY <1>15, <2>1, <2>2, <2>3, <2>4 DEF Total
  <1>20. ASSUME NEW p \in Pub
         PROVE  /\ new[p] >= approved[p]
                /\ new[p] * t - approved[p] * total < t
                /\ approved[p] * total - new[p] * t < t
    <2>1. approved[p] \in Nat /\ total > t
      BY <1>1
    <2>2. CASE p \in Lucky
      <3>1. new[p] = q[p] + 1 /\ r[p] > 0
        BY <1>16, <2>2
      <3> HIDE DEF new, q, r, t, Lucky
      <3>2. /\ q[p] >= approved[p] /\ (q[p] + 1) * t - approved[p] * total < t
            /\ approved[p] * total - (q[p] + 1) * t < t
        BY <1>2, <1>4, <2>1, <3>1, QuotaBounds
      <3> QED BY <1>4, <2>1, <3>1, <3>2
    <2>3. CASE p \notin Lucky
      <3>1. new[p] = q[p]
        BY <1>4, <2>3
      <3> HIDE DEF new, q, r, t, Lucky
      <3>2. /\ q[p] >= approved[p] /\ q[p] * t - approved[p] * total < t
            /\ approved[p] * total - q[p] * t < t
        BY <1>2, <1>4, <2>1, QuotaBounds
      <3> QED BY <3>1, <3>2
    <2> QED BY <2>2, <2>3
  <1> HIDE DEF new
  <1>21. ScaleChanges(total) \in [Pub -> [old : Nat, new : Nat]]
    BY <1>1, <1>17, <1>18
  <1> QED BY <1>17, <1>19, <1>20, <1>21

-----------------------------------------------------------------------------
(* A reallocation                                                           *)

\* The ranks of two publications differ.
LEMMA RankFacts ==
    ASSUME rank \in Orders
    PROVE  (\A p \in Pub : rank[p] \in Nat) /\ \A p, q \in Pub : rank[p] = rank[q] => p = q
  <1>1. rank \in [Pub -> Pub] /\ IsInjective(rank)
    BY PolicyAssumption DEF Injection
  <1>2. \A p \in Pub : p \in Nat
    BY PubFacts DEF Pub
  <1> QED BY <1>1, <1>2 DEF IsInjective

\* With rates that differ, the first and the last publication have different
\* ones, the first a lower one.
LEMMA LoserAndWinner ==
    ASSUME rank \in Orders, NEW r \in [Pub -> Rates], \E p, q \in Pub : r[p] # r[q]
    PROVE  /\ FirstBy(r) \in Pub /\ LastBy(r) \in Pub
           /\ r[FirstBy(r)] < r[LastBy(r)] /\ FirstBy(r) # LastBy(r)
  <1> DEFINE R == {e \in Pub \X Pub : Before(r, e[1], e[2])}
             B == {e \in Pub \X Pub : Before(r, e[2], e[1])}
             l == FirstBy(r)
             w == LastBy(r)
  <1>1. \A p, q \in Pub : (<<p, q>> \in R <=> Before(r, p, q)) /\ (<<p, q>> \in B <=> Before(r, q, p))
    OBVIOUS
  <1>2. \A p \in Pub : r[p] \in Nat
    BY PolicyAssumption
  <1>3. /\ \A p \in Pub : ~Before(r, p, p)
        /\ \A p, q, s \in Pub : Before(r, p, q) /\ Before(r, q, s) => Before(r, p, s)
        /\ \A p, q \in Pub : p = q \/ Before(r, p, q) \/ Before(r, q, p)
    BY <1>2, RankFacts DEF Before
  <1>4. Ordered(Pub, R) /\ Ordered(Pub, B)
    <2> HIDE DEF R, B
    <2> QED BY <1>1, <1>3 DEF Ordered
  <1>5. IsFiniteSet(Pub) /\ Pub \in SUBSET Pub /\ Pub # {}
    BY PubFacts
  <1>6. \E p \in Pub : \A q \in Pub \ {p} : Before(r, p, q)
    <2> HIDE DEF R
    <2>1. PICK p \in Pub : \A q \in Pub \ {p} : <<p, q>> \in R
      BY <1>4, <1>5, FirstExists
    <2>2. ASSUME NEW q \in Pub \ {p} PROVE Before(r, p, q)
      <3>1. <<p, q>> \in R
        BY <2>1
      <3> QED BY <1>1, <3>1
    <2> QED BY <2>2
  <1>7. \E p \in Pub : \A q \in Pub \ {p} : Before(r, q, p)
    <2> HIDE DEF B
    <2>1. PICK p \in Pub : \A q \in Pub \ {p} : <<p, q>> \in B
      BY <1>4, <1>5, FirstExists
    <2>2. ASSUME NEW q \in Pub \ {p} PROVE Before(r, q, p)
      <3>1. <<p, q>> \in B
        BY <2>1
      <3> QED BY <1>1, <3>1
    <2> QED BY <2>2
  <1>8. l \in Pub /\ \A q \in Pub \ {l} : Before(r, l, q)
    BY <1>6 DEF FirstBy
  <1>9. w \in Pub /\ \A q \in Pub \ {w} : Before(r, q, w)
    BY <1>7 DEF LastBy
  <1> HIDE DEF l, w
  <1>10. \A q \in Pub : r[l] <= r[q] /\ r[q] <= r[w]
    BY <1>2, <1>8, <1>9 DEF Before
  <1>11. r[l] < r[w]
    <2>1. PICK p, q \in Pub : r[p] # r[q]
      OBVIOUS
    <2> QED BY <1>2, <1>8, <1>9, <1>10, <2>1
  <1>12. l # w
    BY <1>2, <1>8, <1>11
  <1> QED BY <1>8, <1>9, <1>11, <1>12 DEF l, w

\* A reallocation moves money from the loser to the winner.
LEMMA ReallocationFacts ==
    ASSUME approved \in [Pub -> Budgets], rank \in Orders, NEW r \in [Pub -> Rates],
           \E p, q \in Pub : r[p] # r[q], Reallocation(r) # <<>>
    PROVE  \E l, w \in Pub : /\ Shifts(Reallocation(r), l, w) /\ r[l] < r[w]
                             /\ Reallocation(r) \in [{l, w} -> [old : Nat, new : Nat]]
  <1> DEFINE l == FirstBy(r)
             w == LastBy(r)
             total == approved[l] + approved[w]
             loserNew == (total * 40) \div 100
             c == [p \in {l, w} |-> [old |-> approved[p],
                                     new |-> IF p = l THEN loserNew ELSE total - loserNew]]
  <1>1. l \in Pub /\ w \in Pub /\ r[l] < r[w] /\ l # w
    BY LoserAndWinner
  <1>2. Reallocation(r) = c /\ loserNew < approved[l] /\ total - loserNew > approved[w]
    BY DEF Reallocation
  <1>3. approved[l] \in Nat \ {0, 1} /\ approved[w] \in Nat \ {0, 1}
    BY <1>1, PolicyAssumption
  <1>4. total \in Nat /\ loserNew \in Nat \ {0}
    <2> HIDE DEF l, w
    <2> QED BY <1>3
  <1>5. DOMAIN c = {l, w}
    OBVIOUS
  <1>6. /\ c[l].old = approved[l] /\ c[w].old = approved[w]
        /\ c[l].new = loserNew /\ c[w].new = total - loserNew
    BY <1>1
  <1>7. loserNew + (total - loserNew) = approved[l] + approved[w]
    <2> HIDE DEF loserNew, l, w
    <2> QED BY <1>3, <1>4
  <1> HIDE DEF loserNew
  <1>8. total - loserNew \in Nat
    <2> HIDE DEF l, w
    <2> QED BY <1>2, <1>3, <1>4
  <1>9. c \in [{l, w} -> [old : Nat, new : Nat]]
    <2>1. ASSUME NEW p \in {l, w} PROVE c[p] \in [old : Nat, new : Nat]
      <3>1. approved[p] \in Nat
        BY <1>3
      <3> HIDE DEF l, w, total
      <3> QED BY <1>4, <1>8, <3>1
    <2> QED BY <2>1
  <1> HIDE DEF total, c
  <1>10. c[l].new > 0
    <2> HIDE DEF l, w
    <2> QED BY <1>4, <1>6
  <1>11. c[l].new < c[l].old
    BY <1>2, <1>6
  <1>12. c[l].new + c[w].new = c[l].old + c[w].old
    BY <1>6, <1>7
  <1>13. Shifts(c, l, w)
    BY <1>1, <1>5, <1>6, <1>10, <1>11, <1>12 DEF Shifts
  <1> HIDE DEF l, w
  <1> QED BY <1>1, <1>2, <1>9, <1>13

\* The publications that the policy names are publications of the campaign.
LEMMA PolicyNames ==
    ASSUME rank \in Orders, NEW r \in [Pub -> Rates]
    PROVE  PolicyLoser(r) \in Pub /\ PolicyWinner(r) \in Pub
  <1> DEFINE Low(p, q) == r[p] < r[q] \/ (r[p] = r[q] /\ rank[p] > rank[q])
             High(p, q) == r[p] > r[q] \/ (r[p] = r[q] /\ rank[p] < rank[q])
             R == {e \in Pub \X Pub : Low(e[1], e[2])}
             B == {e \in Pub \X Pub : High(e[1], e[2])}
  <1>1. \A p, q \in Pub : (<<p, q>> \in R <=> Low(p, q)) /\ (<<p, q>> \in B <=> High(p, q))
    OBVIOUS
  <1>2. \A p \in Pub : r[p] \in Nat
    BY PolicyAssumption
  <1>3. /\ \A p \in Pub : ~Low(p, p)
        /\ \A p, q, s \in Pub : Low(p, q) /\ Low(q, s) => Low(p, s)
        /\ \A p, q \in Pub : p = q \/ Low(p, q) \/ Low(q, p)
    BY <1>2, RankFacts
  <1>4. /\ \A p \in Pub : ~High(p, p)
        /\ \A p, q, s \in Pub : High(p, q) /\ High(q, s) => High(p, s)
        /\ \A p, q \in Pub : p = q \/ High(p, q) \/ High(q, p)
    BY <1>2, RankFacts
  <1>5. Ordered(Pub, R) /\ Ordered(Pub, B)
    <2> HIDE DEF R, B, Low, High
    <2> QED BY <1>1, <1>3, <1>4 DEF Ordered
  <1>6. IsFiniteSet(Pub) /\ Pub \in SUBSET Pub /\ Pub # {}
    BY PubFacts
  <1>7. \E p \in Pub : \A q \in Pub \ {p} : Low(p, q)
    <2> HIDE DEF R, Low
    <2>1. PICK p \in Pub : \A q \in Pub \ {p} : <<p, q>> \in R
      BY <1>5, <1>6, FirstExists
    <2>2. ASSUME NEW q \in Pub \ {p} PROVE Low(p, q)
      <3>1. <<p, q>> \in R
        BY <2>1
      <3> QED BY <1>1, <3>1
    <2> QED BY <2>2
  <1>8. \E p \in Pub : \A q \in Pub \ {p} : High(p, q)
    <2> HIDE DEF B, High
    <2>1. PICK p \in Pub : \A q \in Pub \ {p} : <<p, q>> \in B
      BY <1>5, <1>6, FirstExists
    <2>2. ASSUME NEW q \in Pub \ {p} PROVE High(p, q)
      <3>1. <<p, q>> \in B
        BY <2>1
      <3> QED BY <1>1, <3>1
    <2> QED BY <2>2
  <1> QED BY <1>7, <1>8 DEF PolicyLoser, PolicyWinner

-----------------------------------------------------------------------------
(* The history                                                              *)

\* The history is a sequence of entries, none of the future.
LEMMA HistoryType ==
    ASSUME TypeOK
    PROVE  /\ history \in Seq(Entry) /\ Len(history) \in Nat /\ DOMAIN history = 1 .. Len(history)
           /\ \A n \in DOMAIN history : history[n] \in Entry /\ history[n].at <= now
           /\ now \in Nat
  <1> DEFINE E == [kind : {"reallocate", "scale"}, at : 0 .. now, old : Nat, new : Nat]
  <1>1. now \in Nat /\ history \in Seq(E)
    BY PolicyAssumption DEF TypeOK
  <1>2. E \subseteq Entry
    BY <1>1 DEF Entry
  <1>3. Len(history) \in Nat /\ DOMAIN history = 1 .. Len(history)
    BY <1>1
  <1>4. \A n \in DOMAIN history : history[n] \in E
    <2> HIDE DEF E
    <2> QED BY <1>1
  <1>5. \A n \in DOMAIN history : history[n].at <= now
    BY <1>1, <1>4
  <1>6. history \in Seq(Entry)
    <2> HIDE DEF E
    <2> QED BY <1>1, <1>2
  <1> HIDE DEF E
  <1> QED BY <1>1, <1>2, <1>3, <1>4, <1>5, <1>6

\* What an entry adds to the increases
LEMMA IncFacts ==
    ASSUME NEW h \in Seq(Entry)
    PROVE  /\ \A n \in DOMAIN h : /\ Inc(h)[n] = (IF h[n].new > h[n].old THEN h[n].new - h[n].old ELSE 0)
                                  /\ Inc(h)[n] \in Nat
           /\ \A w \in SUBSET DOMAIN h : IsFiniteSet(w) /\ SumFunctionOnSet(Inc(h), w) \in Nat
  <1>1. ASSUME NEW n \in DOMAIN h
        PROVE  /\ Inc(h)[n] = (IF h[n].new > h[n].old THEN h[n].new - h[n].old ELSE 0)
               /\ Inc(h)[n] \in Nat
    <2>1. h[n].old \in Nat /\ h[n].new \in Nat
      <3>1. h[n] \in Entry
        OBVIOUS
      <3> QED BY <3>1 DEF Entry
    <2>2. Inc(h)[n] = Max({0, h[n].new - h[n].old})
      BY DEF Inc
    <2>3. h[n].new - h[n].old \in Int
      BY <2>1
    <2>4. Inc(h)[n] = IF h[n].new - h[n].old > 0 THEN h[n].new - h[n].old ELSE 0
      BY <2>2, <2>3, MaxOfZero
    <2> QED BY <2>1, <2>4
  <1>2. IsFiniteSet(DOMAIN h)
    <2>1. DOMAIN h = 1 .. Len(h) /\ Len(h) \in Nat
      OBVIOUS
    <2> QED BY <2>1, FS_Interval
  <1>3. ASSUME NEW w \in SUBSET DOMAIN h PROVE IsFiniteSet(w) /\ SumFunctionOnSet(Inc(h), w) \in Nat
    <2>1. IsFiniteSet(w)
      BY <1>2, FS_Subset
    <2>2. \A n \in w : Inc(h)[n] \in Nat
      BY <1>1
    <2> QED BY <2>1, <2>2, SumNat
  <1> QED BY <1>1, <1>3

\* What holds of a history g that is h and an entry e at n: the earlier days
\* and their increases are what they were.
Added(h, e, g, n) ==
    /\ g \in Seq(Entry) /\ DOMAIN g = DOMAIN h \cup {n} /\ n \notin DOMAIN h /\ n \in Nat
    /\ g[n] = e /\ \A m \in DOMAIN h : g[m] = h[m] /\ m < n /\ m \in Nat
    /\ \A m \in DOMAIN h : DayOf(g, m) = DayOf(h, m) /\ DayOf(h, m) \in SUBSET DOMAIN h
    /\ \A w \in SUBSET DOMAIN h :
          /\ SumFunctionOnSet(Inc(g), w) = SumFunctionOnSet(Inc(h), w)
          /\ SumFunctionOnSet(Inc(g), w \cup {n})
               = SumFunctionOnSet(Inc(h), w) + (IF e.new > e.old THEN e.new - e.old ELSE 0)

\* What one more execution adds to the histories and days.
LEMMA IncAppend ==
    ASSUME NEW h \in Seq(Entry), NEW e \in Entry, NEW g, g = Append(h, e), NEW n, n = Len(h) + 1
    PROVE  Added(h, e, g, n)
  <1>1. /\ g \in Seq(Entry) /\ DOMAIN g = 1 .. n /\ DOMAIN h = 1 .. Len(h) /\ Len(h) \in Nat /\ g[n] = e
        /\ \A m \in 1 .. Len(h) : g[m] = h[m]
    OBVIOUS
  <1>2. /\ DOMAIN g = DOMAIN h \cup {n} /\ n \notin DOMAIN h /\ n \in Nat
        /\ \A m \in DOMAIN h : g[m] = h[m] /\ m < n /\ m \in Nat
    BY <1>1
  <1>3. ASSUME NEW m \in DOMAIN h PROVE DayOf(g, m) = DayOf(h, m) /\ DayOf(h, m) \in SUBSET DOMAIN h
    <2>1. 1 .. m \subseteq DOMAIN h /\ m \in 1 .. m
      BY <1>1
    <2>2. \A k \in 1 .. m : g[k] = h[k]
      BY <1>2, <2>1
    <2>3. DayOf(h, m) \subseteq 1 .. m
      BY DEF DayOf
    <2>4. DayOf(g, m) = DayOf(h, m)
      BY <2>1, <2>2 DEF DayOf
    <2> QED BY <2>1, <2>3, <2>4
  <1>4. ASSUME NEW w \in SUBSET DOMAIN h
        PROVE  /\ SumFunctionOnSet(Inc(g), w) = SumFunctionOnSet(Inc(h), w)
               /\ SumFunctionOnSet(Inc(g), w \cup {n})
                    = SumFunctionOnSet(Inc(h), w) + (IF e.new > e.old THEN e.new - e.old ELSE 0)
    <2>1. IsFiniteSet(w) /\ w \cup {n} \in SUBSET DOMAIN g
      BY <1>2, IncFacts
    <2>2. \A m \in w : Inc(g)[m] = Inc(h)[m]
      BY <1>2 DEF Inc
    <2>3. SumFunctionOnSet(Inc(g), w) = SumFunctionOnSet(Inc(h), w)
      BY <2>1, <2>2, SumEqual
    <2> DEFINE z == w \cup {n}
    <2>0. \A m \in DOMAIN g : /\ Inc(g)[m] = (IF g[m].new > g[m].old THEN g[m].new - g[m].old ELSE 0)
                              /\ Inc(g)[m] \in Nat
      <3>1. g \in Seq(Entry)
        BY <1>1
      <3> QED BY <3>1, IncFacts
    <2>4. IsFiniteSet(z) /\ (\A m \in z : Inc(g)[m] \in Int) /\ n \in z /\ z \ {n} = w
      <3>1. z \ {n} = w /\ n \in z
        BY <1>2
      <3>2. z \in SUBSET DOMAIN g /\ IsFiniteSet(z)
        BY <2>1, FS_AddElement
      <3> HIDE DEF z
      <3> QED BY <2>0, <3>1, <3>2
    <2>5. SumFunctionOnSet(Inc(g), z) = Inc(g)[n] + SumFunctionOnSet(Inc(g), w)
      <3> HIDE DEF z
      <3>1. SumFunctionOnSet(Inc(g), z) = Inc(g)[n] + SumFunctionOnSet(Inc(g), z \ {n})
        BY <2>4, SumRemove
      <3> QED BY <2>4, <3>1
    <2>6. Inc(g)[n] = (IF e.new > e.old THEN e.new - e.old ELSE 0) /\ Inc(g)[n] \in Nat
      <3>1. n \in DOMAIN g /\ g[n] = e
        BY <1>1, <1>2
      <3> QED BY <2>0, <3>1
    <2>7. SumFunctionOnSet(Inc(h), w) \in Nat
      BY IncFacts
    <2> QED BY <2>3, <2>5, <2>6, <2>7
  <1> QED BY <1>1, <1>2, <1>3, <1>4 DEF Added

\* The window and its opening
LEMMA WindowFacts ==
    ASSUME TypeOK, HistoryIsExplained
    PROVE  /\ Window \in SUBSET DOMAIN history
           /\ \A w \in SUBSET DOMAIN history :
                 /\ Increased(w) = SumFunctionOnSet(Inc(history), w) /\ Increased(w) \in Nat
                 /\ w # {} => Min(w) \in w /\ \A n \in w : Min(w) <= n
                 /\ Opening(w, Total(approved)) \in Nat /\ Opening(w, Total(approved)) <= Total(approved)
           /\ Total(approved) \in Nat \ {0}
  <1>1. approved \in [Pub -> Nat \ {0}]
    BY PolicyAssumption DEF TypeOK
  <1>2. Total(approved) \in Nat \ {0}
    BY <1>1, TotalFacts
  <1>3. Window \in SUBSET DOMAIN history
    BY DEF Window
  <1>4. ASSUME NEW w \in SUBSET DOMAIN history
        PROVE  /\ Increased(w) = SumFunctionOnSet(Inc(history), w) /\ Increased(w) \in Nat
               /\ w # {} => Min(w) \in w /\ \A n \in w : Min(w) <= n
               /\ Opening(w, Total(approved)) \in Nat /\ Opening(w, Total(approved)) <= Total(approved)
    <2>1. Increased(w) = SumFunctionOnSet(Inc(history), w) /\ Increased(w) \in Nat
      <3>1. Increased(w) = SumFunctionOnSet(Inc(history), w)
        BY DEF Increased, Increase, Inc
      <3>2. history \in Seq(Entry)
        BY HistoryType
      <3> QED BY <3>1, <3>2, IncFacts
    <2>2. w # {} => Min(w) \in w /\ \A n \in w : Min(w) <= n
      <3>1. Len(history) \in Nat /\ w \in SUBSET (1 .. Len(history))
        BY HistoryType
      <3> QED BY <3>1, MinOfSome
    <2>3. CASE w = {}
      <3>1. Opening(w, Total(approved)) = Total(approved)
        BY <2>3 DEF Opening
      <3> QED BY <1>2, <2>1, <2>2, <3>1
    <2>4. CASE w # {}
      <3>1. Opening(w, Total(approved)) = history[Min(w)].old /\ Min(w) \in DOMAIN history
        BY <2>2, <2>4 DEF Opening
      <3>2. history[Min(w)] \in Entry
        BY <3>1, HistoryType
      <3>3. history[Min(w)].old \in Nat /\ history[Min(w)].old <= Total(approved)
        <4>1. history[Min(w)].old \in Nat /\ history[Min(w)].kind \in {"reallocate", "scale"}
          BY <3>2 DEF Entry
        <4>2. CASE history[Min(w)].kind = "reallocate"
          BY <3>1, <4>1, <4>2 DEF HistoryIsExplained
        <4>3. CASE history[Min(w)].kind = "scale"
          BY <1>2, <3>1, <4>1, <4>3 DEF HistoryIsExplained
        <4> QED BY <4>1, <4>2, <4>3
      <3> QED BY <2>1, <2>2, <3>1, <3>3
    <2> QED BY <2>3, <2>4
  <1> QED BY <1>2, <1>3, <1>4

\* The total that is proposed is a number.
LEMMA ProposedType ==
    ASSUME TypeOK, HistoryIsExplained
    PROVE  Proposed \in Int
  <1> DEFINE t == Total(approved)
             o == Opening(Window, t)
             i == Increased(Window)
             m == Max({0, Permitted(o) - i})
  <1>1. t \in Nat /\ o \in Nat /\ i \in Nat /\ Permitted(o) \in Nat
    BY WindowFacts, PermittedFacts
  <1>2. CASE \E n \in Window : history[n].kind = "scale"
    BY <1>1, <1>2 DEF Proposed
  <1>3. CASE ~\E n \in Window : history[n].kind = "scale"
    <2>1. m = IF Permitted(o) - i > 0 THEN Permitted(o) - i ELSE 0
      <3>1. Permitted(o) - i \in Int
        BY <1>1
      <3> QED BY <3>1, MaxOfZero
    <2>2. Proposed = Min({t + m, o + Permitted(o), Ceiling})
      BY <1>3 DEF Proposed
    <2> HIDE DEF o, i, t
    <2>3. m \in Int
      BY <1>1, <2>1
    <2> HIDE DEF m
    <2>4. t + m \in Int /\ o + Permitted(o) \in Int /\ Ceiling \in Int
      BY <1>1, <2>3, PolicyAssumption
    <2> QED BY <2>2, <2>4, MinOfThree
  <1> QED BY <1>2, <1>3

\* A scale that is proposed is within the limits.
LEMMA ProposedFacts ==
    ASSUME TypeOK, HistoryIsExplained, Proposed > Total(approved)
    PROVE  /\ Proposed \in Nat /\ Proposed <= Ceiling
           /\ \A n \in Window : history[n].kind # "scale"
           /\ Proposed - Total(approved) <= Permitted(Opening(Window, Total(approved))) - Increased(Window)
           /\ Proposed <= Opening(Window, Total(approved)) + Permitted(Opening(Window, Total(approved)))
           /\ Proposed - Total(approved) <= Permitted(Total(approved))
  <1> DEFINE t == Total(approved)
             o == Opening(Window, t)
             i == Increased(Window)
             x == t + Max({0, Permitted(o) - i})
             y == o + Permitted(o)
  <1>1. t \in Nat /\ o \in Nat /\ o <= t /\ i \in Nat
    BY WindowFacts
  <1>2. Permitted(o) \in Nat /\ Permitted(t) \in Nat /\ Permitted(o) <= Permitted(t)
    <2> HIDE DEF o, t
    <2> QED BY <1>1, PermittedFacts
  <1>3. Max({0, Permitted(o) - i}) = IF Permitted(o) - i > 0 THEN Permitted(o) - i ELSE 0
    <2>1. Permitted(o) - i \in Int
      <3> HIDE DEF o, i
      <3> QED BY <1>1, <1>2
    <2> QED BY <2>1, MaxOfZero
  <1>4. Ceiling \in Nat
    BY PolicyAssumption
  <1>5. \A n \in Window : history[n].kind # "scale"
    <2>1. ASSUME NEW n \in Window, history[n].kind = "scale" PROVE FALSE
      <3>1. Proposed = t
        BY <2>1 DEF Proposed
      <3> HIDE DEF t
      <3> QED BY <1>1, <3>1 DEF t
    <2> QED BY <2>1
  <1>6. Proposed = Min({x, y, Ceiling})
    BY <1>5 DEF Proposed
  <1>7. x \in Int /\ y \in Int
    <2> HIDE DEF o, i, t
    <2> QED BY <1>1, <1>2, <1>3
  <1>8. Proposed \in {x, y, Ceiling} /\ Proposed <= x /\ Proposed <= y /\ Proposed <= Ceiling
    <2> HIDE DEF x, y
    <2> QED BY <1>4, <1>6, <1>7, MinOfThree
  <1>9. Proposed \in Int /\ Proposed > t
    BY <1>4, <1>7, <1>8
  <1> HIDE DEF o, i, t
  <1>10. Proposed - t <= Permitted(o) - i
    <2> DEFINE q == Permitted(o)
               m == Max({0, q - i})
    <2>1. q \in Nat /\ m = IF q - i > 0 THEN q - i ELSE 0
      BY <1>2, <1>3
    <2>2. Proposed <= t + m
      BY <1>8
    <2> HIDE DEF q, m
    <2>3. Proposed - t <= q - i
      BY <1>1, <1>9, <2>1, <2>2
    <2> QED BY <2>3 DEF q
  <1>11. Proposed - t <= Permitted(t)
    BY <1>1, <1>2, <1>8, <1>9
  <1>12. Proposed \in Nat
    BY <1>1, <1>9
  <1> QED BY <1>5, <1>8, <1>10, <1>11, <1>12 DEF o, i, t

-----------------------------------------------------------------------------
(* The steps                                                                *)

\* The limits depend on the history and the hour.
LEMMA HistoryKept ==
    ASSUME UNCHANGED <<approved, history>>, HistoryIsExplained, HistoryIsSpaced, DaysBounded
    PROVE  HistoryIsExplained' /\ HistoryIsSpaced' /\ DaysBounded'
  BY DEF HistoryIsExplained, HistoryIsSpaced, DaysBounded

\* The ledger depends on the budgets, the history and the edits.
LEMMA LedgerKept ==
    ASSUME UNCHANGED <<approved, live, history, edits>>, LedgerExplainsLive
    PROVE  LedgerExplainsLive'
  BY DEF LedgerExplainsLive, Increased, Increase

\* What an open action may change stays what it was while it is open.
LEMMA DecidedKept ==
    ASSUME UNCHANGED <<approved, action>>, ActionIsDecided
    PROVE  ActionIsDecided'
  <1>1. \A total : ScaleChanges(total)' = ScaleChanges(total)
    BY DEF ScaleChanges, Quota, Rest, Ahead
  <1>2. \A c, l, w : Shifts(c, l, w)' = Shifts(c, l, w)
    BY DEF Shifts
  <1> QED BY <1>1, <1>2 DEF ActionIsDecided

\* What bounds an open scale depends on the window and the budgets.
LEMMA ScaleKept ==
    ASSUME UNCHANGED <<approved, action, history, now>>, ScaleIsFirst, ScaleIsWithin
    PROVE  ScaleIsFirst' /\ ScaleIsWithin'
  <1>1. Window' = Window
    BY DEF Window
  <1>2. IncreaseCap(action)' = IncreaseCap(action)
    BY <1>1 DEF IncreaseCap, Opening, Increased, Increase
  <1> QED BY <1>1, <1>2 DEF ScaleIsFirst, ScaleIsWithin

\* Without an action there is nothing to say about one.
LEMMA NoActionHolds ==
    action = NoAction => ActionIsDecided /\ ScaleIsFirst /\ ScaleIsWithin
  BY DEF NoAction, ActionIsDecided, ScaleIsFirst, ScaleIsWithin

\* The entries of the hours so far
Until(hour) == [kind : {"reallocate", "scale"}, at : 0 .. hour, old : Nat, new : Nat]

\* Types with the hour of the state grow with it.
LEMMA TypesGrow ==
    ASSUME now \in Nat, now' \in Nat, now <= now'
    PROVE  /\ Basis(BOOLEAN) \subseteq Basis(BOOLEAN)' /\ Basis({TRUE}) \subseteq Basis({TRUE})'
           /\ \A ps \in SUBSET Pub : Decisions(ps) \subseteq Decisions(ps)'
           /\ Seq(Until(now)) \subseteq Seq(Until(now'))
  <1>1. 0 .. now \subseteq 0 .. now'
    OBVIOUS
  <1>2. Basis(BOOLEAN) \subseteq Basis(BOOLEAN)' /\ Basis({TRUE}) \subseteq Basis({TRUE})'
    BY <1>1 DEF Basis
  <1>3. \A ps \in SUBSET Pub : Decisions(ps) \subseteq Decisions(ps)'
    BY <1>2 DEF Decisions
  <1>4. Until(now) \subseteq Until(now')
    BY <1>1 DEF Until
  <1>5. Seq(Until(now)) \subseteq Seq(Until(now'))
    BY <1>4
  <1> QED BY <1>2, <1>3, <1>5

\* Before the first collection nothing is decided and nothing recorded.
LEMMA InitHolds == Init => IInv
  <1> SUFFICES ASSUME Init PROVE IInv
    OBVIOUS
  <1>1. /\ now = 0 /\ approved \in [Pub -> Budgets] /\ live = approved /\ rank \in Orders
        /\ sourced \in BOOLEAN /\ basis = NoBasis /\ action = NoAction /\ history = <<>>
        /\ last = "none" /\ edits = 0
    BY DEF Init
  <1>2. approved \in [Pub -> Nat \ {0}]
    BY <1>1, PolicyAssumption
  <1>3. DOMAIN history = {}
    BY <1>1
  <1>4. TypeOK
    <2>1. now \in 0 .. Horizon /\ edits \in 0 .. MaxEdits
      BY <1>1, PolicyAssumption
    <2> QED BY <1>1, <1>2, <2>1 DEF TypeOK
  <1>5. LedgerExplainsLive
    <2>1. Increased({}) = 0
      BY FS_EmptySet, SumStep DEF Increased
    <2>2. Total(approved) \in Nat
      BY <1>2, TotalFacts
    <2> QED BY <1>1, <1>3, <2>1, <2>2 DEF LedgerExplainsLive
  <1>6. HistoryIsExplained /\ HistoryIsSpaced /\ DaysBounded
    BY <1>3 DEF HistoryIsExplained, HistoryIsSpaced, DaysBounded
  <1> QED BY <1>1, <1>4, <1>5, <1>6, NoActionHolds DEF IInv

\* An hour passes: entries leave the window, and none comes in.
LEMMA TickHolds == IInv /\ Tick => IInv'
  <1> SUFFICES ASSUME IInv, Tick PROVE IInv'
    OBVIOUS
  <1>1. /\ TypeOK /\ ActionIsDecided /\ ScaleIsFirst /\ HistoryIsExplained /\ HistoryIsSpaced
        /\ DaysBounded /\ ScaleIsWithin /\ LedgerExplainsLive
    BY DEF IInv
  <1>2. now \in Nat /\ now' = now + 1 /\ now < Horizon /\ now' \in Nat
    BY <1>1, HistoryType DEF Tick
  <1>3. UNCHANGED <<approved, rank, sourced, live, basis, action, history, last, edits>>
    BY DEF Tick, campaignVars
  <1>4. TypeOK'
    <2>1. now' \in 0 .. Horizon
      BY <1>2, PolicyAssumption
    <2>2. action' = NoAction \/ \E ps \in SUBSET Pub : action' \in Decisions(ps)'
      BY <1>1, <1>2, <1>3, TypesGrow DEF TypeOK
    <2>3. basis' = NoBasis \/ basis' \in Basis(BOOLEAN)'
      BY <1>1, <1>2, <1>3, TypesGrow DEF TypeOK
    <2>4. history' \in Seq([kind : {"reallocate", "scale"}, at : 0 .. now', old : Nat, new : Nat])
      <3>1. history \in Seq(Until(now))
        BY <1>1 DEF TypeOK, Until
      <3>2. history' \in Seq(Until(now'))
        BY <1>2, <1>3, <3>1, TypesGrow
      <3> QED BY <3>2 DEF Until
    <2> QED BY <1>1, <1>3, <2>1, <2>2, <2>3, <2>4 DEF TypeOK
  <1>5. HistoryIsExplained' /\ HistoryIsSpaced' /\ DaysBounded' /\ LedgerExplainsLive' /\ ActionIsDecided'
    BY <1>1, <1>3, HistoryKept, LedgerKept, DecidedKept
  <1>6. Window' \subseteq Window /\ Window \in SUBSET DOMAIN history
    <2>1. Day \in Nat /\ \A n \in DOMAIN history : history[n].at \in Nat
      BY <1>1, HistoryType, PolicyAssumption DEF Entry
    <2> QED BY <1>2, <1>3, <2>1 DEF Window
  <1>7. ScaleIsFirst'
    BY <1>1, <1>3, <1>6 DEF ScaleIsFirst
  <1>8. ScaleIsWithin'
    <2> SUFFICES ASSUME action.kind = "scale", Day <= 2 * Cooldown
                 PROVE  (\A m, n \in Window' : m = n) /\ ~IncreaseCap(action)'
      BY <1>3 DEF ScaleIsWithin
    <2>1. (\A m, n \in Window : m = n) /\ ~IncreaseCap(action)
      BY <1>1 DEF ScaleIsWithin
    <2>2. \A m, n \in Window' : m = n
      BY <1>6, <2>1
    <2>3. CASE Window' = Window
      <3>1. IncreaseCap(action)' = IncreaseCap(action)
        BY <1>3, <2>3 DEF IncreaseCap, Opening, Increased, Increase
      <3> QED BY <2>1, <2>2, <3>1
    <2>4. CASE Window' # Window
      <3>1. Window' = {}
        BY <1>6, <2>1, <2>4
      <3> DEFINE t == Total(approved)
                 x == New(action.changes)
      <3>2. IncreaseCap(action)' <=> \/ x - t > Permitted(t) - SumFunctionOnSet(Increase', {})
                                     \/ x > t + Permitted(t)
        BY <1>3, <3>1 DEF IncreaseCap, Opening, Increased
      <3>3. SumFunctionOnSet(Increase', {}) = 0
        BY FS_EmptySet, SumStep
      <3>4. x - t <= Permitted(t)
        BY <1>1 DEF ScaleIsFirst
      <3>5. t \in Nat /\ Permitted(t) \in Nat
        BY <1>1, WindowFacts, PermittedFacts
      <3>6. x \in Nat
        <4>1. PICK total \in Nat : total > t /\ action.changes = ScaleChanges(total)
          BY <1>1 DEF ActionIsDecided
        <4>2. x = total
          BY <1>1, <4>1, ScaleFacts DEF TypeOK
        <4> QED BY <4>1, <4>2
      <3> HIDE DEF t, x
      <3>7. ~(x - t > Permitted(t) - 0) /\ ~(x > t + Permitted(t))
        BY <3>4, <3>5, <3>6
      <3> QED BY <2>2, <3>2, <3>3, <3>7
    <2> QED BY <2>3, <2>4
  <1> QED BY <1>4, <1>5, <1>7, <1>8 DEF IInv

\* New evidence changes nothing but the evidence.
LEMMA CollectHolds == IInv /\ Collect => IInv'
  <1> SUFFICES ASSUME IInv, Collect PROVE IInv'
    OBVIOUS
  <1>1. /\ TypeOK /\ ActionIsDecided /\ ScaleIsFirst /\ HistoryIsExplained /\ HistoryIsSpaced
        /\ DaysBounded /\ ScaleIsWithin /\ LedgerExplainsLive
    BY DEF IInv
  <1>2. UNCHANGED <<now, approved, rank, sourced, live, action, history, last, edits>>
    BY DEF Collect, campaignVars
  <1>3. basis' \in Basis(BOOLEAN)
    <2>1. now \in 0 .. now
      BY <1>1, HistoryType
    <2> QED BY <2>1 DEF Collect, Basis
  <1>4. TypeOK'
    <2>1. Basis(BOOLEAN)' = Basis(BOOLEAN) /\ \A ps \in SUBSET Pub : Decisions(ps)' = Decisions(ps)
      BY <1>2 DEF Basis, Decisions
    <2> QED BY <1>1, <1>2, <1>3, <2>1 DEF TypeOK
  <1> QED BY <1>1, <1>2, <1>4, HistoryKept, LedgerKept, DecidedKept, ScaleKept DEF IInv

\* The founder changes a budget in Meta; the ledger no longer explains it all.
LEMMA EditHolds == IInv /\ FounderEdits => IInv'
  <1> SUFFICES ASSUME IInv, FounderEdits PROVE IInv'
    OBVIOUS
  <1>1. /\ TypeOK /\ ActionIsDecided /\ ScaleIsFirst /\ HistoryIsExplained /\ HistoryIsSpaced
        /\ DaysBounded /\ ScaleIsWithin /\ LedgerExplainsLive
    BY DEF IInv
  <1>2. UNCHANGED <<now, approved, rank, sourced, basis, action, history, last>>
    BY DEF FounderEdits, campaignVars
  <1>3. edits' = edits + 1 /\ edits < MaxEdits /\ edits \in Nat /\ edits' \in 0 .. MaxEdits
    BY <1>1, PolicyAssumption DEF FounderEdits, TypeOK
  <1>4. TypeOK'
    <2>1. Basis(BOOLEAN)' = Basis(BOOLEAN) /\ \A ps \in SUBSET Pub : Decisions(ps)' = Decisions(ps)
      BY <1>2 DEF Basis, Decisions
    <2>2. live' \in [Pub -> Nat \ {0}]
      BY <1>1, PolicyAssumption DEF FounderEdits, TypeOK
    <2> QED BY <1>1, <1>2, <1>3, <2>1, <2>2 DEF TypeOK
  <1>5. LedgerExplainsLive'
    BY <1>3 DEF LedgerExplainsLive
  <1> QED BY <1>1, <1>2, <1>4, <1>5, HistoryKept, DecidedKept, ScaleKept DEF IInv

-----------------------------------------------------------------------------
(* A decision                                                               *)

\* With a cooldown of half a day, a change that is due has one change of the
\* same day before it at most.
LEMMA OneInWindow ==
    ASSUME TypeOK, HistoryIsSpaced, ~Cooling, Day <= 2 * Cooldown, NEW m \in Window, NEW n \in Window
    PROVE  m = n
  <1>1. ASSUME NEW i \in Window, NEW k \in Window, i < k PROVE FALSE
    <2>1. /\ i \in DOMAIN history /\ k \in DOMAIN history
          /\ history[i].at > now - Day /\ ~(history[k].at > now - Cooldown)
      BY DEF Window, Cooling
    <2>2. i \in 1 .. k - 1
      BY <1>1, <2>1, HistoryType
    <2>3. history[k].at - history[i].at >= Cooldown
      BY <2>1, <2>2 DEF HistoryIsSpaced
    <2>4. history[i].at \in Nat /\ history[k].at \in Nat /\ now \in Nat /\ Day \in Nat /\ Cooldown \in Nat
      BY <2>1, HistoryType, PolicyAssumption DEF Entry
    <2> QED BY <2>1, <2>3, <2>4
  <1>2. m \in Nat /\ n \in Nat
    BY HistoryType DEF Window
  <1> QED BY <1>1, <1>2

\* A decision that becomes the open action
LEMMA DecisionType ==
    ASSUME TypeOK, Fresh(basis), basis.healthy, NEW k \in {"replace", "reallocate", "scale"},
           NEW ps \in SUBSET Pub, NEW c \in [ps -> [old : Nat, new : Nat]]
    PROVE  Decision(k, c) \in Decisions(ps) /\ Decision(k, c).kind = k /\ Decision(k, c).changes = c
           /\ Decision(k, c).basis = basis /\ basis.rates \in [Pub -> Rates]
  <1>1. basis \in Basis({TRUE}) /\ basis.rates \in [Pub -> Rates]
    BY DEF TypeOK, Fresh, Basis
  <1>2. PolicyLoser(basis.rates) \in Pub /\ PolicyWinner(basis.rates) \in Pub
    BY <1>1, PolicyNames DEF TypeOK
  <1> QED BY <1>1, <1>2 DEF Decision, Decisions

\* evaluate_campaign: only the open action changes.
LEMMA EvaluateHolds == IInv /\ Evaluate => IInv'
  <1> SUFFICES ASSUME IInv, Evaluate PROVE IInv'
    OBVIOUS
  <1>1. /\ TypeOK /\ ActionIsDecided /\ ScaleIsFirst /\ HistoryIsExplained /\ HistoryIsSpaced
        /\ DaysBounded /\ ScaleIsWithin /\ LedgerExplainsLive
    BY DEF IInv
  <1>2. UNCHANGED <<now, approved, rank, sourced, live, basis, history, last, edits>>
    BY DEF Evaluate, campaignVars
  <1>3. Fresh(basis) /\ basis.healthy /\ ~Cooling /\ Conclusive
    BY DEF Evaluate
  <1>4. HistoryIsExplained' /\ HistoryIsSpaced' /\ DaysBounded' /\ LedgerExplainsLive'
    BY <1>1, <1>2, HistoryKept, LedgerKept
  <1>5. /\ Basis(BOOLEAN)' = Basis(BOOLEAN) /\ \A ps \in SUBSET Pub : Decisions(ps)' = Decisions(ps)
        /\ Window' = Window
    BY <1>2 DEF Basis, Decisions, Window
  <1>6. ASSUME NEW ps \in SUBSET Pub, action' \in Decisions(ps) PROVE TypeOK'
    BY <1>1, <1>2, <1>5, <1>6 DEF TypeOK
  <1> DEFINE r == basis.rates
  <1>7. r \in [Pub -> Rates]
    BY <1>1, <1>3 DEF TypeOK, Fresh, Basis
  <1>8. CASE Reallocation(r) # <<>>
    <2> DEFINE c == Reallocation(r)
    <2>1. PICK l, w \in Pub : Shifts(c, l, w) /\ r[l] < r[w] /\ c \in [{l, w} -> [old : Nat, new : Nat]]
      <3>1. approved \in [Pub -> Budgets] /\ rank \in Orders /\ \E p, q \in Pub : r[p] # r[q]
        BY <1>1, <1>3 DEF TypeOK, Conclusive
      <3> HIDE DEF r
      <3> QED BY <1>7, <1>8, <3>1, ReallocationFacts
    <2>2. action' = Decision("reallocate", c)
      BY <1>8 DEF Evaluate
    <2> HIDE DEF c
    <2>3. /\ action' \in Decisions({l, w}) /\ action'.kind = "reallocate" /\ action'.changes = c
          /\ action'.basis = basis
      <3>1. {l, w} \in SUBSET Pub /\ "reallocate" \in {"replace", "reallocate", "scale"}
        OBVIOUS
      <3> QED BY <1>1, <1>3, <2>1, <2>2, <3>1, DecisionType
    <2>4. TypeOK'
      <3>1. {l, w} \in SUBSET Pub
        OBVIOUS
      <3> QED BY <1>6, <2>3, <3>1
    <2>5. ActionIsDecided'
      <3>1. Shifts(action.changes, l, w)' /\ action'.basis.rates[l] < action'.basis.rates[w]
        BY <1>2, <2>1, <2>3 DEF Shifts
      <3> QED BY <2>3, <3>1 DEF ActionIsDecided
    <2>6. ScaleIsFirst' /\ ScaleIsWithin'
      BY <2>3 DEF ScaleIsFirst, ScaleIsWithin
    <2> QED BY <1>4, <2>4, <2>5, <2>6 DEF IInv
  <1>9. CASE Reallocation(r) = <<>> /\ sourced
    <2>1. action' = Decision("replace", <<>>)
      BY <1>9 DEF Evaluate
    <2>2. action' \in Decisions({}) /\ action'.kind = "replace"
      <3>1. {} \in SUBSET Pub /\ <<>> \in [{} -> [old : Nat, new : Nat]]
        OBVIOUS
      <3>2. "replace" \in {"replace", "reallocate", "scale"}
        OBVIOUS
      <3> QED BY <1>1, <1>3, <2>1, <3>1, <3>2, DecisionType
    <2>3. TypeOK'
      <3>1. {} \in SUBSET Pub
        OBVIOUS
      <3> QED BY <1>6, <2>2, <3>1
    <2>4. ActionIsDecided' /\ ScaleIsFirst' /\ ScaleIsWithin'
      BY <2>2 DEF ActionIsDecided, ScaleIsFirst, ScaleIsWithin
    <2> QED BY <1>4, <2>3, <2>4 DEF IInv
  <1>10. CASE Reallocation(r) = <<>> /\ ~sourced /\ Proposed <= Total(approved)
    <2>1. action' = NoAction
      BY <1>10 DEF Evaluate
    <2>2. TypeOK'
      BY <1>1, <1>2, <1>5, <2>1 DEF TypeOK
    <2>3. ActionIsDecided' /\ ScaleIsFirst' /\ ScaleIsWithin'
      BY <2>1 DEF NoAction, ActionIsDecided, ScaleIsFirst, ScaleIsWithin
    <2> QED BY <1>4, <2>2, <2>3 DEF IInv
  <1>11. CASE Reallocation(r) = <<>> /\ ~sourced /\ ~(Proposed <= Total(approved))
    <2> DEFINE c == ScaleChanges(Proposed)
               t == Total(approved)
    <2>1. action' = Decision("scale", c)
      BY <1>11 DEF Evaluate
    <2>2. Proposed > t
      BY <1>1, <1>11, WindowFacts, ProposedType
    <2>3. /\ Proposed \in Nat /\ Proposed <= Ceiling
          /\ \A n \in Window : history[n].kind # "scale"
          /\ Proposed - t <= Permitted(Opening(Window, t)) - Increased(Window)
          /\ Proposed <= Opening(Window, t) + Permitted(Opening(Window, t))
          /\ Proposed - t <= Permitted(t)
      BY <1>1, <2>2, ProposedFacts
    <2>4. c \in [Pub -> [old : Nat, new : Nat]] /\ New(c) = Proposed
      BY <1>1, <2>2, <2>3, ScaleFacts DEF TypeOK
    <2>5. ScaleChanges(Proposed)' = c
      BY <1>2 DEF ScaleChanges, Quota, Rest, Ahead, Proposed, Window, Increased, Increase, Opening
    <2>6. \A total \in Nat : ScaleChanges(total)' = ScaleChanges(total)
      BY <1>2 DEF ScaleChanges, Quota, Rest, Ahead
    <2> HIDE DEF c
    <2>7. action' \in Decisions(Pub) /\ action'.kind = "scale" /\ action'.changes = c
      <3>1. Pub \in SUBSET Pub /\ "scale" \in {"replace", "reallocate", "scale"}
        OBVIOUS
      <3> QED BY <1>1, <1>3, <2>1, <2>4, <3>1, DecisionType
    <2>8. TypeOK'
      <3>1. Pub \in SUBSET Pub
        OBVIOUS
      <3> QED BY <1>6, <2>7, <3>1
    <2>9. ActionIsDecided'
      <3> DEFINE x == Proposed
      <3>1. x \in Nat /\ x > t /\ x <= Ceiling /\ c = ScaleChanges(x)
        BY <2>2, <2>3 DEF c
      <3> HIDE DEF x
      <3>2. \E total \in Nat : /\ total > t /\ total <= Ceiling /\ action'.changes = ScaleChanges(total)
        BY <2>7, <3>1
      <3>3. Total(approved)' = t
        BY <1>2
      <3> HIDE DEF t
      <3> QED BY <2>6, <2>7, <3>2, <3>3 DEF ActionIsDecided
    <2>10. ScaleIsFirst'
      <3>1. New(action.changes)' = Proposed /\ Total(approved)' = t
        BY <1>2, <2>4, <2>7
      <3> QED BY <1>2, <1>5, <2>3, <3>1 DEF ScaleIsFirst
    <2>11. ScaleIsWithin'
      <3>1. Day <= 2 * Cooldown => \A m, n \in Window : m = n
        BY <1>1, <1>3, OneInWindow
      <3>2. IncreaseCap(action)' <=>
               \/ Proposed - t > Permitted(Opening(Window, t)) - Increased(Window)
               \/ Proposed > Opening(Window, t) + Permitted(Opening(Window, t))
        <4>1. New(action'.changes) = Proposed
          BY <2>4, <2>7
        <4>2. Opening(Window, t)' = Opening(Window, t) /\ Increased(Window)' = Increased(Window)
          BY <1>2, <1>5 DEF Opening, Increased, Increase
        <4>3. IncreaseCap(action)' <=>
                \/ New(action'.changes) - t > Permitted(Opening(Window, t)') - Increased(Window)'
                \/ New(action'.changes) > Opening(Window, t)' + Permitted(Opening(Window, t)')
          BY <1>2, <1>5 DEF IncreaseCap
        <4> QED BY <4>1, <4>2, <4>3
      <3>3. ~IncreaseCap(action)'
        <4> DEFINE o == Opening(Window, t)
                   i == Increased(Window)
        <4>1. t \in Nat /\ o \in Nat /\ i \in Nat /\ Permitted(o) \in Nat
          BY <1>1, WindowFacts, PermittedFacts
        <4>2. Proposed \in Nat /\ Proposed - t <= Permitted(o) - i /\ Proposed <= o + Permitted(o)
          BY <2>3
        <4>3. IncreaseCap(action)' <=> Proposed - t > Permitted(o) - i \/ Proposed > o + Permitted(o)
          BY <3>2
        <4> HIDE DEF o, i, t
        <4>4. ~(Proposed - t > Permitted(o) - i) /\ ~(Proposed > o + Permitted(o))
          BY <4>1, <4>2
        <4> QED BY <4>3, <4>4
      <3> QED BY <1>5, <3>1, <3>3 DEF ScaleIsWithin
    <2> QED BY <1>4, <2>8, <2>9, <2>10, <2>11 DEF IInv
  <1> QED BY <1>8, <1>9, <1>10, <1>11

-----------------------------------------------------------------------------
(* An execution                                                             *)

\* Budgets that change from the old to the new ones move the total by as much.
LEMMA TotalMoves ==
    ASSUME NEW a \in [Pub -> Nat], NEW D \in SUBSET Pub, NEW c \in [D -> [old : Nat, new : Nat]],
           \A p \in D : a[p] = c[p].old,
           NEW b, b = [p \in Pub |-> IF p \in D THEN c[p].new ELSE a[p]]
    PROVE  Old(c) \in Nat /\ New(c) \in Nat /\ Total(b) = Total(a) + (New(c) - Old(c))
           /\ Old(c) = SumFunctionOnSet(a, D)
  <1> DEFINE o == [p \in D |-> c[p].old]
             n == [p \in D |-> c[p].new]
             so == SumFunctionOnSet(a, D)
             sn == SumFunctionOnSet(b, D)
             rest == SumFunctionOnSet(a, Pub \ D)
  <1>1. IsFiniteSet(Pub) /\ IsFiniteSet(D) /\ IsFiniteSet(Pub \ D)
    <2>1. Pub \ D \in SUBSET Pub
      OBVIOUS
    <2> QED BY <2>1, PubFacts, FS_Subset
  <1>2. /\ \A p \in D : c[p].old \in Nat /\ c[p].new \in Nat
        /\ \A p \in Pub : a[p] \in Int /\ b[p] \in Int
        /\ \A p \in D : b[p] = c[p].new /\ b[p] \in Nat /\ a[p] \in Nat
        /\ \A p \in Pub \ D : b[p] = a[p] /\ a[p] \in Nat
    OBVIOUS
  <1>3. Old(c) = SumFunctionOnSet(o, D) /\ New(c) = SumFunctionOnSet(n, D)
    BY DEF Old, New, SumFunction
  <1>4. Old(c) = so /\ New(c) = sn
    <2>1. (\A p \in D : o[p] = a[p]) /\ \A p \in D : n[p] = b[p]
      BY <1>2
    <2> HIDE DEF o, n
    <2>2. SumFunctionOnSet(o, D) = so /\ SumFunctionOnSet(n, D) = sn
      BY <1>1, <2>1, SumEqual
    <2> QED BY <1>3, <2>2
  <1>5. so \in Nat /\ sn \in Nat /\ rest \in Nat
    BY <1>1, <1>2, SumNat
  <1>6. Total(a) = so + rest
    BY <1>1, <1>2, SumSplit DEF Total
  <1>7. Total(b) = sn + SumFunctionOnSet(b, Pub \ D)
    BY <1>1, <1>2, SumSplit DEF Total
  <1>8. SumFunctionOnSet(b, Pub \ D) = rest
    BY <1>1, <1>2, SumEqual
  <1> HIDE DEF so, sn, rest
  <1>9. sn + rest = (so + rest) + (sn - so)
    BY <1>5
  <1> QED BY <1>4, <1>5, <1>6, <1>7, <1>8, <1>9 DEF so

\* What the open action changes
LEMMA ChangeFacts ==
    ASSUME TypeOK, ActionIsDecided, action.kind \in {"reallocate", "scale"}
    PROVE  /\ DOMAIN action.changes \in SUBSET Pub
           /\ action.changes \in [DOMAIN action.changes -> [old : Nat, new : Nat]]
           /\ \A p \in DOMAIN action.changes :
                 action.changes[p].old = approved[p] /\ action.changes[p].new \in Nat \ {0}
           /\ Old(action.changes) \in Nat /\ New(action.changes) \in Nat
           /\ action.kind = "reallocate" =>
                 /\ New(action.changes) = Old(action.changes)
                 /\ Old(action.changes) <= Total(approved)
           /\ action.kind = "scale" =>
                 /\ Old(action.changes) = Total(approved) /\ New(action.changes) > Total(approved)
                 /\ New(action.changes) <= Ceiling
  <1> DEFINE c == action.changes
  <1>1. PICK ps \in SUBSET Pub : action \in Decisions(ps)
    BY DEF TypeOK, NoAction
  <1>2. c \in [ps -> [old : Nat, new : Nat]] /\ DOMAIN c = ps
    BY <1>1 DEF Decisions
  <1>3. approved \in [Pub -> Nat \ {0}] /\ approved \in [Pub -> Budgets] /\ approved \in [Pub -> Nat]
    BY PolicyAssumption DEF TypeOK
  <1>4. ASSUME \A p \in ps : c[p].old = approved[p]
        PROVE  Old(c) \in Nat /\ New(c) \in Nat /\ Old(c) <= Total(approved)
    <2>1. \E b : b = [p \in Pub |-> IF p \in ps THEN c[p].new ELSE approved[p]]
      OBVIOUS
    <2> HIDE DEF c
    <2>2. Old(c) \in Nat /\ New(c) \in Nat /\ Old(c) = SumFunctionOnSet(approved, ps)
      BY <1>2, <1>3, <1>4, <2>1, TotalMoves
    <2> QED BY <1>3, <2>2, TotalFacts
  <1>5. CASE action.kind = "reallocate"
    <2>1. PICK l, w \in Pub : Shifts(c, l, w)
      BY <1>5 DEF ActionIsDecided
    <2>2. /\ l # w /\ ps = {l, w} /\ c[l].old = approved[l] /\ c[w].old = approved[w]
          /\ c[l].new < c[l].old /\ c[l].new > 0 /\ c[l].new + c[w].new = c[l].old + c[w].old
      BY <1>2, <2>1 DEF Shifts
    <2> HIDE DEF c
    <2>3. \A p \in ps : c[p].old \in Nat /\ c[p].new \in Nat /\ c[p].old = approved[p]
      BY <1>2, <2>2
    <2>4. c[l].old \in Nat /\ c[l].new \in Nat /\ c[w].old \in Nat /\ c[w].new \in Nat
      BY <2>2, <2>3
    <2>5. c[l].new # 0 /\ c[w].new # 0
      BY <2>2, <2>4
    <2>6. \A p \in ps : c[p].old = approved[p] /\ c[p].new \in Nat \ {0}
      BY <2>2, <2>3, <2>5
    <2>7. New(c) = Old(c)
      <3> DEFINE o == [p \in ps |-> c[p].old]
                 n == [p \in ps |-> c[p].new]
      <3>1. Old(c) = SumFunctionOnSet(o, {l, w}) /\ New(c) = SumFunctionOnSet(n, {l, w})
        BY <1>2, <2>2 DEF Old, New, SumFunction
      <3>2. o[l] = c[l].old /\ o[w] = c[w].old /\ n[l] = c[l].new /\ n[w] = c[w].new
        BY <2>2
      <3>3. o[l] \in Int /\ o[w] \in Int /\ n[l] \in Int /\ n[w] \in Int
        BY <2>4, <3>2
      <3> HIDE DEF o, n
      <3>4. SumFunctionOnSet(o, {l, w}) = o[l] + o[w] /\ SumFunctionOnSet(n, {l, w}) = n[l] + n[w]
        BY <2>2, <3>3, SumPair
      <3> QED BY <2>2, <3>1, <3>2, <3>4
    <2> QED BY <1>2, <1>4, <1>5, <2>3, <2>6, <2>7 DEF c
  <1>6. CASE action.kind = "scale"
    <2>1. PICK total \in Nat : total > Total(approved) /\ total <= Ceiling /\ c = ScaleChanges(total)
      BY <1>6 DEF ActionIsDecided
    <2> HIDE DEF c
    <2>2. /\ c \in [Pub -> [old : Nat, new : Nat]] /\ Old(c) = Total(approved) /\ New(c) = total
          /\ \A p \in Pub : c[p].old = approved[p] /\ c[p].new >= c[p].old
      BY <1>3, <2>1, ScaleFacts
    <2>3. ps = Pub
      BY <1>2, <2>2
    <2>4. \A p \in Pub : c[p].new \in Nat \ {0}
      <3>1. \A p \in Pub : c[p].new \in Nat /\ approved[p] \in Nat \ {0}
        BY <1>3, <2>2
      <3> QED BY <2>2, <3>1
    <2>5. Old(c) \in Nat
      BY <1>3, <2>2, TotalFacts
    <2> QED BY <1>2, <1>6, <2>1, <2>2, <2>3, <2>4, <2>5 DEF c
  <1> QED BY <1>5, <1>6

\* The changes of a day have one scale at most, so they increase the budgets by
\* what one is permitted.
LEMMA WindowIncrease ==
    ASSUME TypeOK, HistoryIsExplained, HistoryIsSpaced
    PROVE  Increased(Window) <= Permitted(Total(approved))
  <1> DEFINE f == Inc(history)
  <1>1. Window \in SUBSET DOMAIN history /\ IsFiniteSet(Window) /\ Increased(Window) = SumFunctionOnSet(f, Window)
    BY WindowFacts, HistoryType, IncFacts
  <1>2. Permitted(Total(approved)) \in Nat /\ Total(approved) \in Nat
    BY WindowFacts, PermittedFacts
  <1>3. ASSUME NEW n \in DOMAIN history
        PROVE  /\ history[n].old \in Nat /\ history[n].new \in Nat /\ history[n].at \in Nat
               /\ history[n].at <= now /\ history[n].kind \in {"reallocate", "scale"}
               /\ f[n] = (IF history[n].new > history[n].old THEN history[n].new - history[n].old ELSE 0)
               /\ f[n] \in Nat
    <2>1. history[n] \in Entry /\ history[n].at <= now /\ history \in Seq(Entry)
      BY HistoryType
    <2>2. /\ f[n] = (IF history[n].new > history[n].old THEN history[n].new - history[n].old ELSE 0)
          /\ f[n] \in Nat
      BY <2>1, IncFacts
    <2> HIDE DEF f
    <2> QED BY <2>1, <2>2 DEF Entry
  <1> HIDE DEF f
  <1>4. \A n \in DOMAIN history : history[n].kind = "reallocate" => f[n] = 0
    BY <1>3 DEF HistoryIsExplained
  <1>5. ASSUME NEW n \in DOMAIN history, history[n].kind = "scale" PROVE f[n] <= Permitted(Total(approved))
    <2>1. history[n].new - history[n].old <= Permitted(Total(approved))
      BY <1>5 DEF HistoryIsExplained
    <2> QED BY <1>2, <1>3, <2>1
  <1>6. CASE \A n \in Window : history[n].kind = "reallocate"
    <2>1. \A n \in Window : f[n] = 0
      BY <1>1, <1>4, <1>6
    <2>2. SumFunctionOnSet(f, Window) = 0
      BY <1>1, <2>1, SumZero
    <2> QED BY <1>1, <1>2, <2>2
  <1>7. CASE ~\A n \in Window : history[n].kind = "reallocate"
    <2>1. PICK m \in Window : history[m].kind = "scale"
      BY <1>1, <1>3, <1>7
    <2>2. ASSUME NEW n \in Window, history[n].kind = "scale" PROVE n = m
      <3>1. ASSUME NEW i \in Window, NEW k \in Window, i < k,
                   history[i].kind = "scale", history[k].kind = "scale"
            PROVE  FALSE
        <4>1. i \in 1 .. k - 1
          BY <1>1, <3>1, HistoryType
        <4>2. history[k].at - history[i].at >= Day
          BY <1>1, <3>1, <4>1 DEF HistoryIsSpaced
        <4>3. history[i].at > now - Day
          BY DEF Window
        <4>4. /\ history[i].at \in Nat /\ history[k].at \in Nat /\ history[k].at <= now
              /\ now \in Nat /\ Day \in Nat
          BY <1>1, <1>3, HistoryType, PolicyAssumption
        <4> QED BY <4>2, <4>3, <4>4
      <3>2. m \in Nat /\ n \in Nat
        BY <1>1, HistoryType
      <3> QED BY <2>1, <2>2, <3>1, <3>2
    <2>3. \A n \in Window \ {m} : f[n] = 0
      BY <1>1, <1>3, <1>4, <2>2
    <2>4. SumFunctionOnSet(f, Window) = f[m] + SumFunctionOnSet(f, Window \ {m})
      <3>1. \A n \in Window : f[n] \in Int
        BY <1>1, <1>3
      <3> QED BY <1>1, <3>1, SumRemove
    <2>5. IsFiniteSet(Window \ {m})
      BY <1>1, FS_RemoveElement
    <2>6. SumFunctionOnSet(f, Window \ {m}) = 0
      BY <2>3, <2>5, SumZero
    <2>7. f[m] <= Permitted(Total(approved)) /\ f[m] \in Nat
      BY <1>1, <1>3, <1>5, <2>1
    <2> QED BY <1>1, <1>2, <2>4, <2>6, <2>7
  <1> QED BY <1>6, <1>7

\* A success: the budgets are written and recorded.
Succeeds ==
    /\ action # NoAction /\ ~Refused(action) /\ ~Drifted(action)
    /\ live' = [p \in Pub |-> IF p \in DOMAIN action.changes THEN action.changes[p].new ELSE live[p]]
    /\ history' = Append(history, [kind |-> action.kind, at |-> now,
                                   old |-> Old(action.changes), new |-> New(action.changes)])
    /\ action' = NoAction /\ last' = "succeeded"
    /\ UNCHANGED <<now, campaignVars, basis, edits>>

\* An execution that is recorded: the budgets, the history and the action.
LEMMA SuccessHolds == IInv /\ Succeeds => IInv'
  <1> SUFFICES ASSUME IInv, Succeeds PROVE IInv'
    OBVIOUS
  <1>1. /\ TypeOK /\ ActionIsDecided /\ ScaleIsFirst /\ HistoryIsExplained /\ HistoryIsSpaced
        /\ DaysBounded /\ ScaleIsWithin /\ LedgerExplainsLive
    BY DEF IInv
  <1>2. /\ UNCHANGED <<now, approved, rank, sourced, basis, edits>>
        /\ action # NoAction /\ action' = NoAction /\ last' = "succeeded"
    BY DEF Succeeds, campaignVars
  <1> DEFINE c == action.changes
             kind == action.kind
             t == Total(approved)
             h == history
             n == Len(h) + 1
             e == [kind |-> kind, at |-> now, old |-> Old(c), new |-> New(c)]
             g == Append(h, e)
             inc == IF New(c) > Old(c) THEN New(c) - Old(c) ELSE 0
  <1>3. kind \in {"reallocate", "scale"}
    <2>1. kind \in {"replace", "reallocate", "scale"}
      BY <1>1, <1>2 DEF TypeOK, Decisions
    <2>2. kind # "replace"
      BY DEF Succeeds, Refused, SameBasis
    <2> QED BY <2>1, <2>2
  <1>4. ~Cooling /\ (kind = "scale" => ~IncreaseCap(action)) /\ \A p \in DOMAIN c : live[p] = c[p].old
    BY DEF Succeeds, Refused, Drifted
  <1>5. /\ DOMAIN c \in SUBSET Pub /\ c \in [DOMAIN c -> [old : Nat, new : Nat]]
        /\ \A p \in DOMAIN c : c[p].old = approved[p] /\ c[p].new \in Nat \ {0}
        /\ Old(c) \in Nat /\ New(c) \in Nat
        /\ kind = "reallocate" => New(c) = Old(c) /\ Old(c) <= t
        /\ kind = "scale" => Old(c) = t /\ New(c) > t /\ New(c) <= Ceiling
    BY <1>1, <1>3, ChangeFacts
  <1>6. h \in Seq(Entry) /\ now \in Nat /\ e \in Entry /\ h \in Seq(Until(now)) /\ e \in Until(now)
    <2>1. h \in Seq(Entry) /\ now \in Nat
      BY <1>1, HistoryType
    <2>2. h \in Seq(Until(now))
      BY <1>1 DEF TypeOK, Until
    <2>3. now \in 0 .. now
      BY <2>1
    <2> HIDE DEF c, kind, h
    <2> QED BY <1>3, <1>5, <2>1, <2>2, <2>3 DEF Entry, Until
  <1>7. history' = g
    BY DEF Succeeds
  <1>8. e.kind = kind /\ e.at = now /\ e.old = Old(c) /\ e.new = New(c)
    OBVIOUS
  <1>9. /\ t \in Nat \ {0} /\ Permitted(t) \in Nat /\ Window \in SUBSET DOMAIN h
        /\ Increased(Window) = SumFunctionOnSet(Inc(h), Window) /\ Increased(Window) \in Nat
        /\ Window # {} => Min(Window) \in Window /\ \A m \in Window : Min(Window) <= m
        /\ Opening(Window, t) \in Nat /\ Opening(Window, t) <= t
        /\ Permitted(Opening(Window, t)) \in Nat /\ Permitted(Opening(Window, t)) <= Permitted(t)
    <2>1. /\ t \in Nat \ {0} /\ Window \in SUBSET DOMAIN h
          /\ Increased(Window) = SumFunctionOnSet(Inc(h), Window) /\ Increased(Window) \in Nat
          /\ Window # {} => Min(Window) \in Window /\ \A m \in Window : Min(Window) <= m
          /\ Opening(Window, t) \in Nat /\ Opening(Window, t) <= t
      BY <1>1, WindowFacts
    <2> HIDE DEF t, h
    <2> QED BY <2>1, PermittedFacts
  <1> HIDE DEF e
  <1>10. /\ g \in Seq(Entry) /\ DOMAIN g = DOMAIN h \cup {n} /\ n \notin DOMAIN h /\ n \in Nat
         /\ g[n] = e /\ \A m \in DOMAIN h : g[m] = h[m] /\ m < n /\ m \in Nat
         /\ \A m \in DOMAIN h : DayOf(g, m) = DayOf(h, m) /\ DayOf(h, m) \in SUBSET DOMAIN h
         /\ \A w \in SUBSET DOMAIN h :
               /\ SumFunctionOnSet(Inc(g), w) = SumFunctionOnSet(Inc(h), w)
               /\ SumFunctionOnSet(Inc(g), w \cup {n}) = SumFunctionOnSet(Inc(h), w) + inc
    <2>1. inc = IF e.new > e.old THEN e.new - e.old ELSE 0
      BY <1>8
    <2>2. h \in Seq(Entry) /\ e \in Entry /\ g = Append(h, e) /\ n = Len(h) + 1
      BY <1>6
    <2> HIDE DEF inc, g, h, n, c, kind, t
    <2>3. Added(h, e, g, n)
      BY <2>2, IncAppend
    <2> QED BY <2>1, <2>3 DEF Added
  <1>11. \A m \in DOMAIN h : /\ h[m].at \in Nat /\ h[m].at <= now /\ h[m].old \in Nat /\ h[m].new \in Nat
                             /\ h[m].kind \in {"reallocate", "scale"}
    <2>1. \A m \in DOMAIN h : h[m] \in Entry /\ h[m].at <= now
      BY <1>1, HistoryType
    <2> HIDE DEF h
    <2> QED BY <2>1 DEF Entry
  <1>12. DOMAIN h = 1 .. Len(h) /\ Len(h) \in Nat
    BY <1>1, HistoryType
  <1>13. Day \in Nat \ {0} /\ Cooldown \in Nat \ {0}
    BY PolicyAssumption
  <1>14. /\ inc \in Nat /\ inc = New(c) - Old(c)
         /\ kind = "reallocate" => inc = 0
         /\ kind = "scale" => inc = New(c) - t
    <2> HIDE DEF c, kind, t
    <2> QED BY <1>3, <1>5, <1>9
  <1> HIDE DEF g, h, n, inc
  \* The window and the new entry are the day that it ends.
  <1>15. DayOf(g, n) = Window \cup {n}
    <2>1. Window = {m \in DOMAIN h : h[m].at > now - Day}
      BY DEF Window, h
    <2>2. 1 .. n = DOMAIN h \cup {n}
      BY <1>12 DEF n
    <2>3. \A m \in DOMAIN h : g[m].at = h[m].at
      BY <1>10
    <2>4. g[n].at = now /\ now > now - Day
      BY <1>6, <1>8, <1>10, <1>13
    <2> QED BY <2>1, <2>2, <2>3, <2>4 DEF DayOf
  <1>16. /\ Window = {} => Min(DayOf(g, n)) = n
         /\ Window # {} => Min(DayOf(g, n)) = Min(Window)
    <2>1. Window \cup {n} \in SUBSET (1 .. n)
      BY <1>9, <1>12 DEF n
    <2>2. Min(Window \cup {n}) \in Window \cup {n} /\ \A m \in Window \cup {n} : Min(Window \cup {n}) <= m
      BY <1>10, <2>1, MinOfSome
    <2>3. CASE Window = {}
      BY <1>15, <2>2, <2>3
    <2>4. CASE Window # {}
      <3>1. Min(Window) \in Window /\ Min(Window) < n /\ \A m \in Window : Min(Window) <= m /\ m \in Nat
        BY <1>9, <1>10, <2>4
      <3> DEFINE x == Min(Window \cup {n})
      <3>2. x \in Window \cup {n} /\ x <= Min(Window) /\ x \in Nat /\ Min(Window) \in Nat
        BY <1>10, <2>2, <3>1
      <3>3. x # n
        <4> HIDE DEF x
        <4> QED BY <1>10, <3>1, <3>2
      <3>4. Min(Window) <= x
        BY <3>1, <3>2, <3>3
      <3>5. x = Min(Window)
        <4> HIDE DEF x
        <4> QED BY <3>2, <3>4
      <3> QED BY <1>15, <2>4, <3>5
    <2> QED BY <2>3, <2>4
  <1>17. TypeOK'
    <2>1. history' \in Seq(Until(now))
      BY <1>6, <1>7 DEF g, h
    <2>2. live' \in [Pub -> Nat \ {0}]
      <3>1. live \in [Pub -> Nat \ {0}]
        BY <1>1 DEF TypeOK
      <3>2. live' = [p \in Pub |-> IF p \in DOMAIN c THEN c[p].new ELSE live[p]]
        BY DEF Succeeds
      <3> HIDE DEF c
      <3> QED BY <1>5, <3>1, <3>2
    <2>3. Basis(BOOLEAN)' = Basis(BOOLEAN)
      BY <1>2 DEF Basis
    <2>4. history' \in Seq([kind : {"reallocate", "scale"}, at : 0 .. now', old : Nat, new : Nat])
      BY <1>2, <2>1 DEF Until
    <2> QED BY <1>1, <1>2, <2>2, <2>3, <2>4 DEF TypeOK
  <1>18. ActionIsDecided' /\ ScaleIsFirst' /\ ScaleIsWithin'
    BY <1>2 DEF NoAction, ActionIsDecided, ScaleIsFirst, ScaleIsWithin
  <1>19. HistoryIsExplained'
    <2>1. ASSUME NEW m \in DOMAIN g
          PROVE  /\ g[m].kind = "reallocate" => g[m].new = g[m].old /\ g[m].old <= t
                 /\ g[m].kind = "scale" => g[m].old = t /\ g[m].new - g[m].old <= Permitted(t)
      <3>1. CASE m \in DOMAIN h
        BY <1>1, <1>10, <3>1 DEF HistoryIsExplained, h
      <3>2. CASE m = n
        <4>1. kind = "scale" => New(c) - t <= Permitted(t)
          BY <1>1 DEF ScaleIsFirst
        <4> HIDE DEF c, kind, t
        <4> QED BY <1>5, <1>8, <1>10, <3>2, <4>1
      <3> QED BY <1>10, <2>1, <3>1, <3>2
    <2> QED BY <1>2, <1>7, <2>1 DEF HistoryIsExplained
  <1>20. HistoryIsSpaced'
    <2>1. ASSUME NEW k \in DOMAIN g, NEW m \in 1 .. k - 1
          PROVE  /\ g[k].at - g[m].at >= Cooldown
                 /\ g[k].kind = "scale" /\ g[m].kind = "scale" => g[k].at - g[m].at >= Day
      <3>1. m \in DOMAIN h
        BY <1>10, <1>12 DEF n
      <3>2. CASE k \in DOMAIN h
        BY <1>1, <1>10, <3>1, <3>2 DEF HistoryIsSpaced, h
      <3>3. CASE k = n
        <4>1. g[k].at = now /\ g[k].kind = kind /\ g[m] = h[m]
          BY <1>8, <1>10, <3>1, <3>3
        <4>2. ~(h[m].at > now - Cooldown)
          BY <1>4, <3>1 DEF Cooling, h
        <4>3. kind = "scale" /\ h[m].kind = "scale" => ~(h[m].at > now - Day)
          BY <1>1, <3>1 DEF ScaleIsFirst, Window, h
        <4> HIDE DEF kind
        <4>4. h[m].at \in Nat /\ now \in Nat
          BY <1>6, <1>11, <3>1
        <4> QED BY <1>13, <4>1, <4>2, <4>3, <4>4
      <3> QED BY <1>10, <2>1, <3>2, <3>3
    <2> QED BY <1>2, <1>7, <2>1 DEF HistoryIsSpaced
  <1>21. DaysBounded'
    <2> DEFINE s(m) == SumFunctionOnSet(Inc(g), DayOf(g, m))
    <2>1. ASSUME NEW m \in DOMAIN h
          PROVE  /\ s(m) <= Permitted(t)
                 /\ Day <= 2 * Cooldown => s(m) <= Permitted(g[Min(DayOf(g, m))].old)
      <3>1. DayOf(g, m) = DayOf(h, m) /\ DayOf(h, m) \in SUBSET DOMAIN h /\ s(m) = SumFunctionOnSet(Inc(h), DayOf(h, m))
        BY <1>10
      <3>2. /\ SumFunctionOnSet(Inc(h), DayOf(h, m)) <= Permitted(t)
            /\ Day <= 2 * Cooldown =>
                  SumFunctionOnSet(Inc(h), DayOf(h, m)) <= Permitted(h[Min(DayOf(h, m))].old)
        BY <1>1 DEF DaysBounded, h
      <3>3. m \in DayOf(h, m)
        <4>1. m \in 1 .. m /\ h[m].at > h[m].at - Day
          BY <1>10, <1>11, <1>12, <1>13
        <4> QED BY <4>1 DEF DayOf
      <3>4. Min(DayOf(h, m)) \in DOMAIN h
        BY <1>1, <3>1, <3>3, WindowFacts DEF h
      <3>5. g[Min(DayOf(h, m))] = h[Min(DayOf(h, m))]
        BY <1>10, <3>4
      <3> HIDE DEF t
      <3> QED BY <3>1, <3>2, <3>5
    <2>2. s(n) = Increased(Window) + inc
      BY <1>9, <1>10, <1>15
    <2>3. s(n) <= Permitted(t)
      <3>1. CASE kind = "reallocate"
        <4>1. Increased(Window) <= Permitted(t)
          BY <1>1, WindowIncrease
        <4> HIDE DEF s, t, kind
        <4> QED BY <1>9, <1>14, <2>2, <3>1, <4>1
      <3>2. CASE kind = "scale"
        <4>1. ~(New(c) - t > Permitted(Opening(Window, t)) - Increased(Window))
          BY <1>4, <3>2 DEF IncreaseCap
        <4> HIDE DEF s, t, kind, c
        <4> DEFINE o == Permitted(Opening(Window, t))
                   i == Increased(Window)
                   x == New(c)
        <4>2. x - t <= o - i /\ o \in Nat /\ i \in Nat /\ x \in Nat /\ inc = x - t /\ o <= Permitted(t)
          BY <1>5, <1>9, <1>14, <3>2, <4>1
        <4>3. s(n) = i + inc
          BY <2>2
        <4> HIDE DEF o, i, x
        <4> QED BY <1>9, <4>2, <4>3
      <3> QED BY <1>3, <3>1, <3>2
    <2>4. ASSUME Day <= 2 * Cooldown PROVE s(n) <= Permitted(g[Min(DayOf(g, n))].old)
      <3> DEFINE first == g[Min(DayOf(g, n))].old
      <3>1. CASE kind = "scale"
        <4>1. ~(New(c) - t > Permitted(Opening(Window, t)) - Increased(Window))
          BY <1>4, <3>1 DEF IncreaseCap
        <4>2. first = Opening(Window, t)
          <5>1. CASE Window = {}
            BY <1>5, <1>8, <1>10, <1>16, <3>1, <5>1 DEF Opening
          <5>2. CASE Window # {}
            <6>1. Min(Window) \in DOMAIN h
              BY <1>9, <5>2
            <6> QED BY <1>10, <1>16, <5>2, <6>1 DEF Opening, h
          <5> QED BY <5>1, <5>2
        <4> HIDE DEF s, t, kind, c, first
        <4> DEFINE o == Permitted(Opening(Window, t))
                   i == Increased(Window)
                   x == New(c)
        <4>3. x - t <= o - i /\ o \in Nat /\ i \in Nat /\ x \in Nat /\ inc = x - t
          BY <1>5, <1>9, <1>14, <3>1, <4>1
        <4>4. s(n) = i + inc /\ Permitted(first) = o
          BY <2>2, <4>2
        <4> HIDE DEF o, i, x
        <4>5. s(n) <= Permitted(first)
          BY <1>9, <4>3, <4>4
        <4> QED BY <4>5 DEF first
      <3>2. CASE kind = "reallocate"
        <4>1. s(n) = Increased(Window)
          <5> HIDE DEF s
          <5> QED BY <1>9, <1>14, <2>2, <3>2
        <4>2. \A m, k \in Window : m = k
          BY <1>1, <1>4, <2>4, OneInWindow
        <4>3. CASE Window = {}
          <5>1. first = Old(c)
            BY <1>8, <1>10, <1>16, <4>3
          <5>2. Permitted(first) \in Nat
            <6> HIDE DEF first
            <6> QED BY <1>5, <5>1, PermittedFacts
          <5>3. Increased(Window) = 0
            BY <1>9, <4>3, FS_EmptySet, SumStep
          <5> HIDE DEF s, first
          <5>4. s(n) <= Permitted(first)
            BY <4>1, <5>2, <5>3
          <5> QED BY <5>4 DEF first
        <4>4. CASE Window # {}
          <5> DEFINE m == Min(Window)
          <5>1. m \in Window /\ m \in DOMAIN h /\ Window = {m}
            BY <1>9, <4>2, <4>4
          <5>2. first = h[m].old
            BY <1>10, <1>16, <4>4, <5>1
          <5> HIDE DEF m
          <5>3. /\ Inc(h)[m] = (IF h[m].new > h[m].old THEN h[m].new - h[m].old ELSE 0)
                /\ Inc(h)[m] \in Nat
            BY <1>6, <5>1, IncFacts
          <5>4. Increased(Window) = Inc(h)[m]
            <6>1. SumFunctionOnSet(Inc(h), {m}) = Inc(h)[m] + SumFunctionOnSet(Inc(h), {m} \ {m})
              <7>1. IsFiniteSet({m})
                BY FS_Singleton
              <7>2. m \in {m} /\ \A y \in {m} : Inc(h)[y] \in Int
                BY <5>3
              <7> QED BY <7>1, <7>2, SumRemove
            <6>2. SumFunctionOnSet(Inc(h), {m} \ {m}) = 0
              <7>1. {m} \ {m} = {}
                OBVIOUS
              <7> QED BY <7>1, FS_EmptySet, SumStep
            <6> QED BY <1>9, <5>1, <5>3, <6>1, <6>2
          <5>5. Permitted(h[m].old) \in Nat
            BY <1>11, <5>1, PermittedFacts
          <5>6. Inc(h)[m] <= Permitted(h[m].old)
            <6>1. /\ h[m].kind = "reallocate" => h[m].new = h[m].old
                  /\ h[m].kind = "scale" => h[m].old = t /\ h[m].new - h[m].old <= Permitted(t)
              BY <1>1, <5>1 DEF HistoryIsExplained, h
            <6>2. h[m].new \in Nat /\ h[m].old \in Nat /\ h[m].kind \in {"reallocate", "scale"}
              BY <1>11, <5>1
            <6> HIDE DEF t
            <6> QED BY <5>3, <5>5, <6>1, <6>2
          <5> HIDE DEF s, first
          <5>7. s(n) <= Permitted(first)
            BY <4>1, <5>2, <5>4, <5>6
          <5> QED BY <5>7 DEF first
        <4> QED BY <4>3, <4>4
      <3> QED BY <1>3, <3>1, <3>2
    <2>5. \A m \in DOMAIN g : /\ s(m) <= Permitted(t)
                              /\ Day <= 2 * Cooldown => s(m) <= Permitted(g[Min(DayOf(g, m))].old)
      <3> HIDE DEF s, t
      <3> QED BY <1>10, <2>1, <2>3, <2>4
    <2> QED BY <1>2, <1>7, <2>5 DEF DaysBounded
  <1>22. LedgerExplainsLive'
    <2> SUFFICES ASSUME edits = 0 PROVE Total(live') = Total(approved') + Increased(DOMAIN history)'
      BY <1>2 DEF LedgerExplainsLive
    <2>1. Total(live) = t + SumFunctionOnSet(Inc(h), DOMAIN h)
      BY <1>1 DEF LedgerExplainsLive, Increased, Increase, Inc, h
    <2>2. Total(live') = Total(live) + (New(c) - Old(c))
      <3>1. live \in [Pub -> Nat]
        BY <1>1 DEF TypeOK
      <3>2. live' = [p \in Pub |-> IF p \in DOMAIN c THEN c[p].new ELSE live[p]]
        BY DEF Succeeds
      <3> DEFINE D == DOMAIN c
      <3>3. /\ D \in SUBSET Pub /\ c \in [D -> [old : Nat, new : Nat]]
            /\ \A p \in D : live[p] = c[p].old
            /\ live' = [p \in Pub |-> IF p \in D THEN c[p].new ELSE live[p]]
        BY <1>4, <1>5, <3>2
      <3> DEFINE b == live'
      <3>4. b = [p \in Pub |-> IF p \in D THEN c[p].new ELSE live[p]]
        BY <3>3
      <3> HIDE DEF c, D, b
      <3>5. Total(b) = Total(live) + (New(c) - Old(c))
        BY <3>1, <3>3, <3>4, TotalMoves
      <3> QED BY <3>5 DEF b
    <2>3. Increased(DOMAIN history)' = SumFunctionOnSet(Inc(h), DOMAIN h) + inc
      <3>1. Increased(DOMAIN history)' = SumFunctionOnSet(Inc(g), DOMAIN g)
        BY <1>7 DEF Increased, Increase, Inc
      <3> QED BY <1>10, <3>1
    <2>4. SumFunctionOnSet(Inc(h), DOMAIN h) \in Nat
      BY <1>6, IncFacts
    <2> DEFINE a == SumFunctionOnSet(Inc(h), DOMAIN h)
               x == Total(live')
               y == Increased(DOMAIN history)'
    <2>5. x = (t + a) + inc /\ y = a + inc
      BY <1>14, <2>1, <2>2, <2>3
    <2> HIDE DEF a, x, y, t
    <2>6. x = t + y
      BY <1>9, <1>14, <2>4, <2>5 DEF a
    <2> QED BY <1>2, <2>6 DEF x, y, t
  <1> QED BY <1>17, <1>18, <1>19, <1>20, <1>21, <1>22 DEF IInv

\* An execution succeeds, ends the action or blocks it.
LEMMA ExecuteHolds == IInv /\ Execute => IInv'
  <1> SUFFICES ASSUME IInv, Execute PROVE IInv'
    OBVIOUS
  <1>1. /\ TypeOK /\ ActionIsDecided /\ ScaleIsFirst /\ HistoryIsExplained /\ HistoryIsSpaced
        /\ DaysBounded /\ ScaleIsWithin /\ LedgerExplainsLive
    BY DEF IInv
  <1>2. UNCHANGED <<now, approved, rank, sourced, basis, edits>> /\ action # NoAction
    BY DEF Execute, campaignVars
  <1>3. Basis(BOOLEAN)' = Basis(BOOLEAN) /\ \A ps \in SUBSET Pub : Decisions(ps)' = Decisions(ps)
    BY <1>2 DEF Basis, Decisions
  <1>4. CASE action' = NoAction /\ UNCHANGED <<live, history>> /\ last' \in {"cancelled", "drifted"}
    <2>1. TypeOK'
      BY <1>1, <1>2, <1>3, <1>4 DEF TypeOK
    <2>2. ActionIsDecided' /\ ScaleIsFirst' /\ ScaleIsWithin'
      BY <1>4 DEF NoAction, ActionIsDecided, ScaleIsFirst, ScaleIsWithin
    <2> QED BY <1>1, <1>2, <1>4, <2>1, <2>2, HistoryKept, LedgerKept DEF IInv
  <1>5. CASE /\ action.kind = "reallocate" /\ action' = [action EXCEPT !.status = "blocked"]
             /\ last' = "blocked" /\ UNCHANGED <<live, history>>
    <2>1. PICK ps \in SUBSET Pub : action \in Decisions(ps)
      BY <1>1, <1>2 DEF TypeOK
    <2>2. /\ action' \in Decisions(ps) /\ action'.kind = "reallocate"
          /\ action'.changes = action.changes /\ action'.basis = action.basis
      BY <1>5, <2>1 DEF Decisions
    <2>3. TypeOK'
      BY <1>1, <1>2, <1>3, <1>5, <2>2 DEF TypeOK
    <2>4. ActionIsDecided'
      <3>1. PICK l, w \in Pub : Shifts(action.changes, l, w) /\ action.basis.rates[l] < action.basis.rates[w]
        BY <1>1, <1>5 DEF ActionIsDecided
      <3>2. Shifts(action.changes, l, w)'
        BY <1>2, <2>2, <3>1 DEF Shifts
      <3> QED BY <2>2, <3>1, <3>2 DEF ActionIsDecided
    <2>5. ScaleIsFirst' /\ ScaleIsWithin'
      BY <2>2 DEF ScaleIsFirst, ScaleIsWithin
    <2> QED BY <1>1, <1>2, <1>5, <2>3, <2>4, <2>5, HistoryKept, LedgerKept DEF IInv
  <1>6. CASE Succeeds
    BY <1>6, SuccessHolds
  <1> QED BY <1>4, <1>5, <1>6 DEF Execute, Cancel, Succeeds

\* Nothing changes between the steps.
LEMMA StutterHolds == IInv /\ UNCHANGED vars => IInv'
  <1> SUFFICES ASSUME IInv, UNCHANGED vars PROVE IInv'
    OBVIOUS
  <1>1. /\ TypeOK /\ ActionIsDecided /\ ScaleIsFirst /\ HistoryIsExplained /\ HistoryIsSpaced
        /\ DaysBounded /\ ScaleIsWithin /\ LedgerExplainsLive
    BY DEF IInv
  <1>2. UNCHANGED <<now, approved, rank, sourced, live, basis, action, history, last, edits>>
    BY DEF vars, campaignVars
  <1>3. Basis(BOOLEAN)' = Basis(BOOLEAN) /\ \A ps \in SUBSET Pub : Decisions(ps)' = Decisions(ps)
    BY <1>2 DEF Basis, Decisions
  <1>4. TypeOK'
    BY <1>1, <1>2, <1>3 DEF TypeOK
  <1> QED BY <1>1, <1>2, <1>4, HistoryKept, LedgerKept, DecidedKept, ScaleKept DEF IInv

-----------------------------------------------------------------------------
(* The theorems                                                             *)

\* IInv holds in every state: nothing that is decided, written or recorded
\* leaves it.
THEOREM Invariance == Spec => []IInv
  <1>1. Init => IInv
    BY InitHolds
  <1>2. IInv /\ [Next]_vars => IInv'
    <2> SUFFICES ASSUME IInv, [Next]_vars PROVE IInv'
      OBVIOUS
    <2>1. CASE Tick
      BY <2>1, TickHolds
    <2>2. CASE Collect
      BY <2>2, CollectHolds
    <2>3. CASE FounderEdits
      BY <2>3, EditHolds
    <2>4. CASE Evaluate
      BY <2>4, EvaluateHolds
    <2>5. CASE Execute
      BY <2>5, ExecuteHolds
    <2>6. CASE UNCHANGED vars
      BY <2>6, StutterHolds
    <2> QED BY <2>1, <2>2, <2>3, <2>4, <2>5, <2>6 DEF Next
  <1> QED BY <1>1, <1>2, PTL DEF Spec

\* Every state is well typed: in particular no budget that is written is zero,
\* and both orders of the publications always name one (_allocation,
\* _compare_variants).
THEOREM TypeCorrect == Spec => []TypeOK
  <1>1. IInv => TypeOK
    BY DEF IInv
  <1> QED BY <1>1, Invariance, PTL

\* Largest remainders hand out the new total to the cent, lower nobody and keep
\* to the shares, for any number of publications (_scale_allocations).
THEOREM ScaleHandsOutShares == Spec => []ScaleIsProportional
  <1>1. IInv => ScaleIsProportional
    <2> SUFFICES ASSUME IInv, action.kind = "scale"
                 PROVE  LET total == New(action.changes)
                        IN  /\ Old(action.changes) = Total(approved)
                            /\ total > Total(approved) /\ total <= Ceiling
                            /\ \A p \in DOMAIN action.changes :
                                  LET old == action.changes[p].old
                                      new == action.changes[p].new
                                  IN  /\ new >= old
                                      /\ new * Total(approved) - old * total < Total(approved)
                                      /\ old * total - new * Total(approved) < Total(approved)
      BY DEF ScaleIsProportional
    <2> DEFINE c == action.changes
    <2>1. PICK total \in Nat : total > Total(approved) /\ total <= Ceiling /\ c = ScaleChanges(total)
      BY DEF IInv, ActionIsDecided
    <2>2. approved \in [Pub -> Budgets]
      BY DEF IInv, TypeOK
    <2> HIDE DEF c
    <2>3. /\ c \in [Pub -> [old : Nat, new : Nat]] /\ Old(c) = Total(approved) /\ New(c) = total
          /\ \A p \in Pub :
                /\ c[p].new >= c[p].old
                /\ c[p].new * Total(approved) - c[p].old * total < Total(approved)
                /\ c[p].old * total - c[p].new * Total(approved) < Total(approved)
      BY <2>1, <2>2, ScaleFacts
    <2>4. DOMAIN c = Pub
      BY <2>3
    <2> QED BY <2>1, <2>3, <2>4 DEF c
  <1> QED BY <1>1, Invariance, PTL

\* Whatever the ties and the orders of ids, a reallocation takes from a lower
\* rate, gives to a higher one and keeps the sum (_allocation).
THEOREM MoneyGoesToTheBetter == Spec => []MoneyFollowsEvidence
  <1>1. IInv => MoneyFollowsEvidence
    <2> SUFFICES ASSUME IInv, action.kind = "reallocate"
                 PROVE  /\ Old(action.changes) = New(action.changes)
                        /\ \A p, q \in DOMAIN action.changes :
                              /\ action.changes[p].new > action.changes[p].old
                              /\ action.changes[q].new < action.changes[q].old
                              => action.basis.rates[p] > action.basis.rates[q]
      BY DEF MoneyFollowsEvidence
    <2> DEFINE c == action.changes
               r == action.basis.rates
    <2>1. TypeOK /\ ActionIsDecided
      BY DEF IInv
    <2>2. /\ c \in [DOMAIN c -> [old : Nat, new : Nat]] /\ Old(c) = New(c)
      BY <2>1, ChangeFacts
    <2>3. PICK l, w \in Pub : Shifts(c, l, w) /\ r[l] < r[w]
      BY <2>1 DEF ActionIsDecided
    <2>4. /\ DOMAIN c = {l, w} /\ c[l].new < c[l].old /\ c[l].new + c[w].new = c[l].old + c[w].old
      BY <2>3 DEF Shifts
    <2>5. r \in [Pub -> Rates] /\ Rates \subseteq Nat
      <3>1. PICK ps \in SUBSET Pub : action \in Decisions(ps)
        BY <2>1 DEF TypeOK, NoAction
      <3>2. action.basis \in Basis({TRUE})
        BY <3>1 DEF Decisions
      <3> QED BY <3>2, PolicyAssumption DEF Basis
    <2> HIDE DEF c, r
    <2>6. c[l].new \in Nat /\ c[l].old \in Nat /\ c[w].new \in Nat /\ c[w].old \in Nat
      <3>1. l \in DOMAIN c /\ w \in DOMAIN c
        BY <2>4
      <3>2. c[l] \in [old : Nat, new : Nat] /\ c[w] \in [old : Nat, new : Nat]
        BY <2>2, <3>1
      <3> QED BY <3>2
    <2>7. ~(c[l].new > c[l].old) /\ ~(c[w].new < c[w].old)
      BY <2>4, <2>6
    <2>8. r[l] \in Nat /\ r[w] \in Nat
      BY <2>5
    <2>9. ASSUME NEW p \in DOMAIN c, NEW q \in DOMAIN c, c[p].new > c[p].old, c[q].new < c[q].old
          PROVE  r[p] > r[q]
      <3>1. p = w /\ q = l
        BY <2>4, <2>7, <2>9
      <3> QED BY <2>3, <2>8, <3>1
    <2> QED BY <2>2, <2>9 DEF c, r
  <1> QED BY <1>1, Invariance, PTL

\* Without the founder's hand the budgets in Meta are the approved ones and the
\* increases of the ledger, however executions, drift and cancellations
\* interleave (execute_claim).
THEOREM LedgerIsComplete == Spec => []LedgerExplainsLive
  <1>1. IInv => LedgerExplainsLive
    BY DEF IInv
  <1> QED BY <1>1, Invariance, PTL

\* The days of the history, as IncreasesBounded has them
LEMMA SpacedDays ==
    ASSUME IInv, NEW n \in DOMAIN history
    PROVE  /\ \A m \in 1 .. n - 1 : history[n].at - history[m].at >= Cooldown
           /\ \A m, k \in DayOf(history, n) : history[m].kind = "scale" /\ history[k].kind = "scale" => m = k
           /\ Increased(DayOf(history, n)) = SumFunctionOnSet(Inc(history), DayOf(history, n))
  <1>1. TypeOK /\ HistoryIsSpaced
    BY DEF IInv
  <1>2. \A m \in DOMAIN history : history[m].at \in Nat /\ m \in Nat /\ 1 .. m \subseteq DOMAIN history
    <2>1. \A m \in DOMAIN history : history[m] \in Entry /\ m \in Nat /\ 1 .. m \subseteq DOMAIN history
      BY <1>1, HistoryType
    <2> QED BY <2>1 DEF Entry
  <1>3. \A m \in 1 .. n - 1 : history[n].at - history[m].at >= Cooldown
    BY <1>1 DEF HistoryIsSpaced
  <1>4. ASSUME NEW m \in DayOf(history, n), NEW k \in DayOf(history, n), m < k,
               history[m].kind = "scale", history[k].kind = "scale"
        PROVE  FALSE
    <2>1. m \in 1 .. n /\ k \in 1 .. n /\ history[m].at > history[n].at - Day
      BY DEF DayOf
    <2>2. m \in DOMAIN history /\ k \in DOMAIN history /\ m \in Nat /\ k \in Nat /\ n \in Nat
      BY <1>2, <2>1
    <2>3. m \in 1 .. k - 1
      BY <1>4, <2>1, <2>2
    <2>4. history[k].at - history[m].at >= Day
      BY <1>1, <1>4, <2>2, <2>3 DEF HistoryIsSpaced
    <2>5. history[k].at <= history[n].at
      <3>1. CASE k = n
        BY <1>2, <3>1
      <3>2. CASE k # n
        <4>1. k \in 1 .. n - 1
          BY <2>1, <2>2, <3>2
        <4>2. history[n].at - history[k].at >= Cooldown
          BY <1>3, <4>1
        <4> QED BY <1>2, <2>2, <4>2, PolicyAssumption
      <3> QED BY <3>1, <3>2
    <2>6. history[m].at \in Nat /\ history[k].at \in Nat /\ history[n].at \in Nat /\ Day \in Nat
      BY <1>2, <2>2, PolicyAssumption
    <2> QED BY <2>1, <2>4, <2>5, <2>6
  <1>5. \A m, k \in DayOf(history, n) : history[m].kind = "scale" /\ history[k].kind = "scale" => m = k
    <2>1. \A m \in DayOf(history, n) : m \in Nat
      BY DEF DayOf
    <2> QED BY <1>4, <2>1
  <1>6. Increased(DayOf(history, n)) = SumFunctionOnSet(Inc(history), DayOf(history, n))
    BY DEF Increased, Increase, Inc
  <1> QED BY <1>3, <1>5, <1>6

\* With a cooldown of half a day at least, which the default of 24 hours is,
\* the increases of any rolling day are within the share of the budget that the
\* day began with (_scale, _policy_reason).
THEOREM DailyLimit == ASSUME Day <= 2 * Cooldown PROVE Spec => []IncreasesBounded
  <1>1. ASSUME Day <= 2 * Cooldown PROVE IInv => IncreasesBounded
    <2> SUFFICES ASSUME IInv, NEW n \in DOMAIN history
                 PROVE  /\ \A m \in 1 .. n - 1 : history[n].at - history[m].at >= Cooldown
                        /\ Increased(DayOf(history, n)) <= Permitted(history[Min(DayOf(history, n))].old)
                        /\ \A m, k \in DayOf(history, n) :
                              history[m].kind = "scale" /\ history[k].kind = "scale" => m = k
      BY DEF IncreasesBounded, DayOf
    <2>1. SumFunctionOnSet(Inc(history), DayOf(history, n)) <= Permitted(history[Min(DayOf(history, n))].old)
      BY <1>1 DEF IInv, DaysBounded
    <2> QED BY <2>1, SpacedDays
  <1> QED BY <1>1, Invariance, PTL

\* With the same cooldown, the executor never refuses a scale for the increase
\* that the policy computed, whenever it comes to it (_policy_reason).
THEOREM LimitsAgree == ASSUME Day <= 2 * Cooldown PROVE Spec => []ScaleSurvivesRecheck
  <1>1. ASSUME Day <= 2 * Cooldown PROVE IInv => ScaleSurvivesRecheck
    BY <1>1 DEF IInv, ScaleIsWithin, ScaleSurvivesRecheck
  <1> QED BY <1>1, Invariance, PTL

\* With any cooldown: the increases of a day are within the share of the
\* approved budgets, and there is one scale at most.
DayWithinApproved ==
    \A n \in DOMAIN history :
        LET day == {m \in 1 .. n : history[m].at > history[n].at - Day}
        IN  /\ Increased(day) <= Permitted(Total(approved))
            /\ \A m, k \in day : history[m].kind = "scale" /\ history[k].kind = "scale" => m = k

\* A scale is measured from budgets that reallocations left as a whole, so the
\* approved total bounds every day (_scale).
THEOREM DailyLimitOfApproved == Spec => []DayWithinApproved
  <1>1. IInv => DayWithinApproved
    <2> SUFFICES ASSUME IInv, NEW n \in DOMAIN history
                 PROVE  /\ Increased(DayOf(history, n)) <= Permitted(Total(approved))
                        /\ \A m, k \in DayOf(history, n) :
                              history[m].kind = "scale" /\ history[k].kind = "scale" => m = k
      BY DEF DayWithinApproved, DayOf
    <2>1. SumFunctionOnSet(Inc(history), DayOf(history, n)) <= Permitted(Total(approved))
      BY DEF IInv, DaysBounded
    <2> QED BY <2>1, SpacedDays
  <1> QED BY <1>1, Invariance, PTL

===============================================================================
