------------------------------- MODULE Induction -------------------------------
(***************************************************************************)
(* Induction and recursion over data, without operators as parameters: a   *)
(* set of counterexamples has one of the least rank, and a function that   *)
(* is defined by a recursion in which the rank falls exists.               *)
(***************************************************************************)
EXTENDS Integers, FiniteSetTheorems, WellFoundedInduction, TLAPS

\* To prove something of all numbers, look at the least one it fails for.
THEOREM LeastNumber ==
    ASSUME NEW T, T \subseteq Nat, T # {}
    PROVE  \E n \in T : \A m \in T : n <= m
<1>1. PICK n \in T : \A m \in T : ~(<<m, n>> \in OpToRel(<, Nat))
  BY NatLessThanWellFounded, WFMin
<1>2. \A m \in T : ~(m < n)
  BY <1>1 DEF OpToRel
<1> QED BY <1>2

\* The same of all members of a set that has ranks.
THEOREM LeastRank ==
    ASSUME NEW X, NEW rank \in [X -> Nat], NEW T, T \subseteq X, T # {}
    PROVE  \E x \in T : \A y \in T : rank[x] <= rank[y]
<1> DEFINE ranks == {rank[x] : x \in T}
<1>1. ranks \subseteq Nat /\ ranks # {}
  OBVIOUS
<1>2. PICK n \in ranks : \A m \in ranks : n <= m
  <2> HIDE DEF ranks
  <2> QED BY <1>1, LeastNumber
<1> QED BY <1>2

\* A finite set of numbers has a greatest one.
LEMMA GreatestNumber ==
    ASSUME NEW S, IsFiniteSet(S), S \subseteq Nat, S # {}
    PROVE  \E n \in S : \A m \in S : m <= n
<1> DEFINE X == SUBSET S
           rank == [s \in X |-> Cardinality(s)]
           HasGreatest(s) == \E n \in s : \A m \in s : m <= n
           T == {s \in X : s # {} /\ ~HasGreatest(s)}
<1>1. \A s \in X : IsFiniteSet(s) /\ Cardinality(s) \in Nat
  BY FS_Subset, FS_CardinalityType
<1>2. SUFFICES ASSUME T # {} PROVE FALSE
  OBVIOUS
<1>3. PICK s \in T : \A t \in T : rank[s] <= rank[t]
  <2>1. T \subseteq X /\ rank \in [X -> Nat]
    BY <1>1
  <2> HIDE DEF T, rank, X
  <2> QED BY <1>2, <2>1, LeastRank
<1>4. s \in X /\ s # {} /\ ~HasGreatest(s)
  BY <1>3
<1>5. PICK x \in s : TRUE
  BY <1>4
<1> DEFINE rest == s \ {x}
<1>6. x \in Nat /\ rest \in X /\ ~(rank[s] <= rank[rest])
  <2>1. Cardinality(rest) = Cardinality(s) - 1
    BY <1>1, <1>4, <1>5, FS_RemoveElement
  <2>2. rest \in X /\ s \in X /\ Cardinality(s) \in Nat
    BY <1>1, <1>4
  <2> QED BY <2>1, <2>2
<1>7. rest = {} \/ HasGreatest(rest)
  BY <1>3, <1>6
<1>8. rest = {} => HasGreatest(s)
  BY <1>5, <1>6
<1>9. HasGreatest(rest) => HasGreatest(s)
  <2>1. SUFFICES ASSUME NEW n \in rest, \A m \in rest : m <= n PROVE HasGreatest(s)
    OBVIOUS
  <2>2. n \in s /\ n \in Nat /\ \A m \in s : m = x \/ m \in rest
    BY <1>6
  <2>3. \A m \in s : m \in Nat
    BY <1>4
  <2>4. CASE n <= x
    BY <1>6, <2>1, <2>2, <2>3, <2>4
  <2>5. CASE ~(n <= x)
    BY <1>6, <2>1, <2>2, <2>3, <2>5
  <2> QED BY <2>4, <2>5
<1> QED BY <1>4, <1>7, <1>8, <1>9

\* A recursion that needs one value at each step, of an argument of lower rank,
\* down to the arguments of rank 0.
Recursive(X, Y, rank, below, base, step) ==
    /\ rank \in [X -> Nat] /\ below \in [X -> X]
    /\ base \in [X -> Y] /\ step \in [X \X Y -> Y]
    /\ \A x \in X : rank[x] # 0 => rank[below[x]] < rank[x]

Solves(f, X, rank, below, base, step) ==
    \A x \in X : f[x] = IF rank[x] = 0 THEN base[x] ELSE step[<<x, f[below[x]]>>]

\* It has a solution: the solutions up to some rank agree.
THEOREM Recursion ==
    ASSUME NEW X, NEW Y, NEW rank, NEW below, NEW base, NEW step,
           Recursive(X, Y, rank, below, base, step)
    PROVE  \E f \in [X -> Y] : Solves(f, X, rank, below, base, step)
<1> USE DEF Recursive
<1> DEFINE UpTo(n) == {x \in X : rank[x] <= n}
           value(g, x) == IF rank[x] = 0 THEN base[x] ELSE step[<<x, g[below[x]]>>]
           SolvesTo(g, n) == /\ g \in [UpTo(n) -> Y]
                           /\ \A x \in UpTo(n) : g[x] = value(g, x)
<1>1. ASSUME NEW m \in Nat, NEW n \in Nat, NEW g, NEW h, SolvesTo(g, m), SolvesTo(h, n),
             NEW x \in X, rank[x] <= m, rank[x] <= n
      PROVE  g[x] = h[x]
  <2> DEFINE T == {y \in X : rank[y] <= m /\ rank[y] <= n /\ g[y] # h[y]}
  <2>1. SUFFICES ASSUME T # {} PROVE FALSE
    BY <1>1
  <2>2. PICK y \in T : \A z \in T : rank[y] <= rank[z]
    <3>1. T \subseteq X
      OBVIOUS
    <3> HIDE DEF T
    <3> QED BY <2>1, <3>1, LeastRank
  <2>3. y \in UpTo(m) /\ y \in UpTo(n) /\ g[y] = value(g, y) /\ h[y] = value(h, y)
    BY <1>1, <2>2
  <2>4. CASE rank[y] = 0
    BY <2>2, <2>3, <2>4
  <2>5. CASE rank[y] # 0
    <3>1. below[y] \in X /\ rank[below[y]] < rank[y] /\ rank[below[y]] \in Nat
          /\ rank[y] \in Nat
      BY <2>5
    <3>2. below[y] \notin T
      BY <2>2, <3>1
    <3>3. g[below[y]] = h[below[y]]
      BY <2>3, <3>1, <3>2
    <3> QED BY <2>2, <2>3, <2>5, <3>3
  <2> QED BY <2>4, <2>5
<1>2. ASSUME NEW n \in Nat PROVE \E g : SolvesTo(g, n)
  <2> DEFINE T == {m \in Nat : ~ \E g : SolvesTo(g, m)}
  <2>1. SUFFICES ASSUME T # {} PROVE FALSE
    OBVIOUS
  <2>2. PICK m \in T : \A k \in T : m <= k
    <3>1. T \subseteq Nat
      OBVIOUS
    <3> HIDE DEF T
    <3> QED BY <2>1, <3>1, LeastNumber
  <2>3. m \in Nat /\ ~ \E g : SolvesTo(g, m)
    BY <2>2
  <2>4. CASE m = 0
    <3> DEFINE g == [x \in UpTo(0) |-> base[x]]
    <3>1. \A x \in UpTo(0) : x \in X /\ rank[x] = 0
      OBVIOUS
    <3>2. g \in [UpTo(0) -> Y] /\ \A x \in UpTo(0) : g[x] = value(g, x)
      BY <3>1
    <3> QED BY <2>3, <2>4, <3>2
  <2>5. CASE m # 0
    <3>1. m - 1 \in Nat /\ ~(m <= m - 1)
      BY <2>3, <2>5
    <3>2. PICK h : SolvesTo(h, m - 1)
      <4>1. m - 1 \notin T
        BY <2>2, <3>1
      <4> QED BY <3>1, <4>1
    <3> DEFINE g == [x \in UpTo(m) |-> value(h, x)]
    <3>3. \A x \in UpTo(m) : rank[x] # 0 => below[x] \in UpTo(m - 1) /\ below[x] \in UpTo(m)
      <4> TAKE x \in UpTo(m)
      <4> HAVE rank[x] # 0
      <4>1. x \in X /\ rank[x] <= m /\ rank[x] \in Nat
        OBVIOUS
      <4>2. below[x] \in X /\ rank[below[x]] < rank[x] /\ rank[below[x]] \in Nat
        BY <4>1
      <4> QED BY <2>3, <4>1, <4>2
    <3>4. \A x \in UpTo(m - 1) : x \in UpTo(m) /\ g[x] = h[x]
      <4> TAKE x \in UpTo(m - 1)
      <4>1. x \in X /\ rank[x] <= m
        BY <2>3
      <4> QED BY <3>2, <4>1
    <3>5. g \in [UpTo(m) -> Y]
      BY <3>2, <3>3
    <3>6. \A x \in UpTo(m) : g[x] = value(g, x)
      BY <3>3, <3>4
    <3> QED BY <2>3, <3>5, <3>6
  <2> QED BY <2>4, <2>5
<1> DEFINE solution(n) == CHOOSE g : SolvesTo(g, n)
           f == [x \in X |-> solution(rank[x])[x]]
<1>3. \A n \in Nat : SolvesTo(solution(n), n)
  BY <1>2
<1> HIDE DEF solution
<1>4. \A x \in X : f[x] \in Y
  <2> TAKE x \in X
  <2>1. rank[x] \in Nat /\ x \in UpTo(rank[x])
    OBVIOUS
  <2> QED BY <1>3, <2>1
<1>5. ASSUME NEW x \in X PROVE f[x] = value(f, x)
  <2>1. rank[x] \in Nat /\ x \in UpTo(rank[x])
    OBVIOUS
  <2>2. SolvesTo(solution(rank[x]), rank[x])
    BY <1>3, <2>1
  <2>3. f[x] = value(solution(rank[x]), x)
    BY <2>1, <2>2
  <2>4. ASSUME rank[x] # 0 PROVE solution(rank[x])[below[x]] = f[below[x]]
    <3>1. below[x] \in X /\ rank[below[x]] < rank[x] /\ rank[below[x]] \in Nat
      BY <2>4
    <3>2. SolvesTo(solution(rank[below[x]]), rank[below[x]])
      BY <1>3, <3>1
    <3>3. solution(rank[below[x]])[below[x]] = solution(rank[x])[below[x]]
      <4> HIDE DEF SolvesTo
      <4> QED BY <1>1, <2>1, <2>2, <3>1, <3>2
    <3> QED BY <3>1, <3>3
  <2> QED BY <2>3, <2>4
<1>6. f \in [X -> Y]
  BY <1>4
<1> HIDE DEF f
<1> QED BY <1>5, <1>6 DEF Solves
================================================================================
