----------------------- MODULE AddressSelectionProofs -----------------------
(***************************************************************************)
(* The three invariants of AddressSelection, for lists of every length the *)
(* module admits, every filter and every priority.                         *)
(*                                                                         *)
(* The filter appends, for each address of the resource in turn, as many   *)
(* copies as networks admit it: by induction on the addresses seen, what   *)
(* it has appended keeps what is admitted of them, in their order          *)
(* (Selects).  The sort inserts one position after the other: by induction *)
(* on the positions, each element comes from a position, none is lost, and *)
(* those that changed places differ in weight (Comes, Complete, Stable).   *)
(* The induction needs one fact more than the result: no element is before *)
(* the beginning of its run, so an insertion passes only elements of its   *)
(* own run, which are lighter.                                             *)
(***************************************************************************)
EXTENDS AddressSelection, Induction, SequenceTheorems

-----------------------------------------------------------------------------
(* Lists.                                                                   *)

\* A function on 1 .. n is a sequence of that length.
LEMMA SequencesAreFunctions ==
    ASSUME NEW A, NEW n \in Nat, NEW s \in [1 .. n -> A]
    PROVE  s \in Seq(A) /\ Len(s) = n
<1>1. s \in Seq(A)
  BY SeqDef
<1>2. DOMAIN s = 1 .. Len(s) /\ DOMAIN s = 1 .. n /\ Len(s) \in Nat
  BY <1>1, LenProperties
<1> QED BY <1>1, <1>2

\* n lists of members of A.
AreLists(lists, A, n) == lists \in [1 .. n -> Seq(A)]

\* FlattenSeq appends one list after the other.
IsFlattening(flat, lists, A, n) ==
    /\ AreLists(flat, A, n)
    /\ flat[1] = lists[1]
    /\ \A i \in 2 .. n : flat[i] = flat[i - 1] \o lists[i]
    /\ FlattenSeq(lists) = flat[n]

\* The recursion in it has a solution.
LEMMA Flattened ==
    ASSUME NEW A, NEW n \in Nat \ {0}, NEW lists, AreLists(lists, A, n)
    PROVE  \E flat : IsFlattening(flat, lists, A, n)
<1> DEFINE X == 1 .. n
           rank  == [i \in X |-> i - 1]
           below == [i \in X |-> IF i = 1 THEN 1 ELSE i - 1]
           base  == [i \in X |-> lists[i]]
           step  == [p \in X \X Seq(A) |-> p[2] \o lists[p[1]]]
           Flat(f) == f = [i \in X |-> IF i = 1 THEN lists[i] ELSE f[i - 1] \o lists[i]]
<1>0. lists \in [1 .. n -> Seq(A)]
  BY DEF AreLists
<1>1. Recursive(X, Seq(A), rank, below, base, step)
  <2>1. rank \in [X -> Nat] /\ below \in [X -> X] /\ base \in [X -> Seq(A)]
    BY <1>0
  <2>2. step \in [X \X Seq(A) -> Seq(A)]
    <3>1. ASSUME NEW p \in X \X Seq(A) PROVE p[2] \o lists[p[1]] \in Seq(A)
      <4>1. p[2] \in Seq(A) /\ lists[p[1]] \in Seq(A)
        BY <1>0
      <4> QED BY <4>1, ConcatProperties
    <3> QED BY <3>1
  <2>3. \A i \in X : rank[i] # 0 => rank[below[i]] < rank[i]
    OBVIOUS
  <2> HIDE DEF X, rank, below, base, step
  <2> QED BY <2>1, <2>2, <2>3 DEF Recursive
<1>2. PICK f \in [X -> Seq(A)] : Solves(f, X, rank, below, base, step)
  <2> HIDE DEF X, rank, below, base, step
  <2> QED BY <1>1, Recursion
<1>3. Flat(f)
  <2>1. ASSUME NEW i \in X PROVE f[i] = IF i = 1 THEN lists[i] ELSE f[i - 1] \o lists[i]
    <3>1. f[i] = IF rank[i] = 0 THEN base[i] ELSE step[<<i, f[below[i]]>>]
      BY <1>2 DEF Solves
    <3>2. \A s \in Seq(A) : step[<<i, s>>] = s \o lists[i]
      OBVIOUS
    <3>3. /\ below[i] \in X /\ (i # 1 => below[i] = i - 1)
          /\ (rank[i] = 0 <=> i = 1) /\ base[i] = lists[i]
      OBVIOUS
    <3> HIDE DEF rank, below, base, step
    <3> QED BY <3>1, <3>2, <3>3
  <2> QED BY <2>1
<1> DEFINE flat == CHOOSE g : Flat(g)
<1>4. Flat(flat)
  <2> HIDE DEF Flat
  <2> QED BY <1>3
<1>5. FlattenSeq(lists) = flat[n]
  <2>1. Len(lists) = n
    BY <1>0, SequencesAreFunctions
  <2> QED BY <2>1 DEF FlattenSeq
<1> HIDE DEF flat
<1>6. ASSUME NEW i \in X PROVE flat[i] \in Seq(A)
  <2> DEFINE T == {j \in X : flat[j] \notin Seq(A)}
  <2>1. SUFFICES ASSUME T # {} PROVE FALSE
    OBVIOUS
  <2>2. PICK j \in T : \A k \in T : j <= k
    <3>1. T \subseteq Nat
      OBVIOUS
    <3> HIDE DEF T
    <3> QED BY <2>1, <3>1, LeastNumber
  <2>3. j \in X /\ flat[j] = IF j = 1 THEN lists[j] ELSE flat[j - 1] \o lists[j]
    BY <1>4
  <2>4. j # 1
    BY <1>0, <2>2, <2>3
  <2>5. j - 1 \in X /\ flat[j - 1] \in Seq(A)
    BY <2>2, <2>4
  <2>6. flat[j] \in Seq(A)
    <3>1. lists[j] \in Seq(A)
      BY <1>0, <2>3
    <3> QED BY <2>3, <2>4, <2>5, <3>1, ConcatProperties
  <2> QED BY <2>2, <2>6
<1>7. flat \in [X -> Seq(A)]
  BY <1>4, <1>6
<1>8. flat[1] = lists[1] /\ \A i \in 2 .. n : flat[i] = flat[i - 1] \o lists[i]
  <2>1. 1 \in X /\ \A i \in 2 .. n : i \in X /\ i # 1
    OBVIOUS
  <2> QED BY <1>4, <2>1
<1> QED BY <1>5, <1>7, <1>8 DEF IsFlattening, AreLists

\* A list of n addresses.
IsList(s, n) == n \in Nat /\ s \in [1 .. n -> Addresses]

\* The list s of a addresses, and then t of b.
IsJoin(list, s, a, t, b) ==
    /\ IsList(list, a + b)
    /\ \A p \in 1 .. a + b : list[p] = IF p <= a THEN s[p] ELSE t[p - a]

\* Which is what the operator \o makes.
LEMMA Joined ==
    ASSUME NEW a, NEW b, NEW s, NEW t, IsList(s, a), IsList(t, b)
    PROVE  IsJoin(s \o t, s, a, t, b)
<1>1. s \in Seq(Addresses) /\ Len(s) = a /\ t \in Seq(Addresses) /\ Len(t) = b
  BY SequencesAreFunctions DEF IsList
<1>2. /\ s \o t \in Seq(Addresses) /\ Len(s \o t) = a + b
      /\ \A p \in 1 .. a + b : (s \o t)[p] = IF p <= a THEN s[p] ELSE t[p - a]
  BY <1>1, ConcatProperties
<1>3. s \o t \in [1 .. Len(s \o t) -> Addresses]
  BY <1>2, LenProperties
<1> QED BY <1>2, <1>3 DEF IsList, IsJoin

\* The part of a list from l to r.
LEMMA Cut ==
    ASSUME NEW n \in Nat, NEW s, IsList(s, n),
           NEW l \in 1 .. n + 1, NEW r \in 0 .. n, l <= r + 1
    PROVE  /\ IsList(SubSeq(s, l, r), r - l + 1)
           /\ \A p \in 1 .. r - l + 1 : SubSeq(s, l, r)[p] = s[p + l - 1]
<1>1. l \in Int /\ r \in Int /\ \A p \in l .. r : s[p] \in Addresses
  BY DEF IsList
<1>2. /\ SubSeq(s, l, r) \in Seq(Addresses)
      /\ Len(SubSeq(s, l, r)) = IF l <= r THEN r - l + 1 ELSE 0
      /\ \A p \in 1 .. r - l + 1 : SubSeq(s, l, r)[p] = s[l + p - 1]
  BY <1>1, SubSeqProperties
<1>3. Len(SubSeq(s, l, r)) = r - l + 1
  BY <1>2
<1>4. SubSeq(s, l, r) \in [1 .. Len(SubSeq(s, l, r)) -> Addresses]
  BY <1>2, LenProperties
<1>5. \A p \in 1 .. r - l + 1 : l + p - 1 = p + l - 1
  OBVIOUS
<1> QED BY <1>2, <1>3, <1>4, <1>5 DEF IsList

\* The list with the element at position i moved down to position k.
Moved(list, k, i) ==
    [p \in DOMAIN list |-> IF p = k THEN list[i]
                           ELSE IF p \in (k + 1) .. i THEN list[p - 1] ELSE list[p]]

\* Which is what Insert does.
LEMMA InsertMoves ==
    ASSUME NEW in, NEW n \in Nat, NEW list, IsList(list, n), NEW i \in 1 .. n,
           Landing(in, i) \in 1 .. i
    PROVE  /\ Insert(in, list, i) = Moved(list, Landing(in, i), i)
           /\ IsList(Insert(in, list, i), n)
<1> DEFINE k == Landing(in, i)
<1>0. k \in 1 .. i /\ i \in 1 .. n /\ n \in Nat
  OBVIOUS
<1> HIDE DEF k
<1> DEFINE rest == RemoveAt(list, i)
<1>1. /\ IsList(rest, n - 1)
      /\ \A p \in 1 .. n - 1 : rest[p] = IF p < i THEN list[p] ELSE list[p + 1]
  <2> DEFINE before == SubSeq(list, 1, i - 1)
             after == SubSeq(list, i + 1, n)
  <2>1. IsList(before, i - 1) /\ \A p \in 1 .. i - 1 : before[p] = list[p]
    <3>1. 1 \in 1 .. n + 1 /\ i - 1 \in 0 .. n /\ 1 <= (i - 1) + 1 /\ (i - 1) - 1 + 1 = i - 1
          /\ \A p \in 1 .. i - 1 : p + 1 - 1 = p
      BY <1>0
    <3> QED BY <3>1, Cut
  <2>2. IsList(after, n - i) /\ \A p \in 1 .. n - i : after[p] = list[p + i]
    <3>1. i + 1 \in 1 .. n + 1 /\ n \in 0 .. n /\ i + 1 <= n + 1 /\ n - (i + 1) + 1 = n - i
          /\ \A p \in 1 .. n - i : p + (i + 1) - 1 = p + i
      BY <1>0
    <3> QED BY <3>1, Cut
  <2>3. rest = before \o after
    <3>1. Len(list) = n
      BY SequencesAreFunctions DEF IsList
    <3> QED BY <3>1 DEF RemoveAt
  <2> HIDE DEF before, after, rest
  <2>4. i - 1 \in Nat /\ n - i \in Nat /\ (i - 1) + (n - i) = n - 1
    BY <1>0
  <2>5. /\ IsList(rest, n - 1)
        /\ \A p \in 1 .. n - 1 : rest[p] = IF p <= i - 1 THEN before[p] ELSE after[p - (i - 1)]
    <3> DEFINE a == i - 1
               b == n - i
    <3>1. a \in Nat /\ b \in Nat /\ IsList(before, a) /\ IsList(after, b)
      BY <2>1, <2>2, <2>4
    <3> HIDE DEF a, b
    <3>2. IsJoin(before \o after, before, a, after, b)
      BY <3>1, Joined
    <3> QED BY <2>3, <2>4, <3>2 DEF a, b, IsJoin
  <2>6. ASSUME NEW p \in 1 .. n - 1
        PROVE  rest[p] = IF p < i THEN list[p] ELSE list[p + 1]
    <3>1. CASE p < i
      <4>1. p \in 1 .. i - 1 /\ p <= i - 1
        BY <1>0, <3>1
      <4> QED BY <2>1, <2>5, <3>1, <4>1
    <3>2. CASE ~(p < i)
      <4>1. p - (i - 1) \in 1 .. n - i /\ (p - (i - 1)) + i = p + 1 /\ ~(p <= i - 1)
        BY <1>0, <3>2
      <4> QED BY <2>2, <2>5, <3>2, <4>1
    <3> QED BY <3>1, <3>2
  <2> QED BY <2>5, <2>6
<1> HIDE DEF rest
<1> DEFINE front == SubSeq(rest, 1, k - 1)
           back == SubSeq(rest, k, n - 1)
           up == front \o <<list[i]>>
<1>2. IsList(front, k - 1) /\ \A p \in 1 .. k - 1 : front[p] = rest[p]
  <2>1. /\ n - 1 \in Nat /\ 1 \in 1 .. (n - 1) + 1 /\ k - 1 \in 0 .. n - 1
        /\ 1 <= (k - 1) + 1 /\ (k - 1) - 1 + 1 = k - 1
        /\ \A p \in 1 .. k - 1 : p + 1 - 1 = p
    BY <1>0
  <2> QED BY <1>1, <2>1, Cut
<1>3. IsList(back, n - k) /\ \A p \in 1 .. n - k : back[p] = rest[p + k - 1]
  <2>1. /\ n - 1 \in Nat /\ k \in 1 .. (n - 1) + 1 /\ n - 1 \in 0 .. n - 1
        /\ k <= (n - 1) + 1 /\ (n - 1) - k + 1 = n - k
    BY <1>0
  <2> QED BY <1>1, <2>1, Cut
<1>4. Insert(in, list, i) = up \o back
  <2>1. Len(rest) = n - 1
    <3>1. n - 1 \in Nat
      BY <1>0
    <3> QED BY <1>1, <3>1, SequencesAreFunctions DEF IsList
  <2> QED BY <2>1 DEF Insert, InsertAt, k, rest
<1> HIDE DEF front, back
<1>5. /\ IsList(up, k)
      /\ \A p \in 1 .. k : up[p] = IF p = k THEN list[i] ELSE rest[p]
  <2>1. IsList(<<list[i]>>, 1) /\ <<list[i]>>[1] = list[i]
    BY <1>0 DEF IsList
  <2>2. k - 1 \in Nat /\ 1 \in Nat /\ (k - 1) + 1 = k
    BY <1>0
  <2>3. /\ IsList(up, k)
        /\ \A p \in 1 .. k : up[p] = IF p <= k - 1 THEN front[p] ELSE <<list[i]>>[p - (k - 1)]
    <3> DEFINE a == k - 1
               last == <<list[i]>>
    <3>1. a \in Nat /\ 1 \in Nat /\ IsList(front, a) /\ IsList(last, 1)
      BY <1>2, <2>1, <2>2
    <3> HIDE DEF a, last
    <3>2. IsJoin(front \o last, front, a, last, 1)
      BY <3>1, Joined
    <3> QED BY <2>2, <3>2 DEF a, last, IsJoin
  <2>4. \A p \in 1 .. k : /\ p # k => p \in 1 .. k - 1 /\ p <= k - 1
                          /\ p = k => p - (k - 1) = 1 /\ ~(p <= k - 1)
    BY <1>0
  <2> HIDE DEF up
  <2> QED BY <1>2, <2>1, <2>3, <2>4
<1> HIDE DEF up
<1>6. /\ IsList(Insert(in, list, i), n)
      /\ \A p \in 1 .. n : Insert(in, list, i)[p] = IF p <= k THEN up[p] ELSE back[p - k]
  <2>1. k \in Nat /\ n - k \in Nat /\ k + (n - k) = n
    BY <1>0
  <2> DEFINE b == n - k
  <2>2. b \in Nat /\ IsList(up, k) /\ IsList(back, b)
    BY <1>3, <1>5, <2>1
  <2> HIDE DEF b
  <2>3. IsJoin(up \o back, up, k, back, b)
    BY <2>1, <2>2, Joined
  <2> QED BY <1>4, <2>1, <2>3 DEF b, IsJoin
<1>7. ASSUME NEW p \in 1 .. n PROVE Insert(in, list, i)[p] = Moved(list, k, i)[p]
  <2>0. Moved(list, k, i)[p] = IF p = k THEN list[i]
                               ELSE IF p \in (k + 1) .. i THEN list[p - 1] ELSE list[p]
    BY DEF Moved, IsList
  <2>1. CASE p < k
    <3>1. p \in 1 .. k /\ p # k /\ p <= k /\ p < i /\ p \in 1 .. n - 1 /\ p \notin (k + 1) .. i
      BY <1>0, <2>1
    <3> QED BY <1>1, <1>5, <1>6, <2>0, <3>1
  <2>2. CASE p = k
    <3>1. p \in 1 .. k /\ p <= k
      BY <1>0, <2>2
    <3> QED BY <1>5, <1>6, <2>0, <2>2, <3>1
  <2>3. CASE p > k
    <3>1. /\ p - k \in 1 .. n - k /\ (p - k) + k - 1 = p - 1 /\ p - 1 \in 1 .. n - 1
          /\ ~(p <= k) /\ p # k /\ (p \in (k + 1) .. i <=> p - 1 < i) /\ (p - 1) + 1 = p
      BY <1>0, <2>3
    <3>2. Insert(in, list, i)[p] = rest[p - 1]
      BY <1>3, <1>6, <3>1
    <3> QED BY <1>1, <2>0, <3>1, <3>2
  <2>4. p < k \/ p = k \/ p > k
    BY <1>0
  <2> QED BY <2>1, <2>2, <2>3, <2>4
<1>8. IsList(Moved(list, k, i), n)
  BY <1>0 DEF Moved, IsList
<1> QED BY <1>6, <1>7, <1>8 DEF k, IsList

-----------------------------------------------------------------------------
(* Runs and weights.                                                        *)

\* Where the element at position i goes: down to where its run begins, the
\* positions up to i over which `less` holds from each to the one before.
BeginsRun(in, k, i) ==
    /\ k \in 1 .. i
    /\ \A m \in (k + 1) .. i : Less(in, m, m - 1)
    /\ k > 1 => ~Less(in, k, k - 1)

\* There is such a place: the least one over which `less` holds.
LEMMA LandingBeginsRun ==
    ASSUME NEW in, NEW i \in Nat \ {0}
    PROVE  BeginsRun(in, Landing(in, i), i)
<1> DEFINE T == {k \in 1 .. i : \A m \in (k + 1) .. i : Less(in, m, m - 1)}
<1>1. PICK k \in T : \A l \in T : k <= l
  <2>1. i \in T
    OBVIOUS
  <2>2. T \subseteq Nat
    OBVIOUS
  <2> HIDE DEF T
  <2> QED BY <2>1, <2>2, LeastNumber
<1>2. k > 1 => ~Less(in, k, k - 1)
  <2>1. SUFFICES ASSUME k > 1, Less(in, k, k - 1) PROVE FALSE
    OBVIOUS
  <2>2. k \in 1 .. i /\ k - 1 \in 1 .. i /\ ~(k <= k - 1)
    BY <1>1, <2>1
  <2>3. \A m \in ((k - 1) + 1) .. i : m = k \/ m \in (k + 1) .. i
    BY <2>2
  <2>4. k - 1 \in T
    BY <1>1, <2>1, <2>2, <2>3
  <2> QED BY <1>1, <2>2, <2>4
<1>3. \E l \in 1 .. i : /\ \A m \in (l + 1) .. i : Less(in, m, m - 1)
                        /\ l > 1 => ~Less(in, l, l - 1)
  BY <1>1, <1>2
<1> HIDE DEF T
<1> QED BY <1>3, Zenon DEF Landing, BeginsRun

\* A run begins at one place.
LEMMA OneBeginning ==
    ASSUME NEW in, NEW i \in Nat \ {0}, NEW k, NEW l, BeginsRun(in, k, i), BeginsRun(in, l, i)
    PROVE  k = l
<1>1. k \in 1 .. i /\ l \in 1 .. i
  BY DEF BeginsRun
<1>2. ~(k < l)
  <2>1. SUFFICES ASSUME k < l PROVE FALSE
    OBVIOUS
  <2>2. l \in (k + 1) .. i /\ l > 1
    BY <1>1, <2>1
  <2> QED BY <2>2 DEF BeginsRun
<1>3. ~(l < k)
  <2>1. SUFFICES ASSUME l < k PROVE FALSE
    OBVIOUS
  <2>2. k \in (l + 1) .. i /\ k > 1
    BY <1>1, <2>1
  <2> QED BY <2>2 DEF BeginsRun
<1> QED BY <1>1, <1>2, <1>3

\* All positions of a run land at its beginning.
LEMMA RunLandsTogether ==
    ASSUME NEW in, NEW i \in Nat \ {0}, NEW p \in Landing(in, i) .. i
    PROVE  p \in Nat \ {0} /\ Landing(in, p) = Landing(in, i)
<1> DEFINE k == Landing(in, i)
<1>1. BeginsRun(in, k, i)
  BY LandingBeginsRun
<1> HIDE DEF k
<1>2. k \in 1 .. i /\ p \in k .. i
  BY <1>1 DEF BeginsRun, k
<1>3. p \in Nat \ {0} /\ k \in 1 .. p /\ \A m \in (k + 1) .. p : m \in (k + 1) .. i
  BY <1>2
<1>4. BeginsRun(in, k, p)
  BY <1>1, <1>3 DEF BeginsRun
<1>5. BeginsRun(in, Landing(in, p), p)
  BY <1>3, LandingBeginsRun
<1> QED BY <1>3, <1>4, <1>5, OneBeginning DEF k

\* The weight of an address is the greatest of those around it.
LEMMA WeightIsGreatest ==
    ASSUME NetworkAssumption, priority \in Priorities, NEW a
    PROVE  /\ Weight(a) \in Nat
           /\ Weight(a) = 0 \/ \E e \in priority : a \in e[1] /\ e[2] = Weight(a)
           /\ \A e \in priority : a \in e[1] => e[2] <= Weight(a)
<1> DEFINE around == {e \in priority : a \in e[1]}
           weights == {0} \cup {entry[2] : entry \in around}
<1>1. IsFiniteSet(priority) /\ \A e \in priority : e[2] \in Nat
  BY DEF NetworkAssumption
<1>2. IsFiniteSet(around)
  BY <1>1, FS_Subset
<1>3. IsFiniteSet({entry[2] : entry \in around})
  <2> DEFINE seconds == {entry[2] : entry \in around}
             second == [e \in around |-> e[2]]
  <2>1. second \in Surjection(around, seconds)
    BY DEF Surjection
  <2> HIDE DEF around, seconds, second
  <2>2. IsFiniteSet(seconds)
    BY <1>2, <2>1, FS_Surjection
  <2> QED BY <2>2 DEF seconds
<1>4. IsFiniteSet(weights)
  BY <1>3, FS_Singleton, FS_Union
<1>5. weights \subseteq Nat /\ weights # {}
  BY <1>1
<1>6. \E w \in weights : \A v \in weights : v <= w
  <2> HIDE DEF weights
  <2> QED BY <1>4, <1>5, GreatestNumber
<1>7. Weight(a) \in weights /\ \A v \in weights : v <= Weight(a)
  <2>1. Weight(a) = CHOOSE w \in weights : \A v \in weights : v <= w
    BY DEF Weight
  <2> HIDE DEF weights
  <2> QED BY <1>6, <2>1
<1> QED BY <1>5, <1>7

\* Within a run the weights grow.
LEMMA RunsAscend ==
    ASSUME NetworkAssumption, priority \in Priorities,
           NEW in, NEW i \in Nat \ {0}, NEW p \in Landing(in, i) .. (i - 1)
    PROVE  Weight(in[p]) < Weight(in[i])
<1> DEFINE k == Landing(in, i)
           W(q) == Weight(in[q])
<1>1. k \in 1 .. i /\ \A m \in (k + 1) .. i : W(m) > W(m - 1)
  BY LandingBeginsRun DEF BeginsRun, Less
<1>2. \A q : W(q) \in Nat
  BY WeightIsGreatest
<1>3. p \in k .. (i - 1)
  OBVIOUS
<1> HIDE DEF k, W
<1> DEFINE T == {d \in Nat : i - 1 - d \in k .. (i - 1) /\ ~(W(i - 1 - d) < W(i))}
<1>4. SUFFICES ASSUME T # {} PROVE FALSE
  <2>1. i - 1 - p \in Nat /\ i - 1 - (i - 1 - p) = p
    BY <1>1, <1>3
  <2>2. i - 1 - p \notin T
    BY <1>4
  <2> QED BY <1>3, <2>1, <2>2 DEF W
<1>5. PICK d \in T : \A e \in T : d <= e
  <2>1. T \subseteq Nat
    OBVIOUS
  <2> HIDE DEF T
  <2> QED BY <1>4, <2>1, LeastNumber
<1> DEFINE q == i - 1 - d
<1>6. /\ d \in Nat /\ q \in k .. (i - 1) /\ ~(W(q) < W(i))
      /\ q + 1 \in (k + 1) .. i /\ (q + 1) - 1 = q
  BY <1>1, <1>5
<1>7. W(q + 1) > W(q)
  BY <1>1, <1>6
<1>8. CASE d = 0
  BY <1>2, <1>6, <1>7, <1>8
<1>9. CASE d # 0
  <2>1. d - 1 \in Nat /\ i - 1 - (d - 1) = q + 1 /\ q + 1 \in k .. (i - 1) /\ ~(d <= d - 1)
    BY <1>1, <1>6, <1>9
  <2>2. d - 1 \notin T
    BY <1>5, <2>1
  <2>3. W(q + 1) < W(i)
    BY <2>1, <2>2
  <2> QED BY <1>2, <1>6, <1>7, <2>3
<1> QED BY <1>8, <1>9

-----------------------------------------------------------------------------
(* The sort.                                                                *)

\* The sort is one insertion after the other.
IsSort(pass, in, n) ==
    /\ pass[1] = in
    /\ \A i \in 2 .. n : pass[i] = Insert(in, pass[i - 1], i)
    /\ \A i \in 1 .. n : IsList(pass[i], n)
    /\ Sorted(in) = pass[n]

\* Sorted is defined by a recursion, and the recursion has a solution.
LEMMA SortedStepwise ==
    ASSUME NEW n \in Nat \ {0}, NEW in, IsList(in, n)
    PROVE  \E pass : IsSort(pass, in, n)
<1> DEFINE X == 1 .. n
           Y == [1 .. n -> Addresses]
           rank  == [i \in X |-> i - 1]
           below == [i \in X |-> IF i = 1 THEN 1 ELSE i - 1]
           base  == [i \in X |-> in]
           step  == [p \in X \X Y |-> Insert(in, p[2], p[1])]
           Passes(f) == f = [i \in X |-> IF i = 1 THEN in ELSE Insert(in, f[i - 1], i)]
<1>1. ASSUME NEW i \in X, NEW list, IsList(list, n)
      PROVE  IsList(Insert(in, list, i), n)
  <2>1. Landing(in, i) \in 1 .. i
    BY LandingBeginsRun DEF BeginsRun
  <2> QED BY <1>1, <2>1, InsertMoves
<1>2. \A list : IsList(list, n) <=> list \in Y
  BY DEF IsList
<1>3. Recursive(X, Y, rank, below, base, step)
  <2>1. rank \in [X -> Nat] /\ below \in [X -> X]
    OBVIOUS
  <2>2. base \in [X -> Y]
    BY <1>2
  <2>3. step \in [X \X Y -> Y]
    <3>1. ASSUME NEW p \in X \X Y PROVE Insert(in, p[2], p[1]) \in Y
      <4>1. p[1] \in X /\ IsList(p[2], n)
        BY <1>2
      <4> HIDE DEF X, Y
      <4> QED BY <1>1, <1>2, <4>1
    <3> HIDE DEF X, Y
    <3> QED BY <3>1
  <2>4. \A i \in X : rank[i] # 0 => rank[below[i]] < rank[i]
    OBVIOUS
  <2> HIDE DEF X, Y, rank, below, base, step
  <2> QED BY <2>1, <2>2, <2>3, <2>4 DEF Recursive
<1>4. PICK f \in [X -> Y] : Solves(f, X, rank, below, base, step)
  <2> HIDE DEF X, Y, rank, below, base, step
  <2> QED BY <1>3, Recursion
<1>5. Passes(f)
  <2>1. ASSUME NEW i \in X PROVE f[i] = IF i = 1 THEN in ELSE Insert(in, f[i - 1], i)
    <3>1. f[i] = IF rank[i] = 0 THEN base[i] ELSE step[<<i, f[below[i]]>>]
      BY <1>4 DEF Solves
    <3>2. \A list \in Y : step[<<i, list>>] = Insert(in, list, i)
      <4> HIDE DEF X, Y
      <4> QED OBVIOUS
    <3>3. /\ below[i] \in X /\ (i # 1 => below[i] = i - 1)
          /\ (rank[i] = 0 <=> i = 1) /\ base[i] = in
      OBVIOUS
    <3> HIDE DEF X, Y, rank, below, base, step
    <3> QED BY <3>1, <3>2, <3>3
  <2> QED BY <2>1
<1> DEFINE pass == CHOOSE g : Passes(g)
<1>6. Passes(pass)
  <2> HIDE DEF Passes
  <2> QED BY <1>5
<1>7. Sorted(in) = pass[n]
  <2>1. Len(in) = n
    BY SequencesAreFunctions DEF IsList
  <2> QED BY <2>1 DEF Sorted
<1> HIDE DEF pass, Y
<1>8. ASSUME NEW i \in X PROVE IsList(pass[i], n)
  <2> DEFINE T == {j \in X : ~IsList(pass[j], n)}
  <2>1. SUFFICES ASSUME T # {} PROVE FALSE
    OBVIOUS
  <2>2. PICK j \in T : \A k \in T : j <= k
    <3>1. T \subseteq Nat
      OBVIOUS
    <3> HIDE DEF T
    <3> QED BY <2>1, <3>1, LeastNumber
  <2>3. j \in X /\ pass[j] = IF j = 1 THEN in ELSE Insert(in, pass[j - 1], j)
    BY <1>6
  <2>4. j # 1
    BY <2>2, <2>3
  <2>5. j - 1 \in X /\ IsList(pass[j - 1], n)
    BY <2>2, <2>4
  <2> QED BY <1>1, <2>2, <2>3, <2>4, <2>5
<1>9. pass[1] = in /\ \A i \in 2 .. n : pass[i] = Insert(in, pass[i - 1], i)
  <2>1. 1 \in X /\ \A i \in 2 .. n : i \in X /\ i # 1
    OBVIOUS
  <2> QED BY <1>6, <2>1
<1> QED BY <1>7, <1>8, <1>9 DEF IsSort

\* Where the elements of list come from: the element at p was at from[p] in the
\* list `in`.  The elements after position j are in their places, those before
\* have not left the first j, and none of them is before its run.
Comes(from, list, in, n, j) ==
    /\ from \in [1 .. n -> 1 .. n]
    /\ \A p \in 1 .. n : list[p] = in[from[p]]
    /\ \A p \in 1 .. n : IF p > j THEN from[p] = p
                         ELSE from[p] <= j /\ Landing(in, p) <= from[p]

\* Nothing is missing.
Complete(from, n) == \A x \in 1 .. n : \E p \in 1 .. n : from[p] = x

\* What changed places with an element after it had a smaller weight.
Stable(from, in, n) ==
    \A p, q \in 1 .. n :
        p < q /\ from[p] > from[q] => Weight(in[from[p]]) > Weight(in[from[q]])

\* An insertion keeps all this.
LEMMA InsertionIsStable ==
    ASSUME NetworkAssumption, priority \in Priorities,
           NEW n \in Nat, NEW in, NEW list, IsList(in, n), IsList(list, n),
           NEW i \in 2 .. n, NEW from,
           Comes(from, list, in, n, i - 1), Complete(from, n), Stable(from, in, n)
    PROVE  /\ Comes(Moved(from, Landing(in, i), i), Insert(in, list, i), in, n, i)
           /\ Complete(Moved(from, Landing(in, i), i), n)
           /\ Stable(Moved(from, Landing(in, i), i), in, n)
<1> DEFINE k == Landing(in, i)
           new == Insert(in, list, i)
           moved == Moved(from, k, i)
<1>1. i \in 1 .. n /\ i \in Nat \ {0} /\ n \in Nat /\ i > 1
  OBVIOUS
<1>2. k \in 1 .. i
  BY <1>1, LandingBeginsRun DEF BeginsRun
<1>3. new = Moved(list, k, i)
  BY <1>1, <1>2, InsertMoves
<1>4. \A p \in k .. i : Landing(in, p) = k
  BY <1>1, RunLandsTogether
<1>5. \A p \in k .. (i - 1) : Weight(in[p]) < Weight(in[i])
  BY <1>1, RunsAscend
<1>6. \A p \in 1 .. n : Weight(in[p]) \in Nat
  BY WeightIsGreatest
<1> HIDE DEF k, new
<1>7. /\ from \in [1 .. n -> 1 .. n]
      /\ \A p \in 1 .. n : moved[p] = IF p = k THEN from[i]
                                      ELSE IF p \in (k + 1) .. i THEN from[p - 1] ELSE from[p]
      /\ \A p \in 1 .. n : new[p] = IF p = k THEN list[i]
                                    ELSE IF p \in (k + 1) .. i THEN list[p - 1] ELSE list[p]
      /\ from[i] = i
  BY <1>1, <1>3 DEF Comes, IsList, Moved
<1>8. moved \in [1 .. n -> 1 .. n]
  BY <1>1, <1>2, <1>7 DEF Moved
<1> HIDE DEF moved
<1>9. \A p \in 1 .. n : /\ p \in (k + 1) .. i => p - 1 \in k .. (i - 1) /\ p - 1 \in 1 .. n
                        /\ p - 1 \in 1 .. n => ~(p - 1 > i - 1) \/ p > i
  BY <1>1, <1>2
<1>10. \A p \in 1 .. n : /\ list[p] = in[from[p]]
                         /\ p > i - 1 => from[p] = p
                         /\ p <= i - 1 => from[p] <= i - 1 /\ Landing(in, p) <= from[p]
  BY <1>1 DEF Comes
<1>11. \A p \in k .. (i - 1) : from[p] \in k .. (i - 1)
  <2> TAKE p \in k .. (i - 1)
  <2>1. p \in 1 .. n /\ p <= i - 1 /\ p \in k .. i
    BY <1>1, <1>2
  <2> QED BY <1>1, <1>2, <1>4, <1>7, <1>10, <2>1
<1>12. Comes(moved, new, in, n, i)
  <2>1. ASSUME NEW p \in 1 .. n
        PROVE  new[p] = in[moved[p]]
    <3>1. CASE p = k
      <4>1. new[p] = list[i] /\ moved[p] = from[i]
        BY <1>7, <3>1
      <4> QED BY <1>1, <1>10, <4>1
    <3>2. CASE p # k /\ p \in (k + 1) .. i
      <4>1. p - 1 \in 1 .. n
        BY <1>9, <3>2
      <4>2. new[p] = list[p - 1] /\ moved[p] = from[p - 1]
        BY <1>7, <3>2
      <4> QED BY <1>10, <4>1, <4>2
    <3>3. CASE p # k /\ p \notin (k + 1) .. i
      <4>1. new[p] = list[p] /\ moved[p] = from[p]
        BY <1>7, <3>3
      <4> QED BY <1>10, <4>1
    <3> QED BY <3>1, <3>2, <3>3
  <2>2. ASSUME NEW p \in 1 .. n, p > i PROVE moved[p] = p
    <3>1. p # k /\ p \notin (k + 1) .. i /\ p > i - 1
      BY <1>1, <1>2, <2>2
    <3> QED BY <1>7, <1>10, <3>1
  <2>3. ASSUME NEW p \in 1 .. n, p <= i PROVE moved[p] <= i /\ Landing(in, p) <= moved[p]
    <3>1. CASE p = k
      <4>1. p \in k .. i
        BY <1>2, <3>1
      <4> QED BY <1>1, <1>2, <1>4, <1>7, <3>1, <4>1
    <3>2. CASE p \in (k + 1) .. i
      <4>1. p - 1 \in k .. (i - 1) /\ p \in k .. i /\ p # k
        BY <1>2, <3>2
      <4>2. moved[p] \in k .. (i - 1) /\ Landing(in, p) = k
        BY <1>4, <1>7, <1>11, <3>2, <4>1
      <4> QED BY <1>1, <1>2, <4>2
    <3>3. CASE p < k
      <4>1. p # k /\ p \notin (k + 1) .. i /\ p <= i - 1
        BY <1>1, <1>2, <3>3
      <4>2. moved[p] = from[p] /\ from[p] <= i - 1 /\ Landing(in, p) <= from[p]
        BY <1>7, <1>10, <4>1
      <4> QED BY <1>1, <1>7, <4>2
    <3> QED BY <1>2, <2>3, <3>1, <3>2, <3>3
  <2>4. \A p \in 1 .. n : p > i \/ p <= i
    BY <1>1
  <2> QED BY <1>8, <2>1, <2>2, <2>3, <2>4 DEF Comes
<1>13. Complete(moved, n)
  <2>1. ASSUME NEW x \in 1 .. n PROVE \E p \in 1 .. n : moved[p] = x
    <3>1. PICK p \in 1 .. n : from[p] = x
      BY DEF Complete
    <3>2. CASE p = i
      <4>1. k \in 1 .. n
        BY <1>1, <1>2
      <4>2. moved[k] = x
        BY <1>7, <3>1, <3>2, <4>1
      <4> QED BY <4>1, <4>2
    <3>3. CASE p \in k .. (i - 1)
      <4>1. p + 1 \in 1 .. n /\ p + 1 \in (k + 1) .. i /\ p + 1 # k /\ (p + 1) - 1 = p
        BY <1>1, <1>2, <3>3
      <4> QED BY <1>7, <3>1, <4>1
    <3>4. CASE p < k \/ p > i
      <4>1. p # k /\ p \notin (k + 1) .. i
        BY <1>1, <1>2, <3>4
      <4> QED BY <1>7, <3>1, <4>1
    <3> QED BY <1>1, <1>2, <3>2, <3>3, <3>4
  <2> QED BY <2>1 DEF Complete
<1>14. Stable(moved, in, n)
  <2> DEFINE Inverted(f, p, q) == f[p] > f[q] => Weight(in[f[p]]) > Weight(in[f[q]])
  <2>0. \A p, q \in 1 .. n : p < q => Inverted(from, p, q)
    BY DEF Stable
  <2>1. ASSUME NEW p \in 1 .. n, NEW q \in 1 .. n, p < q PROVE Inverted(moved, p, q)
    <3>1. CASE q > i
      <4>1. moved[q] = q /\ (p > i => moved[p] = p) /\ (p <= i => moved[p] <= i)
        BY <1>12, <3>1 DEF Comes
      <4>2. moved[p] <= p \/ moved[p] <= i
        BY <1>1, <1>8, <4>1
      <4>3. moved[p] \in 1 .. n
        BY <1>8
      <4>4. ~(moved[p] > moved[q])
        BY <1>1, <2>1, <3>1, <4>1, <4>2, <4>3
      <4> QED BY <4>4
    <3>2. CASE q <= i /\ p = k
      <4>1. q \in (k + 1) .. i /\ q # k /\ q - 1 \in k .. (i - 1)
        BY <1>2, <2>1, <3>2
      <4>2. moved[p] = i /\ moved[q] \in k .. (i - 1)
        BY <1>7, <1>11, <3>2, <4>1
      <4>3. Weight(in[moved[q]]) < Weight(in[i])
        BY <1>5, <4>2
      <4>4. moved[q] \in 1 .. n
        BY <1>8
      <4> QED BY <1>1, <1>6, <4>2, <4>3, <4>4
    <3>3. CASE q = k
      <4>1. moved[q] = i
        BY <1>7, <3>3
      <4>2. p # k /\ p \notin (k + 1) .. i /\ p <= i - 1
        BY <1>1, <1>2, <2>1, <3>3
      <4>3. moved[p] <= i - 1
        BY <1>7, <1>10, <4>2
      <4>4. ~(moved[p] > moved[q])
        BY <1>1, <1>8, <4>1, <4>3
      <4> QED BY <4>4
    <3>4. CASE q <= i /\ p # k /\ q # k
      <4> DEFINE Before(r) == IF r \in (k + 1) .. i THEN r - 1 ELSE r
      <4>1. \A r \in 1 .. n : r # k => Before(r) \in 1 .. n /\ moved[r] = from[Before(r)]
        BY <1>7, <1>9
      <4>2. Before(p) < Before(q)
        BY <1>1, <1>2, <2>1, <3>4
      <4> HIDE DEF Before
      <4> QED BY <2>0, <3>4, <4>1, <4>2
    <3> QED BY <1>1, <3>1, <3>2, <3>3, <3>4
  <2> QED BY <2>1 DEF Stable
<1> QED BY <1>12, <1>13, <1>14 DEF k, new, moved

\* The whole sort: every element comes from somewhere, none is lost, and what
\* changed places with an element after it had a smaller weight.
IsStableSort(list, in, n) ==
    /\ IsList(list, n)
    /\ \E from \in [1 .. n -> 1 .. n] :
          /\ \A p \in 1 .. n : list[p] = in[from[p]]
          /\ Complete(from, n)
          /\ Stable(from, in, n)

\* By induction on the positions inserted.
LEMMA SortIsStable ==
    ASSUME NetworkAssumption, priority \in Priorities,
           NEW n \in Nat \ {0}, NEW in, IsList(in, n)
    PROVE  IsStableSort(Sorted(in), in, n)
<1>1. PICK pass : IsSort(pass, in, n)
  BY SortedStepwise
<1> DEFINE Good(j) == \E from : /\ Comes(from, pass[j], in, n, j)
                                /\ Complete(from, n)
                                /\ Stable(from, in, n)
           T == {j \in 1 .. n : ~Good(j)}
<1>2. Good(1)
  <2> DEFINE id == [p \in 1 .. n |-> p]
  <2>1. pass[1] = in
    BY <1>1 DEF IsSort
  <2>2. Landing(in, 1) = 1
    BY LandingBeginsRun DEF BeginsRun
  <2>3. Comes(id, in, in, n, 1)
    BY <2>2 DEF Comes
  <2>4. Complete(id, n) /\ Stable(id, in, n)
    BY DEF Complete, Stable
  <2> QED BY <2>1, <2>3, <2>4
<1>3. T = {}
  <2>1. SUFFICES ASSUME T # {} PROVE FALSE
    OBVIOUS
  <2>2. PICK j \in T : \A m \in T : j <= m
    <3>1. T \subseteq Nat
      OBVIOUS
    <3> HIDE DEF T
    <3> QED BY <2>1, <3>1, LeastNumber
  <2>3. j \in 2 .. n /\ j - 1 \in 1 .. n /\ ~(j <= j - 1) /\ ~Good(j)
    <3>1. j \in 1 .. n /\ j # 1
      BY <1>2, <2>2
    <3> QED BY <2>2, <3>1
  <2>4. Good(j - 1)
    BY <2>2, <2>3
  <2>5. PICK from : /\ Comes(from, pass[j - 1], in, n, j - 1)
                    /\ Complete(from, n)
                    /\ Stable(from, in, n)
    BY <2>4
  <2>6. IsList(pass[j - 1], n) /\ pass[j] = Insert(in, pass[j - 1], j)
    BY <1>1, <2>3 DEF IsSort
  <2>7. Good(j)
    BY <2>3, <2>5, <2>6, InsertionIsStable
  <2> QED BY <2>3, <2>7
<1>4. Good(n)
  BY <1>3
<1>5. Sorted(in) = pass[n] /\ IsList(pass[n], n)
  BY <1>1 DEF IsSort
<1> QED BY <1>4, <1>5 DEF IsStableSort, Comes

-----------------------------------------------------------------------------
(* The filter.                                                              *)

\* A filter admits an address if it is empty or one of its networks contains it.
Admits(nets, a) == nets = <<>> \/ \E m \in DOMAIN nets : a \in nets[m]

\* No two networks overlap.
Apart(nets) == \A l, m \in DOMAIN nets : l # m => nets[l] \cap nets[m] = {}

\* The list keeps what the networks admit of the first j addresses of `in`, in
\* the same order, and no longer than they are if no two networks overlap.
Selects(list, nets, in, j) ==
    \E c \in Nat :
        /\ IsList(list, c)
        /\ Apart(nets) => c <= j
        /\ \A p \in 1 .. c : Admits(nets, list[p])
        /\ \A x \in 1 .. j : Admits(nets, in[x]) => \E p \in 1 .. c : list[p] = in[x]
        /\ \E from \in [1 .. c -> 1 .. j] :
              /\ \A p \in 1 .. c : list[p] = in[from[p]]
              /\ \A p, q \in 1 .. c : p < q => from[p] <= from[q]

\* The address x, once per network around it.
Copies(nets, x) == [p \in 1 .. Cardinality({m \in DOMAIN nets : x \in nets[m]}) |-> x]

\* At least one if the networks admit it, at most one if they do not overlap.
LEMMA CopiesOfOne ==
    ASSUME NEW nets \in Seq(SUBSET Addresses), nets # <<>>, NEW x \in Addresses
    PROVE  \E d \in Nat : /\ IsList(Copies(nets, x), d)
                          /\ \A p \in 1 .. d : Copies(nets, x)[p] = x
                          /\ Admits(nets, x) <=> d # 0
                          /\ Apart(nets) => d <= 1
<1> DEFINE around == {m \in DOMAIN nets : x \in nets[m]}
           d == Cardinality(around)
<1>1. IsFiniteSet(DOMAIN nets)
  <2>1. DOMAIN nets = 1 .. Len(nets) /\ Len(nets) \in Int
    BY LenProperties
  <2> QED BY <2>1, FS_Interval
<1>2. IsFiniteSet(around)
  BY <1>1, FS_Subset
<1>3. d \in Nat /\ (d = 0 <=> around = {})
  <2> HIDE DEF around
  <2> QED BY <1>2, FS_CardinalityType, FS_EmptySet
<1>4. Admits(nets, x) <=> around # {}
  BY DEF Admits
<1>5. Apart(nets) => d <= 1
  <2>1. SUFFICES ASSUME Apart(nets), NEW m \in around PROVE d <= 1
    BY <1>3
  <2>2. around = {m}
    BY <2>1 DEF Apart
  <2>3. d = 1
    BY <2>2, FS_Singleton
  <2> QED BY <2>3
<1>6. IsList(Copies(nets, x), d) /\ \A p \in 1 .. d : Copies(nets, x)[p] = x
  <2>1. Copies(nets, x) = [p \in 1 .. d |-> x]
    BY DEF Copies
  <2> HIDE DEF d
  <2> QED BY <1>3, <2>1 DEF IsList
<1> HIDE DEF around, d
<1> QED BY <1>3, <1>4, <1>5, <1>6

\* FilterIPAddress goes on to the next address.
LEMMA SelectsOneMore ==
    ASSUME NEW nets \in Seq(SUBSET Addresses), nets # <<>>,
           NEW n \in Nat, NEW in, IsList(in, n), NEW j \in 1 .. n,
           NEW list, Selects(list, nets, in, j - 1)
    PROVE  Selects(list \o Copies(nets, in[j]), nets, in, j)
<1> DEFINE i == j - 1
           more == Copies(nets, in[j])
           both == list \o more
<1>1. i \in Nat /\ i + 1 = j /\ j \in Nat /\ \A x \in 1 .. j : x = j \/ x \in 1 .. i
  OBVIOUS
<1>2. Selects(list, nets, in, i)
  OBVIOUS
<1> HIDE DEF i
<1>3. PICK c \in Nat :
        /\ IsList(list, c)
        /\ Apart(nets) => c <= i
        /\ \A p \in 1 .. c : Admits(nets, list[p])
        /\ \A x \in 1 .. i : Admits(nets, in[x]) => \E p \in 1 .. c : list[p] = in[x]
        /\ \E from \in [1 .. c -> 1 .. i] :
              /\ \A p \in 1 .. c : list[p] = in[from[p]]
              /\ \A p, q \in 1 .. c : p < q => from[p] <= from[q]
  BY <1>2 DEF Selects
<1>4. PICK from \in [1 .. c -> 1 .. i] :
        /\ \A p \in 1 .. c : list[p] = in[from[p]]
        /\ \A p, q \in 1 .. c : p < q => from[p] <= from[q]
  BY <1>3
<1>5. in[j] \in Addresses
  BY DEF IsList
<1>6. PICK d \in Nat : /\ IsList(more, d)
                       /\ \A p \in 1 .. d : more[p] = in[j]
                       /\ Admits(nets, in[j]) <=> d # 0
                       /\ Apart(nets) => d <= 1
  BY <1>5, CopiesOfOne
<1> HIDE DEF more
<1>7. IsJoin(both, list, c, more, d)
  BY <1>3, <1>6, Joined
<1> HIDE DEF both
<1> DEFINE e == c + d
<1>8. e \in Nat /\ e = c + d /\ c \in Nat /\ d \in Nat
  OBVIOUS
<1> HIDE DEF e
<1>9. /\ IsList(both, e)
      /\ \A p \in 1 .. c : both[p] = list[p]
      /\ \A p \in 1 .. e : p > c => both[p] = in[j]
  <2>1. IsList(both, e) /\ \A p \in 1 .. e : both[p] = IF p <= c THEN list[p] ELSE more[p - c]
    BY <1>7, <1>8 DEF IsJoin
  <2>2. \A p \in 1 .. c : p \in 1 .. e /\ p <= c
    BY <1>8
  <2>3. \A p \in 1 .. e : p > c => ~(p <= c) /\ p - c \in 1 .. d
    BY <1>8
  <2> QED BY <1>6, <2>1, <2>2, <2>3
<1>10. \A p \in 1 .. e : p \in 1 .. c \/ (p > c /\ d # 0)
  BY <1>8
<1>11. Apart(nets) => e <= j
  BY <1>1, <1>3, <1>6, <1>8
<1>12. \A p \in 1 .. e : Admits(nets, both[p])
  BY <1>3, <1>6, <1>9, <1>10
<1>13. ASSUME NEW x \in 1 .. j, Admits(nets, in[x]) PROVE \E p \in 1 .. e : both[p] = in[x]
  <2>1. CASE x = j
    <3>1. d # 0
      BY <1>6, <1>13, <2>1
    <3>2. e \in 1 .. e /\ e > c
      BY <1>8, <3>1
    <3> QED BY <1>9, <2>1, <3>2
  <2>2. CASE x \in 1 .. i
    <3>1. PICK p \in 1 .. c : list[p] = in[x]
      BY <1>3, <1>13, <2>2
    <3>2. p \in 1 .. e
      BY <1>8
    <3> QED BY <1>9, <3>1, <3>2
  <2> QED BY <1>1, <2>1, <2>2
<1> DEFINE new == [p \in 1 .. e |-> IF p <= c THEN from[p] ELSE j]
<1>14. new \in [1 .. e -> 1 .. j]
  BY <1>1, <1>8
<1>15. \A p \in 1 .. e : both[p] = in[new[p]]
  <2> TAKE p \in 1 .. e
  <2>1. CASE p \in 1 .. c
    BY <1>4, <1>9, <2>1
  <2>2. CASE p > c
    <3>1. ~(p <= c)
      BY <1>8, <2>2
    <3> QED BY <1>9, <2>2, <3>1
  <2> QED BY <1>10, <2>1, <2>2
<1>16. \A p, q \in 1 .. e : p < q => new[p] <= new[q]
  <2> TAKE p, q \in 1 .. e
  <2> HAVE p < q
  <2>1. CASE q <= c
    <3>1. p \in 1 .. c /\ q \in 1 .. c /\ p <= c
      BY <1>8, <2>1
    <3> QED BY <1>4, <2>1, <3>1
  <2>2. CASE ~(q <= c)
    <3>1. new[q] = j /\ new[p] \in 1 .. j
      BY <1>14, <2>2
    <3> QED BY <1>1, <3>1
  <2> QED BY <2>1, <2>2
<1> HIDE DEF new
<1>17. \E f \in [1 .. e -> 1 .. j] :
          /\ \A p \in 1 .. e : both[p] = in[f[p]]
          /\ \A p, q \in 1 .. e : p < q => f[p] <= f[q]
  BY <1>14, <1>15, <1>16, Zenon
<1>18. e \in Nat /\ \A x \in 1 .. j : Admits(nets, in[x]) => \E p \in 1 .. e : both[p] = in[x]
  BY <1>8, <1>13
<1>19. Selects(both, nets, in, j)
  BY <1>9, <1>11, <1>12, <1>17, <1>18, Zenon DEF Selects
<1> QED BY <1>19 DEF both, more

\* The whole filter, by induction on the addresses.
LEMMA MatchesSelects ==
    ASSUME NEW nets \in Seq(SUBSET Addresses), nets # <<>>,
           NEW n \in Nat, NEW in, IsList(in, n)
    PROVE  Selects(Matches(nets, in), nets, in, n)
<1> DEFINE lists == [k \in 1 .. n |-> Copies(nets, in[k])]
<1>1. Matches(nets, in) = FlattenSeq(lists)
  <2>1. DOMAIN in = 1 .. n
    BY DEF IsList
  <2> QED BY <2>1 DEF Matches, Copies
<1>2. ASSUME NEW k \in 1 .. n PROVE Copies(nets, in[k]) \in Seq(Addresses)
  <2>1. in[k] \in Addresses
    BY DEF IsList
  <2>2. PICK d \in Nat : IsList(Copies(nets, in[k]), d)
    BY <2>1, CopiesOfOne
  <2> QED BY <2>2, SequencesAreFunctions DEF IsList
<1>3. lists \in [1 .. n -> Seq(Addresses)]
  BY <1>2
<1>4. Selects(<<>>, nets, in, 0)
  <2> DEFINE none == [p \in 1 .. 0 |-> 1]
  <2>1. none \in [1 .. 0 -> 1 .. 0]
    OBVIOUS
  <2>2. IsList(<<>>, 0)
    BY DEF IsList
  <2>3. 0 \in Nat /\ 0 <= 0 /\ 1 .. 0 = {}
    OBVIOUS
  <2> HIDE DEF none
  <2> QED BY <2>1, <2>2, <2>3 DEF Selects
<1>5. CASE n = 0
  <2>1. lists \in Seq(Seq(Addresses)) /\ Len(lists) = 0
    BY <1>3, <1>5, SequencesAreFunctions
  <2>2. lists = <<>>
    BY <2>1, EmptySeq
  <2>3. FlattenSeq(lists) = <<>>
    BY <2>1, <2>2 DEF FlattenSeq
  <2> QED BY <1>1, <1>4, <1>5, <2>3
<1>6. CASE n # 0
  <2>0. PICK flat : IsFlattening(flat, lists, Addresses, n)
    <3>1. n \in Nat \ {0} /\ AreLists(lists, Addresses, n)
      BY <1>3, <1>6 DEF AreLists
    <3> HIDE DEF lists
    <3> QED BY <3>1, Flattened
  <2>1. /\ flat[1] = lists[1]
        /\ \A i \in 2 .. n : flat[i] = flat[i - 1] \o lists[i]
        /\ FlattenSeq(lists) = flat[n]
    BY <2>0 DEF IsFlattening
  <2>2. \A k \in 1 .. n : lists[k] = Copies(nets, in[k])
    OBVIOUS
  <2> HIDE DEF lists
  <2>3. Selects(flat[1], nets, in, 1)
    <3>1. 1 \in 1 .. n /\ 1 - 1 = 0
      BY <1>6
    <3>2. Selects(<<>> \o Copies(nets, in[1]), nets, in, 1)
      BY <1>4, <3>1, SelectsOneMore
    <3>3. <<>> \o Copies(nets, in[1]) = Copies(nets, in[1])
      BY <1>2, <3>1, ConcatEmptySeq
    <3> QED BY <2>1, <2>2, <3>1, <3>2, <3>3
  <2> DEFINE T == {i \in 1 .. n : ~Selects(flat[i], nets, in, i)}
  <2>4. T = {}
    <3>1. SUFFICES ASSUME T # {} PROVE FALSE
      OBVIOUS
    <3>2. PICK i \in T : \A m \in T : i <= m
      <4>1. T \subseteq Nat
        OBVIOUS
      <4> HIDE DEF T
      <4> QED BY <3>1, <4>1, LeastNumber
    <3>3. i \in 1 .. n /\ i # 1 /\ ~Selects(flat[i], nets, in, i)
      BY <2>3, <3>2
    <3>4. i - 1 \in 1 .. n /\ i \in 2 .. n /\ ~(i <= i - 1)
      BY <3>3
    <3>5. Selects(flat[i - 1], nets, in, i - 1)
      BY <3>2, <3>4
    <3>6. Selects(flat[i - 1] \o Copies(nets, in[i]), nets, in, i)
      BY <3>3, <3>5, SelectsOneMore
    <3> QED BY <2>1, <2>2, <3>3, <3>4, <3>6
  <2>5. Selects(flat[n], nets, in, n)
    <3>1. n \in 1 .. n
      BY <1>6
    <3> QED BY <2>4, <3>1
  <2> QED BY <1>1, <2>1, <2>5
<1> QED BY <1>5, <1>6

-----------------------------------------------------------------------------
(* Both, in the state.                                                      *)

\* What FilterIPAddress leaves in addrs.
Filtered == IF filter = <<>> THEN addresses ELSE Matches(filter, addresses)

\* With an empty filter, too.
LEMMA FilteredSelects ==
    ASSUME NetworkAssumption, filter \in Filters, addresses \in AddressLists
    PROVE  /\ Selects(Filtered, filter, addresses, Len(addresses))
           /\ IsList(addresses, Len(addresses))
<1> DEFINE n == Len(addresses)
<1>1. n \in Nat /\ IsList(addresses, n)
  <2>1. addresses \in Seq(Addresses)
    BY DEF NetworkAssumption
  <2>2. n \in Nat /\ addresses \in [1 .. n -> Addresses]
    BY <2>1, LenProperties
  <2> QED BY <2>2 DEF IsList
<1> HIDE DEF n
<1>2. CASE filter = <<>>
  <2> DEFINE id == [p \in 1 .. n |-> p]
  <2>1. id \in [1 .. n -> 1 .. n] /\ \A p \in 1 .. n : id[p] = p
    OBVIOUS
  <2>2. n <= n /\ \A a : Admits(filter, a)
    BY <1>1, <1>2 DEF Admits
  <2> HIDE DEF id
  <2>3. /\ \A p \in 1 .. n : addresses[p] = addresses[id[p]]
        /\ \A p, q \in 1 .. n : p < q => id[p] <= id[q]
    BY <1>1, <2>1
  <2>4. Selects(addresses, filter, addresses, n)
    BY <1>1, <2>1, <2>2, <2>3 DEF Selects
  <2> QED BY <1>1, <1>2, <2>4 DEF Filtered, n
<1>3. CASE filter # <<>>
  <2>1. filter \in Seq(SUBSET Addresses)
    BY DEF NetworkAssumption
  <2>2. Selects(Matches(filter, addresses), filter, addresses, n)
    BY <1>1, <1>3, <2>1, MatchesSelects
  <2> QED BY <1>1, <1>3, <2>2 DEF Filtered, n
<1> QED BY <1>2, <1>3

\* The list has what the networks admit of `in`, whatever the order.
KeepsAll(list, nets, in) ==
    \E c \in Nat :
        /\ IsList(list, c)
        /\ Apart(nets) => c <= Len(in)
        /\ \A p \in 1 .. c : Admits(nets, list[p]) /\ \E x \in 1 .. Len(in) : in[x] = list[p]
        /\ \A x \in 1 .. Len(in) : Admits(nets, in[x]) => \E p \in 1 .. c : list[p] = in[x]

\* It has its equals in the order they have in `in`.
KeepsOrder(list, in) ==
    \A m, n \in DOMAIN list :
        m < n /\ Weight(list[m]) = Weight(list[n]) /\ list[m] # list[n] =>
            \E p, q \in DOMAIN in : p < q /\ in[p] = list[m] /\ in[q] = list[n]

\* The filter, as above, without the order.
LEMMA SelectedKeepsAll ==
    ASSUME NEW list, NEW nets, NEW in, Selects(list, nets, in, Len(in))
    PROVE  KeepsAll(list, nets, in)
<1> DEFINE n == Len(in)
<1>1. PICK c \in Nat :
        /\ IsList(list, c)
        /\ Apart(nets) => c <= n
        /\ \A p \in 1 .. c : Admits(nets, list[p])
        /\ \A x \in 1 .. n : Admits(nets, in[x]) => \E p \in 1 .. c : list[p] = in[x]
        /\ \E from \in [1 .. c -> 1 .. n] : \A p \in 1 .. c : list[p] = in[from[p]]
  BY DEF Selects
<1> HIDE DEF n
<1>2. PICK from \in [1 .. c -> 1 .. n] : \A p \in 1 .. c : list[p] = in[from[p]]
  BY <1>1
<1>3. \A p \in 1 .. c : \E x \in 1 .. n : in[x] = list[p]
  <2> TAKE p \in 1 .. c
  <2>1. from[p] \in 1 .. n /\ in[from[p]] = list[p]
    BY <1>2
  <2> QED BY <2>1
<1>4. \A p \in 1 .. c : Admits(nets, list[p]) /\ \E x \in 1 .. n : in[x] = list[p]
  BY <1>1, <1>3
<1> QED BY <1>1, <1>4, Zenon DEF KeepsAll, n

\* The sort loses nothing and adds nothing ...
LEMMA SortKeepsAll ==
    ASSUME NetworkAssumption, priority \in Priorities,
           NEW list, Len(list) # 0, NEW nets, NEW in, KeepsAll(list, nets, in)
    PROVE  KeepsAll(Sorted(list), nets, in) /\ Len(Sorted(list)) = Len(list)
<1> DEFINE n == Len(in)
<1>1. PICK c \in Nat :
        /\ IsList(list, c)
        /\ Apart(nets) => c <= n
        /\ \A p \in 1 .. c : Admits(nets, list[p]) /\ \E x \in 1 .. n : in[x] = list[p]
        /\ \A x \in 1 .. n : Admits(nets, in[x]) => \E p \in 1 .. c : list[p] = in[x]
  BY DEF KeepsAll
<1>2. c \in Nat \ {0} /\ Len(list) = c
  <2>1. Len(list) = c
    BY <1>1, SequencesAreFunctions DEF IsList
  <2> QED BY <2>1
<1>3. IsStableSort(Sorted(list), list, c)
  BY <1>1, <1>2, SortIsStable
<1> DEFINE sorted == Sorted(list)
<1> HIDE DEF n, sorted
<1>4. IsList(sorted, c)
  BY <1>3 DEF IsStableSort, sorted
<1>5. PICK from \in [1 .. c -> 1 .. c] :
        (\A p \in 1 .. c : sorted[p] = list[from[p]]) /\ Complete(from, c)
  BY <1>3 DEF IsStableSort, sorted
<1>6. \A p \in 1 .. c : Admits(nets, sorted[p]) /\ \E x \in 1 .. n : in[x] = sorted[p]
  <2> TAKE p \in 1 .. c
  <2>1. sorted[p] = list[from[p]]
    BY <1>5
  <2>2. PICK q \in 1 .. c : q = from[p]
    OBVIOUS
  <2>3. Admits(nets, list[q]) /\ \E x \in 1 .. n : in[x] = list[q]
    BY <1>1, Zenon
  <2>4. list[q] = sorted[p]
    BY <2>1, <2>2
  <2> QED BY <2>3, <2>4, Zenon
<1>7. ASSUME NEW x \in 1 .. n, Admits(nets, in[x]) PROVE \E p \in 1 .. c : sorted[p] = in[x]
  <2>1. PICK q \in 1 .. c : list[q] = in[x]
    BY <1>1, <1>7
  <2>2. PICK p \in 1 .. c : from[p] = q
    BY <1>5 DEF Complete
  <2> QED BY <1>5, <2>1, <2>2
<1>8. Len(sorted) = c
  BY <1>4, SequencesAreFunctions DEF IsList
<1> QED BY <1>1, <1>2, <1>4, <1>6, <1>7, <1>8 DEF KeepsAll, sorted, n

\* ... and if two equals changed places, it was not in the sort, which exchanges only
\* elements of different weights, nor in the filter, which exchanges none.
LEMMA SortKeepsOrder ==
    ASSUME NetworkAssumption, priority \in Priorities,
           NEW nets, NEW n \in Nat, NEW in, IsList(in, n),
           NEW list, Len(list) # 0, Selects(list, nets, in, n)
    PROVE  KeepsOrder(Sorted(list), in)
<1>1. PICK c \in Nat :
        /\ IsList(list, c)
        /\ \E from \in [1 .. c -> 1 .. n] :
              /\ \A p \in 1 .. c : list[p] = in[from[p]]
              /\ \A p, q \in 1 .. c : p < q => from[p] <= from[q]
  BY DEF Selects
<1>2. PICK from \in [1 .. c -> 1 .. n] :
        /\ \A p \in 1 .. c : list[p] = in[from[p]]
        /\ \A p, q \in 1 .. c : p < q => from[p] <= from[q]
  BY <1>1
<1>3. c \in Nat \ {0}
  <2>1. Len(list) = c
    BY <1>1, SequencesAreFunctions DEF IsList
  <2> QED BY <2>1
<1> DEFINE sorted == Sorted(list)
<1>4. IsStableSort(sorted, list, c)
  BY <1>1, <1>3, SortIsStable
<1> HIDE DEF sorted
<1>5. PICK before \in [1 .. c -> 1 .. c] :
        (\A p \in 1 .. c : sorted[p] = list[before[p]]) /\ Stable(before, list, c)
  BY <1>4 DEF IsStableSort
<1>6. DOMAIN sorted = 1 .. c /\ DOMAIN in = 1 .. n
  BY <1>4 DEF IsStableSort, IsList
<1>7. ASSUME NEW p \in 1 .. c, NEW q \in 1 .. c, p < q,
             Weight(sorted[p]) = Weight(sorted[q]), sorted[p] # sorted[q]
      PROVE  \E x, y \in 1 .. n : x < y /\ in[x] = sorted[p] /\ in[y] = sorted[q]
  <2> DEFINE l == before[p]
             m == before[q]
  <2>1. l \in 1 .. c /\ m \in 1 .. c /\ sorted[p] = list[l] /\ sorted[q] = list[m]
    BY <1>5
  <2>2. ~(l > m)
    <3>1. l > m => Weight(list[l]) > Weight(list[m])
      BY <1>5, <1>7 DEF Stable
    <3>2. Weight(list[l]) \in Nat /\ Weight(list[l]) = Weight(list[m])
      BY <1>7, <2>1, WeightIsGreatest
    <3> QED BY <3>1, <3>2
  <2> HIDE DEF l, m
  <2>3. l < m
    BY <1>7, <2>1, <2>2
  <2>4. /\ from[l] \in 1 .. n /\ from[m] \in 1 .. n /\ from[l] <= from[m]
        /\ list[l] = in[from[l]] /\ list[m] = in[from[m]]
    BY <1>2, <2>1, <2>3
  <2>5. from[l] # from[m]
    BY <1>7, <2>1, <2>4
  <2>6. from[l] < from[m]
    BY <2>4, <2>5
  <2> QED BY <2>1, <2>4, <2>6
<1> QED BY <1>6, <1>7 DEF KeepsOrder, sorted

\* One address or two: the heavier one is first.
HeaviestFirst(list) == \A p \in DOMAIN list : Weight(list[p]) <= Weight(list[1])

\* The second is inserted before the first only when it is heavier.
LEMMA SortPutsHeaviestFirst ==
    ASSUME NetworkAssumption, priority \in Priorities,
           NEW list, NEW n \in 1 .. 2, IsList(list, n)
    PROVE  HeaviestFirst(Sorted(list))
<1>1. \A a : Weight(a) \in Nat
  BY WeightIsGreatest
<1>2. PICK pass : IsSort(pass, list, n)
  <2>1. n \in Nat \ {0}
    OBVIOUS
  <2> QED BY <2>1, SortedStepwise
<1>3. CASE n = 1
  <2>1. Sorted(list) = list /\ DOMAIN list = {1}
    BY <1>2, <1>3 DEF IsSort, IsList
  <2> QED BY <1>1, <2>1 DEF HeaviestFirst
<1>4. CASE n = 2
  <2> DEFINE k == Landing(list, 2)
  <2>1. k \in 1 .. 2 /\ (k = 1 => Less(list, 2, 1)) /\ (k = 2 => ~Less(list, 2, 1))
    <3>1. BeginsRun(list, k, 2)
      BY LandingBeginsRun
    <3> HIDE DEF k
    <3>2. k \in 1 .. 2 /\ 2 \in (1 + 1) .. 2 /\ 2 - 1 = 1 /\ 2 > 1
      BY <3>1 DEF BeginsRun
    <3> QED BY <3>1, <3>2 DEF BeginsRun
  <2>2. pass[1] = list /\ pass[2] = Insert(list, pass[2 - 1], 2) /\ Sorted(list) = pass[2]
    BY <1>2, <1>4 DEF IsSort
  <2>3. 2 - 1 = 1 /\ 2 \in 1 .. n /\ n \in Nat
    BY <1>4
  <2>4. Insert(list, list, 2) = Moved(list, k, 2)
    BY <2>1, <2>3, InsertMoves
  <2> HIDE DEF k
  <2>5. Sorted(list) = Moved(list, k, 2)
    BY <2>2, <2>3, <2>4
  <2>6. DOMAIN list = {1, 2}
    BY <1>4 DEF IsList
  <2>7. CASE k = 1
    <3>1. /\ DOMAIN Sorted(list) = {1, 2}
          /\ Sorted(list)[1] = list[2] /\ Sorted(list)[2] = list[1]
      BY <2>5, <2>6, <2>7 DEF Moved
    <3>2. Weight(list[2]) > Weight(list[1])
      BY <2>1, <2>7 DEF Less
    <3> QED BY <1>1, <3>1, <3>2 DEF HeaviestFirst
  <2>8. CASE k = 2
    <3>1. /\ DOMAIN Sorted(list) = {1, 2}
          /\ Sorted(list)[1] = list[1] /\ Sorted(list)[2] = list[2]
      BY <2>5, <2>6, <2>8 DEF Moved
    <3>2. ~(Weight(list[2]) > Weight(list[1]))
      BY <2>1, <2>8 DEF Less
    <3> QED BY <1>1, <3>1, <3>2 DEF HeaviestFirst
  <2> QED BY <2>1, <2>7, <2>8
<1> QED BY <1>3, <1>4

-----------------------------------------------------------------------------
(* The state.                                                               *)

\* The configuration and the resource, which no step changes.
Chosen ==
    /\ filter \in Filters /\ priority \in Priorities /\ addresses \in AddressLists
    /\ outcome \in {"filter", "sort", "ok", "no match", "panic"}

\* After the filter the list has what it should have ...
Kept == outcome # "filter" => KeepsAll(addrs, filter, addresses)

\* ... in the order of the resource until the sort, that some address reaches ...
Unsorted ==
    outcome = "sort" => /\ addrs = Filtered
                        /\ Len(addrs) # 0 /\ Len(addrs) <= Len(addresses)

\* ... and each end has its reason.
Ended ==
    /\ outcome = "no match" => Len(addrs) = 0
    /\ outcome = "panic" => Len(addrs) > Len(addresses)
    /\ outcome = "ok" => /\ KeepsOrder(addrs, addresses)
                         /\ Len(addresses) <= 2 => HeaviestFirst(addrs)

IInv == Chosen /\ Kept /\ Unsorted /\ Ended

\* Before the filter nothing is claimed of the list.
LEMMA InitSelected == Init => IInv
BY DEF Init, IInv, Chosen, Kept, Unsorted, Ended

\* A list that keeps all has a length.
LEMMA KeptIsList ==
    ASSUME NEW list, NEW nets, NEW in, KeepsAll(list, nets, in)
    PROVE  IsList(list, Len(list)) /\ Len(list) \in Nat
<1>1. PICK c \in Nat : IsList(list, c)
  BY DEF KeepsAll
<1>2. Len(list) = c
  BY <1>1, SequencesAreFunctions DEF IsList
<1> QED BY <1>1, <1>2

\* Weights depend on the configuration only.
LEMMA WeightsStay == UNCHANGED priority => \A a : Weight(a)' = Weight(a)
BY DEF Weight

\* The invariant is inductive: the filter selects, the sort keeps.
LEMMA NextSelected == IInv /\ [Next]_vars => IInv'
<1> SUFFICES ASSUME IInv, [Next]_vars PROVE IInv'
  OBVIOUS
<1> USE NetworkAssumption DEF Chosen
<1>1. Chosen /\ Chosen'
  BY DEF IInv, Next, FilterIPAddress, SortIPAddress, vars
<1>2. CASE FilterIPAddress
  <2>1. /\ addrs' = Filtered /\ UNCHANGED <<filter, priority, addresses>>
        /\ outcome' = CASE Len(addrs') > Len(addresses) -> "panic"
                        [] Len(addrs') = 0              -> "no match"
                        [] OTHER                        -> "sort"
    BY <1>2 DEF FilterIPAddress, Filtered
  <2>2. KeepsAll(addrs', filter, addresses)
    BY <1>1, <2>1, FilteredSelects, SelectedKeepsAll
  <2>3. Kept'
    BY <2>1, <2>2 DEF Kept
  <2>4. Len(addrs') \in Nat /\ Len(addresses) \in Nat
    <3>1. addresses \in Seq(Addresses)
      BY <1>1 DEF NetworkAssumption
    <3> QED BY <2>2, <3>1, KeptIsList, LenProperties
  <2>5. Filtered' = Filtered
    BY <2>1 DEF Filtered
  <2>6. Unsorted'
    BY <2>1, <2>4, <2>5 DEF Unsorted
  <2>7. Ended'
    BY <2>1, <2>4 DEF Ended
  <2> QED BY <1>1, <2>3, <2>6, <2>7 DEF IInv
<1>3. CASE SortIPAddress
  <2>1. /\ outcome = "sort" /\ outcome' = "ok" /\ addrs' = Sorted(addrs)
        /\ UNCHANGED <<filter, priority, addresses>>
    BY <1>3 DEF SortIPAddress
  <2>2. /\ KeepsAll(addrs, filter, addresses) /\ addrs = Filtered
        /\ Len(addrs) # 0 /\ Len(addrs) <= Len(addresses)
    BY <2>1 DEF IInv, Kept, Unsorted
  <2>3. Kept'
    BY <1>1, <2>1, <2>2, SortKeepsAll DEF Kept
  <2>4. KeepsOrder(addrs', addresses)
    <3>1. /\ Selects(addrs, filter, addresses, Len(addresses))
          /\ IsList(addresses, Len(addresses)) /\ Len(addresses) \in Nat
      BY <1>1, <2>2, FilteredSelects DEF IsList
    <3> QED BY <1>1, <2>1, <2>2, <3>1, SortKeepsOrder
  <2>5. Len(addresses) <= 2 => HeaviestFirst(addrs')
    <3>1. IsList(addrs, Len(addrs)) /\ Len(addrs) \in Nat
      BY <2>2, KeptIsList
    <3>2. Len(addresses) \in Nat
      <4>1. addresses \in Seq(Addresses)
        BY <1>1 DEF NetworkAssumption
      <4> QED BY <4>1, LenProperties
    <3>3. Len(addresses) <= 2 => Len(addrs) \in 1 .. 2
      <4> DEFINE short == Len(addrs)
                 long == Len(addresses)
      <4>1. short \in Nat /\ long \in Nat /\ short # 0 /\ short <= long
        BY <2>2, <3>1, <3>2
      <4> HIDE DEF short, long
      <4>2. long <= 2 => short \in 1 .. 2
        BY <4>1
      <4> QED BY <4>2 DEF short, long
    <3> QED BY <1>1, <2>1, <3>1, <3>3, SortPutsHeaviestFirst
  <2>6. \A a : Weight(a)' = Weight(a)
    BY <2>1, WeightsStay
  <2>7. Ended'
    BY <2>1, <2>4, <2>5, <2>6 DEF Ended, KeepsOrder, HeaviestFirst
  <2>8. Unsorted'
    BY <2>1 DEF Unsorted
  <2> QED BY <1>1, <2>3, <2>7, <2>8 DEF IInv
<1>4. CASE UNCHANGED vars
  <2>1. UNCHANGED <<filter, priority, addresses, addrs, outcome>>
    BY <1>4 DEF vars
  <2>2. \A a : Weight(a)' = Weight(a)
    BY <2>1, WeightsStay
  <2>3. Kept' /\ Unsorted'
    BY <2>1 DEF IInv, Kept, Unsorted, Filtered
  <2>4. Ended'
    <3>1. KeepsOrder(addrs, addresses) => KeepsOrder(addrs, addresses)'
      BY <2>1, <2>2 DEF KeepsOrder
    <3>2. HeaviestFirst(addrs) => HeaviestFirst(addrs)'
      BY <2>1, <2>2 DEF HeaviestFirst
    <3> QED BY <2>1, <3>1, <3>2 DEF IInv, Ended
  <2> QED BY <1>1, <2>3, <2>4 DEF IInv
<1> QED BY <1>2, <1>3, <1>4 DEF Next

\* So it holds throughout.
LEMMA AlwaysSelected == Spec => []IInv
BY InitSelected, NextSelected, PTL DEF Spec

\* Among addresses of equal weight the resource's order decides which one commands
\* connect to (net.go:42-66), although `less` reads the list as it was before the sort
\* and not the one that is being sorted.
THEOREM OrderOfEquals == Spec => []KeepsOrderOfEquals
<1>1. IInv => KeepsOrderOfEquals
  BY DEF IInv, Ended, KeepsOrderOfEquals, KeepsOrder
<1> QED BY <1>1, AlwaysSelected, PTL

\* No filter has networks that overlap, as the default one has none (schema_defaults.go:67-72).
NetworksApart == \A nets \in Filters : Apart(nets)

\* Then the filter leaves exactly the admitted addresses, no more of them than the
\* resource lists, and has room for each (net.go:68-87).
THEOREM FilterIsExact ==
    ASSUME NetworksApart
    PROVE  Spec => []FiltersExactly
<1>1. ASSUME IInv PROVE FiltersExactly
  <2>1. Apart(filter) /\ addresses \in Seq(Addresses)
    BY <1>1, NetworkAssumption DEF IInv, Chosen, NetworksApart, NetworkAssumption
  <2>2. Len(addresses) \in Nat /\ DOMAIN addresses = 1 .. Len(addresses)
    BY <2>1, LenProperties
  <2>3. Admitted = {addresses[x] : x \in {y \in 1 .. Len(addresses) :
                                             Admits(filter, addresses[y])}}
    BY <2>2 DEF Admitted, Admits, ToSet
  <2>4. ASSUME outcome # "filter"
        PROVE  /\ ToSet(addrs) = Admitted /\ Len(addrs) <= Len(addresses)
               /\ Len(addrs) = 0 => Admitted = {}
    <3>1. PICK c \in Nat :
            /\ IsList(addrs, c)
            /\ Apart(filter) => c <= Len(addresses)
            /\ \A p \in 1 .. c : /\ Admits(filter, addrs[p])
                                 /\ \E x \in 1 .. Len(addresses) : addresses[x] = addrs[p]
            /\ \A x \in 1 .. Len(addresses) : Admits(filter, addresses[x]) =>
                  \E p \in 1 .. c : addrs[p] = addresses[x]
      BY <1>1, <2>4 DEF IInv, Kept, KeepsAll
    <3>2. Len(addrs) = c /\ ToSet(addrs) = {addrs[p] : p \in 1 .. c}
      BY <3>1, SequencesAreFunctions DEF IsList, ToSet
    <3>3. ToSet(addrs) = Admitted
      <4>1. ASSUME NEW p \in 1 .. c PROVE addrs[p] \in Admitted
        <5>1. PICK x \in 1 .. Len(addresses) : addresses[x] = addrs[p]
          BY <3>1
        <5>2. Admits(filter, addresses[x])
          BY <3>1, <5>1
        <5> QED BY <2>3, <5>1, <5>2
      <4>2. ASSUME NEW x \in 1 .. Len(addresses), Admits(filter, addresses[x])
            PROVE  addresses[x] \in ToSet(addrs)
        <5>1. PICK p \in 1 .. c : addrs[p] = addresses[x]
          BY <3>1, <4>2
        <5> QED BY <3>2, <5>1
      <4> QED BY <2>3, <3>2, <4>1, <4>2
    <3>4. c = 0 => Admitted = {}
      BY <3>2, <3>3
    <3> QED BY <2>1, <3>1, <3>2, <3>3, <3>4
  <2>5. outcome # "panic"
    <3>1. outcome = "panic" => Len(addrs) > Len(addresses) /\ Len(addrs) <= Len(addresses)
      BY <1>1, <2>4 DEF IInv, Ended
    <3>2. outcome = "panic" => Len(addrs) \in Nat
      BY <1>1, KeptIsList DEF IInv, Kept
    <3> QED BY <2>2, <3>1, <3>2
  <2>6. outcome = "no match" => Len(addrs) = 0
    BY <1>1 DEF IInv, Ended
  <2> QED BY <2>4, <2>5, <2>6 DEF FiltersExactly
<1> QED BY <1>1, AlwaysSelected, PTL

\* Resources list one address or two.
AtMostTwo == \A list \in AddressLists : Len(list) <= 2

\* Then the first address after the sort is one of the heaviest (net.go:42-66).  With
\* three it need not be: the run address_triples shows how.
THEOREM HeaviestIsPicked ==
    ASSUME AtMostTwo
    PROVE  Spec => []PicksHeaviest
<1>1. ASSUME IInv PROVE PicksHeaviest
  <2>1. SUFFICES ASSUME outcome = "ok", NEW a \in Admitted, NEW e \in priority,
                        a \in e[1], e[2] > 0
                 PROVE  \E f \in priority : addrs[1] \in f[1] /\ f[2] >= e[2]
    BY DEF PicksHeaviest
  <2>2. /\ addresses \in AddressLists /\ priority \in Priorities
        /\ KeepsAll(addrs, filter, addresses) /\ HeaviestFirst(addrs)
    BY <1>1, <2>1 DEF IInv, Chosen, Kept, Ended, AtMostTwo
  <2>3. \E p \in DOMAIN addrs : addrs[p] = a
    <3>1. addresses \in Seq(Addresses)
      BY <2>2, NetworkAssumption DEF NetworkAssumption
    <3>2. DOMAIN addresses = 1 .. Len(addresses)
      BY <3>1, LenProperties
    <3>3. \E x \in 1 .. Len(addresses) : addresses[x] = a /\ Admits(filter, a)
      BY <2>1, <3>2 DEF Admitted, Admits, ToSet
    <3> QED BY <2>2, <3>3 DEF KeepsAll, IsList
  <2>4. Weight(a) <= Weight(addrs[1])
    BY <2>2, <2>3 DEF HeaviestFirst
  <2>5. Weight(a) \in Nat /\ e[2] <= Weight(a) /\ e[2] \in Nat
    BY <2>1, <2>2, NetworkAssumption, WeightIsGreatest DEF NetworkAssumption
  <2>6. /\ Weight(addrs[1]) \in Nat
        /\ Weight(addrs[1]) = 0
           \/ \E f \in priority : addrs[1] \in f[1] /\ f[2] = Weight(addrs[1])
    BY <2>2, NetworkAssumption, WeightIsGreatest
  <2>7. Weight(addrs[1]) >= e[2] /\ Weight(addrs[1]) # 0
    BY <2>1, <2>4, <2>5, <2>6
  <2> QED BY <2>6, <2>7
<1> QED BY <1>1, AlwaysSelected, PTL
=============================================================================
