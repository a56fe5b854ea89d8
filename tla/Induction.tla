------------------------------- MODULE Induction -------------------------------
(***************************************************************************)
(* Lemmas that proofs about several components rest on: induction over the *)
(* natural numbers, values that are computed one step after another,       *)
(* sequences that ascend, and sequences put one behind the other.          *)
(***************************************************************************)
EXTENDS Ascending, SequencesExt, FiniteSetTheorems, SequenceTheorems, WellFoundedInduction, TLAPS

-----------------------------------------------------------------------------
(* Induction, stated of sets, where the provers can use it.                 *)

\* Every non-empty set of numbers has a least one.
LEMMA NatLeast ==
  ASSUME NEW T \in SUBSET Nat, T # {}
  PROVE  \E x \in T : \A y \in T : x <= y
<1> DEFINE R == OpToRel(<, Nat)
<1>1. IsWellFoundedOn(R, Nat)
  BY NatLessThanWellFounded
<1>2. \A x, y \in Nat : <<x, y>> \in R <=> x < y
  BY DEF OpToRel
<1> HIDE DEF R
<1>3. PICK x \in T : \A y \in T : ~(<<y, x>> \in R)
  BY <1>1, WFMin
<1>4. \A y \in T : ~(y < x)
  BY <1>2, <1>3
<1>5. \A y \in T : x <= y
  BY <1>4
<1> QED
  BY <1>5

LEMMA NatInd ==
  ASSUME NEW T \in SUBSET Nat, 0 \in T, \A n \in T : n + 1 \in T
  PROVE  T = Nat
<1> SUFFICES ASSUME Nat \ T # {} PROVE FALSE
  OBVIOUS
<1>1. PICK x \in Nat \ T : \A y \in Nat \ T : x <= y
  BY NatLeast
<1>2. x # 0
  BY <1>1
<1>3. x - 1 \in Nat /\ x - 1 \in T
  BY <1>1, <1>2
<1>4. x - 1 + 1 \in T
  BY <1>3
<1> QED
  BY <1>4

Iterates(f, first, n, step) == f[0] = first /\ \A k \in 1 .. n : f[k] = step[<<f[k - 1], k>>]

\* A value that is computed in steps, each from the one before, exists at every step: a
\* recursive function over 0 .. N with these equations is there to be chosen.
LEMMA IterationExists ==
  ASSUME NEW X, NEW first \in X, NEW N \in Nat, NEW step \in [X \X (1 .. N) -> X]
  PROVE  \E f \in [0 .. N -> X] : Iterates(f, first, N, step)
<1> DEFINE Steps(f, n) == f \in [0 .. n -> X] /\ Iterates(f, first, n, step)
           T == {n \in Nat : n <= N => \E f : Steps(f, n)}
<1>1. 0 \in T
  <2>1. Steps([k \in 0 .. 0 |-> first], 0)
    BY DEF Iterates
  <2> QED
    BY <2>1
<1>2. ASSUME NEW n \in T PROVE n + 1 \in T
  <2> SUFFICES ASSUME n + 1 <= N PROVE \E f : Steps(f, n + 1)
    OBVIOUS
  <2>1. n \in Nat /\ n <= N /\ n + 1 \in 1 .. N
    OBVIOUS
  <2>2. PICK f : Steps(f, n)
    BY <2>1
  <2> DEFINE last == step[<<f[n], n + 1>>]
             g == [k \in 0 .. (n + 1) |-> IF k = n + 1 THEN last ELSE f[k]]
  <2>3. f[n] \in X
    BY <2>1, <2>2
  <2>4. last \in X
    BY <2>1, <2>3
  <2>5. \A k \in 0 .. (n + 1) : k # n + 1 => k \in 0 .. n
    BY <2>1
  <2>6. g \in [0 .. (n + 1) -> X]
    BY <2>2, <2>4, <2>5
  <2>7. g[n + 1] = last /\ \A k \in 0 .. n : g[k] = f[k]
    BY <2>1
  <2> HIDE DEF g
  <2>8. ASSUME NEW k \in 1 .. (n + 1) PROVE g[k] = step[<<g[k - 1], k>>]
    <3>1. CASE k = n + 1
      <4>1. k - 1 = n /\ g[k - 1] = f[n]
        BY <2>1, <2>7, <3>1
      <4> QED
        BY <2>7, <3>1, <4>1
    <3>2. CASE k # n + 1
      <4>1. k \in 1 .. n /\ k - 1 \in 0 .. n /\ g[k] = f[k] /\ g[k - 1] = f[k - 1]
        BY <2>1, <2>7, <3>2
      <4> QED
        BY <2>2, <4>1 DEF Iterates
    <3> QED
      BY <3>1, <3>2
  <2>9. g[0] = first
    BY <2>1, <2>2, <2>7 DEF Iterates
  <2> QED
    BY <2>6, <2>8, <2>9 DEF Iterates
<1>3. T = Nat
  <2> HIDE DEF T
  <2>1. T \in SUBSET Nat
    BY DEF T
  <2> QED
    BY <1>1, <1>2, <2>1, NatInd
<1> QED
  BY <1>3

-----------------------------------------------------------------------------
(* Sequences that ascend.                                                   *)

Ascends(s, set, n) ==
  /\ s \in [1 .. n -> set]
  /\ \A i, j \in 1 .. n : i < j => s[i] < s[j]
  /\ \A e \in set : \E i \in 1 .. n : s[i] = e

\* A set behind its least number.
LEMMA AscendsFrom ==
  ASSUME NEW n \in Nat, NEW set \in SUBSET Nat, NEW least \in set, \A e \in set : least <= e,
         NEW t, Ascends(t, set \ {least}, n)
  PROVE  Ascends([i \in 1 .. (n + 1) |-> IF i = 1 THEN least ELSE t[i - 1]], set, n + 1)
<1> DEFINE s == [i \in 1 .. (n + 1) |-> IF i = 1 THEN least ELSE t[i - 1]]
<1>1. t \in [1 .. n -> set \ {least}] /\ \A i \in 1 .. n : t[i] \in set /\ least < t[i] /\ t[i] \in Nat
  <2>1. t \in [1 .. n -> set \ {least}]
    BY DEF Ascends
  <2>2. \A e \in set \ {least} : least < e
    OBVIOUS
  <2> QED
    BY <2>1, <2>2
<1>2. s[1] = least /\ \A i \in 2 .. (n + 1) : s[i] = t[i - 1] /\ i - 1 \in 1 .. n
  OBVIOUS
<1>3. \A i \in 1 .. (n + 1) : i = 1 \/ i \in 2 .. (n + 1)
  OBVIOUS
<1>4. s \in [1 .. (n + 1) -> set]
  <2>1. \A i \in 1 .. (n + 1) : s[i] \in set
    <3> HIDE DEF s
    <3> QED
      BY <1>1, <1>2, <1>3
  <2> QED
    BY <2>1
<1> HIDE DEF s
<1>5. ASSUME NEW i \in 1 .. (n + 1), NEW j \in 1 .. (n + 1), i < j PROVE s[i] < s[j]
  <2>1. j \in 2 .. (n + 1) /\ s[j] = t[j - 1] /\ j - 1 \in 1 .. n
    BY <1>2, <1>5
  <2>2. CASE i = 1
    BY <1>1, <1>2, <2>1, <2>2
  <2>3. CASE i # 1
    <3>1. s[i] = t[i - 1] /\ i - 1 \in 1 .. n /\ i - 1 < j - 1
      BY <1>2, <1>3, <1>5, <2>1, <2>3
    <3> QED
      BY <2>1, <3>1 DEF Ascends
  <2> QED
    BY <2>2, <2>3
<1>6. ASSUME NEW e \in set PROVE \E i \in 1 .. (n + 1) : s[i] = e
  <2>1. CASE e = least
    BY <1>2, <2>1
  <2>2. CASE e # least
    <3>1. PICK k \in 1 .. n : t[k] = e
      BY <2>2 DEF Ascends
    <3>2. k + 1 \in 2 .. (n + 1) /\ k + 1 - 1 = k
      OBVIOUS
    <3> QED
      BY <1>2, <1>3, <3>1, <3>2
  <2> QED
    BY <2>1, <2>2
<1>7. Ascends(s, set, n + 1)
  BY <1>4, <1>5, <1>6 DEF Ascends
<1> QED
  BY <1>7 DEF s

\* A finite set of numbers has an ascending sequence of its elements.
LEMMA OrderExists ==
  ASSUME NEW set \in SUBSET Nat, IsFiniteSet(set)
  PROVE  \E s : Ascends(s, set, Cardinality(set))
<1> DEFINE T == {n \in Nat : \A U \in SUBSET Nat :
                              IsFiniteSet(U) /\ Cardinality(U) = n => \E s : Ascends(s, U, n)}
<1>1. 0 \in T
  <2> SUFFICES ASSUME NEW U \in SUBSET Nat, IsFiniteSet(U), Cardinality(U) = 0 PROVE \E s : Ascends(s, U, 0)
    OBVIOUS
  <2>1. U = {}
    BY FS_EmptySet
  <2>2. Ascends(<<>>, U, 0)
    BY <2>1 DEF Ascends
  <2> QED
    BY <2>2
<1>2. ASSUME NEW n \in T PROVE n + 1 \in T
  <2>1. n \in Nat
    OBVIOUS
  <2> SUFFICES ASSUME NEW U \in SUBSET Nat, IsFiniteSet(U), Cardinality(U) = n + 1
               PROVE  \E s : Ascends(s, U, n + 1)
    BY <2>1
  <2>2. U # {}
    BY <2>1, FS_EmptySet
  <2>3. PICK least \in U : \A e \in U : least <= e
    BY <2>2, NatLeast
  <2>4. IsFiniteSet(U \ {least}) /\ Cardinality(U \ {least}) = n
    <3>1. IsFiniteSet(U \ {least}) /\ Cardinality(U \ {least}) = Cardinality(U) - 1
      BY FS_RemoveElement
    <3> QED
      BY <2>1, <3>1
  <2>5. PICK t : Ascends(t, U \ {least}, n)
    BY <2>4
  <2> QED
    BY <2>1, <2>3, <2>5, AscendsFrom
<1>3. T = Nat
  <2> HIDE DEF T
  <2>1. T \in SUBSET Nat
    BY DEF T
  <2> QED
    BY <1>1, <1>2, <2>1, NatInd
<1>4. Cardinality(set) \in T
  BY <1>3, FS_CardinalityType
<1> QED
  BY <1>4

\* In a sequence that ascends, k - 1 elements are below the k-th.
LEMMA PlaceCounts ==
  ASSUME NEW set \in SUBSET Nat, NEW N \in Nat, NEW s, Ascends(s, set, N), NEW k \in 1 .. N
  PROVE  s[k] \in set /\ Cardinality(Smaller(set, s[k])) = k - 1
<1> DEFINE below == {x \in set : x < s[k]}
           f == [i \in 1 .. (k - 1) |-> s[i]]
<1>1. s \in [1 .. N -> set] /\ \A i \in 1 .. N : s[i] \in Nat
  BY DEF Ascends
<1>2. \A i \in 1 .. (k - 1) : i \in 1 .. N /\ s[i] \in below
  BY <1>1 DEF Ascends
<1>3. f \in [1 .. (k - 1) -> below]
  BY <1>2
<1>4. ASSUME NEW i \in 1 .. (k - 1), NEW j \in 1 .. (k - 1), f[i] = f[j] PROVE i = j
  <2>1. i \in 1 .. N /\ j \in 1 .. N /\ s[i] = s[j] /\ s[i] \in Nat /\ s[j] \in Nat
    BY <1>1, <1>2, <1>4
  <2>2. ~(i < j) /\ ~(j < i)
    BY <2>1 DEF Ascends
  <2> QED
    BY <2>2
<1>5. ASSUME NEW x \in below PROVE \E i \in 1 .. (k - 1) : f[i] = x
  <2>1. PICK i \in 1 .. N : s[i] = x
    BY DEF Ascends
  <2>2. ~(k < i) /\ i # k
    BY <1>1, <2>1 DEF Ascends
  <2>3. i \in 1 .. (k - 1)
    BY <2>2
  <2> QED
    BY <2>1, <2>3
<1>6. f \in Bijection(1 .. (k - 1), below)
  <2> HIDE DEF f, below
  <2>1. f \in Injection(1 .. (k - 1), below)
    BY <1>3, <1>4 DEF Injection, IsInjective
  <2>2. f \in Surjection(1 .. (k - 1), below)
    BY <1>3, <1>5 DEF Surjection
  <2> QED
    BY <2>1, <2>2 DEF Bijection
<1>7. IsFiniteSet(1 .. (k - 1)) /\ Cardinality(1 .. (k - 1)) = k - 1
  BY FS_Interval
<1>8. Cardinality(below) = Cardinality(1 .. (k - 1))
  <2> HIDE DEF f, below
  <2>1. ExistsBijection(1 .. (k - 1), below)
    BY <1>6 DEF ExistsBijection
  <2> QED
    BY <1>7, <2>1, FS_Bijection
<1>9. below = Smaller(set, s[k])
  BY DEF Smaller
<1> QED
  BY <1>1, <1>2, <1>7, <1>8, <1>9

\* A sequence that ascends through a set is the order of the set.
LEMMA InOrderIs ==
  ASSUME NEW set \in SUBSET Nat, NEW N \in Nat, Cardinality(set) = N, NEW s, Ascends(s, set, N)
  PROVE  InOrder(set) = s
<1>1. ASSUME NEW k \in 1 .. N PROVE (CHOOSE e \in set : Cardinality(Smaller(set, e)) = k - 1) = s[k]
  <2>1. s[k] \in set /\ Cardinality(Smaller(set, s[k])) = k - 1
    BY PlaceCounts
  <2>2. ASSUME NEW e \in set, Cardinality(Smaller(set, e)) = k - 1 PROVE e = s[k]
    <3>1. PICK j \in 1 .. N : s[j] = e
      BY DEF Ascends
    <3>2. Cardinality(Smaller(set, s[j])) = j - 1
      BY PlaceCounts
    <3>3. j - 1 = k - 1
      BY <2>2, <3>1, <3>2
    <3> QED
      BY <3>1, <3>3
  <2> QED
    BY <2>1, <2>2
<1>2. s = [k \in 1 .. N |-> s[k]]
  BY DEF Ascends
<1> QED
  BY <1>1, <1>2 DEF InOrder

\* InOrder() of a finite set ascends and leaves nothing out.
LEMMA InOrderAscends ==
  ASSUME NEW set \in SUBSET Nat, IsFiniteSet(set)
  PROVE  Ascends(InOrder(set), set, Cardinality(set)) /\ Cardinality(set) \in Nat
<1>1. Cardinality(set) \in Nat
  BY FS_CardinalityType
<1>2. PICK s : Ascends(s, set, Cardinality(set))
  BY OrderExists
<1>3. InOrder(set) = s
  BY <1>1, <1>2, InOrderIs
<1> QED
  BY <1>1, <1>2, <1>3

\* A number below all others is the first.
LEMMA LeastComesFirst ==
  ASSUME NEW set \in SUBSET Nat, IsFiniteSet(set), NEW least \in Nat, \A e \in set : least < e
  PROVE  InOrder(set \cup {least})
           = [i \in 1 .. (Cardinality(set) + 1) |-> IF i = 1 THEN least ELSE InOrder(set)[i - 1]]
<1> DEFINE n == Cardinality(set)
           U == set \cup {least}
           t == InOrder(set)
           s == [i \in 1 .. (n + 1) |-> IF i = 1 THEN least ELSE t[i - 1]]
<1>1. n \in Nat /\ Ascends(t, set, n)
  BY InOrderAscends
<1>2. least \notin set
  OBVIOUS
<1>3. U \ {least} = set /\ U \in SUBSET Nat /\ least \in U /\ \A e \in U : least <= e
  BY <1>2
<1>4. Cardinality(U) = n + 1
  BY <1>2, FS_AddElement
<1> HIDE DEF n, U, t
<1>5. Ascends(s, U, n + 1)
  BY <1>1, <1>3, AscendsFrom
<1> HIDE DEF s
<1>6. InOrder(U) = s
  BY <1>1, <1>3, <1>4, <1>5, InOrderIs
<1> QED
  BY <1>6 DEF s, n, U, t

\* A number above all others is the last.
LEMMA GreatestComesLast ==
  ASSUME NEW set \in SUBSET Nat, IsFiniteSet(set), NEW top \in Nat, \A e \in set : e < top
  PROVE  InOrder(set \cup {top})
           = [i \in 1 .. (Cardinality(set) + 1) |-> IF i = Cardinality(set) + 1 THEN top ELSE InOrder(set)[i]]
<1> DEFINE n == Cardinality(set)
           U == set \cup {top}
           t == InOrder(set)
           s == [i \in 1 .. (n + 1) |-> IF i = n + 1 THEN top ELSE t[i]]
<1>1. n \in Nat /\ Ascends(t, set, n)
  BY InOrderAscends
<1>2. top \notin set /\ U \in SUBSET Nat
  OBVIOUS
<1>3. Cardinality(U) = n + 1
  BY <1>2, FS_AddElement
<1>4. t \in [1 .. n -> set] /\ \A i \in 1 .. n : t[i] \in set /\ t[i] < top
  <2>1. t \in [1 .. n -> set]
    BY <1>1 DEF Ascends
  <2> HIDE DEF t
  <2> QED
    BY <2>1
<1> HIDE DEF n, t
<1>5. s[n + 1] = top /\ \A i \in 1 .. n : s[i] = t[i]
  BY <1>1
<1>6. \A i \in 1 .. (n + 1) : i = n + 1 \/ i \in 1 .. n
  BY <1>1
<1>7. s \in [1 .. (n + 1) -> U]
  BY <1>4, <1>6
<1> HIDE DEF s
<1>8. ASSUME NEW i \in 1 .. (n + 1), NEW j \in 1 .. (n + 1), i < j PROVE s[i] < s[j]
  <2>1. i \in 1 .. n /\ s[i] = t[i]
    BY <1>1, <1>5, <1>8
  <2>2. CASE j = n + 1
    BY <1>4, <1>5, <2>1, <2>2
  <2>3. CASE j # n + 1
    <3>1. j \in 1 .. n /\ s[j] = t[j]
      BY <1>5, <1>6, <2>3
    <3> QED
      BY <1>1, <1>8, <2>1, <3>1 DEF Ascends
  <2> QED
    BY <2>2, <2>3
<1>9. ASSUME NEW e \in U PROVE \E i \in 1 .. (n + 1) : s[i] = e
  <2>1. CASE e = top
    <3>1. n + 1 \in 1 .. (n + 1)
      BY <1>1
    <3> QED
      BY <1>5, <2>1, <3>1
  <2>2. CASE e # top
    <3>1. PICK i \in 1 .. n : t[i] = e
      BY <1>1, <2>2 DEF Ascends
    <3>2. i \in 1 .. (n + 1)
      BY <1>1
    <3> QED
      BY <1>5, <3>1, <3>2
  <2> QED
    BY <2>1, <2>2
<1>10. Ascends(s, U, n + 1)
  BY <1>7, <1>8, <1>9 DEF Ascends
<1> HIDE DEF U
<1>11. InOrder(U) = s
  BY <1>1, <1>2, <1>3, <1>10, InOrderIs
<1> QED
  BY <1>11 DEF s, n, U, t

-----------------------------------------------------------------------------
(* Sequences put one behind the other.                                      *)

Flattens(f, ss, T) ==
  /\ f \in [0 .. Len(ss) -> Seq(T)]
  /\ f[0] = <<>>
  /\ \A k \in 1 .. Len(ss) : f[k] = f[k - 1] \o ss[k]

LEMMA FlattenIs ==
  ASSUME NEW T, NEW ss \in Seq(Seq(T)), NEW f, Flattens(f, ss, T)
  PROVE  FlattenSeq(ss) = f[Len(ss)]
<1> DEFINE N == Len(ss)
           Behind(g) == g = [i \in 1 .. N |-> IF i = 1 THEN ss[i] ELSE g[i - 1] \o ss[i]]
           F == CHOOSE g : Behind(g)
<1>1. N \in Nat /\ \A k \in 1 .. N : ss[k] \in Seq(T)
  OBVIOUS
<1>2. f \in [0 .. N -> Seq(T)] /\ f[0] = <<>> /\ \A k \in 1 .. N : f[k] = f[k - 1] \o ss[k]
  BY DEF Flattens
<1>3. CASE N = 0
  <2>1. ss = <<>>
    BY <1>3
  <2>2. FlattenSeq(ss) = <<>>
    BY <1>3, <2>1 DEF FlattenSeq
  <2> QED
    BY <1>2, <1>3, <2>2
<1>4. N # 0 => FlattenSeq(ss) = F[N]
  BY DEF FlattenSeq
<1> HIDE DEF N, F
<1>5. CASE N # 0
  <2> DEFINE g == [i \in 1 .. N |-> f[i]]
  <2>1. ASSUME NEW i \in 1 .. N PROVE g[i] = IF i = 1 THEN ss[i] ELSE g[i - 1] \o ss[i]
    <3>1. CASE i = 1
      <4>1. ss[i] \in Seq(T)
        BY <1>1
      <4>2. f[i] = <<>> \o ss[i]
        <5>1. f[i] = f[i - 1] \o ss[i]
          BY <1>2
        <5>2. i - 1 = 0
          BY <3>1
        <5> QED
          BY <1>2, <5>1, <5>2
      <4>3. f[i] = ss[i]
        BY <4>1, <4>2, ConcatEmptySeq
      <4> QED
        BY <3>1, <4>3
    <3>2. CASE i # 1
      <4>1. i - 1 \in 1 .. N /\ g[i - 1] = f[i - 1]
        BY <1>1, <3>2
      <4> QED
        BY <1>2, <3>2, <4>1
    <3> QED
      BY <3>1, <3>2
  <2>2. Behind(g)
    <3>1. g = [i \in 1 .. N |-> g[i]]
      OBVIOUS
    <3> HIDE DEF g
    <3> QED
      BY <2>1, <3>1
  <2>3. Behind(F)
    <3> HIDE DEF Behind
    <3> QED
      BY <2>2 DEF F
  <2>4. \A i \in 1 .. N : F[i] = IF i = 1 THEN ss[i] ELSE F[i - 1] \o ss[i]
    BY <2>3
  <2> DEFINE P == {k \in Nat : k + 1 <= N => F[k + 1] = f[k + 1]}
  <2>5. 0 \in P
    <3>1. 1 \in 1 .. N
      BY <1>1, <1>5
    <3>2. F[1] = ss[1] /\ g[1] = ss[1] /\ g[1] = f[1]
      <4>1. g[1] = f[1]
        BY <3>1
      <4> HIDE DEF g
      <4> QED
        BY <2>1, <2>4, <3>1, <4>1
    <3> QED
      BY <3>2
  <2>6. ASSUME NEW k \in P PROVE k + 1 \in P
    <3> SUFFICES ASSUME k + 2 <= N PROVE F[k + 2] = f[k + 2]
      <4>1. k \in Nat /\ (k + 1) + 1 = k + 2
        BY <2>6
      <4> QED
        BY <4>1
    <3>1. k + 2 \in 1 .. N /\ k + 2 # 1 /\ (k + 2) - 1 = k + 1 /\ F[k + 1] = f[k + 1]
      BY <1>1, <2>6
    <3>2. F[k + 2] = F[k + 1] \o ss[k + 2] /\ f[k + 2] = f[k + 1] \o ss[k + 2]
      BY <1>2, <2>4, <3>1
    <3> QED
      BY <3>1, <3>2
  <2>7. P = Nat
    <3> HIDE DEF P
    <3>1. P \in SUBSET Nat
      BY DEF P
    <3> QED
      BY <2>5, <2>6, <3>1, NatInd
  <2>8. F[N] = f[N]
    <3>1. N - 1 \in Nat /\ (N - 1) + 1 = N
      BY <1>1, <1>5
    <3>2. N - 1 \in P
      BY <2>7, <3>1
    <3> QED
      BY <1>1, <3>1, <3>2
  <2> QED
    BY <1>4, <1>5, <2>8 DEF N
<1> QED
  BY <1>3, <1>5

LEMMA FlattenExists ==
  ASSUME NEW T, NEW ss \in Seq(Seq(T))
  PROVE  \E f : Flattens(f, ss, T)
<1> DEFINE N == Len(ss)
           X == Seq(T)
           step == [p \in X \X (1 .. N) |-> p[1] \o ss[p[2]]]
<1>1. N \in Nat /\ <<>> \in X
  OBVIOUS
<1>2. step \in [X \X (1 .. N) -> X]
  <2>1. ASSUME NEW p \in X \X (1 .. N) PROVE p[1] \o ss[p[2]] \in X
    <3>1. p[1] \in Seq(T) /\ ss[p[2]] \in Seq(T)
      OBVIOUS
    <3> QED
      BY <3>1
  <2> QED
    BY <2>1
<1>3. PICK g \in [0 .. N -> X] : Iterates(g, <<>>, N, step)
  <2> HIDE DEF step, X, N
  <2> QED
    BY <1>1, <1>2, IterationExists
<1>4. ASSUME NEW k \in 1 .. N PROVE g[k] = g[k - 1] \o ss[k]
  <2>1. g[k - 1] \in X
    <3>1. k - 1 \in 0 .. N
      BY <1>1
    <3> HIDE DEF X, N
    <3> QED
      BY <3>1
  <2>2. step[<<g[k - 1], k>>] = g[k - 1] \o ss[k]
    <3> HIDE DEF X, N
    <3> QED
      BY <1>4, <2>1
  <2> HIDE DEF step, X, N
  <2> QED
    BY <1>3, <1>4, <2>2 DEF Iterates
<1>5. g[0] = <<>>
  BY <1>3 DEF Iterates
<1>6. Flattens(g, ss, T)
  BY <1>4, <1>5 DEF Flattens
<1> QED
  BY <1>6

\* One more sequence behind the others.
LEMMA FlattenAppend ==
  ASSUME NEW T, NEW ss \in Seq(Seq(T)), NEW t \in Seq(T)
  PROVE  /\ FlattenSeq(ss) \in Seq(T)
         /\ FlattenSeq(Append(ss, t)) = FlattenSeq(ss) \o t
<1> DEFINE n == Len(ss)
           tt == Append(ss, t)
<1>1. PICK f : Flattens(f, ss, T)
  BY FlattenExists
<1>2. f \in [0 .. n -> Seq(T)] /\ f[0] = <<>> /\ \A k \in 1 .. n : f[k] = f[k - 1] \o ss[k]
  BY <1>1 DEF Flattens
<1>3. FlattenSeq(ss) = f[n] /\ f[n] \in Seq(T)
  <2>1. n \in 0 .. n
    OBVIOUS
  <2> QED
    BY <1>1, <1>2, <2>1, FlattenIs
<1> DEFINE g == [k \in 0 .. (n + 1) |-> IF k = n + 1 THEN f[n] \o t ELSE f[k]]
<1>4. /\ n \in Nat /\ Len(tt) = n + 1 /\ tt \in Seq(Seq(T))
      /\ tt[n + 1] = t /\ \A k \in 1 .. n : tt[k] = ss[k]
  OBVIOUS
<1>5. f[n] \o t \in Seq(T)
  BY <1>3
<1>6. /\ g[n + 1] = f[n] \o t
      /\ \A k \in 0 .. n : g[k] = f[k]
  BY <1>4
<1>7. g \in [0 .. (n + 1) -> Seq(T)]
  <2>1. \A k \in 0 .. (n + 1) : k = n + 1 \/ k \in 0 .. n
    BY <1>4
  <2> HIDE DEF n
  <2> QED
    BY <1>2, <1>5, <2>1
<1> HIDE DEF g, tt
<1>8. ASSUME NEW k \in 1 .. (n + 1) PROVE g[k] = g[k - 1] \o tt[k]
  <2>1. CASE k = n + 1
    <3>1. k - 1 = n /\ n \in 0 .. n
      BY <1>4, <2>1
    <3> QED
      BY <1>4, <1>6, <2>1, <3>1
  <2>2. CASE k # n + 1
    <3>1. k \in 1 .. n /\ k \in 0 .. n /\ k - 1 \in 0 .. n
      BY <1>4, <2>2
    <3> QED
      BY <1>2, <1>4, <1>6, <3>1
  <2> QED
    BY <2>1, <2>2
<1>9. g[0] = <<>>
  BY <1>2, <1>4, <1>6
<1>10. Flattens(g, tt, T)
  BY <1>4, <1>7, <1>8, <1>9 DEF Flattens
<1>11. FlattenSeq(tt) = g[n + 1]
  BY <1>4, <1>10, FlattenIs
<1> QED
  BY <1>3, <1>6, <1>11 DEF tt

\* The first sequence before the others.
LEMMA FlattenCons ==
  ASSUME NEW T, NEW ss \in Seq(Seq(T)), NEW a \in Seq(T)
  PROVE  FlattenSeq(<<a>> \o ss) = a \o FlattenSeq(ss)
<1> DEFINE n == Len(ss)
           tt == <<a>> \o ss
<1>1. PICK f : Flattens(f, ss, T)
  BY FlattenExists
<1>2. f \in [0 .. n -> Seq(T)] /\ f[0] = <<>> /\ \A k \in 1 .. n : f[k] = f[k - 1] \o ss[k]
  BY <1>1 DEF Flattens
<1>3. FlattenSeq(ss) = f[n]
  BY <1>1, FlattenIs
<1> DEFINE g == [k \in 0 .. (n + 1) |-> IF k = 0 THEN <<>> ELSE a \o f[k - 1]]
<1>4. n \in Nat /\ Len(tt) = n + 1 /\ tt \in Seq(Seq(T))
  OBVIOUS
<1>5. tt[1] = a /\ \A k \in 2 .. (n + 1) : tt[k] = ss[k - 1]
  OBVIOUS
<1>6. g[0] = <<>> /\ \A k \in 1 .. (n + 1) : g[k] = a \o f[k - 1] /\ k - 1 \in 0 .. n
  BY <1>4
<1>7. g \in [0 .. (n + 1) -> Seq(T)]
  <2>1. \A k \in 0 .. (n + 1) : k = 0 \/ (k # 0 /\ k - 1 \in 0 .. n)
    BY <1>4
  <2>2. \A k \in 0 .. (n + 1) : k # 0 => a \o f[k - 1] \in Seq(T)
    <3> HIDE DEF n
    <3> QED
      BY <1>2, <2>1
  <2> HIDE DEF n
  <2> QED
    BY <2>2
<1>11. \A k \in 1 .. n : ss[k] \in Seq(T)
  OBVIOUS
<1> HIDE DEF g, tt, n
<1>8. ASSUME NEW k \in 1 .. (n + 1) PROVE g[k] = g[k - 1] \o tt[k]
  <2>1. CASE k = 1
    <3>1. k - 1 = 0 /\ g[k] = a \o f[0] /\ g[k - 1] = <<>> /\ tt[k] = a
      BY <1>5, <1>6, <2>1
    <3>2. a \o f[0] = a /\ <<>> \o a = a
      BY <1>2, ConcatEmptySeq
    <3> QED
      BY <3>1, <3>2
  <2>2. CASE k # 1
    <3>1. k \in 2 .. (n + 1) /\ k - 1 \in 1 .. n /\ k - 1 \in 1 .. (n + 1) /\ (k - 1) - 1 \in 0 .. n
      BY <1>4, <2>2
    <3>2. g[k] = a \o (f[(k - 1) - 1] \o ss[k - 1]) /\ g[k - 1] = a \o f[(k - 1) - 1] /\ tt[k] = ss[k - 1]
      BY <1>2, <1>5, <1>6, <3>1
    <3>3. f[(k - 1) - 1] \in Seq(T) /\ ss[k - 1] \in Seq(T)
      BY <1>2, <1>11, <3>1
    <3> DEFINE u == f[(k - 1) - 1]
               v == ss[k - 1]
    <3>4. a \o (u \o v) = (a \o u) \o v
      <4>1. u \in Seq(T) /\ v \in Seq(T)
        BY <3>3
      <4> HIDE DEF u, v
      <4> QED
        BY <4>1, ConcatAssociative
    <3> QED
      BY <3>2, <3>4
  <2> QED
    BY <2>1, <2>2
<1>9. Flattens(g, tt, T)
  BY <1>4, <1>6, <1>7, <1>8 DEF Flattens
<1>10. FlattenSeq(tt) = g[n + 1] /\ n + 1 \in 1 .. (n + 1) /\ (n + 1) - 1 = n
  BY <1>4, <1>9, FlattenIs
<1>12. FlattenSeq(tt) = a \o f[n]
  BY <1>6, <1>10
<1> QED
  BY <1>3, <1>12 DEF tt
=============================================================================
