---------------------------- MODULE SortingProofs ----------------------------
(***************************************************************************)
(* InOrder, the order in which EOS shows what it sorts: for every finite   *)
(* set whose members have different keys there is one such list, and a     *)
(* list whose keys increase is that of its members.                        *)
(***************************************************************************)
EXTENDS EosConfig, SequencesExt, FiniteSetTheorems, SequenceTheorems, WellFoundedInduction, TLAPS

\* Induction over the natural numbers, by the set of those with the property.
LEMMA NatSetInduction ==
    ASSUME NEW S, 0 \in S, \A n \in Nat : n \in S => n + 1 \in S
    PROVE  \A n \in Nat : n \in S
<1> DEFINE R == OpToRel(<, Nat)
           T == {n \in Nat : n \notin S}
<1>1. IsWellFoundedOn(R, Nat)
    BY NatLessThanWellFounded
<1>2. T \subseteq Nat
    OBVIOUS
<1> SUFFICES ASSUME T # {} PROVE FALSE
    OBVIOUS
<1>3. \A a, b \in Nat : a < b => <<a, b>> \in R
    BY DEF OpToRel
<1> HIDE DEF R
<1>4. PICK x \in T : \A y \in T : <<y, x>> \notin R
    <2> HIDE DEF T
    <2> QED
        BY <1>1, <1>2, WFMin
<1>5. x # 0 /\ x \in Nat
    OBVIOUS
<1>6. x - 1 \in Nat /\ x - 1 < x
    BY <1>5
<1>7. x - 1 \notin T
    BY <1>3, <1>4, <1>5, <1>6
<1> QED
    BY <1>6, <1>7

\* a finite set with a member has one with the greatest key
LEMMA GreatestExists ==
    ASSUME NEW S, IsFiniteSet(S), S # {}, NEW key, \A e \in S : key[e] \in Int
    PROVE  \E m \in S : \A e \in S : key[e] <= key[m]
<1> DEFINE HasGreatest(T) == \E m \in T : \A e \in T : key[e] <= key[m]
           N == {n \in Nat : \A T \in SUBSET S : Cardinality(T) = n /\ T # {} => HasGreatest(T)}
<1>1. 0 \in N
    <2> SUFFICES ASSUME NEW T \in SUBSET S, Cardinality(T) = 0
                 PROVE  T = {}
        OBVIOUS
    <2> QED
        BY FS_Subset, FS_EmptySet
<1>2. ASSUME NEW n \in Nat, n \in N
      PROVE  n + 1 \in N
    <2> SUFFICES ASSUME NEW T \in SUBSET S, Cardinality(T) = n + 1, T # {}
                 PROVE  HasGreatest(T)
        OBVIOUS
    <2>1. PICK x \in T : TRUE
        OBVIOUS
    <2> DEFINE U == T \ {x}
    <2>2. IsFiniteSet(T)
        BY FS_Subset
    <2>3. Cardinality(U) = n
        <3> HIDE DEF N
        <3>1. Cardinality(U) = Cardinality(T) - 1
            BY <2>1, <2>2, FS_RemoveElement
        <3> QED
            BY <3>1
    <2>4. CASE U = {}
        <3>1. \A e \in T : key[e] <= key[x]
            BY <2>1, <2>4
        <3> QED
            BY <2>1, <3>1
    <2>5. CASE U # {}
        <3>1. HasGreatest(U)
            BY <1>2, <2>3, <2>5
        <3>2. PICK m \in U : \A e \in U : key[e] <= key[m]
            BY <3>1
        <3>3. CASE key[x] <= key[m]
            BY <2>1, <3>2, <3>3
        <3>4. CASE ~(key[x] <= key[m])
            <4>1. \A e \in T : key[e] <= key[x]
                BY <2>1, <3>2, <3>4
            <4> QED
                BY <2>1, <4>1
        <3> QED
            BY <3>3, <3>4
    <2> QED
        BY <2>4, <2>5
<1> HIDE DEF N
<1>3. Cardinality(S) \in N
    BY <1>1, <1>2, NatSetInduction, FS_CardinalityType
<1> QED
    BY <1>3 DEF N

Rises(s, n, key) == \A i, j \in 1 .. n : i < j => key[s[i]] < key[s[j]]

Covers(s, n, S) == \A e \in S : \E i \in 1 .. n : s[i] = e

\* a finite set whose members have different keys can be sorted
LEMMA SortedExists ==
    ASSUME NEW S, IsFiniteSet(S), NEW key, \A e \in S : key[e] \in Int,
           \A d, e \in S : key[d] = key[e] => d = e
    PROVE  \E s \in [1 .. Cardinality(S) -> S] :
                Rises(s, Cardinality(S), key) /\ Covers(s, Cardinality(S), S)
<1> DEFINE Sorted(T, n) == \E s \in [1 .. n -> T] : Rises(s, n, key) /\ Covers(s, n, T)
           N == {n \in Nat : \A T \in SUBSET S : Cardinality(T) = n => Sorted(T, n)}
<1>1. 0 \in N
    <2> SUFFICES ASSUME NEW T \in SUBSET S, Cardinality(T) = 0
                 PROVE  Sorted(T, 0)
        OBVIOUS
    <2>1. T = {}
        BY FS_Subset, FS_EmptySet
    <2>2. [i \in 1 .. 0 |-> i] \in [1 .. 0 -> T]
        OBVIOUS
    <2> QED
        BY <2>1, <2>2 DEF Rises, Covers
<1>2. ASSUME NEW n \in Nat, n \in N
      PROVE  n + 1 \in N
    <2> SUFFICES ASSUME NEW T \in SUBSET S, Cardinality(T) = n + 1
                 PROVE  Sorted(T, n + 1)
        OBVIOUS
    <2>1. IsFiniteSet(T)
        BY FS_Subset
    <2>2. T # {}
        BY FS_EmptySet
    <2>3. PICK m \in T : \A e \in T : key[e] <= key[m]
        BY <2>1, <2>2, GreatestExists
    <2> DEFINE U == T \ {m}
    <2>4. Cardinality(U) = n
        <3> HIDE DEF N
        <3>1. Cardinality(U) = Cardinality(T) - 1
            BY <2>1, FS_RemoveElement
        <3> QED
            BY <3>1
    <2>5. PICK r \in [1 .. n -> U] : Rises(r, n, key) /\ Covers(r, n, U)
        BY <1>2, <2>4
    <2> DEFINE s == [i \in 1 .. n + 1 |-> IF i <= n THEN r[i] ELSE m]
    <2>6. s \in [1 .. n + 1 -> T]
        <3>1. \A i \in 1 .. n + 1 : i <= n => i \in 1 .. n
            OBVIOUS
        <3> QED
            BY <2>5, <3>1
    <2>7. Rises(s, n + 1, key)
        <3> SUFFICES ASSUME NEW i \in 1 .. n + 1, NEW j \in 1 .. n + 1, i < j
                     PROVE  key[s[i]] < key[s[j]]
            BY DEF Rises
        <3>1. i \in 1 .. n /\ s[i] = r[i] /\ r[i] \in U
            BY <2>5
        <3>2. CASE j <= n
            BY <2>5, <3>1, <3>2 DEF Rises
        <3>3. CASE ~(j <= n)
            <4>1. s[j] = m
                BY <3>3
            <4>2. key[r[i]] <= key[m] /\ key[r[i]] # key[m]
                BY <2>3, <3>1
            <4>3. key[r[i]] \in Int /\ key[m] \in Int
                BY <3>1
            <4> QED
                BY <3>1, <4>1, <4>2, <4>3
        <3> QED
            BY <3>2, <3>3
    <2>8. Covers(s, n + 1, T)
        <3> SUFFICES ASSUME NEW e \in T
                     PROVE  \E i \in 1 .. n + 1 : s[i] = e
            BY DEF Covers
        <3>1. CASE e = m
            <4>1. n + 1 \in 1 .. n + 1 /\ s[n + 1] = m
                OBVIOUS
            <4> QED
                BY <3>1, <4>1
        <3>2. CASE e # m
            <4>1. PICK i \in 1 .. n : r[i] = e
                BY <2>5, <3>2 DEF Covers
            <4>2. i \in 1 .. n + 1 /\ s[i] = e
                BY <4>1
            <4> QED
                BY <4>2
        <3> QED
            BY <3>1, <3>2
    <2> QED
        BY <2>6, <2>7, <2>8
<1> HIDE DEF N
<1>3. Cardinality(S) \in N
    BY <1>1, <1>2, NatSetInduction, FS_CardinalityType
<1> QED
    BY <1>3 DEF N

\* ... in one way only
LEMMA SortedUnique ==
    ASSUME NEW n \in Nat, NEW S, NEW key, \A e \in S : key[e] \in Int,
           NEW s \in [1 .. n -> S], Rises(s, n, key), Covers(s, n, S),
           NEW t \in [1 .. n -> S], Rises(t, n, key), Covers(t, n, S)
    PROVE  s = t
<1> DEFINE N == {m \in Nat : \A i \in 1 .. n : i <= m => s[i] = t[i]}
<1>1. 0 \in N
    OBVIOUS
<1>2. ASSUME NEW m \in Nat, m \in N
      PROVE  m + 1 \in N
    <2> SUFFICES ASSUME m + 1 \in 1 .. n
                 PROVE  s[m + 1] = t[m + 1]
        BY <1>2
    <2> DEFINE i == m + 1
    <2>1. PICK k \in 1 .. n : t[k] = s[i]
        BY DEF Covers
    <2>2. PICK l \in 1 .. n : s[l] = t[i]
        BY DEF Covers
    <2>3. key[s[i]] \in Int /\ key[t[i]] \in Int
        OBVIOUS
    <2>4. k >= i
        <3> SUFFICES ASSUME k < i
                     PROVE  FALSE
            OBVIOUS
        <3>1. s[k] = t[k]
            BY <1>2
        <3>2. key[s[k]] < key[s[i]]
            BY DEF Rises
        <3> QED
            BY <2>1, <2>3, <3>1, <3>2
    <2>5. l >= i
        <3> SUFFICES ASSUME l < i
                     PROVE  FALSE
            OBVIOUS
        <3>1. s[l] = t[l]
            BY <1>2
        <3>2. key[t[l]] < key[t[i]]
            BY DEF Rises
        <3> QED
            BY <2>2, <2>3, <3>1, <3>2
    <2>6. CASE k = i
        BY <2>1, <2>6
    <2>7. CASE l = i
        BY <2>2, <2>7
    <2>8. CASE k > i /\ l > i
        <3>1. key[t[i]] < key[t[k]]
            BY <2>8 DEF Rises
        <3>2. key[s[i]] < key[s[l]]
            BY <2>8 DEF Rises
        <3> QED
            BY <2>1, <2>2, <2>3, <3>1, <3>2
    <2> QED
        BY <2>4, <2>5, <2>6, <2>7, <2>8
<1> HIDE DEF N
<1>3. n \in N
    BY <1>1, <1>2, NatSetInduction
<1>4. \A i \in 1 .. n : s[i] = t[i]
    BY <1>3 DEF N
<1> QED
    BY <1>4

\* rising lists of as many members as the set has leave none out
LEMMA RisingCovers ==
    ASSUME NEW S, IsFiniteSet(S), NEW key, \A e \in S : key[e] \in Int,
           NEW s \in [1 .. Cardinality(S) -> S], Rises(s, Cardinality(S), key)
    PROVE  Covers(s, Cardinality(S), S)
<1> DEFINE n == Cardinality(S)
<1>1. n \in Nat
    BY FS_CardinalityType
<1>2. ASSUME NEW i \in 1 .. n, NEW j \in 1 .. n, s[i] = s[j]
      PROVE  i = j
    <2>1. ~(i < j) /\ ~(j < i)
        BY <1>2 DEF Rises
    <2> QED
        BY <1>1, <2>1
<1>3. s \in Injection(1 .. n, S)
    BY <1>2 DEF Injection, IsInjective
<1>4. Cardinality(1 .. n) = n
    BY <1>1, FS_Interval
<1>5. s \in Surjection(1 .. n, S)
    BY <1>3, <1>4, FS_Injection
<1> QED
    BY <1>5 DEF Surjection, Covers

\* What InOrder is, whenever there is one.
LEMMA InOrderSorts ==
    ASSUME NEW S, IsFiniteSet(S), NEW key, \A e \in S : key[e] \in Int,
           \A d, e \in S : key[d] = key[e] => d = e
    PROVE  /\ Cardinality(S) \in Nat
           /\ InOrder(S, key) \in [1 .. Cardinality(S) -> S]
           /\ Rises(InOrder(S, key), Cardinality(S), key)
           /\ Covers(InOrder(S, key), Cardinality(S), S)
<1>1. \E s \in [1 .. Cardinality(S) -> S] : Rises(s, Cardinality(S), key)
    BY SortedExists
<1>2. /\ InOrder(S, key) \in [1 .. Cardinality(S) -> S]
      /\ Rises(InOrder(S, key), Cardinality(S), key)
    BY <1>1 DEF InOrder, Rises
<1> QED
    BY <1>2, RisingCovers, FS_CardinalityType

\* A list whose keys increase is that of its members.
LEMMA InOrderOfRising ==
    ASSUME NEW s, s \in Seq(ToSet(s)),
           NEW key, \A e \in ToSet(s) : key[e] \in Int,
           \A i, j \in DOMAIN s : i < j => key[s[i]] < key[s[j]]
    PROVE  InOrder(ToSet(s), key) = s
<1> DEFINE S == ToSet(s)
           n == Len(s)
<1>1. n \in Nat /\ DOMAIN s = 1 .. n /\ s \in [1 .. n -> S]
    OBVIOUS
<1>2. Rises(s, n, key)
    BY <1>1 DEF Rises
<1>3. \A e \in S : \E i \in 1 .. n : s[i] = e
    BY <1>1 DEF ToSet
<1> HIDE DEF n, S
<1>4. ASSUME NEW i \in 1 .. n, NEW j \in 1 .. n, s[i] = s[j]
      PROVE  i = j
    <2>1. key[s[i]] \in Int
        BY <1>1 DEF S
    <2>2. ~(i < j) /\ ~(j < i)
        BY <1>2, <1>4, <2>1 DEF Rises
    <2> QED
        BY <1>1, <2>2
<1>5. s \in Bijection(1 .. n, S)
    BY <1>1, <1>3, <1>4 DEF Bijection, Injection, IsInjective, Surjection
<1>6. ExistsBijection(1 .. n, S)
    BY <1>5 DEF ExistsBijection
<1>7. IsFiniteSet(S) /\ Cardinality(S) = n
    BY <1>1, <1>6, FS_NatBijection, FS_CountingElements
<1>8. ASSUME NEW d \in S, NEW e \in S, key[d] = key[e]
      PROVE  d = e
    <2>1. PICK i \in 1 .. n : s[i] = d
        BY <1>3
    <2>2. PICK j \in 1 .. n : s[j] = e
        BY <1>3
    <2>3. ~(i < j) /\ ~(j < i)
        BY <1>2, <1>8, <2>1, <2>2 DEF Rises, S
    <2> QED
        BY <1>1, <2>1, <2>2, <2>3
<1>9. /\ InOrder(S, key) \in [1 .. n -> S]
      /\ Rises(InOrder(S, key), n, key)
      /\ Covers(InOrder(S, key), n, S)
    BY <1>7, <1>8, InOrderSorts DEF S
<1>10. Covers(s, n, S)
    BY <1>3 DEF Covers
<1>11. \A e \in S : key[e] \in Int
    BY DEF S
<1> QED
    BY <1>1, <1>2, <1>9, <1>10, <1>11, SortedUnique DEF S
=============================================================================
