--------------------------- MODULE RecordWireProofs ---------------------------
(***************************************************************************)
(* What holds of RecordWire for any number of records, of any contents,    *)
(* written any number of times.                                            *)
(*                                                                         *)
(* The argument: what sorting and compacting do to any sequence of         *)
(* naturals; then Views, which says whose arrays a record may look at;     *)
(* then Faithful, what the arrays of a queued record still hold.           *)
(***************************************************************************)
EXTENDS RecordWire, SequenceTheorems, FiniteSetTheorems, TLAPS

-------------------------------------------------------------------------------
(***************************************************************************)
(* The n-th smallest.  Counting the elements up to each is an injection    *)
(* from a finite set into 1..its cardinality, and so it is onto.           *)
(***************************************************************************)

\* 1..n has n elements.
LEMMA OneTo == \A n \in Nat : IsFiniteSet(1..n) /\ Cardinality(1..n) = n
  BY FS_Interval

\* An injection from a set into 1..its cardinality reaches every number.
LEMMA CountIsOnto ==
  ASSUME NEW S, IsFiniteSet(S), NEW f \in [S -> 1..Cardinality(S)],
         \A a, b \in S : f[a] = f[b] => a = b
  PROVE  \A n \in 1..Cardinality(S) : \E a \in S : f[a] = n
<1> DEFINE T == 1..Cardinality(S)
<1>1. Cardinality(S) \in Nat
  BY FS_CardinalityType
<1>2. IsFiniteSet(T) /\ Cardinality(T) = Cardinality(S)
  BY <1>1, FS_Interval
<1>3. f \in Injection(S, T)
  BY DEF Injection, IsInjective
<1>4. f \in Surjection(S, T)
  BY <1>2, <1>3, FS_Injection
<1> QED BY <1>4 DEF Surjection

\* The elements up to each of a finite set of integers.
LEMMA UpTo ==
  ASSUME NEW S \in SUBSET Int, IsFiniteSet(S)
  PROVE  /\ \A i \in S : Cardinality({j \in S : j <= i}) \in 1..Cardinality(S)
         /\ \A i, k \in S : i < k =>
              Cardinality({j \in S : j <= i}) < Cardinality({j \in S : j <= k})
<1> DEFINE U(i) == {j \in S : j <= i}
<1>1. \A i \in S : /\ IsFiniteSet(U(i)) /\ Cardinality(U(i)) \in Nat
                   /\ Cardinality(U(i)) <= Cardinality(S)
  BY FS_Subset, FS_CardinalityType
<1>2. \A i \in S : Cardinality(U(i)) # 0
  <2> TAKE i \in S
  <2>1. i \in U(i)
    OBVIOUS
  <2> QED BY <1>1, <2>1, FS_EmptySet
<1>3. ASSUME NEW i \in S, NEW k \in S, i < k
      PROVE  Cardinality(U(i)) < Cardinality(U(k))
  <2>0. /\ \A j \in S : j <= i => j <= k
        /\ k <= k /\ ~(k <= i)
    <3>1. i \in Int /\ k \in Int /\ \A j \in S : j \in Int
      OBVIOUS
    <3> QED BY <1>3, <3>1
  <2>1. U(i) \subseteq U(k) /\ k \in U(k) /\ k \notin U(i)
    BY <2>0
  <2>2. Cardinality(U(i)) <= Cardinality(U(k)) /\ Cardinality(U(i)) # Cardinality(U(k))
    BY <1>1, <2>1, FS_Subset
  <2> QED BY <1>1, <2>2
<1>4. Cardinality(S) \in Nat
  BY FS_CardinalityType
<1> HIDE DEF U
<1>5. \A i \in S : Cardinality(U(i)) \in 1..Cardinality(S)
  BY <1>1, <1>2, <1>4
<1> QED BY <1>3, <1>5 DEF U

\* Nth finds what it looks for, and runs through the set upwards.
LEMMA NthFinds ==
  ASSUME NEW S \in SUBSET Int, IsFiniteSet(S)
  PROVE  /\ \A n \in 1..Cardinality(S) :
              Nth(S, n) \in S /\ Cardinality({j \in S : j <= Nth(S, n)}) = n
         /\ \A i \in S : \E n \in 1..Cardinality(S) : Nth(S, n) = i
         /\ \A n, m \in 1..Cardinality(S) : n < m => Nth(S, n) < Nth(S, m)
<1> DEFINE f == [i \in S |-> Cardinality({j \in S : j <= i})]
<1>1. f \in [S -> 1..Cardinality(S)]
  BY UpTo
<1>2. \A i, k \in S : i < k => f[i] < f[k]
  BY UpTo
<1>3. \A i \in S : f[i] \in Int /\ i \in Int
  BY <1>1, FS_CardinalityType
<1>4. \A i, k \in S : f[i] = f[k] => i = k
  BY <1>2, <1>3
<1>5. \A n \in 1..Cardinality(S) : \E i \in S : f[i] = n
  <2> HIDE DEF f
  <2> QED BY <1>1, <1>4, CountIsOnto
<1>6. \A i \in S : f[i] = Cardinality({j \in S : j <= i})
  OBVIOUS
<1>7. \A n : Nth(S, n) = CHOOSE i \in S : f[i] = n
  BY <1>6 DEF Nth
<1> HIDE DEF f
<1>8. \A n \in 1..Cardinality(S) : Nth(S, n) \in S /\ f[Nth(S, n)] = n
  BY <1>5, <1>7
<1>9. \A i \in S : \E n \in 1..Cardinality(S) : Nth(S, n) = i
  BY <1>1, <1>4, <1>8
<1>10. ASSUME NEW n \in 1..Cardinality(S), NEW m \in 1..Cardinality(S), n < m
       PROVE  Nth(S, n) < Nth(S, m)
  <2>1. Nth(S, n) \in S /\ Nth(S, m) \in S /\ f[Nth(S, n)] = n /\ f[Nth(S, m)] = m
    BY <1>8
  <2> DEFINE i == Nth(S, n)
             k == Nth(S, m)
  <2>2. i \in S /\ k \in S /\ f[i] = n /\ f[k] = m /\ n \in Int /\ m \in Int
    BY <2>1
  <2> HIDE DEF i, k
  <2>3. i \in Int /\ k \in Int
    BY <2>2
  <2>4. ~(k < i) /\ i # k
    BY <1>2, <1>10, <2>2
  <2>5. i < k
    BY <2>3, <2>4
  <2> QED BY <2>5 DEF i, k
<1> QED BY <1>6, <1>8, <1>9, <1>10

\* A finite set of integers has a least element.
LEMMA LeastOf ==
  ASSUME NEW S \in SUBSET Int, IsFiniteSet(S), S # {}
  PROVE  \E x \in S : \A y \in S : x <= y
<1>1. Cardinality(S) \in Nat /\ Cardinality(S) # 0
  BY FS_CardinalityType, FS_EmptySet
<1>2. 1 \in 1..Cardinality(S) /\ Nth(S, 1) \in S
  <2>1. 1 \in 1..Cardinality(S)
    BY <1>1
  <2> QED BY <2>1, NthFinds
<1>3. ASSUME NEW y \in S PROVE Nth(S, 1) <= y
  <2>1. PICK n \in 1..Cardinality(S) : Nth(S, n) = y
    BY NthFinds
  <2>2. n = 1 \/ 1 < n
    BY <1>1
  <2>3. Nth(S, 1) = y \/ Nth(S, 1) < y
    BY <1>2, <2>1, <2>2, NthFinds
  <2>4. Nth(S, 1) \in Int /\ y \in Int
    BY <1>2
  <2> QED BY <2>3, <2>4
<1> QED BY <1>2, <1>3

-------------------------------------------------------------------------------
(***************************************************************************)
(* slices.Sort.                                                            *)
(***************************************************************************)

\* j is put no later than i by sorting s.
Before(s, j, i) == s[j] < s[i] \/ (s[j] = s[i] /\ j <= i)

\* Sorting orders the positions of s linearly.
LEMMA BeforeIsLinear ==
  ASSUME NEW s \in Seq(Nat)
  PROVE  /\ \A i \in DOMAIN s : Before(s, i, i)
         /\ \A i, j, k \in DOMAIN s : Before(s, i, j) /\ Before(s, j, k) => Before(s, i, k)
         /\ \A i, j \in DOMAIN s : i # j => (Before(s, i, j) <=> ~Before(s, j, i))
<1>1. \A i \in DOMAIN s : i \in Int /\ s[i] \in Int
  OBVIOUS
<1> QED BY <1>1 DEF Before

\* The ranks of the positions are 1..Len(s), in their order.
LEMMA Ranks ==
  ASSUME NEW s \in Seq(Nat)
  PROVE  /\ \A i \in DOMAIN s : Rank(s, i) \in DOMAIN s
         /\ \A i, j \in DOMAIN s : i # j /\ Before(s, i, j) => Rank(s, i) < Rank(s, j)
         /\ \A n \in DOMAIN s : \E i \in DOMAIN s : Rank(s, i) = n
<1> DEFINE U(i) == {j \in DOMAIN s : Before(s, j, i)}
<1>1. /\ DOMAIN s = 1..Len(s) /\ Len(s) \in Nat
      /\ IsFiniteSet(DOMAIN s) /\ Cardinality(DOMAIN s) = Len(s)
  <2>1. DOMAIN s = 1..Len(s) /\ Len(s) \in Nat
    BY LenProperties
  <2>2. IsFiniteSet(1..Len(s)) /\ Cardinality(1..Len(s)) = Len(s)
    BY <2>1, OneTo
  <2> QED BY <2>1, <2>2
<1>2. \A i \in DOMAIN s : /\ IsFiniteSet(U(i)) /\ Cardinality(U(i)) \in Nat
                          /\ Cardinality(U(i)) <= Len(s)
  BY <1>1, FS_Subset, FS_CardinalityType
<1>3. \A i \in DOMAIN s : Cardinality(U(i)) # 0
  <2> TAKE i \in DOMAIN s
  <2>1. i \in U(i)
    BY BeforeIsLinear
  <2> QED BY <1>2, <2>1, FS_EmptySet
<1>4. ASSUME NEW i \in DOMAIN s, NEW j \in DOMAIN s, i # j, Before(s, i, j)
      PROVE  Cardinality(U(i)) < Cardinality(U(j))
  <2>1. U(i) \subseteq U(j) /\ j \in U(j) /\ j \notin U(i)
    BY <1>4, BeforeIsLinear
  <2>2. Cardinality(U(i)) <= Cardinality(U(j)) /\ Cardinality(U(i)) # Cardinality(U(j))
    BY <1>2, <2>1, FS_Subset
  <2>3. Cardinality(U(i)) \in Nat /\ Cardinality(U(j)) \in Nat
    BY <1>2
  <2> HIDE DEF U
  <2> QED BY <2>2, <2>3
<1>5. \A i : Rank(s, i) = Cardinality(U(i))
  BY DEF Rank, Before
<1> HIDE DEF U
<1>6. \A i \in DOMAIN s : Rank(s, i) \in DOMAIN s
  BY <1>1, <1>2, <1>3, <1>5
<1>7. \A i, j \in DOMAIN s : i # j /\ Before(s, i, j) => Rank(s, i) < Rank(s, j)
  BY <1>4, <1>5
<1> DEFINE f == [i \in DOMAIN s |-> Rank(s, i)]
<1>8. f \in [DOMAIN s -> 1..Cardinality(DOMAIN s)]
  BY <1>1, <1>6
<1>9. ASSUME NEW i \in DOMAIN s, NEW j \in DOMAIN s, f[i] = f[j] PROVE i = j
  <2>1. f[i] = Rank(s, i) /\ f[j] = Rank(s, j) /\ f[i] \in Int
    BY <1>1, <1>8
  <2>2. ~(f[i] < f[j]) /\ ~(f[j] < f[i])
    BY <1>9, <2>1
  <2> QED BY <1>7, <2>1, <2>2, BeforeIsLinear
<1>10. \A n \in DOMAIN s : \E i \in DOMAIN s : f[i] = n
  <2> DEFINE D == DOMAIN s
  <2>1. /\ IsFiniteSet(D) /\ f \in [D -> 1..Cardinality(D)]
        /\ D = 1..Cardinality(D) /\ \A i, j \in D : f[i] = f[j] => i = j
    BY <1>1, <1>8, <1>9
  <2> HIDE DEF f, D
  <2>2. \A n \in 1..Cardinality(D) : \E i \in D : f[i] = n
    BY <2>1, CountIsOnto
  <2> QED BY <2>1, <2>2 DEF D
<1> QED BY <1>6, <1>7, <1>10

\* Sorted(s) is s put in order: no element is lost or invented.
LEMMA SortedIs ==
  ASSUME NEW s \in Seq(Nat)
  PROVE  /\ Sorted(s) \in Seq(Nat) /\ Len(Sorted(s)) = Len(s)
         /\ DOMAIN Sorted(s) = DOMAIN s
         /\ Range(Sorted(s)) = Range(s)
         /\ \A n, m \in DOMAIN s : n < m => Sorted(s)[n] <= Sorted(s)[m]
         /\ IsInjective(s) => IsInjective(Sorted(s))
<1> DEFINE pos(n) == CHOOSE i \in DOMAIN s : Rank(s, i) = n
<1>1. \A n \in DOMAIN s : pos(n) \in DOMAIN s /\ Rank(s, pos(n)) = n
  BY Ranks
<1>2. \A n \in DOMAIN s : Sorted(s)[n] = s[pos(n)]
  BY DEF Sorted
<1>3. DOMAIN s = 1..Len(s) /\ Len(s) \in Nat /\ \A i \in DOMAIN s : s[i] \in Nat
  BY LenProperties
<1>4. Sorted(s) \in [1..Len(s) -> Nat] /\ DOMAIN Sorted(s) = DOMAIN s
  BY <1>1, <1>3 DEF Sorted
<1>5. Sorted(s) \in Seq(Nat) /\ Len(Sorted(s)) = Len(s)
  BY <1>3, <1>4, SeqDef, LenProperties
<1> HIDE DEF pos
<1>6. \A i, j \in DOMAIN s : Rank(s, i) = Rank(s, j) => i = j
  <2> SUFFICES ASSUME NEW i \in DOMAIN s, NEW j \in DOMAIN s, Rank(s, i) = Rank(s, j), i # j
               PROVE  FALSE
    OBVIOUS
  <2>1. Before(s, i, j) \/ Before(s, j, i)
    BY BeforeIsLinear
  <2>2. Rank(s, i) < Rank(s, j) \/ Rank(s, j) < Rank(s, i)
    BY <2>1, Ranks
  <2>3. Rank(s, i) \in DOMAIN s
    BY Ranks
  <2>4. Rank(s, i) \in Int
    BY <1>3, <2>3
  <2> QED BY <2>2, <2>4
<1>7. \A i \in DOMAIN s : Rank(s, i) \in DOMAIN s /\ pos(Rank(s, i)) = i
  BY <1>1, <1>6, Ranks
<1>8. Range(Sorted(s)) = Range(s)
  <2>1. Range(Sorted(s)) \subseteq Range(s)
    BY <1>1, <1>2, <1>4 DEF Range
  <2>2. \A i \in DOMAIN s : /\ Rank(s, i) \in DOMAIN Sorted(s)
                            /\ Sorted(s)[Rank(s, i)] = s[i]
    BY <1>2, <1>4, <1>7
  <2>3. Range(s) \subseteq Range(Sorted(s))
    BY <2>2 DEF Range
  <2> QED BY <2>1, <2>3
<1>9. ASSUME NEW n \in DOMAIN s, NEW m \in DOMAIN s, n < m
      PROVE  Sorted(s)[n] <= Sorted(s)[m]
  <2>1. pos(n) # pos(m) /\ ~Before(s, pos(m), pos(n))
    <3>1. n \in Int /\ m \in Int
      BY <1>3
    <3>2. pos(n) # pos(m)
      BY <1>1, <1>9, <3>1
    <3>3. ~(m < n)
      BY <1>9, <3>1
    <3>4. ~(Rank(s, pos(m)) < Rank(s, pos(n)))
      BY <1>1, <3>3
    <3> QED BY <1>1, <3>2, <3>4, Ranks
  <2>2. Before(s, pos(n), pos(m))
    BY <1>1, <2>1, BeforeIsLinear
  <2>3. s[pos(n)] \in Nat /\ s[pos(m)] \in Nat
    BY <1>1, <1>3
  <2> QED BY <1>2, <2>2, <2>3 DEF Before
<1>10. IsInjective(s) => IsInjective(Sorted(s))
  BY <1>1, <1>2, <1>4 DEF IsInjective
<1> QED BY <1>4, <1>5, <1>8, <1>9, <1>10

-------------------------------------------------------------------------------
(***************************************************************************)
(* slices.Compact.                                                         *)
(***************************************************************************)
\* What Sort gives, and what Compact makes of it.
Ordered(s) == \A i, j \in DOMAIN s : i < j => s[i] <= s[j]
Increasing(s) == \A i, j \in DOMAIN s : i < j => s[i] < s[j]

\* The runs of a sequence are some of its positions, and every element begins
\* one.
LEMMA RunsAre ==
  ASSUME NEW s \in Seq(Nat)
  PROVE  /\ Runs(s) \subseteq DOMAIN s /\ Runs(s) \in SUBSET Int /\ IsFiniteSet(Runs(s))
         /\ Cardinality(Runs(s)) \in 0..Len(s)
         /\ \A i \in DOMAIN s : \E k \in Runs(s) : s[k] = s[i]
<1>1. /\ DOMAIN s = 1..Len(s) /\ Len(s) \in Nat
  BY LenProperties
<1>2. IsFiniteSet(DOMAIN s) /\ Cardinality(DOMAIN s) = Len(s)
  BY <1>1, FS_Interval
<1>3. Runs(s) \subseteq DOMAIN s
  BY DEF Runs
<1>4. IsFiniteSet(Runs(s)) /\ Cardinality(Runs(s)) <= Len(s)
  BY <1>2, <1>3, FS_Subset
<1>5. Cardinality(Runs(s)) \in 0..Len(s)
  BY <1>1, <1>4, FS_CardinalityType
<1>6. ASSUME NEW i \in DOMAIN s PROVE \E k \in Runs(s) : s[k] = s[i]
  <2> DEFINE E == {j \in DOMAIN s : s[j] = s[i]}
  <2>1. E \in SUBSET Int /\ IsFiniteSet(E) /\ E # {}
    BY <1>1, <1>2, FS_Subset
  <2>2. PICK k \in E : \A j \in E : k <= j
    <3> HIDE DEF E
    <3> QED BY <2>1, LeastOf
  <2>3. k \in DOMAIN s /\ s[k] = s[i]
    OBVIOUS
  <2>4. k = 1 \/ s[k] # s[k - 1]
    <3> SUFFICES ASSUME k # 1, s[k] = s[k - 1] PROVE FALSE
      OBVIOUS
    <3>1. k - 1 \in DOMAIN s /\ ~(k <= k - 1)
      BY <1>1, <2>3
    <3> QED BY <2>2, <2>3, <3>1
  <2> QED BY <2>3, <2>4 DEF Runs
<1> QED BY <1>1, <1>3, <1>4, <1>5, <1>6

\* Compact of an ordered sequence is increasing and keeps its elements.
LEMMA CompactedIs ==
  ASSUME NEW s \in Seq(Nat)
  PROVE  /\ Compacted(s) \in Seq(Nat) /\ Len(Compacted(s)) <= Len(s)
         /\ Range(Compacted(s)) = Range(s)
         /\ Ordered(s) => Increasing(Compacted(s))
<1> DEFINE c == Cardinality(Runs(s))
           i(n) == Nth(Runs(s), n)
<1>1. /\ DOMAIN s = 1..Len(s) /\ Len(s) \in Nat
      /\ \A k \in DOMAIN s : s[k] \in Nat
  BY LenProperties
<1>2. c \in 0..Len(s) /\ c \in Nat
  BY <1>1, RunsAre
<1>3. \A n \in 1..c : i(n) \in Runs(s) /\ i(n) \in DOMAIN s
  BY RunsAre, NthFinds
<1>4. \A n, m \in 1..c : n < m => i(n) < i(m)
  BY RunsAre, NthFinds
<1>5. \A k \in Runs(s) : \E n \in 1..c : i(n) = k
  BY RunsAre, NthFinds
<1>6. Compacted(s) = [n \in 1..c |-> s[i(n)]]
  BY DEF Compacted
<1> HIDE DEF c, i
<1>7. Compacted(s) \in [1..c -> Nat] /\ DOMAIN Compacted(s) = 1..c
  BY <1>1, <1>3, <1>6
<1>8. Compacted(s) \in Seq(Nat) /\ Len(Compacted(s)) = c
  <2>1. Compacted(s) \in Seq(Nat)
    BY <1>2, <1>7, SeqDef
  <2> QED BY <1>2, <1>7, <2>1, LenProperties
<1>9. Range(Compacted(s)) = Range(s)
  <2>1. \A k \in DOMAIN s : \E n \in 1..c : Compacted(s)[n] = s[k]
    BY <1>5, <1>6, RunsAre
  <2>2. \A n \in 1..c : \E k \in DOMAIN s : Compacted(s)[n] = s[k]
    BY <1>3, <1>6
  <2> DEFINE t == Compacted(s)
  <2>3. DOMAIN t = 1..c
    BY <1>7
  <2> HIDE DEF t
  <2>4. Range(t) \subseteq Range(s)
    BY <2>2, <2>3 DEF Range, t
  <2>5. Range(s) \subseteq Range(t)
    BY <2>1, <2>3 DEF Range, t
  <2> QED BY <2>4, <2>5 DEF t
<1>10. ASSUME Ordered(s), NEW n \in 1..c, NEW m \in 1..c, n < m
       PROVE  Compacted(s)[n] < Compacted(s)[m]
  <2> DEFINE a == i(n)
             b == i(m)
  <2>1. a \in DOMAIN s /\ b \in Runs(s) /\ b \in DOMAIN s /\ a < b
    BY <1>3, <1>4, <1>10
  <2>2. Compacted(s)[n] = s[a] /\ Compacted(s)[m] = s[b]
    BY <1>6
  <2> HIDE DEF a, b
  <2>3. b # 1 /\ b - 1 \in DOMAIN s /\ b - 1 < b /\ (a = b - 1 \/ a < b - 1)
    BY <1>1, <2>1
  <2>4. s[b] # s[b - 1]
    BY <2>1, <2>3 DEF Runs
  <2>5. (s[a] = s[b - 1] \/ s[a] <= s[b - 1]) /\ s[b - 1] <= s[b]
    BY <1>10, <2>1, <2>3 DEF Ordered
  <2>6. s[a] \in Nat /\ s[b - 1] \in Nat /\ s[b] \in Nat
    BY <1>1, <2>1, <2>3
  <2> QED BY <2>2, <2>4, <2>5, <2>6
<1>11. Ordered(s) => Increasing(Compacted(s))
  BY <1>7, <1>10 DEF Increasing
<1> QED BY <1>2, <1>8, <1>9, <1>11

\* Of distinct elements Compact removes none and clears none.
LEMMA NothingToCompact ==
  ASSUME NEW s \in Seq(Nat), IsInjective(s)
  PROVE  Compacted(s) = s /\ CompactedInPlace(s) = s
<1>1. /\ DOMAIN s = 1..Len(s) /\ Len(s) \in Nat /\ s = [k \in DOMAIN s |-> s[k]]
  BY LenProperties
<1>2. Runs(s) = 1..Len(s)
  <2>1. ASSUME NEW k \in 1..Len(s), k # 1 PROVE s[k] # s[k - 1]
    <3>1. k - 1 \in DOMAIN s /\ k \in DOMAIN s /\ k # k - 1
      BY <1>1, <2>1
    <3> QED BY <3>1 DEF IsInjective
  <2> QED BY <1>1, <2>1 DEF Runs
<1>3. IsFiniteSet(1..Len(s)) /\ Cardinality(1..Len(s)) = Len(s)
  BY <1>1, OneTo
<1>4. ASSUME NEW n \in 1..Len(s) PROVE Nth(1..Len(s), n) = n
  <2> DEFINE S == 1..Len(s)
             k == Nth(S, n)
  <2>1. S \in SUBSET Int /\ IsFiniteSet(S) /\ n \in 1..Cardinality(S)
    BY <1>1, <1>3
  <2>2. k \in S /\ Cardinality({j \in S : j <= k}) = n
    <3> HIDE DEF S
    <3> QED BY <2>1, NthFinds
  <2> HIDE DEF k
  <2>3. {j \in S : j <= k} = 1..k
    BY <1>1, <2>2
  <2>4. Cardinality(1..k) = k
    BY <1>1, <2>2, OneTo
  <2> QED BY <2>2, <2>3, <2>4 DEF k
<1>5. Compacted(s) = s
  BY <1>1, <1>2, <1>3, <1>4 DEF Compacted
<1>6. CompactedInPlace(s) = s
  BY <1>1, <1>5 DEF CompactedInPlace
<1> QED BY <1>5, <1>6

\* What Compact leaves in the array is as long as the array, and made of its
\* elements and cleared ones.
LEMMA CompactedInPlaceIs ==
  ASSUME NEW s \in Seq(Nat)
  PROVE  /\ CompactedInPlace(s) \in Seq(Nat)
         /\ Range(CompactedInPlace(s)) \subseteq Range(s) \cup {Zero}
<1> DEFINE c == Compacted(s)
           t == CompactedInPlace(s)
<1>1. DOMAIN s = 1..Len(s) /\ Len(s) \in Nat
  BY LenProperties
<1>2. c \in Seq(Nat) /\ Len(c) \in Nat /\ DOMAIN c = 1..Len(c) /\ Range(c) = Range(s)
  BY CompactedIs, LenProperties
<1>3. t = [i \in 1..Len(s) |-> IF i <= Len(c) THEN c[i] ELSE Zero]
  BY <1>1 DEF CompactedInPlace
<1>4. \A i \in 1..Len(s) : i <= Len(c) => i \in DOMAIN c /\ c[i] \in Nat /\ c[i] \in Range(s)
  <2> HIDE DEF c
  <2>1. \A i \in DOMAIN c : c[i] \in Nat /\ c[i] \in Range(c)
    BY <1>2 DEF Range
  <2> TAKE i \in 1..Len(s)
  <2>2. i <= Len(c) => i \in DOMAIN c
    BY <1>1, <1>2
  <2> QED BY <1>2, <2>1, <2>2
<1> HIDE DEF c, t
<1>5. DOMAIN t = 1..Len(s) /\ \A i \in 1..Len(s) : t[i] \in Nat /\ t[i] \in Range(s) \cup {Zero}
  BY <1>3, <1>4 DEF Zero
<1>6. t \in [1..Len(s) -> Nat]
  BY <1>3, <1>5
<1>7. t \in Seq(Nat)
  BY <1>1, <1>6, SeqDef
<1>8. Range(t) \subseteq Range(s) \cup {Zero}
  BY <1>5 DEF Range
<1> QED BY <1>7, <1>8 DEF t

-------------------------------------------------------------------------------
(***************************************************************************)
(* marshalPrep, on both slices.                                            *)
(***************************************************************************)
\* The two slices of a record.
Slices == [Fields -> Seq(Values)]

\* A sequence of some of the values.
LEMMA SeqOfValues ==
  /\ \A s \in Seq(Values) : s \in Seq(Nat) /\ Range(s) \subseteq Values
  /\ \A s \in Seq(Nat) : Range(s) \subseteq Values => s \in Seq(Values)
<1>1. ASSUME NEW s \in Seq(Values) PROVE s \in Seq(Nat) /\ Range(s) \subseteq Values
  <2>1. Values \subseteq Nat
    BY WireAssumption
  <2>2. s \in [1..Len(s) -> Values] /\ DOMAIN s = 1..Len(s)
    BY LenProperties
  <2> QED BY <2>1, <2>2, SeqMonotonic DEF Range
<1>2. ASSUME NEW s \in Seq(Nat), Range(s) \subseteq Values PROVE s \in Seq(Values)
  <2>1. s \in [1..Len(s) -> Nat] /\ DOMAIN s = 1..Len(s) /\ Len(s) \in Nat
    BY LenProperties
  <2>2. s \in [1..Len(s) -> Values]
    BY <1>2, <2>1 DEF Range
  <2> QED BY <2>1, <2>2, SeqDef
<1> QED BY <1>1, <1>2

\* What is encoded has the elements of the record in increasing order.
LEMMA MarshalledIs ==
  ASSUME NEW rec \in Slices
  PROVE  /\ Marshalled(rec) \in Slices
         /\ SameElements(Marshalled(rec), rec)
         /\ \A f \in Fields : Increasing(Marshalled(rec)[f])
<1> SUFFICES ASSUME NEW f \in Fields
             PROVE  LET m == Compacted(Sorted(rec[f]))
                    IN  /\ m \in Seq(Values) /\ Range(m) = Range(rec[f]) /\ Increasing(m)
  BY DEF Marshalled, Slices, SameElements
<1> DEFINE s == rec[f]
           t == Sorted(s)
           m == Compacted(t)
<1>1. s \in Seq(Nat) /\ Range(s) \subseteq Values
  BY SeqOfValues DEF Slices
<1> HIDE DEF s
<1>2. t \in Seq(Nat) /\ Range(t) = Range(s) /\ Ordered(t)
  BY <1>1, SortedIs DEF Ordered
<1> HIDE DEF t
<1>3. m \in Seq(Nat) /\ Range(m) = Range(t) /\ Increasing(m)
  BY <1>2, CompactedIs
<1> HIDE DEF m
<1>4. m \in Seq(Values)
  BY <1>1, <1>2, <1>3, SeqOfValues
<1> QED BY <1>2, <1>3, <1>4 DEF s, t, m

\* The arrays keep their elements if there is nothing to compact.
LEMMA RewrittenIs ==
  ASSUME NEW rec \in Slices
  PROVE  /\ Rewritten(rec) \in Slices
         /\ NoDuplicates(rec) => /\ SameElements(Rewritten(rec), rec)
                                 /\ NoDuplicates(Rewritten(rec))
<1> SUFFICES ASSUME NEW f \in Fields
             PROVE  LET t == CompactedInPlace(Sorted(rec[f]))
                    IN  /\ t \in Seq(Values)
                        /\ IsInjective(rec[f]) => Range(t) = Range(rec[f]) /\ IsInjective(t)
  BY DEF Rewritten, Slices, SameElements, NoDuplicates
<1> DEFINE s == rec[f]
           t == Sorted(s)
           m == CompactedInPlace(t)
<1>1. s \in Seq(Nat) /\ Range(s) \subseteq Values
  BY SeqOfValues DEF Slices
<1> HIDE DEF s
<1>2. t \in Seq(Nat) /\ Range(t) = Range(s) /\ (IsInjective(s) => IsInjective(t))
  BY <1>1, SortedIs
<1> HIDE DEF t
<1>3. m \in Seq(Nat) /\ Range(m) \subseteq Range(t) \cup {Zero}
  BY <1>2, CompactedInPlaceIs
<1>4. IsInjective(t) => m = t
  BY <1>2, NothingToCompact
<1> HIDE DEF m
<1>5. m \in Seq(Values)
  BY <1>1, <1>2, <1>3, SeqOfValues, WireAssumption
<1> QED BY <1>2, <1>4, <1>5 DEF s, t, m

-------------------------------------------------------------------------------
(***************************************************************************)
(* Type correctness.                                                       *)
(***************************************************************************)

\* Nothing is a pair of slices, and what the user may see is one.
LEMMA SlicesAre ==
  /\ Nothing \in Slices /\ Contents \subseteq Slices
  /\ TypeOK => Seen \subseteq Slices
<1>1. Nothing \in Slices
  BY DEF Nothing, Slices
<1>2. TypeOK => heap[Template] \in Slices
  BY DEF TypeOK, Slices, Owners
<1> QED BY <1>1, <1>2, WireAssumption DEF Seen, Slices

\* The record being written is in the queue and has attempts left.
Busy == sorting # NoRecord => status[sorting] = "queued" /\ writes[sorting] < MaxWrites

\* The template has contents a user may give it, the records none.
LEMMA TypeInit == Init => TypeOK /\ Busy
<1> SUFFICES ASSUME Init PROVE TypeOK /\ Busy
  OBVIOUS
<1>1. heap \in [Owners -> Slices]
  BY SlicesAre DEF Init
<1>2. asked \in [Records -> Slices] /\ wire \in [Records -> Slices]
  BY SlicesAre DEF Init
<1>3. writes \in [Records -> 0..MaxWrites]
  BY WireAssumption DEF Init
<1>4. /\ view \in [Records -> Owners] /\ copied \subseteq Records
      /\ status \in [Records -> {"new", "queued", "done"}]
      /\ raced \subseteq Records /\ sorting \in Records \cup {NoRecord}
  BY DEF Init, Owners
<1>5. Busy
  BY DEF Init, Busy
<1> QED BY <1>1, <1>2, <1>3, <1>4, <1>5 DEF TypeOK, Slices

\* A record that is sent, of whatever making.
LEMMA QueueType ==
  ASSUME TypeOK, NEW r \in Records, NEW rec \in Slices, Queue(r, rec)
  PROVE  /\ status' \in [Records -> {"new", "queued", "done"}]
         /\ asked' \in [Records -> Slices]
         /\ UNCHANGED <<sorting, wire, writes>>
  BY DEF Queue, TypeOK, Slices

\* Sending, sorting and writing keep the types.
LEMMA TypeStep == TypeOK /\ Busy /\ [Next]_vars => TypeOK'
<1> SUFFICES ASSUME TypeOK, Busy, [Next]_vars PROVE TypeOK'
  OBVIOUS
<1>1. ASSUME NEW r \in Records, SendOwn(r) PROVE TypeOK'
  <2>1. PICK rec \in Slices : Queue(r, rec) /\ heap' = [heap EXCEPT ![r] = rec]
    BY <1>1, SlicesAre DEF SendOwn
  <2>2. heap' \in [Owners -> Slices]
    BY <2>1 DEF TypeOK, Slices
  <2> QED BY <1>1, <2>1, <2>2, QueueType DEF SendOwn, TypeOK, Slices
<1>2. ASSUME NEW r \in Records, NEW rec \in Seen, ReadTemplate(r, rec)
      PROVE  raced' \subseteq Records
  BY <1>2 DEF ReadTemplate, TypeOK
<1>3. ASSUME NEW r \in Records, SendClone(r) PROVE TypeOK'
  <2>1. PICK rec \in Seen : Queue(r, rec) /\ ReadTemplate(r, rec)
                            /\ heap' = [heap EXCEPT ![r] = rec]
    BY <1>3 DEF SendClone
  <2>2. rec \in Slices /\ raced' \subseteq Records
    BY <1>2, <2>1, SlicesAre
  <2>3. heap' \in [Owners -> Slices]
    BY <2>1, <2>2 DEF TypeOK, Slices
  <2> QED BY <1>3, <2>1, <2>2, <2>3, QueueType DEF SendClone, TypeOK, Slices
<1>4. ASSUME NEW r \in Records, SendCopy(r) PROVE TypeOK'
  <2>1. PICK rec \in Seen : Queue(r, rec) /\ ReadTemplate(r, rec)
    BY <1>4 DEF SendCopy
  <2>2. rec \in Slices /\ raced' \subseteq Records
    BY <1>2, <2>1, SlicesAre
  <2>3. view' \in [Records -> Owners] /\ copied' \subseteq Records /\ heap' = heap
    BY <1>4 DEF SendCopy, TypeOK, Owners
  <2> QED BY <2>1, <2>2, <2>3, QueueType DEF TypeOK, Slices
<1>5. ASSUME NEW r \in Records, MarshalBegins(r) PROVE TypeOK'
  BY <1>5 DEF MarshalBegins, TypeOK
<1>6. ASSUME NEW r \in Records, NEW ok \in BOOLEAN, Write(r, ok) PROVE TypeOK'
  <2>1. view[r] \in Owners /\ heap[view[r]] \in Slices
    BY DEF TypeOK, Slices
  <2>2. Marshalled(heap[view[r]]) \in Slices /\ Rewritten(heap[view[r]]) \in Slices
    BY <2>1, MarshalledIs, RewrittenIs
  <2>3. wire' \in [Records -> Slices] /\ heap' \in [Owners -> Slices]
    BY <1>6, <2>2 DEF Write, TypeOK, Slices
  <2>4. status' \in [Records -> {"new", "queued", "done"}]
    BY <1>6 DEF Write, TypeOK
  <2>5. writes' \in [Records -> 0..MaxWrites]
    <3>1. writes[r] \in 0..MaxWrites /\ writes[r] < MaxWrites
      BY <1>6, WireAssumption DEF Write, Busy, TypeOK
    <3>2. writes[r] + 1 \in 0..MaxWrites
      BY <3>1, WireAssumption
    <3> QED BY <1>6, <3>2 DEF Write, TypeOK
  <2> QED BY <1>6, <2>3, <2>4, <2>5 DEF Write, TypeOK, Slices
<1>7. CASE UNCHANGED vars
  BY <1>7 DEF vars, TypeOK
<1> QED BY <1>1, <1>3, <1>4, <1>5, <1>6, <1>7 DEF Next

\* Only the write itself ends what MarshalBegins found.
LEMMA BusyStep == TypeOK /\ Busy /\ [Next]_vars => Busy'
<1> SUFFICES ASSUME TypeOK, Busy, [Next]_vars PROVE Busy'
  OBVIOUS
<1>1. ASSUME NEW r \in Records, NEW rec, Queue(r, rec) PROVE Busy'
  BY <1>1 DEF Queue, Busy, TypeOK
<1>2. ASSUME NEW r \in Records, SendOwn(r) \/ SendClone(r) \/ SendCopy(r) PROVE Busy'
  BY <1>1, <1>2 DEF SendOwn, SendClone, SendCopy
<1>3. ASSUME NEW r \in Records, MarshalBegins(r) PROVE Busy'
  BY <1>3 DEF MarshalBegins, Busy
<1>4. ASSUME NEW r \in Records, NEW ok \in BOOLEAN, Write(r, ok) PROVE Busy'
  BY <1>4 DEF Write, Busy
<1>5. CASE UNCHANGED vars
  BY <1>5 DEF vars, Busy
<1> QED BY <1>2, <1>3, <1>4, <1>5 DEF Next

\* Arrays, views, histories and counters keep their types; the retries stay
\* within their bound.
THEOREM TypeCorrect == Spec => []TypeOK
<1>1. TypeOK /\ Busy /\ [Next]_vars => (TypeOK /\ Busy)'
  BY TypeStep, BusyStep
<1> QED BY TypeInit, <1>1, PTL DEF Spec

-------------------------------------------------------------------------------
(***************************************************************************)
(* Who sees whose arrays.                                                  *)
(***************************************************************************)

\* A record has its own arrays, but for one that was sent as a copy of the
\* template's struct.
Views == \A r \in Records : \/ view[r] = r
                            \/ view[r] = Template /\ r \in copied /\ status[r] # "new"

\* A view changes once, when the record is sent.
LEMMA ViewsStep == TypeOK /\ Views /\ [Next]_vars => Views'
<1> SUFFICES ASSUME TypeOK, Views, [Next]_vars PROVE Views'
  OBVIOUS
<1>1. ASSUME NEW r \in Records, SendOwn(r) \/ SendClone(r) PROVE Views'
  BY <1>1 DEF SendOwn, SendClone, Queue, Views, TypeOK
<1>2. ASSUME NEW r \in Records, SendCopy(r) PROVE Views'
  BY <1>2 DEF SendCopy, Queue, Views, TypeOK
<1>3. ASSUME NEW r \in Records, MarshalBegins(r) PROVE Views'
  BY <1>3 DEF MarshalBegins, Views
<1>4. ASSUME NEW r \in Records, NEW ok \in BOOLEAN, Write(r, ok) PROVE Views'
  BY <1>4 DEF Write, Views, TypeOK
<1>5. CASE UNCHANGED vars
  BY <1>5 DEF vars, Views
<1> QED BY <1>1, <1>2, <1>3, <1>4, <1>5 DEF Next

\* The types and the views, together in every state.
LEMMA ViewsAlways == Spec => [](TypeOK /\ Busy /\ Views)
<1>1. Init => TypeOK /\ Busy /\ Views
  BY TypeInit DEF Init, Views
<1>2. TypeOK /\ Busy /\ Views /\ [Next]_vars => (TypeOK /\ Busy /\ Views)'
  BY TypeStep, BusyStep, ViewsStep
<1> QED BY <1>1, <1>2, PTL DEF Spec

\* Any number of clones leave the template alone, whoever is written when.
THEOREM TemplateIsIsolatedAlways == Spec => TemplateIsIsolated
<1>1. TypeOK /\ Views /\ [Next]_vars =>
        [copied' = {} => heap'[Template] = heap[Template]]_vars
  <2> SUFFICES ASSUME TypeOK, Views, Next, copied' = {}
               PROVE  heap'[Template] = heap[Template]
    OBVIOUS
  <2>1. ASSUME NEW r \in Records, SendOwn(r) \/ SendClone(r)
        PROVE  heap'[Template] = heap[Template]
    <3>1. PICK rec : heap' = [heap EXCEPT ![r] = rec]
      BY <2>1 DEF SendOwn, SendClone
    <3>2. r # Template /\ Template \in Owners
      BY WireAssumption DEF Owners
    <3> QED BY <3>1, <3>2 DEF TypeOK
  <2>2. ASSUME NEW r \in Records, SendCopy(r) \/ MarshalBegins(r)
        PROVE  heap'[Template] = heap[Template]
    BY <2>2 DEF SendCopy, MarshalBegins
  <2>3. ASSUME NEW r \in Records, NEW ok \in BOOLEAN, Write(r, ok)
        PROVE  heap'[Template] = heap[Template]
    <3>1. copied = {}
      BY <2>3 DEF Write
    <3>2. view[r] = r
      BY <3>1 DEF Views
    <3> QED BY <2>3, <3>2, WireAssumption DEF Write, TypeOK
  <2> QED BY <2>1, <2>2, <2>3 DEF Next
<1> QED BY <1>1, ViewsAlways, PTL DEF Spec, TemplateIsIsolated

\* Whatever is sent in whatever way, only a copied struct makes the sender
\* write to the arrays the user reads.
THEOREM CloneIsRaceFreeAlways == Spec => []CloneIsRaceFree
<1>1. Init => CloneIsRaceFree
  BY DEF Init, CloneIsRaceFree
<1>2. TypeOK /\ Views /\ CloneIsRaceFree /\ [Next]_vars => CloneIsRaceFree'
  <2> SUFFICES ASSUME TypeOK, Views, CloneIsRaceFree, [Next]_vars PROVE CloneIsRaceFree'
    OBVIOUS
  <2>1. copied \subseteq copied'
    BY DEF Next, SendOwn, SendClone, SendCopy, MarshalBegins, Write, vars
  <2>2. CASE raced' = raced
    BY <2>1, <2>2 DEF CloneIsRaceFree
  <2>3. CASE raced' # raced
    <3>1. PICK r \in Records : \E rec \in Seen : ReadTemplate(r, rec)
      BY <2>3 DEF Next, SendOwn, SendClone, SendCopy, MarshalBegins, Write, vars
    <3>2. TemplateInFlux
      BY <2>3, <3>1 DEF ReadTemplate
    <3>3. sorting \in Records /\ view[sorting] = Template
      BY <3>2 DEF TemplateInFlux, TypeOK
    <3>4. sorting \in copied
      BY <3>3, WireAssumption DEF Views
    <3> QED BY <2>1, <3>4 DEF CloneIsRaceFree
  <2> QED BY <2>2, <2>3
<1> QED BY <1>1, <1>2, ViewsAlways, PTL DEF Spec

-------------------------------------------------------------------------------
(***************************************************************************)
(* What goes to the wire.                                                  *)
(***************************************************************************)

\* Every attempt encodes an increasing sequence, whatever was rewritten before.
THEOREM WireIsCompactAlways == Spec => []WireIsCompact
<1> DEFINE Compact == \A r \in Records, f \in Fields : Increasing(wire[r][f])
<1>1. Init => Compact
  BY DEF Init, Nothing, Increasing
<1>2. TypeOK /\ Compact /\ [Next]_vars => Compact'
  <2> SUFFICES ASSUME TypeOK, Compact, [Next]_vars PROVE Compact'
    OBVIOUS
  <2>1. ASSUME NEW r \in Records, NEW ok \in BOOLEAN, Write(r, ok) PROVE Compact'
    <3>1. heap[view[r]] \in Slices
      BY DEF TypeOK, Slices
    <3>2. \A f \in Fields : Increasing(Marshalled(heap[view[r]])[f])
      BY <3>1, MarshalledIs
    <3>3. /\ wire'[r] = Marshalled(heap[view[r]])
          /\ \A r2 \in Records : r2 # r => wire'[r2] = wire[r2]
      BY <2>1 DEF Write, TypeOK
    <3> QED BY <3>2, <3>3 DEF Increasing
  <2>2. CASE UNCHANGED wire
    BY <2>2 DEF Increasing
  <2> QED BY <2>1, <2>2
          DEF Next, SendOwn, SendClone, SendCopy, Queue, MarshalBegins, vars
<1>3. Compact => WireIsCompact
  BY DEF Increasing, WireIsCompact
<1> QED BY <1>1, <1>2, <1>3, TypeCorrect, PTL DEF Spec

\* What the arrays of a queued record still hold of what Send validated: its
\* elements, if they were distinct, whoever wrote to the arrays; and all of it,
\* until its own first attempt, if nobody shares them.
Held ==
  \A r \in Records :
    /\ r \notin raced /\ status[r] # "new" /\ NoDuplicates(asked[r]) =>
         SameElements(heap[view[r]], asked[r]) /\ NoDuplicates(heap[view[r]])
    /\ r \notin copied /\ status[r] # "new" /\ writes[r] = 0 => heap[r] = asked[r]
    /\ status[r] = "new" => writes[r] = 0

\* The inductive invariant.
Faithful == Held /\ WireIsFaithful


\* SameElements and NoDuplicates say so of each field, and agree through a chain.
LEMMA SameElementsIs ==
  /\ \A a : SameElements(a, a)
  /\ \A a, b, c : SameElements(a, b) /\ SameElements(b, c) => SameElements(a, c)
  BY DEF SameElements

\* A record that has just been sent: nothing is owed on the wire, and its arrays
\* are what Send validated, or the user read them in flux.
LEMMA SentHolds ==
  ASSUME TypeOK, Views, Faithful, NEW r \in Records, NEW rec, Queue(r, rec),
         raced \subseteq raced', copied \subseteq copied',
         \A r2 \in Records : r2 # r => view'[r2] = view[r2]
                                       /\ heap'[view[r2]] = heap[view[r2]]
                                       /\ heap'[r2] = heap[r2],
         r \notin raced' => heap'[view'[r]] = rec,
         r \notin copied' => heap'[r] = rec
  PROVE  Faithful'
<1>1. status[r] = "new" /\ writes[r] = 0
  BY DEF Queue, Faithful, Held
<1>2. /\ asked'[r] = rec /\ status'[r] = "queued" /\ UNCHANGED <<wire, writes>>
      /\ \A r2 \in Records : r2 # r => asked'[r2] = asked[r2] /\ status'[r2] = status[r2]
  BY DEF Queue, TypeOK
<1>3. Held'
  <2> SUFFICES ASSUME NEW r2 \in Records
               PROVE
    /\ r2 \notin raced' /\ status'[r2] # "new" /\ NoDuplicates(asked'[r2]) =>
         SameElements(heap'[view'[r2]], asked'[r2]) /\ NoDuplicates(heap'[view'[r2]])
    /\ r2 \notin copied' /\ status'[r2] # "new" /\ writes'[r2] = 0 => heap'[r2] = asked'[r2]
    /\ status'[r2] = "new" => writes'[r2] = 0
    BY DEF Held, SameElements, NoDuplicates
  <2>1. CASE r2 = r
    BY <1>1, <1>2, <2>1, SameElementsIs
  <2>2. CASE r2 # r
    BY <1>2, <2>2 DEF Faithful, Held
  <2> QED BY <2>1, <2>2
<1>4. WireIsFaithful'
  <2> SUFFICES ASSUME NEW r2 \in Records \ raced', writes'[r2] > 0,
                      NoDuplicates(asked'[r2]) \/ (r2 \notin copied' /\ writes'[r2] = 1)
               PROVE  SameElements(wire'[r2], asked'[r2])
    BY DEF WireIsFaithful, SameElements, NoDuplicates
  <2>1. r2 # r
    BY <1>1, <1>2
  <2> QED BY <1>2, <2>1 DEF Faithful, WireIsFaithful
<1> QED BY <1>3, <1>4 DEF Faithful

\* One attempt: what it encodes is what its record's arrays held, and whoever
\* shares them keeps distinct elements.
LEMMA WriteHolds ==
  ASSUME TypeOK, Busy, Views, Faithful,
         NEW r \in Records, NEW ok \in BOOLEAN, Write(r, ok)
  PROVE  Faithful'
<1> DEFINE h == heap[view[r]]
<1>1. h \in Slices /\ view[r] \in Owners
  BY DEF TypeOK, Slices
<1>2. /\ SameElements(Marshalled(h), h)
      /\ NoDuplicates(h) => SameElements(Rewritten(h), h) /\ NoDuplicates(Rewritten(h))
  BY <1>1, MarshalledIs, RewrittenIs
<1>3. /\ wire'[r] = Marshalled(h) /\ heap'[view[r]] = Rewritten(h)
      /\ \A o \in Owners : o # view[r] => heap'[o] = heap[o]
      /\ writes'[r] = writes[r] + 1 /\ writes[r] \in Nat /\ status'[r] # "new"
      /\ UNCHANGED <<view, copied, raced, asked>>
      /\ \A r2 \in Records : r2 # r => /\ wire'[r2] = wire[r2] /\ writes'[r2] = writes[r2]
                                       /\ status'[r2] = status[r2]
  <2>1. writes[r] \in 0..MaxWrites
    BY DEF TypeOK
  <2> QED BY <1>1, <2>1, WireAssumption DEF Write, TypeOK
<1>4. status[r] # "new"
  BY WireAssumption DEF Write, Busy
<1> HIDE DEF h
<1>5. Held'
  <2> SUFFICES ASSUME NEW r2 \in Records
               PROVE
    /\ r2 \notin raced' /\ status'[r2] # "new" /\ NoDuplicates(asked'[r2]) =>
         SameElements(heap'[view'[r2]], asked'[r2]) /\ NoDuplicates(heap'[view'[r2]])
    /\ r2 \notin copied' /\ status'[r2] # "new" /\ writes'[r2] = 0 => heap'[r2] = asked'[r2]
    /\ status'[r2] = "new" => writes'[r2] = 0
    BY DEF Held, SameElements, NoDuplicates
  <2>1. ASSUME r2 \notin raced', status'[r2] # "new", NoDuplicates(asked'[r2])
        PROVE  SameElements(heap'[view'[r2]], asked'[r2]) /\ NoDuplicates(heap'[view'[r2]])
    <3>1. SameElements(heap[view[r2]], asked[r2]) /\ NoDuplicates(heap[view[r2]])
      BY <1>3, <1>4, <2>1 DEF Faithful, Held
    <3>2. CASE view[r2] = view[r]
      BY <1>2, <1>3, <3>1, <3>2, SameElementsIs DEF h
    <3>3. CASE view[r2] # view[r]
      <4>1. view[r2] \in Owners
        BY DEF TypeOK
      <4> QED BY <1>3, <3>1, <3>3, <4>1
    <3> QED BY <3>2, <3>3
  <2>2. ASSUME r2 \notin copied', status'[r2] # "new", writes'[r2] = 0
        PROVE  heap'[r2] = asked'[r2]
    <3>1. r2 # r
      BY <1>3, <2>2
    <3>2. view[r] # r2 /\ r2 \in Owners
      BY <3>1, WireAssumption DEF Views, Owners
    <3> QED BY <1>3, <2>2, <3>1, <3>2 DEF Faithful, Held
  <2>3. status'[r2] = "new" => writes'[r2] = 0
    BY <1>3 DEF Faithful, Held
  <2> QED BY <2>1, <2>2, <2>3
<1>6. WireIsFaithful'
  <2> SUFFICES ASSUME NEW r2 \in Records \ raced', writes'[r2] > 0,
                      NoDuplicates(asked'[r2]) \/ (r2 \notin copied' /\ writes'[r2] = 1)
               PROVE  SameElements(wire'[r2], asked'[r2])
    BY DEF WireIsFaithful, SameElements, NoDuplicates
  <2>1. CASE r2 # r
    BY <1>3, <2>1 DEF Faithful, WireIsFaithful
  <2>2. CASE r2 = r
    <3>1. CASE NoDuplicates(asked'[r])
      <4>1. SameElements(h, asked[r])
        BY <1>3, <1>4, <2>2, <3>1 DEF Faithful, Held, h
      <4> QED BY <1>2, <1>3, <2>2, <4>1, SameElementsIs
    <3>2. CASE r \notin copied' /\ writes'[r] = 1
      <4>1. h = asked[r]
        BY <1>3, <1>4, <3>2 DEF Faithful, Held, Views, h
      <4> QED BY <1>2, <1>3, <2>2, <4>1
    <3> QED BY <2>2, <3>1, <3>2
  <2> QED BY <2>1, <2>2
<1> QED BY <1>5, <1>6 DEF Faithful

\* A record without duplicates reaches the wire as Send validated it, on every
\* attempt and whoever shares its arrays; one that shares with nobody does on
\* its first attempt, duplicates or not.
THEOREM WireIsFaithfulAlways == Spec => []WireIsFaithful
<1>1. Init => Faithful
  BY DEF Init, Faithful, Held, WireIsFaithful
<1>2. TypeOK /\ Busy /\ Views /\ Faithful /\ [Next]_vars => Faithful'
  <2> SUFFICES ASSUME TypeOK, Busy, Views, Faithful, [Next]_vars PROVE Faithful'
    OBVIOUS
  <2>1. \A r \in Records : r \in Owners /\ Template \in Owners /\ r # Template
    BY WireAssumption DEF Owners
  <2>2. \A r, r2 \in Records : r2 # r => view[r2] # r
    BY <2>1 DEF Views
  <2>3. ASSUME NEW r \in Records, SendOwn(r) \/ SendClone(r) PROVE Faithful'
    <3>1. PICK rec : /\ Queue(r, rec) /\ heap' = [heap EXCEPT ![r] = rec]
                     /\ UNCHANGED <<view, copied>> /\ raced \subseteq raced'
      BY <2>3 DEF SendOwn, SendClone, ReadTemplate
    <3>2. view[r] = r
      BY <3>1 DEF Queue, Views
    <3>3. heap'[r] = rec /\ \A o \in Owners : o # r => heap'[o] = heap[o]
      BY <2>1, <3>1 DEF TypeOK
    <3>4. \A r2 \in Records : r2 # r => /\ heap'[view[r2]] = heap[view[r2]]
                                        /\ heap'[r2] = heap[r2]
      BY <2>1, <2>2, <3>3 DEF TypeOK
    <3> QED BY <3>1, <3>2, <3>3, <3>4, SentHolds
  <2>4. ASSUME NEW r \in Records, SendCopy(r) PROVE Faithful'
    <3>1. PICK rec : /\ Queue(r, rec) /\ ReadTemplate(r, rec)
                     /\ view' = [view EXCEPT ![r] = Template]
                     /\ copied' = copied \cup {r} /\ heap' = heap
      BY <2>4 DEF SendCopy
    <3>2. view'[r] = Template /\ \A r2 \in Records : r2 # r => view'[r2] = view[r2]
      BY <3>1 DEF TypeOK
    <3>3. raced \subseteq raced' /\ (r \notin raced' => rec = heap[Template])
      BY <3>1 DEF ReadTemplate
    <3> QED BY <3>1, <3>2, <3>3, SentHolds
  <2>5. ASSUME NEW r \in Records, NEW ok \in BOOLEAN, Write(r, ok) PROVE Faithful'
    BY <2>5, WriteHolds
  <2>6. CASE UNCHANGED <<heap, view, copied, status, raced, asked, wire, writes>>
    BY <2>6 DEF Faithful, Held, WireIsFaithful, SameElements, NoDuplicates
  <2> QED BY <2>3, <2>4, <2>5, <2>6 DEF Next, MarshalBegins, vars
<1>3. Faithful => WireIsFaithful
  BY DEF Faithful
<1> QED BY <1>1, <1>2, <1>3, ViewsAlways, PTL DEF Spec

===============================================================================
