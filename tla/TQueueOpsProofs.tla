-------------------------- MODULE TQueueOpsProofs --------------------------
(***************************************************************************)
(* What the pure operators of TQueueOps return, for every map of events.   *)
(***************************************************************************)
EXTENDS TQueueOps, FiniteSetTheorems, SequenceTheorems, WellFoundedInduction, TLAPS

\* A non-empty set of naturals has a least member, which recomputeHead finds.
LEMMA LeastOf ==
  ASSUME NEW S \in SUBSET Nat, S # {}
  PROVE  Least(S) \in S /\ \A j \in S : Least(S) <= j
<1>1. PICK x \in S : \A y \in S : ~ (<<y, x>> \in OpToRel(<, Nat))
  BY NatLessThanWellFounded, WFMin
<1>2. ASSUME NEW y \in S, y < x
      PROVE  <<y, x>> \in OpToRel(<, Nat)
  BY <1>2 DEF OpToRel
<1>3. ASSUME NEW y \in S
      PROVE  x <= y
  <2>1. ~ (y < x)
    BY <1>1, <1>2
  <2>2. x \in Nat /\ y \in Nat
    OBVIOUS
  <2> QED
    BY <2>1, <2>2
<1> QED
  BY <1>3 DEF Least

\* A non-empty set of naturals with a bound has a greatest member, the tail
\* that Replay computes.
LEMMA GreatestOf ==
  ASSUME NEW n \in Nat, NEW S \in SUBSET (0..n), S # {}
  PROVE  Greatest(S) \in S /\ \A j \in S : j <= Greatest(S)
<1> DEFINE T == {n - i : i \in S}
<1>1. T \in SUBSET Nat /\ T # {}
  <2>1. \A i \in S : n - i \in Nat
    OBVIOUS
  <2>2. PICK i \in S : TRUE
    OBVIOUS
  <2>3. n - i \in T
    OBVIOUS
  <2>4. T \in SUBSET Nat
    BY ONLY <2>1 DEF T
  <2> QED
    BY <2>3, <2>4
<1> HIDE DEF T
<1>2. Least(T) \in T /\ \A j \in T : Least(T) <= j
  BY <1>1, LeastOf
<1>3. PICK x \in S : Least(T) = n - x
  BY <1>2 DEF T
<1>4. ASSUME NEW y \in S
      PROVE  y <= x
  <2>1. n - y \in T
    BY DEF T
  <2> QED
    BY <2>1, <1>2, <1>3
<1> QED
  BY <1>4 DEF Greatest

\* The n lowest members of a finite set are closed downwards: what getLocked
\* returns up to limit has no gap.
LEMMA LowestClosed ==
  ASSUME NEW n \in Nat, NEW S \in SUBSET (0..n), NEW k \in Nat,
         NEW i \in S, NEW m \in Lowest(S, k), i <= m
  PROVE  i \in Lowest(S, k)
<1> DEFINE A == {j \in S : j < i}
           B == {j \in S : j < m}
<1>1. IsFiniteSet(B) /\ A \subseteq B
  <2>1. IsFiniteSet(0..n)
    BY FS_Interval
  <2>2. B \subseteq 0..n
    OBVIOUS
  <2>3. ASSUME NEW j \in S, j < i
        PROVE  j < m
    <3>1. j \in Int /\ i \in Int /\ m \in Int
      BY DEF Lowest
    <3> QED
      BY <3>1, <2>3
  <2>4. A \subseteq B
    BY <2>3
  <2> QED
    BY <2>1, <2>2, <2>4, FS_Subset
<1> HIDE DEF A, B
<1>2. Cardinality(A) <= Cardinality(B)
  BY <1>1, FS_Subset
<1>3. Cardinality(A) \in Nat /\ Cardinality(B) \in Nat
  BY <1>1, FS_Subset, FS_CardinalityType
<1>4. Cardinality(B) < k
  BY DEF Lowest, B
<1>5. Cardinality(A) < k
  BY <1>2, <1>3, <1>4
<1> QED
  BY <1>5 DEF Lowest, A

\* HeadOf is 0 for the empty map and its least id otherwise.
LEMMA HeadOfMap ==
  ASSUME NEW evs, DOMAIN evs \subseteq Nat \ {0}
  PROVE  /\ HeadOf(evs) = 0 <=> DOMAIN evs = {}
         /\ DOMAIN evs # {} =>
              HeadOf(evs) \in DOMAIN evs /\ \A i \in DOMAIN evs : HeadOf(evs) <= i
<1> QED
  BY LeastOf DEF HeadOf

\* What AllButLast removes comes before what it keeps.
LEMMA OldestRemoved ==
  ASSUME NEW evs, NEW n \in Nat, DOMAIN evs \subseteq 1..n, NEW k \in Nat,
         NEW i \in AllButLast(evs, k), NEW j \in DOMAIN evs, j < i
  PROVE  j \in AllButLast(evs, k)
<1> DEFINE A == {x \in DOMAIN evs : x > i}
           B == {x \in DOMAIN evs : x > j}
<1>1. i \in DOMAIN evs /\ i \in Int /\ j \in Int
  BY DEF AllButLast
<1>2. A \subseteq B
  BY <1>1
<1>3. IsFiniteSet(B)
  BY FS_Interval, FS_Subset
<1>4. Cardinality(A) <= Cardinality(B) /\ Cardinality(A) \in Nat /\ Cardinality(B) \in Nat
  BY <1>2, <1>3, FS_Subset, FS_CardinalityType
<1>5. ~(Cardinality(A) < k)
  BY <1>1 DEF AllButLast, Highest
<1>6. ~(Cardinality(B) < k)
  BY <1>4, <1>5
<1> QED
  BY <1>6 DEF AllButLast, Highest

\* A set of numbers up to b is finite.
LEMMA BoundedIsFinite ==
  ASSUME NEW b \in Nat, NEW S \in SUBSET (0..b)
  PROVE  IsFiniteSet(S) /\ Cardinality(S) \in Nat
<1>1. IsFiniteSet(0..b)
  BY FS_Interval
<1>2. IsFiniteSet(S)
  BY <1>1, FS_Subset
<1> QED
  BY <1>2, FS_CardinalityType

\* A finite set of ids can be enumerated in increasing order.
LEMMA CanBeSorted ==
  ASSUME NEW b \in Nat, NEW S \in SUBSET (0..b)
  PROVE  \E s \in [1..Cardinality(S) -> S] :
           \A m, n \in 1..Cardinality(S) : m < n => s[m] < s[n]
<1> DEFINE Sorted(T) == \E s \in [1..Cardinality(T) -> T] :
                          \A m, n \in 1..Cardinality(T) : m < n => s[m] < s[n]
           Bad == {k \in Nat : \E T \in SUBSET (0..b) : Cardinality(T) = k /\ ~Sorted(T)}
<1>1. \A T \in SUBSET (0..b) : IsFiniteSet(T) /\ Cardinality(T) \in Nat
  BY BoundedIsFinite
<1>2. SUFFICES ASSUME ~Sorted(S)
               PROVE  FALSE
  OBVIOUS
<1>3. Bad # {} /\ Bad \in SUBSET Nat
  BY <1>1, <1>2
<1>4. PICK k \in Bad : \A j \in Bad : k <= j
  BY <1>3, LeastOf
<1>5. PICK T \in SUBSET (0..b) : Cardinality(T) = k /\ ~Sorted(T)
  OBVIOUS
<1>6. T # {}
  <2>1. SUFFICES ASSUME T = {} PROVE FALSE
    OBVIOUS
  <2>2. Cardinality(T) = 0
    BY <2>1, FS_EmptySet
  <2>3. 1..Cardinality(T) = {}
    BY <2>2
  <2>4. [i \in {} |-> 0] \in [1..Cardinality(T) -> T]
    BY <2>3
  <2>5. Sorted(T)
    BY <2>3, <2>4
  <2> QED
    BY <2>5, <1>5
<1> DEFINE g == Greatest(T)
           U == T \ {g}
<1>7. g \in T /\ \A j \in T : j <= g
  BY <1>6, GreatestOf
<1>8. U \in SUBSET (0..b) /\ Cardinality(U) = k - 1 /\ k \in Nat /\ k - 1 \in Nat
  <2>1. Cardinality(U) = Cardinality(T) - 1
    BY <1>1, <1>7, FS_RemoveElement
  <2>2. Cardinality(U) \in Nat
    BY <1>1
  <2> QED
    BY <2>1, <2>2, <1>5
<1> HIDE DEF g, U
<1>9. Sorted(U)
  <2>1. k - 1 \notin Bad
    BY <1>4, <1>8
  <2> QED
    BY <2>1, <1>8
<1>10. PICK s \in [1..(k - 1) -> U] : \A m, n \in 1..(k - 1) : m < n => s[m] < s[n]
  BY <1>8, <1>9
<1> DEFINE t == [i \in 1..k |-> IF i = k THEN g ELSE s[i]]
<1>11. t \in [1..k -> T]
  <2>1. \A i \in 1..k : i # k => i \in 1..(k - 1)
    BY <1>8
  <2>2. U \subseteq T
    BY DEF U
  <2> QED
    BY <2>1, <2>2, <1>7
<1>12. ASSUME NEW m \in 1..k, NEW n \in 1..k, m < n
       PROVE  t[m] < t[n]
  <2>1. m \in 1..(k - 1) /\ m # k /\ t[m] = s[m] /\ s[m] \in U
    BY <1>8, <1>12
  <2>2. CASE n = k
    <3>1. t[n] = g
      BY <2>2
    <3>2. s[m] \in T /\ s[m] # g
      BY <2>1 DEF U
    <3>4. s[m] \in Int /\ g \in Int
      <4>1. \A j \in T : j \in Int
        OBVIOUS
      <4> QED
        BY <4>1, <3>2, <1>7
    <3>3. s[m] <= g
      BY <3>2, <1>7
    <3> QED
      BY <2>1, <3>1, <3>2, <3>3, <3>4
  <2>3. CASE n # k
    <3>1. n \in 1..(k - 1) /\ t[n] = s[n]
      BY <1>8, <2>3
    <3> QED
      BY <2>1, <3>1, <1>10, <1>12
  <2> QED
    BY <2>2, <2>3
<1> HIDE DEF t
<1>13. Sorted(T)
  BY <1>5, <1>11, <1>12
<1> QED
  BY <1>5, <1>13

\* What getLocked sorts is a sequence of the ids, each once, increasing.
LEMMA InOrderOf ==
  ASSUME NEW b \in Nat, NEW S \in SUBSET (0..b)
  PROVE  /\ InOrder(S) \in Seq(S) /\ Len(InOrder(S)) = Cardinality(S)
         /\ \A m, n \in 1..Len(InOrder(S)) : m < n => InOrder(S)[m] < InOrder(S)[n]
         /\ \A i \in S : \E n \in 1..Len(InOrder(S)) : InOrder(S)[n] = i
<1> DEFINE s == InOrder(S)
           c == Cardinality(S)
<1>1. IsFiniteSet(S) /\ c \in Nat
  BY BoundedIsFinite
<1>2. s \in [1..c -> S] /\ \A m, n \in 1..c : m < n => s[m] < s[n]
  BY CanBeSorted DEF InOrder
<1> HIDE DEF s
<1>3. s \in Seq(S) /\ Len(s) = c
  BY <1>1, <1>2
<1>4. s \in Injection(1..c, S)
  <2>1. ASSUME NEW m \in 1..c, NEW n \in 1..c, s[m] = s[n]
        PROVE  m = n
    <3>1. s[m] \in Int /\ s[n] \in Int
      <4>1. \A j \in S : j \in Int
        OBVIOUS
      <4> QED
        BY <4>1, <1>2
    <3>2. ~(m < n) /\ ~(n < m)
      BY <2>1, <3>1, <1>2
    <3> QED
      BY <3>2, <1>1
  <2> QED
    BY <2>1, <1>2 DEF Injection, IsInjective
<1>5. Cardinality(1..c) = c
  BY <1>1, FS_Interval
<1>6. s \in Surjection(1..c, S)
  BY <1>1, <1>4, <1>5, FS_Injection
<1>7. \A i \in S : \E n \in 1..c : s[n] = i
  BY <1>6 DEF Surjection
<1> QED
  BY <1>2, <1>3, <1>7 DEF s

\* Two increasing sequences of ids, the first below a bound and the second
\* above it, make an increasing one.
LEMMA JoinInOrder ==
  ASSUME NEW E \in SUBSET Int, NEW c \in Int, NEW s \in Seq(E), NEW t \in Seq(E),
         \A n \in DOMAIN s : s[n] < c, \A n \in DOMAIN t : c < t[n],
         \A m, n \in DOMAIN s : m < n => s[m] < s[n],
         \A m, n \in DOMAIN t : m < n => t[m] < t[n]
  PROVE  /\ s \o t \in Seq(E)
         /\ \A m, n \in DOMAIN (s \o t) : m < n => (s \o t)[m] < (s \o t)[n]
         /\ \A n \in DOMAIN s : n \in DOMAIN (s \o t) /\ (s \o t)[n] = s[n]
         /\ \A x : (\E n \in DOMAIN (s \o t) : (s \o t)[n] = x) <=>
                     ((\E n \in DOMAIN s : s[n] = x) \/ (\E n \in DOMAIN t : t[n] = x))
<1> DEFINE u == s \o t
           a == Len(s)
           d == Len(t)
<1>1. /\ a \in Nat /\ d \in Nat /\ DOMAIN s = 1..a /\ DOMAIN t = 1..d
      /\ \A n \in 1..a : s[n] \in E
      /\ \A n \in 1..d : t[n] \in E
  BY LenProperties, ElementOfSeq
<1>2. u \in Seq(E) /\ DOMAIN u = 1..(a + d)
      /\ \A n \in 1..(a + d) : u[n] = IF n <= a THEN s[n] ELSE t[n - a]
  <2>1. u \in Seq(E) /\ Len(u) = a + d
        /\ \A n \in 1..(a + d) : u[n] = IF n <= a THEN s[n] ELSE t[n - a]
    BY ConcatProperties
  <2>2. DOMAIN u = 1..Len(u)
    BY <2>1, LenProperties
  <2> QED
    BY <2>1, <2>2
<1> HIDE DEF u, a, d
<1>3. ASSUME NEW m \in 1..(a + d), NEW n \in 1..(a + d), m < n
      PROVE  u[m] < u[n]
  <2>1. CASE n <= a
    <3>1. m \in 1..a /\ n \in 1..a /\ u[m] = s[m] /\ u[n] = s[n]
      BY <1>1, <1>2, <1>3, <2>1
    <3> QED
      BY <1>1, <1>3, <3>1
  <2>2. CASE m <= a /\ ~(n <= a)
    <3>1. m \in 1..a /\ n - a \in 1..d /\ u[m] = s[m] /\ u[n] = t[n - a]
      BY <1>1, <1>2, <2>2
    <3>2. s[m] \in Int /\ t[n - a] \in Int
      <4>1. s[m] \in E /\ t[n - a] \in E
        BY <1>1, <3>1
      <4> QED
        BY <4>1
    <3>3. s[m] < c /\ c < t[n - a]
      BY <1>1, <3>1
    <3>4. s[m] < t[n - a]
      BY <3>2, <3>3
    <3> QED
      BY <3>1, <3>4
  <2>3. CASE ~(m <= a)
    <3>1. m - a \in 1..d /\ n - a \in 1..d /\ m - a < n - a /\ u[m] = t[m - a] /\ u[n] = t[n - a]
      BY <1>1, <1>2, <1>3, <2>3
    <3> QED
      BY <1>1, <3>1
  <2> QED
    BY <1>1, <1>3, <2>1, <2>2, <2>3
<1>4. \A n \in 1..a : n \in 1..(a + d) /\ u[n] = s[n]
  BY <1>1, <1>2
<1>5. \A n \in 1..d : n + a \in 1..(a + d) /\ u[n + a] = t[n]
  <2>1. \A n \in 1..d : n + a \in 1..(a + d) /\ ~(n + a <= a) /\ (n + a) - a = n
    BY <1>1
  <2> QED
    BY <1>2, <2>1
<1>6. \A n \in 1..(a + d) : (n \in 1..a /\ u[n] = s[n]) \/ (n - a \in 1..d /\ u[n] = t[n - a])
  BY <1>1, <1>2
<1> QED
  BY <1>1, <1>2, <1>3, <1>4, <1>5, <1>6 DEF u

=============================================================================
