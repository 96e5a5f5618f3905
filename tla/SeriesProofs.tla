---------------------------- MODULE SeriesProofs ----------------------------
(***************************************************************************)
(* Lemmas about positions, loops and series: what picking positions of a   *)
(* sequence leaves, what thinning and folding keep, what a verdict is of.  *)
(* A selection is an increasing map from the rows that are kept to the     *)
(* rows they were; thinning is one, folding a reading in keeps one, and    *)
(* two of them in a row are one.                                           *)
(***************************************************************************)
EXTENDS CounterSeries, FiniteSetTheorems, SequenceTheorems, TLAPS

-----------------------------------------------------------------------------
(* The k-th of a set of positions.                                         *)

\* A finite set has a size, and only the empty one has none.
LEMMA FiniteSize ==
  ASSUME NEW S, IsFiniteSet(S)
  PROVE  /\ Cardinality(S) \in Nat
         /\ \A x \in S : Cardinality(S) >= 1
<1>1. Cardinality(S) \in Nat
  BY FS_CardinalityType
<1>2. Cardinality(S) = 0 <=> S = {}
  BY FS_EmptySet
<1> QED
  BY <1>1, <1>2

LEMMA PositionsAreFinite ==
  ASSUME NEW n \in Nat, NEW J \in SUBSET (1..n)
  PROVE  IsFiniteSet(J) /\ Cardinality(J) \in Nat /\ Cardinality(J) <= n
<1>1. IsFiniteSet(1..n) /\ Cardinality(1..n) = n
  BY FS_Interval
<1>2. IsFiniteSet(J) /\ Cardinality(J) <= Cardinality(1..n)
  BY <1>1, FS_Subset
<1> QED
  BY <1>1, <1>2, FiniteSize

\* Numbers are ranked in their order.
LEMMA PlacesGrow ==
  ASSUME NEW J \in SUBSET Int, IsFiniteSet(J)
  PROVE  /\ \A a \in J : PlaceOf(J, a) \in 1..Cardinality(J)
         /\ \A a, b \in J : a < b => PlaceOf(J, a) < PlaceOf(J, b)
<1>1. IsFiniteSet(J) /\ Cardinality(J) \in Nat
  BY FS_CardinalityType
<1>2. ASSUME NEW a \in J
      PROVE  IsFiniteSet({j \in J : j <= a}) /\ PlaceOf(J, a) \in 1..Cardinality(J)
  <2> DEFINE A == {j \in J : j <= a}
  <2>1. A \in SUBSET J /\ a \in A
    OBVIOUS
  <2>2. IsFiniteSet(A) /\ Cardinality(A) <= Cardinality(J)
    BY <1>1, <2>1, FS_Subset
  <2>3. Cardinality(A) \in Nat /\ Cardinality(A) >= 1
    BY <2>1, <2>2, FiniteSize
  <2>4. Cardinality(A) \in 1..Cardinality(J)
    <3> HIDE DEF A
    <3> QED
      BY <1>1, <2>2, <2>3
  <2> QED
    BY <2>2, <2>4 DEF PlaceOf
<1>3. ASSUME NEW a \in J, NEW b \in J, a < b
      PROVE  PlaceOf(J, a) < PlaceOf(J, b)
  <2> DEFINE A == {j \in J : j <= a}
             B == {j \in J : j <= b}
  <2>0. \A j \in J : j <= a => j <= b
    BY <1>3
  <2>1. A \in SUBSET B /\ b \in B /\ b \notin A
    <3>1. A \subseteq B
      BY <2>0
    <3>2. b \in B /\ b \notin A
      BY <1>3
    <3> QED
      BY <3>1, <3>2
  <2>2. IsFiniteSet(B) /\ Cardinality(A) \in Nat /\ Cardinality(B) \in Nat
    BY <1>1, <1>2 DEF PlaceOf
  <2>3. Cardinality(A) <= Cardinality(B) /\ (Cardinality(B) = Cardinality(A) => B = A)
    BY <2>1, <2>2, FS_Subset
  <2>4. Cardinality(A) < Cardinality(B)
    <3> HIDE DEF A, B
    <3> QED
      BY <2>1, <2>2, <2>3
  <2> QED
    BY <2>4 DEF PlaceOf
<1> QED
  BY <1>2, <1>3

\* Nth lists a set of numbers in their order, each once.
LEMMA ListedInOrder ==
  ASSUME NEW J \in SUBSET Int, IsFiniteSet(J)
  PROVE  /\ \A k \in 1..Cardinality(J) : Nth(J, k) \in J /\ PlaceOf(J, Nth(J, k)) = k
         /\ \A i \in J : Nth(J, PlaceOf(J, i)) = i
         /\ \A k, l \in 1..Cardinality(J) : k < l => Nth(J, k) < Nth(J, l)
<1> DEFINE C == Cardinality(J)
           rank == [i \in J |-> PlaceOf(J, i)]
<1>0. /\ C \in Nat
      /\ \A i \in J : i \in Int
      /\ \A i \in J : PlaceOf(J, i) \in 1..C
      /\ \A i \in J : PlaceOf(J, i) \in Int
      /\ \A a, b \in J : a < b => PlaceOf(J, a) < PlaceOf(J, b)
  <2>1. C \in Nat
    BY FS_CardinalityType
  <2>2. \A i \in J : i \in Int
    OBVIOUS
  <2>3. \A i \in J : PlaceOf(J, i) \in 1..C
    BY PlacesGrow
  <2>4. \A a, b \in J : a < b => PlaceOf(J, a) < PlaceOf(J, b)
    BY PlacesGrow
  <2> QED
    BY <2>1, <2>2, <2>3, <2>4
<1> HIDE DEF C
<1>1. rank \in Injection(J, 1..C)
  <2>1. rank \in [J -> 1..C]
    BY <1>0
  <2>2. ASSUME NEW a \in J, NEW b \in J, rank[a] = rank[b]
        PROVE  a = b
    <3>1. PlaceOf(J, a) = PlaceOf(J, b)
      BY <2>2
    <3>2. ~ (a < b) /\ ~ (b < a)
      BY <1>0, <3>1
    <3> QED
      BY <1>0, <3>2
  <2> QED
    BY <2>1, <2>2 DEF Injection, IsInjective
<1>2. rank \in Surjection(J, 1..C)
  <2>1. IsFiniteSet(1..C) /\ Cardinality(1..C) = C
    BY <1>0, FS_Interval
  <2>2. Cardinality(J) = Cardinality(1..C)
    BY <2>1 DEF C
  <2> QED
    BY <1>1, <2>1, <2>2, FS_Injection
<1>3. ASSUME NEW k \in 1..C
      PROVE  Nth(J, k) \in J /\ PlaceOf(J, Nth(J, k)) = k
  <2>1. PICK i \in J : rank[i] = k
    BY <1>2 DEF Surjection
  <2> QED
    BY <2>1 DEF Nth
<1>4. ASSUME NEW i \in J
      PROVE  Nth(J, PlaceOf(J, i)) = i
  <2>1. Nth(J, PlaceOf(J, i)) \in J /\ PlaceOf(J, Nth(J, PlaceOf(J, i))) = PlaceOf(J, i)
    BY <1>0, <1>3
  <2> DEFINE j == Nth(J, PlaceOf(J, i))
  <2>2. /\ j < i => PlaceOf(J, j) < PlaceOf(J, i)
        /\ i < j => PlaceOf(J, i) < PlaceOf(J, j)
    BY <1>0, <2>1, Zenon
  <2>3. i \in Int /\ j \in Int /\ PlaceOf(J, i) \in Int /\ PlaceOf(J, j) = PlaceOf(J, i)
    BY <1>0, <2>1
  <2> QED
    BY <2>2, <2>3
<1>5. ASSUME NEW k \in 1..C, NEW l \in 1..C, k < l
      PROVE  Nth(J, k) < Nth(J, l)
  <2>1. /\ Nth(J, k) \in J /\ PlaceOf(J, Nth(J, k)) = k
        /\ Nth(J, l) \in J /\ PlaceOf(J, Nth(J, l)) = l
    BY <1>3
  <2>2. Nth(J, l) < Nth(J, k) => PlaceOf(J, Nth(J, l)) < PlaceOf(J, Nth(J, k))
    BY <1>0, <2>1, Zenon
  <2>3. Nth(J, k) \in Int /\ Nth(J, l) \in Int /\ k \in Int /\ l \in Int
    BY <1>0, <2>1
  <2>4. Nth(J, l) < Nth(J, k) => l < k
    BY <2>1, <2>2
  <2>5. Nth(J, l) # Nth(J, k)
    BY <1>5, <2>1, <2>3
  <2> QED
    BY <1>5, <2>3, <2>4, <2>5
<1> QED
  BY <1>3, <1>4, <1>5 DEF C

LEMMA RankGrows ==
  ASSUME NEW n \in Nat, NEW J \in SUBSET (1..n)
  PROVE  /\ \A a \in J : PlaceOf(J, a) \in 1..Cardinality(J)
         /\ \A a, b \in J : a < b => PlaceOf(J, a) < PlaceOf(J, b)
<1>1. J \in SUBSET Int /\ IsFiniteSet(J)
  BY PositionsAreFinite
<1> QED
  BY <1>1, PlacesGrow

LEMMA NthInOrder ==
  ASSUME NEW n \in Nat, NEW J \in SUBSET (1..n)
  PROVE  /\ \A k \in 1..Cardinality(J) : Nth(J, k) \in J /\ PlaceOf(J, Nth(J, k)) = k
         /\ \A i \in J : Nth(J, PlaceOf(J, i)) = i
         /\ \A k, l \in 1..Cardinality(J) : k < l => Nth(J, k) < Nth(J, l)
<1>1. J \in SUBSET Int /\ IsFiniteSet(J)
  BY PositionsAreFinite
<1> QED
  BY <1>1, ListedInOrder

\* The first position is first, and an unbroken tail is the tail of the list.
LEMMA NthAtTheEnds ==
  ASSUME NEW n \in Nat, NEW J \in SUBSET (1..n)
  PROVE  /\ 1 \in J => Cardinality(J) >= 1 /\ Nth(J, 1) = 1
         /\ \A r \in 0..n : (n - r + 1)..n \subseteq J =>
              \A k \in 0..r-1 : /\ Cardinality(J) - k \in 1..Cardinality(J)
                                /\ Nth(J, Cardinality(J) - k) = n - k
<1>0. /\ \A i \in J : Nth(J, PlaceOf(J, i)) = i
      /\ \A i \in J : PlaceOf(J, i) \in 1..Cardinality(J)
      /\ \A i \in J : i \in 1..n
      /\ IsFiniteSet(J) /\ Cardinality(J) \in Nat
  <2>1. \A i \in J : Nth(J, PlaceOf(J, i)) = i
    BY NthInOrder
  <2>2. \A i \in J : PlaceOf(J, i) \in 1..Cardinality(J)
    BY RankGrows
  <2> QED
    BY <2>1, <2>2, PositionsAreFinite
<1>1. ASSUME 1 \in J
      PROVE  Cardinality(J) >= 1 /\ Nth(J, 1) = 1
  <2>1. \A j \in J : j <= 1 => j = 1
    BY <1>0
  <2>2. {j \in J : j <= 1} = {1}
    <3> DEFINE A == {j \in J : j <= 1}
    <3>1. 1 \in A /\ \A j \in A : j = 1
      BY <1>1, <2>1
    <3>2. A = {1}
      <4> HIDE DEF A
      <4> QED
        BY <3>1
    <3> QED
      BY <3>2
  <2>3. PlaceOf(J, 1) = 1
    BY <2>2, FS_Singleton DEF PlaceOf
  <2>4. 1 \in 1..Cardinality(J) /\ Nth(J, 1) = 1
    BY <1>0, <1>1, <2>3
  <2> QED
    BY <2>4, PositionsAreFinite
<1>2. ASSUME NEW r \in 0..n, (n - r + 1)..n \subseteq J, NEW k \in 0..r-1
      PROVE  /\ Cardinality(J) - k \in 1..Cardinality(J)
             /\ Nth(J, Cardinality(J) - k) = n - k
  <2> DEFINE A == {j \in J : j <= n - k}
             B == (n - k + 1)..n
  <2>1. A \cup B = J /\ A \cap B = {} /\ n - k \in J
    <3>1. n - k \in (n - r + 1)..n /\ (\A j \in B : j \in (n - r + 1)..n)
      OBVIOUS
    <3>2. \A j \in 1..n : j <= n - k <=> j \notin B
      OBVIOUS
    <3>3. \A j \in B : j \in J
      BY <1>2, <3>1
    <3>4. A \cap B = {}
      BY <1>0, <3>2
    <3>5. A \cup B = J
      <4> HIDE DEF B
      <4> QED
        BY <1>0, <3>2, <3>3
    <3> QED
      BY <1>2, <3>1, <3>4, <3>5
  <2>2. IsFiniteSet(B) /\ Cardinality(B) = k
    BY FS_Interval
  <2>3. IsFiniteSet(A) /\ Cardinality(A) \in Nat
    <3>1. A \in SUBSET J
      OBVIOUS
    <3>2. IsFiniteSet(A)
      BY <1>0, <3>1, FS_Subset
    <3> QED
      BY <3>2, FiniteSize
  <2>4. Cardinality(J) = Cardinality(A) + k
    <3>1. Cardinality(A \cup B) = Cardinality(A) + Cardinality(B) - Cardinality(A \cap B)
      BY <2>2, <2>3, FS_Union
    <3>2. Cardinality(A \cap B) = 0
      BY <2>1, FS_EmptySet
    <3>3. Cardinality(A \cup B) = Cardinality(J)
      BY <2>1
    <3> HIDE DEF A, B
    <3> QED
      BY <2>2, <2>3, <3>1, <3>2, <3>3
  <2>5. PlaceOf(J, n - k) = Cardinality(J) - k
    <3>1. PlaceOf(J, n - k) = Cardinality(A)
      BY DEF PlaceOf
    <3> HIDE DEF A, B
    <3> QED
      BY <2>3, <2>4, <3>1
  <2> QED
    <3> HIDE DEF A, B
    <3>1. PlaceOf(J, n - k) \in 1..Cardinality(J) /\ Nth(J, PlaceOf(J, n - k)) = n - k
      BY <1>0, <2>1
    <3>2. Cardinality(J) - k \in 1..Cardinality(J)
      BY <2>5, <3>1
    <3>3. Nth(J, Cardinality(J) - k) = n - k
      BY <2>5, <3>1
    <3> QED
      BY <3>2, <3>3
<1> QED
  BY <1>1, <1>2

-----------------------------------------------------------------------------
(* What an order puts where.                                               *)

\* A total order of n things; what goes before each of them, how many those are, and
\* the one that so many go before.
Orders(n, R) ==
  /\ \A i \in 1..n : <<i, i>> \in R
  /\ \A i, j \in 1..n : <<i, j>> \in R \/ <<j, i>> \in R
  /\ \A i, j \in 1..n : <<i, j>> \in R /\ <<j, i>> \in R => i = j
  /\ \A i, j, k \in 1..n : <<i, j>> \in R /\ <<j, k>> \in R => <<i, k>> \in R

CountsAhead(n, R, before, place, at) ==
  /\ before \in [1..n -> SUBSET (1..n)]
  /\ \A j, k \in 1..n : j \in before[k] <=> <<j, k>> \in R
  /\ \A k \in 1..n : place[k] = Cardinality(before[k])
  /\ \A i \in 1..n : (\E k \in 1..n : place[k] = i) => at[i] \in 1..n /\ place[at[i]] = i

Lists(n, R, place, at) ==
  /\ \A i \in 1..n : at[i] \in 1..n /\ place[at[i]] = i
  /\ \A k \in 1..n : place[k] \in 1..n /\ at[place[k]] = k
  /\ \A i, j \in 1..n : i <= j => <<at[i], at[j]>> \in R

\* The places a total order gives are each given once, and taking what stands at them
\* one after the other goes up in it.
LEMMA RankedByAnOrder ==
  ASSUME NEW n \in Nat, NEW R, NEW before, NEW place, NEW at,
         Orders(n, R), CountsAhead(n, R, before, place, at)
  PROVE  Lists(n, R, place, at)
<1> USE DEF Orders, CountsAhead
<1>1. ASSUME NEW k \in 1..n
      PROVE  /\ before[k] \in SUBSET (1..n) /\ k \in before[k]
             /\ IsFiniteSet(before[k]) /\ Cardinality(before[k]) \in 1..n /\ place[k] = Cardinality(before[k])
  <2>1. before[k] \in SUBSET (1..n) /\ k \in before[k]
    OBVIOUS
  <2>2. place[k] = Cardinality(before[k])
    OBVIOUS
  <2>3. /\ IsFiniteSet(before[k]) /\ Cardinality(before[k]) \in Nat
        /\ Cardinality(before[k]) <= n
    BY <2>1, PositionsAreFinite
  <2>4. Cardinality(before[k]) >= 1
    BY <2>1, <2>3, FiniteSize
  <2> QED BY <2>1, <2>2, <2>3, <2>4
<1>2. ASSUME NEW i \in 1..n, NEW j \in 1..n, <<i, j>> \in R, i # j
      PROVE  place[i] < place[j]
  <2>1. before[i] \in SUBSET before[j]
    BY <1>2
  <2>2. j \in before[j] /\ j \notin before[i]
    BY <1>2
  <2>3. Cardinality(before[i]) <= Cardinality(before[j])
         /\ (Cardinality(before[j]) = Cardinality(before[i]) => before[j] = before[i])
    BY <1>1, <2>1, FS_Subset
  <2>4. Cardinality(before[i]) \in Int /\ Cardinality(before[j]) \in Int /\ before[i] # before[j]
    BY <1>1, <2>2
  <2>5. Cardinality(before[i]) < Cardinality(before[j])
    BY <2>3, <2>4
  <2> QED BY <1>1, <2>5
<1>3. \A k \in 1..n : place[k] \in 1..n
  BY <1>1
<1> DEFINE f == [k \in 1..n |-> place[k]]
<1>4. f \in Injection(1..n, 1..n)
  <2>1. f \in [1..n -> 1..n]
    BY <1>3
  <2>2. ASSUME NEW i \in 1..n, NEW j \in 1..n, f[i] = f[j]
        PROVE  i = j
    <3>1. <<i, j>> \in R \/ <<j, i>> \in R
      OBVIOUS
    <3>2. i # j => place[i] < place[j] \/ place[j] < place[i]
      BY <1>2, <3>1
    <3>3. place[i] \in Int /\ place[j] \in Int /\ place[i] = place[j]
      BY <1>3, <2>2
    <3> QED BY <3>2, <3>3
  <2> QED BY <2>1, <2>2 DEF Injection, IsInjective
<1>5. f \in Surjection(1..n, 1..n)
  <2>1. IsFiniteSet(1..n)
    BY FS_Interval
  <2> HIDE DEF f
  <2> QED BY <1>4, <2>1, FS_Injection
<1>6. ASSUME NEW i \in 1..n
      PROVE  at[i] \in 1..n /\ place[at[i]] = i
  <2>1. \E k \in 1..n : place[k] = i
    BY <1>5 DEF Surjection
  <2> QED BY <2>1
<1>7. ASSUME NEW k \in 1..n
      PROVE  at[place[k]] = k
  <2>1. place[at[place[k]]] = place[k] /\ at[place[k]] \in 1..n
    BY <1>3, <1>6
  <2>2. f[at[place[k]]] = f[k]
    BY <2>1
  <2> QED BY <1>4, <2>1, <2>2 DEF Injection, IsInjective
<1>8. ASSUME NEW i \in 1..n, NEW j \in 1..n, i <= j
      PROVE  <<at[i], at[j]>> \in R
  <2>1. at[i] \in 1..n /\ at[j] \in 1..n /\ place[at[i]] = i /\ place[at[j]] = j
    BY <1>6
  <2>2. CASE at[i] = at[j]
    BY <2>1, <2>2
  <2>3. CASE at[i] # at[j]
    <3>1. <<at[j], at[i]>> \in R => place[at[j]] < place[at[i]]
      BY <1>2, <2>1, <2>3
    <3>2. <<at[j], at[i]>> \notin R
      BY <1>8, <2>1, <3>1
    <3> QED BY <2>1, <3>2
  <2> QED BY <2>2, <2>3
<1> QED
  BY <1>3, <1>6, <1>7, <1>8 DEF Lists

\* Two finite sets are as large as each other when one is the other one renamed.
LEMMA AsManyRenamed ==
  ASSUME NEW S, NEW T, IsFiniteSet(S), NEW f \in [S -> T],
         \A x, y \in S : f[x] = f[y] => x = y, \A t \in T : \E x \in S : f[x] = t
  PROVE  Cardinality(T) = Cardinality(S)
<1>1. f \in Injection(S, T)
  BY DEF Injection, IsInjective
<1>2. f \in Surjection(S, T)
  BY DEF Surjection
<1> QED
  BY <1>1, <1>2, FS_Surjection

-----------------------------------------------------------------------------
(* What survives a pass of thin.                                           *)

\* Of n rows a stride keeps at most one of each room strides.
LEMMA StrideFits ==
  ASSUME NEW n \in Nat, NEW room \in Nat \ {0}, NEW step \in Nat \ {0},
         NEW K \in SUBSET (1..n),
         \A i \in K : (i - 1) % step = 0 /\ (i - 1) \div step < room
  PROVE  Cardinality(K) <= room
<1> DEFINE stride == [i \in K |-> (i - 1) \div step]
<1>1. ASSUME NEW i \in K
      PROVE  /\ (i - 1) \div step \in 0..room-1
             /\ i = step * ((i - 1) \div step) + 1
  <2>1. i - 1 \in Nat /\ (i - 1) % step = 0 /\ (i - 1) \div step < room
    OBVIOUS
  <2>2. (i - 1) \div step \in Nat /\ i - 1 = step * ((i - 1) \div step)
    BY <2>1
  <2> QED
    BY <2>1, <2>2
<1>2. stride \in Injection(K, 0..room-1)
  <2>1. stride \in [K -> 0..room-1]
    BY <1>1
  <2>2. ASSUME NEW a \in K, NEW b \in K, stride[a] = stride[b]
        PROVE  a = b
    BY <1>1, <2>2
  <2> QED
    BY <2>1, <2>2 DEF Injection, IsInjective
<1>3. IsFiniteSet(0..room-1) /\ Cardinality(0..room-1) = room
  BY FS_Interval
<1> QED
  BY <1>2, <1>3, FS_Injection

\* A clamped bucket is one of room buckets.
LEMMA BucketInRoom ==
  ASSUME NEW h \in Int, NEW start \in Int, NEW span \in Nat \ {0}, NEW room \in Nat \ {0}
  PROVE  Bucket(h, start, span, room) \in 0..room-1
<1>1. ((h - start) * room) \in Int
  OBVIOUS
<1>2. ((h - start) * room) \div span \in Int
  BY <1>1
<1> QED
  BY <1>2 DEF Bucket

\* The middle is spread over at most the room there is.
LEMMA SpreadFits ==
  ASSUME NEW S, \A x \in S : x.hours \in Int,
         NEW middle \in Seq(S), NEW room \in Nat \ {0}, NEW start \in Int
  PROVE  LET spread == SpreadOverHours(middle, room, start)
         IN  /\ spread \in SUBSET (1..Len(middle))
             /\ Cardinality(spread) <= room
<1> DEFINE n    == Len(middle)
           end  == middle[n].hours
           step == (n + room - 1) \div room
           B(i) == Bucket(middle[i].hours, start, end - start, room)
           spread == SpreadOverHours(middle, room, start)
<1>0. n \in Nat
  OBVIOUS
<1>1. CASE n <= room
  <2>1. spread = 1..n
    BY <1>1 DEF SpreadOverHours
  <2>2. Cardinality(1..n) = n
    <3> HIDE DEF n
    <3> QED
      BY <1>0, FS_Interval
  <2>3. spread \in SUBSET (1..n) /\ Cardinality(spread) <= room
    BY <1>1, <2>1, <2>2
  <2> QED
    BY <2>3
<1>2. CASE n > room /\ end <= start
  <2>1. spread = {i \in 1..n : (i - 1) % step = 0 /\ (i - 1) \div step < room}
    BY <1>0, <1>2 DEF SpreadOverHours
  <2>2. step \in Nat \ {0}
    <3>1. n + room - 1 \in Nat /\ n + room - 1 >= room
      BY <1>0, <1>2
    <3> QED
      BY <3>1
  <2> HIDE DEF step
  <2>3. \A i \in spread : (i - 1) % step = 0 /\ (i - 1) \div step < room
    BY <2>1
  <2>4. spread \in SUBSET (1..n)
    BY <2>1
  <2> QED
    BY <1>0, <2>2, <2>3, <2>4, StrideFits
<1>3. CASE n > room /\ ~ (end <= start)
  <2>1. spread = {i \in 1..n : \A j \in 1..i-1 : B(j) < B(i)}
    BY <1>0, <1>3 DEF SpreadOverHours
  <2>2. \A i \in 1..n : middle[i].hours \in Int
    OBVIOUS
  <2>3. end - start \in Nat \ {0}
    BY <1>0, <1>3, <2>2
  <2>4. \A i \in 1..n : B(i) \in 0..room-1
    BY <2>2, <2>3, BucketInRoom
  <2> HIDE DEF B
  <2> DEFINE bucket == [i \in spread |-> B(i)]
  <2>5. bucket \in Injection(spread, 0..room-1)
    <3>1. bucket \in [spread -> 0..room-1]
      BY <2>1, <2>4
    <3>2. ASSUME NEW a \in spread, NEW b \in spread, bucket[a] = bucket[b]
          PROVE  a = b
      <4>1. a \in 1..n /\ b \in 1..n /\ B(a) = B(b) /\ B(a) \in Int
        BY <2>1, <2>4, <3>2
      <4>2. ~ (a < b)
        BY <2>1, <4>1
      <4>3. ~ (b < a)
        BY <2>1, <4>1
      <4> QED
        BY <4>1, <4>2, <4>3
    <3> QED
      BY <3>1, <3>2 DEF Injection, IsInjective
  <2>6. IsFiniteSet(0..room-1) /\ Cardinality(0..room-1) = room
    BY FS_Interval
  <2>7. Cardinality(spread) <= room
    BY <2>5, <2>6, FS_Injection
  <2> QED
    BY <2>1, <2>7
<1> QED
  BY <1>1, <1>2, <1>3

\* A union is no larger than its parts together.
LEMMA UnionFits ==
  ASSUME NEW A, NEW B, IsFiniteSet(A), IsFiniteSet(B)
  PROVE  IsFiniteSet(A \cup B) /\ Cardinality(A \cup B) <= Cardinality(A) + Cardinality(B)
<1>1. IsFiniteSet(A \cup B) /\ IsFiniteSet(A \cap B)
  BY FS_Union, FS_Intersection
<1>2. Cardinality(A) \in Nat /\ Cardinality(B) \in Nat /\ Cardinality(A \cap B) \in Nat
  BY <1>1, FiniteSize
<1>3. Cardinality(A \cup B) = Cardinality(A) + Cardinality(B) - Cardinality(A \cap B)
  BY FS_Union
<1> QED
  BY <1>1, <1>2, <1>3

\* What a pass keeps is within the cap, holds the newest row, and, where the
\* cap has room for them, the first row and the recent half.
LEMMA KeptIsSound ==
  ASSUME NEW S, \A x \in S : x.hours \in Int,
         NEW s \in Seq(S), NEW c \in Nat \ {0}
  PROVE  /\ Kept(s, c) \in SUBSET (1..Len(s))
         /\ Cardinality(Kept(s, c)) <= c
         /\ s # <<>> => Len(s) \in Kept(s, c)
         /\ c >= 3 /\ s # <<>> => 1 \in Kept(s, c)
         /\ c >= 3 => \A k \in 0..(c \div 2)-1 : k < Len(s) => Len(s) - k \in Kept(s, c)
<1> DEFINE n      == Len(s)
           recent == c \div 2
           room   == c - 1 - recent
           middle == SubSeq(s, 2, n - recent)
           spread == SpreadOverHours(middle, room, s[1].hours)
           M      == {i + 1 : i \in spread}
           tail   == (n - recent + 1)..n
<1>0. n \in Nat /\ (s # <<>> => n >= 1)
  OBVIOUS
<1>1. CASE n <= c
  <2>1. Kept(s, c) = 1..n
    BY <1>1 DEF Kept
  <2>2. Cardinality(1..n) = n
    <3> HIDE DEF n
    <3> QED
      BY <1>0, FS_Interval
  <2>3. \A k \in 0..(c \div 2)-1 : k < n => n - k \in 1..n
    BY <1>0
  <2>4. s # <<>> => n \in 1..n /\ 1 \in 1..n
    BY <1>0
  <2> QED
    BY <1>1, <2>1, <2>2, <2>3, <2>4
<1>2. CASE n > c /\ c < 3
  <2>1. Kept(s, c) = (n - c + 1)..n
    BY <1>0, <1>2 DEF Kept
  <2>2. Cardinality((n - c + 1)..n) = c
    BY <1>0, <1>2, FS_Interval
  <2>3. (n - c + 1)..n \in SUBSET (1..n) /\ n \in (n - c + 1)..n
    BY <1>0, <1>2
  <2> QED
    BY <1>0, <1>2, <2>1, <2>2, <2>3
<1>3. CASE n > c /\ ~ (c < 3)
  <2>1. Kept(s, c) = {1} \cup M \cup tail
    BY <1>0, <1>3 DEF Kept
  <2>2. recent \in 1..c-2 /\ room \in Nat \ {0} /\ c = 1 + room + recent
    BY <1>3
  <2>3. middle \in Seq(S) /\ Len(middle) = n - recent - 1
    <3> DEFINE last == n - recent
    <3>1. last \in 2..n
      BY <1>0, <1>3, <2>2
    <3> HIDE DEF last, n
    <3>2. SubSeq(s, 2, last) \in Seq(S) /\ Len(SubSeq(s, 2, last)) = last - 1
      BY <3>1 DEF n
    <3> QED
      BY <1>0, <2>2, <3>2 DEF last
  <2>4. s[1].hours \in Int
    BY <1>0, <1>3
  <2>5. spread \in SUBSET (1..Len(middle)) /\ Cardinality(spread) <= room
    BY <2>2, <2>3, <2>4, SpreadFits
  <2>6. IsFiniteSet(spread) /\ Cardinality(spread) \in Nat
    <3>1. Len(middle) \in Nat
      BY <2>3
    <3> HIDE DEF spread, middle
    <3> QED
      BY <2>5, <3>1, PositionsAreFinite
  <2> HIDE DEF spread, middle, recent, room
  <2>7. IsFiniteSet(M) /\ Cardinality(M) <= Cardinality(spread)
    <3> DEFINE back == [j \in M |-> j - 1]
    <3>1. \A j \in M : j \in Int /\ j - 1 \in spread
      <4>1. \A i \in spread : i \in Int /\ (i + 1) - 1 = i
        BY <2>5
      <4> QED
        BY <4>1
    <3> HIDE DEF M
    <3>2. back \in Injection(M, spread)
      <4>1. back \in [M -> spread]
        BY <3>1
      <4>2. ASSUME NEW a \in M, NEW b \in M, back[a] = back[b]
            PROVE  a = b
        BY <3>1, <4>2
      <4> QED
        BY <4>1, <4>2 DEF Injection, IsInjective
    <3> QED
      BY <2>6, <3>2, FS_Injection
  <2>8. M \in SUBSET (1..n)
    BY <1>0, <1>3, <2>2, <2>3, <2>5
  <2>9. tail \in SUBSET (1..n) /\ IsFiniteSet(tail) /\ Cardinality(tail) = recent
    <3>1. \A j \in tail : j \in 1..n
      BY <1>0, <1>3, <2>2
    <3>2. IsFiniteSet(tail) /\ Cardinality(tail) = recent
      <4>1. n - recent + 1 \in Int /\ n \in Int /\ n - recent + 1 <= n
        BY <1>0, <2>2
      <4>2. /\ IsFiniteSet((n - recent + 1)..n)
            /\ Cardinality((n - recent + 1)..n) = n - (n - recent + 1) + 1
        BY <4>1, FS_Interval
      <4> QED
        BY <1>0, <2>2, <4>2
    <3> QED
      BY <3>1, <3>2
  <2>10. n \in tail /\ \A k \in 0..recent-1 : n - k \in tail
    BY <1>0, <1>3, <2>2
  <2> HIDE DEF M, tail
  <2>11. Cardinality(Kept(s, c)) <= c
    <3>1. IsFiniteSet({1}) /\ Cardinality({1}) = 1
      BY FS_Singleton
    <3>2. IsFiniteSet({1} \cup M) /\ Cardinality({1} \cup M) <= 1 + Cardinality(M)
      BY <2>7, <3>1, UnionFits
    <3>3. Cardinality({1} \cup M \cup tail) <= Cardinality({1} \cup M) + Cardinality(tail)
      BY <2>9, <3>2, UnionFits
    <3>4. /\ Cardinality(M) \in Nat /\ Cardinality({1} \cup M) \in Nat
          /\ Cardinality({1} \cup M \cup tail) \in Nat
      BY <2>7, <2>9, <3>2, UnionFits, FiniteSize
    <3> QED
      BY <2>1, <2>2, <2>5, <2>6, <2>7, <2>9, <3>2, <3>3, <3>4
  <2>12. 1 \in 1..n
    BY <1>0, <1>3
  <2> QED
    BY <2>1, <2>8, <2>9, <2>10, <2>11, <2>12 DEF recent
<1> QED
  BY <1>0, <1>1, <1>2, <1>3

-----------------------------------------------------------------------------
(* Selections.                                                             *)

\* f lists the rows of s that t holds, in their order: the newest always, and
\* under a cap c that has room for them the first and the recent half.
Selects(t, s, f, c) ==
  /\ f \in [1..Len(t) -> 1..Len(s)]
  /\ \A k \in 1..Len(t) : t[k] = s[f[k]]
  /\ \A k, l \in 1..Len(t) : k < l => f[k] < f[l]
  /\ Len(s) > 0 => Len(t) > 0 /\ f[Len(t)] = Len(s)
  /\ c >= 3 /\ Len(s) > 0 => f[1] = 1
  /\ c >= 3 => \A k \in 0..(c \div 2)-1 :
                  k < Len(s) => k < Len(t) /\ f[Len(t) - k] = Len(s) - k

\* The rows at a set of positions are those its listing names.
LEMMA AtLists ==
  ASSUME NEW S, NEW s \in Seq(S), NEW I \in SUBSET (1..Len(s))
  PROVE  /\ At(s, I) = [k \in 1..Cardinality(I) |-> s[Nth(I, k)]]
         /\ At(s, I) \in Seq(S)
         /\ Len(At(s, I)) = Cardinality(I)
<1>1. At(s, I) = [k \in 1..Cardinality(I) |-> s[Nth(I, k)]]
  BY DEF At
<1>2. Cardinality(I) \in Nat
  BY PositionsAreFinite
<1>3. \A k \in 1..Cardinality(I) : s[Nth(I, k)] \in S
  <2>1. \A k \in 1..Cardinality(I) : Nth(I, k) \in I
    <3>1. Len(s) \in Nat
      OBVIOUS
    <3> QED
      BY <3>1, NthInOrder
  <2>2. \A i \in I : s[i] \in S
    OBVIOUS
  <2> QED
    BY <2>1, <2>2
<1> QED
  BY <1>1, <1>2, <1>3

\* A pass of thin selects, and leaves no more rows than the cap.
LEMMA ThinSelects ==
  ASSUME NEW S, \A x \in S : x.hours \in Int,
         NEW s \in Seq(S), NEW c \in Nat \ {0}
  PROVE  /\ Thin(s, c) \in Seq(S)
         /\ Len(Thin(s, c)) <= c
         /\ \E f : Selects(Thin(s, c), s, f, c)
<1> DEFINE n == Len(s)
           K == Kept(s, c)
           m == Cardinality(K)
           t == Thin(s, c)
           f == [k \in 1..m |-> Nth(K, k)]
<1>0. n \in Nat /\ (n > 0 => s # <<>>)
  OBVIOUS
<1>1. /\ K \in SUBSET (1..n) /\ m <= c
      /\ s # <<>> => n \in K
      /\ c >= 3 /\ s # <<>> => 1 \in K
      /\ c >= 3 => \A k \in 0..(c \div 2)-1 : k < n => n - k \in K
  BY KeptIsSound
<1> HIDE DEF K
<1>2. t = [k \in 1..m |-> s[Nth(K, k)]] /\ t \in Seq(S) /\ Len(t) = m
  BY <1>1, AtLists DEF Thin, K
<1>3. m \in Nat /\ IsFiniteSet(K)
  BY <1>0, <1>1, PositionsAreFinite
<1>4. /\ \A k \in 1..m : Nth(K, k) \in K
      /\ \A k, l \in 1..m : k < l => Nth(K, k) < Nth(K, l)
  BY <1>0, <1>1, NthInOrder
<1> HIDE DEF m, t
<1>5. ASSUME NEW r \in 0..n, \A k \in 0..r-1 : n - k \in K, NEW k \in 0..r-1
      PROVE  m - k \in 1..m /\ Nth(K, m - k) = n - k
  <2>1. (n - r + 1)..n \subseteq K
    <3>1. ASSUME NEW j \in (n - r + 1)..n
          PROVE  j \in K
      <4>1. n - j \in 0..r-1 /\ n - (n - j) = j
        BY <1>0
      <4> QED
        BY <1>5, <4>1
    <3> QED
      BY <3>1
  <2> QED
    BY <1>0, <1>1, <2>1, NthAtTheEnds DEF m
<1>6. n > 0 => m > 0 /\ f[m] = n
  <2> SUFFICES ASSUME n > 0
               PROVE  m > 0 /\ f[m] = n
    OBVIOUS
  <2>1. 1 \in 0..n /\ 0 \in 0..1-1 /\ \A k \in 0..1-1 : n - k \in K
    BY <1>0, <1>1
  <2>2. m - 0 \in 1..m /\ Nth(K, m - 0) = n - 0
    BY <1>5, <2>1
  <2> QED
    BY <1>0, <1>3, <2>2
<1>7. c >= 3 /\ n > 0 => f[1] = 1
  <2> SUFFICES ASSUME c >= 3, n > 0
               PROVE  f[1] = 1
    OBVIOUS
  <2>1. m >= 1 /\ Nth(K, 1) = 1
    BY <1>0, <1>1, NthAtTheEnds DEF m
  <2> QED
    BY <1>3, <2>1
<1>8. ASSUME c >= 3, NEW k \in 0..(c \div 2)-1, k < n
      PROVE  k < m /\ f[m - k] = n - k
  <2> DEFINE r == IF n < c \div 2 THEN n ELSE c \div 2
  <2>1. c \div 2 \in Nat
    OBVIOUS
  <2>2. r \in 0..n /\ k \in 0..r-1 /\ (\A j \in 0..r-1 : j \in 0..(c \div 2)-1 /\ j < n)
    BY <1>0, <1>8, <2>1
  <2>3. \A j \in 0..r-1 : n - j \in K
    BY <1>1, <1>8, <2>2
  <2> HIDE DEF r
  <2>4. m - k \in 1..m /\ Nth(K, m - k) = n - k
    BY <1>5, <2>2, <2>3
  <2> QED
    BY <1>3, <2>4
<1>9. f \in [1..m -> 1..n]
  BY <1>1, <1>4
<1>10. Selects(t, s, f, c)
  BY <1>2, <1>4, <1>6, <1>7, <1>8, <1>9 DEF Selects
<1> QED
  BY <1>1, <1>2, <1>10 DEF t, m

\* A selection of a selection is one, under any cap no greater than either's.
LEMMA SelectionsCompose ==
  ASSUME NEW S, NEW s \in Seq(S), NEW t \in Seq(S), NEW u \in Seq(S),
         NEW f, NEW g, NEW c \in Nat, NEW d \in Nat, NEW e \in Nat,
         Selects(t, s, f, c), Selects(u, t, g, d), e <= c, e <= d
  PROVE  \E h : Selects(u, s, h, e)
<1> DEFINE h == [k \in 1..Len(u) |-> f[g[k]]]
<1>0. Len(s) \in Nat /\ Len(t) \in Nat /\ Len(u) \in Nat
  OBVIOUS
<1>1. /\ f \in [1..Len(t) -> 1..Len(s)]
      /\ \A k \in 1..Len(t) : t[k] = s[f[k]]
      /\ \A k, l \in 1..Len(t) : k < l => f[k] < f[l]
      /\ Len(s) > 0 => Len(t) > 0 /\ f[Len(t)] = Len(s)
      /\ c >= 3 /\ Len(s) > 0 => f[1] = 1
      /\ c >= 3 => \A k \in 0..(c \div 2)-1 :
                      k < Len(s) => k < Len(t) /\ f[Len(t) - k] = Len(s) - k
  BY DEF Selects
<1>2. /\ g \in [1..Len(u) -> 1..Len(t)]
      /\ \A k \in 1..Len(u) : u[k] = t[g[k]]
      /\ \A k, l \in 1..Len(u) : k < l => g[k] < g[l]
      /\ Len(t) > 0 => Len(u) > 0 /\ g[Len(u)] = Len(t)
      /\ d >= 3 /\ Len(t) > 0 => g[1] = 1
      /\ d >= 3 => \A k \in 0..(d \div 2)-1 :
                      k < Len(t) => k < Len(u) /\ g[Len(u) - k] = Len(t) - k
  BY DEF Selects
<1>3. h \in [1..Len(u) -> 1..Len(s)] /\ \A k \in 1..Len(u) : u[k] = s[h[k]]
  BY <1>1, <1>2
<1>4. ASSUME NEW k \in 1..Len(u), NEW l \in 1..Len(u), k < l
      PROVE  h[k] < h[l]
  <2>1. g[k] \in 1..Len(t) /\ g[l] \in 1..Len(t) /\ g[k] < g[l]
    BY <1>2, <1>4
  <2> QED
    BY <1>1, <2>1
<1>5. Len(s) > 0 => Len(u) > 0 /\ h[Len(u)] = Len(s)
  BY <1>0, <1>1, <1>2
<1>6. e >= 3 /\ Len(s) > 0 => h[1] = 1
  BY <1>0, <1>1, <1>2
<1>7. ASSUME e >= 3, NEW k \in 0..(e \div 2)-1, k < Len(s)
      PROVE  k < Len(u) /\ h[Len(u) - k] = Len(s) - k
  <2>1. c >= 3 /\ d >= 3 /\ k \in 0..(c \div 2)-1 /\ k \in 0..(d \div 2)-1
    <3>1. e \div 2 <= c \div 2 /\ e \div 2 <= d \div 2
      OBVIOUS
    <3>2. e \div 2 \in Nat /\ c \div 2 \in Nat /\ d \div 2 \in Nat
      OBVIOUS
    <3> QED
      BY <1>7, <3>1, <3>2
  <2>2. k < Len(t) /\ f[Len(t) - k] = Len(s) - k
    BY <1>1, <1>7, <2>1
  <2>3. k < Len(u) /\ g[Len(u) - k] = Len(t) - k
    BY <1>2, <2>1, <2>2
  <2>4. Len(u) - k \in 1..Len(u)
    BY <1>0, <2>3
  <2> QED
    BY <2>2, <2>3, <2>4
<1> QED
  BY <1>3, <1>4, <1>5, <1>6, <1>7 DEF Selects

\* A reading folded into both keeps a selection one.
LEMMA FoldSelects ==
  ASSUME NEW S, NEW s \in Seq(S), NEW t \in Seq(S), NEW x \in S,
         NEW f, NEW c \in Nat, Selects(t, s, f, c)
  PROVE  /\ FoldIn(s, x) \in Seq(S) /\ FoldIn(t, x) \in Seq(S)
         /\ FoldIn(s, x) # <<>>
         /\ \E g : Selects(FoldIn(t, x), FoldIn(s, x), g, c)
<1> DEFINE n == Len(s)
           m == Len(t)
<1>0. n \in Nat /\ m \in Nat
  OBVIOUS
<1>1. /\ f \in [1..m -> 1..n]
      /\ \A k \in 1..m : t[k] = s[f[k]]
      /\ \A k, l \in 1..m : k < l => f[k] < f[l]
      /\ n > 0 => m > 0 /\ f[m] = n
      /\ c >= 3 /\ n > 0 => f[1] = 1
      /\ c >= 3 => \A k \in 0..(c \div 2)-1 : k < n => k < m /\ f[m - k] = n - k
  BY DEF Selects
<1>2. (s # <<>> <=> n > 0) /\ (t # <<>> <=> m > 0) /\ (n = 0 => m = 0)
  BY <1>0, <1>1
<1>3. CASE s # <<>> /\ Last(s).hours = x.hours
  <2>1. t # <<>> /\ Last(t) = Last(s)
    BY <1>0, <1>1, <1>2, <1>3 DEF Last
  <2>2. FoldIn(s, x) = [s EXCEPT ![n] = x] /\ FoldIn(t, x) = [t EXCEPT ![m] = x]
    BY <1>3, <2>1 DEF FoldIn
  <2>3. /\ FoldIn(s, x) \in Seq(S) /\ Len(FoldIn(s, x)) = n
        /\ FoldIn(t, x) \in Seq(S) /\ Len(FoldIn(t, x)) = m
    <3>1. /\ [s EXCEPT ![n] = x] \in Seq(S) /\ Len([s EXCEPT ![n] = x]) = n
          /\ [t EXCEPT ![m] = x] \in Seq(S) /\ Len([t EXCEPT ![m] = x]) = m
      <4>1. n \in 1..Len(s) /\ m \in 1..Len(t)
        BY <1>0, <1>1, <1>2, <1>3
      <4> QED
        BY <4>1, ExceptSeq
    <3> QED
      BY <2>2, <3>1
  <2>4. ASSUME NEW k \in 1..m
        PROVE  FoldIn(t, x)[k] = FoldIn(s, x)[f[k]]
    <3>1. CASE k = m
      BY <1>0, <1>1, <1>2, <1>3, <2>2, <3>1
    <3>2. CASE k # m
      <4>1. f[k] < n /\ f[k] \in 1..n
        BY <1>0, <1>1, <1>2, <1>3, <3>2
      <4> QED
        BY <1>1, <2>2, <3>2, <4>1
    <3> QED
      BY <3>1, <3>2
  <2>5. Selects(FoldIn(t, x), FoldIn(s, x), f, c)
    BY <1>1, <2>3, <2>4 DEF Selects
  <2> QED
    BY <1>2, <1>3, <2>3, <2>5
<1>4. CASE ~ (s # <<>> /\ Last(s).hours = x.hours)
  <2>1. ~ (t # <<>> /\ Last(t).hours = x.hours)
    BY <1>0, <1>1, <1>2, <1>4 DEF Last
  <2>2. FoldIn(s, x) = Append(s, x) /\ FoldIn(t, x) = Append(t, x)
    BY <1>4, <2>1 DEF FoldIn
  <2>3. /\ Append(s, x) \in Seq(S) /\ Len(Append(s, x)) = n + 1
        /\ Append(t, x) \in Seq(S) /\ Len(Append(t, x)) = m + 1
    BY <1>0
  <2> DEFINE g == [k \in 1..m+1 |-> IF k = m + 1 THEN n + 1 ELSE f[k]]
  <2>4. g \in [1..m+1 -> 1..n+1]
    BY <1>0, <1>1
  <2>5. \A k \in 1..m+1 : Append(t, x)[k] = Append(s, x)[g[k]]
    BY <1>0, <1>1
  <2>6. ASSUME NEW k \in 1..m+1, NEW l \in 1..m+1, k < l
        PROVE  g[k] < g[l]
    <3>1. k \in 1..m /\ g[k] = f[k] /\ f[k] \in 1..n
      BY <1>0, <1>1, <2>6
    <3>2. CASE l = m + 1
      BY <1>0, <3>1, <3>2
    <3>3. CASE l # m + 1
      <4>1. l \in 1..m /\ g[l] = f[l]
        BY <1>0, <3>3
      <4> QED
        BY <1>1, <2>6, <3>1, <4>1
    <3> QED
      BY <3>2, <3>3
  <2>7. g[m + 1] = n + 1 /\ (c >= 3 => g[1] = 1)
    <3>1. CASE m = 0
      <4>1. n = 0
        BY <1>0, <1>1, <3>1
      <4> QED
        BY <3>1, <4>1
    <3>2. CASE m > 0
      <4>1. n > 0 /\ 1 \in 1..m+1 /\ 1 # m + 1 /\ m + 1 \in 1..m+1
        BY <1>0, <1>1, <3>2
      <4> QED
        BY <1>1, <4>1
    <3> QED
      BY <1>0, <3>1, <3>2
  <2>8. ASSUME c >= 3, NEW k \in 0..(c \div 2)-1, k < n + 1
        PROVE  k < m + 1 /\ g[(m + 1) - k] = (n + 1) - k
    <3>1. CASE k = 0
      BY <1>0, <3>1
    <3>2. CASE k # 0
      <4>1. k - 1 \in 0..(c \div 2)-1 /\ k - 1 < n
        BY <1>0, <2>8, <3>2
      <4>2. k - 1 < m /\ f[m - (k - 1)] = n - (k - 1)
        BY <1>1, <2>8, <4>1
      <4>3. (m + 1) - k \in 1..m /\ (m + 1) - k = m - (k - 1)
        BY <1>0, <3>2, <4>2
      <4> QED
        BY <1>0, <4>2, <4>3
    <3> QED
      BY <3>1, <3>2
  <2> HIDE DEF g
  <2>9. Selects(Append(t, x), Append(s, x), g, c)
    BY <1>0, <2>3, <2>4, <2>5, <2>6, <2>7, <2>8 DEF Selects
  <2> QED
    BY <1>0, <2>2, <2>3, <2>9
<1> QED
  BY <1>3, <1>4

\* A selection is the rows of s at some of its positions.
LEMMA SelectionIsAt ==
  ASSUME NEW S, NEW s \in Seq(S), NEW t \in Seq(S),
         NEW f, NEW c, Selects(t, s, f, c)
  PROVE  \E I \in SUBSET DOMAIN s : Cardinality(I) = Len(t) /\ t = At(s, I)
<1> DEFINE n == Len(s)
           m == Len(t)
           I == {f[k] : k \in 1..m}
<1>0. n \in Nat /\ m \in Nat /\ DOMAIN s = 1..n
  OBVIOUS
<1>1. /\ f \in [1..m -> 1..n]
      /\ \A k \in 1..m : t[k] = s[f[k]]
      /\ \A k, l \in 1..m : k < l => f[k] < f[l]
  BY DEF Selects
<1>2. I \in SUBSET (1..n)
  BY <1>1
<1>3. ASSUME NEW k \in 1..m, NEW l \in 1..m, f[k] <= f[l]
      PROVE  k <= l
  <2>1. f[k] \in 1..n /\ f[l] \in 1..n /\ (l < k => f[l] < f[k])
    BY <1>1
  <2> QED
    BY <1>3, <2>1
<1>4. ASSUME NEW k \in 0..m
      PROVE  /\ IsFiniteSet({f[l] : l \in 1..k})
             /\ Cardinality({f[l] : l \in 1..k}) = k
  <2> DEFINE A == {f[l] : l \in 1..k}
             g == [l \in 1..k |-> f[l]]
  <2>1. IsFiniteSet(1..k) /\ Cardinality(1..k) = k
    BY FS_Interval
  <2>2. \A l \in 1..k : l \in 1..m
    BY <1>0
  <2>3. g \in Surjection(1..k, A)
    BY DEF Surjection
  <2>4. g \in Injection(1..k, A)
    <3>1. g \in [1..k -> A]
      OBVIOUS
    <3>2. ASSUME NEW a \in 1..k, NEW b \in 1..k, g[a] = g[b]
          PROVE  a = b
      <4>1. f[a] = f[b] /\ f[a] \in 1..n /\ f[b] \in 1..n
        BY <1>1, <2>2, <3>2
      <4>2. f[a] <= f[b] /\ f[b] <= f[a]
        BY <4>1
      <4>3. a <= b /\ b <= a
        BY <1>3, <2>2, <4>2
      <4> QED
        BY <4>3
    <3> QED
      BY <3>1, <3>2 DEF Injection, IsInjective
  <2> HIDE DEF A, g
  <2>5. IsFiniteSet(A) /\ Cardinality(A) = k
    BY <2>1, <2>3, <2>4, FS_Surjection
  <2> QED
    BY <2>5 DEF A
<1>5. Cardinality(I) = m
  <2>1. m \in 0..m
    BY <1>0
  <2>2. Cardinality({f[l] : l \in 1..m}) = m
    BY <1>4, <2>1
  <2> QED
    BY <2>2
<1>6. ASSUME NEW k \in 1..m
      PROVE  Nth(I, k) = f[k]
  <2>1. f[k] \in I /\ f[k] \in 1..n
    BY <1>1
  <2>2. {j \in I : j <= f[k]} = {f[l] : l \in 1..k}
    <3>1. ASSUME NEW j \in I, j <= f[k]
          PROVE  j \in {f[l] : l \in 1..k}
      <4>1. PICK l \in 1..m : j = f[l]
        OBVIOUS
      <4>2. l \in 1..k
        BY <1>3, <3>1, <4>1
      <4> QED
        BY <4>1, <4>2
    <3>2. ASSUME NEW l \in 1..k
          PROVE  f[l] \in I /\ f[l] <= f[k]
      <4>1. l \in 1..m
        BY <1>0
      <4>2. f[l] \in 1..n /\ (l < k => f[l] < f[k])
        BY <1>1, <4>1
      <4> QED
        BY <2>1, <4>1, <4>2
    <3> HIDE DEF I
    <3> QED
      BY <3>1, <3>2
  <2>3. PlaceOf(I, f[k]) = k
    <3>1. Cardinality({f[l] : l \in 1..k}) = k
      <4>1. k \in 0..m
        BY <1>0
      <4> QED
        BY <1>4, <4>1, Zenon
    <3> QED
      BY <2>2, <3>1 DEF PlaceOf
  <2> HIDE DEF I
  <2> QED
    <3>1. \A i \in I : Nth(I, PlaceOf(I, i)) = i
      BY <1>0, <1>2, NthInOrder
    <3> QED
      BY <2>1, <2>3, <3>1
<1> HIDE DEF I
<1>7. At(s, I) = [k \in 1..m |-> s[Nth(I, k)]]
  BY <1>5 DEF At
<1>8. t = [k \in 1..m |-> t[k]]
  OBVIOUS
<1>9. \A k \in 1..m : s[Nth(I, k)] = t[k]
  BY <1>1, <1>6
<1>10. t = At(s, I)
  BY <1>7, <1>8, <1>9
<1> QED
  BY <1>0, <1>2, <1>5, <1>10

-----------------------------------------------------------------------------
(* What a series supports saying.                                          *)

\* Positions have a first and a last.
LEMMA EndsOf ==
  ASSUME NEW n \in Nat, NEW J \in SUBSET (1..n), J # {}
  PROVE  /\ Min(J) \in J /\ \A i \in J : Min(J) <= i
         /\ Max(J) \in J /\ \A i \in J : i <= Max(J)
<1> DEFINE C == Cardinality(J)
<1>1. C \in Nat /\ C >= 1
  BY PositionsAreFinite, FiniteSize
<1> HIDE DEF C
<1>2. /\ \A k \in 1..C : Nth(J, k) \in J
      /\ \A i \in J : Nth(J, PlaceOf(J, i)) = i
      /\ \A k, l \in 1..C : k < l => Nth(J, k) < Nth(J, l)
  BY NthInOrder DEF C
<1>3. \A i \in J : PlaceOf(J, i) \in 1..C /\ i \in 1..n
  BY RankGrows DEF C
<1>4. 1 \in 1..C /\ C \in 1..C
  BY <1>1
<1>5. ASSUME NEW i \in J
      PROVE  Nth(J, 1) <= i /\ i <= Nth(J, C)
  <2>1. /\ 1 < PlaceOf(J, i) => Nth(J, 1) < i
        /\ PlaceOf(J, i) < C => i < Nth(J, C)
    BY <1>2, <1>3, <1>4
  <2>2. /\ PlaceOf(J, i) = 1 => Nth(J, 1) = i
        /\ PlaceOf(J, i) = C => Nth(J, C) = i
    <3>1. Nth(J, PlaceOf(J, i)) = i
      BY <1>2
    <3> QED
      BY <3>1, Zenon
  <2>3. Nth(J, 1) \in Int /\ Nth(J, C) \in Int /\ i \in Int
    <3>1. Nth(J, 1) \in J /\ Nth(J, C) \in J
      BY <1>2, <1>4
    <3>2. \A j \in J : j \in Int
      BY <1>3
    <3> QED
      BY <3>1, <3>2
  <2>4. (1 < PlaceOf(J, i) \/ PlaceOf(J, i) = 1) /\ (PlaceOf(J, i) < C \/ PlaceOf(J, i) = C)
    BY <1>1, <1>3
  <2> QED
    BY <2>1, <2>2, <2>3, <2>4
<1>6. Nth(J, 1) \in J /\ Nth(J, C) \in J
  BY <1>2, <1>4
<1>7. Min(J) \in J /\ \A i \in J : Min(J) <= i
  <2>1. \E m \in J : \A i \in J : m <= i
    BY <1>5, <1>6
  <2> QED
    BY <2>1 DEF Min
<1>8. Max(J) \in J /\ \A i \in J : i <= Max(J)
  <2>1. \E m \in J : \A i \in J : i <= m
    BY <1>5, <1>6
  <2> QED
    BY <2>1 DEF Max
<1> QED
  BY <1>7, <1>8

\* The rows that saw the counter stand as they stood, and are all of them when
\* every row saw it.
LEMMA UsableRows ==
  ASSUME NEW S, NEW s \in Seq(S)
  PROVE  /\ Usable(s) \in Seq(S)
         /\ \E g \in [1..Len(Usable(s)) -> 1..Len(s)] :
              /\ \A k \in 1..Len(Usable(s)) : Usable(s)[k] = s[g[k]]
              /\ \A k, l \in 1..Len(Usable(s)) : k < l => g[k] < g[l]
         /\ (\A i \in 1..Len(s) : s[i].count # Unread) => Usable(s) = s
<1> DEFINE n == Len(s)
           I == {i \in DOMAIN s : s[i].count # Unread}
           m == Cardinality(I)
<1>1. n \in Nat /\ I \in SUBSET (1..n) /\ Usable(s) = At(s, I)
  BY DEF Usable
<1>2. (\A i \in 1..n : s[i].count # Unread) => I = 1..n
  OBVIOUS
<1> HIDE DEF I
<1>3. /\ Usable(s) = [k \in 1..m |-> s[Nth(I, k)]]
      /\ Usable(s) \in Seq(S) /\ Len(Usable(s)) = m
  BY <1>1, AtLists
<1>4. /\ \A k \in 1..m : Nth(I, k) \in 1..n
      /\ \A k, l \in 1..m : k < l => Nth(I, k) < Nth(I, l)
  <2>1. /\ \A k \in 1..m : Nth(I, k) \in I
        /\ \A k, l \in 1..m : k < l => Nth(I, k) < Nth(I, l)
    BY <1>1, NthInOrder
  <2> QED
    BY <1>1, <2>1
<1>5. \E g \in [1..m -> 1..n] :
         /\ \A k \in 1..m : Usable(s)[k] = s[g[k]]
         /\ \A k, l \in 1..m : k < l => g[k] < g[l]
  <2> DEFINE g == [k \in 1..m |-> Nth(I, k)]
  <2> HIDE DEF m
  <2>1. g \in [1..m -> 1..n]
    BY <1>4
  <2>2. \A k \in 1..m : Usable(s)[k] = s[g[k]]
    BY <1>3
  <2>3. \A k, l \in 1..m : k < l => g[k] < g[l]
    BY <1>4
  <2> QED
    BY <2>1, <2>2, <2>3
<1>6. ASSUME \A i \in 1..n : s[i].count # Unread
      PROVE  Usable(s) = s
  <2>1. I = 1..n
    BY <1>2, <1>6
  <2>2. m = n
    BY <1>1, <2>1, FS_Interval
  <2>3. ASSUME NEW i \in 1..n
        PROVE  Nth(I, i) = i
    <3>1. n \in 0..n /\ (n - n + 1)..n \subseteq I /\ n - i \in 0..n-1
      BY <1>1, <2>1
    <3>2. Nth(I, m - (n - i)) = n - (n - i)
      BY <1>1, <3>1, NthAtTheEnds
    <3>3. m - (n - i) = i /\ n - (n - i) = i
      BY <1>1, <2>2
    <3> QED
      BY <3>2, <3>3
  <2>4. \A i \in 1..n : Usable(s)[i] = s[i]
    BY <1>3, <2>2, <2>3
  <2> QED
    BY <1>3, <2>2, <2>4, SeqEqual
<1> QED
  BY <1>3, <1>5, <1>6

\* Rows a span may start at stand within the newest hour; the newest is one.
LEMMA AnchorsHold ==
  ASSUME NEW S, \A x \in S : x.hours \in Int, NEW s \in Seq(S), s # <<>>
  PROVE  /\ Anchors(s) \in SUBSET (1..Len(s))
         /\ Len(s) \in Anchors(s)
         /\ \A i \in Anchors(s) : s[i].hours <= s[Len(s)].hours
<1>1. Len(s) \in 1..Len(s) /\ Last(s) = s[Len(s)] /\ DOMAIN s = 1..Len(s)
  BY DEF Last
<1>2. \A i \in 1..Len(s) : s[i].hours \in Int
  OBVIOUS
<1>3. /\ s[Len(s)].hours <= s[Len(s)].hours
      /\ \A j \in 1..Len(s)-1 : j \in 1..Len(s) /\ j \in j..Len(s)-1
  BY <1>1, <1>2
<1>4. Len(s) \in Anchors(s)
  BY <1>1, <1>3 DEF Anchors
<1> QED
  BY <1>1, <1>4 DEF Anchors

\* The quiet run starts at an anchor, and up to the newest row nothing in it
\* stands past the newest hour or holds another value.
LEMMA QuietRunHolds ==
  ASSUME NEW S, \A x \in S : x.hours \in Int, NEW s \in Seq(S), s # <<>>
  PROVE  /\ QuietRunStart(s) \in Anchors(s)
         /\ \A i \in QuietRunStart(s)..Len(s) :
              s[i].count = s[Len(s)].count /\ s[i].hours <= s[Len(s)].hours
         /\ \A i \in Anchors(s) :
              (\A k \in i..Len(s)-1 :
                 /\ s[k].count = s[Len(s)].count
                 /\ \A a \in Anchors(s) : k < a => s[k].hours <= s[a].hours)
              => QuietRunStart(s) <= i
<1> DEFINE n == Len(s)
           A == Anchors(s)
           since(k)    == Min({i \in A : i > k})
           unbroken(i) == \A k \in i..n-1 : /\ s[k].count = s[n].count
                                            /\ s[k].hours <= s[since(k)].hours
           U == {i \in A : unbroken(i)}
<1>1. QuietRunStart(s) = Min(U)
  BY DEF QuietRunStart
<1>2. n \in Nat /\ n \in A /\ A \in SUBSET (1..n) /\ \A i \in A : s[i].hours <= s[n].hours
  BY AnchorsHold
<1>3. \A i \in 1..n : s[i].hours \in Int
  OBVIOUS
<1> HIDE DEF A
<1>4. ASSUME NEW k \in 1..n-1
      PROVE  since(k) \in A /\ k < since(k)
  <2> DEFINE B == {i \in A : i > k}
  <2>1. B \in SUBSET (1..n) /\ n \in B
    <3>1. n > k
      BY <1>2
    <3> QED
      BY <1>2, <3>1
  <2>2. \A i \in B : i \in A /\ k < i
    BY <1>2
  <2> HIDE DEF B
  <2>3. Min(B) \in B
    BY <1>2, <2>1, EndsOf
  <2> QED
    BY <2>2, <2>3 DEF B
<1> HIDE DEF since
<1>5. n \in U
  BY <1>2
<1>6. U \in SUBSET (1..n)
  BY <1>2
<1>7. Min(U) \in U /\ \A i \in U : Min(U) <= i
  <2> HIDE DEF U
  <2> QED
    BY <1>2, <1>5, <1>6, EndsOf
<1>8. ASSUME NEW i \in Min(U)..n
      PROVE  s[i].count = s[n].count /\ s[i].hours <= s[n].hours
  <2>1. Min(U) \in 1..n /\ i \in 1..n
    BY <1>2, <1>6, <1>7
  <2>2. CASE i = n
    BY <1>2, <2>2
  <2>3. CASE i # n
    <3>1. i \in Min(U)..n-1 /\ i \in 1..n-1
      BY <1>2, <2>1, <2>3
    <3>2. s[i].count = s[n].count /\ s[i].hours <= s[since(i)].hours
      BY <1>7, <3>1
    <3>3. since(i) \in 1..n /\ s[since(i)].hours <= s[n].hours
      BY <1>2, <1>4, <3>1
    <3> QED
      BY <1>2, <1>3, <2>1, <3>2, <3>3
  <2> QED
    BY <2>2, <2>3
<1>9. ASSUME NEW i \in A,
             \A k \in i..n-1 : /\ s[k].count = s[n].count
                               /\ \A a \in A : k < a => s[k].hours <= s[a].hours
      PROVE  Min(U) <= i
  <2>1. \A k \in i..n-1 : k \in 1..n-1
    BY <1>2
  <2>2. i \in U
    BY <1>4, <1>9, <2>1
  <2> QED
    BY <1>7, <2>2
<1> QED
  BY <1>1, <1>7, <1>8, <1>9 DEF A

\* A claim of silence, or of a rate, is made of two rows or more, and the one
\* the silence starts at begins the quiet run.
LEMMA WhatAVerdictMeans ==
  ASSUME NEW s, NEW minSpan, NEW quietMin
  PROVE  LET u == Usable(s)
             t == TrendFor(s, minSpan, quietMin)
         IN  /\ t.verdict = "quiet" => ~ (Len(u) < 2) /\ t = Quiet(u, minSpan, quietMin)
             /\ t.verdict = "rising" =>
                  ~ (Len(u) < 2) /\ t = Rising(u, PreviousReading(u), minSpan)
<1> DEFINE u == Usable(s)
           p == PreviousReading(u)
           t == TrendFor(s, minSpan, quietMin)
<1>1. \/ t = Refusal("first-sample")
      \/ t = Refusal("reset")
      \/ ~ (Len(u) < 2) /\ t = Rising(u, p, minSpan)
      \/ ~ (Len(u) < 2) /\ t = Quiet(u, minSpan, quietMin)
  BY DEF TrendFor
<1>2. Quiet(u, minSpan, quietMin).verdict \in {"quiet", "too-close"}
  BY DEF Quiet
<1>3. Rising(u, p, minSpan).verdict \in {"rising", "too-close"}
  BY DEF Rising
<1>4. Refusal("first-sample").verdict = "first-sample" /\ Refusal("reset").verdict = "reset"
  BY DEF Refusal
<1> HIDE DEF t, u, p
<1>5. t.verdict = "quiet" => ~ (Len(u) < 2) /\ t = Quiet(u, minSpan, quietMin)
  BY <1>1, <1>3, <1>4
<1>6. t.verdict = "rising" => ~ (Len(u) < 2) /\ t = Rising(u, p, minSpan)
  BY <1>1, <1>2, <1>4
<1> QED
  BY <1>5, <1>6 DEF t, u, p

-----------------------------------------------------------------------------
(* Loops.  What a loop carries is a function of how far it has come.       *)

\* What holds of nothing, and of each number after one it holds of, holds of all.
LEMMA UpTo ==
  ASSUME NEW n \in Nat, NEW A, 0 \in A, \A k \in 0..n-1 : k \in A => k + 1 \in A
  PROVE  0..n \subseteq A
<1> DEFINE missing == {k \in 1..n : k \notin A}
<1> SUFFICES ASSUME missing # {} PROVE FALSE
  OBVIOUS
<1>1. Min(missing) \in missing /\ \A k \in missing : Min(missing) <= k
  <2>1. missing \in SUBSET (1..n)
    OBVIOUS
  <2> HIDE DEF missing
  <2> QED BY <2>1, EndsOf
<1>2. PICK m \in missing : \A k \in missing : m <= k
  <2> HIDE DEF missing
  <2> QED BY <1>1
<1>3. m \in 1..n /\ m \notin A
  OBVIOUS
<1>4. m - 1 \in 0..n-1 /\ m - 1 \notin missing /\ m = (m - 1) + 1
  BY <1>2, <1>3
<1>5. m - 1 \in A
  BY <1>4
<1> QED
  BY <1>3, <1>4, <1>5

\* The greatest of some of the numbers up to n is one of them.
LEMMA GreatestIn ==
  ASSUME NEW n \in Nat, NEW T \in SUBSET (1..n), T # {}
  PROVE  /\ Max(T) \in T /\ \A j \in T : j <= Max(T)
         /\ T \ {Max(T)} \in SUBSET (1..n)
<1> QED
  BY EndsOf

\* What holds of the empty set, and of each set that it holds of less its greatest.
LEMMA ByTheGreatest ==
  ASSUME NEW n \in Nat, NEW A, {} \in A,
         \A T \in SUBSET (1..n) : T # {} /\ T \ {Max(T)} \in A => T \in A
  PROVE  SUBSET (1..n) \subseteq A
<1> DEFINE B == {k \in 0..n : SUBSET (1..k) \subseteq A}
<1>1. 0 \in B
  <2>1. SUBSET (1..0) \subseteq A
    <3>1. \A T \in SUBSET (1..0) : T = {}
      OBVIOUS
    <3> QED BY <3>1
  <2>2. 0 \in 0..n
    OBVIOUS
  <2> QED BY <2>1, <2>2
<1>2. ASSUME NEW k \in 0..n-1, k \in B
      PROVE  k + 1 \in B
  <2>0. k + 1 \in Nat /\ k + 1 \in 0..n
    OBVIOUS
  <2>1. ASSUME NEW T \in SUBSET (1..k+1)
        PROVE  T \in A
    <3>1. CASE k + 1 \notin T
      <4>1. T \in SUBSET (1..k)
        BY <3>1
      <4> QED BY <1>2, <4>1
    <3>2. CASE k + 1 \in T
      <4>1. Max(T) = k + 1
        <5>1. Max(T) \in T /\ k + 1 <= Max(T)
          BY <2>0, <3>2, GreatestIn
        <5>2. Max(T) \in 1..k+1
          BY <5>1
        <5> QED BY <5>1, <5>2
      <4>2. T \ {k + 1} \in SUBSET (1..k)
        OBVIOUS
      <4>3. T \ {Max(T)} \in A
        BY <1>2, <4>1, <4>2
      <4>4. T \in SUBSET (1..n) /\ T # {}
        BY <3>2
      <4> QED BY <4>3, <4>4
    <3> QED BY <3>1, <3>2
  <2>2. SUBSET (1..k+1) \subseteq A
    BY <2>1
  <2> QED BY <2>0, <2>2
<1>3. n \in B
  <2> HIDE DEF B
  <2>1. 0..n \subseteq B
    BY <1>1, <1>2, UpTo
  <2> QED BY <2>1
<1> QED BY <1>3

\* Where a loop over n things is after each of them.
RunsThrough(f, n, base, step) == f[0] = base /\ \A k \in 1..n : f[k] = step[<<k, f[k - 1]>>]

\* It has somewhere to be.
LEMMA LoopRuns ==
  ASSUME NEW n \in Nat, NEW S, NEW base \in S, NEW step \in [(1..n) \X S -> S]
  PROVE  \E f \in [0..n -> S] : RunsThrough(f, n, base, step)
<1> DEFINE Goes(m) == \E f \in [0..m -> S] : f[0] = base /\ \A k \in 1..m : f[k] = step[<<k, f[k - 1]>>]
           A == {m \in 0..n : Goes(m)}
<1>1. 0 \in A
  <2> DEFINE f == [i \in 0..0 |-> base]
  <2>1. f \in [0..0 -> S] /\ f[0] = base /\ \A k \in 1..0 : f[k] = step[<<k, f[k - 1]>>]
    OBVIOUS
  <2>2. Goes(0)
    <3> HIDE DEF f
    <3> QED BY <2>1
  <2> HIDE DEF Goes
  <2> QED BY <2>2
<1>2. ASSUME NEW m \in 0..n-1, m \in A
      PROVE  m + 1 \in A
  <2>1. PICK f \in [0..m -> S] : f[0] = base /\ \A k \in 1..m : f[k] = step[<<k, f[k - 1]>>]
    BY <1>2
  <2> DEFINE g == [i \in 0..m+1 |-> IF i = m + 1 THEN step[<<m + 1, f[m]>>] ELSE f[i]]
  <2>2. f[m] \in S /\ step[<<m + 1, f[m]>>] \in S
    BY <2>1
  <2>3. g \in [0..m+1 -> S] /\ g[0] = base
    BY <2>1, <2>2
  <2>4. ASSUME NEW k \in 1..m+1
        PROVE  g[k] = step[<<k, g[k - 1]>>]
    <3>1. CASE k = m + 1
      <4>1. g[k] = step[<<m + 1, f[m]>>] /\ g[k - 1] = f[m] /\ k - 1 = m
        BY <3>1
      <4> QED BY <3>1, <4>1
    <3>2. CASE k # m + 1
      <4>1. k \in 1..m /\ g[k] = f[k] /\ g[k - 1] = f[k - 1]
        BY <3>2
      <4> QED BY <2>1, <4>1
    <3> QED BY <3>1, <3>2
  <2>5. Goes(m + 1)
    <3> HIDE DEF g
    <3> QED BY <2>3, <2>4
  <2> HIDE DEF Goes
  <2> QED BY <2>5
<1>3. n \in A
  <2> HIDE DEF A
  <2>1. 0..n \subseteq A
    BY <1>1, <1>2, UpTo
  <2> QED BY <2>1
<1>4. Goes(n)
  <2> HIDE DEF Goes
  <2> QED BY <1>3
<1> QED BY <1>4 DEF RunsThrough

\* A fold from the right over 1..n, as the fold of a sequence is defined.
IsFold(it, n, base, step) ==
  it = [T \in SUBSET (1..n) |-> IF T = {} THEN base ELSE step[<<Max(T), it[T \ {Max(T)}]>>]]

LEMMA FoldRuns ==
  ASSUME NEW n \in Nat, NEW S, NEW base \in S, NEW step \in [(1..n) \X S -> S]
  PROVE  \E it \in [SUBSET (1..n) -> S] : IsFold(it, n, base, step)
<1> DEFINE Goes(m) == \E it \in [SUBSET (1..m) -> S] :
                        /\ it[{}] = base
                        /\ \A T \in SUBSET (1..m) : T # {} => it[T] = step[<<Max(T), it[T \ {Max(T)}]>>]
           A == {m \in 0..n : Goes(m)}
<1>1. 0 \in A
  <2> DEFINE f == [T \in SUBSET (1..0) |-> base]
  <2>1. f \in [SUBSET (1..0) -> S] /\ f[{}] = base /\ \A T \in SUBSET (1..0) : T = {}
    OBVIOUS
  <2>2. Goes(0)
    <3> HIDE DEF f
    <3> QED BY <2>1
  <2> HIDE DEF Goes
  <2> QED BY <2>2
<1>2. ASSUME NEW m \in 0..n-1, m \in A
      PROVE  m + 1 \in A
  <2>1. PICK it \in [SUBSET (1..m) -> S] :
          /\ it[{}] = base
          /\ \A T \in SUBSET (1..m) : T # {} => it[T] = step[<<Max(T), it[T \ {Max(T)}]>>]
    BY <1>2
  <2> DEFINE next == [T \in SUBSET (1..m+1) |->
                        IF m + 1 \in T THEN step[<<m + 1, it[T \ {m + 1}]>>] ELSE it[T]]
  <2>2. ASSUME NEW T \in SUBSET (1..m+1)
        PROVE  /\ T \ {m + 1} \in SUBSET (1..m)
               /\ m + 1 \notin T => T \in SUBSET (1..m)
               /\ m + 1 \in T => Max(T) = m + 1
    <3>1. T \ {m + 1} \in SUBSET (1..m) /\ (m + 1 \notin T => T \in SUBSET (1..m))
      OBVIOUS
    <3>2. m + 1 \in T => Max(T) = m + 1
      <4>1. m + 1 \in T => Max(T) \in T /\ m + 1 <= Max(T)
        <5>1. m + 1 \in Nat
          OBVIOUS
        <5> QED BY <5>1, GreatestIn
      <4>2. m + 1 \in T => Max(T) \in 1..m+1
        BY <4>1
      <4> QED BY <4>1, <4>2
    <3> QED BY <3>1, <3>2
  <2>3. next \in [SUBSET (1..m+1) -> S] /\ next[{}] = base
    <3>1. ASSUME NEW T \in SUBSET (1..m+1)
          PROVE  (IF m + 1 \in T THEN step[<<m + 1, it[T \ {m + 1}]>>] ELSE it[T]) \in S
      <4>1. m + 1 \in T => it[T \ {m + 1}] \in S
        BY <2>2
      <4>2. m + 1 \notin T => it[T] \in S
        BY <2>2
      <4>3. m + 1 \in 1..n
        OBVIOUS
      <4> QED BY <4>1, <4>2, <4>3
    <3>2. {} \in SUBSET (1..m+1) /\ m + 1 \notin {}
      OBVIOUS
    <3> QED BY <3>1, <3>2, <2>1
  <2>4. ASSUME NEW T \in SUBSET (1..m+1), T # {}
        PROVE  next[T] = step[<<Max(T), next[T \ {Max(T)}]>>]
    <3>1. CASE m + 1 \in T
      <4>1. Max(T) = m + 1 /\ T \ {m + 1} \in SUBSET (1..m+1) /\ m + 1 \notin T \ {m + 1}
        BY <2>2, <3>1
      <4>2. next[T] = step[<<m + 1, it[T \ {m + 1}]>>] /\ next[T \ {m + 1}] = it[T \ {m + 1}]
        BY <3>1, <4>1
      <4> HIDE DEF next
      <4> QED BY <4>1, <4>2
    <3>2. CASE m + 1 \notin T
      <4>1. T \in SUBSET (1..m) /\ T \ {Max(T)} \in SUBSET (1..m+1) /\ m + 1 \notin T \ {Max(T)}
        BY <2>2, <3>2
      <4>2. next[T] = it[T] /\ next[T \ {Max(T)}] = it[T \ {Max(T)}]
        BY <3>2, <4>1
      <4> HIDE DEF next
      <4> QED BY <2>1, <2>4, <4>1, <4>2
    <3> QED BY <3>1, <3>2
  <2>5. Goes(m + 1)
    <3> HIDE DEF next
    <3> QED BY <2>3, <2>4
  <2> HIDE DEF Goes
  <2> QED BY <2>5
<1>3. n \in A
  <2> HIDE DEF A
  <2>1. 0..n \subseteq A
    BY <1>1, <1>2, UpTo
  <2> QED BY <2>1
<1>4. Goes(n)
  <2> HIDE DEF Goes
  <2> QED BY <1>3
<1>5. PICK it \in [SUBSET (1..n) -> S] :
        /\ it[{}] = base
        /\ \A T \in SUBSET (1..n) : T # {} => it[T] = step[<<Max(T), it[T \ {Max(T)}]>>]
  BY <1>4
<1>6. \A T \in SUBSET (1..n) : it[T] = IF T = {} THEN base ELSE step[<<Max(T), it[T \ {Max(T)}]>>]
  BY <1>5
<1>7. IsFold(it, n, base, step)
  BY <1>6 DEF IsFold
<1> QED BY <1>7

\* How a fold proceeds where it is defined, and where it is after each of them.
Proceeds(it, n, S, base, step) ==
  /\ it[{}] = base
  /\ \A T \in SUBSET (1..n) :
       T # {} /\ it[T \ {Max(T)}] \in S => it[T] = step[<<Max(T), it[T \ {Max(T)}]>>]

Reaches(it, n, S, base, step) ==
  /\ it[1..0] = base
  /\ \A k \in 0..n : it[1..k] \in S
  /\ \A k \in 1..n : it[1..k] = step[<<k, it[1..(k - 1)]>>]

\* Where such a fold is after each of them, whichever function of its kind is picked.
LEMMA FoldSteps ==
  ASSUME NEW n \in Nat, NEW S, NEW base \in S, NEW step \in [(1..n) \X S -> S], NEW it,
         Proceeds(it, n, S, base, step)
  PROVE  Reaches(it, n, S, base, step)
<1> USE DEF Proceeds, Reaches
<1> DEFINE A == {T \in SUBSET (1..n) : it[T] \in S}
<1>1. \A T \in SUBSET (1..n) : T # {} => Max(T) \in 1..n /\ T \ {Max(T)} \in SUBSET (1..n)
  BY GreatestIn
<1>3. {} \in A
  OBVIOUS
<1>4. ASSUME NEW T \in SUBSET (1..n), T # {}, T \ {Max(T)} \in A
      PROVE  T \in A
  <2>1. it[T] = step[<<Max(T), it[T \ {Max(T)}]>>]
    BY <1>4
  <2>2. Max(T) \in 1..n /\ it[T \ {Max(T)}] \in S
    BY <1>1, <1>4
  <2> QED BY <2>1, <2>2
<1>5. SUBSET (1..n) \subseteq A
  <2> HIDE DEF A
  <2> QED BY <1>3, <1>4, ByTheGreatest
<1>6. \A k \in 0..n : it[1..k] \in S
  <2>1. \A k \in 0..n : 1..k \in SUBSET (1..n)
    OBVIOUS
  <2>2. \A k \in 0..n : 1..k \in A
    BY <1>5, <2>1
  <2> QED BY <2>2
<1>7. it[1..0] = base
  <2>1. 1..0 = {}
    OBVIOUS
  <2> QED BY <2>1
<1>8. ASSUME NEW k \in 1..n
      PROVE  it[1..k] = step[<<k, it[1..(k - 1)]>>]
  <2>0. 1..k # {} /\ k \in 1..k /\ k - 1 \in 0..n /\ \A i \in 1..k : i \in 1..n
    OBVIOUS
  <2>1. 1..k \in SUBSET (1..n) /\ 1..k # {} /\ k \in 1..k /\ k - 1 \in 0..n
    BY <2>0
  <2>2. Max(1..k) \in 1..k /\ k <= Max(1..k)
    BY <2>1, GreatestIn
  <2>3. Max(1..k) = k /\ (1..k) \ {k} = 1..(k - 1)
    BY <2>2
  <2> QED BY <1>6, <2>1, <2>3
<1> QED BY <1>6, <1>7, <1>8

\* The fold of a sequence of numbers by addition is where adding them one by one ends.
LEMMA SumIsALoop ==
  ASSUME NEW c \in Seq(Int)
  PROVE  \E f \in [0..Len(c) -> Int] :
           /\ f[0] = 0
           /\ \A k \in 1..Len(c) : f[k] = f[k - 1] + c[k]
           /\ FoldLeft(+, 0, c) = f[Len(c)]
<1> DEFINE n == Len(c)
           base == 0
           st == [x \in (1..n) \X Int |-> x[2] + c[x[1]]]
           Eq(it) == it = [T \in SUBSET (DOMAIN c) |->
                             IF T = {} THEN base ELSE LET x == Max(T) IN it[T \ {x}] + c[x]]
           iter == CHOOSE it : Eq(it)
<1>0. n \in Nat /\ DOMAIN c = 1..n /\ base \in Int
  OBVIOUS
<1>1. ASSUME NEW i \in 1..n, NEW x \in Int
      PROVE  x + c[i] \in Int
  BY <1>0
<1>2. st \in [(1..n) \X Int -> Int] /\ \A i \in 1..n, x \in Int : st[<<i, x>>] = x + c[i]
  <2>1. ASSUME NEW x \in (1..n) \X Int
        PROVE  x[2] + c[x[1]] \in Int
    <3>1. x[1] \in 1..n /\ x[2] \in Int
      OBVIOUS
    <3> HIDE DEF n, base
    <3> QED BY <1>1, <3>1
  <2>2. st \in [(1..n) \X Int -> Int]
    <3> HIDE DEF n, base
    <3> QED BY <2>1
  <2>3. ASSUME NEW i \in 1..n, NEW x \in Int
        PROVE  st[<<i, x>>] = x + c[i]
    <3>1. <<i, x>> \in (1..n) \X Int /\ <<i, x>>[1] = i /\ <<i, x>>[2] = x
      OBVIOUS
    <3> HIDE DEF n, base
    <3> QED BY <3>1
  <2> QED BY <2>2, <2>3
<1> HIDE DEF base, st
<1>3. PICK it \in [SUBSET (1..n) -> Int] : IsFold(it, n, base, st)
  <2> HIDE DEF n
  <2> QED BY <1>0, <1>2, FoldRuns
<1>4. \A T \in SUBSET (1..n) : T # {} => Max(T) \in 1..n /\ T \ {Max(T)} \in SUBSET (1..n)
  <2> HIDE DEF n
  <2> QED BY <1>0, GreatestIn
<1>5. Eq(it)
  <2>1. ASSUME NEW T \in SUBSET (1..n)
        PROVE  it[T] = IF T = {} THEN base ELSE it[T \ {Max(T)}] + c[Max(T)]
    <3>1. it[T] = IF T = {} THEN base ELSE st[<<Max(T), it[T \ {Max(T)}]>>]
      BY <1>3 DEF IsFold
    <3>2. T # {} => Max(T) \in 1..n /\ it[T \ {Max(T)}] \in Int
      BY <1>3, <1>4
    <3> HIDE DEF n
    <3> QED BY <3>1, <3>2, <1>2
  <2> HIDE DEF n
  <2> QED BY <1>0, <1>3, <2>1
<1>6. Eq(iter)
  <2> HIDE DEF Eq
  <2> QED BY <1>5
<1>7. FoldLeft(+, 0, c) = iter[1..n]
  BY <1>0 DEF FoldLeft, MapThenFoldSet, base
<1>8. \A T \in SUBSET (1..n) : iter[T] = IF T = {} THEN base ELSE iter[T \ {Max(T)}] + c[Max(T)]
  <2> HIDE DEF iter
  <2> QED BY <1>0, <1>6
<1> HIDE DEF iter, n
<1>9. Reaches(iter, n, Int, base, st)
  <2>1. iter[{}] = base
    <3>1. {} \in SUBSET (1..n)
      OBVIOUS
    <3>2. \A T \in SUBSET (1..n) : T = {} => iter[T] = base
      BY <1>8
    <3> QED BY <3>1, <3>2
  <2>2. ASSUME NEW T \in SUBSET (1..n), T # {}, iter[T \ {Max(T)}] \in Int
        PROVE  iter[T] = st[<<Max(T), iter[T \ {Max(T)}]>>]
    BY <1>2, <1>4, <1>8, <2>2
  <2>3. Proceeds(iter, n, Int, base, st)
    BY <2>1, <2>2 DEF Proceeds
  <2> QED BY <1>0, <1>2, <2>3, FoldSteps
<1> DEFINE f == [k \in 0..n |-> iter[1..k]]
<1>10. f \in [0..n -> Int] /\ f[0] = base /\ f[n] = iter[1..n]
  BY <1>0, <1>9 DEF Reaches
<1>11. ASSUME NEW k \in 1..n
       PROVE  f[k] = f[k - 1] + c[k]
  <2>1. f[k] = iter[1..k] /\ f[k - 1] = iter[1..(k - 1)] /\ iter[1..(k - 1)] \in Int
    BY <1>0, <1>9 DEF Reaches
  <2>2. iter[1..k] = st[<<k, iter[1..(k - 1)]>>]
    BY <1>9 DEF Reaches
  <2> HIDE DEF f
  <2> QED BY <1>2, <2>1, <2>2
<1> QED
  <2> HIDE DEF f
  <2> QED BY <1>7, <1>10, <1>11 DEF n, base

-----------------------------------------------------------------------------
(* Recording again.                                                        *)

\* All the rows of a series, and thinning one that fits its cap.
LEMMA NothingThinned ==
  ASSUME NEW S, NEW s \in Seq(S), NEW c \in Nat, Len(s) <= c
  PROVE  Thin(s, c) = s
<1> DEFINE n == Len(s)
           J == 1..n
<1>1. n \in Nat /\ Cardinality(J) = n /\ s \in [J -> S]
  <2>1. n \in Nat /\ s \in [J -> S]
    OBVIOUS
  <2> HIDE DEF n
  <2>2. Cardinality(1..n) = n
    BY <2>1, FS_Interval
  <2> QED BY <2>1, <2>2
<1>2. ASSUME NEW k \in J
      PROVE  Nth(J, k) = k
  <2>1. (n - n + 1)..n \subseteq J
    BY <1>1
  <2>2. \A r \in 0..n : (n - r + 1)..n \subseteq J =>
           \A j \in 0..r-1 : Nth(J, Cardinality(J) - j) = n - j
    BY <1>1, NthAtTheEnds
  <2>3. n \in 0..n /\ n - k \in 0..n-1
    BY <1>1
  <2>4. Nth(J, Cardinality(J) - (n - k)) = n - (n - k)
    BY <2>1, <2>2, <2>3
  <2>5. n - (n - k) = k
    BY <1>1
  <2> QED BY <1>1, <2>4, <2>5
<1>3. Kept(s, c) = J
  BY DEF Kept
<1>4. At(s, J) = [k \in 1..Cardinality(J) |-> s[Nth(J, k)]]
  BY DEF At
<1>5. At(s, J) = [k \in J |-> s[k]]
  <2> HIDE DEF J
  <2>1. \A k \in J : s[Nth(J, k)] = s[k]
    BY <1>2
  <2>2. 1..Cardinality(J) = J
    BY <1>1 DEF J
  <2> QED BY <1>4, <2>1, <2>2
<1> QED
  BY <1>1, <1>3, <1>5 DEF Thin

\* A reading that is stored last is folded into itself.
LEMMA RecordedAgain ==
  ASSUME NEW S, \A x \in S : x.hours \in Int,
         NEW s \in Seq(S), NEW x \in S, NEW c \in Nat \ {0},
         NEW t, t = Thin(FoldIn(s, x), c)
  PROVE  t \in Seq(S) /\ Thin(FoldIn(t, x), c) = t
<1> DEFINE u == FoldIn(s, x)
<1>1. u \in Seq(S) /\ Len(u) > 0 /\ u[Len(u)] = x
  <2>1. CASE s # <<>> /\ Last(s).hours = x.hours
    <3>1. u = [s EXCEPT ![Len(s)] = x] /\ Len(s) > 0
      BY <2>1 DEF FoldIn
    <3> QED BY <3>1
  <2>2. CASE ~ (s # <<>> /\ Last(s).hours = x.hours)
    <3>1. u = Append(s, x)
      BY <2>2 DEF FoldIn
    <3> QED BY <3>1
  <2> QED BY <2>1, <2>2
<1> HIDE DEF u
<1>2. t \in Seq(S) /\ Len(t) <= c /\ \E f : Selects(t, u, f, c)
  BY <1>1, ThinSelects DEF u
<1>3. PICK f : Selects(t, u, f, c)
  BY <1>2
<1>4. Len(t) > 0 /\ t[Len(t)] = x
  BY <1>1, <1>2, <1>3 DEF Selects
<1>5. FoldIn(t, x) = t
  <2>1. t # <<>> /\ Last(t) = x
    BY <1>2, <1>4 DEF Last
  <2>2. FoldIn(t, x) = [t EXCEPT ![Len(t)] = x]
    BY <2>1 DEF FoldIn
  <2> QED BY <1>2, <1>4, <2>2
<1> QED BY <1>2, <1>5, NothingThinned

\* A reading of the hour that is stored last leaves the hours as they are.
LEMMA NoHourIsNew ==
  ASSUME NEW S, NEW s \in Seq(S), NEW x \in S, NEW c \in Nat, Len(s) <= c,
         s # <<>>, Last(s).hours = x.hours,
         NEW t, t = Thin(FoldIn(s, x), c)
  PROVE  DOMAIN t = DOMAIN s /\ \A i \in DOMAIN s : t[i].hours = s[i].hours
<1>1. FoldIn(s, x) = [s EXCEPT ![Len(s)] = x]
  BY DEF FoldIn
<1>2. FoldIn(s, x) \in Seq(S) /\ Len(FoldIn(s, x)) = Len(s)
  BY <1>1
<1>3. t = FoldIn(s, x)
  BY <1>2, NothingThinned
<1>4. \A i \in DOMAIN s : i # Len(s) => t[i] = s[i]
  BY <1>1, <1>3
<1>5. Len(s) \in DOMAIN s /\ t[Len(s)] = x /\ s[Len(s)].hours = x.hours /\ DOMAIN t = DOMAIN s
  BY <1>1, <1>3 DEF Last
<1> QED BY <1>4, <1>5

-----------------------------------------------------------------------------
(* Merging.                                                                *)

\* The row of an hour that stands last of the copies.
StandsLast(copies, at) ==
  /\ at \in RowPlaces(copies)
  /\ \A b \in RowPlaces(copies) :
       StandsAfter(b, at) => RowAt(copies, b).hours # RowAt(copies, at).hours

LEMMA WhereRowsStand ==
  ASSUME NEW copies
  PROVE  \A at : at \in RowPlaces(copies) <=>
           \E k \in DOMAIN copies : \E j \in DOMAIN copies[k] : at = <<k, j>>
  BY DEF RowPlaces

\* Each hour there is has a row that stands last.
LEMMA SomeRowIsLast ==
  ASSUME NEW S, NEW copies \in Seq(Seq(S)), NEW h \in HoursOf(copies)
  PROVE  \E at : StandsLast(copies, at) /\ RowAt(copies, at).hours = h
<1> DEFINE n == Len(copies)
           K == {k \in 1..n : \E j \in DOMAIN copies[k] : copies[k][j].hours = h}
<1>1. n \in Nat /\ DOMAIN copies = 1..n /\ \A k \in 1..n : copies[k] \in Seq(S)
  OBVIOUS
<1>2. K \in SUBSET (1..n) /\ K # {}
  <2>1. PICK at \in RowPlaces(copies) : RowAt(copies, at).hours = h
    BY DEF HoursOf
  <2>2. PICK k, j : k \in DOMAIN copies /\ j \in DOMAIN copies[k] /\ at = <<k, j>>
    BY <2>1, WhereRowsStand
  <2>3. copies[k][j].hours = h
    BY <2>1, <2>2 DEF RowAt
  <2> QED BY <1>1, <2>2, <2>3
<1> DEFINE k == Max(K)
           m == Len(copies[k])
           J == {j \in 1..m : copies[k][j].hours = h}
<1>3. k \in K /\ \A i \in K : i <= k
  <2> HIDE DEF K
  <2> QED BY <1>1, <1>2, EndsOf
<1> HIDE DEF k
<1>4. /\ k \in 1..n /\ m \in Nat /\ DOMAIN copies[k] = 1..m
      /\ J \in SUBSET (1..m) /\ J # {}
  <2>1. k \in 1..n /\ \E j \in DOMAIN copies[k] : copies[k][j].hours = h
    BY <1>3
  <2>2. m \in Nat /\ DOMAIN copies[k] = 1..m
    BY <1>1, <2>1
  <2> QED BY <2>1, <2>2
<1> DEFINE j == Max(J)
<1>5. j \in J /\ \A i \in J : i <= j
  <2> HIDE DEF J, m
  <2> QED BY <1>4, EndsOf
<1> HIDE DEF j
<1>6. j \in 1..m /\ copies[k][j].hours = h
  BY <1>5
<1>7. <<k, j>> \in RowPlaces(copies) /\ RowAt(copies, <<k, j>>).hours = h
  BY <1>1, <1>4, <1>6, WhereRowsStand DEF RowAt
<1>8. ASSUME NEW b \in RowPlaces(copies), StandsAfter(b, <<k, j>>), RowAt(copies, b).hours = h
      PROVE  FALSE
  <2>1. PICK l, i : l \in DOMAIN copies /\ i \in DOMAIN copies[l] /\ b = <<l, i>>
    BY WhereRowsStand
  <2>2. copies[l][i].hours = h /\ (l > k \/ (l = k /\ i > j))
    BY <1>8, <2>1 DEF RowAt, StandsAfter
  <2>3. l \in K
    BY <1>1, <2>1, <2>2
  <2>4. l <= k
    BY <1>3, <2>3
  <2>5. k \in Int /\ l \in Int
    BY <1>1, <1>4, <2>1
  <2>6. l = k /\ i > j
    BY <2>2, <2>4, <2>5
  <2>7. i \in J
    BY <1>4, <2>1, <2>2, <2>6
  <2>8. i <= j /\ i \in Int /\ j \in Int
    BY <1>5, <1>6, <2>7
  <2> QED BY <2>6, <2>8
<1> QED BY <1>7, <1>8 DEF StandsLast

\* What merging some copies leaves: a row of each hour, in the clock's order, the one
\* that stands last of its hour.
MergesRight(S, copies, t) ==
  /\ t \in Seq(S)
  /\ {t[i].hours : i \in DOMAIN t} = HoursOf(copies)
  /\ \A i \in 1..Len(t)-1 : t[i].hours < t[i + 1].hours
  /\ \A i \in DOMAIN t : \E at : StandsLast(copies, at) /\ RowAt(copies, at) = t[i]

LEMMA MergedCopies ==
  ASSUME NEW S, NEW top \in Nat, \A x \in S : x.hours \in 0..top,
         NEW copies \in Seq(Seq(S))
  PROVE  MergesRight(S, copies, MergeCopies(copies))
<1> DEFINE t == MergeCopies(copies)
           H == HoursOf(copies)
           C == Cardinality(H)
           last(h) == CHOOSE at \in RowPlaces(copies) :
                        /\ RowAt(copies, at).hours = h
                        /\ \A b \in RowPlaces(copies) :
                             StandsAfter(b, at) => RowAt(copies, b).hours # h
<1>1. \A at \in RowPlaces(copies) : RowAt(copies, at) \in S
  <2> SUFFICES ASSUME NEW at \in RowPlaces(copies) PROVE RowAt(copies, at) \in S
    OBVIOUS
  <2>1. PICK k, j : k \in DOMAIN copies /\ j \in DOMAIN copies[k] /\ at = <<k, j>>
    BY WhereRowsStand
  <2>2. copies[k] \in Seq(S)
    BY <2>1
  <2> QED BY <2>1, <2>2 DEF RowAt
<1>2. H \in SUBSET Int /\ IsFiniteSet(H) /\ C \in Nat
  <2>1. H \in SUBSET (0..top)
    BY <1>1 DEF HoursOf
  <2>2. IsFiniteSet(0..top)
    BY FS_Interval
  <2>3. IsFiniteSet(H)
    BY <2>1, <2>2, FS_Subset
  <2> QED BY <2>1, <2>3, FS_CardinalityType
<1>3. ASSUME NEW h \in H
      PROVE  StandsLast(copies, last(h)) /\ RowAt(copies, last(h)).hours = h
  <2>1. \E at : StandsLast(copies, at) /\ RowAt(copies, at).hours = h
    BY SomeRowIsLast
  <2>2. /\ last(h) \in RowPlaces(copies) /\ RowAt(copies, last(h)).hours = h
        /\ \A b \in RowPlaces(copies) : StandsAfter(b, last(h)) => RowAt(copies, b).hours # h
    BY <2>1 DEF StandsLast
  <2> QED BY <2>2 DEF StandsLast
<1>4. t = [i \in 1..C |-> RowAt(copies, last(Nth(H, i)))]
  BY DEF MergeCopies
<1> HIDE DEF last, H, t
<1>5. /\ \A k \in 1..C : Nth(H, k) \in H
      /\ \A h \in H : Nth(H, PlaceOf(H, h)) = h /\ PlaceOf(H, h) \in 1..C
      /\ \A k, l \in 1..C : k < l => Nth(H, k) < Nth(H, l)
  BY <1>2, ListedInOrder, PlacesGrow
<1>6. ASSUME NEW i \in 1..C
      PROVE  /\ t[i] \in S /\ t[i].hours = Nth(H, i)
             /\ \E at : StandsLast(copies, at) /\ RowAt(copies, at) = t[i]
  <2>1. StandsLast(copies, last(Nth(H, i))) /\ RowAt(copies, last(Nth(H, i))).hours = Nth(H, i)
    BY <1>3, <1>5
  <2>2. t[i] = RowAt(copies, last(Nth(H, i)))
    BY <1>4
  <2> QED BY <1>1, <2>1, <2>2 DEF StandsLast
<1> HIDE DEF C
<1>7. t \in Seq(S) /\ Len(t) = C /\ DOMAIN t = 1..C
  <2>1. DOMAIN t = 1..C /\ t \in [1..C -> S]
    <3>1. t = [i \in 1..C |-> t[i]]
      BY <1>4
    <3> QED BY <1>6, <3>1
  <2> QED BY <1>2, <2>1
<1>8. {t[i].hours : i \in 1..C} = H
  <2>1. ASSUME NEW h \in H
        PROVE  \E i \in 1..C : t[i].hours = h
    BY <1>5, <1>6
  <2>2. \A i \in 1..C : t[i].hours \in H
    BY <1>5, <1>6
  <2> QED BY <2>1, <2>2
<1>9. ASSUME NEW i \in 1..C-1
      PROVE  t[i].hours < t[i + 1].hours
  <2>1. i \in 1..C /\ i + 1 \in 1..C /\ i < i + 1
    BY <1>2
  <2> QED BY <1>5, <1>6, <2>1
<1> QED BY <1>6, <1>7, <1>8, <1>9 DEF H, t, MergesRight

-----------------------------------------------------------------------------
(* Recording into a history.                                               *)

TrackedNames(disks) == {IdentityOf(disks[i]) : i \in Tracked(disks)}
TrackedAs(disks, id) == CHOOSE i \in Tracked(disks) : IdentityOf(disks[i]) = id
SeriesSoFar(history, id) == IF id \in DOMAIN history THEN history[id] ELSE <<>>
ReadingOf(disks, id) == SampleFrom(disks[TrackedAs(disks, id)])
TakenIn(history, disks, cap, id) == Thin(FoldIn(SeriesSoFar(history, id), ReadingOf(disks, id)), cap)

\* The series of a tracked drive takes its reading, every other stays as it is.
LEMMA RecordedIs ==
  ASSUME NEW history, NEW disks, NEW cap \in Nat
  PROVE  /\ DOMAIN RecordInto(history, disks, cap) = DOMAIN history \cup TrackedNames(disks)
         /\ \A id \in TrackedNames(disks) :
              /\ TrackedAs(disks, id) \in Tracked(disks)
              /\ IdentityOf(disks[TrackedAs(disks, id)]) = id
              /\ RecordInto(history, disks, cap)[id] = TakenIn(history, disks, cap, id)
         /\ \A id \in DOMAIN history \ TrackedNames(disks) :
              RecordInto(history, disks, cap)[id] = history[id]
<1> DEFINE N == {IdentityOf(disks[i]) : i \in Tracked(disks)}
<1>1. RecordInto(history, disks, cap) =
               [id \in DOMAIN history \cup N |->
                 IF id \in N
                 THEN TakenIn(history, disks, cap, id)
                 ELSE history[id]]
  BY DEF RecordInto, TakenIn, ReadingOf, SeriesSoFar, TrackedAs
<1>2. \A id \in N : /\ TrackedAs(disks, id) \in Tracked(disks)
                    /\ IdentityOf(disks[TrackedAs(disks, id)]) = id
  BY DEF TrackedAs
<1>3. N = TrackedNames(disks)
  BY DEF TrackedNames
<1> HIDE DEF N
<1> QED BY <1>1, <1>2, <1>3

\* Recording a reading once more changes nothing.
TakenInOnce(history, disks, cap) ==
  RecordInto(RecordInto(history, disks, cap), disks, cap) = RecordInto(history, disks, cap)

LEMMA RecordingTwiceIsOnce ==
  ASSUME NEW S, \A x \in S : x.hours \in Int,
         NEW history, \A id \in DOMAIN history : history[id] \in Seq(S),
         NEW disks, \A i \in Tracked(disks) : SampleFrom(disks[i]) \in S,
         NEW cap \in Nat, cap > 0
  PROVE  TakenInOnce(history, disks, cap)
<1> DEFINE once == RecordInto(history, disks, cap)
           twice == RecordInto(once, disks, cap)
           x(id) == ReadingOf(disks, id)
<1> HIDE DEF x, twice, once
<1>1. /\ DOMAIN once = DOMAIN history \cup TrackedNames(disks)
      /\ \A id \in TrackedNames(disks) : TrackedAs(disks, id) \in Tracked(disks)
      /\ \A id \in TrackedNames(disks) : once[id] = TakenIn(history, disks, cap, id)
  BY RecordedIs DEF once
<1>2. /\ DOMAIN twice = DOMAIN once \cup TrackedNames(disks)
      /\ \A id \in TrackedNames(disks) : twice[id] = TakenIn(once, disks, cap, id)
      /\ \A id \in DOMAIN once \ TrackedNames(disks) : twice[id] = once[id]
  <2>1. twice = [id \in DOMAIN once \cup TrackedNames(disks) |->
                   IF id \in TrackedNames(disks) THEN TakenIn(once, disks, cap, id) ELSE once[id]]
    BY DEF twice, RecordInto, TakenIn, ReadingOf, SeriesSoFar, TrackedAs, TrackedNames
  <2> QED BY <2>1
<1>3. ASSUME NEW id \in TrackedNames(disks)
      PROVE  twice[id] = once[id]
  <2>1. SeriesSoFar(history, id) \in Seq(S) /\ x(id) \in S
    <3>1. x(id) \in S
      BY <1>1 DEF x, ReadingOf
    <3>2. SeriesSoFar(history, id) \in Seq(S)
      BY DEF SeriesSoFar
    <3> QED BY <3>1, <3>2
  <2>2. SeriesSoFar(once, id) = once[id]
    BY <1>1 DEF SeriesSoFar
  <2>3. /\ once[id] = Thin(FoldIn(SeriesSoFar(history, id), x(id)), cap)
        /\ twice[id] = Thin(FoldIn(SeriesSoFar(once, id), x(id)), cap)
    BY <1>1, <1>2 DEF TakenIn, x
  <2>4. Thin(FoldIn(once[id], x(id)), cap) = once[id]
    BY <2>1, <2>3, RecordedAgain
  <2> QED BY <2>2, <2>3, <2>4
<1>4. DOMAIN twice = DOMAIN once /\ \A id \in DOMAIN once : twice[id] = once[id]
  BY <1>1, <1>2, <1>3
<1>5. once = [id \in DOMAIN once |-> once[id]] /\ twice = [id \in DOMAIN twice |-> twice[id]]
  BY DEF once, twice, RecordInto
<1>6. twice = once
  BY <1>4, <1>5
<1> QED BY <1>6 DEF once, twice, TakenInOnce

\* Where nothing is new, every drive that could be recorded is in the history, and stands at
\* the hour it stood at.
LEMMA NothingIsNew ==
  ASSUME NEW history, NEW disks, ~HasNewReadings(history, disks), NEW i \in DOMAIN disks,
         Recordable(disks[i]), NEW id, id = IdentityOf(disks[i])
  PROVE  id \in DOMAIN history /\ history[id] # <<>> /\ Last(history[id]).hours = disks[i].hours
  BY DEF HasNewReadings

\* Two histories with the same drives at the same hours.
SameHours(after, history) ==
  /\ DOMAIN after = DOMAIN history
  /\ \A id \in DOMAIN after :
       /\ DOMAIN after[id] = DOMAIN history[id]
       /\ \A i \in DOMAIN history[id] : after[id][i].hours = history[id][i].hours

LEMMA DecliningChangesNoHour ==
  ASSUME NEW S, \A x \in S : x.hours \in Int, NEW cap \in Nat,
         NEW history,
         \A id \in DOMAIN history : history[id] \in Seq(S) /\ Len(history[id]) <= cap,
         NEW disks, \A i \in Tracked(disks) : SampleFrom(disks[i]) \in S,
         ~HasNewReadings(history, disks)
  PROVE  SameHours(RecordInto(history, disks, cap), history)
<1> DEFINE after == RecordInto(history, disks, cap)
<1> HIDE DEF after
<1>1. /\ DOMAIN after = DOMAIN history \cup TrackedNames(disks)
      /\ \A id \in TrackedNames(disks) :
           /\ TrackedAs(disks, id) \in Tracked(disks)
           /\ IdentityOf(disks[TrackedAs(disks, id)]) = id
           /\ after[id] = TakenIn(history, disks, cap, id)
      /\ \A id \in DOMAIN history \ TrackedNames(disks) : after[id] = history[id]
  BY RecordedIs DEF after
<1>2. ASSUME NEW id \in TrackedNames(disks)
      PROVE  /\ id \in DOMAIN history
             /\ DOMAIN after[id] = DOMAIN history[id]
             /\ \A i \in DOMAIN history[id] : after[id][i].hours = history[id][i].hours
  <2> DEFINE i == TrackedAs(disks, id)
             x == ReadingOf(disks, id)
             s == history[id]
  <2>1. i \in DOMAIN disks /\ Recordable(disks[i]) /\ IdentityOf(disks[i]) = id /\ x \in S
    BY <1>1 DEF Tracked, ReadingOf
  <2>2. x.hours = disks[i].hours
    BY DEF SampleFrom, ReadingOf
  <2>3. after[id] = Thin(FoldIn(SeriesSoFar(history, id), x), cap)
    BY <1>1 DEF TakenIn
  <2> HIDE DEF i, x
  <2>4. id \in DOMAIN history /\ s # <<>> /\ Last(s).hours = x.hours
    BY <2>1, <2>2, NothingIsNew
  <2>5. after[id] = Thin(FoldIn(s, x), cap) /\ s \in Seq(S) /\ Len(s) <= cap
    BY <2>3, <2>4 DEF SeriesSoFar
  <2> HIDE DEF s
  <2>6. DOMAIN after[id] = DOMAIN s /\ \A k \in DOMAIN s : after[id][k].hours = s[k].hours
    BY <2>1, <2>4, <2>5, NoHourIsNew
  <2> QED BY <2>4, <2>6 DEF s
<1>3. SameHours(after, history)
  BY <1>1, <1>2 DEF SameHours
<1> QED BY <1>3 DEF after
=============================================================================
