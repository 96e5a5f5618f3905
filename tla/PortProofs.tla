----------------------------- MODULE PortProofs -----------------------------
(***************************************************************************)
(* Lemmas about ports, for any drives and controllers: what a tree of      *)
(* maxima holds and what a descent through it finds, that the swaps it     *)
(* finds are those of a walk over the drives, which port is named, what is *)
(* said of a slow link, and what the drives of one controller pull.        *)
(***************************************************************************)
EXTENDS PortRules, SeriesProofs

-----------------------------------------------------------------------------
(* Trees of maxima.                                                        *)

\* What holds of the leaves, and of each node both of whose children it holds of.
LEMMA Upwards ==
  ASSUME NEW size \in Nat, size > 0, NEW A, \A n \in size..2*size-1 : n \in A,
         \A n \in 1..size-1 : 2*n \in A /\ 2*n + 1 \in A => n \in A
  PROVE  1..2*size-1 \subseteq A
<1> DEFINE missing == {n \in 1..2*size-1 : n \notin A}
<1> SUFFICES ASSUME missing # {} PROVE FALSE
  OBVIOUS
<1>1. 2*size-1 \in Nat /\ missing \in SUBSET (1..2*size-1)
  OBVIOUS
<1>2. Max(missing) \in missing /\ \A j \in missing : j <= Max(missing)
  <2> HIDE DEF missing
  <2> QED BY <1>1, GreatestIn
<1>3. PICK m \in missing : \A j \in missing : j <= m
  <2> HIDE DEF missing
  <2> QED BY <1>2
<1>4. m \in 1..size-1 /\ m \notin A
  OBVIOUS
<1>5. 2*m \in 1..2*size-1 /\ 2*m + 1 \in 1..2*size-1 /\ 2*m > m /\ 2*m + 1 > m
  BY <1>4
<1>6. 2*m \notin missing /\ 2*m + 1 \notin missing
  <2> HIDE DEF missing
  <2> QED BY <1>3, <1>4, <1>5
<1>7. 2*m \in A /\ 2*m + 1 \in A
  BY <1>5, <1>6
<1> QED BY <1>4, <1>7

\* A function that is one thing at the leaves and otherwise made of its children's.
Grown(f, size, S, leaf, step) ==
  /\ \A n \in size..2*size-1 : f[n] = leaf[n]
  /\ \A n \in 1..size-1 : f[2*n] \in S /\ f[2*n + 1] \in S => f[n] = step[n][<<f[2*n], f[2*n + 1]>>]

LEMMA TreesGrow ==
  ASSUME NEW size \in Nat, size > 0, NEW S, NEW leaf \in [size..2*size-1 -> S],
         NEW step \in [1..size-1 -> [S \X S -> S]]
  PROVE  \E f \in [1..2*size-1 -> S] : Grown(f, size, S, leaf, step)
<1> DEFINE From(f, m) ==
             /\ \A n \in size..2*size-1 : f[n] = leaf[n]
             /\ \A n \in size-m..size-1 : f[n] = step[n][<<f[2*n], f[2*n + 1]>>]
           A == {m \in 0..size-1 : \E f \in [1..2*size-1 -> S] : From(f, m)}
<1>1. 0 \in A
  <2> DEFINE f == [n \in 1..2*size-1 |-> IF n >= size THEN leaf[n] ELSE leaf[size]]
  <2>1. f \in [1..2*size-1 -> S] /\ From(f, 0)
    OBVIOUS
  <2> HIDE DEF f, From
  <2> QED BY <2>1
<1>2. ASSUME NEW m \in 0..(size - 1)-1, m \in A
      PROVE  m + 1 \in A
  <2>1. PICK f \in [1..2*size-1 -> S] : From(f, m)
    BY <1>2
  <2> DEFINE at == size - (m + 1)
             g == [f EXCEPT ![at] = step[at][<<f[2*at], f[2*at + 1]>>]]
  <2>2. at \in 1..size-1 /\ 2*at \in 1..2*size-1 /\ 2*at + 1 \in 1..2*size-1
    OBVIOUS
  <2>3. step[at][<<f[2*at], f[2*at + 1]>>] \in S
    <3>1. f[2*at] \in S /\ f[2*at + 1] \in S /\ step[at] \in [S \X S -> S]
      BY <2>2
    <3> HIDE DEF at
    <3> QED BY <3>1
  <2>4. /\ g \in [1..2*size-1 -> S] /\ g[at] = step[at][<<f[2*at], f[2*at + 1]>>]
        /\ \A n \in 1..2*size-1 : n # at => g[n] = f[n]
    <3> HIDE DEF at
    <3> QED BY <2>2, <2>3
  <2>5. \A n \in size..2*size-1 : g[n] = leaf[n]
    <3>1. \A n \in size..2*size-1 : n \in 1..2*size-1 /\ n # at /\ f[n] = leaf[n]
      BY <2>1, <2>2
    <3> HIDE DEF g, at
    <3> QED BY <2>4, <3>1
  <2>6. ASSUME NEW n \in size-(m + 1)..size-1
        PROVE  g[n] = step[n][<<g[2*n], g[2*n + 1]>>]
    <3>1. n \in 1..size-1 /\ 2*n \in 1..2*size-1 /\ 2*n + 1 \in 1..2*size-1 /\ 2*n # at /\ 2*n + 1 # at
      OBVIOUS
    <3>2. g[2*n] = f[2*n] /\ g[2*n + 1] = f[2*n + 1]
      <4> HIDE DEF g, at
      <4> QED BY <2>4, <3>1
    <3>3. CASE n = at
      <4> HIDE DEF g, at
      <4> QED BY <2>4, <3>2, <3>3
    <3>4. CASE n # at
      <4>1. n \in size-m..size-1 /\ n \in 1..2*size-1
        BY <3>4
      <4>2. f[n] = step[n][<<f[2*n], f[2*n + 1]>>]
        BY <2>1, <4>1
      <4> HIDE DEF g, at
      <4> QED BY <2>4, <3>2, <3>4, <4>1, <4>2
    <3> QED BY <3>3, <3>4
  <2>7. From(g, m + 1)
    <3> HIDE DEF g
    <3> QED BY <2>5, <2>6
  <2>8. \E h \in [1..2*size-1 -> S] : From(h, m + 1)
    <3> HIDE DEF g, From
    <3> QED BY <2>4, <2>7
  <2>9. m + 1 \in 0..size-1
    OBVIOUS
  <2> HIDE DEF From
  <2> QED BY <2>8, <2>9
<1>3. size - 1 \in A
  <2>1. 0..size-1 \subseteq A
    <3>1. size - 1 \in Nat
      OBVIOUS
    <3> HIDE DEF A
    <3> QED BY <1>1, <1>2, <3>1, UpTo
  <2>2. size - 1 \in 0..size-1
    OBVIOUS
  <2> HIDE DEF A
  <2> QED BY <2>1, <2>2
<1>4. PICK f \in [1..2*size-1 -> S] : From(f, size - 1)
  BY <1>3
<1>5. Grown(f, size, S, leaf, step)
  <2>1. size - (size - 1) = 1
    OBVIOUS
  <2> QED BY <1>4, <2>1 DEF Grown
<1> QED BY <1>5

\* Such a function is of its kind at every node.
AllOver(f, size, S, leaf, step) ==
  /\ \A n \in 1..2*size-1 : f[n] \in S
  /\ \A n \in size..2*size-1 : f[n] = leaf[n]
  /\ \A n \in 1..size-1 : f[n] = step[n][<<f[2*n], f[2*n + 1]>>]

LEMMA GrownAllOver ==
  ASSUME NEW size \in Nat, size > 0, NEW S, NEW leaf \in [size..2*size-1 -> S],
         NEW step \in [1..size-1 -> [S \X S -> S]], NEW f, Grown(f, size, S, leaf, step)
  PROVE  AllOver(f, size, S, leaf, step)
<1> DEFINE A == {n \in 1..2*size-1 : f[n] \in S}
<1>1. \A n \in size..2*size-1 : n \in A
  BY DEF Grown
<1>2. ASSUME NEW n \in 1..size-1, 2*n \in A /\ 2*n + 1 \in A
      PROVE  n \in A
  <2>1. f[n] = step[n][<<f[2*n], f[2*n + 1]>>] /\ f[2*n] \in S /\ f[2*n + 1] \in S
    BY <1>2 DEF Grown
  <2>2. step[n] \in [S \X S -> S] /\ n \in 1..2*size-1
    <3>1. step[n] \in [S \X S -> S]
      BY <1>2
    <3>2. n \in 1..2*size-1
      BY <1>2
    <3> QED BY <3>1, <3>2
  <2>3. f[n] \in S
    <3> HIDE DEF A
    <3> QED BY <2>1, <2>2
  <2> QED BY <2>2, <2>3
<1>3. 1..2*size-1 \subseteq A
  <2> HIDE DEF A
  <2> QED BY <1>1, <1>2, Upwards
<1>4. \A n \in 1..size-1 : 2*n \in 1..2*size-1 /\ 2*n + 1 \in 1..2*size-1
  OBVIOUS
<1> QED BY <1>3, <1>4 DEF Grown, AllOver

\* The leaves beneath each node are those from one to another, the left child's first.
Spanning(size, first, last) ==
  /\ first \in [1..2*size-1 -> size..2*size-1] /\ last \in [1..2*size-1 -> size..2*size-1]
  /\ \A n \in size..2*size-1 : first[n] = n /\ last[n] = n
  /\ \A n \in 1..size-1 : first[n] = first[2*n] /\ last[n] = last[2*n + 1] /\ first[2*n + 1] = last[2*n] + 1
  /\ \A n \in 1..2*size-1 : first[n] <= last[n]
  /\ first[1] = size /\ last[1] = 2*size - 1

\* A tree of twice the leaves has two where the smaller one had one.
LEMMA SpansDouble ==
  ASSUME NEW size \in Nat, size > 0, NEW first, NEW last, Spanning(size, first, last)
  PROVE  \E f, l : Spanning(2*size, f, l)
<1> DEFINE f == [n \in 1..2*(2*size)-1 |-> IF n >= 2*size THEN n ELSE 2*first[n]]
           l == [n \in 1..2*(2*size)-1 |-> IF n >= 2*size THEN n ELSE 2*last[n] + 1]
<1>1. \A n \in 1..2*size-1 : first[n] \in size..2*size-1 /\ last[n] \in size..2*size-1
  BY DEF Spanning
<1>2. /\ \A n \in 1..2*size-1 : f[n] = 2*first[n] /\ l[n] = 2*last[n] + 1
      /\ \A n \in 2*size..2*(2*size)-1 : f[n] = n /\ l[n] = n
  OBVIOUS
<1>3. f \in [1..2*(2*size)-1 -> 2*size..2*(2*size)-1] /\ l \in [1..2*(2*size)-1 -> 2*size..2*(2*size)-1]
  BY <1>1
<1> HIDE DEF f, l
<1>4. ASSUME NEW n \in 1..2*size-1
      PROVE  f[n] = f[2*n] /\ l[n] = l[2*n + 1] /\ f[2*n + 1] = l[2*n] + 1
  <2>1. CASE n \in size..2*size-1
    <3>1. first[n] = n /\ last[n] = n
      BY <2>1 DEF Spanning
    <3>2. 2*n \in 2*size..2*(2*size)-1 /\ 2*n + 1 \in 2*size..2*(2*size)-1
      BY <2>1
    <3> QED BY <1>2, <3>1, <3>2
  <2>2. CASE n \in 1..size-1
    <3>1. first[n] = first[2*n] /\ last[n] = last[2*n + 1] /\ first[2*n + 1] = last[2*n] + 1
      BY <2>2 DEF Spanning
    <3>2. 2*n \in 1..2*size-1 /\ 2*n + 1 \in 1..2*size-1
      BY <2>2
    <3>3. f[n] = 2*first[n] /\ f[2*n] = 2*first[2*n] /\ f[2*n + 1] = 2*first[2*n + 1]
      BY <1>2, <3>2
    <3>4. l[n] = 2*last[n] + 1 /\ l[2*n] = 2*last[2*n] + 1 /\ l[2*n + 1] = 2*last[2*n + 1] + 1
      BY <1>2, <3>2
    <3>5. first[2*n + 1] \in Int /\ last[2*n] \in Int
      BY <1>1, <3>2
    <3> QED BY <3>1, <3>3, <3>4, <3>5
  <2> QED BY <2>1, <2>2
<1>5. ASSUME NEW n \in 1..2*(2*size)-1
      PROVE  f[n] <= l[n]
  <2>1. CASE n \in 2*size..2*(2*size)-1
    BY <1>2, <2>1
  <2>2. CASE n \in 1..2*size-1
    <3>1. first[n] <= last[n]
      BY <2>2 DEF Spanning
    <3> QED BY <1>1, <1>2, <2>2, <3>1
  <2> QED BY <2>1, <2>2
<1>6. f[1] = 2*size /\ l[1] = 2*(2*size) - 1
  <2>1. 1 \in 1..2*size-1 /\ first[1] = size /\ last[1] = 2*size - 1
    BY DEF Spanning
  <2>2. f[1] = 2*first[1] /\ l[1] = 2*last[1] + 1
    BY <1>2, <2>1
  <2> QED BY <2>1, <2>2
<1>7. Spanning(2*size, f, l)
  BY <1>2, <1>3, <1>4, <1>5, <1>6 DEF Spanning
<1> QED BY <1>7

\* Some positive numbers have a least one.
LEMMA LeastOfSome ==
  ASSUME NEW T \in SUBSET (Nat \ {0}), T # {}
  PROVE  Min(T) \in T /\ \A i \in T : Min(T) <= i
<1>1. PICK p \in T : TRUE
  OBVIOUS
<1> DEFINE U == {i \in T : i <= p}
<1>2. p \in Nat /\ U \in SUBSET (1..p) /\ U # {}
  <2>1. p \in Nat /\ p \in U
    BY <1>1
  <2>2. ASSUME NEW i \in U
        PROVE  i \in 1..p
    <3>1. i \in Nat \ {0} /\ i <= p
      OBVIOUS
    <3> QED BY <2>1, <3>1
  <2> QED BY <2>1, <2>2
<1>3. Min(U) \in U /\ \A i \in U : Min(U) <= i
  <2> HIDE DEF U
  <2> QED BY <1>2, EndsOf
<1>4. PICK m \in U : \A i \in U : m <= i
  <2> HIDE DEF U
  <2> QED BY <1>3
<1>5. m \in T /\ \A i \in T : m <= i
  BY <1>1, <1>4
<1> QED BY <1>5 DEF Min

LEMMA GreaterOfTwo ==
  ASSUME NEW a \in Int, NEW b \in Int
  PROVE  Max({a, b}) = IF a >= b THEN a ELSE b
BY DEF Max

\* A tree for n values has room for them, and its nodes stand over runs of its leaves.
LEMMA LeavesAreAPower ==
  ASSUME NEW n \in Nat
  PROVE  /\ TreeLeaves(n) \in Nat /\ TreeLeaves(n) > 0 /\ TreeLeaves(n) >= n
         /\ \E f, l : Spanning(TreeLeaves(n), f, l)
<1> DEFINE Eq(p) == p = [k \in 0..n |-> IF k = 0 THEN 1 ELSE 2 * p[k - 1]]
           power == CHOOSE p : Eq(p)
           st == [x \in (1..n) \X Nat |-> 2 * x[2]]
<1>1. st \in [(1..n) \X Nat -> Nat] /\ \A k \in 1..n, x \in Nat : st[<<k, x>>] = 2 * x
  <2>1. \A x \in (1..n) \X Nat : 2 * x[2] \in Nat
    OBVIOUS
  <2>2. st \in [(1..n) \X Nat -> Nat]
    BY <2>1
  <2>3. ASSUME NEW k \in 1..n, NEW x \in Nat
        PROVE  st[<<k, x>>] = 2 * x
    <3>1. <<k, x>> \in (1..n) \X Nat /\ <<k, x>>[2] = x
      OBVIOUS
    <3> QED BY <3>1
  <2> QED BY <2>2, <2>3
<1>2. PICK p \in [0..n -> Nat] : p[0] = 1 /\ \A k \in 1..n : p[k] = st[<<k, p[k - 1]>>]
  <2> DEFINE S == Nat
  <2>1. 1 \in S /\ st \in [(1..n) \X S -> S]
    BY <1>1
  <2> HIDE DEF st, S, power, Eq
  <2>2. \E p \in [0..n -> S] : RunsThrough(p, n, 1, st)
    BY <2>1, LoopRuns
  <2> QED BY <2>2 DEF S, RunsThrough
<1>3. Eq(p)
  <2>1. ASSUME NEW k \in 0..n
        PROVE  p[k] = IF k = 0 THEN 1 ELSE 2 * p[k - 1]
    <3>1. CASE k = 0
      BY <1>2, <3>1
    <3>2. CASE k # 0
      <4>1. k \in 1..n /\ k - 1 \in 0..n
        BY <3>2
      <4>2. p[k - 1] \in Nat /\ p[k] = st[<<k, p[k - 1]>>]
        BY <1>2, <4>1
      <4> HIDE DEF st
      <4> QED BY <1>1, <3>2, <4>1, <4>2
    <3> QED BY <3>1, <3>2
  <2> QED BY <1>2, <2>1
<1>4. Eq(power)
  <2> HIDE DEF Eq
  <2> QED BY <1>3
<1>5. power[0] = 1 /\ \A k \in 0..n-1 : power[k + 1] = 2 * power[k]
  <2>1. \A k \in 0..n : power[k] = IF k = 0 THEN 1 ELSE 2 * power[k - 1]
    <3> HIDE DEF power
    <3> QED BY <1>4
  <2>2. \A k \in 0..n-1 : k + 1 \in 0..n /\ k + 1 # 0 /\ (k + 1) - 1 = k
    OBVIOUS
  <2> HIDE DEF power
  <2> QED BY <2>1, <2>2
<1> DEFINE Good(x) == x \in Nat /\ x > 0 /\ \E f, l : Spanning(x, f, l)
           A == {k \in 0..n : Good(power[k]) /\ power[k] > k}
           T == {power[k] : k \in 0..n} \ (0..n-1)
<1>6. TreeLeaves(n) = Min(T)
  BY DEF TreeLeaves
<1> HIDE DEF power
<1>7. 0 \in A
  <2> DEFINE f == [i \in 1..1 |-> 1]
  <2>1. f \in [1..2*1-1 -> 1..2*1-1] /\ f[1] = 1
    OBVIOUS
  <2>2. Spanning(1, f, f)
    <3> HIDE DEF f
    <3>1. 2*1-1 = 1 /\ 1-1 = 0
      OBVIOUS
    <3>2. \A i \in 1..2*1-1 : i = 1
      OBVIOUS
    <3>3. 1..0 = {}
      OBVIOUS
    <3> QED BY <2>1, <3>1, <3>2, <3>3 DEF Spanning
  <2>3. \E g, h : Spanning(1, g, h)
    BY <2>2
  <2> QED BY <1>5, <2>3
<1>8. ASSUME NEW k \in 0..n-1, k \in A
      PROVE  k + 1 \in A
  <2>1. PICK f, l : Spanning(power[k], f, l)
    BY <1>8
  <2>2. \E g, h : Spanning(2*power[k], g, h)
    BY <1>8, <2>1, SpansDouble
  <2>3. power[k + 1] = 2*power[k]
    BY <1>5
  <2>4. Good(power[k + 1]) /\ power[k + 1] > k + 1
    BY <1>8, <2>2, <2>3
  <2>5. k + 1 \in 0..n
    OBVIOUS
  <2> HIDE DEF Good
  <2> QED BY <2>4, <2>5
<1>9. \A k \in 0..n : Good(power[k]) /\ power[k] > k
  <2>1. 0..n \subseteq A
    <3> HIDE DEF A
    <3> QED BY <1>7, <1>8, UpTo
  <2> HIDE DEF Good
  <2> QED BY <2>1
<1>10. T \in SUBSET (Nat \ {0}) /\ T # {}
  <2>1. T \in SUBSET (Nat \ {0})
    BY <1>9
  <2>2. n \in 0..n /\ power[n] \notin 0..n-1
    BY <1>9
  <2>3. power[n] \in T
    BY <2>2
  <2> QED BY <2>1, <2>3
<1>11. Min(T) \in T
  <2> HIDE DEF T
  <2> QED BY <1>10, LeastOfSome
<1>12. \A x \in T : Good(x) /\ x >= n
  <2>1. \A x \in T : Good(x)
    <3> HIDE DEF Good
    <3> QED BY <1>9
  <2>2. \A x \in T : x \in Nat /\ x \notin 0..n-1
    BY <1>10
  <2>3. \A x \in T : x >= n
    <3> HIDE DEF T
    <3> QED BY <2>2
  <2> HIDE DEF Good
  <2> QED BY <2>1, <2>3
<1>13. Good(TreeLeaves(n)) /\ TreeLeaves(n) >= n
  <2> HIDE DEF T, Good
  <2> QED BY <1>6, <1>11, <1>12
<1> QED BY <1>13

\* A tree of maxima over values, of which some have been taken out.
TreeOf(t, values, gone) ==
  /\ t = [size |-> t.size, best |-> t.best]
  /\ t.size \in Nat /\ t.size > 0 /\ t.size >= Len(values)
  /\ t.best \in [1..2*t.size-1 -> Int]
  /\ \A n \in t.size..2*t.size-1 :
       t.best[n] = IF n - t.size < Len(values) /\ n - t.size + 1 \notin gone
                   THEN values[n - t.size + 1] ELSE Lowest
  /\ \A n \in 1..t.size-1 :
       t.best[n] = IF t.best[2*n] >= t.best[2*n + 1] THEN t.best[2*n] ELSE t.best[2*n + 1]
  /\ \E f, l : Spanning(t.size, f, l)

LEMMA MaxTreeIs ==
  ASSUME NEW values \in Seq(Int)
  PROVE  TreeOf(MaxTree(values), values, {})
<1> DEFINE size == TreeLeaves(Len(values))
           Eq(b) == b = [n \in 1..2*size-1 |->
                           IF n >= size THEN (IF n - size < Len(values) THEN values[n - size + 1] ELSE Lowest)
                           ELSE Max({b[2*n], b[2*n + 1]})]
           best == CHOOSE b : Eq(b)
           leaf == [n \in size..2*size-1 |-> IF n - size < Len(values) THEN values[n - size + 1] ELSE Lowest]
           pair == [x \in Int \X Int |-> IF x[1] >= x[2] THEN x[1] ELSE x[2]]
           step == [n \in 1..size-1 |-> pair]
<1>1. MaxTree(values) = [size |-> size, best |-> best]
  BY DEF MaxTree
<1>2. size \in Nat /\ size > 0 /\ size >= Len(values) /\ \E f, l : Spanning(size, f, l)
  <2>1. Len(values) \in Nat
    OBVIOUS
  <2> QED BY <2>1, LeavesAreAPower
<1> HIDE DEF size
<1>3. leaf \in [size..2*size-1 -> Int]
  <2>1. ASSUME NEW n \in size..2*size-1
        PROVE  (IF n - size < Len(values) THEN values[n - size + 1] ELSE Lowest) \in Int
    <3>1. n - size < Len(values) => n - size + 1 \in 1..Len(values)
      BY <1>2
    <3> QED BY <3>1 DEF Lowest
  <2> QED BY <2>1
<1>4. pair \in [Int \X Int -> Int] /\ \A a, b \in Int : pair[<<a, b>>] = Max({a, b})
  <2>1. \A x \in Int \X Int : (IF x[1] >= x[2] THEN x[1] ELSE x[2]) \in Int
    OBVIOUS
  <2>2. ASSUME NEW a \in Int, NEW b \in Int
        PROVE  pair[<<a, b>>] = Max({a, b})
    <3>1. <<a, b>> \in Int \X Int /\ <<a, b>>[1] = a /\ <<a, b>>[2] = b
      OBVIOUS
    <3>2. pair[<<a, b>>] = IF a >= b THEN a ELSE b
      BY <3>1
    <3> QED BY <3>2, GreaterOfTwo
  <2> QED BY <2>1, <2>2
<1> HIDE DEF pair
<1>5. step \in [1..size-1 -> [Int \X Int -> Int]] /\ \A n \in 1..size-1 : step[n] = pair
  BY <1>4
<1> HIDE DEF leaf, step
<1>6. PICK f \in [1..2*size-1 -> Int] : Grown(f, size, Int, leaf, step)
  BY <1>2, <1>3, <1>5, TreesGrow
<1>7. Eq(f)
  <2>1. ASSUME NEW n \in 1..2*size-1
        PROVE  f[n] = IF n >= size THEN (IF n - size < Len(values) THEN values[n - size + 1] ELSE Lowest)
                      ELSE Max({f[2*n], f[2*n + 1]})
    <3>1. CASE n >= size
      <4>1. n \in size..2*size-1
        BY <1>2, <3>1
      <4> QED BY <1>6, <3>1, <4>1 DEF Grown, leaf
    <3>2. CASE ~ (n >= size)
      <4>1. n \in 1..size-1 /\ 2*n \in 1..2*size-1 /\ 2*n + 1 \in 1..2*size-1
        BY <1>2, <3>2
      <4>2. f[2*n] \in Int /\ f[2*n + 1] \in Int
        BY <4>1
      <4>3. f[n] = step[n][<<f[2*n], f[2*n + 1]>>]
        BY <1>6, <4>1, <4>2 DEF Grown
      <4> QED BY <1>4, <1>5, <3>2, <4>1, <4>2, <4>3
    <3> QED BY <3>1, <3>2
  <2> QED BY <1>6, <2>1
<1>8. Eq(best)
  <2> HIDE DEF Eq
  <2> QED BY <1>7
<1> HIDE DEF best
<1>9. Grown(best, size, Int, leaf, step)
  <2>1. \A n \in size..2*size-1 : best[n] = leaf[n]
    <3>1. \A n \in size..2*size-1 : n \in 1..2*size-1 /\ n >= size
      BY <1>2
    <3> QED BY <1>8, <3>1 DEF leaf
  <2>2. ASSUME NEW n \in 1..size-1, best[2*n] \in Int, best[2*n + 1] \in Int
        PROVE  best[n] = step[n][<<best[2*n], best[2*n + 1]>>]
    <3>1. n \in 1..2*size-1 /\ ~ (n >= size)
      BY <1>2
    <3>2. best[n] = Max({best[2*n], best[2*n + 1]})
      BY <1>8, <3>1
    <3> QED BY <1>4, <1>5, <2>2, <3>2
  <2> QED BY <2>1, <2>2 DEF Grown
<1>10. /\ \A n \in 1..2*size-1 : best[n] \in Int
       /\ \A n \in size..2*size-1 : best[n] = leaf[n]
       /\ \A n \in 1..size-1 : best[n] = step[n][<<best[2*n], best[2*n + 1]>>]
  <2> DEFINE S == Int
  <2>1. /\ leaf \in [size..2*size-1 -> S] /\ step \in [1..size-1 -> [S \X S -> S]]
        /\ Grown(best, size, S, leaf, step)
    BY <1>3, <1>5, <1>9
  <2> HIDE DEF S
  <2>2. AllOver(best, size, S, leaf, step)
    BY <1>2, <2>1, GrownAllOver
  <2> QED BY <2>2 DEF S, AllOver
<1>11. best \in [1..2*size-1 -> Int]
  <2>1. best = [n \in 1..2*size-1 |-> best[n]]
    BY <1>8
  <2> QED BY <1>10, <2>1
<1>12. ASSUME NEW n \in 1..size-1
       PROVE  best[n] = IF best[2*n] >= best[2*n + 1] THEN best[2*n] ELSE best[2*n + 1]
  <2>1. 2*n \in 1..2*size-1 /\ 2*n + 1 \in 1..2*size-1
    BY <1>2
  <2>2. best[2*n] \in Int /\ best[2*n + 1] \in Int
    BY <1>10, <2>1
  <2>3. best[n] = Max({best[2*n], best[2*n + 1]})
    <3>1. best[n] = pair[<<best[2*n], best[2*n + 1]>>]
      BY <1>5, <1>10
    <3> QED BY <1>4, <2>2, <3>1
  <2> QED BY <2>2, <2>3, GreaterOfTwo
<1>13. \A n \in size..2*size-1 :
         best[n] = IF n - size < Len(values) /\ n - size + 1 \notin {} THEN values[n - size + 1] ELSE Lowest
  BY <1>10 DEF leaf
<1> DEFINE t == [size |-> size, best |-> best]
<1>14. t.size = size /\ t.best = best /\ t = [size |-> size, best |-> best]
  OBVIOUS
<1>15. TreeOf(t, values, {})
  <2> HIDE DEF t
  <2> QED BY <1>2, <1>11, <1>12, <1>13, <1>14 DEF TreeOf
<1> QED BY <1>1, <1>15

\* The nodes above a leaf are those got by halving its number.
NodesOver(half, at) == {half[k] : k \in 1..at}

LEMMA HalvingClimbs ==
  ASSUME NEW size \in Nat, size > 0, NEW at \in size..2*size-1, NEW half,
         half = CHOOSE h : h = [k \in 0..at |-> IF k = 0 THEN at ELSE h[k - 1] \div 2]
  PROVE  /\ \A n \in NodesOver(half, at) : n \in 0..size-1
         /\ \A n \in 1..size-1 :
              {2*n, 2*n + 1} \cap (NodesOver(half, at) \cup {at}) # {} => n \in NodesOver(half, at)
<1> DEFINE Eq(h) == h = [k \in 0..at |-> IF k = 0 THEN at ELSE h[k - 1] \div 2]
           over == NodesOver(half, at)
           S == Nat
           st == [x \in (1..at) \X S |-> x[2] \div 2]
<1>0. at \in Nat /\ at > 0 /\ at < 2*size
  OBVIOUS
<1>1. st \in [(1..at) \X S -> S] /\ \A k \in 1..at, x \in S : st[<<k, x>>] = x \div 2
  <2>1. \A x \in (1..at) \X S : x[2] \div 2 \in S
    OBVIOUS
  <2>2. st \in [(1..at) \X S -> S]
    BY <2>1
  <2>3. ASSUME NEW k \in 1..at, NEW x \in S
        PROVE  st[<<k, x>>] = x \div 2
    <3>1. <<k, x>> \in (1..at) \X S /\ <<k, x>>[2] = x
      OBVIOUS
    <3> QED BY <3>1
  <2> QED BY <2>2, <2>3
<1>2. PICK h \in [0..at -> S] : RunsThrough(h, at, at, st)
  <2>1. at \in S
    BY <1>0
  <2> HIDE DEF st, S, Eq, over
  <2>2. \E h \in [0..at -> S] : RunsThrough(h, at, at, st)
    BY <1>0, <1>1, <2>1, LoopRuns
  <2> QED BY <2>2
<1>3. Eq(h)
  <2>1. ASSUME NEW k \in 0..at
        PROVE  h[k] = IF k = 0 THEN at ELSE h[k - 1] \div 2
    <3>1. CASE k = 0
      BY <1>2, <3>1 DEF RunsThrough
    <3>2. CASE k # 0
      <4>1. k \in 1..at /\ k - 1 \in 0..at
        BY <1>0, <3>2
      <4>2. h[k - 1] \in S /\ h[k] = st[<<k, h[k - 1]>>]
        BY <1>2, <4>1 DEF RunsThrough
      <4>3. st[<<k, h[k - 1]>>] = h[k - 1] \div 2
        <5> HIDE DEF st
        <5> QED BY <1>1, <4>1, <4>2
      <4> QED BY <3>2, <4>2, <4>3
    <3> QED BY <3>1, <3>2
  <2> QED BY <1>2, <2>1
<1>4. Eq(half)
  <2>1. half = CHOOSE x : Eq(x)
    OBVIOUS
  <2> HIDE DEF Eq
  <2> QED BY <1>3, <2>1
<1>5. half[0] = at /\ \A k \in 0..at-1 : half[k + 1] = half[k] \div 2
  <2>1. \A k \in 0..at : half[k] = IF k = 0 THEN at ELSE half[k - 1] \div 2
    BY <1>4
  <2>2. 0 \in 0..at /\ \A k \in 0..at-1 : k + 1 \in 0..at /\ k + 1 # 0 /\ (k + 1) - 1 = k
    BY <1>0
  <2> QED BY <2>1, <2>2
<1> DEFINE A == {k \in 0..at : /\ half[k] \in Nat
                               /\ half[k] = 0 \/ half[k] + k <= at
                               /\ k > 0 => half[k] <= size - 1}
<1>6. 0 \in A
  BY <1>0, <1>5
<1>7. ASSUME NEW k \in 0..at-1, k \in A
      PROVE  k + 1 \in A
  <2>1. half[k] \in Nat /\ half[k + 1] = half[k] \div 2 /\ k + 1 \in 0..at
    BY <1>0, <1>5, <1>7
  <2> DEFINE x == half[k]
  <2>2. x \div 2 \in Nat /\ x \div 2 <= x /\ (x = 0 => x \div 2 = 0) /\ (x > 0 => x \div 2 <= x - 1)
    <3>1. x \in Nat
      BY <2>1
    <3> HIDE DEF x
    <3> QED BY <3>1
  <2>3. x = 0 \/ x + k <= at
    BY <1>7
  <2>4. x \div 2 = 0 \/ (x \div 2) + (k + 1) <= at
    <3>1. x \in Nat /\ x \div 2 \in Nat
      BY <2>1, <2>2
    <3> HIDE DEF x
    <3> QED BY <2>2, <2>3, <3>1
  <2>5. x \div 2 <= size - 1
    <3>1. CASE k = 0
      <4>1. x = at
        BY <1>5, <3>1
      <4>2. at \div 2 <= size - 1
        BY <1>0
      <4> QED BY <4>1, <4>2
    <3>2. CASE k # 0
      <4>1. x <= size - 1 /\ x \in Nat /\ x \div 2 \in Nat
        <5>1. k > 0
          BY <3>2
        <5>2. x <= size - 1
          BY <1>7, <5>1
        <5> QED BY <2>1, <2>2, <5>2
      <4> HIDE DEF x
      <4> QED BY <2>2, <4>1
    <3> QED BY <3>1, <3>2
  <2> QED BY <2>1, <2>2, <2>4, <2>5
<1>8. \A k \in 0..at : /\ half[k] \in Nat
                       /\ half[k] = 0 \/ half[k] + k <= at
                       /\ k > 0 => half[k] <= size - 1
  <2>1. 0..at \subseteq A
    <3> HIDE DEF A
    <3> QED BY <1>0, <1>6, <1>7, UpTo
  <2> QED BY <2>1
<1>9. \A n \in over : n \in 0..size-1
  <2>1. \A k \in 1..at : half[k] \in 0..size-1
    <3>1. \A k \in 1..at : k \in 0..at /\ k > 0
      BY <1>0
    <3> QED BY <1>8, <3>1
  <2> QED BY <2>1 DEF NodesOver
<1>10. ASSUME NEW n \in 1..size-1, NEW c \in {2*n, 2*n + 1}, c \in over \cup {at}
       PROVE  n \in over
  <2>1. PICK k \in 0..at : c = half[k]
    <3>1. CASE c = at
      <4>1. 0 \in 0..at /\ c = half[0]
        BY <1>0, <1>5, <3>1
      <4> QED BY <4>1
    <3>2. CASE c \in over
      <4>1. PICK k \in 1..at : c = half[k]
        BY <3>2 DEF NodesOver
      <4>2. k \in 0..at
        BY <1>0
      <4> QED BY <4>1, <4>2
    <3> QED BY <1>10, <3>1, <3>2
  <2>2. c > 0 /\ c \div 2 = n
    BY <1>10
  <2>3. k # at
    <3>1. at \in 0..at /\ half[at] \in Nat /\ (half[at] = 0 \/ half[at] + at <= at)
      BY <1>0, <1>8
    <3>2. half[at] = 0
      BY <1>0, <3>1
    <3> QED BY <2>1, <2>2, <3>2
  <2>4. k \in 0..at-1 /\ k + 1 \in 1..at
    BY <1>0, <2>3
  <2>5. half[k + 1] = n
    BY <1>5, <2>1, <2>2, <2>4
  <2> QED BY <2>4, <2>5 DEF NodesOver
<1> QED BY <1>9, <1>10

\* The greater of two numbers, as a function of the pair.
Greater == [x \in Int \X Int |-> IF x[1] >= x[2] THEN x[1] ELSE x[2]]

LEMMA GreaterIsMax ==
  /\ Greater \in [Int \X Int -> Int]
  /\ \A a, b \in Int : Greater[<<a, b>>] = Max({a, b})
<1>1. \A x \in Int \X Int : (IF x[1] >= x[2] THEN x[1] ELSE x[2]) \in Int
  OBVIOUS
<1>2. ASSUME NEW a \in Int, NEW b \in Int
      PROVE  Greater[<<a, b>>] = Max({a, b})
  <2>1. <<a, b>> \in Int \X Int /\ <<a, b>>[1] = a /\ <<a, b>>[2] = b
    OBVIOUS
  <2>2. Greater[<<a, b>>] = IF a >= b THEN a ELSE b
    BY <2>1 DEF Greater
  <2> QED BY <2>2, GreaterOfTwo
<1> QED BY <1>1, <1>2 DEF Greater

\* A leaf taken out is out, and the tree is one of what is left.
LEMMA RemoveLeafIs ==
  ASSUME NEW values \in Seq(Int), NEW gone, NEW t, TreeOf(t, values, gone), NEW leaf \in 1..Len(values)
  PROVE  TreeOf(RemoveLeaf(t, leaf), values, gone \cup {leaf})
<1> DEFINE size == t.size
           at == size + leaf - 1
           half == CHOOSE h : h = [k \in 0..at |-> IF k = 0 THEN at ELSE h[k - 1] \div 2]
           over == NodesOver(half, at)
           Eq(b) == b = [n \in 1..2*size-1 |->
                           IF n = at THEN Lowest
                           ELSE IF n \in over THEN Max({b[2*n], b[2*n + 1]}) ELSE t.best[n]]
           best == CHOOSE b : Eq(b)
           least == [n \in size..2*size-1 |-> IF n = at THEN Lowest ELSE t.best[n]]
           step == [n \in 1..size-1 |-> IF n \in over THEN Greater ELSE [x \in Int \X Int |-> t.best[n]]]
<1>1. /\ t = [size |-> t.size, best |-> t.best]
      /\ size \in Nat /\ size > 0 /\ size >= Len(values) /\ Len(values) \in Nat
      /\ t.best \in [1..2*size-1 -> Int]
  BY DEF TreeOf
<1>2. at \in size..2*size-1 /\ leaf \in Nat /\ leaf >= 1
  BY <1>1
<1>2a. \A n \in 1..size-1 : n \in 1..2*size-1 /\ 2*n \in 1..2*size-1 /\ 2*n + 1 \in 1..2*size-1 /\ n # at
  <2>1. size \in Nat /\ size > 0 /\ at \in Nat /\ at >= size
    BY <1>1, <1>2
  <2> HIDE DEF size, at
  <2> QED BY <2>1
<1>2b. \A n \in size..2*size-1 : n \in 1..2*size-1 /\ (n = at <=> n - size + 1 = leaf)
  <2>1. size \in Nat /\ size > 0 /\ leaf \in Nat /\ at = size + leaf - 1
    BY <1>1, <1>2
  <2> HIDE DEF size, at
  <2> QED BY <2>1
<1>3. RemoveLeaf(t, leaf) = [size |-> size, best |-> best]
  <2>1. DOMAIN t.best = 1..2*size-1
    BY <1>1
  <2>2. RemoveLeaf(t, leaf) = [t EXCEPT !.best = best]
    BY <2>1 DEF RemoveLeaf, NodesOver
  <2> HIDE DEF best, size
  <2>3. [t EXCEPT !.best = best] = [size |-> t.size, best |-> best]
    <3> DEFINE q == [size |-> t.size, best |-> t.best]
    <3>1. [q EXCEPT !.best = best] = [size |-> t.size, best |-> best]
      OBVIOUS
    <3> QED BY <1>1, <3>1
  <2> QED BY <2>2, <2>3 DEF size
<1>4. /\ \A n \in over : n \in 0..size-1
      /\ \A n \in 1..size-1 : {2*n, 2*n + 1} \cap (over \cup {at}) # {} => n \in over
  <2> HIDE DEF size, at
  <2> QED BY <1>1, <1>2, HalvingClimbs
<1> HIDE DEF half, over
<1>5. least \in [size..2*size-1 -> Int]
  <2>1. ASSUME NEW n \in size..2*size-1
        PROVE  (IF n = at THEN Lowest ELSE t.best[n]) \in Int
    <3>1. n \in 1..2*size-1
      BY <1>1
    <3> QED BY <1>1, <3>1 DEF Lowest
  <2> QED BY <2>1
<1>6. /\ step \in [1..size-1 -> [Int \X Int -> Int]]
      /\ \A n \in 1..size-1 : n \in over => step[n] = Greater
      /\ \A n \in 1..size-1, a, b \in Int : n \notin over => step[n][<<a, b>>] = t.best[n]
  <2>1. ASSUME NEW n \in 1..size-1
        PROVE  [x \in Int \X Int |-> t.best[n]] \in [Int \X Int -> Int]
    <3>1. t.best[n] \in Int
      BY <1>1
    <3> QED BY <3>1
  <2>2. \A n \in 1..size-1 :
          (IF n \in over THEN Greater ELSE [x \in Int \X Int |-> t.best[n]]) \in [Int \X Int -> Int]
    BY <2>1, GreaterIsMax
  <2>3. ASSUME NEW n \in 1..size-1, NEW a \in Int, NEW b \in Int, n \notin over
        PROVE  step[n][<<a, b>>] = t.best[n]
    <3>1. step[n] = [x \in Int \X Int |-> t.best[n]] /\ <<a, b>> \in Int \X Int
      BY <2>3
    <3> HIDE DEF step
    <3> QED BY <3>1
  <2>4. \A n \in 1..size-1 : n \in over => step[n] = Greater
    OBVIOUS
  <2>5. step \in [1..size-1 -> [Int \X Int -> Int]]
    BY <2>2
  <2> HIDE DEF step
  <2> QED BY <2>3, <2>4, <2>5
<1> HIDE DEF least, step
<1>7. PICK f \in [1..2*size-1 -> Int] : Grown(f, size, Int, least, step)
  BY <1>1, <1>5, <1>6, TreesGrow
<1>8. Eq(f)
  <2>1. ASSUME NEW n \in 1..2*size-1
        PROVE  f[n] = IF n = at THEN Lowest
                      ELSE IF n \in over THEN Max({f[2*n], f[2*n + 1]}) ELSE t.best[n]
    <3>1. CASE n >= size
      <4>1. n \in size..2*size-1 /\ n \notin over
        BY <1>1, <1>4, <3>1
      <4> QED BY <1>7, <4>1 DEF Grown, least
    <3>2. CASE ~ (n >= size)
      <4>0. n \in 1..size-1
        BY <1>1, <3>2
      <4>1. n \in 1..size-1 /\ 2*n \in 1..2*size-1 /\ 2*n + 1 \in 1..2*size-1 /\ n # at
        BY <1>2a, <4>0
      <4>2. f[2*n] \in Int /\ f[2*n + 1] \in Int
        BY <4>1
      <4>3. f[n] = step[n][<<f[2*n], f[2*n + 1]>>]
        BY <1>7, <4>1, <4>2 DEF Grown
      <4>4. CASE n \in over
        <5>1. f[n] = Greater[<<f[2*n], f[2*n + 1]>>]
          BY <1>6, <4>1, <4>3, <4>4
        <5>2. f[n] = Max({f[2*n], f[2*n + 1]})
          BY <4>2, <5>1, GreaterIsMax
        <5> QED BY <4>1, <4>4, <5>2
      <4>5. CASE n \notin over
        BY <1>6, <4>1, <4>2, <4>3, <4>5
      <4> QED BY <4>4, <4>5
    <3> QED BY <3>1, <3>2
  <2> QED BY <1>7, <2>1
<1>9. Eq(best)
  <2> HIDE DEF Eq
  <2> QED BY <1>8
<1> HIDE DEF best
<1>10. \A n \in 1..2*size-1 :
         best[n] = IF n = at THEN Lowest
                   ELSE IF n \in over THEN Max({best[2*n], best[2*n + 1]}) ELSE t.best[n]
  BY <1>9
<1>11. Grown(best, size, Int, least, step)
  <2>1. \A n \in size..2*size-1 : best[n] = least[n]
    <3>1. \A n \in size..2*size-1 : n \in 1..2*size-1 /\ n \notin over
      BY <1>1, <1>4
    <3> QED BY <1>10, <3>1 DEF least
  <2>2. ASSUME NEW n \in 1..size-1, best[2*n] \in Int, best[2*n + 1] \in Int
        PROVE  best[n] = step[n][<<best[2*n], best[2*n + 1]>>]
    <3>1. n \in 1..2*size-1 /\ n # at
      BY <1>1, <1>2
    <3>2. CASE n \in over
      <4>1. best[n] = Max({best[2*n], best[2*n + 1]})
        BY <1>10, <3>1, <3>2
      <4>2. best[n] = Greater[<<best[2*n], best[2*n + 1]>>]
        BY <2>2, <4>1, GreaterIsMax
      <4> QED BY <1>6, <3>2, <4>2
    <3>3. CASE n \notin over
      <4>1. best[n] = t.best[n]
        BY <1>10, <3>1, <3>3
      <4> QED BY <1>6, <2>2, <3>3, <4>1
    <3> QED BY <3>2, <3>3
  <2> QED BY <2>1, <2>2 DEF Grown
<1>12. AllOver(best, size, Int, least, step)
  <2> DEFINE S == Int
  <2>1. /\ least \in [size..2*size-1 -> S] /\ step \in [1..size-1 -> [S \X S -> S]]
        /\ Grown(best, size, S, least, step)
    BY <1>5, <1>6, <1>11
  <2> HIDE DEF S, size
  <2>2. AllOver(best, size, S, least, step)
    BY <1>1, <2>1, GrownAllOver
  <2> QED BY <2>2 DEF S
<1>13. best \in [1..2*size-1 -> Int]
  <2>1. best = [n \in 1..2*size-1 |-> best[n]]
    BY <1>9
  <2>2. \A n \in 1..2*size-1 : best[n] \in Int
    BY <1>12 DEF AllOver
  <2> QED BY <2>1, <2>2
<1>14. ASSUME NEW n \in 1..size-1
       PROVE  best[n] = IF best[2*n] >= best[2*n + 1] THEN best[2*n] ELSE best[2*n + 1]
  <2>1. n \in 1..2*size-1 /\ n # at /\ 2*n \in 1..2*size-1 /\ 2*n + 1 \in 1..2*size-1
    BY <1>2a
  <2>2. CASE n \in over
    <3>1. best[2*n] \in Int /\ best[2*n + 1] \in Int
      BY <1>13, <2>1
    <3>2. best[n] = Max({best[2*n], best[2*n + 1]})
      BY <1>10, <2>1, <2>2
    <3> QED BY <3>1, <3>2, GreaterOfTwo
  <2>3. CASE n \notin over
    <3>1. \A c \in {2*n, 2*n + 1} : c \notin over /\ c # at
      BY <1>4, <2>3
    <3>2. best[n] = t.best[n] /\ best[2*n] = t.best[2*n] /\ best[2*n + 1] = t.best[2*n + 1]
      BY <1>10, <2>1, <2>3, <3>1
    <3>3. t.best[n] = IF t.best[2*n] >= t.best[2*n + 1] THEN t.best[2*n] ELSE t.best[2*n + 1]
      BY DEF TreeOf
    <3> QED BY <3>2, <3>3
  <2> QED BY <2>2, <2>3
<1>15. ASSUME NEW n \in size..2*size-1
       PROVE  best[n] = IF n - size < Len(values) /\ n - size + 1 \notin gone \cup {leaf}
                        THEN values[n - size + 1] ELSE Lowest
  <2>1. n \in 1..2*size-1 /\ n \notin over
    BY <1>1, <1>4
  <2>2. t.best[n] = IF n - size < Len(values) /\ n - size + 1 \notin gone
                    THEN values[n - size + 1] ELSE Lowest
    BY DEF TreeOf
  <2>3. n = at <=> n - size + 1 = leaf
    BY <1>2b
  <2>4. best[n] = IF n = at THEN Lowest ELSE t.best[n]
    BY <1>10, <2>1
  <2> HIDE DEF at, size
  <2> QED BY <2>2, <2>3, <2>4
<1> DEFINE u == [size |-> size, best |-> best]
<1>16. u.size = size /\ u.best = best /\ u = [size |-> size, best |-> best]
  OBVIOUS
<1>17. \E f1, l1 : Spanning(size, f1, l1)
  BY DEF TreeOf
<1>18. TreeOf(u, values, gone \cup {leaf})
  <2> HIDE DEF u, size, at
  <2> QED BY <1>1, <1>13, <1>14, <1>15, <1>16, <1>17 DEF TreeOf
<1> QED BY <1>3, <1>18

\* The first of some places, none being 0.
IsFirst(k, S) == IF S = {} THEN k = 0 ELSE k \in S /\ \A i \in S : k <= i

\* No leaf is above the nodes over it.
LEMMA TopsAreGreatest ==
  ASSUME NEW values, NEW gone, NEW t, TreeOf(t, values, gone), NEW f, NEW l, Spanning(t.size, f, l)
  PROVE  \A n \in 1..2*t.size-1 : \A m \in f[n]..l[n] : t.best[m] <= t.best[n]
<1> DEFINE size == t.size
           best == t.best
           A == {n \in 1..2*size-1 : \A m \in f[n]..l[n] : best[m] <= best[n]}
<1>1. size \in Nat /\ size > 0 /\ best \in [1..2*size-1 -> Int]
  BY DEF TreeOf
<1>2. \A n \in 1..2*size-1 : f[n] \in size..2*size-1 /\ l[n] \in size..2*size-1
  BY DEF Spanning
<1> HIDE DEF size, best
<1>3. ASSUME NEW n \in size..2*size-1
      PROVE  n \in A
  <2>1. f[n] = n /\ l[n] = n
    BY DEF Spanning, size
  <2>2. n \in 1..2*size-1 /\ best[n] \in Int
    BY <1>1
  <2> QED BY <2>1, <2>2
<1>4. ASSUME NEW n \in 1..size-1, 2*n \in A /\ 2*n + 1 \in A
      PROVE  n \in A
  <2>1. f[n] = f[2*n] /\ l[n] = l[2*n + 1] /\ f[2*n + 1] = l[2*n] + 1
    BY DEF Spanning, size
  <2>2. n \in 1..2*size-1 /\ 2*n \in 1..2*size-1 /\ 2*n + 1 \in 1..2*size-1
    BY <1>1
  <2>3. best[n] = IF best[2*n] >= best[2*n + 1] THEN best[2*n] ELSE best[2*n + 1]
    BY DEF TreeOf, size, best
  <2>4. best[2*n] \in Int /\ best[2*n + 1] \in Int /\ l[2*n] \in Nat /\ f[n] \in Nat /\ l[n] \in Nat
    <3>1. best[2*n] \in Int /\ best[2*n + 1] \in Int
      BY <1>1, <2>2
    <3>2. /\ f[n] \in size..2*size-1 /\ l[n] \in size..2*size-1 /\ l[2*n] \in size..2*size-1
      BY <1>2, <2>2
    <3>3. \A m \in size..2*size-1 : m \in Nat
      BY <1>1
    <3> HIDE DEF A
    <3> QED BY <3>1, <3>2, <3>3
  <2>5. ASSUME NEW m \in f[n]..l[n]
        PROVE  best[m] <= best[n]
    <3>1. m \in f[2*n]..l[2*n] \/ m \in f[2*n + 1]..l[2*n + 1]
      BY <2>1, <2>4
    <3>2. best[m] <= best[2*n] \/ best[m] <= best[2*n + 1]
      BY <1>4, <3>1
    <3>3. best[m] \in Int
      <4>1. m \in 1..2*size-1
        <5>1. f[n] \in size..2*size-1 /\ l[n] \in size..2*size-1
          BY <1>2, <2>2
        <5> QED BY <1>1, <5>1
      <4> QED BY <1>1, <4>1
    <3> QED BY <2>3, <2>4, <3>2, <3>3
  <2> QED BY <2>2, <2>5
<1>5. 1..2*size-1 \subseteq A
  <2> HIDE DEF A
  <2> QED BY <1>1, <1>3, <1>4, Upwards
<1> QED BY <1>5 DEF size, best

\* The descent that takes the left half where it can comes to the first leaf that will do.
LEMMA FirstAtLeastIs ==
  ASSUME NEW values \in Seq(Int), NEW gone, NEW t, TreeOf(t, values, gone), NEW needs \in Int, needs > Lowest
  PROVE  IsFirst(FirstAtLeast(t, needs), {i \in DOMAIN values \ gone : values[i] >= needs})
<1> DEFINE size == t.size
           best == t.best
           Eq(d) == d = [n \in 1..2*size-1 |->
                           IF n >= size THEN n - size + 1 ELSE d[EarlierHalf(t, n, needs)]]
           down == CHOOSE d : Eq(d)
           least == [n \in size..2*size-1 |-> n - size + 1]
           step == [n \in 1..size-1 |-> [x \in Int \X Int |-> IF best[2*n] >= needs THEN x[1] ELSE x[2]]]
<1>1. /\ size \in Nat /\ size > 0 /\ size >= Len(values) /\ Len(values) \in Nat
      /\ best \in [1..2*size-1 -> Int]
  BY DEF TreeOf
<1>2. PICK f, l : Spanning(size, f, l)
  BY DEF TreeOf
<1>3. FirstAtLeast(t, needs) = IF best[1] >= needs THEN down[1] ELSE 0
  BY DEF FirstAtLeast
<1>4. least \in [size..2*size-1 -> Int]
  <2>1. \A n \in size..2*size-1 : n - size + 1 \in Int
    BY <1>1
  <2> QED BY <2>1
<1>5. /\ step \in [1..size-1 -> [Int \X Int -> Int]]
      /\ \A n \in 1..size-1, a, b \in Int : step[n][<<a, b>>] = IF best[2*n] >= needs THEN a ELSE b
  <2>1. ASSUME NEW n \in 1..size-1
        PROVE  [x \in Int \X Int |-> IF best[2*n] >= needs THEN x[1] ELSE x[2]] \in [Int \X Int -> Int]
    OBVIOUS
  <2>2. step \in [1..size-1 -> [Int \X Int -> Int]]
    BY <2>1
  <2>3. ASSUME NEW n \in 1..size-1, NEW a \in Int, NEW b \in Int
        PROVE  step[n][<<a, b>>] = IF best[2*n] >= needs THEN a ELSE b
    <3>1. step[n] = [x \in Int \X Int |-> IF best[2*n] >= needs THEN x[1] ELSE x[2]]
      OBVIOUS
    <3>2. <<a, b>> \in Int \X Int /\ <<a, b>>[1] = a /\ <<a, b>>[2] = b
      OBVIOUS
    <3> HIDE DEF step, size, best
    <3> QED BY <3>1, <3>2
  <2> HIDE DEF step
  <2> QED BY <2>2, <2>3
<1> HIDE DEF least, step, size, best
<1>6. PICK g \in [1..2*size-1 -> Int] : Grown(g, size, Int, least, step)
  BY <1>1, <1>4, <1>5, TreesGrow
<1>7. \A n \in 1..size-1 :
        /\ n \in 1..2*size-1 /\ 2*n \in 1..2*size-1 /\ 2*n + 1 \in 1..2*size-1
        /\ EarlierHalf(t, n, needs) = IF best[2*n] >= needs THEN 2*n ELSE 2*n + 1
  <2>1. ASSUME NEW n \in 1..size-1
        PROVE  n \in 1..2*size-1 /\ 2*n \in 1..2*size-1 /\ 2*n + 1 \in 1..2*size-1
    <3> HIDE DEF Eq
    <3> QED BY <1>1
  <2>2. ASSUME NEW n \in 1..size-1
        PROVE  EarlierHalf(t, n, needs) = IF best[2*n] >= needs THEN 2*n ELSE 2*n + 1
    BY DEF EarlierHalf, best
  <2> QED BY <2>1, <2>2
<1>8. Eq(g)
  <2>1. ASSUME NEW n \in 1..2*size-1
        PROVE  g[n] = IF n >= size THEN n - size + 1 ELSE g[EarlierHalf(t, n, needs)]
    <3>1. CASE n >= size
      <4>1. n \in size..2*size-1
        BY <1>1, <3>1
      <4> QED BY <1>6, <3>1, <4>1 DEF Grown, least
    <3>2. CASE ~ (n >= size)
      <4>1. n \in 1..size-1
        BY <1>1, <3>2
      <4>2. g[2*n] \in Int /\ g[2*n + 1] \in Int
        BY <1>7, <4>1
      <4>3. g[n] = step[n][<<g[2*n], g[2*n + 1]>>]
        BY <1>6, <4>1, <4>2 DEF Grown
      <4>4. g[n] = IF best[2*n] >= needs THEN g[2*n] ELSE g[2*n + 1]
        BY <1>5, <4>1, <4>2, <4>3
      <4> QED BY <1>7, <3>2, <4>1, <4>4
    <3> QED BY <3>1, <3>2
  <2> QED BY <1>6, <2>1
<1>9. Eq(down)
  <2> HIDE DEF Eq
  <2> QED BY <1>8
<1> HIDE DEF down
<1>10. /\ \A n \in size..2*size-1 : n \in 1..2*size-1 /\ down[n] = n - size + 1
       /\ \A n \in 1..size-1 : down[n] = IF best[2*n] >= needs THEN down[2*n] ELSE down[2*n + 1]
  <2>1. \A n \in size..2*size-1 : n \in 1..2*size-1 /\ n >= size
    BY <1>1
  <2>2. \A n \in 1..size-1 : n \in 1..2*size-1 /\ ~ (n >= size)
    BY <1>1
  <2>3. \A n \in 1..2*size-1 : down[n] = IF n >= size THEN n - size + 1 ELSE down[EarlierHalf(t, n, needs)]
    BY <1>9
  <2> QED BY <1>7, <2>1, <2>2, <2>3
<1> DEFINE Good(n) == IF best[n] >= needs
                      THEN /\ down[n] \in Int /\ down[n] + size - 1 \in f[n]..l[n]
                           /\ best[down[n] + size - 1] >= needs
                           /\ \A m \in f[n]..(down[n] + size - 1)-1 : ~ (best[m] >= needs)
                      ELSE \A m \in f[n]..l[n] : ~ (best[m] >= needs)
           A == {n \in 1..2*size-1 : Good(n)}
<1>11. \A n \in 1..2*size-1 : f[n] \in size..2*size-1 /\ l[n] \in size..2*size-1
  BY <1>2 DEF Spanning
<1>12. ASSUME NEW n \in size..2*size-1
       PROVE  n \in A
  <2>1. f[n] = n /\ l[n] = n
    BY <1>2 DEF Spanning
  <2>2. n \in 1..2*size-1 /\ down[n] = n - size + 1 /\ n \in Int
    BY <1>1, <1>10
  <2>3. down[n] \in Int /\ down[n] + size - 1 = n
    BY <1>1, <2>2
  <2>4. Good(n)
    BY <2>1, <2>2, <2>3
  <2> QED BY <2>2, <2>4
<1>13. ASSUME NEW n \in 1..size-1, 2*n \in A /\ 2*n + 1 \in A
       PROVE  n \in A
  <2>1. f[n] = f[2*n] /\ l[n] = l[2*n + 1] /\ f[2*n + 1] = l[2*n] + 1
    BY <1>2 DEF Spanning
  <2>2. best[n] = IF best[2*n] >= best[2*n + 1] THEN best[2*n] ELSE best[2*n + 1]
    BY DEF TreeOf, size, best
  <2>3. /\ best[2*n] \in Int /\ best[2*n + 1] \in Int /\ f[2*n] \in Nat /\ l[2*n] \in Nat /\ f[2*n + 1] \in Nat
        /\ l[2*n + 1] \in Nat /\ f[2*n + 1] <= l[2*n + 1] /\ f[2*n] <= l[2*n]
    <3>1. 2*n \in 1..2*size-1 /\ 2*n + 1 \in 1..2*size-1
      BY <1>7
    <3>2. best[2*n] \in Int /\ best[2*n + 1] \in Int
      BY <1>1, <3>1
    <3>3. f[2*n + 1] <= l[2*n + 1] /\ f[2*n] <= l[2*n]
      BY <1>2, <3>1 DEF Spanning
    <3>4. /\ f[2*n] \in size..2*size-1 /\ l[2*n] \in size..2*size-1
          /\ f[2*n + 1] \in size..2*size-1 /\ l[2*n + 1] \in size..2*size-1
      BY <1>11, <3>1
    <3>5. \A m \in size..2*size-1 : m \in Nat
      BY <1>1
    <3> HIDE DEF A, Good
    <3> QED BY <3>2, <3>3, <3>4, <3>5
  <2>4. CASE best[2*n] >= needs
    <3>1. down[n] = down[2*n] /\ best[n] >= needs
      BY <1>10, <2>2, <2>3, <2>4
    <3>2. Good(2*n)
      BY <1>13
    <3>3. Good(n)
      <4>1. /\ down[2*n] \in Int /\ down[2*n] + size - 1 \in f[2*n]..l[2*n]
            /\ best[down[2*n] + size - 1] >= needs
            /\ \A m \in f[2*n]..(down[2*n] + size - 1)-1 : ~ (best[m] >= needs)
        BY <2>4, <3>2
      <4>2. l[2*n] <= l[n] /\ l[n] \in Nat /\ l[2*n] \in Nat /\ f[n] = f[2*n]
        BY <2>1, <2>3
      <4>3. down[2*n] + size - 1 \in f[n]..l[n]
        <5> DEFINE d == down[2*n] + size - 1
        <5>1. d \in f[2*n]..l[2*n]
          BY <4>1
        <5> HIDE DEF d
        <5>2. d \in f[n]..l[n]
          BY <2>3, <4>2, <5>1
        <5> QED BY <5>2 DEF d
      <4> QED BY <3>1, <4>1, <4>2, <4>3
    <3> HIDE DEF Good
    <3> QED BY <1>7, <3>3
  <2>5. CASE ~ (best[2*n] >= needs)
    <3>1. \A m \in f[2*n]..l[2*n] : ~ (best[m] >= needs)
      BY <1>13, <2>5
    <3>2. down[n] = down[2*n + 1] /\ (best[n] >= needs <=> best[2*n + 1] >= needs)
      BY <1>10, <2>2, <2>3, <2>5
    <3>3. Good(2*n + 1)
      BY <1>13
    <3>4. CASE best[2*n + 1] >= needs
      <4>1. /\ down[n] \in Int /\ down[n] + size - 1 \in f[2*n + 1]..l[2*n + 1]
            /\ best[down[n] + size - 1] >= needs
            /\ \A m \in f[2*n + 1]..(down[n] + size - 1)-1 : ~ (best[m] >= needs)
        BY <3>2, <3>3, <3>4
      <4>2. down[n] + size - 1 \in f[n]..l[n]
        <5> DEFINE d == down[n] + size - 1
        <5>1. d \in f[2*n + 1]..l[2*n + 1]
          BY <4>1
        <5> HIDE DEF d, A, Good
        <5>2. d \in f[n]..l[n]
          BY <2>1, <2>3, <5>1
        <5> QED BY <5>2 DEF d
      <4>3. ASSUME NEW m \in f[n]..(down[n] + size - 1)-1
            PROVE  ~ (best[m] >= needs)
        <5>1. m \in f[2*n]..l[2*n] \/ m \in f[2*n + 1]..(down[n] + size - 1)-1
          <6> DEFINE d == (down[n] + size - 1)-1
          <6>1. d \in Int
            BY <1>1, <4>1
          <6>2. m \in f[n]..d
            BY <4>3
          <6> HIDE DEF d, A, Good
          <6>3. m \in f[2*n]..l[2*n] \/ m \in f[2*n + 1]..d
            BY <2>1, <2>3, <6>1, <6>2
          <6> QED BY <6>3 DEF d
        <5> QED BY <3>1, <4>1, <5>1
      <4>4. Good(n)
        BY <3>2, <3>4, <4>1, <4>2, <4>3
      <4> HIDE DEF Good
      <4> QED BY <1>7, <4>4
    <3>5. CASE ~ (best[2*n + 1] >= needs)
      <4>1. \A m \in f[2*n + 1]..l[2*n + 1] : ~ (best[m] >= needs)
        BY <3>3, <3>5
      <4>2. ASSUME NEW m \in f[n]..l[n]
            PROVE  ~ (best[m] >= needs)
        <5>1. m \in f[2*n]..l[2*n] \/ m \in f[2*n + 1]..l[2*n + 1]
          BY <2>1, <2>3
        <5> QED BY <3>1, <4>1, <5>1
      <4>3. Good(n)
        BY <3>2, <3>5, <4>2
      <4> HIDE DEF Good
      <4> QED BY <1>7, <4>3
    <3> QED BY <3>4, <3>5
  <2> QED BY <2>4, <2>5
<1>14. Good(1) /\ f[1] = size /\ l[1] = 2*size - 1
  <2>1. 1..2*size-1 \subseteq A
    <3> HIDE DEF A
    <3> QED BY <1>1, <1>12, <1>13, Upwards
  <2>2. 1 \in 1..2*size-1
    BY <1>1
  <2> HIDE DEF Good
  <2> QED BY <1>2, <2>1, <2>2 DEF Spanning
<1> DEFINE open == {i \in DOMAIN values \ gone : values[i] >= needs}
<1>15. \A m \in size..2*size-1 : best[m] >= needs <=> m - size + 1 \in open
  <2>1. ASSUME NEW m \in size..2*size-1
        PROVE  best[m] >= needs <=> m - size + 1 \in open
    <3>1. best[m] = IF m - size < Len(values) /\ m - size + 1 \notin gone
                    THEN values[m - size + 1] ELSE Lowest
      BY DEF TreeOf, size, best
    <3>2. m - size < Len(values) <=> m - size + 1 \in DOMAIN values
      BY <1>1
    <3>3. ~ (Lowest >= needs)
      BY DEF Lowest
    <3> QED BY <3>1, <3>2, <3>3
  <2> QED BY <2>1
<1>16. \A i \in open : i + size - 1 \in size..2*size-1 /\ (i + size - 1) - size + 1 = i /\ i \in Nat
  <2>1. \A i \in open : i \in 1..Len(values)
    OBVIOUS
  <2> HIDE DEF open, A, Good
  <2>2. size \in Nat /\ size > 0 /\ size >= Len(values) /\ Len(values) \in Nat
    BY <1>1
  <2>3. ASSUME NEW i \in open
        PROVE  i + size - 1 \in size..2*size-1 /\ (i + size - 1) - size + 1 = i /\ i \in Nat
    <3>1. i \in 1..Len(values)
      BY <2>1
    <3> QED BY <2>2, <3>1
  <2> QED BY <2>3
<1> HIDE DEF open
<1>17. CASE best[1] >= needs
  <2> DEFINE k == down[1]
  <2>1. /\ k \in Int /\ k + size - 1 \in size..2*size-1 /\ best[k + size - 1] >= needs
        /\ \A m \in size..(k + size - 1)-1 : ~ (best[m] >= needs)
    BY <1>14, <1>17
  <2>2. (k + size - 1) - size + 1 = k
    <3>1. k \in Int /\ size \in Nat
      BY <1>1, <2>1
    <3> HIDE DEF k
    <3> QED BY <3>1
  <2>3. k \in open
    <3> HIDE DEF k
    <3> QED BY <1>15, <2>1, <2>2
  <2>4. ASSUME NEW i \in open
        PROVE  k <= i
    <3>1. best[i + size - 1] >= needs /\ i + size - 1 \in size..2*size-1 /\ i \in Nat
      BY <1>15, <1>16
    <3>2. ~ (i + size - 1 \in size..(k + size - 1)-1)
      BY <2>1, <3>1
    <3> HIDE DEF k
    <3> QED BY <1>1, <2>1, <3>1, <3>2
  <2>5. FirstAtLeast(t, needs) = k
    BY <1>3, <1>17
  <2> HIDE DEF k
  <2> QED BY <2>3, <2>4, <2>5 DEF IsFirst, open
<1>18. CASE ~ (best[1] >= needs)
  <2>1. \A m \in size..2*size-1 : ~ (best[m] >= needs)
    BY <1>14, <1>18
  <2>2. open = {}
    BY <1>15, <1>16, <2>1
  <2>3. FirstAtLeast(t, needs) = 0
    BY <1>3, <1>18
  <2> QED BY <2>2, <2>3 DEF IsFirst, open
<1> QED BY <1>17, <1>18

\* The descent that takes the right half once the left one has nothing comes to the first
\* leaf above the threshold that is not skipped.
LEMMA FirstAboveIs ==
  ASSUME NEW values \in Seq(Int), NEW t, TreeOf(t, values, {}),
         NEW threshold \in Int, threshold >= Lowest, NEW skip
  PROVE  IsFirst(FirstAbove(t, threshold, skip), {i \in DOMAIN values \ skip : values[i] > threshold})
<1> DEFINE size == t.size
           best == t.best
           Eq(d) == d = [n \in 1..2*size-1 |->
                           IF best[n] <= threshold THEN 0
                           ELSE IF n >= size
                                THEN (IF n - size + 1 \in skip THEN 0 ELSE n - size + 1)
                                ELSE IF d[2*n] # 0 THEN d[2*n] ELSE d[2*n + 1]]
           find == CHOOSE d : Eq(d)
           AtTheLeaf(n) == IF best[n] <= threshold \/ n - size + 1 \in skip THEN 0 ELSE n - size + 1
           AtANode(n, a, b) == IF best[n] <= threshold THEN 0 ELSE IF a # 0 THEN a ELSE b
           least == [n \in size..2*size-1 |-> AtTheLeaf(n)]
           step == [n \in 1..size-1 |-> [x \in Int \X Int |-> AtANode(n, x[1], x[2])]]
<1>1. /\ size \in Nat /\ size > 0 /\ size >= Len(values) /\ Len(values) \in Nat
      /\ best \in [1..2*size-1 -> Int]
  BY DEF TreeOf
<1>2. PICK f, l : Spanning(size, f, l)
  BY DEF TreeOf
<1>3. FirstAbove(t, threshold, skip) = find[1]
  BY DEF FirstAbove
<1>4. \A n \in 1..2*size-1 : \A m \in f[n]..l[n] : best[m] <= best[n]
  BY <1>2, TopsAreGreatest
<1>5. least \in [size..2*size-1 -> Int]
  <2>1. \A n \in size..2*size-1 : AtTheLeaf(n) \in Int
    <3> HIDE DEF best
    <3> QED BY <1>1
  <2> HIDE DEF AtTheLeaf
  <2> QED BY <2>1
<1>6. /\ step \in [1..size-1 -> [Int \X Int -> Int]]
      /\ \A n \in 1..size-1, a, b \in Int : step[n][<<a, b>>] = AtANode(n, a, b)
  <2>1. ASSUME NEW n \in 1..size-1
        PROVE  [x \in Int \X Int |-> AtANode(n, x[1], x[2])] \in [Int \X Int -> Int]
    OBVIOUS
  <2>2. step \in [1..size-1 -> [Int \X Int -> Int]]
    <3> HIDE DEF AtANode
    <3> QED BY <2>1
  <2>3. ASSUME NEW n \in 1..size-1, NEW a \in Int, NEW b \in Int
        PROVE  step[n][<<a, b>>] = AtANode(n, a, b)
    <3> HIDE DEF AtANode
    <3>1. step[n] = [x \in Int \X Int |-> AtANode(n, x[1], x[2])]
      OBVIOUS
    <3>2. <<a, b>> \in Int \X Int /\ <<a, b>>[1] = a /\ <<a, b>>[2] = b
      OBVIOUS
    <3> HIDE DEF step, size, best
    <3> QED BY <3>1, <3>2
  <2> HIDE DEF step
  <2> QED BY <2>2, <2>3
<1> HIDE DEF step, size, best, AtANode, AtTheLeaf
<1>7. PICK g \in [1..2*size-1 -> Int] : Grown(g, size, Int, least, step)
  <2> HIDE DEF least
  <2> QED BY <1>1, <1>5, <1>6, TreesGrow
<1>8. \A n \in 1..size-1 : n \in 1..2*size-1 /\ 2*n \in 1..2*size-1 /\ 2*n + 1 \in 1..2*size-1 /\ ~ (n >= size)
  BY <1>1
<1>9. Eq(g)
  <2>1. ASSUME NEW n \in 1..2*size-1
        PROVE  g[n] = IF best[n] <= threshold THEN 0
                      ELSE IF n >= size
                           THEN (IF n - size + 1 \in skip THEN 0 ELSE n - size + 1)
                           ELSE IF g[2*n] # 0 THEN g[2*n] ELSE g[2*n + 1]
    <3>1. CASE n >= size
      <4>1. n \in size..2*size-1
        BY <1>1, <3>1
      <4>2. g[n] = AtTheLeaf(n)
        BY <1>7, <4>1 DEF Grown
      <4> QED BY <3>1, <4>2 DEF AtTheLeaf
    <3>2. CASE ~ (n >= size)
      <4>1. n \in 1..size-1
        BY <1>1, <3>2
      <4>2. g[2*n] \in Int /\ g[2*n + 1] \in Int
        BY <1>8, <4>1
      <4>3. g[n] = step[n][<<g[2*n], g[2*n + 1]>>]
        BY <1>7, <4>1, <4>2 DEF Grown
      <4>4. g[n] = AtANode(n, g[2*n], g[2*n + 1])
        BY <1>6, <4>1, <4>2, <4>3
      <4> QED BY <3>2, <4>4 DEF AtANode
    <3> QED BY <3>1, <3>2
  <2> QED BY <1>7, <2>1
<1>10. Eq(find)
  <2> HIDE DEF Eq
  <2> QED BY <1>9
<1> HIDE DEF find
<1>11. /\ \A n \in size..2*size-1 : n \in 1..2*size-1 /\ find[n] = AtTheLeaf(n)
       /\ \A n \in 1..size-1 : find[n] = AtANode(n, find[2*n], find[2*n + 1])
  <2>1. \A n \in size..2*size-1 : n \in 1..2*size-1 /\ n >= size
    BY <1>1
  <2>2. \A n \in 1..2*size-1 :
          find[n] = IF best[n] <= threshold THEN 0
                    ELSE IF n >= size
                         THEN (IF n - size + 1 \in skip THEN 0 ELSE n - size + 1)
                         ELSE IF find[2*n] # 0 THEN find[2*n] ELSE find[2*n + 1]
    BY <1>10
  <2>3. \A n \in size..2*size-1 : find[n] = AtTheLeaf(n)
    BY <2>1, <2>2 DEF AtTheLeaf
  <2>4. \A n \in 1..size-1 : find[n] = AtANode(n, find[2*n], find[2*n + 1])
    BY <1>8, <2>2 DEF AtANode
  <2> QED BY <2>1, <2>3, <2>4
<1> HIDE DEF least
<1> DEFINE Takes(m) == best[m] > threshold /\ m - size + 1 \notin skip
           Good(n) == IF find[n] # 0
                      THEN /\ find[n] \in Int /\ find[n] + size - 1 \in f[n]..l[n]
                           /\ Takes(find[n] + size - 1)
                           /\ \A m \in f[n]..(find[n] + size - 1)-1 : ~ Takes(m)
                      ELSE \A m \in f[n]..l[n] : ~ Takes(m)
           A == {n \in 1..2*size-1 : Good(n)}
<1>12. \A n \in 1..2*size-1 : f[n] \in size..2*size-1 /\ l[n] \in size..2*size-1
  BY <1>2 DEF Spanning
<1>13. \A m \in size..2*size-1 : m \in 1..2*size-1 /\ m \in Nat /\ best[m] \in Int
  BY <1>1
<1>14. ASSUME NEW n \in size..2*size-1
       PROVE  n \in A
  <2>1. f[n] = n /\ l[n] = n
    BY <1>2 DEF Spanning
  <2>2. n \in 1..2*size-1 /\ find[n] = AtTheLeaf(n) /\ n \in Nat /\ best[n] \in Int /\ size \in Nat /\ n >= size
    BY <1>1, <1>11, <1>13
  <2>3. Takes(n) <=> ~ (best[n] <= threshold \/ n - size + 1 \in skip)
    BY <2>2
  <2>4. IF Takes(n) THEN find[n] = n - size + 1 ELSE find[n] = 0
    BY <2>2, <2>3 DEF AtTheLeaf
  <2> HIDE DEF Takes, A
  <2>5. CASE Takes(n)
    <3>1. find[n] = n - size + 1 /\ find[n] # 0 /\ find[n] \in Int /\ find[n] + size - 1 = n
      BY <2>2, <2>4, <2>5
    <3>2. \A m \in n..n-1 : FALSE
      BY <2>2
    <3>3. Good(n)
      BY <2>1, <2>2, <2>5, <3>1, <3>2
    <3> HIDE DEF Good
    <3> QED BY <2>2, <3>3 DEF A
  <2>6. CASE ~ Takes(n)
    <3>1. \A m \in n..n : m = n
      BY <2>2
    <3>2. Good(n)
      BY <2>1, <2>4, <2>6, <3>1
    <3> HIDE DEF Good
    <3> QED BY <2>2, <3>2 DEF A
  <2> QED BY <2>5, <2>6
<1>15. ASSUME NEW n \in 1..size-1, 2*n \in A /\ 2*n + 1 \in A
       PROVE  n \in A
  <2>1. f[n] = f[2*n] /\ l[n] = l[2*n + 1] /\ f[2*n + 1] = l[2*n] + 1
    BY <1>2 DEF Spanning
  <2>2. Good(2*n) /\ Good(2*n + 1)
    BY <1>15
  <2> HIDE DEF A, Good, Takes
  <2>3. /\ f[2*n] \in Nat /\ l[2*n] \in Nat /\ f[2*n + 1] \in Nat
        /\ l[2*n + 1] \in Nat /\ f[2*n + 1] <= l[2*n + 1] /\ f[2*n] <= l[2*n]
    <3>1. 2*n \in 1..2*size-1 /\ 2*n + 1 \in 1..2*size-1
      BY <1>8
    <3>2. f[2*n + 1] <= l[2*n + 1] /\ f[2*n] <= l[2*n]
      BY <1>2, <3>1 DEF Spanning
    <3>3. /\ f[2*n] \in size..2*size-1 /\ l[2*n] \in size..2*size-1
          /\ f[2*n + 1] \in size..2*size-1 /\ l[2*n + 1] \in size..2*size-1
      BY <1>12, <3>1
    <3> QED BY <1>13, <3>2, <3>3
  <2>4. find[n] = IF best[n] <= threshold THEN 0 ELSE IF find[2*n] # 0 THEN find[2*n] ELSE find[2*n + 1]
    BY <1>11 DEF AtANode
  <2>5. n \in 1..2*size-1 /\ best[n] \in Int /\ f[n] \in size..2*size-1 /\ l[n] \in size..2*size-1
    BY <1>1, <1>8, <1>12
  <2>6. CASE best[n] <= threshold
    <3>1. ASSUME NEW m \in f[n]..l[n]
          PROVE  ~ Takes(m)
      <4>1. best[m] <= best[n]
        BY <1>4, <2>5
      <4>2. best[m] \in Int
        <5>1. size \in Nat
          BY <1>1
        <5>2. f[n] \in Nat /\ l[n] \in Nat /\ size <= f[n] /\ l[n] <= 2*size-1
          <6>1. \A x \in size..2*size-1 : x \in Nat /\ size <= x /\ x <= 2*size-1
            BY <5>1
          <6> QED BY <2>5, <6>1
        <5>3. m \in Int /\ f[n] <= m /\ m <= l[n]
          BY <5>2
        <5>4. m \in size..2*size-1
          BY <5>1, <5>2, <5>3
        <5> QED BY <1>13, <5>4
      <4> QED BY <2>5, <2>6, <4>1, <4>2 DEF Takes
    <3>2. Good(n)
      BY <2>4, <2>6, <3>1 DEF Good
    <3> QED BY <2>5, <3>2 DEF A
  <2>7. CASE ~ (best[n] <= threshold) /\ find[2*n] # 0
    <3>1. find[n] = find[2*n]
      BY <2>4, <2>7
    <3>2. /\ find[2*n] \in Int /\ find[2*n] + size - 1 \in f[2*n]..l[2*n]
          /\ Takes(find[2*n] + size - 1)
          /\ \A m \in f[2*n]..(find[2*n] + size - 1)-1 : ~ Takes(m)
      BY <2>2, <2>7 DEF Good
    <3>3. find[2*n] + size - 1 \in f[n]..l[n]
      <4> DEFINE d == find[2*n] + size - 1
      <4>1. d \in f[2*n]..l[2*n]
        BY <3>2
      <4> HIDE DEF d
      <4>2. d \in f[n]..l[n]
        BY <2>1, <2>3, <4>1
      <4> QED BY <4>2 DEF d
    <3>4. Good(n)
      BY <2>1, <2>7, <3>1, <3>2, <3>3 DEF Good
    <3> QED BY <2>5, <3>4 DEF A
  <2>8. CASE ~ (best[n] <= threshold) /\ find[2*n] = 0
    <3>1. find[n] = find[2*n + 1]
      BY <2>4, <2>8
    <3>2. \A m \in f[2*n]..l[2*n] : ~ Takes(m)
      BY <2>2, <2>8 DEF Good
    <3>3. CASE find[2*n + 1] # 0
      <4> DEFINE d == find[2*n + 1] + size - 1
      <4>1. /\ find[2*n + 1] \in Int /\ d \in f[2*n + 1]..l[2*n + 1] /\ Takes(d)
            /\ \A m \in f[2*n + 1]..d-1 : ~ Takes(m)
        BY <2>2, <3>3 DEF Good
      <4> HIDE DEF d
      <4>2. d \in f[n]..l[n] /\ d \in Int
        BY <2>1, <2>3, <4>1
      <4>3. ASSUME NEW m \in f[n]..d-1
            PROVE  ~ Takes(m)
        <5>1. m \in f[2*n]..l[2*n] \/ m \in f[2*n + 1]..d-1
          BY <2>1, <2>3, <4>2
        <5> QED BY <3>2, <4>1, <5>1
      <4>4. Good(n)
        BY <3>1, <3>3, <4>1, <4>2, <4>3 DEF Good, d
      <4> QED BY <2>5, <4>4 DEF A
    <3>4. CASE find[2*n + 1] = 0
      <4>1. \A m \in f[2*n + 1]..l[2*n + 1] : ~ Takes(m)
        BY <2>2, <3>4 DEF Good
      <4>2. ASSUME NEW m \in f[n]..l[n]
            PROVE  ~ Takes(m)
        <5>1. m \in f[2*n]..l[2*n] \/ m \in f[2*n + 1]..l[2*n + 1]
          BY <2>1, <2>3
        <5> QED BY <3>2, <4>1, <5>1
      <4>3. Good(n)
        BY <3>1, <3>4, <4>2 DEF Good
      <4> QED BY <2>5, <4>3 DEF A
    <3> QED BY <3>3, <3>4
  <2> QED BY <2>6, <2>7, <2>8
<1>16. Good(1) /\ f[1] = size /\ l[1] = 2*size - 1
  <2>1. 1..2*size-1 \subseteq A
    <3> HIDE DEF A
    <3> QED BY <1>1, <1>14, <1>15, Upwards
  <2>2. 1 \in 1..2*size-1
    BY <1>1
  <2> HIDE DEF Good
  <2> QED BY <1>2, <2>1, <2>2 DEF Spanning
<1> DEFINE open == {i \in DOMAIN values \ skip : values[i] > threshold}
<1> HIDE DEF A
<1>17. \A m \in size..2*size-1 : Takes(m) <=> m - size + 1 \in open
  <2>1. ASSUME NEW m \in size..2*size-1
        PROVE  Takes(m) <=> m - size + 1 \in open
    <3>1. best[m] = IF m - size < Len(values) THEN values[m - size + 1] ELSE Lowest
      BY DEF TreeOf, size, best
    <3>2. m - size < Len(values) <=> m - size + 1 \in DOMAIN values
      BY <1>1
    <3>3. ~ (Lowest > threshold)
      BY DEF Lowest
    <3> HIDE DEF Good
    <3> QED BY <3>1, <3>2, <3>3
  <2> QED BY <2>1
<1>18. \A i \in open : i + size - 1 \in size..2*size-1 /\ (i + size - 1) - size + 1 = i /\ i \in Nat
  <2>1. \A i \in open : i \in 1..Len(values)
    OBVIOUS
  <2> HIDE DEF open, Good
  <2>2. size \in Nat /\ size > 0 /\ size >= Len(values) /\ Len(values) \in Nat
    BY <1>1
  <2>3. ASSUME NEW i \in open
        PROVE  i + size - 1 \in size..2*size-1 /\ (i + size - 1) - size + 1 = i /\ i \in Nat
    <3>1. i \in 1..Len(values)
      BY <2>1
    <3> QED BY <2>2, <3>1
  <2> QED BY <2>3
<1> HIDE DEF open
<1>19. CASE find[1] # 0
  <2> DEFINE k == find[1]
  <2>1. /\ k \in Int /\ k + size - 1 \in size..2*size-1 /\ Takes(k + size - 1)
        /\ \A m \in size..(k + size - 1)-1 : ~ Takes(m)
    BY <1>16, <1>19
  <2> HIDE DEF k, Takes, Good
  <2>2. (k + size - 1) - size + 1 = k
    BY <1>1, <2>1
  <2>3. k \in open
    BY <1>17, <2>1, <2>2
  <2>4. ASSUME NEW i \in open
        PROVE  k <= i
    <3>1. Takes(i + size - 1) /\ i + size - 1 \in size..2*size-1 /\ i \in Nat
      BY <1>17, <1>18
    <3>2. ~ (i + size - 1 \in size..(k + size - 1)-1)
      BY <2>1, <3>1
    <3> QED BY <1>1, <2>1, <3>1, <3>2
  <2>5. FirstAbove(t, threshold, skip) = k
    BY <1>3 DEF k
  <2> QED BY <2>3, <2>4, <2>5 DEF IsFirst, open
<1>20. CASE find[1] = 0
  <2>1. \A m \in size..2*size-1 : ~ Takes(m)
    BY <1>16, <1>20
  <2> HIDE DEF Takes, Good
  <2>2. open = {}
    BY <1>17, <1>18, <2>1
  <2> QED BY <1>3, <1>20, <2>2 DEF IsFirst, open
<1> QED BY <1>19, <1>20

-----------------------------------------------------------------------------
(* Swaps of ports.                                                         *)

\* A machine of drives, any of which may bear the name of another.
Entries == [node : Nat, link : [running : {NotRead}, drive : Rates, port : Rates]]

\* All of some places, in their order.
ListOf(s, J) ==
  /\ s \in Seq(J)
  /\ \A k \in J : \E i \in DOMAIN s : s[i] = k
  /\ \A i, j \in DOMAIN s : i < j => s[i] < s[j]

LEMMA AscendingLists ==
  ASSUME NEW n \in Nat, NEW J \in SUBSET (1..n)
  PROVE  ListOf(Ascending(J), J)
<1> DEFINE c == Cardinality(J)
           s == Ascending(J)
<1>1. c \in Nat
  BY PositionsAreFinite
<1>2. /\ \A k \in 1..c : Nth(J, k) \in J
      /\ \A i \in J : PlaceOf(J, i) \in 1..c /\ Nth(J, PlaceOf(J, i)) = i
      /\ \A k, l \in 1..c : k < l => Nth(J, k) < Nth(J, l)
  BY NthInOrder, RankGrows
<1>3. s = [k \in 1..c |-> Nth(J, k)]
  BY DEF Ascending
<1> HIDE DEF s, c
<1>4. s \in Seq(J) /\ DOMAIN s = 1..c /\ \A k \in 1..c : s[k] = Nth(J, k)
  BY <1>1, <1>2, <1>3
<1> QED BY <1>2, <1>4 DEF ListOf, s

\* The entries that hold more port than they use, and those of one speed among them.
LEMMA HoldersAre ==
  ASSUME NEW drives \in Seq(Entries)
  PROVE  /\ ListOf(Holders(drives), {k \in DOMAIN drives : drives[k].link.drive < drives[k].link.port})
         /\ \A d : ListOf(Members(drives, d), {h \in DOMAIN Holders(drives) : HolderAt(drives, h).link.drive = d})
<1> DEFINE J == {k \in DOMAIN drives : Slower(drives[k].link.drive, drives[k].link.port)}
<1>1. J \in SUBSET (1..Len(drives)) /\ Len(drives) \in Nat
  OBVIOUS
<1>2. J = {k \in DOMAIN drives : drives[k].link.drive < drives[k].link.port}
  <2>1. ASSUME NEW k \in DOMAIN drives
        PROVE  drives[k].link.drive \in Nat /\ drives[k].link.port \in Nat
    <3>1. drives[k] \in Entries
      OBVIOUS
    <3>2. drives[k].link.drive \in Rates /\ drives[k].link.port \in Rates
      BY <3>1 DEF Entries
    <3> QED BY <3>2, RatesAreRates
  <2>2. \A k \in DOMAIN drives : NotRead \notin {drives[k].link.drive, drives[k].link.port}
    BY <2>1 DEF NotRead
  <2> QED BY <2>2 DEF Slower
<1>3. Holders(drives) = Ascending(J)
  BY DEF Holders
<1> HIDE DEF J
<1>4. ListOf(Holders(drives), J)
  BY <1>1, <1>3, AscendingLists
<1>5. ASSUME NEW d
      PROVE  ListOf(Members(drives, d), {h \in DOMAIN Holders(drives) : HolderAt(drives, h).link.drive = d})
  <2> DEFINE M == {h \in DOMAIN Holders(drives) : HolderAt(drives, h).link.drive = d}
  <2>1. M \in SUBSET (1..Len(Holders(drives))) /\ Len(Holders(drives)) \in Nat
    BY <1>4 DEF ListOf
  <2>2. Members(drives, d) = Ascending(M)
    BY DEF Members
  <2> HIDE DEF M
  <2>3. ListOf(Members(drives, d), M)
    BY <2>1, <2>2, AscendingLists
  <2> QED BY <2>3 DEF M
<1> QED BY <1>2, <1>4, <1>5

\* An entry that holds more port than it uses is an entry of the machine.
LEMMA HoldersAreEntries ==
  ASSUME NEW drives \in Seq(Entries), NEW h \in DOMAIN Holders(drives)
  PROVE  /\ h \in Nat /\ h > 0 /\ Holders(drives)[h] \in DOMAIN drives
         /\ HolderAt(drives, h) \in Entries
         /\ HolderAt(drives, h).node \in Nat
         /\ HolderAt(drives, h).link.drive \in Nat /\ HolderAt(drives, h).link.port \in Nat
<1>1. ListOf(Holders(drives), {k \in DOMAIN drives : drives[k].link.drive < drives[k].link.port})
  BY HoldersAre
<1>2. h \in Nat /\ h > 0 /\ Holders(drives)[h] \in DOMAIN drives
  <2>1. Holders(drives) \in Seq(DOMAIN drives)
    <3>1. Holders(drives) \in Seq({k \in DOMAIN drives : drives[k].link.drive < drives[k].link.port})
      BY <1>1 DEF ListOf
    <3> QED BY <3>1
  <2>2. h \in 1..Len(Holders(drives))
    BY <2>1
  <2> QED BY <2>1, <2>2
<1>3. HolderAt(drives, h) \in Entries
  BY <1>2 DEF HolderAt
<1> QED BY <1>2, <1>3, RatesAreRates DEF Entries

\* The speeds the holders run at, the ports of the holders of one speed, and those of
\* them whose name has been promised.
SpeedsOf(drives) == {HolderAt(drives, h).link.drive : h \in DOMAIN Holders(drives)}
PortsOf(drives, d) == [i \in DOMAIN Members(drives, d) |-> HolderAt(drives, Members(drives, d)[i]).link.port]
GoneOf(drives, d, taken) == {i \in DOMAIN Members(drives, d) : HolderAt(drives, Members(drives, d)[i]).node \in taken}

\* A tree for each speed, over the holders whose names are not among those promised.
Indexes(drives, groups, taken) ==
  /\ groups = [d \in SpeedsOf(drives) |-> groups[d]]
  /\ \A d \in SpeedsOf(drives) : TreeOf(groups[d], PortsOf(drives, d), GoneOf(drives, d, taken))

LEMMA PortsAreRates ==
  ASSUME NEW drives \in Seq(Entries), NEW d
  PROVE  /\ PortsOf(drives, d) \in Seq(Int)
         /\ DOMAIN PortsOf(drives, d) = DOMAIN Members(drives, d)
         /\ \A i \in DOMAIN Members(drives, d) :
              /\ i \in Nat /\ i > 0
              /\ Members(drives, d)[i] \in DOMAIN Holders(drives)
              /\ HolderAt(drives, Members(drives, d)[i]).link.drive = d
              /\ PortsOf(drives, d)[i] = HolderAt(drives, Members(drives, d)[i]).link.port
<1> DEFINE m == Members(drives, d)
           M == {h \in DOMAIN Holders(drives) : HolderAt(drives, h).link.drive = d}
<1>1. ListOf(m, M)
  BY HoldersAre
<1>2. m \in Seq(M)
  BY <1>1 DEF ListOf
<1>3. \A h \in M : HolderAt(drives, h).link.port \in Int
  BY HoldersAreEntries
<1>4. \A i \in DOMAIN m : i \in Nat /\ i > 0 /\ m[i] \in M
  <2>1. \A i \in DOMAIN m : i \in 1..Len(m) /\ m[i] \in M
    <3> HIDE DEF m, M
    <3> QED BY <1>2
  <2> QED BY <2>1
<1>5. PortsOf(drives, d) = [i \in DOMAIN m |-> HolderAt(drives, m[i]).link.port]
  BY DEF PortsOf
<1> HIDE DEF m
<1>6. PortsOf(drives, d) \in Seq(Int)
  <2>1. DOMAIN m = 1..Len(m) /\ Len(m) \in Nat
    BY <1>2
  <2>2. \A i \in 1..Len(m) : HolderAt(drives, m[i]).link.port \in Int
    BY <1>3, <1>4, <2>1
  <2> QED BY <1>5, <2>1, <2>2
<1>7. DOMAIN PortsOf(drives, d) = DOMAIN m /\ \A i \in DOMAIN m : PortsOf(drives, d)[i] = HolderAt(drives, m[i]).link.port
  BY <1>5
<1> QED BY <1>4, <1>6, <1>7 DEF m

\* The trees made at the start leave nobody out.
LEMMA GroupsIndexAll ==
  ASSUME NEW drives \in Seq(Entries)
  PROVE  Indexes(drives, SwapGroups(drives), {})
<1> DEFINE g == SwapGroups(drives)
<1>1. g = [d \in SpeedsOf(drives) |-> MaxTree(PortsOf(drives, d))]
  BY DEF SwapGroups, SpeedsOf, PortsOf
<1> HIDE DEF g
<1>2. ASSUME NEW d \in SpeedsOf(drives)
      PROVE  TreeOf(g[d], PortsOf(drives, d), GoneOf(drives, d, {}))
  <2>1. TreeOf(MaxTree(PortsOf(drives, d)), PortsOf(drives, d), {})
    BY PortsAreRates, MaxTreeIs
  <2>2. GoneOf(drives, d, {}) = {}
    BY DEF GoneOf
  <2> QED BY <1>1, <2>1, <2>2
<1>3. g = [d \in SpeedsOf(drives) |-> g[d]]
  BY <1>1
<1> QED BY <1>2, <1>3 DEF Indexes, g

\* A loop that takes leaves out of a tree leaves a tree of the others.
LEMMA LeavesWithdrawn ==
  ASSUME NEW values \in Seq(Int), NEW gone, NEW t, TreeOf(t, values, gone), NEW out,
         NEW left, left = CHOOSE f : f = [i \in 0..Len(values) |->
                             IF i = 0 THEN t
                             ELSE IF i \in out THEN RemoveLeaf(f[i - 1], i) ELSE f[i - 1]]
  PROVE  TreeOf(left[Len(values)], values, gone \cup (out \cap DOMAIN values))
<1> DEFINE n == Len(values)
           Sizes == UNION {[1..2*s-1 -> Int] : s \in Nat}
           S == {r \in [size : Nat, best : Sizes] : \E away : TreeOf(r, values, away)}
           After(r, i) == IF i \in out THEN RemoveLeaf(r, i) ELSE r
           step == [x \in (1..n) \X S |-> After(x[2], x[1])]
           Eq(f) == f = [i \in 0..n |-> IF i = 0 THEN t
                                        ELSE IF i \in out THEN RemoveLeaf(f[i - 1], i) ELSE f[i - 1]]
<1>1. n \in Nat /\ DOMAIN values = 1..n
  OBVIOUS
<1>2. ASSUME NEW r, NEW away, TreeOf(r, values, away)
      PROVE  r \in S
  <2>1. r = [size |-> r.size, best |-> r.best] /\ r.size \in Nat /\ r.best \in [1..2*r.size-1 -> Int]
    BY <1>2 DEF TreeOf
  <2>2. r.best \in Sizes
    BY <2>1
  <2> HIDE DEF Sizes
  <2>3. r \in [size : Nat, best : Sizes]
    BY <2>1, <2>2
  <2> QED BY <1>2, <2>3
<1>3. \A i \in 1..n, r \in S : After(r, i) \in S
  <2>1. ASSUME NEW i \in 1..n, NEW r \in S
        PROVE  After(r, i) \in S
    <3>1. PICK away : TreeOf(r, values, away)
      OBVIOUS
    <3>2. TreeOf(RemoveLeaf(r, i), values, away \cup {i})
      BY <3>1, RemoveLeafIs
    <3>3. RemoveLeaf(r, i) \in S
      <4> HIDE DEF S
      <4> QED BY <1>2, <3>2
    <3> HIDE DEF S
    <3> QED BY <3>3
  <2> HIDE DEF S, After
  <2> QED BY <2>1
<1>4. t \in S
  <2> HIDE DEF S
  <2> QED BY <1>2
<1> HIDE DEF S
<1>5. step \in [(1..n) \X S -> S] /\ \A i \in 1..n, r \in S : step[<<i, r>>] = After(r, i)
  <2> HIDE DEF After, n
  <2>1. \A x \in (1..n) \X S : x[1] \in 1..n /\ x[2] \in S
    OBVIOUS
  <2>2. step \in [(1..n) \X S -> S]
    BY <1>3, <2>1
  <2>3. ASSUME NEW i \in 1..n, NEW r \in S
        PROVE  step[<<i, r>>] = After(r, i)
    <3>1. <<i, r>> \in (1..n) \X S /\ <<i, r>>[1] = i /\ <<i, r>>[2] = r
      OBVIOUS
    <3> QED BY <3>1
  <2> HIDE DEF step
  <2> QED BY <2>2, <2>3
<1> HIDE DEF step
<1>6. PICK f \in [0..n -> S] : RunsThrough(f, n, t, step)
  <2> HIDE DEF n
  <2> QED BY <1>1, <1>4, <1>5, LoopRuns
<1>7. \A k \in 1..n : k - 1 \in 0..n /\ k \in 0..n /\ k # 0
  BY <1>1
<1>8. \A k \in 1..n : f[k] = After(f[k - 1], k)
  <2> HIDE DEF n, After
  <2> QED BY <1>5, <1>6, <1>7 DEF RunsThrough
<1>9. Eq(f)
  <2>1. ASSUME NEW k \in 0..n
        PROVE  f[k] = IF k = 0 THEN t ELSE IF k \in out THEN RemoveLeaf(f[k - 1], k) ELSE f[k - 1]
    <3>1. CASE k = 0
      BY <1>6, <3>1 DEF RunsThrough
    <3>2. CASE k # 0
      <4>1. k \in 1..n
        BY <1>1, <3>2
      <4> HIDE DEF n
      <4> QED BY <1>8, <3>2, <4>1
    <3> QED BY <3>1, <3>2
  <2> HIDE DEF n
  <2> QED BY <1>6, <2>1
<1>10. Eq(left)
  <2> HIDE DEF Eq
  <2>1. left = CHOOSE g : Eq(g)
    BY DEF Eq
  <2> QED BY <1>9, <2>1
<1>11. left[0] = t /\ \A k \in 1..n : left[k] = After(left[k - 1], k)
  <2>1. 0 \in 0..n
    BY <1>1
  <2> HIDE DEF n
  <2> QED BY <1>7, <1>10, <2>1
<1> DEFINE A == {k \in 0..n : TreeOf(left[k], values, gone \cup (out \cap (1..k)))}
<1> HIDE DEF After
<1>12. 0 \in A
  <2>1. gone \cup (out \cap (1..0)) = gone /\ 0 \in 0..n
    BY <1>1
  <2> QED BY <1>11, <2>1
<1>13. ASSUME NEW k \in 0..n-1, k \in A
       PROVE  k + 1 \in A
  <2>1. k + 1 \in 1..n /\ (k + 1) - 1 = k /\ k + 1 \in 0..n /\ k + 1 \in 1..Len(values)
    BY <1>1
  <2>2. left[k + 1] = IF k + 1 \in out THEN RemoveLeaf(left[k], k + 1) ELSE left[k]
    <3>1. left[k + 1] = After(left[(k + 1) - 1], k + 1)
      <4> HIDE DEF n
      <4> QED BY <1>11, <2>1
    <3>2. left[k + 1] = After(left[k], k + 1)
      BY <2>1, <3>1
    <3> QED BY <3>2 DEF After
  <2>3. TreeOf(left[k], values, gone \cup (out \cap (1..k)))
    BY <1>13
  <2>4. CASE k + 1 \in out
    <3>1. TreeOf(RemoveLeaf(left[k], k + 1), values, (gone \cup (out \cap (1..k))) \cup {k + 1})
      BY <2>1, <2>3, RemoveLeafIs
    <3>2. (gone \cup (out \cap (1..k))) \cup {k + 1} = gone \cup (out \cap (1..k+1))
      <4>1. 1..k+1 = (1..k) \cup {k + 1}
        OBVIOUS
      <4> QED BY <2>4, <4>1
    <3> HIDE DEF n
    <3> QED BY <2>1, <2>2, <2>4, <3>1, <3>2
  <2>5. CASE k + 1 \notin out
    <3>1. out \cap (1..k) = out \cap (1..k+1)
      <4>1. 1..k+1 = (1..k) \cup {k + 1}
        OBVIOUS
      <4> QED BY <2>5, <4>1
    <3> HIDE DEF n
    <3> QED BY <2>1, <2>2, <2>3, <2>5, <3>1
  <2> QED BY <2>4, <2>5
<1>14. n \in A
  <2> HIDE DEF A
  <2>1. 0..n \subseteq A
    <3> HIDE DEF n
    <3> QED BY <1>1, <1>12, <1>13, UpTo
  <2>2. n \in 0..n
    BY <1>1
  <2> QED BY <2>1, <2>2
<1> QED BY <1>1, <1>14

\* A promise takes every entry of its name off the trees.
LEMMA WithdrawnIndexes ==
  ASSUME NEW drives \in Seq(Entries), NEW groups, NEW taken, Indexes(drives, groups, taken),
         NEW partner \in DOMAIN Holders(drives)
  PROVE  Indexes(drives, Withdrawn(drives, groups, partner), taken \cup {HolderAt(drives, partner).node})
<1> DEFINE w == Withdrawn(drives, groups, partner)
           name == HolderAt(drives, partner).node
           Left(d) == CHOOSE f : f = [i \in 0..Len(Members(drives, d)) |->
                         IF i = 0 THEN groups[d]
                         ELSE IF IsPromised(drives, Members(drives, d)[i], partner) THEN RemoveLeaf(f[i - 1], i)
                         ELSE f[i - 1]]
<1>1. DOMAIN groups = SpeedsOf(drives)
  <2>1. groups = [d \in SpeedsOf(drives) |-> groups[d]]
    BY DEF Indexes
  <2> QED BY <2>1
<1>2. w = [d \in SpeedsOf(drives) |-> Left(d)[Len(Members(drives, d))]]
  BY <1>1 DEF Withdrawn
<1>3. ASSUME NEW d \in SpeedsOf(drives)
      PROVE  TreeOf(Left(d)[Len(Members(drives, d))], PortsOf(drives, d), GoneOf(drives, d, taken \cup {name}))
  <2> DEFINE m == Members(drives, d)
             values == PortsOf(drives, d)
             gone == GoneOf(drives, d, taken)
             t == groups[d]
             out == {i \in DOMAIN m : IsPromised(drives, m[i], partner)}
             Eq(f) == f = [i \in 0..Len(m) |-> IF i = 0 THEN t
                                               ELSE IF i \in out THEN RemoveLeaf(f[i - 1], i) ELSE f[i - 1]]
             Was(f) == f = [i \in 0..Len(m) |->
                              IF i = 0 THEN t
                              ELSE IF IsPromised(drives, m[i], partner) THEN RemoveLeaf(f[i - 1], i)
                              ELSE f[i - 1]]
  <2>1. values \in Seq(Int) /\ DOMAIN values = DOMAIN m /\ m \in Seq(DOMAIN Holders(drives))
    <3>1. ListOf(m, {h \in DOMAIN Holders(drives) : HolderAt(drives, h).link.drive = d})
      BY HoldersAre
    <3> HIDE DEF m
    <3> QED BY <3>1, PortsAreRates DEF ListOf, m
  <2>2. TreeOf(t, values, gone)
    BY DEF Indexes
  <2> HIDE DEF m, values, t
  <2>3. Len(m) \in Nat /\ DOMAIN m = 1..Len(m) /\ Len(values) = Len(m)
    <3>1. DOMAIN values = 1..Len(values) /\ Len(values) \in Nat /\ DOMAIN m = 1..Len(m) /\ Len(m) \in Nat
      BY <2>1
    <3> DEFINE a == Len(values)
               b == Len(m)
    <3>2. a \in Nat /\ b \in Nat /\ 1..a = 1..b
      BY <2>1, <3>1
    <3> HIDE DEF a, b
    <3>3. a = b
      <4>1. b \in 1..b => b <= a
        BY <3>2
      <4>2. a \in 1..a => a <= b
        BY <3>2
      <4> QED BY <3>2, <4>1, <4>2
    <3> QED BY <3>1, <3>3 DEF a, b
  <2>4. ASSUME NEW f
        PROVE  Was(f) <=> Eq(f)
    <3>1. ASSUME NEW i \in 0..Len(m)
          PROVE  (IF i = 0 THEN t ELSE IF IsPromised(drives, m[i], partner) THEN RemoveLeaf(f[i - 1], i)
                                  ELSE f[i - 1])
                 = (IF i = 0 THEN t ELSE IF i \in out THEN RemoveLeaf(f[i - 1], i) ELSE f[i - 1])
      <4>1. i # 0 => i \in DOMAIN m
        BY <2>3
      <4> QED BY <4>1
    <3> HIDE DEF out
    <3> QED BY <3>1
  <2>5. (CHOOSE f : Was(f)) = (CHOOSE f : Eq(f))
    <3> HIDE DEF Was, Eq
    <3> QED BY <2>4
  <2> DEFINE left == CHOOSE f : Eq(f)
  <2>6. left = CHOOSE f : f = [i \in 0..Len(values) |-> IF i = 0 THEN t
                                   ELSE IF i \in out THEN RemoveLeaf(f[i - 1], i) ELSE f[i - 1]]
    <3> HIDE DEF out
    <3> QED BY <2>3
  <2>7. Left(d) = left
    <3>1. Left(d) = CHOOSE f : Was(f)
      BY DEF m, t
    <3> HIDE DEF Was, Eq
    <3> QED BY <2>5, <3>1
  <2> HIDE DEF left, out, gone, Left
  <2>8. TreeOf(left[Len(values)], values, gone \cup (out \cap DOMAIN values))
    BY <2>1, <2>2, <2>6, LeavesWithdrawn
  <2>9. gone \cup (out \cap DOMAIN values) = GoneOf(drives, d, taken \cup {name})
    BY <2>1 DEF gone, out, GoneOf, IsPromised, m
  <2> HIDE DEF name
  <2> QED BY <2>3, <2>7, <2>8, <2>9 DEF values, m
<1> HIDE DEF Left
<1>4. w = [d \in SpeedsOf(drives) |-> w[d]] /\ \A d \in SpeedsOf(drives) : w[d] = Left(d)[Len(Members(drives, d))]
  <2> HIDE DEF w
  <2> QED BY <1>2
<1> HIDE DEF w, name
<1>5. Indexes(drives, w, taken \cup {name})
  BY <1>3, <1>4 DEF Indexes
<1> QED BY <1>5 DEF w, name

\* The trees answer with the first holder that would do and is not promised yet.
OpenHolders(drives, taken, needs, offers) ==
  {h \in DOMAIN Holders(drives) : /\ HolderAt(drives, h).node \notin taken
                                  /\ HolderAt(drives, h).link.drive <= offers
                                  /\ HolderAt(drives, h).link.port >= needs}

LEMMA FirstFittingIs ==
  ASSUME NEW drives \in Seq(Entries), NEW groups, NEW taken, Indexes(drives, groups, taken),
         NEW needs \in Nat, NEW offers \in Nat
  PROVE  IsFirst(FirstFitting(drives, groups, needs, offers), OpenHolders(drives, taken, needs, offers))
<1> DEFINE D == {d \in DOMAIN groups : d <= offers /\ FirstAtLeast(groups[d], needs) # 0}
           answers == {Members(drives, d)[FirstAtLeast(groups[d], needs)] : d \in D}
           open == OpenHolders(drives, taken, needs, offers)
<1>1. FirstFitting(drives, groups, needs, offers) = IF answers = {} THEN 0 ELSE Min(answers)
  BY DEF FirstFitting
<1>2. DOMAIN groups = SpeedsOf(drives)
  <2>1. groups = [d \in SpeedsOf(drives) |-> groups[d]]
    BY DEF Indexes
  <2> QED BY <2>1
<1>3. ASSUME NEW d \in SpeedsOf(drives)
      PROVE  IsFirst(FirstAtLeast(groups[d], needs),
                     {i \in DOMAIN PortsOf(drives, d) \ GoneOf(drives, d, taken) : PortsOf(drives, d)[i] >= needs})
  <2>1. TreeOf(groups[d], PortsOf(drives, d), GoneOf(drives, d, taken)) /\ PortsOf(drives, d) \in Seq(Int)
    BY PortsAreRates DEF Indexes
  <2>2. needs \in Int /\ needs > Lowest
    BY DEF Lowest
  <2> QED BY <2>1, <2>2, FirstAtLeastIs
<1> DEFINE Fitted(d) == {i \in DOMAIN Members(drives, d) :
                           /\ HolderAt(drives, Members(drives, d)[i]).node \notin taken
                           /\ HolderAt(drives, Members(drives, d)[i]).link.port >= needs}
<1>4. ASSUME NEW d \in SpeedsOf(drives)
      PROVE  IsFirst(FirstAtLeast(groups[d], needs), Fitted(d))
  <2>1. {i \in DOMAIN PortsOf(drives, d) \ GoneOf(drives, d, taken) : PortsOf(drives, d)[i] >= needs} = Fitted(d)
    BY PortsAreRates DEF GoneOf
  <2> HIDE DEF Fitted
  <2> QED BY <1>3, <2>1
<1>5. ASSUME NEW d \in D
      PROVE  Members(drives, d)[FirstAtLeast(groups[d], needs)] \in open
  <2> DEFINE i == FirstAtLeast(groups[d], needs)
  <2>1. d \in SpeedsOf(drives) /\ d <= offers /\ i # 0
    BY <1>2
  <2>2. i \in Fitted(d)
    <3> HIDE DEF Fitted
    <3> QED BY <1>4, <2>1 DEF IsFirst
  <2> HIDE DEF i
  <2>3. /\ i \in DOMAIN Members(drives, d)
        /\ HolderAt(drives, Members(drives, d)[i]).node \notin taken
        /\ HolderAt(drives, Members(drives, d)[i]).link.port >= needs
    BY <2>2
  <2>4. /\ Members(drives, d)[i] \in DOMAIN Holders(drives)
        /\ HolderAt(drives, Members(drives, d)[i]).link.drive = d
    BY <2>3, PortsAreRates
  <2>5. Members(drives, d)[i] \in open
    BY <2>1, <2>3, <2>4 DEF OpenHolders
  <2> QED BY <2>5 DEF i
<1>6. ASSUME NEW h \in open
      PROVE  \E d \in D : Members(drives, d)[FirstAtLeast(groups[d], needs)] <= h
  <2> DEFINE d == HolderAt(drives, h).link.drive
             i == FirstAtLeast(groups[d], needs)
             m == Members(drives, d)
  <2>1. /\ h \in DOMAIN Holders(drives) /\ HolderAt(drives, h).node \notin taken
        /\ d <= offers /\ HolderAt(drives, h).link.port >= needs
    BY DEF OpenHolders
  <2>2. d \in SpeedsOf(drives)
    BY <2>1 DEF SpeedsOf
  <2>3. ListOf(m, {x \in DOMAIN Holders(drives) : HolderAt(drives, x).link.drive = d})
    BY HoldersAre
  <2>4. h \in {x \in DOMAIN Holders(drives) : HolderAt(drives, x).link.drive = d}
    BY <2>1
  <2>5. PICK j \in DOMAIN m : m[j] = h
    <3> HIDE DEF m, d
    <3> QED BY <2>3, <2>4 DEF ListOf
  <2>6. j \in Fitted(d)
    BY <2>1, <2>5
  <2>7. IsFirst(i, Fitted(d))
    <3> HIDE DEF Fitted, d
    <3> QED BY <1>4, <2>2
  <2>8. i \in Fitted(d) /\ i <= j
    <3> HIDE DEF Fitted, d, i
    <3> QED BY <2>6, <2>7 DEF IsFirst
  <2>9. i \in DOMAIN m /\ i \in Nat /\ i > 0 /\ m[i] \in DOMAIN Holders(drives) /\ j \in Nat
    <3>1. i \in DOMAIN m
      BY <2>8
    <3> HIDE DEF i, d, Fitted
    <3> QED BY <2>5, <3>1, PortsAreRates
  <2>10. m[i] <= h
    <3>1. \A x, y \in DOMAIN m : x < y => m[x] < m[y]
      <4> HIDE DEF m, d
      <4> QED BY <2>3 DEF ListOf
    <3>2. m[i] \in Nat /\ h \in Nat
      BY <2>1, <2>9, HoldersAreEntries
    <3> HIDE DEF i, d, m, Fitted
    <3> QED BY <2>5, <2>8, <2>9, <3>1, <3>2
  <2>11. d \in D
    <3>1. d \in DOMAIN groups /\ d <= offers /\ i # 0
      BY <1>2, <2>1, <2>2, <2>9
    <3> HIDE DEF d
    <3> QED BY <3>1 DEF i
  <2> HIDE DEF d, D
  <2> QED BY <2>10, <2>11 DEF i, m
<1> HIDE DEF D
<1>7. answers \subseteq open
  <2> HIDE DEF open
  <2> QED BY <1>5
<1>8. open \in SUBSET (Nat \ {0})
  <2>1. \A h \in open : h \in DOMAIN Holders(drives)
    BY DEF OpenHolders
  <2>2. \A h \in open : h \in Nat /\ h > 0
    BY <2>1, HoldersAreEntries
  <2> HIDE DEF open
  <2> QED BY <2>2
<1>9. \A h \in open : \E a \in answers : a <= h
  <2> HIDE DEF open
  <2> QED BY <1>6
<1> HIDE DEF open, answers
<1>10. CASE answers = {}
  <2>1. open = {}
    BY <1>9, <1>10
  <2> QED BY <1>1, <1>10, <2>1 DEF IsFirst, open
<1>11. CASE answers # {}
  <2>1. Min(answers) \in answers /\ \A a \in answers : Min(answers) <= a
    <3>1. answers \in SUBSET (Nat \ {0})
      BY <1>7, <1>8
    <3> QED BY <1>11, <3>1, LeastOfSome
  <2> DEFINE k == Min(answers)
  <2>2. k \in open /\ \A h \in open : k <= h
    <3>1. k \in open /\ k \in Nat /\ \A a \in answers : a \in Nat /\ k <= a
      BY <1>7, <1>8, <2>1
    <3> HIDE DEF k
    <3>2. ASSUME NEW h \in open
          PROVE  k <= h
      <4>1. PICK a \in answers : a <= h
        BY <1>9
      <4>2. a \in Nat /\ h \in Nat /\ k \in Nat /\ k <= a
        BY <1>8, <3>1
      <4> QED BY <4>1, <4>2
    <3> QED BY <3>1, <3>2
  <2>3. open # {} /\ FirstFitting(drives, groups, needs, offers) = k
    BY <1>1, <1>11, <2>2
  <2> HIDE DEF k
  <2> QED BY <2>2, <2>3 DEF IsFirst, open
<1> QED BY <1>10, <1>11

\* What is found for the k-th entry is the first place that would do for it.
FindsTheFirst(drives, k, taken, found) ==
  /\ found = 0 <=> Fitting(drives, k, taken) = {}
  /\ found # 0 => /\ found \in DOMAIN Holders(drives)
                  /\ Holders(drives)[found] = Min(Fitting(drives, k, taken))
                  /\ Min(Fitting(drives, k, taken)) \in Fitting(drives, k, taken)

LEMMA FittingIsOpen ==
  ASSUME NEW drives \in Seq(Entries), NEW k \in DOMAIN drives, NEW taken, NEW found,
         IsFirst(found, OpenHolders(drives, taken, drives[k].link.drive, drives[k].link.port))
  PROVE  FindsTheFirst(drives, k, taken, found)
<1> DEFINE H == Holders(drives)
           J == {j \in DOMAIN drives : drives[j].link.drive < drives[j].link.port}
           fit == Fitting(drives, k, taken)
           open == OpenHolders(drives, taken, drives[k].link.drive, drives[k].link.port)
<1>1. ListOf(H, J)
  BY HoldersAre
<1>2. ASSUME NEW j \in DOMAIN drives
      PROVE  drives[j].link.drive \in Nat /\ drives[j].link.port \in Nat /\ j \in Nat /\ j > 0
  <2>1. drives[j] \in Entries /\ j \in 1..Len(drives) /\ Len(drives) \in Nat
    OBVIOUS
  <2>2. drives[j].link.drive \in Rates /\ drives[j].link.port \in Rates
    BY <2>1 DEF Entries
  <2>3. drives[j].link.drive \in Nat /\ drives[j].link.port \in Nat
    BY <2>2, RatesAreRates
  <2>4. j \in Nat /\ j > 0
    BY <2>1
  <2> QED BY <2>3, <2>4
<1>3. fit = {j \in J : /\ drives[j].node \notin taken
                       /\ drives[j].link.drive <= drives[k].link.port
                       /\ drives[j].link.port >= drives[k].link.drive}
  <2>1. ASSUME NEW j \in DOMAIN drives
        PROVE  Slower(drives[j].link.drive, drives[j].link.port) <=> drives[j].link.drive < drives[j].link.port
    <3>1. NotRead \notin {drives[j].link.drive, drives[j].link.port}
      BY <1>2 DEF NotRead
    <3> QED BY <3>1 DEF Slower
  <2> QED BY <2>1 DEF Fitting
<1>4. ASSUME NEW h \in DOMAIN H
      PROVE  H[h] \in J /\ h \in Nat /\ h > 0 /\ (h \in open <=> H[h] \in fit)
  <2>1. H \in Seq(J)
    BY <1>1 DEF ListOf
  <2>2. H[h] \in J /\ h \in 1..Len(H)
    <3> HIDE DEF H, J
    <3> QED BY <2>1
  <2>3. h \in open <=> H[h] \in fit
    <3>1. HolderAt(drives, h) = drives[H[h]]
      BY DEF HolderAt
    <3> HIDE DEF H, J, fit
    <3> QED BY <1>3, <2>2, <3>1 DEF OpenHolders, H
  <2> QED BY <2>2, <2>3
<1>5. \A j \in fit : \E h \in open : H[h] = j
  <2>1. \A j \in J : \E h \in DOMAIN H : H[h] = j
    <3> HIDE DEF H, J
    <3> QED BY <1>1 DEF ListOf
  <2>2. \A j \in fit : j \in J
    BY <1>3
  <2> HIDE DEF H, J, fit, open
  <2> QED BY <1>4, <2>1, <2>2
<1>6. \A h \in open : h \in DOMAIN H
  BY DEF OpenHolders
<1>7. \A h, i \in DOMAIN H : h < i => H[h] < H[i]
  <2> HIDE DEF H, J
  <2> QED BY <1>1 DEF ListOf
<1>8. fit \in SUBSET (Nat \ {0}) /\ \A j \in J : j \in Nat
  BY <1>2, <1>3
<1> HIDE DEF H, J, fit, open
<1>9. IsFirst(found, open)
  BY DEF open
<1>10. CASE open = {}
  <2>1. fit = {} /\ found = 0
    BY <1>5, <1>9, <1>10 DEF IsFirst
  <2> QED BY <2>1 DEF fit, FindsTheFirst
<1>11. CASE open # {}
  <2>1. found \in open /\ \A h \in open : found <= h
    BY <1>9, <1>11 DEF IsFirst
  <2>2. found \in DOMAIN H /\ found \in Nat /\ found # 0 /\ H[found] \in fit
    BY <1>4, <1>6, <2>1
  <2>3. ASSUME NEW j \in fit
        PROVE  H[found] <= j
    <3>1. PICK h \in open : H[h] = j
      BY <1>5
    <3>2. found <= h /\ h \in DOMAIN H /\ h \in Nat
      BY <1>4, <1>6, <2>1
    <3>3. H[found] \in Nat /\ H[h] \in Nat
      BY <1>4, <1>8, <2>2, <3>2
    <3> QED BY <1>7, <2>2, <3>1, <3>2, <3>3
  <2>4. Min(fit) \in fit /\ \A j \in fit : Min(fit) <= j
    <3>1. fit # {}
      BY <2>2
    <3> QED BY <1>8, <3>1, LeastOfSome
  <2>5. H[found] = Min(fit)
    <3>1. H[found] <= Min(fit) /\ Min(fit) <= H[found] /\ H[found] \in Nat /\ Min(fit) \in Nat
      BY <1>8, <2>2, <2>3, <2>4
    <3> QED BY <3>1
  <2>6. fit # {} /\ found # 0 /\ found \in DOMAIN H /\ H[found] = Min(fit) /\ Min(fit) \in fit
    BY <2>2, <2>4, <2>5
  <2> QED BY <2>6 DEF fit, H, FindsTheFirst
<1> QED BY <1>10, <1>11

\* No name is promised twice, and what is promised is kept in mind.
Promised(drives, swaps, taken) ==
  /\ swaps \in Seq((DOMAIN drives) \X (DOMAIN drives))
  /\ \A i \in DOMAIN swaps : drives[swaps[i][2]].node \in taken
  /\ \A i, j \in DOMAIN swaps : i # j => drives[swaps[i][2]].node # drives[swaps[j][2]].node

\* One more swap with a drive whose name was not promised is one more name promised.
LEMMA PromisesGrow ==
  ASSUME NEW drives, NEW swaps, NEW taken, Promised(drives, swaps, taken),
         NEW k \in DOMAIN drives, NEW j \in DOMAIN drives, drives[j].node \notin taken
  PROVE  Promised(drives, Append(swaps, <<k, j>>), taken \cup {drives[j].node})
<1> DEFINE n == Len(swaps)
           P == (DOMAIN drives) \X (DOMAIN drives)
           s == Append(swaps, <<k, j>>)
<1>1. swaps \in Seq(P) /\ <<k, j>> \in P /\ <<k, j>>[2] = j /\ n \in Nat /\ DOMAIN swaps = 1..n
  BY DEF Promised
<1>2. s \in Seq(P) /\ DOMAIN s = 1..n+1 /\ s[n + 1] = <<k, j>> /\ \A i \in 1..n : s[i] = swaps[i]
  <2> HIDE DEF P
  <2> QED BY <1>1
<1> HIDE DEF s, n
<1>3. \A i \in 1..n+1 : i \in 1..n \/ i = n + 1
  BY <1>1
<1>4. \A i \in 1..n : drives[s[i][2]].node \in taken
  BY <1>1, <1>2 DEF Promised
<1>5. drives[s[n + 1][2]].node = drives[j].node
  BY <1>1, <1>2
<1>6. \A i \in DOMAIN s : drives[s[i][2]].node \in taken \cup {drives[j].node}
  BY <1>2, <1>3, <1>4, <1>5
<1>7. ASSUME NEW a \in DOMAIN s, NEW b \in DOMAIN s, a # b
      PROVE  drives[s[a][2]].node # drives[s[b][2]].node
  <2>1. CASE a \in 1..n /\ b \in 1..n
    BY <1>1, <1>2, <1>7, <2>1 DEF Promised
  <2>2. CASE a \in 1..n /\ b = n + 1
    BY <1>4, <1>5, <2>2
  <2>3. CASE a = n + 1 /\ b \in 1..n
    BY <1>4, <1>5, <2>3
  <2> QED BY <1>2, <1>3, <1>7, <2>1, <2>2, <2>3
<1> QED BY <1>2, <1>6, <1>7 DEF Promised, s

\* How far the swaps have come: those made, the trees, and the names that are promised.
Trees == [size : Nat, best : UNION {[1..2*s-1 -> Int] : s \in Nat}]
Walks(drives) ==
  {w \in [swaps : Seq((DOMAIN drives) \X (DOMAIN drives)), groups : [SpeedsOf(drives) -> Trees], taken : SUBSET Nat] :
     Indexes(drives, w.groups, w.taken) /\ Promised(drives, w.swaps, w.taken)}

Onward(drives, w, k) ==
  LET found == FirstFitting(drives, w.groups, drives[k].link.drive, drives[k].link.port)
  IN  IF ~IsPortLimited(drives[k].link) \/ found = 0 THEN w
      ELSE [swaps  |-> Append(w.swaps, <<k, Holders(drives)[found]>>),
            groups |-> Withdrawn(drives, w.groups, found),
            taken  |-> w.taken \cup {drives[Holders(drives)[found]].node}]

BySwaps(w) == [swaps |-> w.swaps, groups |-> w.groups]
ByNames(w) == [swaps |-> w.swaps, taken |-> w.taken]

LEMMA WalksAre ==
  ASSUME NEW drives, NEW swaps, NEW groups, NEW taken \in SUBSET Nat,
         Indexes(drives, groups, taken), Promised(drives, swaps, taken)
  PROVE  [swaps |-> swaps, groups |-> groups, taken |-> taken] \in Walks(drives)
<1>1. groups \in [SpeedsOf(drives) -> Trees]
  <2>1. ASSUME NEW d \in SpeedsOf(drives)
        PROVE  groups[d] \in Trees
    <3> DEFINE t == groups[d]
    <3>1. t = [size |-> t.size, best |-> t.best] /\ t.size \in Nat /\ t.best \in [1..2*t.size-1 -> Int]
      BY DEF Indexes, TreeOf
    <3> HIDE DEF t
    <3>2. t.best \in UNION {[1..2*s-1 -> Int] : s \in Nat}
      BY <3>1
    <3>3. t \in Trees
      <4> DEFINE B == UNION {[1..2*s-1 -> Int] : s \in Nat}
      <4> HIDE DEF B
      <4>1. t.best \in B => t \in [size : Nat, best : B]
        BY <3>1
      <4> QED BY <3>2, <4>1 DEF Trees, B
    <3> QED BY <3>3 DEF t
  <2>2. groups = [d \in SpeedsOf(drives) |-> groups[d]]
    BY DEF Indexes
  <2> QED BY <2>1, <2>2
<1> DEFINE w == [swaps |-> swaps, groups |-> groups, taken |-> taken]
           P == Seq((DOMAIN drives) \X (DOMAIN drives))
           G == [SpeedsOf(drives) -> Trees]
<1>2. swaps \in P
  BY DEF Promised
<1> HIDE DEF P, G
<1>3. w \in [swaps : P, groups : G, taken : SUBSET Nat]
  BY <1>1, <1>2 DEF G
<1>4. Indexes(drives, w.groups, w.taken) /\ Promised(drives, w.swaps, w.taken)
  OBVIOUS
<1> HIDE DEF w
<1> QED BY <1>3, <1>4 DEF Walks, P, G, w

\* A step by the trees is a step by the names.
LEMMA OnwardAlike ==
  ASSUME NEW drives \in Seq(Entries), NEW k \in DOMAIN drives, NEW w \in Walks(drives)
  PROVE  /\ Onward(drives, w, k) \in Walks(drives)
         /\ TakeAPartner(drives, BySwaps(w), k) = BySwaps(Onward(drives, w, k))
         /\ PlainStep(drives, ByNames(w), k) = ByNames(Onward(drives, w, k))
<1> DEFINE found == FirstFitting(drives, w.groups, drives[k].link.drive, drives[k].link.port)
           fit == Fitting(drives, k, w.taken)
           limited == IsPortLimited(drives[k].link)
           j == Holders(drives)[found]
           swaps == Append(w.swaps, <<k, j>>)
           groups == Withdrawn(drives, w.groups, found)
           taken == w.taken \cup {drives[j].node}
<1>1. /\ Indexes(drives, w.groups, w.taken) /\ Promised(drives, w.swaps, w.taken)
      /\ w.taken \in SUBSET Nat
  BY DEF Walks
<1>2. drives[k].link.drive \in Nat /\ drives[k].link.port \in Nat
  <2>1. drives[k] \in Entries
    OBVIOUS
  <2>2. drives[k].link.drive \in Rates /\ drives[k].link.port \in Rates
    BY <2>1 DEF Entries
  <2> QED BY <2>2, RatesAreRates
<1>3. IsFirst(found, OpenHolders(drives, w.taken, drives[k].link.drive, drives[k].link.port))
  BY <1>1, <1>2, FirstFittingIs
<1> HIDE DEF found
<1>4. /\ found = 0 <=> fit = {}
      /\ found # 0 => found \in DOMAIN Holders(drives) /\ j = Min(fit) /\ Min(fit) \in fit
  <2>1. FindsTheFirst(drives, k, w.taken, found)
    BY <1>3, FittingIsOpen
  <2> QED BY <2>1 DEF FindsTheFirst
<1>5. Onward(drives, w, k) = IF ~limited \/ found = 0 THEN w
                             ELSE [swaps |-> swaps, groups |-> groups, taken |-> taken]
  BY DEF Onward, found
<1>6. TakeAPartner(drives, BySwaps(w), k) = IF ~limited \/ found = 0 THEN BySwaps(w)
                                            ELSE [swaps |-> swaps, groups |-> groups]
  <2>1. BySwaps(w).swaps = w.swaps /\ BySwaps(w).groups = w.groups
    BY DEF BySwaps
  <2> QED BY <2>1 DEF TakeAPartner, found
<1>7. PlainStep(drives, ByNames(w), k) = IF ~limited \/ fit = {} THEN ByNames(w)
        ELSE [swaps |-> Append(w.swaps, <<k, Min(fit)>>), taken |-> w.taken \cup {drives[Min(fit)].node}]
  <2>1. ByNames(w).swaps = w.swaps /\ ByNames(w).taken = w.taken
    BY DEF ByNames
  <2> QED BY <2>1 DEF PlainStep
<1> HIDE DEF limited
<1>8. CASE ~limited \/ found = 0
  <2>1. Onward(drives, w, k) = w
    BY <1>5, <1>8
  <2>2. TakeAPartner(drives, BySwaps(w), k) = BySwaps(w)
    BY <1>6, <1>8
  <2>3. PlainStep(drives, ByNames(w), k) = ByNames(w)
    <3> HIDE DEF fit
    <3> QED BY <1>4, <1>7, <1>8
  <2> QED BY <2>1, <2>2, <2>3
<1>9. CASE ~ (~limited \/ found = 0)
  <2>1. found \in DOMAIN Holders(drives) /\ j = Min(fit) /\ j \in fit /\ fit # {}
    <3> HIDE DEF fit, j
    <3> QED BY <1>4, <1>9
  <2>2. Onward(drives, w, k) = [swaps |-> swaps, groups |-> groups, taken |-> taken]
    <3> HIDE DEF swaps, groups, taken
    <3> QED BY <1>5, <1>9
  <2>3. TakeAPartner(drives, BySwaps(w), k) = [swaps |-> swaps, groups |-> groups]
    <3> HIDE DEF swaps, groups, taken
    <3> QED BY <1>6, <1>9
  <2>4. PlainStep(drives, ByNames(w), k) = [swaps |-> swaps, taken |-> taken]
    <3>1. PlainStep(drives, ByNames(w), k) =
            [swaps |-> Append(w.swaps, <<k, Min(fit)>>), taken |-> w.taken \cup {drives[Min(fit)].node}]
      <4> HIDE DEF fit
      <4> QED BY <1>7, <1>9, <2>1
    <3> HIDE DEF fit, j
    <3> QED BY <2>1, <3>1
  <2>5. Indexes(drives, groups, taken)
    <3>1. HolderAt(drives, found).node = drives[j].node
      BY DEF HolderAt
    <3> HIDE DEF j
    <3> QED BY <1>1, <2>1, <3>1, WithdrawnIndexes
  <2>6. j \in DOMAIN drives /\ drives[j].node \notin w.taken
    <3>1. fit \subseteq {x \in DOMAIN drives : drives[x].node \notin w.taken}
      BY DEF Fitting
    <3> HIDE DEF fit, j
    <3> QED BY <2>1, <3>1
  <2>7. Promised(drives, swaps, taken)
    <3> HIDE DEF j
    <3> QED BY <1>1, <2>6, PromisesGrow
  <2>8. taken \in SUBSET Nat
    <3>1. drives[j] \in Entries
      BY <2>6
    <3>2. drives[j].node \in Nat
      BY <3>1 DEF Entries
    <3> HIDE DEF j
    <3> QED BY <1>1, <3>2
  <2> HIDE DEF swaps, groups, taken, j, fit
  <2>9. [swaps |-> swaps, groups |-> groups, taken |-> taken] \in Walks(drives)
    BY <2>5, <2>7, <2>8, WalksAre
  <2>10. BySwaps(Onward(drives, w, k)) = [swaps |-> swaps, groups |-> groups]
    BY <2>2 DEF BySwaps
  <2>11. ByNames(Onward(drives, w, k)) = [swaps |-> swaps, taken |-> taken]
    BY <2>2 DEF ByNames
  <2> QED BY <2>2, <2>3, <2>4, <2>9, <2>10, <2>11
<1> QED BY <1>8, <1>9

\* Two loops that start alike and go on alike, over whatever they carry, are one.
SameUpTo(n, f, g) == \A k \in 0..n : f[k] = g[k]
GoOnAlike(n, f, g) == f[0] = g[0] /\ \A k \in 1..n : f[k - 1] = g[k - 1] => f[k] = g[k]

LEMMA LoopsAreOne ==
  ASSUME NEW n \in Nat, NEW f, NEW g, GoOnAlike(n, f, g)
  PROVE  SameUpTo(n, f, g)
<1> DEFINE A == {k \in 0..n : f[k] = g[k]}
<1>1. 0 \in A
  BY DEF GoOnAlike
<1>2. ASSUME NEW k \in 0..n-1, k \in A
      PROVE  k + 1 \in A
  <2>1. k + 1 \in 1..n /\ k + 1 \in 0..n /\ (k + 1) - 1 = k
    OBVIOUS
  <2>2. f[k] = g[k]
    BY <1>2
  <2>3. f[k + 1] = g[k + 1]
    BY <2>1, <2>2 DEF GoOnAlike
  <2> QED BY <2>1, <2>3
<1>3. 0..n \subseteq A
  <2> HIDE DEF A
  <2> QED BY <1>1, <1>2, UpTo
<1> QED BY <1>3 DEF SameUpTo

\* The swaps made by the trees are those made by the names.
LEMMA SwapsAreWalked ==
  ASSUME NEW drives \in Seq(Entries)
  PROVE  \E w \in Walks(drives) : DiagnosePortAllocation(drives) = w.swaps /\ PlainSwaps(drives) = w.swaps
<1> DEFINE n == Len(drives)
           S == Walks(drives)
           start == [swaps |-> <<>>, groups |-> SwapGroups(drives), taken |-> {}]
           step == [x \in (1..n) \X S |-> Onward(drives, x[2], x[1])]
<1>1. n \in Nat /\ DOMAIN drives = 1..n
  OBVIOUS
<1>2. start \in S
  <2>1. Indexes(drives, SwapGroups(drives), {})
    BY GroupsIndexAll
  <2>2. Promised(drives, <<>>, {})
    BY DEF Promised
  <2>3. {} \in SUBSET Nat
    OBVIOUS
  <2> QED BY <2>1, <2>2, <2>3, WalksAre
<1> HIDE DEF S, n
<1>3. ASSUME NEW k \in 1..n, NEW w \in S
      PROVE  /\ Onward(drives, w, k) \in S
             /\ TakeAPartner(drives, BySwaps(w), k) = BySwaps(Onward(drives, w, k))
             /\ PlainStep(drives, ByNames(w), k) = ByNames(Onward(drives, w, k))
  BY <1>1, OnwardAlike DEF S
<1>4. step \in [(1..n) \X S -> S] /\ \A k \in 1..n, w \in S : step[<<k, w>>] = Onward(drives, w, k)
  <2>1. \A x \in (1..n) \X S : x[1] \in 1..n /\ x[2] \in S
    OBVIOUS
  <2>2. step \in [(1..n) \X S -> S]
    BY <1>3, <2>1
  <2>3. ASSUME NEW k \in 1..n, NEW w \in S
        PROVE  step[<<k, w>>] = Onward(drives, w, k)
    <3>1. <<k, w>> \in (1..n) \X S /\ <<k, w>>[1] = k /\ <<k, w>>[2] = w
      OBVIOUS
    <3> QED BY <3>1
  <2> HIDE DEF step
  <2> QED BY <2>2, <2>3
<1> HIDE DEF step, start
<1>5. PICK f \in [0..n -> S] : RunsThrough(f, n, start, step)
  BY <1>1, <1>2, <1>4, LoopRuns
<1>6. \A k \in 1..n : k - 1 \in 0..n /\ k \in 0..n /\ k # 0 /\ f[k - 1] \in S /\ f[k] \in S
  <2>1. \A k \in 1..n : k - 1 \in 0..n /\ k \in 0..n /\ k # 0
    BY <1>1
  <2> QED BY <1>5, <2>1
<1>7. f[0] = start /\ \A k \in 1..n : f[k] = Onward(drives, f[k - 1], k)
  BY <1>4, <1>5, <1>6 DEF RunsThrough
<1>8. 0 \in 0..n /\ n \in 0..n /\ \A k \in 0..n : k # 0 => k \in 1..n
  BY <1>1
<1>9. DiagnosePortAllocation(drives) = f[n].swaps
  <2> DEFINE first == [swaps |-> <<>>, groups |-> SwapGroups(drives)]
             Eq(a) == a = [k \in 0..n |-> IF k = 0 THEN first ELSE TakeAPartner(drives, a[k - 1], k)]
             after == CHOOSE a : Eq(a)
             g == [k \in 0..n |-> BySwaps(f[k])]
  <2>1. DiagnosePortAllocation(drives) = after[n].swaps
    BY DEF DiagnosePortAllocation, n
  <2>2. g = [k \in 0..n |-> BySwaps(f[k])] /\ \A k \in 0..n : g[k] = BySwaps(f[k])
    OBVIOUS
  <2> HIDE DEF g
  <2>3. g[0] = first
    <3>1. BySwaps(start) = first
      BY DEF BySwaps, start
    <3> HIDE DEF first
    <3> QED BY <1>7, <1>8, <2>2, <3>1
  <2> HIDE DEF first
  <2>4. \A k \in 1..n : g[k] = TakeAPartner(drives, g[k - 1], k)
    BY <1>3, <1>6, <1>7, <2>2
  <2>5. Eq(g)
    <3>1. \A k \in 0..n : g[k] = IF k = 0 THEN first ELSE TakeAPartner(drives, g[k - 1], k)
      BY <1>8, <2>3, <2>4
    <3> QED BY <2>2, <3>1
  <2>6. Eq(after)
    <3> HIDE DEF Eq
    <3> QED BY <2>5
  <2> HIDE DEF after
  <2>7. after[0] = first /\ \A k \in 1..n : after[k] = TakeAPartner(drives, after[k - 1], k)
    BY <1>6, <1>8, <2>6
  <2>8. \A k \in 0..n : after[k] = g[k]
    <3>1. GoOnAlike(n, after, g)
      BY <2>3, <2>4, <2>7 DEF GoOnAlike
    <3>2. SameUpTo(n, after, g)
      BY <1>1, <3>1, LoopsAreOne
    <3> QED BY <3>2 DEF SameUpTo
  <2>9. after[n] = BySwaps(f[n])
    BY <1>8, <2>2, <2>8
  <2> QED BY <2>1, <2>9 DEF BySwaps
<1>10. PlainSwaps(drives) = f[n].swaps
  <2> DEFINE first == [swaps |-> <<>>, taken |-> {}]
             Eq(a) == a = [k \in 0..n |-> IF k = 0 THEN first ELSE PlainStep(drives, a[k - 1], k)]
             after == CHOOSE a : Eq(a)
             g == [k \in 0..n |-> ByNames(f[k])]
  <2>1. PlainSwaps(drives) = after[n].swaps
    BY DEF PlainSwaps, n
  <2>2. g = [k \in 0..n |-> ByNames(f[k])] /\ \A k \in 0..n : g[k] = ByNames(f[k])
    OBVIOUS
  <2> HIDE DEF g
  <2>3. g[0] = first
    <3>1. ByNames(start) = first
      BY DEF ByNames, start
    <3> HIDE DEF first
    <3> QED BY <1>7, <1>8, <2>2, <3>1
  <2> HIDE DEF first
  <2>4. \A k \in 1..n : g[k] = PlainStep(drives, g[k - 1], k)
    BY <1>3, <1>6, <1>7, <2>2
  <2>5. Eq(g)
    <3>1. \A k \in 0..n : g[k] = IF k = 0 THEN first ELSE PlainStep(drives, g[k - 1], k)
      BY <1>8, <2>3, <2>4
    <3> QED BY <2>2, <3>1
  <2>6. Eq(after)
    <3> HIDE DEF Eq
    <3> QED BY <2>5
  <2> HIDE DEF after
  <2>7. after[0] = first /\ \A k \in 1..n : after[k] = PlainStep(drives, after[k - 1], k)
    BY <1>6, <1>8, <2>6
  <2>8. \A k \in 0..n : after[k] = g[k]
    <3>1. GoOnAlike(n, after, g)
      BY <2>3, <2>4, <2>7 DEF GoOnAlike
    <3>2. SameUpTo(n, after, g)
      BY <1>1, <3>1, LoopsAreOne
    <3> QED BY <3>2 DEF SameUpTo
  <2>9. after[n] = ByNames(f[n])
    BY <1>8, <2>2, <2>8
  <2> QED BY <2>1, <2>9 DEF ByNames
<1>11. f[n] \in S
  BY <1>5, <1>8
<1> QED BY <1>9, <1>10, <1>11 DEF S

LEMMA SwapsAreThose ==
  ASSUME topic = "swaps" => input \in Seq(Entries)
  PROVE  SwapsAreThoseOfAWalk
<1> SUFFICES ASSUME topic = "swaps" PROVE SwapsAreThoseOfAWalk
  BY DEF SwapsAreThoseOfAWalk
<1>1. PICK w \in Walks(input) : DiagnosePortAllocation(input) = w.swaps /\ PlainSwaps(input) = w.swaps
  BY SwapsAreWalked
<1>2. Promised(input, w.swaps, w.taken)
  BY DEF Walks
<1> QED BY <1>1, <1>2 DEF SwapsAreThoseOfAWalk, Promised

-----------------------------------------------------------------------------
(* Free ports and slow links.                                              *)

Adapters == [rate : Rates \cup {NotRead}, free : {NotRead, 0, 1}]

\* Where a drive can move to: not its own controller, a port known to be free and faster.
FasterFree(all, rate, besides) ==
  {k \in DOMAIN all \ {besides} : HasAFreePort(all[k]) /\ all[k].rate > rate}

LEMMA FreePortIs ==
  ASSUME NEW all \in Seq(Adapters), NEW rate \in Int, rate >= Lowest, NEW besides
  PROVE  IsFirst(FasterFreePort(all, rate, besides), FasterFree(all, rate, besides))
<1> DEFINE J == {k \in DOMAIN all : HasAFreePort(all[k])}
           open == Ascending(J)
           values == [i \in DOMAIN open |-> all[open[i]].rate]
           skip == {i \in DOMAIN open : open[i] = besides}
           found == FirstAbove(MaxTree(values), rate, skip)
           fair == {i \in DOMAIN values \ skip : values[i] > rate}
           free == FasterFree(all, rate, besides)
<1>1. FasterFreePort(all, rate, besides) = IF found = 0 THEN 0 ELSE open[found]
  BY DEF FasterFreePort
<1>2. J \in SUBSET (1..Len(all)) /\ Len(all) \in Nat /\ DOMAIN all = 1..Len(all)
  OBVIOUS
<1>3. \A k \in DOMAIN all : all[k].rate \in Int
  <2>1. ASSUME NEW k \in DOMAIN all
        PROVE  all[k].rate \in Int
    <3>1. all[k] \in Adapters
      OBVIOUS
    <3>2. all[k].rate \in Rates \cup {NotRead}
      BY <3>1 DEF Adapters
    <3>3. \A x \in Rates \cup {NotRead} : x \in Int
      BY RatesAreRates DEF NotRead
    <3> QED BY <3>2, <3>3
  <2> QED BY <2>1
<1>4. ListOf(open, J)
  <2> HIDE DEF J
  <2> QED BY <1>2, AscendingLists
<1>5. \A k \in J : k \in Nat /\ k > 0 /\ all[k].rate \in Int
  BY <1>2, <1>3
<1>6. free = {k \in J : k # besides /\ all[k].rate > rate}
  BY DEF FasterFree
<1> HIDE DEF J, open
<1>7. open \in Seq(J) /\ DOMAIN open = 1..Len(open) /\ Len(open) \in Nat /\ \A i \in DOMAIN open : open[i] \in J
  BY <1>4 DEF ListOf
<1>8. values \in Seq(Int) /\ DOMAIN values = DOMAIN open /\ \A i \in DOMAIN open : values[i] = all[open[i]].rate
  BY <1>5, <1>7
<1> HIDE DEF values
<1>9. TreeOf(MaxTree(values), values, {})
  BY <1>8, MaxTreeIs
<1>10. IsFirst(found, fair)
  <2> HIDE DEF skip
  <2> QED BY <1>8, <1>9, FirstAboveIs
<1>11. \A i \in DOMAIN open : i \in fair <=> open[i] \in free
  BY <1>6, <1>7, <1>8
<1>12. fair \subseteq DOMAIN open
  BY <1>8
<1>13. \A k \in free : \E i \in DOMAIN open : open[i] = k
  BY <1>4, <1>6 DEF ListOf
<1>14. \A i, j \in DOMAIN open : i < j => open[i] < open[j]
  BY <1>4 DEF ListOf
<1>15. \A k \in free : k \in Nat /\ k > 0
  BY <1>5, <1>6
<1> HIDE DEF found, fair, free, skip
<1>16. CASE fair = {}
  <2>1. free = {} /\ found = 0
    BY <1>10, <1>11, <1>13, <1>16 DEF IsFirst
  <2> QED BY <1>1, <2>1 DEF IsFirst, free
<1>17. CASE fair # {}
  <2>1. found \in fair /\ \A i \in fair : found <= i
    BY <1>10, <1>17 DEF IsFirst
  <2>2. found \in DOMAIN open /\ open[found] \in free /\ found \in Nat /\ found # 0
    BY <1>7, <1>11, <1>12, <2>1
  <2>3. ASSUME NEW k \in free
        PROVE  open[found] <= k
    <3>1. PICK i \in DOMAIN open : open[i] = k
      BY <1>13
    <3>2. found <= i /\ i \in Nat
      BY <1>7, <1>11, <2>1, <3>1
    <3>3. open[found] \in Nat /\ k \in Nat
      BY <1>15, <2>2
    <3> QED BY <1>14, <2>2, <3>1, <3>2, <3>3
  <2>4. IsFirst(open[found], free)
    BY <2>2, <2>3 DEF IsFirst
  <2> QED BY <1>1, <2>2, <2>4 DEF free
<1> QED BY <1>16, <1>17

\* The first of them, or none.
IsTheFirst(k, S) == k = IF S = {} THEN 0 ELSE Min(S)

LEMMA FirstIsNamed ==
  ASSUME NEW all \in Seq(Adapters), NEW rate \in Rates, NEW own
  PROVE  IsTheFirst(FasterFreePort(all, rate, own),
                    {k \in DOMAIN all \ {own} : all[k].free = 1 /\ all[k].rate > rate})
<1> DEFINE free == {k \in DOMAIN all \ {own} : all[k].free = 1 /\ all[k].rate > rate}
<1>1. rate \in Nat /\ rate \in Int /\ rate > 0 /\ rate >= Lowest
  <2>1. rate \in Nat /\ rate > 0
    BY RatesAreRates
  <2> QED BY <2>1 DEF Lowest
<1>2. free = FasterFree(all, rate, own)
  <2>1. ASSUME NEW k \in DOMAIN all
        PROVE  HasAFreePort(all[k]) /\ all[k].rate > rate <=> all[k].free = 1 /\ all[k].rate > rate
    <3>1. all[k] \in Adapters
      OBVIOUS
    <3>2. all[k].free \in {NotRead, 0, 1}
      BY <3>1 DEF Adapters
    <3>3. all[k].rate = NotRead => ~ (all[k].rate > rate)
      BY <1>1 DEF NotRead
    <3>4. all[k].free = 1 <=> all[k].free \notin {NotRead, 0}
      BY <3>2 DEF NotRead
    <3> QED BY <3>3, <3>4 DEF HasAFreePort
  <2> QED BY <2>1 DEF FasterFree
<1>3. free \in SUBSET (Nat \ {0})
  <2>1. DOMAIN all = 1..Len(all) /\ Len(all) \in Nat
    OBVIOUS
  <2> QED BY <2>1
<1> HIDE DEF free
<1>4. IsFirst(FasterFreePort(all, rate, own), free)
  BY <1>1, <1>2, FreePortIs
<1>5. CASE free = {}
  BY <1>4, <1>5 DEF IsFirst, free, IsTheFirst
<1>6. CASE free # {}
  <2> DEFINE k == FasterFreePort(all, rate, own)
             m == Min(free)
  <2>1. k \in free /\ \A i \in free : k <= i
    BY <1>4, <1>6 DEF IsFirst
  <2>2. m \in free /\ \A i \in free : m <= i
    BY <1>3, <1>6, LeastOfSome
  <2> HIDE DEF k, m
  <2>3. k \in Nat /\ m \in Nat
    BY <1>3, <2>1, <2>2
  <2>4. k = m
    BY <2>1, <2>2, <2>3
  <2> QED BY <1>6, <2>4 DEF k, m, free, IsTheFirst
<1> QED BY <1>5, <1>6

LEMMA FirstOfFree ==
  ASSUME topic = "free ports" => input \in Seq(Adapters)
  PROVE  FreePortIsTheFirst
BY FirstIsNamed DEF FreePortIsTheFirst, IsTheFirst

\* The lower of two numbers.
LEMMA LesserOfTwo ==
  ASSUME NEW a \in Nat, NEW b \in Nat, a > 0, b > 0
  PROVE  Min({a, b}) \in {a, b} /\ Min({a, b}) <= a /\ Min({a, b}) <= b
<1>1. {a, b} \in SUBSET (Nat \ {0}) /\ {a, b} # {}
  OBVIOUS
<1> QED BY <1>1, LeastOfSome

\* How grave a verdict is, and what it says.
IsSaid(v, severity, says) == v.severity = severity /\ v.says = says

LEMMA VerdictsAreRecords ==
  ASSUME NEW severity, NEW says, NEW at
  PROVE  IsSaid(LinkVerdict(severity, says, at), severity, says)
  BY DEF LinkVerdict, IsSaid

\* A drive below what it can do is spoken of, and only below both ends is it faulty.
DriveIsSpokenOf(link, v) ==
  /\ Slower(link.running, link.drive) => v.severity # "none"
  /\ v.says = "below what both ends support" => Slower(link.running, link.drive) /\ Slower(link.running, link.port)

LEMMA DrivesAreSpokenOf ==
  ASSUME NEW link \in Links, NEW all, NEW own
  PROVE  DriveIsSpokenOf(link, DiagnoseDiskLink(link, all, own))
<1> DEFINE v == DiagnoseDiskLink(link, all, own)
           faster == FasterFreePort(all, link.port, own)
           under == IsUnderperforming(link)
           r == link.running
           d == link.drive
           p == link.port
<1>1. /\ r = NotRead \/ (r \in Nat /\ r > 0)
      /\ d = NotRead \/ (d \in Nat /\ d > 0)
      /\ p = NotRead \/ (p \in Nat /\ p > 0)
  <2>1. r \in Rates \cup {NotRead} /\ d \in Rates \cup {NotRead} /\ p \in Rates \cup {NotRead}
    BY DEF Links
  <2> HIDE DEF r, d, p
  <2> QED BY <2>1, RatesAreRates
<1>2. under <=> NotRead \notin {r, d, p} /\ r < Min({d, p})
  <2>1. CASE NotRead \in {d, p}
    BY <2>1 DEF IsUnderperforming, Slower, Achieves
  <2>2. CASE NotRead \notin {d, p}
    <3>1. Achieves(link) = Min({d, p})
      BY <2>2 DEF Achieves
    <3>2. Min({d, p}) \in {d, p}
      BY <1>1, <2>2, LesserOfTwo
    <3>3. Min({d, p}) # NotRead
      <4> HIDE DEF d, p
      <4> QED BY <2>2, <3>2
    <3>4. under <=> NotRead \notin {r, Min({d, p})} /\ r < Min({d, p})
      BY <3>1 DEF IsUnderperforming, Slower
    <3> HIDE DEF r, d, p, under
    <3> QED BY <2>2, <3>3, <3>4
  <2> QED BY <2>1, <2>2
<1>3. IsPortLimited(link) <=> NotRead \notin {p, d} /\ p < d
  BY DEF IsPortLimited, Slower
<1>4. AtPortUnread(link) <=> NotRead \notin {r, d} /\ r < d /\ p = NotRead
  BY DEF AtPortUnread, IsBelowDriveCapability, Slower
<1>5. Slower(r, d) <=> NotRead \notin {r, d} /\ r < d
  BY DEF Slower
<1>6. Slower(r, p) <=> NotRead \notin {r, p} /\ r < p
  BY DEF Slower
<1> DEFINE limited == IsPortLimited(link)
           unread == AtPortUnread(link)
           both == LinkVerdict("warning", "below what both ends support", 0)
           unknown == LinkVerdict("warning", "port not read", 0)
           moves == LinkVerdict("warning", "a free port at the drive's full speed", faster)
           stays == LinkVerdict("hint", "no faster port is free", 0)
           fine == LinkVerdict("none", "nothing", 0)
<1>7. v = CASE under -> both
            [] ~under /\ unread -> unknown
            [] ~under /\ limited /\ faster # 0 -> moves
            [] ~under /\ limited /\ faster = 0 -> stays
            [] OTHER -> fine
  BY DEF DiagnoseDiskLink, LinkIsFine
<1> HIDE DEF v, faster, under, limited, unread, both, unknown, moves, stays, fine
<1>8. CASE under
  <2>1. v = both
    BY <1>7, <1>8
  <2>2. IsSaid(v, "warning", "below what both ends support")
    BY <2>1, VerdictsAreRecords DEF both
  <2>3. NotRead \notin {r, d, p} /\ r < Min({d, p})
    BY <1>2, <1>8
  <2>4. Min({d, p}) \in {d, p} /\ Min({d, p}) <= d /\ Min({d, p}) <= p
    BY <1>1, <2>3, LesserOfTwo
  <2> DEFINE m == Min({d, p})
  <2> HIDE DEF m
  <2>5. NotRead \notin {r, d, p} /\ r < m /\ m \in {d, p} /\ m <= d /\ m <= p
    BY <2>3, <2>4 DEF m
  <2> HIDE DEF r, d, p
  <2>6. r < d /\ r < p
    BY <1>1, <2>5
  <2>7. Slower(r, d) /\ Slower(r, p)
    BY <1>5, <1>6, <2>5, <2>6
  <2>8. v.severity # "none"
    BY <2>2 DEF IsSaid
  <2> QED BY <2>7, <2>8 DEF DriveIsSpokenOf, v, r, d, p
<1>9. CASE ~under
  <2>1. \/ IsSaid(v, "warning", "port not read")
        \/ IsSaid(v, "warning", "a free port at the drive's full speed")
        \/ IsSaid(v, "hint", "no faster port is free")
        \/ IsSaid(v, "none", "nothing")
    <3>1. v = unknown \/ v = moves \/ v = stays \/ v = fine
      BY <1>7, <1>9
    <3> QED BY <3>1, VerdictsAreRecords DEF unknown, moves, stays, fine
  <2>2. v.says # "below what both ends support"
    BY <2>1 DEF IsSaid
  <2>3. ASSUME Slower(r, d)
        PROVE  unread \/ limited
    <3>1. NotRead \notin {r, d} /\ r < d
      BY <1>5, <2>3
    <3>2. CASE p = NotRead
      BY <1>4, <3>1, <3>2 DEF unread
    <3>3. CASE p # NotRead
      <4> DEFINE m == Min({d, p})
      <4>1. m \in {d, p} /\ m <= d /\ m <= p
        BY <1>1, <3>1, <3>3, LesserOfTwo
      <4>2. ~ (r < m)
        BY <1>2, <1>9, <3>1, <3>3
      <4> HIDE DEF m, r, d, p
      <4>3. p < d
        BY <1>1, <3>1, <3>3, <4>1, <4>2
      <4>4. NotRead \notin {p, d}
        BY <3>1, <3>3
      <4> QED BY <1>3, <4>3, <4>4 DEF limited
    <3> QED BY <3>2, <3>3
  <2>4. unread \/ limited => v.severity # "none"
    <3>1. unread \/ limited => v = unknown \/ v = moves \/ v = stays
      BY <1>7, <1>9
    <3>2. unread \/ limited =>
            \/ IsSaid(v, "warning", "port not read")
            \/ IsSaid(v, "warning", "a free port at the drive's full speed")
            \/ IsSaid(v, "hint", "no faster port is free")
      BY <3>1, VerdictsAreRecords DEF unknown, moves, stays
    <3> QED BY <3>2 DEF IsSaid
  <2> QED BY <2>2, <2>3, <2>4 DEF DriveIsSpokenOf, v, r, d
<1> QED BY <1>8, <1>9

\* A speed that was read, or none.
UsbLinks == [running : UsbRanks \cup {NotRead}, device : UsbRanks \cup {NotRead},
             port : UsbRanks \cup {NotRead}, upstream : UsbRanks \cup {NotRead}, twin : {"yes", "no"}]

\* The least that was read is one that was, and no other is below it.
IsLeastRead(m, S) == m # NotRead /\ m \in S /\ \A x \in S : x # NotRead => m <= x

LEMMA LeastReadIs ==
  ASSUME NEW S, \A x \in S : x = NotRead \/ (x \in Nat /\ x > 0), \E x \in S : x # NotRead
  PROVE  IsLeastRead(LeastRead(S), S)
<1>1. Read(S) \in SUBSET (Nat \ {0}) /\ Read(S) # {}
  BY DEF Read
<1>2. Min(Read(S)) \in Read(S) /\ \A x \in Read(S) : Min(Read(S)) <= x
  BY <1>1, LeastOfSome
<1> DEFINE m == Min(Read(S))
<1>3. LeastRead(S) = m
  BY <1>1 DEF LeastRead
<1>4. m \in Read(S) /\ \A x \in Read(S) : m <= x
  BY <1>2
<1> HIDE DEF m
<1>5. m # NotRead /\ m \in S /\ \A x \in S : x # NotRead => m <= x
  BY <1>4 DEF Read
<1> QED BY <1>3, <1>5 DEF IsLeastRead

\* A speed below what the drive can do is spoken of, only below every end that was read is
\* it faulty, and a cap is laid at the end it comes from, which no other end is below.
UsbIsSpokenOf(link, v) ==
  /\ Slower(link.running, link.device) => v.severity # "none"
  /\ v.says = "below what both ends support" =>
       \A end \in {link.device, link.port} \cup Read({link.upstream}) : Slower(link.running, end)
  /\ v.says \in {"capped by a hub", "capped by its port"} =>
       /\ v.at = IF v.says = "capped by a hub" THEN link.upstream ELSE link.port
       /\ \A end \in Read({link.port, link.upstream, link.device}) : v.at <= end

LEMMA VerdictsAreAt ==
  ASSUME NEW severity, NEW says, NEW at, NEW v, v = LinkVerdict(severity, says, at)
  PROVE  v.at = at
  BY DEF LinkVerdict

LEMMA UsbAreSpokenOf ==
  ASSUME NEW link \in UsbLinks, NEW demand
  PROVE  UsbIsSpokenOf(link, DiagnoseUsbLink(link, demand))
<1> DEFINE v == DiagnoseUsbLink(link, demand)
           r == link.running
           d == link.device
           p == link.port
           u == link.upstream
           best == UsbAchievable(link)
           least == LeastRead({p, u})
           cap == UsbCeiling(link)
           fell == FellBackToUsb2(link)
           slow == Slower(r, best)
           grade == IF UsbCapNoticed(demand, cap.speed) THEN "warning" ELSE "hint"
           whose == IF cap.hub THEN "capped by a hub" ELSE "capped by its port"
           fallen == LinkVerdict("warning", "on the USB 2 side", 0)
           both == LinkVerdict("warning", "below what both ends support", 0)
           capped == LinkVerdict(grade, whose, cap.speed)
           unknown == LinkVerdict("warning", "port not read", 0)
           fine == LinkVerdict("none", "nothing", 0)
<1>1. /\ r = NotRead \/ (r \in Nat /\ r > 0)
      /\ d = NotRead \/ (d \in Nat /\ d > 0)
      /\ p = NotRead \/ (p \in Nat /\ p > 0)
      /\ u = NotRead \/ (u \in Nat /\ u > 0)
  <2>1. \A x \in UsbRanks \cup {NotRead} : x = NotRead \/ (x \in Nat /\ x > 0)
    <3>1. DOMAIN UsbCarries \subseteq 1..7
      BY DEF UsbCarries
    <3>2. \A x \in UsbRanks : x \in 1..7
      BY <3>1, RatesAreRates
    <3>3. \A x \in 1..7 : x \in Nat /\ x > 0
      OBVIOUS
    <3> QED BY <3>2, <3>3
  <2>2. /\ r \in UsbRanks \cup {NotRead} /\ d \in UsbRanks \cup {NotRead}
        /\ p \in UsbRanks \cup {NotRead} /\ u \in UsbRanks \cup {NotRead}
    BY DEF UsbLinks
  <2> HIDE DEF r, d, p, u
  <2> QED BY <2>1, <2>2
<1>2. NotRead \notin {d, p} => IsLeastRead(best, {d, p, u})
  <2> SUFFICES ASSUME NotRead \notin {d, p} PROVE IsLeastRead(best, {d, p, u})
    OBVIOUS
  <2>1. best = LeastRead({d, p, u})
    BY DEF UsbAchievable
  <2>2. \A x \in {d, p, u} : x = NotRead \/ (x \in Nat /\ x > 0)
    BY <1>1
  <2>3. \E x \in {d, p, u} : x # NotRead
    OBVIOUS
  <2> HIDE DEF r, d, p, u, best
  <2> QED BY <2>1, <2>2, <2>3, LeastReadIs
<1>3. ~ (NotRead \notin {d, p}) => best = NotRead
  BY DEF UsbAchievable
<1>4. NotRead \notin {p} \/ NotRead \notin {u} => IsLeastRead(least, {p, u})
  <2> SUFFICES ASSUME NotRead \notin {p} \/ NotRead \notin {u} PROVE IsLeastRead(least, {p, u})
    OBVIOUS
  <2>1. \A x \in {p, u} : x = NotRead \/ (x \in Nat /\ x > 0)
    BY <1>1
  <2>2. \E x \in {p, u} : x # NotRead
    OBVIOUS
  <2> HIDE DEF p, u
  <2> QED BY <2>1, <2>2, LeastReadIs
<1>5. p = NotRead /\ u = NotRead => least = NotRead
  <2> HIDE DEF p, u
  <2> QED BY DEF LeastRead, Read
<1>6. cap.speed = (IF Slower(least, d) THEN least ELSE NotRead) /\ cap.hub = (least # p)
  BY DEF UsbCeiling
<1>7. v = IF NotRead \in {r, d} THEN fine
          ELSE IF fell THEN fallen
          ELSE IF slow THEN both
          ELSE IF cap.speed # NotRead THEN capped
          ELSE IF p = NotRead /\ r < d THEN unknown
          ELSE fine
  BY DEF DiagnoseUsbLink, LinkIsFine
<1>8. Slower(r, d) <=> NotRead \notin {r, d} /\ r < d
  BY DEF Slower
<1> DEFINE speed == cap.speed
           hub == cap.hub
<1>9. /\ IsSaid(fallen, "warning", "on the USB 2 side")
      /\ IsSaid(both, "warning", "below what both ends support")
      /\ IsSaid(capped, grade, whose) /\ capped.at = speed
      /\ IsSaid(unknown, "warning", "port not read") /\ IsSaid(fine, "none", "nothing")
  <2>1. IsSaid(fallen, "warning", "on the USB 2 side")
    BY VerdictsAreRecords
  <2>2. IsSaid(both, "warning", "below what both ends support")
    BY VerdictsAreRecords
  <2>3. IsSaid(capped, grade, whose)
    <3> HIDE DEF grade, whose, cap
    <3> QED BY VerdictsAreRecords
  <2>4. capped.at = speed
    <3> HIDE DEF grade, whose, cap, capped
    <3>1. capped = LinkVerdict(grade, whose, speed)
      BY DEF capped
    <3> HIDE DEF speed
    <3> QED BY <3>1, VerdictsAreAt
  <2>5. IsSaid(unknown, "warning", "port not read")
    BY VerdictsAreRecords
  <2>6. IsSaid(fine, "none", "nothing")
    BY VerdictsAreRecords
  <2> HIDE DEF grade, whose, fallen, both, capped, unknown, fine, speed, cap
  <2> QED BY <2>1, <2>2, <2>3, <2>4, <2>5, <2>6
<1>10. grade # "none"
  OBVIOUS
<1>11. speed = (IF Slower(least, d) THEN least ELSE NotRead) /\ hub = (least # p)
  BY <1>6
<1>12. v = IF NotRead \in {r, d} THEN fine
           ELSE IF fell THEN fallen
           ELSE IF slow THEN both
           ELSE IF speed # NotRead THEN capped
           ELSE IF p = NotRead /\ r < d THEN unknown
           ELSE fine
  BY <1>7
<1>13. whose = IF hub THEN "capped by a hub" ELSE "capped by its port"
  OBVIOUS
<1> HIDE DEF speed, hub, cap, grade, whose, fallen, both, capped, unknown, fine, fell, least, best, v
<1>14. CASE v = fallen \/ v = unknown
  <2>1. v.severity # "none"
    BY <1>9, <1>14 DEF IsSaid
  <2>2. v.says # "below what both ends support" /\ v.says \notin {"capped by a hub", "capped by its port"}
    BY <1>9, <1>14 DEF IsSaid
  <2> QED BY <2>1, <2>2 DEF UsbIsSpokenOf, v
<1>15. CASE v = both /\ slow /\ NotRead \notin {r, d}
  <2>1. NotRead \notin {r, best} /\ r < best
    BY <1>15 DEF Slower
  <2>2. IsLeastRead(best, {d, p, u}) /\ NotRead \notin {d, p}
    BY <1>2, <1>3, <2>1
  <2>3. ASSUME NEW end \in {d, p} \cup Read({u})
        PROVE  Slower(r, end)
    <3>1. end \in {d, p, u} /\ end # NotRead
      BY <2>2 DEF Read
    <3>2. best <= end /\ best \in {d, p, u} /\ best # NotRead
      BY <2>2, <3>1 DEF IsLeastRead
    <3> HIDE DEF r, d, p, u
    <3>3. r \in Nat /\ end \in Nat /\ best \in Nat
      BY <1>1, <2>1, <3>1, <3>2
    <3>4. r < end
      BY <2>1, <3>2, <3>3
    <3> QED BY <2>1, <3>1, <3>4 DEF Slower
  <2>4. v.severity # "none" /\ v.says = "below what both ends support"
    BY <1>9, <1>15 DEF IsSaid
  <2>5. v.says \notin {"capped by a hub", "capped by its port"}
    BY <2>4
  <2> HIDE DEF slow
  <2> QED BY <2>3, <2>4, <2>5 DEF UsbIsSpokenOf, v, r, d, p, u
<1>16. CASE v = capped /\ speed # NotRead
  <2>1. speed = least /\ NotRead \notin {least, d} /\ least < d
    BY <1>11, <1>16 DEF Slower
  <2>2. IsLeastRead(least, {p, u})
    <3> HIDE DEF p, u, d
    <3> QED BY <1>4, <1>5, <2>1
  <2>3. v.at = least
    BY <1>9, <1>16, <2>1
  <2>4. ASSUME NEW end \in Read({p, u, d})
        PROVE  v.at <= end
    <3> HIDE DEF r, d, p, u
    <3>1. end \in {p, u, d} /\ end # NotRead
      BY DEF Read
    <3>2. least \in {p, u} /\ least # NotRead /\ \A x \in {p, u} : x # NotRead => least <= x
      BY <2>2 DEF IsLeastRead
    <3>3. least <= end
      BY <1>1, <2>1, <3>1, <3>2
    <3> QED BY <2>3, <3>3
  <2>5. v.severity # "none" /\ v.says = whose
    BY <1>9, <1>10, <1>16 DEF IsSaid
  <2>6. hub => least = u
    <3> HIDE DEF p, u
    <3> QED BY <1>11, <2>2 DEF IsLeastRead
  <2>7. ~hub => least = p
    BY <1>11
  <2>8. v.at = IF v.says = "capped by a hub" THEN u ELSE p
    <3> HIDE DEF p, u
    <3>1. CASE hub
      <4>1. v.says = "capped by a hub"
        BY <1>13, <2>5, <3>1
      <4> QED BY <2>3, <2>6, <3>1, <4>1
    <3>2. CASE ~hub
      <4>1. v.says # "capped by a hub"
        BY <1>13, <2>5, <3>2
      <4> QED BY <2>3, <2>7, <3>2, <4>1
    <3> QED BY <3>1, <3>2
  <2>9. v.says # "below what both ends support"
    BY <1>13, <2>5
  <2> QED BY <2>4, <2>5, <2>8, <2>9 DEF UsbIsSpokenOf, v, r, d, p, u
<1>17. CASE v = fine /\ ~ Slower(r, d)
  <2>1. v.says # "below what both ends support" /\ v.says \notin {"capped by a hub", "capped by its port"}
    BY <1>9, <1>17 DEF IsSaid
  <2> QED BY <1>17, <2>1 DEF UsbIsSpokenOf, v, r, d
<1>18. CASE NotRead \in {r, d}
  <2>1. v = fine /\ ~ Slower(r, d)
    BY <1>8, <1>12, <1>18
  <2> HIDE DEF r, d
  <2> QED BY <1>17, <2>1
<1>19. CASE NotRead \notin {r, d} /\ ~fell /\ ~slow /\ speed = NotRead /\ ~ (p = NotRead /\ r < d)
  <2>1. v = fine
    <3> HIDE DEF slow, r, d, p
    <3> QED BY <1>12, <1>19
  <2>2. ~ (r < d)
    <3> SUFFICES ASSUME r < d PROVE FALSE
      OBVIOUS
    <3> DEFINE ranks == <<r, d, p, u>>
    <3>1. NotRead \notin {d, p}
      BY <1>19
    <3>2. best \in {d, p, u} /\ best # NotRead /\ best <= d
      BY <1>2, <3>1 DEF IsLeastRead
    <3>3. ~ (r < best)
      <4> HIDE DEF r, d, p, u
      <4> QED BY <1>19, <3>2 DEF Slower
    <3>4. IsLeastRead(least, {p, u})
      BY <1>4, <3>1
    <3>5. least # NotRead /\ least \in {p, u} /\ least <= p /\ (u # NotRead => least <= u)
      BY <3>1, <3>4 DEF IsLeastRead
    <3>6. ~ (least < d)
      <4> HIDE DEF r, d, p, u
      <4>1. ~ Slower(least, d)
        BY <1>11, <1>19, <3>5
      <4> QED BY <1>19, <3>5, <4>1 DEF Slower
    <3> HIDE DEF r, d, p, u, slow
    <3>7. r \in Nat /\ d \in Nat /\ p \in Nat /\ best \in Nat /\ least \in Nat
      BY <1>1, <1>19, <3>1, <3>2, <3>5
    <3>8. best = u => u \in Nat /\ least <= u
      BY <1>1, <3>2, <3>5
    <3> QED BY <3>2, <3>3, <3>5, <3>6, <3>7, <3>8
  <2> HIDE DEF r, d, slow
  <2> QED BY <1>8, <1>17, <2>1, <2>2
<1>20. CASE NotRead \notin {r, d} /\ ~ (~fell /\ ~slow /\ speed = NotRead /\ ~ (p = NotRead /\ r < d))
  <2>1. v = fallen \/ v = unknown \/ (v = both /\ slow) \/ (v = capped /\ speed # NotRead)
    <3> HIDE DEF slow, r, d, p
    <3> QED BY <1>12, <1>20
  <2> HIDE DEF slow, r, d, p
  <2> QED BY <1>14, <1>15, <1>16, <1>20, <2>1
<1> QED
  <2> HIDE DEF slow, r, d, p
  <2> QED BY <1>18, <1>19, <1>20

\* Both kinds of link.
LEMMA SlowAreSpokenOf ==
  ASSUME topic = "usb" => input \in UsbLinks
  PROVE  SlowLinksAreSpokenOf
<1>1. ASSUME NEW link \in Links, NEW own
      PROVE  DriveIsSpokenOf(link, DiagnoseDiskLink(link, input, own))
  BY DrivesAreSpokenOf
<1>2. topic = "usb" => UsbIsSpokenOf(input, DiagnoseUsbLink(input, NotRead))
  BY UsbAreSpokenOf
<1> QED BY <1>1, <1>2 DEF SlowLinksAreSpokenOf, DriveIsSpokenOf, UsbIsSpokenOf

-----------------------------------------------------------------------------
(* Drives of one controller.                                               *)

Sharers == [bus : {"nvme", "sata"}, serial : {"", "a", "b"}, demand : {NotRead, 1, 2}]

Total(c) == FoldLeft(+, 0, c)

LEMMA TotalIsALoop ==
  ASSUME NEW c \in Seq(Int)
  PROVE  \E f \in [0..Len(c) -> Int] : /\ f[0] = 0 /\ \A k \in 1..Len(c) : f[k] = f[k - 1] + c[k]
                                       /\ Total(c) = f[Len(c)]
  BY SumIsALoop DEF Total

\* One more makes the sum that much more.
LEMMA TotalGrows ==
  ASSUME NEW s \in Seq(Int), NEW x \in Int
  PROVE  Total(s) \in Int /\ Total(Append(s, x)) = Total(s) + x
<1> DEFINE n == Len(s)
           t == Append(s, x)
<1>1. n \in Nat /\ t \in Seq(Int) /\ Len(t) = n + 1 /\ t[n + 1] = x /\ \A k \in 1..n : t[k] = s[k]
  OBVIOUS
<1> HIDE DEF t
<1>2. PICK f \in [0..n -> Int] : f[0] = 0 /\ (\A k \in 1..n : f[k] = f[k - 1] + s[k]) /\ Total(s) = f[n]
  BY TotalIsALoop
<1> HIDE DEF n
<1>3. PICK g \in [0..n+1 -> Int] : g[0] = 0 /\ (\A k \in 1..n+1 : g[k] = g[k - 1] + t[k]) /\ Total(t) = g[n + 1]
  BY <1>1, TotalIsALoop
<1>4. \A k \in 1..n : k \in 1..n+1 /\ g[k] = g[k - 1] + s[k]
  BY <1>1, <1>3
<1>5. GoOnAlike(n, f, g)
  BY <1>2, <1>3, <1>4 DEF GoOnAlike
<1>6. SameUpTo(n, f, g)
  BY <1>1, <1>5, LoopsAreOne
<1>7. f[n] = g[n] /\ f[n] \in Int
  BY <1>1, <1>2, <1>6 DEF SameUpTo
<1>8. g[n + 1] = g[n] + x
  <2>1. n + 1 \in 1..n+1 /\ (n + 1) - 1 = n
    BY <1>1
  <2> QED BY <1>1, <1>3, <2>1
<1> QED BY <1>2, <1>3, <1>7, <1>8 DEF t

LEMMA TotalOfNone ==
  Total(<<>>) = 0
<1>1. <<>> \in Seq(Int) /\ Len(<<>>) = 0
  OBVIOUS
<1> QED BY <1>1, TotalIsALoop

\* Which entries are NVMe drives, which bear no serial, and which were there before.
NvmeAmong(all) == {k \in DOMAIN all : all[k].bus = "nvme"}
NamelessAmong(all) == {k \in DOMAIN all : all[k].serial = ""}
Again(all) == {k \in DOMAIN all : \E j \in 1..k-1 :
                 /\ all[k].bus = "nvme" /\ all[j].bus = "nvme"
                 /\ all[k].serial # "" /\ all[j].serial = all[k].serial}
Pull(all, k) == IF all[k].demand > 0 THEN all[k].demand ELSE 0
PullsOf(all, s) == [i \in DOMAIN s |-> Pull(all, s[i])]
SerialsOf(all) == {all[k].serial : k \in DOMAIN all}
SeenBy(all, k) == {all[j].serial : j \in NvmeAmong(all) \cap (1..k)}

\* Whether an entry counts, by where it is among them.
CountedIn(all, t, k) ==
  IF k \notin NvmeAmong(all) \/ k \in NamelessAmong(all) \/ all[k].serial \notin t.seen
  THEN [drives |-> Append(t.drives, k),
        seen   |-> t.seen \cup (IF k \in NvmeAmong(all) THEN {all[k].serial} ELSE {})]
  ELSE t

LEMMA CountingIs ==
  ASSUME NEW all, NEW k \in DOMAIN all, NEW t
  PROVE  CountIn(all, t, k) = CountedIn(all, t, k)
  BY DEF CountIn, CountsAgain, NvmeAmong, NamelessAmong, CountedIn

LEMMA AgainIs ==
  ASSUME NEW all \in Seq(Sharers)
  PROVE  \A k \in DOMAIN all : k \in Again(all) <=>
           k \in NvmeAmong(all) /\ k \notin NamelessAmong(all) /\ all[k].serial \in SeenBy(all, k - 1)
<1>1. ASSUME NEW k \in DOMAIN all
      PROVE  k \in Again(all) <=>
               k \in NvmeAmong(all) /\ k \notin NamelessAmong(all) /\ all[k].serial \in SeenBy(all, k - 1)
  <2>1. \A j \in 1..k-1 : j \in DOMAIN all
    <3>1. DOMAIN all = 1..Len(all) /\ Len(all) \in Nat
      OBVIOUS
    <3> QED BY <3>1
  <2> QED BY <2>1 DEF Again, NvmeAmong, NamelessAmong, SeenBy
<1> QED BY <1>1

\* The entries so far: each drive once, every serial seen, and what they pull.
CountedSoFar(all, t, k, pulled) ==
  /\ t.drives \in Seq(DOMAIN all)
  /\ {t.drives[i] : i \in DOMAIN t.drives} = (1..k) \ Again(all)
  /\ t.seen = SeenBy(all, k)
  /\ Total(PullsOf(all, t.drives)) = pulled

LEMMA PullsAreNat ==
  ASSUME NEW all \in Seq(Sharers), NEW k \in DOMAIN all
  PROVE  Pull(all, k) \in Nat /\ (Pull(all, k) = 0 <=> ~ (all[k].demand > 0))
<1>1. all[k] \in Sharers
  OBVIOUS
<1>2. all[k].demand \in {NotRead, 1, 2}
  BY <1>1 DEF Sharers
<1>3. all[k].demand \in Int
  BY <1>2 DEF NotRead
<1> QED BY <1>3 DEF Pull

LEMMA PullsAreASeq ==
  ASSUME NEW all \in Seq(Sharers), NEW s \in Seq(DOMAIN all)
  PROVE  /\ PullsOf(all, s) \in Seq(Int)
         /\ \A k \in DOMAIN all : PullsOf(all, Append(s, k)) = Append(PullsOf(all, s), Pull(all, k))
<1> DEFINE n == Len(s)
<1>1. n \in Nat /\ DOMAIN s = 1..n /\ \A i \in 1..n : s[i] \in DOMAIN all
  OBVIOUS
<1> HIDE DEF n
<1>2. \A i \in 1..n : Pull(all, s[i]) \in Int
  BY <1>1, PullsAreNat
<1>3. PullsOf(all, s) = [i \in 1..n |-> Pull(all, s[i])]
  BY <1>1 DEF PullsOf
<1>4. PullsOf(all, s) \in Seq(Int) /\ Len(PullsOf(all, s)) = n
  <2> DEFINE p == PullsOf(all, s)
             e(i) == Pull(all, s[i])
  <2>1. p = [i \in 1..n |-> e(i)] /\ \A i \in 1..n : e(i) \in Int
    BY <1>2, <1>3
  <2> HIDE DEF p, e
  <2>2. p \in Seq(Int) /\ Len(p) = n
    BY <1>1, <2>1
  <2> QED BY <2>2 DEF p
<1>5. ASSUME NEW k \in DOMAIN all
      PROVE  PullsOf(all, Append(s, k)) = Append(PullsOf(all, s), Pull(all, k))
  <2> DEFINE t == Append(s, k)
             p == PullsOf(all, s)
             q == Append(p, Pull(all, k))
  <2>1. DOMAIN t = 1..n+1 /\ t[n + 1] = k /\ \A i \in 1..n : t[i] = s[i]
    BY <1>1 DEF n
  <2> HIDE DEF t
  <2>2. PullsOf(all, t) = [i \in 1..n+1 |-> Pull(all, t[i])]
    BY <2>1 DEF PullsOf
  <2>3. Pull(all, k) \in Int
    BY PullsAreNat
  <2>4. p \in Seq(Int) /\ Len(p) = n /\ \A i \in 1..n : p[i] = Pull(all, s[i])
    BY <1>3, <1>4
  <2> HIDE DEF p
  <2>5. q \in Seq(Int) /\ DOMAIN q = 1..n+1 /\ q[n + 1] = Pull(all, k) /\ \A i \in 1..n : q[i] = p[i]
    BY <1>1, <2>3, <2>4
  <2> HIDE DEF q
  <2>6. q = [i \in 1..n+1 |-> q[i]]
    BY <2>5
  <2>7. ASSUME NEW i \in 1..n+1
        PROVE  q[i] = Pull(all, t[i])
    <3>1. i \in 1..n \/ i = n + 1
      BY <1>1
    <3> QED BY <2>1, <2>4, <2>5, <3>1
  <2>8. q = PullsOf(all, t)
    BY <2>2, <2>6, <2>7
  <2> QED BY <2>8 DEF q, p, t
<1> QED BY <1>4, <1>5

\* The next entry is a drive not counted yet, or one that is.
LEMMA CountingGoesOn ==
  ASSUME NEW all \in Seq(Sharers), NEW k \in DOMAIN all, NEW t, NEW pulled \in Int,
         CountedSoFar(all, t, k - 1, pulled)
  PROVE  CountedSoFar(all, CountIn(all, t, k), k,
                 pulled + (IF k \in Again(all) THEN 0 ELSE Pull(all, k)))
<1> DEFINE u == CountIn(all, t, k)
<1>1. k \in Nat /\ k > 0 /\ 1..k = (1..k-1) \cup {k} /\ k \notin 1..k-1
  <2>1. k \in 1..Len(all) /\ Len(all) \in Nat
    OBVIOUS
  <2>2. k \in Nat /\ k > 0
    BY <2>1
  <2> QED BY <2>2
<1>2. t.drives \in Seq(DOMAIN all) /\ {t.drives[i] : i \in DOMAIN t.drives} = (1..k-1) \ Again(all)
      /\ t.seen = SeenBy(all, k - 1) /\ Total(PullsOf(all, t.drives)) = pulled
  BY DEF CountedSoFar
<1>3. SeenBy(all, k) = SeenBy(all, k - 1) \cup (IF k \in NvmeAmong(all) THEN {all[k].serial} ELSE {})
  BY <1>1 DEF SeenBy
<1>4. k \in Again(all) <=>
        ~ (k \notin NvmeAmong(all) \/ k \in NamelessAmong(all) \/ all[k].serial \notin t.seen)
  BY <1>2, AgainIs
<1>5. CASE k \in Again(all)
  <2>1. u = t
    BY <1>4, <1>5, CountingIs DEF CountedIn
  <2>2. SeenBy(all, k) = SeenBy(all, k - 1)
    <3>1. all[k].serial \in t.seen
      BY <1>4, <1>5
    <3> QED BY <1>2, <1>3, <3>1
  <2>3. (1..k) \ Again(all) = (1..k-1) \ Again(all)
    BY <1>1, <1>5
  <2>4. CountedSoFar(all, t, k, pulled)
    BY <1>2, <2>2, <2>3 DEF CountedSoFar
  <2>5. pulled + (IF k \in Again(all) THEN 0 ELSE Pull(all, k)) = pulled
    BY <1>5
  <2> QED BY <2>1, <2>4, <2>5 DEF u
<1>6. CASE k \notin Again(all)
  <2> DEFINE s == t.drives
             more == IF k \in NvmeAmong(all) THEN {all[k].serial} ELSE {}
  <2>1. u = [drives |-> Append(s, k), seen |-> t.seen \cup more]
    BY <1>4, <1>6, CountingIs DEF CountedIn
  <2>2. u.drives = Append(s, k) /\ u.seen = t.seen \cup more
    <3> HIDE DEF u
    <3> QED BY <2>1
  <2>3. s \in Seq(DOMAIN all)
    BY <1>2
  <2> HIDE DEF s, u, more
  <2>4. u.drives \in Seq(DOMAIN all)
    BY <2>2, <2>3
  <2>5. {u.drives[i] : i \in DOMAIN u.drives} = (1..k) \ Again(all)
    <3> DEFINE n == Len(s)
    <3>1. DOMAIN s = 1..n /\ n \in Nat
      BY <2>3
    <3>2. DOMAIN u.drives = 1..n+1 /\ u.drives[n + 1] = k /\ \A i \in 1..n : u.drives[i] = s[i]
      BY <2>2, <2>3
    <3> HIDE DEF n
    <3>3. 1..n+1 = (1..n) \cup {n + 1}
      BY <3>1
    <3>4. {u.drives[i] : i \in DOMAIN u.drives} = {s[i] : i \in 1..n} \cup {k}
      BY <3>2, <3>3
    <3>5. {s[i] : i \in 1..n} = (1..k-1) \ Again(all)
      BY <1>2, <3>1 DEF s
    <3> QED BY <1>1, <1>6, <3>4, <3>5
  <2>6. u.seen = SeenBy(all, k)
    BY <1>2, <1>3, <2>2 DEF more
  <2>7. Total(PullsOf(all, u.drives)) = pulled + Pull(all, k)
    <3>1. PullsOf(all, u.drives) = Append(PullsOf(all, s), Pull(all, k)) /\ PullsOf(all, s) \in Seq(Int)
      BY <2>2, <2>3, PullsAreASeq
    <3>2. Pull(all, k) \in Int
      BY PullsAreNat
    <3>3. Total(Append(PullsOf(all, s), Pull(all, k))) = Total(PullsOf(all, s)) + Pull(all, k)
      BY <3>1, <3>2, TotalGrows
    <3>4. Total(PullsOf(all, s)) = pulled
      BY <1>2 DEF s
    <3> QED BY <3>1, <3>3, <3>4
  <2>8. pulled + (IF k \in Again(all) THEN 0 ELSE Pull(all, k)) = pulled + Pull(all, k)
    BY <1>6
  <2>9. CountedSoFar(all, u, k, pulled + Pull(all, k))
    BY <2>4, <2>5, <2>6, <2>7 DEF CountedSoFar
  <2> QED BY <2>8, <2>9 DEF u
<1> QED BY <1>5, <1>6

\* Counting from the first entry to the last.
LEMMA DrivesAreCounted ==
  ASSUME NEW all \in Seq(Sharers), NEW wants \in [0..Len(all) -> Int], wants[0] = 0,
         \A k \in 1..Len(all) : wants[k] = wants[k - 1] + (IF k \in Again(all) THEN 0 ELSE Pull(all, k))
  PROVE  /\ DrivesOn(all) \in Seq(DOMAIN all)
         /\ {DrivesOn(all)[i] : i \in DOMAIN DrivesOn(all)} = DOMAIN all \ Again(all)
         /\ Total(PullsOf(all, DrivesOn(all))) = wants[Len(all)]
<1> DEFINE n == Len(all)
           S == [drives : Seq(DOMAIN all), seen : SUBSET SerialsOf(all)]
           start == [drives |-> <<>>, seen |-> {}]
           step == [x \in (1..n) \X S |-> CountIn(all, x[2], x[1])]
           Eq(f) == f = [k \in 0..n |-> IF k = 0 THEN start ELSE CountIn(all, f[k - 1], k)]
           after == CHOOSE f : Eq(f)
<1>1. n \in Nat /\ DOMAIN all = 1..n
  OBVIOUS
<1>2. DrivesOn(all) = after[n].drives
  BY DEF DrivesOn
<1>3. start \in S
  <2> DEFINE P == Seq(DOMAIN all)
             Q == SUBSET SerialsOf(all)
  <2>1. <<>> \in P /\ {} \in Q
    OBVIOUS
  <2> HIDE DEF P, Q
  <2>2. start \in [drives : P, seen : Q]
    BY <2>1
  <2> QED BY <2>2 DEF P, Q
<1>4. ASSUME NEW k \in 1..n, NEW t \in S
      PROVE  CountIn(all, t, k) \in S
  <2> DEFINE P == Seq(DOMAIN all)
             Q == SUBSET SerialsOf(all)
             more == IF k \in NvmeAmong(all) THEN {all[k].serial} ELSE {}
             on == [drives |-> Append(t.drives, k), seen |-> t.seen \cup more]
  <2>1. t.drives \in P /\ t.seen \in Q
    OBVIOUS
  <2>2. Append(t.drives, k) \in P
    <3>1. k \in DOMAIN all
      BY <1>1
    <3>2. \A s \in Seq(DOMAIN all) : Append(s, k) \in Seq(DOMAIN all)
      BY <3>1
    <3> QED BY <2>1, <3>2
  <2>3. t.seen \cup more \in Q
    <3>1. all[k].serial \in SerialsOf(all)
      BY <1>1 DEF SerialsOf
    <3> HIDE DEF S
    <3> QED BY <2>1, <3>1
  <2>4. CountIn(all, t, k) = on \/ CountIn(all, t, k) = t
    <3> DEFINE c == k \notin NvmeAmong(all) \/ k \in NamelessAmong(all) \/ all[k].serial \notin t.seen
    <3>1. k \in DOMAIN all
      BY <1>1
    <3> HIDE DEF S, n
    <3>2. CountIn(all, t, k) = IF c THEN on ELSE t
      <4>1. CountIn(all, t, k) = CountedIn(all, t, k)
        BY <3>1, CountingIs
      <4> QED BY <4>1 DEF CountedIn
    <3> HIDE DEF c, on
    <3> QED BY <3>2
  <2>5. on \in S
    <3> HIDE DEF P, Q, more
    <3>1. on \in [drives : P, seen : Q]
      BY <2>2, <2>3
    <3> QED BY <3>1 DEF P, Q
  <2> HIDE DEF S, on
  <2> QED BY <2>4, <2>5
<1> HIDE DEF S, n
<1>5. step \in [(1..n) \X S -> S] /\ \A k \in 1..n, t \in S : step[<<k, t>>] = CountIn(all, t, k)
  <2>1. \A x \in (1..n) \X S : x[1] \in 1..n /\ x[2] \in S
    OBVIOUS
  <2>2. step \in [(1..n) \X S -> S]
    BY <1>4, <2>1
  <2>3. ASSUME NEW k \in 1..n, NEW t \in S
        PROVE  step[<<k, t>>] = CountIn(all, t, k)
    <3>1. <<k, t>> \in (1..n) \X S /\ <<k, t>>[1] = k /\ <<k, t>>[2] = t
      OBVIOUS
    <3> QED BY <3>1
  <2> HIDE DEF step
  <2> QED BY <2>2, <2>3
<1> HIDE DEF step, start
<1>6. PICK f \in [0..n -> S] : RunsThrough(f, n, start, step)
  BY <1>1, <1>3, <1>5, LoopRuns
<1>7. \A k \in 1..n : k - 1 \in 0..n /\ k \in 0..n /\ k # 0
  BY <1>1
<1>8. \A k \in 1..n : f[k] = CountIn(all, f[k - 1], k)
  BY <1>5, <1>6, <1>7 DEF RunsThrough
<1>9. Eq(f)
  <2>1. ASSUME NEW k \in 0..n
        PROVE  f[k] = IF k = 0 THEN start ELSE CountIn(all, f[k - 1], k)
    <3>1. CASE k = 0
      BY <1>6, <3>1 DEF RunsThrough
    <3>2. CASE k # 0
      <4>1. k \in 1..n
        BY <1>1, <3>2
      <4> QED BY <1>8, <3>2, <4>1
    <3> QED BY <3>1, <3>2
  <2> QED BY <1>6, <2>1
<1>10. Eq(after)
  <2> HIDE DEF Eq
  <2> QED BY <1>9
<1> HIDE DEF after
<1>11. after[0] = start /\ \A k \in 1..n : after[k] = CountIn(all, after[k - 1], k)
  <2>1. 0 \in 0..n
    BY <1>1
  <2> QED BY <1>7, <1>10, <2>1
<1> DEFINE A == {k \in 0..n : CountedSoFar(all, after[k], k, wants[k])}
<1>12. 0 \in A
  <2>1. start.drives = <<>> /\ start.seen = {}
    BY DEF start
  <2>2. PullsOf(all, <<>>) = <<>>
    BY DEF PullsOf
  <2>3. 1..0 = {}
    OBVIOUS
  <2>4. SeenBy(all, 0) = {}
    BY <2>3 DEF SeenBy
  <2>5. <<>> \in Seq(DOMAIN all) /\ {<<>>[i] : i \in DOMAIN <<>>} = {}
    OBVIOUS
  <2>6. CountedSoFar(all, start, 0, 0)
    BY <2>1, <2>2, <2>3, <2>4, <2>5, TotalOfNone DEF CountedSoFar
  <2> QED BY <1>1, <1>11, <2>6
<1>13. ASSUME NEW k \in 0..n-1, k \in A
       PROVE  k + 1 \in A
  <2>1. k + 1 \in 1..n /\ k + 1 \in 0..n /\ (k + 1) - 1 = k /\ k \in 0..n
    BY <1>1
  <2>2. k + 1 \in DOMAIN all
    BY <1>1, <2>1
  <2> DEFINE w == wants[k]
             t == after[k]
  <2>3. CountedSoFar(all, t, (k + 1) - 1, w) /\ w \in Int
    BY <1>13, <2>1 DEF n
  <2> HIDE DEF w, t
  <2> DEFINE j == k + 1
  <2>4. j \in DOMAIN all /\ CountedSoFar(all, t, j - 1, w)
    BY <2>2, <2>3
  <2> HIDE DEF j
  <2>5. CountedSoFar(all, CountIn(all, t, j), j, w + (IF j \in Again(all) THEN 0 ELSE Pull(all, j)))
    BY <2>3, <2>4, CountingGoesOn
  <2>6. j \in 1..n /\ j \in 0..n /\ j - 1 = k
    BY <2>1 DEF j
  <2>7. after[j] = CountIn(all, t, j)
    BY <1>11, <2>6 DEF t
  <2>8. wants[j] = w + (IF j \in Again(all) THEN 0 ELSE Pull(all, j))
    BY <2>6 DEF w, n
  <2>9. j \in A
    BY <2>5, <2>6, <2>7, <2>8
  <2> QED BY <2>9 DEF j
<1>14. n \in A
  <2> HIDE DEF A
  <2>1. 0..n \subseteq A
    BY <1>1, <1>12, <1>13, UpTo
  <2>2. n \in 0..n
    BY <1>1
  <2> QED BY <2>1, <2>2
<1> QED BY <1>1, <1>2, <1>14 DEF CountedSoFar, n

\* What is pulled is what each drive pulls that was read, once.
LEMMA DemandIsTotal ==
  ASSUME NEW all \in Seq(Sharers), NEW s \in Seq(DOMAIN all), s = DrivesOn(all)
  PROVE  AttachedDemand(all) = IF \E k \in {s[i] : i \in DOMAIN s} : all[k].demand > 0
                               THEN Total(PullsOf(all, s)) ELSE NotRead
<1> DEFINE read == {i \in DOMAIN s : all[s[i]].demand > 0}
           pulls == [i \in DOMAIN s |-> IF i \in read THEN all[s[i]].demand ELSE 0]
<1>1. AttachedDemand(all) = IF read = {} THEN NotRead ELSE FoldLeft(+, 0, pulls)
  BY DEF AttachedDemand
<1>2. pulls = PullsOf(all, s)
  BY DEF PullsOf, Pull
<1>3. FoldLeft(+, 0, pulls) = Total(pulls)
  BY DEF Total
<1>4. read # {} <=> \E k \in {s[i] : i \in DOMAIN s} : all[k].demand > 0
  OBVIOUS
<1> HIDE DEF read, pulls
<1> QED BY <1>1, <1>2, <1>3, <1>4

\* What is held of the drives that share a controller.
PulledOnce(all) ==
  LET twice == {k \in DOMAIN all : \E j \in 1..k-1 :
                  /\ all[k].bus = "nvme" /\ all[j].bus = "nvme"
                  /\ all[k].serial # "" /\ all[j].serial = all[k].serial}
      once  == {k \in DOMAIN all \ twice : all[k].demand > 0}
      wants[k \in 0..Len(all)] == IF k = 0 THEN 0 ELSE wants[k - 1] + (IF k \in once THEN all[k].demand ELSE 0)
  IN  /\ Range(DrivesOn(all)) = DOMAIN all \ twice
      /\ AttachedDemand(all) = IF once = {} THEN NotRead ELSE wants[Len(all)]

LEMMA AllPullOnce ==
  ASSUME NEW all \in Seq(Sharers)
  PROVE  PulledOnce(all)
<1> DEFINE n == Len(all)
           twice == {k \in DOMAIN all : \E j \in 1..k-1 :
                       /\ all[k].bus = "nvme" /\ all[j].bus = "nvme"
                       /\ all[k].serial # "" /\ all[j].serial = all[k].serial}
           once == {k \in DOMAIN all \ twice : all[k].demand > 0}
           Eq(f) == f = [k \in 0..n |-> IF k = 0 THEN 0 ELSE f[k - 1] + (IF k \in once THEN all[k].demand ELSE 0)]
           wants == CHOOSE f : Eq(f)
           s == DrivesOn(all)
<1>1. all \in Seq(Sharers)
  OBVIOUS
<1>2. twice = Again(all)
  BY DEF Again
<1>3. PulledOnce(all) <=> /\ Range(s) = DOMAIN all \ twice
                             /\ AttachedDemand(all) = IF once = {} THEN NotRead ELSE wants[n]
  BY DEF PulledOnce
<1> HIDE DEF twice
<1>4. n \in Nat /\ DOMAIN all = 1..n
  BY <1>1
<1>5. ASSUME NEW k \in 1..n
      PROVE  /\ (IF k \in once THEN all[k].demand ELSE 0) = (IF k \in Again(all) THEN 0 ELSE Pull(all, k))
             /\ (IF k \in once THEN all[k].demand ELSE 0) \in Int
  <2>1. k \in DOMAIN all
    BY <1>4
  <2>2. Pull(all, k) \in Int
    BY <1>1, <2>1, PullsAreNat
  <2>3. (IF k \in once THEN all[k].demand ELSE 0) = (IF k \in Again(all) THEN 0 ELSE Pull(all, k))
    BY <1>2, <2>1 DEF Pull
  <2> QED BY <2>2, <2>3
<1> DEFINE add == [k \in 1..n |-> IF k \in once THEN all[k].demand ELSE 0]
<1>6. add \in Seq(Int) /\ Len(add) = n /\ \A k \in 1..n : add[k] = IF k \in once THEN all[k].demand ELSE 0
  <2> DEFINE e(k) == IF k \in once THEN all[k].demand ELSE 0
  <2>1. \A k \in 1..n : e(k) \in Int
    BY <1>5
  <2>2. add = [k \in 1..n |-> e(k)]
    OBVIOUS
  <2> HIDE DEF add, e, n, once
  <2>3. add \in Seq(Int) /\ Len(add) = n /\ \A k \in 1..n : add[k] = e(k)
    BY <1>4, <2>1, <2>2
  <2> QED BY <2>3 DEF e
<1> HIDE DEF add, once, n
<1>7. PICK f \in [0..n -> Int] : f[0] = 0 /\ (\A k \in 1..n : f[k] = f[k - 1] + add[k]) /\ Total(add) = f[n]
  BY <1>6, TotalIsALoop
<1>8. Eq(f)
  <2>1. ASSUME NEW k \in 0..n
        PROVE  f[k] = IF k = 0 THEN 0 ELSE f[k - 1] + (IF k \in once THEN all[k].demand ELSE 0)
    <3>1. CASE k = 0
      BY <1>7, <3>1
    <3>2. CASE k # 0
      <4>1. k \in 1..n
        BY <1>4, <3>2
      <4> QED BY <1>6, <1>7, <3>2, <4>1
    <3> QED BY <3>1, <3>2
  <2> QED BY <1>7, <2>1
<1>9. Eq(wants)
  <2> HIDE DEF Eq
  <2> QED BY <1>8
<1> HIDE DEF wants
<1>10. wants[0] = 0 /\ \A k \in 1..n : wants[k] = wants[k - 1] + add[k]
  <2>1. 0 \in 0..n /\ \A k \in 1..n : k \in 0..n /\ k # 0
    BY <1>4
  <2>2. wants[0] = 0
    BY <1>9, <2>1
  <2>3. \A k \in 1..n : wants[k] = wants[k - 1] + (IF k \in once THEN all[k].demand ELSE 0)
    BY <1>9, <2>1
  <2> QED BY <1>6, <2>2, <2>3
<1>11. SameUpTo(n, wants, f)
  <2>1. GoOnAlike(n, wants, f)
    BY <1>7, <1>10 DEF GoOnAlike
  <2> QED BY <1>4, <2>1, LoopsAreOne
<1>12. wants[n] = f[n]
  BY <1>4, <1>11 DEF SameUpTo
<1>13. \A k \in 1..Len(all) : f[k] = f[k - 1] + (IF k \in Again(all) THEN 0 ELSE Pull(all, k))
  BY <1>5, <1>6, <1>7 DEF n
<1>14. /\ s \in Seq(DOMAIN all)
       /\ {s[i] : i \in DOMAIN s} = DOMAIN all \ Again(all)
       /\ Total(PullsOf(all, s)) = f[n]
  <2>1. f \in [0..Len(all) -> Int] /\ f[0] = 0
    BY <1>7 DEF n
  <2> HIDE DEF s
  <2> QED BY <1>1, <1>13, <2>1, DrivesAreCounted DEF s, n
<1>15. AttachedDemand(all) = IF \E k \in {s[i] : i \in DOMAIN s} : all[k].demand > 0
                             THEN Total(PullsOf(all, s)) ELSE NotRead
  BY <1>1, <1>14, DemandIsTotal
<1>16. once # {} <=> \E k \in {s[i] : i \in DOMAIN s} : all[k].demand > 0
  <2> HIDE DEF s
  <2> QED BY <1>2, <1>14 DEF once
<1>17. Range(s) = DOMAIN all \ twice
  BY <1>2, <1>14 DEF Range
<1>18. AttachedDemand(all) = IF once = {} THEN NotRead ELSE wants[n]
  <2> HIDE DEF s
  <2> QED BY <1>12, <1>14, <1>15, <1>16
<1> QED BY <1>3, <1>17, <1>18

LEMMA DrivesPullOnce ==
  ASSUME topic = "shared drives" => input \in Seq(Sharers)
  PROVE  EachDrivePullsOnce
BY AllPullOnce DEF EachDrivePullsOnce, PulledOnce

-----------------------------------------------------------------------------
(* The machines that are asked about.                                      *)

DrivesAsked ==
  /\ topic = "swaps" => input \in Seq(Entries)
  /\ topic = "free ports" => input \in Seq(Adapters)
  /\ topic = "shared drives" => input \in Seq(Sharers)
  /\ topic = "usb" => input \in UsbLinks

LEMMA OneMore ==
  ASSUME NEW S, NEW s \in Seq(S), NEW x \in S
  PROVE  Append(s, x) \in Seq(S)
  OBVIOUS

LEMMA EntriesGrow ==
  ASSUME input \in Seq(Entries), AddDrive
  PROVE  input' \in Seq(Entries)
<1>1. PICK d \in Rates, p \in Rates, again \in BOOLEAN :
        /\ again => input # <<>>
        /\ input' = Append(input, [node |-> IF again THEN Last(input).node ELSE Len(input) + 1,
                                   link |-> [running |-> NotRead, drive |-> d, port |-> p]])
  BY DEF AddDrive, Build
<1> DEFINE name == IF again THEN Last(input).node ELSE Len(input) + 1
           link == [running |-> NotRead, drive |-> d, port |-> p]
<1>2. name \in Nat
  <2>1. CASE again
    <3>1. Last(input) = input[Len(input)] /\ input # <<>>
      BY <1>1, <2>1 DEF Last
    <3>2. Len(input) \in DOMAIN input
      <4>1. Len(input) \in Nat /\ DOMAIN input = 1..Len(input) /\ Len(input) # 0
        BY <3>1
      <4> QED BY <4>1
    <3>3. input[Len(input)] \in Entries
      BY <3>2
    <3>4. Last(input).node \in Nat
      BY <3>1, <3>3 DEF Entries
    <3> QED BY <2>1, <3>4
  <2>2. CASE ~again
    <3>1. Len(input) \in Nat
      OBVIOUS
    <3>2. Len(input) + 1 \in Nat
      BY <3>1
    <3> QED BY <2>2, <3>2
  <2> QED BY <2>1, <2>2
<1>3. link \in [running : {NotRead}, drive : Rates, port : Rates]
  OBVIOUS
<1> HIDE DEF name, link
<1>4. [node |-> name, link |-> link] \in Entries
  BY <1>2, <1>3 DEF Entries
<1>5. input' = Append(input, [node |-> name, link |-> link])
  BY <1>1 DEF name, link
<1> QED BY <1>4, <1>5, OneMore

LEMMA AdaptersGrow ==
  ASSUME input \in Seq(Adapters), AddController
  PROVE  input' \in Seq(Adapters)
<1>1. PICK rate \in Rates \cup {NotRead}, free \in {NotRead, 0, 1} :
        input' = Append(input, [rate |-> rate, free |-> free])
  BY DEF AddController, Build
<1>2. [rate |-> rate, free |-> free] \in Adapters
  BY DEF Adapters
<1> QED BY <1>1, <1>2, OneMore

LEMMA SharersGrow ==
  ASSUME input \in Seq(Sharers), AddEntry
  PROVE  input' \in Seq(Sharers)
<1>1. PICK bus \in {"nvme", "sata"}, serial \in {"", "a", "b"}, demand \in {NotRead, 1, 2} :
        input' = Append(input, [bus |-> bus, serial |-> serial, demand |-> demand])
  BY DEF AddEntry, Build
<1>2. [bus |-> bus, serial |-> serial, demand |-> demand] \in Sharers
  BY DEF Sharers
<1> QED BY <1>1, <1>2, OneMore

\* Each begins with nothing, or with a link as it was read.
LEMMA DrivesStart ==
  ASSUME AskAboutPorts
  PROVE  DrivesAsked
<1>1. CASE Ask("swaps", <<>>) \/ Ask("free ports", <<>>) \/ Ask("shared drives", <<>>)
  <2>1. <<>> \in Seq(Entries) /\ <<>> \in Seq(Adapters) /\ <<>> \in Seq(Sharers)
    OBVIOUS
  <2>2. input = <<>> /\ topic # "usb"
    BY <1>1 DEF Ask
  <2> QED BY <2>1, <2>2 DEF DrivesAsked
<1>2. ASSUME NEW r \in UsbRanks \cup {NotRead}, NEW d \in UsbRanks \cup {NotRead},
             NEW p \in UsbRanks \cup {NotRead}, NEW u \in UsbRanks \cup {NotRead}, NEW t \in {"yes", "no"},
             Ask("usb", [running |-> r, device |-> d, port |-> p, upstream |-> u, twin |-> t])
      PROVE  DrivesAsked
  <2>1. topic = "usb" /\ input = [running |-> r, device |-> d, port |-> p, upstream |-> u, twin |-> t]
    BY <1>2 DEF Ask
  <2>2. [running |-> r, device |-> d, port |-> p, upstream |-> u, twin |-> t] \in UsbLinks
    BY DEF UsbLinks
  <2>3. input \in UsbLinks /\ topic \notin {"swaps", "free ports", "shared drives"}
    BY <2>1, <2>2
  <2> QED BY <2>3 DEF DrivesAsked
<1> QED BY <1>1, <1>2 DEF AskAboutPorts
=============================================================================
