------------------------------ MODULE TimerProof ----------------------------
(* Proofs about Timer: the list of differences counts every timer down as    *)
(* Countdown says, the counters account for every message in flight, and     *)
(* ml_timer_is_message_valid() rejects exactly the stale ones.               *)
EXTENDS Timer, FiniteSetTheorems, SequenceTheorems, WellFoundedInduction, TLAPS

\* A set of natural numbers with 0 and the successor of each of its members
\* holds every natural number.
LEMMA SetInduction ==
  ASSUME NEW T \in SUBSET Nat, 0 \in T, \A n \in T : n + 1 \in T
  PROVE  T = Nat
<1> SUFFICES ASSUME Nat \ T # {} PROVE FALSE
  OBVIOUS
<1> DEFINE S == Nat \ T
           R == OpToRel(<, Nat)
<1>1. IsWellFoundedOn(R, Nat)
  BY NatLessThanWellFounded
<1>2. PICK n \in S : \A m \in S : ~(<<m, n>> \in R)
  <2> HIDE DEF R
  <2> QED
    BY <1>1, WFMin
<1>3. n # 0 /\ n - 1 \in Nat
  OBVIOUS
<1>4. n - 1 \notin T
  BY <1>3
<1>5. <<n - 1, n>> \in R
  BY <1>3 DEF OpToRel
<1> QED
  BY <1>2, <1>3, <1>4, <1>5

-----------------------------------------------------------------------------
(* The sums of the differences                                               *)

Sums(l, d, s) == /\ s[0] = 0
                 /\ \A i \in 1 .. Len(l) : s[i] = s[i - 1] + d[l[i]]

\* The recursive definition of the sums has a solution, and it is natural.
LEMMA SumIs ==
  ASSUME NEW l \in Seq(Timers), NEW d \in [Timers -> Nat]
  PROVE  Sums(l, d, Sum(l, d)) /\ Sum(l, d) \in [0 .. Len(l) -> Nat]
<1> DEFINE n == Len(l)
           Step(f, i) == IF i = 0 THEN 0 ELSE f[i - 1] + d[l[i]]
           Upto(k, f) == /\ f \in [0 .. n -> Nat]
                         /\ \A i \in 0 .. n : i <= k => f[i] = Step(f, i)
           T == {k \in Nat : \E f \in [0 .. n -> Nat] : Upto(k, f)}
<1>0. n \in Nat /\ \A i \in 1 .. n : l[i] \in Timers /\ d[l[i]] \in Nat
  OBVIOUS
<1> HIDE DEF n
<1>1. 0 \in T
  <2>1. Upto(0, [i \in 0 .. n |-> 0])
    BY <1>0
  <2> QED
    BY <2>1
<1>2. ASSUME NEW k \in T PROVE k + 1 \in T
  <2>1. k \in Nat /\ k + 1 \in Nat
    OBVIOUS
  <2>2. PICK f \in [0 .. n -> Nat] : Upto(k, f)
    BY <1>2
  <2>3. CASE k + 1 > n
    <3>1. Upto(k + 1, f)
      BY <1>0, <2>1, <2>2, <2>3
    <3> QED
      BY <2>1, <3>1
  <2>4. CASE k + 1 <= n
    <3> DEFINE g == [f EXCEPT ![k + 1] = f[k] + d[l[k + 1]]]
    <3>1. k \in 0 .. n /\ k + 1 \in 1 .. n /\ k + 1 \in 0 .. n /\ f[k] \in Nat
      BY <1>0, <2>1, <2>4
    <3>2. g \in [0 .. n -> Nat] /\ g[k + 1] = f[k] + d[l[k + 1]]
      <4>0. d[l[k + 1]] \in Nat
        BY <1>0, <3>1
      <4> HIDE DEF T
      <4>1. f[k] + d[l[k + 1]] \in Nat
        BY <3>1, <4>0
      <4> QED
        BY <3>1, <4>1
    <3>3. \A i \in 0 .. n : i # k + 1 => g[i] = f[i]
      BY <3>1
    <3> HIDE DEF g
    <3>4. ASSUME NEW i \in 0 .. n, i <= k + 1 PROVE g[i] = Step(g, i)
      <4>1. CASE i = k + 1
        BY <1>0, <2>1, <3>1, <3>2, <3>3, <4>1, SMTT(30)
      <4>2. CASE i = 0
        BY <1>0, <2>1, <2>2, <3>3, <4>2
      <4>3. CASE i # k + 1 /\ i # 0
        <5>1. i <= k /\ i - 1 \in 0 .. n /\ i - 1 # k + 1 /\ i # 0
          BY <1>0, <2>1, <3>4, <4>3
        <5>2. g[i] = f[i] /\ g[i - 1] = f[i - 1]
          BY <3>3, <5>1, <4>3
        <5>3. f[i] = Step(f, i)
          BY <2>2, <5>1
        <5> QED
          BY <5>1, <5>2, <5>3
      <4> QED
        BY <4>1, <4>2, <4>3
    <3>5. Upto(k + 1, g)
      BY <3>2, <3>4
    <3> QED
      BY <2>1, <3>2, <3>5
  <2>5. k + 1 > n \/ k + 1 <= n
    BY <1>0, <2>1
  <2> HIDE DEF T
  <2> QED
    BY <2>3, <2>4, <2>5
<1>3. n \in T
  <2> HIDE DEF T
  <2>1. T \in SUBSET Nat
    BY DEF T
  <2> QED
    BY <1>0, <1>1, <1>2, <2>1, SetInduction
<1>4. PICK f \in [0 .. n -> Nat] : Upto(n, f)
  BY <1>3
<1>5. f = [i \in 0 .. n |-> Step(f, i)]
  BY <1>0, <1>4
<1> DEFINE s == CHOOSE g : g = [i \in 0 .. n |-> IF i = 0 THEN 0 ELSE g[i - 1] + d[l[i]]]
<1>6. s = [i \in 0 .. n |-> IF i = 0 THEN 0 ELSE s[i - 1] + d[l[i]]]
  BY <1>5
<1>7. Sum(l, d) = s
  BY DEF Sum, n
<1> HIDE DEF s
<1>8. Sums(l, d, s)
  <2>1. s[0] = 0
    BY <1>0, <1>6
  <2>2. ASSUME NEW i \in 1 .. n PROVE s[i] = s[i - 1] + d[l[i]]
    <3>1. i \in 0 .. n /\ i # 0
      BY <1>0
    <3> QED
      BY <1>6, <3>1
  <2> QED
    BY <2>1, <2>2 DEF Sums, n
<1>9. \A i \in 0 .. n : s[i] \in Nat
  <2> DEFINE U == {k \in Nat : k <= n => s[k] \in Nat}
  <2>1. 0 \in U
    BY <1>8 DEF Sums
  <2>2. ASSUME NEW k \in U PROVE k + 1 \in U
    <3>1. CASE k + 1 <= n
      <4>1. k + 1 \in 1 .. n /\ k <= n /\ s[k] \in Nat /\ (k + 1) - 1 = k
        BY <1>0, <3>1
      <4>2. s[k + 1] = s[k] + d[l[k + 1]]
        BY <1>8, <4>1 DEF Sums, n
      <4> QED
        BY <1>0, <4>1, <4>2
    <3>2. CASE ~(k + 1 <= n)
      BY <3>2
    <3> QED
      BY <3>1, <3>2
  <2> HIDE DEF U
  <2>3. U = Nat
    <3>1. U \in SUBSET Nat
      BY DEF U
    <3> QED
      BY <2>1, <2>2, <3>1, SetInduction
  <2>4. \A i \in Nat : i <= n => s[i] \in Nat
    BY <2>3 DEF U
  <2>5. \A i \in 0 .. n : i \in Nat /\ i <= n
    BY <1>0
  <2> QED
    BY <2>4, <2>5
<1> QED
  BY <1>6, <1>7, <1>8, <1>9 DEF n

\* There is one solution.
LEMMA SumsAgree ==
  ASSUME NEW l \in Seq(Timers), NEW d \in [Timers -> Nat], NEW s, Sums(l, d, s)
  PROVE  \A i \in 0 .. Len(l) : s[i] = Sum(l, d)[i]
<1> DEFINE n == Len(l)
           r == Sum(l, d)
           U == {k \in Nat : k <= n => s[k] = r[k]}
<1>1. Sums(l, d, r) /\ n \in Nat
  BY SumIs
<1> HIDE DEF r
<1>2. 0 \in U
  BY <1>1 DEF Sums
<1>3. ASSUME NEW k \in U PROVE k + 1 \in U
  <2>1. CASE k + 1 <= n
    <3>1. k + 1 \in 1 .. n /\ k <= n /\ (k + 1) - 1 = k /\ s[k] = r[k]
      BY <1>1, <2>1
    <3>2. s[k + 1] = s[k] + d[l[k + 1]] /\ r[k + 1] = r[k] + d[l[k + 1]]
      BY <1>1, <3>1 DEF Sums
    <3> QED
      BY <3>1, <3>2
  <2>2. CASE ~(k + 1 <= n)
    BY <2>2
  <2> QED
    BY <2>1, <2>2
<1> HIDE DEF U
<1>4. U = Nat
  <2>1. U \in SUBSET Nat
    BY DEF U
  <2> QED
    BY <1>2, <1>3, <2>1, SetInduction
<1> QED
  BY <1>1, <1>4 DEF U, r

\* The sums never decrease along the list.
LEMMA SumGrows ==
  ASSUME NEW l \in Seq(Timers), NEW d \in [Timers -> Nat]
  PROVE  \A i, j \in 0 .. Len(l) : i <= j => Sum(l, d)[i] <= Sum(l, d)[j]
<1> DEFINE n == Len(l)
           s == Sum(l, d)
<1> SUFFICES ASSUME NEW i \in 0 .. n PROVE \A j \in 0 .. n : i <= j => s[i] <= s[j]
  OBVIOUS
<1> DEFINE U == {k \in Nat : i <= k /\ k <= n => s[i] <= s[k]}
<1>1. Sums(l, d, s) /\ n \in Nat /\ \A j \in 0 .. n : s[j] \in Nat
  BY SumIs
<1>2. \A j \in 1 .. n : d[l[j]] \in Nat
  OBVIOUS
<1> HIDE DEF s, n
<1>3. 0 \in U
  BY <1>1
<1>4. ASSUME NEW k \in U PROVE k + 1 \in U
  <2>1. CASE i <= k /\ k + 1 <= n
    <3>1. k + 1 \in 1 .. n /\ k \in 0 .. n /\ (k + 1) - 1 = k /\ s[i] <= s[k]
      BY <1>1, <2>1
    <3>2. s[k + 1] = s[k] + d[l[k + 1]]
      BY <1>1, <3>1 DEF Sums, n
    <3>3. s[k] \in Nat /\ d[l[k + 1]] \in Nat /\ s[i] \in Nat
      BY <1>1, <1>2, <3>1
    <3> QED
      BY <3>1, <3>2, <3>3
  <2>2. CASE i = k + 1 /\ k + 1 <= n
    BY <1>1, <2>2
  <2>3. CASE ~(i <= k + 1 /\ k + 1 <= n)
    BY <2>3
  <2> QED
    BY <1>1, <2>1, <2>2, <2>3
<1> HIDE DEF U
<1>5. U = Nat
  <2>1. U \in SUBSET Nat
    BY DEF U
  <2> QED
    BY <1>3, <1>4, <2>1, SetInduction
<1>6. \A j \in Nat : i <= j /\ j <= n => s[i] <= s[j]
  BY <1>5 DEF U
<1>7. \A j \in 0 .. n : j \in Nat /\ j <= n
  BY <1>1
<1> QED
  BY <1>6, <1>7

-----------------------------------------------------------------------------
(* The operations of the list                                                *)

\* A number that fits in an unsigned int is not changed by it.
LEMMA NoWrap == ASSUME NEW x \in 0 .. UINT_MOD - 1 PROVE x % UINT_MOD = x
BY TimerAssumption

\* The members of a concatenation.
LEMMA ConcatAt ==
  ASSUME NEW S, NEW a \in Seq(S), NEW b \in Seq(S)
  PROVE  /\ a \o b \in Seq(S)
         /\ Len(a \o b) = Len(a) + Len(b)
         /\ \A i \in 1 .. Len(a) : (a \o b)[i] = a[i]
         /\ \A i \in Len(a) + 1 .. Len(a) + Len(b) : (a \o b)[i] = b[i - Len(a)]
<1> DEFINE m == Len(a)
           n == Len(b)
<1>1. /\ a \o b \in Seq(S) /\ Len(a \o b) = m + n /\ m \in Nat /\ n \in Nat
      /\ \A i \in 1 .. m + n : (a \o b)[i] = IF i <= m THEN a[i] ELSE b[i - m]
  BY ConcatProperties
<1> HIDE DEF m, n
<1>2. \A i \in 1 .. m : i \in 1 .. m + n /\ i <= m
  BY <1>1
<1>3. \A i \in m + 1 .. m + n : i \in 1 .. m + n /\ ~(i <= m)
  BY <1>1
<1>4. \A i \in 1 .. m : (a \o b)[i] = a[i]
  BY <1>1, <1>2
<1>5. \A i \in m + 1 .. m + n : (a \o b)[i] = b[i - m]
  BY <1>1, <1>3
<1> QED
  BY <1>1, <1>4, <1>5 DEF m, n

\* A set of positions that holds every position before one of its own is a
\* prefix, as long as it has members.
LEMMA PrefixIs ==
  ASSUME NEW n \in Nat, NEW K \in SUBSET (1 .. n), \A i \in K : \A j \in 1 .. i : j \in K
  PROVE  /\ Cardinality(K) \in 0 .. n
         /\ K = 1 .. Cardinality(K)
<1> DEFINE T == {m \in Nat : 1 .. m \subseteq K}
<1>1. 0 \in T
  OBVIOUS
<1>2. ~(\A m \in T : m + 1 \in T)
  <2> SUFFICES ASSUME \A m \in T : m + 1 \in T PROVE FALSE
    OBVIOUS
  <2> HIDE DEF T
  <2>1. n + 1 \in T
    <3>1. T \in SUBSET Nat
      BY DEF T
    <3> QED
      BY <1>1, <3>1, SetInduction
  <2>2. n + 1 \in K
    BY <2>1 DEF T
  <2> QED
    BY <2>2
<1>3. PICK m \in Nat : 1 .. m \subseteq K /\ ~(1 .. (m + 1) \subseteq K)
  BY <1>2
<1>4. m + 1 \notin K
  <2>1. \A i \in 1 .. (m + 1) : i \in 1 .. m \/ i = m + 1
    OBVIOUS
  <2> QED
    BY <1>3, <2>1
<1>5. ASSUME NEW i \in K PROVE i \in 1 .. m
  <2>1. CASE i > m
    <3>1. m + 1 \in 1 .. i
      BY <2>1
    <3> QED
      BY <1>4, <3>1
  <2> QED
    BY <2>1
<1>6. K = 1 .. m
  BY <1>3, <1>5
<1>7. Cardinality(K) = m
  BY <1>6, FS_Interval
<1>8. m <= n
  <2>1. CASE m = 0
    BY <2>1
  <2>2. CASE m # 0
    <3>1. m \in K
      BY <1>6, <2>2
    <3> QED
      BY <3>1
  <2> QED
    BY <2>1, <2>2
<1> QED
  BY <1>6, <1>7, <1>8

Distinct(l) == \A i, j \in 1 .. Len(l) : l[i] = l[j] => i = j

\* A list whose timers all expire before the counters wrap.
Good(l, d) ==
  /\ l \in Seq(Timers)
  /\ d \in [Timers -> 0 .. UINT_MOD - 1]
  /\ Distinct(l)
  /\ \A i \in 1 .. Len(l) : Sum(l, d)[i] < UINT_MOD

Listed(l) == {l[i] : i \in 1 .. Len(l)}

\* Ticks until a timer of the list expires.
Left(l, d, t) == Sum(l, d)[CHOOSE i \in 1 .. Len(l) : l[i] = t]

\* What Good says, with the sums that exist.
LEMMA GoodSums ==
  ASSUME NEW l, NEW d, Good(l, d)
  PROVE  /\ l \in Seq(Timers) /\ d \in [Timers -> 0 .. UINT_MOD - 1] /\ d \in [Timers -> Nat]
         /\ Len(l) \in Nat /\ Distinct(l) /\ UINT_MOD \in Nat \ {0}
         /\ \A i \in 1 .. Len(l) : /\ l[i] \in Timers
                                   /\ d[l[i]] \in 0 .. UINT_MOD - 1
                                   /\ i - 1 \in 0 .. Len(l)
                                   /\ Sum(l, d)[i] = Sum(l, d)[i - 1] + d[l[i]]
         /\ \A i \in 0 .. Len(l) : Sum(l, d)[i] \in 0 .. UINT_MOD - 1
         /\ Sum(l, d)[0] = 0
         /\ \A i, j \in 0 .. Len(l) : i <= j => Sum(l, d)[i] <= Sum(l, d)[j]
         /\ \A i \in 1 .. Len(l) : Left(l, d, l[i]) = Sum(l, d)[i]
<1>1. /\ l \in Seq(Timers) /\ d \in [Timers -> 0 .. UINT_MOD - 1] /\ UINT_MOD \in Nat \ {0}
      /\ Len(l) \in Nat /\ Distinct(l)
  BY TimerAssumption DEF Good
<1>2. d \in [Timers -> Nat]
  BY <1>1
<1>3. \A i \in 1 .. Len(l) : l[i] \in Timers /\ d[l[i]] \in 0 .. UINT_MOD - 1 /\ i - 1 \in 0 .. Len(l)
  BY <1>1
<1> DEFINE s == Sum(l, d)
<1>4. Sums(l, d, s) /\ s \in [0 .. Len(l) -> Nat]
  BY <1>1, <1>2, SumIs
<1>5. \A i, j \in 0 .. Len(l) : i <= j => s[i] <= s[j]
  BY <1>1, <1>2, SumGrows
<1>6. \A i \in 1 .. Len(l) : s[i] < UINT_MOD
  BY DEF Good
<1>7. ASSUME NEW i \in 1 .. Len(l) PROVE Left(l, d, l[i]) = s[i]
  <2>1. \A j \in 1 .. Len(l) : l[j] = l[i] => j = i
    BY <1>1 DEF Distinct
  <2>2. (CHOOSE j \in 1 .. Len(l) : l[j] = l[i]) = i
    BY <2>1
  <2> QED
    BY <2>2 DEF Left
<1> HIDE DEF s
<1>8. \A i \in 0 .. Len(l) : s[i] \in 0 .. UINT_MOD - 1
  <2> TAKE i \in 0 .. Len(l)
  <2>1. s[i] \in Nat
    BY <1>4
  <2>2. CASE i = 0
    BY <1>1, <1>4, <2>2 DEF Sums
  <2>3. CASE i # 0
    BY <1>1, <1>6, <2>1, <2>3
  <2> QED
    BY <2>2, <2>3
<1> QED
  BY <1>1, <1>2, <1>3, <1>4, <1>5, <1>7, <1>8 DEF Sums, s

\* Two lists with the same ticks left.
Same(l, d, l2, d2, T) == \A u \in T : Left(l2, d2, u) = Left(l, d, u)

\* A list is good if the differences add up to sums that fit.
LEMMA GoodFrom ==
  ASSUME NEW l \in Seq(Timers), NEW d \in [Timers -> 0 .. UINT_MOD - 1], Distinct(l),
         NEW s, Sums(l, d, s), \A i \in 1 .. Len(l) : s[i] < UINT_MOD
  PROVE  /\ Good(l, d)
         /\ \A i \in 1 .. Len(l) : Left(l, d, l[i]) = s[i]
<1>1. d \in [Timers -> Nat]
  BY TimerAssumption
<1>2. \A i \in 0 .. Len(l) : s[i] = Sum(l, d)[i]
  BY <1>1, SumsAgree
<1>3. \A i \in 1 .. Len(l) : s[i] = Sum(l, d)[i]
  <2>1. \A i \in 1 .. Len(l) : i \in 0 .. Len(l)
    OBVIOUS
  <2> QED
    BY <1>2, <2>1
<1>4. Good(l, d)
  BY <1>3 DEF Good
<1>5. \A i \in 1 .. Len(l) : Left(l, d, l[i]) = Sum(l, d)[i]
  BY <1>4, GoodSums, SMTT(30)
<1> QED
  BY <1>3, <1>4, <1>5, Zenon

\* timer_list_insert() adds a timer with its ticks and keeps those of the others.
LEMMA InsertIs ==
  ASSUME NEW l, NEW d, Good(l, d), NEW t \in Timers, t \notin Listed(l),
         NEW ticks \in 0 .. UINT_MOD - 1
  PROVE  LET new == timer_list_insert(l, d, t, ticks)
         IN  /\ Good(new.list, new.delta)
             /\ Listed(new.list) = Listed(l) \cup {t}
             /\ Left(new.list, new.delta, t) = ticks
             /\ Same(l, d, new.list, new.delta, Listed(l))
<1> DEFINE n == Len(l)
           s == Sum(l, d)
           K == {i \in 1 .. n : s[i] < ticks}
           k == Cardinality(K)
           left == ticks - s[k]
           l2 == SubSeq(l, 1, k) \o <<t>> \o SubSeq(l, k + 1, n)
           d2 == [u \in Timers |-> IF u = t THEN left
                                   ELSE IF k < n /\ u = l[k + 1] THEN Minus(d[u], left)
                                   ELSE d[u]]
           g == [i \in 0 .. n + 1 |-> IF i <= k THEN s[i] ELSE IF i = k + 1 THEN ticks
                                      ELSE s[i - 1]]
<1>1. /\ l \in Seq(Timers) /\ d \in [Timers -> 0 .. UINT_MOD - 1] /\ d \in [Timers -> Nat]
      /\ n \in Nat /\ Distinct(l) /\ UINT_MOD \in Nat \ {0}
      /\ \A i \in 1 .. n : /\ l[i] \in Timers
                           /\ d[l[i]] \in 0 .. UINT_MOD - 1
                           /\ i - 1 \in 0 .. n
                           /\ s[i] = s[i - 1] + d[l[i]]
      /\ \A i \in 0 .. n : s[i] \in 0 .. UINT_MOD - 1
      /\ s[0] = 0
      /\ \A i, j \in 0 .. n : i <= j => s[i] <= s[j]
      /\ \A i \in 1 .. n : Left(l, d, l[i]) = s[i]
  BY GoodSums
<1>2. LET new == timer_list_insert(l, d, t, ticks) IN new.list = l2 /\ new.delta = d2
  BY DEF timer_list_insert
<1>3. \A i \in 1 .. n : l[i] # t
  BY DEF Listed
<1> HIDE DEF s
<1>4. /\ k \in 0 .. n
      /\ \A i \in 1 .. n : s[i] < ticks <=> i <= k
  <2>1. \A i \in K : \A j \in 1 .. i : j \in K
    <3> TAKE i \in K
    <3> TAKE j \in 1 .. i
    <3>1. i \in 0 .. n /\ j \in 0 .. n /\ j \in 1 .. n /\ j <= i /\ s[i] < ticks
      BY <1>1
    <3>2. s[j] <= s[i] /\ s[j] \in Nat /\ s[i] \in Nat
      BY <1>1, <3>1
    <3> QED
      BY <3>1, <3>2
  <2>2. k \in 0 .. n /\ K = 1 .. k
    <3> HIDE DEF K
    <3>1. K \in SUBSET (1 .. n)
      BY DEF K
    <3> QED
      BY <1>1, <2>1, <3>1, PrefixIs
  <2>3. \A i \in 1 .. n : s[i] < ticks <=> i \in K
    OBVIOUS
  <2> HIDE DEF k, K, n
  <2>4. \A i \in 1 .. n : i \in 1 .. k <=> i <= k
    BY <1>1, <2>2
  <2> QED
    BY <2>2, <2>3, <2>4
<1> HIDE DEF K, k
<1>0. n \in Nat /\ k \in 0 .. n /\ k \in Nat /\ k <= n
  BY <1>1, <1>4
<1>5. left \in 0 .. UINT_MOD - 1 /\ s[k] <= ticks
  <2>1. s[k] \in 0 .. UINT_MOD - 1
    BY <1>1, <1>4
  <2>2. s[k] <= ticks
    <3>1. CASE k = 0
      BY <1>1, <3>1
    <3>2. CASE k # 0
      BY <1>1, <1>4, <2>1, <3>2
    <3> QED
      BY <3>1, <3>2
  <2> QED
    BY <1>1, <2>1, <2>2
<1>6. /\ l2 \in Seq(Timers) /\ Len(l2) = n + 1
      /\ \A i \in 1 .. k : l2[i] = l[i]
      /\ l2[k + 1] = t
      /\ \A i \in k + 2 .. n + 1 : l2[i] = l[i - 1]
  <2>1. /\ SubSeq(l, 1, k) \in Seq(Timers) /\ Len(SubSeq(l, 1, k)) = k
        /\ \A i \in 1 .. k : SubSeq(l, 1, k)[i] = l[i]
    BY <1>1, <1>4
  <2>2. /\ SubSeq(l, k + 1, n) \in Seq(Timers) /\ Len(SubSeq(l, k + 1, n)) = n - k
        /\ \A i \in 1 .. n - k : SubSeq(l, k + 1, n)[i] = l[k + i]
    BY <1>1, <1>4
  <2> DEFINE a == SubSeq(l, 1, k)
             b == SubSeq(l, k + 1, n)
  <2> HIDE DEF a, b, n
  <2>3. /\ (a \o <<t>>) \in Seq(Timers) /\ Len(a \o <<t>>) = k + 1
        /\ \A i \in 1 .. k : (a \o <<t>>)[i] = a[i]
        /\ (a \o <<t>>)[k + 1] = t
    BY <1>0, <2>1 DEF a
  <2> DEFINE c == a \o <<t>>
  <2> HIDE DEF c
  <2>4. /\ (c \o b) \in Seq(Timers) /\ Len(c \o b) = n + 1
        /\ \A i \in 1 .. k + 1 : (c \o b)[i] = c[i]
        /\ \A i \in k + 2 .. n + 1 : (c \o b)[i] = b[i - (k + 1)]
    <3>1. /\ c \in Seq(Timers) /\ Len(c) = k + 1
          /\ b \in Seq(Timers) /\ Len(b) = n - k
      BY <2>2, <2>3 DEF b, c
    <3>2. (k + 1) + (n - k) = n + 1 /\ (k + 1) + 1 = k + 2
      BY <1>0
    <3>3. /\ c \o b \in Seq(Timers)
          /\ Len(c \o b) = Len(c) + Len(b)
          /\ \A i \in 1 .. Len(c) : (c \o b)[i] = c[i]
          /\ \A i \in Len(c) + 1 .. Len(c) + Len(b) : (c \o b)[i] = b[i - Len(c)]
      BY <3>1, ConcatAt, Zenon
    <3>4. Len(c) + Len(b) = n + 1 /\ Len(c) + 1 = k + 2
      BY <3>1, <3>2, Zenon
    <3>5. \A i \in 1 .. k + 1 : (c \o b)[i] = c[i]
      BY <3>1, <3>3, Zenon
    <3>6. \A i \in k + 2 .. n + 1 : (c \o b)[i] = b[i - Len(c)]
      BY <3>3, <3>4, Zenon
    <3>7. \A i \in k + 2 .. n + 1 : (c \o b)[i] = b[i - (k + 1)]
      BY <3>1, <3>6, Zenon
    <3> QED
      BY <3>3, <3>4, <3>5, <3>7, Zenon
  <2>5. l2 = c \o b
    BY DEF a, b, c
  <2>6. \A i \in 1 .. k : i \in 1 .. k + 1 /\ c[i] = l[i]
    <3> TAKE i \in 1 .. k
    <3>1. i \in 1 .. k + 1
      BY <1>0
    <3>2. c[i] = a[i]
      BY <2>3 DEF c
    <3>3. a[i] = l[i]
      BY <2>1 DEF a
    <3> QED
      BY <3>1, <3>2, <3>3
  <2>7. ASSUME NEW i \in k + 2 .. n + 1 PROVE b[i - (k + 1)] = l[i - 1]
    <3>1. i - (k + 1) \in 1 .. n - k /\ k + (i - (k + 1)) = i - 1
      BY <1>0
    <3> QED
      BY <2>2, <3>1 DEF b
  <2>8. k + 1 \in 1 .. k + 1 /\ c[k + 1] = t
    BY <1>0, <2>3 DEF c
  <2> HIDE DEF l2
  <2> QED
    BY <2>4, <2>5, <2>6, <2>7, <2>8
<1>7. k < n => /\ l[k + 1] \in Timers /\ l[k + 1] # t
               /\ s[k + 1] = s[k] + d[l[k + 1]]
               /\ s[k + 1] \in 0 .. UINT_MOD - 1 /\ d[l[k + 1]] \in 0 .. UINT_MOD - 1
               /\ s[k + 1] >= ticks
               /\ Minus(d[l[k + 1]], left) = s[k + 1] - ticks
               /\ s[k + 1] - ticks \in 0 .. UINT_MOD - 1
  <2> SUFFICES ASSUME k < n PROVE
               /\ l[k + 1] \in Timers /\ l[k + 1] # t
               /\ s[k + 1] = s[k] + d[l[k + 1]]
               /\ s[k + 1] \in 0 .. UINT_MOD - 1 /\ d[l[k + 1]] \in 0 .. UINT_MOD - 1
               /\ s[k + 1] >= ticks
               /\ Minus(d[l[k + 1]], left) = s[k + 1] - ticks
               /\ s[k + 1] - ticks \in 0 .. UINT_MOD - 1
    OBVIOUS
  <2>1. k + 1 \in 1 .. n /\ k + 1 \in 0 .. n /\ (k + 1) - 1 = k /\ ~(k + 1 <= k) /\ k \in 0 .. n
    BY <1>1, <1>4
  <2>2. /\ l[k + 1] \in Timers /\ l[k + 1] # t
        /\ s[k + 1] = s[k] + d[l[k + 1]]
        /\ s[k + 1] \in 0 .. UINT_MOD - 1 /\ d[l[k + 1]] \in 0 .. UINT_MOD - 1
        /\ s[k] \in 0 .. UINT_MOD - 1
        /\ ~(s[k + 1] < ticks)
    BY <1>1, <1>3, <1>4, <2>1
  <2>3. s[k + 1] - ticks \in 0 .. UINT_MOD - 1 /\ s[k + 1] >= ticks
    BY <1>1, <2>2
  <2>4. d[l[k + 1]] - left = s[k + 1] - ticks
    BY <1>1, <2>2
  <2>5. Minus(d[l[k + 1]], left) = s[k + 1] - ticks
    BY <2>3, <2>4, NoWrap DEF Minus
  <2> QED
    BY <2>2, <2>3, <2>5
<1>8. /\ d2 \in [Timers -> 0 .. UINT_MOD - 1]
      /\ d2[t] = left
      /\ k < n => d2[l[k + 1]] = s[k + 1] - ticks
      /\ \A i \in 1 .. n : i # k + 1 => d2[l[i]] = d[l[i]]
  <2>1. d2 \in [Timers -> 0 .. UINT_MOD - 1]
    <3>1. ASSUME NEW u \in Timers PROVE d2[u] \in 0 .. UINT_MOD - 1
      <4>1. CASE u = t
        BY <1>5, <4>1
      <4>2. CASE u # t /\ k < n /\ u = l[k + 1]
        BY <1>7, <4>2
      <4>3. CASE u # t /\ ~(k < n /\ u = l[k + 1])
        BY <1>1, <4>3
      <4> QED
        BY <4>1, <4>2, <4>3
    <3> QED
      BY <3>1
  <2>2. d2[t] = left
    OBVIOUS
  <2>3. k < n => d2[l[k + 1]] = s[k + 1] - ticks
    BY <1>7
  <2>4. ASSUME NEW i \in 1 .. n, i # k + 1 PROVE d2[l[i]] = d[l[i]]
    <3>1. l[i] # t /\ l[i] \in Timers
      BY <1>1, <1>3
    <3>2. k < n => l[i] # l[k + 1]
      <4> SUFFICES ASSUME k < n PROVE l[i] # l[k + 1]
        OBVIOUS
      <4>1. k + 1 \in 1 .. n
        BY <1>1, <1>4
      <4> QED
        BY <1>1, <2>4, <4>1 DEF Distinct
    <3> QED
      BY <3>1, <3>2
  <2> QED
    BY <2>1, <2>2, <2>3, <2>4
<1> HIDE DEF l2, d2, n
<1>9. Distinct(l2)
  <2>1. SUFFICES ASSUME NEW i \in 1 .. n + 1, NEW j \in 1 .. n + 1, l2[i] = l2[j] PROVE i = j
    BY <1>6 DEF Distinct, n
  <2> DEFINE At(x) == IF x <= k THEN x ELSE x - 1
  <2>2. \A x \in 1 .. n + 1 : x # k + 1 => At(x) \in 1 .. n /\ l2[x] = l[At(x)]
    <3> TAKE x \in 1 .. n + 1
    <3>1. CASE x <= k
      <4>1. At(x) = x /\ x \in 1 .. n /\ x \in 1 .. k
        BY <1>0, <3>1
      <4> QED
        BY <1>6, <4>1
    <3>2. CASE x > k + 1
      <4>1. At(x) = x - 1 /\ x - 1 \in 1 .. n /\ x \in k + 2 .. n + 1
        BY <1>0, <3>2
      <4> QED
        BY <1>6, <4>1
    <3> QED
      BY <1>0, <3>1, <3>2
  <2>3. \A x \in 1 .. n + 1 : x = k + 1 => l2[x] = t
    BY <1>6
  <2>4. CASE i = k + 1 \/ j = k + 1
    BY <1>3, <2>1, <2>2, <2>3, <2>4
  <2>5. CASE i # k + 1 /\ j # k + 1
    <3>1. At(i) \in 1 .. n /\ At(j) \in 1 .. n /\ l[At(i)] = l[At(j)]
      BY <2>1, <2>2, <2>5
    <3>2. At(i) = At(j)
      BY <1>1, <3>1 DEF Distinct, n
    <3> QED
      BY <1>0, <2>5, <3>2
  <2> QED
    BY <2>4, <2>5
<1>10. /\ \A i \in 0 .. k : g[i] = s[i]
       /\ g[k + 1] = ticks
       /\ \A i \in k + 2 .. n + 1 : g[i] = s[i - 1]
  <2>1. \A i \in 0 .. k : i \in 0 .. n + 1 /\ i <= k
    BY <1>0
  <2>2. k + 1 \in 0 .. n + 1 /\ ~(k + 1 <= k)
    BY <1>0
  <2>3. \A i \in k + 2 .. n + 1 : i \in 0 .. n + 1 /\ ~(i <= k) /\ i # k + 1
    BY <1>0
  <2> QED
    BY <2>1, <2>2, <2>3
<1> HIDE DEF g
<1>11. ASSUME NEW i \in 1 .. n + 1 PROVE g[i] = g[i - 1] + d2[l2[i]] /\ g[i] < UINT_MOD
  <2>1. CASE i <= k
    <3>1. i \in 1 .. n /\ i \in 1 .. k /\ i \in 0 .. n /\ i \in 0 .. k /\ i - 1 \in 0 .. k /\ i # k + 1
      BY <1>0, <2>1
    <3>2. g[i] = s[i] /\ g[i - 1] = s[i - 1] /\ l2[i] = l[i] /\ d2[l[i]] = d[l[i]]
      BY <1>6, <1>8, <1>10, <3>1
    <3>3. s[i] \in 0 .. UINT_MOD - 1 /\ s[i] = s[i - 1] + d[l[i]]
      BY <1>1, <3>1
    <3> QED
      BY <1>1, <3>2, <3>3
  <2>2. CASE i = k + 1
    <3>1. i - 1 = k /\ k \in 0 .. k
      BY <1>0, <2>2
    <3>2. g[i] = ticks /\ g[i - 1] = s[k] /\ d2[l2[i]] = left
      BY <1>6, <1>8, <1>10, <2>2, <3>1
    <3>3. s[k] \in 0 .. UINT_MOD - 1
      BY <1>1, <1>0
    <3> QED
      BY <1>1, <3>2, <3>3
  <2>3. CASE i = k + 2
    <3>1. k < n /\ i \in k + 2 .. n + 1 /\ i - 1 = k + 1
      BY <1>0, <2>3
    <3>2. g[i] = s[k + 1] /\ g[i - 1] = ticks /\ l2[i] = l[k + 1]
      BY <1>6, <1>10, <3>1
    <3>3. d2[l[k + 1]] = s[k + 1] - ticks
      BY <1>8, <3>1
    <3> QED
      BY <1>1, <1>7, <3>1, <3>2, <3>3, SMTT(30)
  <2>4. CASE i > k + 2
    <3>1. /\ i - 1 \in 1 .. n /\ i - 1 # k + 1 /\ i \in k + 2 .. n + 1
          /\ i - 1 \in k + 2 .. n + 1 /\ i - 1 \in 0 .. n
      BY <1>0, <2>4
    <3>2. g[i] = s[i - 1] /\ g[i - 1] = s[(i - 1) - 1] /\ l2[i] = l[i - 1]
      BY <1>6, <1>10, <3>1
    <3>3. /\ d2[l[i - 1]] = d[l[i - 1]] /\ s[i - 1] \in 0 .. UINT_MOD - 1
          /\ s[i - 1] = s[(i - 1) - 1] + d[l[i - 1]]
      BY <1>1, <1>8, <3>1
    <3> QED
      BY <1>1, <3>2, <3>3
  <2> QED
    BY <1>0, <2>1, <2>2, <2>3, <2>4
<1>12. Sums(l2, d2, g)
  <2>1. g[0] = 0
    BY <1>0, <1>1, <1>10
  <2> QED
    BY <1>6, <1>11, <2>1 DEF Sums
<1>13. \A i \in 1 .. Len(l2) : g[i] < UINT_MOD
  BY <1>6, <1>11
<1>14. Good(l2, d2) /\ \A i \in 1 .. n + 1 : Left(l2, d2, l2[i]) = g[i]
  BY <1>6, <1>8, <1>9, <1>12, <1>13, GoodFrom
<1>15. k + 1 \in 1 .. n + 1 /\ l2[k + 1] = t /\ g[k + 1] = ticks
  BY <1>0, <1>6, <1>10
<1>16. ASSUME NEW i \in 1 .. n
       PROVE  \E j \in 1 .. n + 1 : l2[j] = l[i] /\ g[j] = s[i]
  <2>1. CASE i <= k
    <3>1. i \in 1 .. n + 1 /\ i \in 1 .. k /\ i \in 0 .. k
      BY <1>0, <2>1
    <3> QED
      BY <1>6, <1>10, <3>1
  <2>2. CASE i > k
    <3>1. i + 1 \in 1 .. n + 1 /\ i + 1 \in k + 2 .. n + 1 /\ (i + 1) - 1 = i
      BY <1>0, <2>2
    <3>2. l2[i + 1] = l[i] /\ g[i + 1] = s[i]
      BY <1>6, <1>10, <3>1
    <3> QED
      BY <3>1, <3>2
  <2> QED
    BY <1>0, <2>1, <2>2
<1>17. ASSUME NEW j \in 1 .. n + 1, j # k + 1 PROVE \E i \in 1 .. n : l2[j] = l[i]
  <2>1. CASE j <= k
    <3>1. j \in 1 .. n /\ j \in 1 .. k
      BY <1>0, <2>1
    <3> QED
      BY <1>6, <3>1
  <2>2. CASE j > k
    <3>1. j - 1 \in 1 .. n /\ j \in k + 2 .. n + 1
      BY <1>0, <1>17, <2>2
    <3> QED
      BY <1>6, <3>1
  <2> QED
    BY <1>0, <2>1, <2>2
<1>18. Listed(l2) = Listed(l) \cup {t}
  <2>1. \A u : u \in Listed(l2) <=> \E j \in 1 .. n + 1 : u = l2[j]
    BY <1>6 DEF Listed
  <2>2. \A u : u \in Listed(l) <=> \E i \in 1 .. n : u = l[i]
    BY DEF Listed, n
  <2>3. ASSUME NEW u PROVE u \in Listed(l2) <=> u \in Listed(l) \cup {t}
    <3>1. CASE u = t
      BY <1>15, <2>1, <3>1
    <3>2. CASE u # t
      BY <1>15, <1>16, <1>17, <2>1, <2>2, <3>2
    <3> QED
      BY <3>1, <3>2
  <2> QED
    BY <2>3
<1>19. Same(l, d, l2, d2, Listed(l))
  <2> SUFFICES ASSUME NEW i \in 1 .. n PROVE Left(l2, d2, l[i]) = Left(l, d, l[i])
    BY DEF Same, Listed, n
  <2>1. PICK j \in 1 .. n + 1 : l2[j] = l[i] /\ g[j] = s[i]
    BY <1>16
  <2> QED
    BY <1>1, <1>14, <2>1
<1> QED
  BY <1>2, <1>14, <1>15, <1>18, <1>19

\* timer_list_remove() takes a timer out, if it is there, and keeps the ticks of
\* the others.
LEMMA RemoveIs ==
  ASSUME NEW l, NEW d, Good(l, d), NEW t \in Timers
  PROVE  LET new == timer_list_remove(l, d, t)
         IN  /\ Good(new.list, new.delta)
             /\ Listed(new.list) = Listed(l) \ {t}
             /\ Same(l, d, new.list, new.delta, Listed(new.list))
<1> DEFINE n == Len(l)
           s == Sum(l, d)
           K == {i \in 1 .. n : \A j \in 1 .. i : l[j] # t}
           k == Cardinality(K)
           l2 == SubSeq(l, 1, k) \o SubSeq(l, k + 2, n)
           d2 == [u \in Timers |-> IF k + 2 <= n /\ u = l[k + 2]
                                     THEN (d[u] + d[t]) % UINT_MOD ELSE d[u]]
           m == IF k < n THEN n - 1 ELSE n
           g == [i \in 0 .. m |-> IF i <= k THEN s[i] ELSE s[i + 1]]
<1>1. /\ l \in Seq(Timers) /\ d \in [Timers -> 0 .. UINT_MOD - 1]
      /\ n \in Nat /\ Distinct(l) /\ UINT_MOD \in Nat \ {0}
      /\ \A i \in 1 .. n : /\ l[i] \in Timers
                           /\ d[l[i]] \in 0 .. UINT_MOD - 1
                           /\ i - 1 \in 0 .. n
                           /\ s[i] = s[i - 1] + d[l[i]]
      /\ \A i \in 0 .. n : s[i] \in 0 .. UINT_MOD - 1
      /\ s[0] = 0
      /\ \A i \in 1 .. n : Left(l, d, l[i]) = s[i]
  BY GoodSums
<1>2. LET new == timer_list_remove(l, d, t) IN new.list = l2 /\ new.delta = d2
  BY DEF timer_list_remove, Before
<1> HIDE DEF s
<1>3. k \in 0 .. n /\ K = 1 .. k
  <2>1. \A i \in K : \A j \in 1 .. i : j \in K
    <3> TAKE i \in K
    <3> TAKE j \in 1 .. i
    <3>1. j \in 1 .. n /\ \A x \in 1 .. j : x \in 1 .. i
      BY <1>1
    <3> QED
      BY <3>1
  <2> HIDE DEF K
  <2>2. K \in SUBSET (1 .. n)
    BY DEF K
  <2> QED
    BY <1>1, <2>1, <2>2, PrefixIs
<1> HIDE DEF k
<1>4. n \in Nat /\ k \in 0 .. n /\ k \in Nat /\ k <= n
  BY <1>1, <1>3
<1>5. \A i \in 1 .. k : l[i] # t
  <2> TAKE i \in 1 .. k
  <2>1. i \in K /\ i \in 1 .. i
    BY <1>3, <1>4
  <2> QED
    BY <2>1
<1>6. k < n => l[k + 1] = t
  <2> SUFFICES ASSUME k < n PROVE l[k + 1] = t
    OBVIOUS
  <2>1. k + 1 \in 1 .. n /\ ~(k + 1 \in 1 .. k)
    BY <1>4
  <2>2. PICK j \in 1 .. k + 1 : l[j] = t
    BY <1>3, <2>1
  <2>3. j \in 1 .. k \/ j = k + 1
    BY <1>4
  <2> QED
    BY <1>5, <2>2, <2>3
<1> HIDE DEF K
<1>7. /\ l2 \in Seq(Timers) /\ Len(l2) = m /\ m \in Nat
      /\ \A i \in 1 .. k : l2[i] = l[i]
      /\ \A i \in k + 1 .. m : l2[i] = l[i + 1]
  <2> DEFINE a == SubSeq(l, 1, k)
             b == SubSeq(l, k + 2, n)
  <2>1. /\ a \in Seq(Timers) /\ Len(a) = k
        /\ \A i \in 1 .. k : a[i] = l[i]
    BY <1>1, <1>4
  <2>2. /\ b \in Seq(Timers) /\ Len(b) = m - k
        /\ \A i \in 1 .. m - k : b[i] = l[(k + 1) + i]
    <3>1. CASE k < n
      BY <1>1, <1>4, <3>1
    <3>2. CASE k = n
      BY <1>1, <1>4, <3>2
    <3> QED
      BY <1>4, <3>1, <3>2
  <2> HIDE DEF a, b
  <2>3. /\ a \o b \in Seq(Timers)
        /\ Len(a \o b) = Len(a) + Len(b)
        /\ \A i \in 1 .. Len(a) : (a \o b)[i] = a[i]
        /\ \A i \in Len(a) + 1 .. Len(a) + Len(b) : (a \o b)[i] = b[i - Len(a)]
    BY <2>1, <2>2, ConcatAt, ZenonT(30)
  <2>4. m \in Nat /\ k <= m /\ k + (m - k) = m
    BY <1>4
  <2>5. /\ Len(a \o b) = m
        /\ \A i \in 1 .. k : (a \o b)[i] = l[i]
        /\ \A i \in k + 1 .. m : (a \o b)[i] = b[i - k]
    BY <2>1, <2>2, <2>3, <2>4, Zenon
  <2> HIDE DEF m
  <2>6. ASSUME NEW i \in k + 1 .. m PROVE b[i - k] = l[i + 1]
    <3>1. i - k \in 1 .. m - k /\ (k + 1) + (i - k) = i + 1
      BY <1>4, <2>4
    <3> QED
      BY <2>2, <3>1
  <2>7. l2 = a \o b
    BY DEF a, b
  <2> HIDE DEF l2
  <2> QED
    BY <2>3, <2>4, <2>5, <2>6, <2>7
<1>8. k + 2 <= n => /\ l[k + 1] = t
                    /\ s[k + 2] = s[k] + (d[l[k + 2]] + d[t])
                    /\ (d[l[k + 2]] + d[t]) % UINT_MOD = d[l[k + 2]] + d[t]
                    /\ d[l[k + 2]] + d[t] \in 0 .. UINT_MOD - 1
  <2> SUFFICES ASSUME k + 2 <= n PROVE /\ l[k + 1] = t
                    /\ s[k + 2] = s[k] + (d[l[k + 2]] + d[t])
                    /\ (d[l[k + 2]] + d[t]) % UINT_MOD = d[l[k + 2]] + d[t]
                    /\ d[l[k + 2]] + d[t] \in 0 .. UINT_MOD - 1
    OBVIOUS
  <2>1. /\ k + 1 \in 1 .. n /\ k + 2 \in 1 .. n /\ (k + 1) - 1 = k /\ (k + 2) - 1 = k + 1
        /\ k \in 0 .. n /\ k + 1 \in 0 .. n /\ k + 2 \in 0 .. n /\ k < n
    BY <1>4
  <2>2. /\ s[k + 2] = s[k + 1] + d[l[k + 2]] /\ s[k + 1] = s[k] + d[l[k + 1]]
        /\ s[k + 2] \in 0 .. UINT_MOD - 1 /\ s[k + 1] \in 0 .. UINT_MOD - 1
        /\ s[k] \in 0 .. UINT_MOD - 1
        /\ d[l[k + 2]] \in 0 .. UINT_MOD - 1 /\ d[l[k + 1]] \in 0 .. UINT_MOD - 1
        /\ l[k + 1] = t
    BY <1>1, <1>6, <2>1
  <2>3. /\ d[l[k + 2]] + d[t] \in 0 .. UINT_MOD - 1
        /\ s[k + 2] = s[k] + (d[l[k + 2]] + d[t])
    <3> DEFINE x == d[l[k + 2]]
               y == d[t]
    <3>1. /\ x \in 0 .. UINT_MOD - 1 /\ y \in 0 .. UINT_MOD - 1
          /\ s[k + 2] = s[k + 1] + x /\ s[k + 1] = s[k] + y
      BY <2>2
    <3> HIDE DEF x, y
    <3>2. x + y \in 0 .. UINT_MOD - 1 /\ s[k + 2] = s[k] + (x + y)
      <4>1. UINT_MOD \in Nat
        BY <1>1
      <4> QED
        BY <2>2, <3>1, <4>1
    <3> QED
      BY <3>2 DEF x, y
  <2> QED
    BY <2>2, <2>3, NoWrap
<1>9. /\ d2 \in [Timers -> 0 .. UINT_MOD - 1]
      /\ k + 2 <= n => d2[l[k + 2]] = d[l[k + 2]] + d[t]
      /\ \A i \in 1 .. n : i # k + 2 => d2[l[i]] = d[l[i]]
  <2>1. ASSUME NEW u \in Timers PROVE d2[u] \in 0 .. UINT_MOD - 1
    <3>1. CASE k + 2 <= n /\ u = l[k + 2]
      BY <1>8, <3>1
    <3>2. CASE ~(k + 2 <= n /\ u = l[k + 2])
      BY <1>1, <3>2
    <3> QED
      BY <3>1, <3>2
  <2>2. k + 2 <= n => d2[l[k + 2]] = d[l[k + 2]] + d[t]
    <3>1. k + 2 <= n => k + 2 \in 1 .. n
      BY <1>4
    <3> QED
      BY <1>1, <1>8, <3>1
  <2>3. ASSUME NEW i \in 1 .. n, i # k + 2 PROVE d2[l[i]] = d[l[i]]
    <3>1. k + 2 <= n => l[i] # l[k + 2]
      <4>1. k + 2 <= n => k + 2 \in 1 .. n
        BY <1>4
      <4> QED
        BY <1>1, <2>3, <4>1 DEF Distinct
    <3> QED
      BY <1>1, <3>1
  <2> QED
    BY <2>1, <2>2, <2>3
<1> HIDE DEF l2, d2, n
<1>10. m \in Nat /\ (k < n => m = n - 1) /\ (k = n => m = n)
  BY <1>4
<1> DEFINE At(x) == IF x <= k THEN x ELSE x + 1
<1>11. ASSUME NEW x \in 1 .. m
       PROVE  /\ At(x) \in 1 .. n /\ l2[x] = l[At(x)] /\ g[x] = s[At(x)]
              /\ l2[x] # t
  <2>1. CASE x <= k
    <3>1. x \in 1 .. k /\ x \in 0 .. m /\ x \in 1 .. n /\ At(x) = x
      BY <1>4, <1>10, <2>1
    <3> QED
      BY <1>5, <1>7, <2>1, <3>1
  <2>2. CASE x > k
    <3>1. /\ x \in k + 1 .. m /\ x \in 0 .. m /\ x + 1 \in 1 .. n /\ At(x) = x + 1 /\ ~(x <= k)
          /\ k < n /\ k + 1 \in 1 .. n /\ x + 1 # k + 1
      BY <1>4, <1>10, <2>2
    <3>2. l[x + 1] # l[k + 1]
      BY <1>1, <3>1 DEF Distinct, n
    <3> QED
      BY <1>6, <1>7, <3>1, <3>2
  <2> QED
    BY <1>4, <2>1, <2>2
<1>12. \A i \in 0 .. k : g[i] = s[i]
  <2>1. \A i \in 0 .. k : i \in 0 .. m /\ i <= k
    BY <1>4, <1>10
  <2> QED
    BY <2>1
<1> HIDE DEF g, m
<1>13. Distinct(l2)
  <2>1. SUFFICES ASSUME NEW i \in 1 .. m, NEW j \in 1 .. m, l2[i] = l2[j] PROVE i = j
    BY <1>7 DEF Distinct
  <2>2. At(i) \in 1 .. n /\ At(j) \in 1 .. n /\ l[At(i)] = l[At(j)]
    BY <1>11, <2>1
  <2>3. At(i) = At(j)
    BY <1>1, <2>2 DEF Distinct, n
  <2> QED
    BY <1>4, <1>10, <2>3
<1>14. ASSUME NEW i \in 1 .. m PROVE g[i] = g[i - 1] + d2[l2[i]]
  <2>1. CASE i <= k
    <3>1. i \in 0 .. k /\ i - 1 \in 0 .. k /\ At(i) = i /\ i # k + 2 /\ i \in 1 .. n
      BY <1>4, <1>10, <2>1
    <3>2. g[i] = s[i] /\ g[i - 1] = s[i - 1] /\ l2[i] = l[i] /\ d2[l[i]] = d[l[i]]
      BY <1>9, <1>11, <1>12, <3>1
    <3> QED
      BY <1>1, <3>1, <3>2
  <2>2. CASE i = k + 1
    <3>1. k + 2 <= n /\ At(i) = k + 2 /\ i - 1 = k /\ k \in 0 .. k
      BY <1>4, <1>10, <2>2
    <3>2. g[i] = s[k + 2] /\ g[i - 1] = s[k] /\ l2[i] = l[k + 2]
      BY <1>11, <1>12, <3>1
    <3> QED
      BY <1>8, <1>9, <3>1, <3>2
  <2>3. CASE i > k + 1
    <3>1. /\ At(i) = i + 1 /\ i - 1 \in 1 .. m /\ At(i - 1) = i /\ (i + 1) - 1 = i
          /\ i + 1 # k + 2 /\ i + 1 \in 1 .. n
      BY <1>4, <1>10, <2>3
    <3>2. g[i] = s[i + 1] /\ g[i - 1] = s[i] /\ l2[i] = l[i + 1] /\ d2[l[i + 1]] = d[l[i + 1]]
      BY <1>9, <1>11, <3>1
    <3> QED
      BY <1>1, <3>1, <3>2
  <2> QED
    BY <1>4, <1>10, <2>1, <2>2, <2>3
<1>15. Sums(l2, d2, g)
  <2>1. g[0] = 0
    BY <1>1, <1>4, <1>12
  <2> QED
    BY <1>7, <1>14, <2>1 DEF Sums
<1>16. \A i \in 1 .. m : g[i] < UINT_MOD
  <2> TAKE i \in 1 .. m
  <2>1. At(i) \in 0 .. n /\ g[i] = s[At(i)]
    BY <1>4, <1>11
  <2> QED
    BY <1>1, <2>1
<1>17. Good(l2, d2) /\ \A i \in 1 .. m : Left(l2, d2, l2[i]) = g[i]
  <2>1. \A i \in 1 .. Len(l2) : g[i] < UINT_MOD
    BY <1>7, <1>16
  <2>2. Good(l2, d2) /\ \A i \in 1 .. Len(l2) : Left(l2, d2, l2[i]) = g[i]
    <3> HIDE DEF At
    <3>1. l2 \in Seq(Timers) /\ d2 \in [Timers -> 0 .. UINT_MOD - 1]
      BY <1>7, <1>9
    <3> QED
      BY <1>13, <1>15, <2>1, <3>1, GoodFrom
  <2> QED
    BY <1>7, <2>2
<1>18. ASSUME NEW i \in 1 .. n, l[i] # t PROVE \E j \in 1 .. m : l2[j] = l[i]
  <2>1. CASE i <= k
    <3>1. i \in 1 .. m /\ At(i) = i
      BY <1>4, <1>10, <2>1
    <3> QED
      BY <1>11, <3>1
  <2>2. CASE i > k
    <3>1. i # k + 1
      BY <1>4, <1>6, <1>18, <2>2
    <3>2. i - 1 \in 1 .. m /\ At(i - 1) = i
      BY <1>4, <1>10, <2>2, <3>1
    <3> QED
      BY <1>11, <3>2
  <2> QED
    BY <1>4, <2>1, <2>2
<1>19. Listed(l2) = Listed(l) \ {t}
  <2>1. \A u : u \in Listed(l2) <=> \E j \in 1 .. m : u = l2[j]
    BY <1>7 DEF Listed
  <2>2. \A u : u \in Listed(l) <=> \E i \in 1 .. n : u = l[i]
    BY DEF Listed, n
  <2> HIDE DEF At
  <2>3. ASSUME NEW u PROVE u \in Listed(l2) <=> u \in Listed(l) \ {t}
    BY <1>11, <1>18, <2>1, <2>2
  <2> QED
    BY <2>3
<1>20. Same(l, d, l2, d2, Listed(l2))
  <2> SUFFICES ASSUME NEW i \in 1 .. m PROVE Left(l2, d2, l2[i]) = Left(l, d, l2[i])
    BY <1>7 DEF Same, Listed
  <2> HIDE DEF At
  <2> QED
    BY <1>1, <1>11, <1>17
<1> QED
  BY <1>2, <1>17, <1>19, <1>20


\* When the first timer counts one tick, all of them do.
LEMMA CountIs ==
  ASSUME NEW l, NEW d, Good(l, d), l # <<>>,
         \A u \in Listed(l) : Left(l, d, u) # 0
  PROVE  LET d2 == [d EXCEPT ![Head(l)] = Minus(@, 1)]
         IN  /\ Good(l, d2)
             /\ \A u \in Listed(l) : Left(l, d2, u) = Left(l, d, u) - 1
<1> DEFINE n == Len(l)
           s == Sum(l, d)
           h == Head(l)
           d2 == [d EXCEPT ![h] = Minus(@, 1)]
           g == [i \in 0 .. n |-> IF i = 0 THEN 0 ELSE s[i] - 1]
<1>1. /\ l \in Seq(Timers) /\ d \in [Timers -> 0 .. UINT_MOD - 1]
      /\ n \in Nat /\ Distinct(l) /\ UINT_MOD \in Nat \ {0}
      /\ \A i \in 1 .. n : /\ l[i] \in Timers
                           /\ d[l[i]] \in 0 .. UINT_MOD - 1
                           /\ i - 1 \in 0 .. n
                           /\ s[i] = s[i - 1] + d[l[i]]
      /\ \A i \in 0 .. n : s[i] \in 0 .. UINT_MOD - 1
      /\ s[0] = 0
      /\ \A i \in 1 .. n : Left(l, d, l[i]) = s[i]
  BY GoodSums
<1>2. 1 \in 1 .. n /\ h = l[1]
  BY <1>1
<1>3. \A i \in 1 .. n : s[i] # 0
  BY <1>1 DEF Listed
<1> HIDE DEF s, h
<1>4. d[h] # 0 /\ d[h] = s[1] /\ h \in Timers /\ d[h] \in 0 .. UINT_MOD - 1
  <2>1. s[1] = s[1 - 1] + d[l[1]] /\ d[l[1]] \in 0 .. UINT_MOD - 1
    BY <1>1, <1>2
  <2> QED
    BY <1>1, <1>2, <1>3, <2>1
<1>5. Minus(d[h], 1) = d[h] - 1 /\ d[h] - 1 \in 0 .. UINT_MOD - 1
  <2>1. d[h] - 1 \in 0 .. UINT_MOD - 1
    BY <1>1, <1>4
  <2> QED
    BY <2>1, NoWrap DEF Minus
<1>6. /\ d2 \in [Timers -> 0 .. UINT_MOD - 1] /\ d2[h] = d[h] - 1
      /\ \A i \in 1 .. n : i # 1 => d2[l[i]] = d[l[i]]
  <2>1. d2 \in [Timers -> 0 .. UINT_MOD - 1] /\ d2[h] = d[h] - 1
    BY <1>1, <1>4, <1>5
  <2>2. ASSUME NEW i \in 1 .. n, i # 1 PROVE d2[l[i]] = d[l[i]]
    <3>1. l[i] # h
      BY <1>1, <1>2, <2>2 DEF Distinct
    <3> QED
      BY <1>1, <3>1
  <2> QED
    BY <2>1, <2>2
<1> HIDE DEF d2, n
<1>7. /\ g[0] = 0 /\ \A i \in 1 .. n : g[i] = s[i] - 1
  <2>1. 0 \in 0 .. n /\ \A i \in 1 .. n : i \in 0 .. n /\ i # 0
    BY <1>1
  <2> QED
    BY <2>1
<1> HIDE DEF g
<1>8. ASSUME NEW i \in 1 .. n PROVE g[i] = g[i - 1] + d2[l[i]]
  <2>1. CASE i = 1
    BY <1>2, <1>4, <1>6, <1>7, <2>1
  <2>2. CASE i # 1
    <3>1. i - 1 \in 1 .. n /\ i - 1 \in 0 .. n
      BY <1>1, <2>2
    <3>2. /\ g[i] = s[i] - 1 /\ g[i - 1] = s[i - 1] - 1 /\ d2[l[i]] = d[l[i]]
          /\ s[i] = s[i - 1] + d[l[i]] /\ d[l[i]] \in 0 .. UINT_MOD - 1
          /\ s[i - 1] \in 0 .. UINT_MOD - 1
      BY <1>1, <1>6, <1>7, <2>2, <3>1
    <3> QED
      BY <1>1, <3>2
  <2> QED
    BY <2>1, <2>2
<1>9. \A i \in 1 .. n : g[i] < UINT_MOD
  <2> TAKE i \in 1 .. n
  <2>1. s[i] \in 0 .. UINT_MOD - 1
    <3>1. i \in 0 .. n
      BY <1>1
    <3> QED
      BY <1>1, <3>1
  <2> QED
    BY <1>1, <1>7, <2>1
<1>10. Sums(l, d2, g)
  BY <1>7, <1>8 DEF Sums, n
<1>11. Good(l, d2) /\ \A i \in 1 .. n : Left(l, d2, l[i]) = g[i]
  BY <1>1, <1>6, <1>9, <1>10, GoodFrom, SMTT(30) DEF n
<1>12. \A u \in Listed(l) : Left(l, d2, u) = Left(l, d, u) - 1
  BY <1>1, <1>7, <1>11, SMTT(30) DEF Listed, n
<1> QED
  BY <1>11, <1>12 DEF d2, h

\* A first timer without ticks left can be taken off; nobody expires before it.
LEMMA TailIs ==
  ASSUME NEW l, NEW d, Good(l, d), l # <<>>
  PROVE  /\ Head(l) \in Timers /\ Head(l) \in Listed(l)
         /\ Left(l, d, Head(l)) = d[Head(l)]
         /\ \A u \in Listed(l) : Left(l, d, u) >= d[Head(l)] /\ Left(l, d, u) \in Nat
         /\ d[Head(l)] = 0 => /\ Good(Tail(l), d)
                              /\ Listed(Tail(l)) = Listed(l) \ {Head(l)}
                              /\ Same(l, d, Tail(l), d, Listed(Tail(l)))
<1> DEFINE n == Len(l)
           s == Sum(l, d)
           h == Head(l)
           l2 == Tail(l)
           g == [i \in 0 .. n - 1 |-> s[i + 1]]
<1>1. /\ l \in Seq(Timers) /\ d \in [Timers -> 0 .. UINT_MOD - 1]
      /\ n \in Nat /\ Distinct(l) /\ UINT_MOD \in Nat \ {0}
      /\ \A i \in 1 .. n : /\ l[i] \in Timers
                           /\ d[l[i]] \in 0 .. UINT_MOD - 1
                           /\ i - 1 \in 0 .. n
                           /\ s[i] = s[i - 1] + d[l[i]]
      /\ \A i \in 0 .. n : s[i] \in 0 .. UINT_MOD - 1
      /\ s[0] = 0
      /\ \A i, j \in 0 .. n : i <= j => s[i] <= s[j]
      /\ \A i \in 1 .. n : Left(l, d, l[i]) = s[i]
  BY GoodSums
<1>2. 1 \in 1 .. n /\ h = l[1] /\ n >= 1
  BY <1>1
<1>3. /\ l2 \in Seq(Timers) /\ Len(l2) = n - 1 /\ n - 1 \in Nat
      /\ \A i \in 1 .. n - 1 : l2[i] = l[i + 1]
  BY <1>1
<1> HIDE DEF s, h, l2, n
<1>4. s[1] = d[h] /\ d[h] \in 0 .. UINT_MOD - 1 /\ h \in Timers
  <2>1. s[1] = s[1 - 1] + d[l[1]] /\ d[l[1]] \in 0 .. UINT_MOD - 1
    BY <1>1, <1>2
  <2> QED
    BY <1>1, <1>2, <2>1
<1>5. h \in Listed(l) /\ Left(l, d, h) = d[h]
  BY <1>1, <1>2, <1>4 DEF Listed, n
<1>6. \A i \in 1 .. n : s[i] >= d[h] /\ s[i] \in Nat
  <2> TAKE i \in 1 .. n
  <2>1. 1 \in 0 .. n /\ i \in 0 .. n /\ 1 <= i
    BY <1>1, <1>2
  <2>2. s[1] <= s[i] /\ s[i] \in 0 .. UINT_MOD - 1
    BY <1>1, <2>1
  <2> QED
    BY <1>4, <2>2
<1>7. \A u \in Listed(l) : Left(l, d, u) >= d[h] /\ Left(l, d, u) \in Nat
  BY <1>1, <1>6 DEF Listed, n
<1>8. ASSUME d[h] = 0
      PROVE  Good(l2, d) /\ Listed(l2) = Listed(l) \ {h} /\ Same(l, d, l2, d, Listed(l2))
  <2>1. \A i \in 0 .. n - 1 : g[i] = s[i + 1]
    OBVIOUS
  <2> HIDE DEF g
  <2>2. Distinct(l2)
    <3>1. SUFFICES ASSUME NEW i \in 1 .. n - 1, NEW j \in 1 .. n - 1, l2[i] = l2[j] PROVE i = j
      BY <1>3 DEF Distinct
    <3>2. i + 1 \in 1 .. n /\ j + 1 \in 1 .. n /\ l[i + 1] = l[j + 1]
      BY <1>1, <1>3, <3>1
    <3>3. i + 1 = j + 1
      BY <1>1, <3>2 DEF Distinct, n
    <3> QED
      BY <3>3
  <2>3. ASSUME NEW i \in 1 .. n - 1 PROVE g[i] = g[i - 1] + d[l2[i]] /\ g[i] < UINT_MOD
    <3>1. /\ i \in 0 .. n - 1 /\ i - 1 \in 0 .. n - 1 /\ i + 1 \in 1 .. n /\ i + 1 \in 0 .. n
          /\ (i + 1) - 1 = i /\ (i - 1) + 1 = i
      BY <1>1
    <3>2. g[i] = s[i + 1] /\ g[i - 1] = s[i] /\ l2[i] = l[i + 1]
      BY <1>3, <2>1, <3>1
    <3>3. s[i + 1] = s[i] + d[l[i + 1]] /\ s[i + 1] \in 0 .. UINT_MOD - 1
      BY <1>1, <3>1
    <3> QED
      BY <1>1, <3>2, <3>3
  <2>4. Sums(l2, d, g)
    <3>1. g[0] = 0
      BY <1>2, <1>3, <1>4, <1>8, <2>1
    <3> QED
      BY <1>3, <2>3, <3>1 DEF Sums
  <2>5. Good(l2, d) /\ \A i \in 1 .. n - 1 : Left(l2, d, l2[i]) = g[i]
    <3>1. \A i \in 1 .. Len(l2) : g[i] < UINT_MOD
      BY <1>3, <2>3
    <3>2. Good(l2, d) /\ \A i \in 1 .. Len(l2) : Left(l2, d, l2[i]) = g[i]
      <4>1. l2 \in Seq(Timers) /\ d \in [Timers -> 0 .. UINT_MOD - 1]
        BY <1>1, <1>3
      <4> QED
        BY <2>2, <2>4, <3>1, <4>1, GoodFrom
    <3> QED
      BY <1>3, <3>2
  <2>6. \A i \in 1 .. n - 1 : /\ i + 1 \in 1 .. n /\ l2[i] = l[i + 1] /\ l2[i] # h
                              /\ g[i] = s[i + 1]
    <3> TAKE i \in 1 .. n - 1
    <3>1. i + 1 \in 1 .. n /\ i + 1 # 1 /\ i \in 0 .. n - 1
      BY <1>1
    <3>2. l[i + 1] # l[1]
      BY <1>1, <1>2, <3>1 DEF Distinct, n
    <3> QED
      BY <1>2, <1>3, <2>1, <3>1, <3>2
  <2>7. ASSUME NEW i \in 1 .. n, l[i] # h PROVE \E j \in 1 .. n - 1 : l2[j] = l[i]
    <3>1. i - 1 \in 1 .. n - 1 /\ (i - 1) + 1 = i
      BY <1>1, <1>2, <2>7
    <3> QED
      BY <2>6, <3>1
  <2>8. Listed(l2) = Listed(l) \ {h}
    <3>1. \A u : u \in Listed(l2) <=> \E j \in 1 .. n - 1 : u = l2[j]
      BY <1>3 DEF Listed
    <3>2. \A u : u \in Listed(l) <=> \E i \in 1 .. n : u = l[i]
      BY DEF Listed, n
    <3>3. ASSUME NEW u PROVE u \in Listed(l2) <=> u \in Listed(l) \ {h}
      BY <2>6, <2>7, <3>1, <3>2
    <3> QED
      BY <3>3
  <2>9. Same(l, d, l2, d, Listed(l2))
    <3>1. ASSUME NEW i \in 1 .. n - 1 PROVE Left(l2, d, l2[i]) = Left(l, d, l2[i])
      <4>1. i + 1 \in 1 .. n /\ l2[i] = l[i + 1] /\ g[i] = s[i + 1]
        BY <2>6
      <4>2. Left(l, d, l[i + 1]) = s[i + 1]
        BY <1>1, <4>1
      <4> QED
        BY <2>5, <4>1, <4>2
    <3> QED
      BY <1>3, <3>1 DEF Same, Listed
  <2> QED
    BY <2>5, <2>8, <2>9
<1> QED
  BY <1>4, <1>5, <1>7, <1>8 DEF h, l2

-----------------------------------------------------------------------------
(* The counters and the messages in flight                                   *)

Msgs == [timer : Timers, stale : BOOLEAN]

\* The positions of the messages of a timer in f, and those of the stale ones.
Of(f, t) == {i \in 1 .. Len(f) : f[i].timer = t}
StaleIn(f, t) == {i \in Of(f, t) : f[i].stale}

\* Counters out and ign are right for the messages f and the timer cur whose
\* message tick() is about to put.
Counts(f, cur, out, ign) ==
  \A t \in Timers :
    /\ out[t] = Cardinality(Of(f, t)) + (IF cur = t THEN 1 ELSE 0)
    /\ ign[t] = Cardinality(StaleIn(f, t))
    /\ \A i \in Of(f, t), j \in StaleIn(f, t) : i < j => i \in StaleIn(f, t)

\* Sets of positions are finite.
LEMMA FinitePositions ==
  ASSUME NEW f \in Seq(Msgs), NEW t
  PROVE  /\ IsFiniteSet(Of(f, t)) /\ Cardinality(Of(f, t)) \in Nat
         /\ IsFiniteSet(StaleIn(f, t)) /\ Cardinality(StaleIn(f, t)) \in Nat
         /\ StaleIn(f, t) \subseteq Of(f, t) /\ Of(f, t) \subseteq 1 .. Len(f)
         /\ Cardinality(StaleIn(f, t)) <= Cardinality(Of(f, t))
<1>1. StaleIn(f, t) \subseteq Of(f, t) /\ Of(f, t) \subseteq 1 .. Len(f)
  BY DEF Of, StaleIn
<1>2. IsFiniteSet(1 .. Len(f))
  BY FS_Interval
<1> QED
  BY <1>1, <1>2, FS_Subset, FS_CardinalityType

\* The timer that tick() takes off the list is counted before its message is put.
LEMMA CountsPop ==
  ASSUME NEW f \in Seq(Msgs), NEW h \in Timers, NEW out \in [Timers -> Nat],
         NEW ign \in [Timers -> Nat], Counts(f, NoTimer, out, ign)
  PROVE  Counts(f, h, [out EXCEPT ![h] = @ + 1], ign)
<1> SUFFICES ASSUME NEW t \in Timers
             PROVE  [out EXCEPT ![h] = @ + 1][t] = Cardinality(Of(f, t)) + (IF h = t THEN 1 ELSE 0)
  BY DEF Counts
<1>1. out[t] = Cardinality(Of(f, t)) /\ Cardinality(Of(f, t)) \in Nat
  BY FinitePositions, TimerAssumption, SMTT(30) DEF Counts
<1> QED
  BY <1>1

\* A put message is counted already.
LEMMA CountsPut ==
  ASSUME NEW f \in Seq(Msgs), NEW cur \in Timers, NEW out \in [Timers -> Nat],
         NEW ign \in [Timers -> Nat], Counts(f, cur, out, ign)
  PROVE  Counts(Append(f, [timer |-> cur, stale |-> FALSE]), NoTimer, out, ign)
<1> DEFINE n == Len(f)
           m == [timer |-> cur, stale |-> FALSE]
           g == Append(f, m)
<1>1. /\ n \in Nat /\ Len(g) = n + 1 /\ g[n + 1] = m
      /\ \A i \in 1 .. n : g[i] = f[i]
  <2>1. m \in Msgs
    BY DEF Msgs
  <2> QED
    BY <2>1, AppendProperties
<1>2. m.timer = cur /\ ~m.stale
  OBVIOUS
<1> HIDE DEF n, m, g
<1>3. \A i : i \in 1 .. n + 1 <=> i \in 1 .. n \/ i = n + 1
  BY <1>1
<1>4. n + 1 \notin 1 .. n
  BY <1>1
<1> SUFFICES ASSUME NEW t \in Timers
             PROVE  /\ out[t] = Cardinality(Of(g, t)) + (IF NoTimer = t THEN 1 ELSE 0)
                    /\ ign[t] = Cardinality(StaleIn(g, t))
                    /\ \A i \in Of(g, t), j \in StaleIn(g, t) : i < j => i \in StaleIn(g, t)
  BY DEF Counts, g, m
<1>5. Of(g, t) = IF cur = t THEN Of(f, t) \cup {n + 1} ELSE Of(f, t)
  <2>1. \A i : i \in Of(g, t) <=> i \in 1 .. n + 1 /\ g[i].timer = t
    BY <1>1 DEF Of
  <2>2. \A i : i \in Of(f, t) <=> i \in 1 .. n /\ f[i].timer = t
    BY DEF Of, n
  <2>3. \A i : i \in Of(g, t) <=> i \in Of(f, t) \/ (i = n + 1 /\ cur = t)
    BY <1>1, <1>2, <1>3, <1>4, <2>1, <2>2
  <2> QED
    BY <2>3
<1>6. StaleIn(g, t) = StaleIn(f, t)
  <2>1. \A i : i \in StaleIn(g, t) <=> i \in 1 .. n + 1 /\ g[i].timer = t /\ g[i].stale
    BY <1>1 DEF Of, StaleIn
  <2>2. \A i : i \in StaleIn(f, t) <=> i \in 1 .. n /\ f[i].timer = t /\ f[i].stale
    BY DEF Of, StaleIn, n
  <2>3. \A i : i \in StaleIn(g, t) <=> i \in StaleIn(f, t)
    BY <1>1, <1>2, <1>3, <1>4, <2>1, <2>2, SMTT(30)
  <2> QED
    BY <2>3
<1>7. /\ IsFiniteSet(Of(f, t)) /\ Cardinality(Of(f, t)) \in Nat /\ n + 1 \notin Of(f, t)
      /\ \A i \in Of(f, t) : i \in Nat /\ i <= n /\ \A j \in StaleIn(f, t) : j \in Of(f, t)
  BY <1>1, <1>4, FinitePositions DEF n
<1>8. out[t] = Cardinality(Of(g, t)) + (IF NoTimer = t THEN 1 ELSE 0)
  <2>1. out[t] = Cardinality(Of(f, t)) + (IF cur = t THEN 1 ELSE 0)
    BY DEF Counts
  <2>2. Cardinality(Of(g, t)) = Cardinality(Of(f, t)) + (IF cur = t THEN 1 ELSE 0)
    <3>1. CASE cur = t
      <4>1. Cardinality(Of(f, t) \cup {n + 1}) = Cardinality(Of(f, t)) + 1
        BY <1>7, FS_AddElement
      <4> QED
        BY <1>5, <3>1, <4>1
    <3>2. CASE cur # t
      BY <1>5, <1>7, <3>2
    <3> QED
      BY <3>1, <3>2
  <2> QED
    BY <1>7, <2>1, <2>2, TimerAssumption
<1>9. ign[t] = Cardinality(StaleIn(g, t))
  BY <1>6 DEF Counts
<1>10. ASSUME NEW i \in Of(g, t), NEW j \in StaleIn(g, t), i < j PROVE i \in StaleIn(g, t)
  <2>1. j \in Of(f, t) /\ j <= n /\ j \in Nat
    BY <1>6, <1>7, <1>10, FinitePositions
  <2>2. i # n + 1
    BY <1>1, <1>10, <2>1
  <2>3. i \in Of(f, t)
    BY <1>5, <2>2
  <2> QED
    BY <1>6, <1>10, <2>3 DEF Counts
<1> QED
  BY <1>8, <1>9, <1>10

\* ml_timer_stop() makes every message of the timer stale.
LEMMA CountsStop ==
  ASSUME NEW f \in Seq(Msgs), NEW t \in Timers, NEW out \in [Timers -> Nat],
         NEW ign \in [Timers -> Nat], Counts(f, NoTimer, out, ign),
         NEW g \in Seq(Msgs), Len(g) = Len(f),
         \A i \in 1 .. Len(f) : /\ g[i].timer = f[i].timer
                                /\ g[i].stale <=> f[i].stale \/ f[i].timer = t
  PROVE  Counts(g, NoTimer, out, [ign EXCEPT ![t] = out[t]])
<1> DEFINE ign2 == [ign EXCEPT ![t] = out[t]]
<1> SUFFICES ASSUME NEW u \in Timers
             PROVE  /\ out[u] = Cardinality(Of(g, u)) + (IF NoTimer = u THEN 1 ELSE 0)
                    /\ ign2[u] = Cardinality(StaleIn(g, u))
                    /\ \A i \in Of(g, u), j \in StaleIn(g, u) : i < j => i \in StaleIn(g, u)
  BY DEF Counts
<1>1. Of(g, u) = Of(f, u)
  BY DEF Of
<1>2. /\ out[u] = Cardinality(Of(f, u)) + (IF NoTimer = u THEN 1 ELSE 0)
      /\ ign[u] = Cardinality(StaleIn(f, u))
      /\ \A i \in Of(f, u), j \in StaleIn(f, u) : i < j => i \in StaleIn(f, u)
  BY DEF Counts
<1>3. NoTimer # u /\ Cardinality(Of(f, u)) \in Nat
  BY TimerAssumption, FinitePositions
<1>4. CASE u = t
  <2>1. StaleIn(g, u) = Of(g, u)
    BY <1>4 DEF Of, StaleIn
  <2>2. ign2[u] = out[u]
    BY <1>4
  <2> QED
    BY <1>1, <1>2, <1>3, <2>1, <2>2
<1>5. CASE u # t
  <2>1. StaleIn(g, u) = StaleIn(f, u)
    BY <1>5 DEF Of, StaleIn
  <2>2. ign2[u] = ign[u]
    BY <1>5
  <2> QED
    BY <1>1, <1>2, <1>3, <2>1, <2>2
<1> QED
  BY <1>4, <1>5

\* Of a set of positions, moved down by one, the first is lost.
LEMMA ShiftCard ==
  ASSUME NEW n \in Nat, NEW A \in SUBSET (1 .. n), NEW B,
         \A i : i \in B <=> i \in Nat /\ i # 0 /\ i + 1 \in A
  PROVE  IF 1 \in A THEN Cardinality(A) = Cardinality(B) + 1 /\ Cardinality(B) \in Nat
                    ELSE Cardinality(A) = Cardinality(B) /\ Cardinality(B) \in Nat
<1> DEFINE D == A \ {1}
           f == [i \in D |-> i - 1]
<1>1. IsFiniteSet(A) /\ IsFiniteSet(D) /\ Cardinality(A) \in Nat /\ Cardinality(D) \in Nat
  <2>1. IsFiniteSet(1 .. n)
    BY FS_Interval
  <2>2. IsFiniteSet(A) /\ D \subseteq A
    BY <2>1, FS_Subset
  <2>3. IsFiniteSet(D)
    BY <2>2, FS_Subset
  <2> QED
    BY <2>2, <2>3, FS_CardinalityType
<1>2. \A i \in D : i \in Nat /\ i > 1 /\ i - 1 \in Nat /\ i - 1 # 0 /\ (i - 1) + 1 = i
  OBVIOUS
<1>3. f \in [D -> B]
  BY <1>2
<1>4. \A i, j \in D : f[i] = f[j] => i = j
  BY <1>2
<1>5. \A b \in B : \E i \in D : f[i] = b
  <2> TAKE b \in B
  <2>1. b \in Nat /\ b # 0 /\ b + 1 \in A
    OBVIOUS
  <2>2. b + 1 \in D /\ (b + 1) - 1 = b
    BY <2>1
  <2> QED
    BY <2>2
<1>6. ExistsBijection(D, B)
  <2>1. f \in Bijection(D, B)
    BY <1>3, <1>4, <1>5 DEF Bijection, Injection, Surjection, IsInjective
  <2> QED
    BY <2>1 DEF ExistsBijection
<1>7. Cardinality(B) = Cardinality(D)
  BY <1>1, <1>6, FS_Bijection
<1>8. Cardinality(D) = IF 1 \in A THEN Cardinality(A) - 1 ELSE Cardinality(A)
  BY <1>1, FS_RemoveElement
<1> QED
  BY <1>1, <1>7, <1>8

\* The oldest message is asked about: it is stale if there are messages to ignore.
LEMMA CountsAsk ==
  ASSUME NEW f \in Seq(Msgs), f # <<>>, NEW out \in [Timers -> Nat],
         NEW ign \in [Timers -> Nat], Counts(f, NoTimer, out, ign),
         NEW t \in Timers, f[1].timer = t
  PROVE  /\ Counts(Tail(f), NoTimer, [out EXCEPT ![t] = @ - 1],
                   [ign EXCEPT ![t] = IF @ > 0 THEN @ - 1 ELSE @])
         /\ out[t] - 1 \in Nat
         /\ ign[t] = 0 <=> ~f[1].stale
<1> DEFINE n == Len(f)
           g == Tail(f)
           out2 == [out EXCEPT ![t] = @ - 1]
           ign2 == [ign EXCEPT ![t] = IF @ > 0 THEN @ - 1 ELSE @]
<1>1. /\ n \in Nat /\ 1 \in 1 .. n /\ Len(g) = n - 1
      /\ \A i \in 1 .. n - 1 : g[i] = f[i + 1]
  OBVIOUS
<1>2. \A u \in Timers :
        /\ out[u] = Cardinality(Of(f, u))
        /\ ign[u] = Cardinality(StaleIn(f, u))
        /\ \A i \in Of(f, u), j \in StaleIn(f, u) : i < j => i \in StaleIn(f, u)
  BY TimerAssumption, FinitePositions DEF Counts
<1>3. \A u \in Timers : Of(f, u) \in SUBSET (1 .. n) /\ StaleIn(f, u) \in SUBSET (1 .. n)
  BY FinitePositions
<1> HIDE DEF n, g
<1>4. \A i : i \in 1 .. n - 1 <=> i \in Nat /\ i # 0 /\ i + 1 \in 1 .. n
  BY <1>1
<1>5. ASSUME NEW u PROVE \A i : i \in Of(g, u) <=> i \in Nat /\ i # 0 /\ i + 1 \in Of(f, u)
  BY <1>1, <1>4 DEF Of, n
<1>6. ASSUME NEW u PROVE \A i : i \in StaleIn(g, u) <=> i \in Nat /\ i # 0 /\ i + 1 \in StaleIn(f, u)
  BY <1>1, <1>4, <1>5 DEF StaleIn, Of
<1>7. \A u \in Timers :
        /\ 1 \in Of(f, u) <=> u = t
        /\ 1 \in StaleIn(f, u) <=> u = t /\ f[1].stale
  BY <1>1 DEF Of, StaleIn, n
<1>8. ASSUME NEW u \in Timers
      PROVE  IF u = t
               THEN Cardinality(Of(f, u)) = Cardinality(Of(g, u)) + 1 /\ Cardinality(Of(g, u)) \in Nat
               ELSE Cardinality(Of(f, u)) = Cardinality(Of(g, u)) /\ Cardinality(Of(g, u)) \in Nat
  <2>1. \A i : i \in Of(g, u) <=> i \in Nat /\ i # 0 /\ i + 1 \in Of(f, u)
    BY <1>5
  <2>2. IF 1 \in Of(f, u)
          THEN Cardinality(Of(f, u)) = Cardinality(Of(g, u)) + 1 /\ Cardinality(Of(g, u)) \in Nat
          ELSE Cardinality(Of(f, u)) = Cardinality(Of(g, u)) /\ Cardinality(Of(g, u)) \in Nat
    BY <1>1, <1>3, <2>1, ShiftCard
  <2> QED
    BY <1>7, <2>2
<1>9. ASSUME NEW u \in Timers
      PROVE  IF u = t /\ f[1].stale
               THEN Cardinality(StaleIn(f, u)) = Cardinality(StaleIn(g, u)) + 1 /\ Cardinality(StaleIn(g, u)) \in Nat
               ELSE Cardinality(StaleIn(f, u)) = Cardinality(StaleIn(g, u)) /\ Cardinality(StaleIn(g, u)) \in Nat
  <2>1. \A i : i \in StaleIn(g, u) <=> i \in Nat /\ i # 0 /\ i + 1 \in StaleIn(f, u)
    BY <1>6
  <2>2. IF 1 \in StaleIn(f, u)
          THEN Cardinality(StaleIn(f, u)) = Cardinality(StaleIn(g, u)) + 1 /\ Cardinality(StaleIn(g, u)) \in Nat
          ELSE Cardinality(StaleIn(f, u)) = Cardinality(StaleIn(g, u)) /\ Cardinality(StaleIn(g, u)) \in Nat
    BY <1>1, <1>3, <2>1, ShiftCard
  <2> QED
    BY <1>7, <2>2
<1>10. ign[t] = 0 <=> ~f[1].stale
  <2>1. CASE f[1].stale
    BY <1>2, <1>9, <2>1
  <2>2. CASE ~f[1].stale
    <3>1. ASSUME NEW j \in StaleIn(f, t) PROVE FALSE
      <4>1. 1 \in Of(f, t) /\ ~(1 \in StaleIn(f, t)) /\ j \in 1 .. n
        BY <1>3, <1>7, <2>2
      <4>2. 1 < j
        BY <1>1, <4>1
      <4> QED
        BY <1>2, <4>1, <4>2
    <3>2. StaleIn(f, t) = {}
      BY <3>1
    <3> QED
      BY <1>2, <2>2, <3>2, FS_EmptySet
  <2> QED
    BY <2>1, <2>2
<1>11. out[t] - 1 \in Nat
  BY <1>2, <1>8
<1>12. ASSUME NEW u \in Timers
       PROVE  /\ out2[u] = Cardinality(Of(g, u)) + (IF NoTimer = u THEN 1 ELSE 0)
              /\ ign2[u] = Cardinality(StaleIn(g, u))
              /\ \A i \in Of(g, u), j \in StaleIn(g, u) : i < j => i \in StaleIn(g, u)
  <2>1. NoTimer # u
    BY TimerAssumption
  <2>2. out2[u] = Cardinality(Of(g, u)) + (IF NoTimer = u THEN 1 ELSE 0)
    <3>1. out2[u] = Cardinality(Of(g, u)) /\ Cardinality(Of(g, u)) \in Nat
      <4>1. CASE u = t
        <5>1. out[t] = Cardinality(Of(g, t)) + 1 /\ Cardinality(Of(g, t)) \in Nat
          BY <1>2, <1>8
        <5>2. out2[t] = out[t] - 1
          OBVIOUS
        <5> QED
          BY <4>1, <5>1, <5>2
      <4>2. CASE u # t
        BY <1>2, <1>8, <4>2
      <4> QED
        BY <4>1, <4>2
    <3> HIDE DEF out2
    <3> QED
      BY <2>1, <3>1
  <2>3. ign2[u] = Cardinality(StaleIn(g, u))
    <3>1. CASE u # t
      BY <1>2, <1>9, <3>1
    <3>2. CASE u = t /\ f[1].stale
      BY <1>2, <1>9, <3>2
    <3>3. CASE u = t /\ ~f[1].stale
      BY <1>2, <1>9, <1>10, <3>3
    <3> QED
      BY <3>1, <3>2, <3>3
  <2>4. ASSUME NEW i \in Of(g, u), NEW j \in StaleIn(g, u), i < j PROVE i \in StaleIn(g, u)
    <3>1. i \in Nat /\ i # 0 /\ i + 1 \in Of(f, u) /\ j \in Nat /\ j + 1 \in StaleIn(f, u)
      BY <1>5, <1>6
    <3>2. i + 1 < j + 1
      BY <2>4, <3>1
    <3>3. i + 1 \in StaleIn(f, u)
      BY <1>2, <3>1, <3>2
    <3> QED
      BY <1>6, <3>1, <3>3
  <2> QED
    BY <2>2, <2>3, <2>4
<1>13. Counts(g, NoTimer, out2, ign2)
  BY <1>12 DEF Counts
<1> QED
  BY <1>10, <1>11, <1>13 DEF g

-----------------------------------------------------------------------------
(* The inductive invariant                                                   *)

\* Every active timer is listed once. One that tick() has taken off the list or
\* that is being started is not in it, and no timer has 0 ticks left unless
\* tick() is at work.
Listing ==
  /\ Good(list, delta)
  /\ repeat_ticks \in [Timers -> 0 .. UINT_MOD - 1]
  /\ current \notin Listed(list)
  /\ starting.timer \notin Listed(list)
  /\ starting # NotStarting => /\ starting.timer \in Timers /\ starting.timer # current
                               /\ starting.initial \in Timeouts /\ starting.repeat \in Periods
  /\ hpc \notin {"loop", "put"} => \A u \in Listed(list) : Left(list, delta, u) # 0

\* The counters are right for the messages in flight.
Counting == Counts(InFlight, current, outstanding, ignore)

IInv == TypeOK /\ Listing /\ Counting /\ StaleIsInvalid

-----------------------------------------------------------------------------
(* The invariant is inductive                                                *)

\* The types that the proofs use most.
LEMMA Typing ==
  ASSUME TypeOK
  PROVE  /\ held \in Seq(Msgs) /\ queue \in Seq(Msgs) /\ InFlight \in Seq(Msgs)
         /\ outstanding \in [Timers -> Nat] /\ ignore \in [Timers -> Nat]
         /\ MutexIsFree => current = NoTimer
BY ConcatProperties DEF TypeOK, Msgs, InFlight, MutexIsFree

\* The timers and their list are not touched.
LEMMA ListingKept ==
  ASSUME Listing, UNCHANGED <<listVars, current, starting>>,
         hpc' \notin {"loop", "put"} => hpc \notin {"loop", "put"}
  PROVE  Listing'
BY DEF Listing, listVars

\* Neither the messages nor the counters are touched.
LEMMA CountingKept ==
  ASSUME Counting, UNCHANGED <<countVars, current, queue, held>>
  PROVE  Counting'
BY DEF Counting, InFlight, countVars

\* What ml_timer_stop() does to the messages in flight.
LEMMA MarkFlight ==
  ASSUME NEW h \in Seq(Msgs), NEW q \in Seq(Msgs), NEW t \in Timers
  PROVE  LET f == h \o q
             g == MarkStale(h, t) \o MarkStale(q, t)
         IN  /\ MarkStale(h, t) \in Seq(Msgs) /\ Len(MarkStale(h, t)) = Len(h)
             /\ MarkStale(q, t) \in Seq(Msgs) /\ Len(MarkStale(q, t)) = Len(q)
             /\ g \in Seq(Msgs) /\ Len(g) = Len(f)
             /\ \A i \in 1 .. Len(f) : /\ g[i].timer = f[i].timer
                                       /\ g[i].stale <=> f[i].stale \/ f[i].timer = t
<1> DEFINE mh == MarkStale(h, t)
           mq == MarkStale(q, t)
           f == h \o q
           g == mh \o mq
           Marked(a, b) == a.timer = b.timer /\ (a.stale <=> b.stale \/ b.timer = t)
<1>1. ASSUME NEW m \in Seq(Msgs)
      PROVE  /\ MarkStale(m, t) \in Seq(Msgs) /\ Len(MarkStale(m, t)) = Len(m)
             /\ \A i \in 1 .. Len(m) : Marked(MarkStale(m, t)[i], m[i])
  <2> DEFINE F(i) == [m[i] EXCEPT !.stale = @ \/ m[i].timer = t]
  <2>1. ASSUME NEW i \in 1 .. Len(m) PROVE F(i) \in Msgs /\ Marked(F(i), m[i])
    <3>1. m[i] \in Msgs
      OBVIOUS
    <3> QED
      BY <3>1 DEF Msgs
  <2>2. MarkStale(m, t) = [i \in 1 .. Len(m) |-> F(i)] /\ Len(m) \in Nat
    BY DEF MarkStale
  <2> HIDE DEF F, Marked
  <2>3. MarkStale(m, t) \in [1 .. Len(m) -> Msgs]
    BY <2>1, <2>2
  <2>4. MarkStale(m, t) \in Seq(Msgs) /\ Len(MarkStale(m, t)) = Len(m)
    BY <2>2, <2>3, LenProperties, SeqDef, SMTT(30)
  <2> QED
    BY <2>1, <2>2, <2>4
<1>2. /\ mh \in Seq(Msgs) /\ Len(mh) = Len(h) /\ \A i \in 1 .. Len(h) : Marked(mh[i], h[i])
      /\ mq \in Seq(Msgs) /\ Len(mq) = Len(q) /\ \A i \in 1 .. Len(q) : Marked(mq[i], q[i])
  BY <1>1
<1> HIDE DEF Marked, mh, mq
<1>3. /\ f \in Seq(Msgs)
      /\ Len(f) = Len(h) + Len(q)
      /\ \A i \in 1 .. Len(h) : f[i] = h[i]
      /\ \A i \in Len(h) + 1 .. Len(h) + Len(q) : f[i] = q[i - Len(h)]
  BY ConcatAt, Zenon
<1>4. /\ g \in Seq(Msgs)
      /\ Len(g) = Len(h) + Len(q)
      /\ \A i \in 1 .. Len(h) : g[i] = mh[i]
      /\ \A i \in Len(h) + 1 .. Len(h) + Len(q) : g[i] = mq[i - Len(h)]
  <2>1. /\ g \in Seq(Msgs)
        /\ Len(g) = Len(mh) + Len(mq)
        /\ \A i \in 1 .. Len(mh) : g[i] = mh[i]
        /\ \A i \in Len(mh) + 1 .. Len(mh) + Len(mq) : g[i] = mq[i - Len(mh)]
    BY <1>2, ConcatAt, ZenonT(30)
  <2> QED
    BY <1>2, <2>1, Zenon
<1>5. Len(h) \in Nat /\ Len(q) \in Nat
  OBVIOUS
<1> HIDE DEF f, g
<1>6. ASSUME NEW i \in 1 .. Len(f) PROVE Marked(g[i], f[i])
  <2>1. CASE i \in 1 .. Len(h)
    BY <1>2, <1>3, <1>4, <2>1
  <2>2. CASE i \in Len(h) + 1 .. Len(h) + Len(q)
    <3>1. i - Len(h) \in 1 .. Len(q)
      BY <1>5, <2>2
    <3> QED
      BY <1>2, <1>3, <1>4, <2>2, <3>1
  <2>3. i \in 1 .. Len(h) \/ i \in Len(h) + 1 .. Len(h) + Len(q)
    BY <1>3, <1>5
  <2> QED
    BY <2>1, <2>2, <2>3
<1> QED
  BY <1>2, <1>3, <1>4, <1>6 DEF Marked, f, g, mh, mq

\* The program starts in the invariant.
LEMMA InitInv == Init => IInv
<1> SUFFICES ASSUME Init PROVE IInv
  OBVIOUS
<1>0. /\ 0 \in 0 .. UINT_MOD - 1 /\ 0 \in 0 .. TICK - 1 /\ 0 \in 0 .. MaxElapsed
      /\ Capacity \in Nat /\ NoTimer \notin Timers
  BY TimerAssumption
<1>1. TypeOK
  <2>1. /\ list \in Seq(Timers) /\ queue \in Seq([timer : Timers, stale : BOOLEAN])
        /\ held \in Seq([timer : Timers, stale : BOOLEAN]) /\ Len(queue) = 0 /\ Len(held) = 0
    BY DEF Init
  <2>2. starting \in [timer : Timers \cup {NoTimer},
                     initial : Timeouts \cup {0}, repeat : Periods \cup {0}]
    BY DEF Init, NotStarting
  <2>3. /\ delta \in [Timers -> 0 .. UINT_MOD - 1] /\ repeat_ticks \in [Timers -> Nat]
        /\ outstanding \in [Timers -> Nat] /\ ignore \in [Timers -> Nat]
        /\ clock \in 0 .. TICK - 1 /\ elapsed \in [Timers -> 0 .. MaxElapsed]
        /\ timeout \in [Timers -> Timeouts \cup {Off}]
    BY <1>0 DEF Init
  <2>4. /\ hpc \in {"read", "dead"} /\ current = NoTimer /\ expired = FALSE
        /\ checked \in [valid : BOOLEAN, stale : BOOLEAN]
    BY DEF Init
  <2> QED
    <3>1. Len(queue) <= Capacity /\ Len(held) <= 1
      BY <1>0, <2>1
    <3>2. expired \in BOOLEAN /\ current \in Timers \cup {NoTimer} /\ (hpc = "put" <=> current # NoTimer)
      BY <2>4
    <3> QED
      BY <2>1, <2>2, <2>3, <2>4, <3>1, <3>2 DEF TypeOK
<1>2. Good(list, delta) /\ Listed(list) = {}
  <2>1. /\ list \in Seq(Timers) /\ Len(list) = 0 /\ delta \in [Timers -> 0 .. UINT_MOD - 1]
        /\ 1 .. 0 = {}
    BY <1>0 DEF Init
  <2> QED
    BY <2>1 DEF Good, Distinct, Listed
<1>3. Listing
  BY <1>0, <1>2 DEF Init, Listing
<1>4. Counting
  <2>1. InFlight = <<>>
    BY DEF Init, InFlight
  <2>2. \A t \in Timers : Of(InFlight, t) = {} /\ StaleIn(InFlight, t) = {}
    BY <2>1 DEF Of, StaleIn
  <2> QED
    <3>1. Cardinality({}) = 0
      BY FS_EmptySet
    <3>2. current = NoTimer /\ \A t \in Timers : outstanding[t] = 0 /\ ignore[t] = 0 /\ NoTimer # t
      BY <1>0 DEF Init
    <3>3. ASSUME NEW t \in Timers
          PROVE  /\ outstanding[t] = Cardinality(Of(InFlight, t)) + (IF current = t THEN 1 ELSE 0)
                 /\ ignore[t] = Cardinality(StaleIn(InFlight, t))
                 /\ \A i \in Of(InFlight, t), j \in StaleIn(InFlight, t) : i < j => i \in StaleIn(InFlight, t)
      BY <2>2, <3>1, <3>2
    <3> QED
      BY <3>3 DEF Counting, Counts
<1>5. StaleIsInvalid
  BY DEF Init, StaleIsInvalid
<1> QED
  BY <1>1, <1>3, <1>4, <1>5 DEF IInv


\* The passing of time.
LEMMA AdvanceKeeps == ASSUME IInv, AdvanceTime PROVE IInv'
<1>1. TypeOK'
  <2>1. clock' \in 0 .. TICK - 1
    BY TimerAssumption DEF IInv, TypeOK, AdvanceTime
  <2>2. elapsed' \in [Timers -> 0 .. MaxElapsed]
    <3>1. ASSUME NEW t \in Timers PROVE elapsed'[t] \in 0 .. MaxElapsed
      <4>1. /\ elapsed[t] \in 0 .. MaxElapsed /\ MaxElapsed \in Nat
            /\ elapsed'[t] = IF timeout[t] = Off \/ elapsed[t] = MaxElapsed
                               THEN elapsed[t] ELSE elapsed[t] + 1
        BY TimerAssumption DEF IInv, TypeOK, AdvanceTime
      <4> QED
        BY <4>1
    <3> QED
      BY <3>1 DEF AdvanceTime
  <2>3. expired' \in BOOLEAN
    BY DEF AdvanceTime
  <2> QED
    BY <2>1, <2>2, <2>3 DEF IInv, TypeOK, AdvanceTime, listVars, countVars, appVars
<1>2. Listing'
  BY ListingKept DEF IInv, AdvanceTime, appVars
<1>3. Counting'
  BY CountingKept DEF IInv, AdvanceTime, appVars
<1> QED
  BY <1>1, <1>2, <1>3 DEF IInv, AdvanceTime, appVars, StaleIsInvalid

\* read() of the timerfd.
LEMMA ReadKeeps == ASSUME IInv, HandlerRead PROVE IInv'
<1>1. TypeOK'
  BY DEF IInv, TypeOK, HandlerRead, listVars, countVars, appVars, timeVars
<1>2. Listing'
  BY ListingKept DEF IInv, HandlerRead, appVars
<1>3. Counting'
  BY CountingKept DEF IInv, HandlerRead, appVars
<1> QED
  BY <1>1, <1>2, <1>3 DEF IInv, HandlerRead, appVars, StaleIsInvalid

\* The first timer counts a tick.
LEMMA BeginKeeps == ASSUME IInv, TickBegin PROVE IInv'
<1>1. Good(list', delta') /\ Listed(list') = Listed(list) /\ list' = list
  <2>1. CASE list = <<>>
    BY <2>1 DEF IInv, Listing, TickBegin
  <2>2. CASE list # <<>>
    <3>1. \A u \in Listed(list) : Left(list, delta, u) # 0
      BY DEF IInv, Listing, TickBegin
    <3>2. delta' = [delta EXCEPT ![Head(list)] = Minus(@, 1)] /\ list' = list
      BY <2>2 DEF TickBegin
    <3> QED
      BY <2>2, <3>1, <3>2, CountIs DEF IInv, Listing
  <2> QED
    BY <2>1, <2>2
<1>2. TypeOK'
  <2>1. delta' \in [Timers -> 0 .. UINT_MOD - 1]
    BY <1>1 DEF Good
  <2>2. hpc = "lock" /\ hpc' \in {"read", "loop"}
    BY DEF TickBegin
  <2> QED
    BY <2>1, <2>2 DEF IInv, TypeOK, TickBegin, countVars, appVars, timeVars
<1>3. Listing'
  <2>1. hpc' \notin {"loop", "put"} => Listed(list) = {}
    BY DEF TickBegin, Listed
  <2> QED
    BY <1>1, <2>1 DEF IInv, Listing, TickBegin, appVars
<1>4. Counting'
  BY CountingKept DEF IInv, TickBegin, appVars
<1> QED
  BY <1>2, <1>3, <1>4 DEF IInv, TickBegin, appVars, StaleIsInvalid

\* The first timer, with no ticks left, is taken off the list.
LEMMA PopKeeps == ASSUME IInv, TickPop PROVE IInv'
<1> DEFINE h == Head(list)
<1>1. /\ list # <<>> /\ delta[h] = 0 /\ Good(list, delta) /\ hpc = "loop" /\ hpc' = "put"
      /\ current' = h /\ list' = Tail(list) /\ delta' = delta
      /\ outstanding' = [outstanding EXCEPT ![h] = @ + 1]
      /\ repeat_ticks' = repeat_ticks /\ ignore' = ignore
      /\ queue' = queue /\ held' = held /\ starting' = starting /\ checked' = checked
      /\ expired' = expired /\ clock' = clock /\ elapsed' = elapsed /\ timeout' = timeout
  BY DEF IInv, Listing, TickPop, FirstExpires, appVars, timeVars
<1>2. /\ h \in Timers /\ h \in Listed(list) /\ Good(Tail(list), delta)
      /\ Listed(Tail(list)) = Listed(list) \ {h}
  BY <1>1, TailIs
<1>3. current = NoTimer /\ NoTimer \notin Timers
  BY <1>1, TimerAssumption DEF IInv, TypeOK
<1> HIDE DEF h
<1>4. TypeOK'
  <2>1. list' \in Seq(Timers)
    BY <1>1, <1>2 DEF Good
  <2>2. outstanding' \in [Timers -> Nat]
    <3>1. outstanding \in [Timers -> Nat] /\ outstanding[h] + 1 \in Nat
      <4>1. outstanding \in [Timers -> Nat]
        BY Typing DEF IInv
      <4> QED
        BY <1>2, <4>1
    <3> QED
      BY <1>1, <3>1
  <2>3. current' \in Timers /\ current' # NoTimer
    BY <1>1, <1>2, <1>3
  <2> QED
    BY <1>1, <2>1, <2>2, <2>3 DEF IInv, TypeOK
<1>5. Listing'
  BY <1>1, <1>2 DEF IInv, Listing
<1>6. Counting'
  <2>1. Counts(InFlight, NoTimer, outstanding, ignore) /\ TypeOK
    BY <1>3 DEF IInv, Counting
  <2>2. Counts(InFlight, h, [outstanding EXCEPT ![h] = @ + 1], ignore)
    BY <1>2, <2>1, Typing, CountsPop
  <2>3. InFlight' = InFlight
    BY <1>1 DEF InFlight
  <2> QED
    BY <1>1, <2>2, <2>3 DEF Counting
<1> QED
  BY <1>1, <1>4, <1>5, <1>6 DEF IInv, StaleIsInvalid

\* The message is put, and a periodic timer listed again.
LEMMA PutKeeps == ASSUME IInv, TickPut PROVE IInv'
<1> DEFINE m == [timer |-> current, stale |-> FALSE]
<1>1. /\ hpc = "put" /\ hpc' = "loop" /\ current' = NoTimer /\ Len(queue) < Capacity
      /\ queue' = Append(queue, m) /\ held' = held
      /\ repeat_ticks' = repeat_ticks /\ outstanding' = outstanding /\ ignore' = ignore
      /\ starting' = starting /\ checked' = checked /\ expired' = expired /\ clock' = clock
      /\ timeout' = [timeout EXCEPT ![current] = Off]
      /\ elapsed' = [elapsed EXCEPT ![current] = 0]
  BY DEF TickPut, countVars
<1>2. /\ current \in Timers /\ current \notin Listed(list) /\ Good(list, delta)
      /\ repeat_ticks[current] \in 0 .. UINT_MOD - 1 /\ NoTimer \notin Timers
  BY <1>1, TimerAssumption DEF IInv, TypeOK, Listing
<1>3. Good(list', delta') /\ Listed(list') \subseteq Listed(list) \cup {current}
  <2>1. CASE repeat_ticks[current] > 0
    <3> DEFINE new == timer_list_insert(list, delta, current, repeat_ticks[current])
    <3>1. list' = new.list /\ delta' = new.delta
      BY <2>1 DEF TickPut, SetList
    <3>2. Good(new.list, new.delta) /\ Listed(new.list) = Listed(list) \cup {current}
      BY <1>2, InsertIs
    <3> HIDE DEF new
    <3> QED
      BY <3>1, <3>2
  <2>2. CASE ~(repeat_ticks[current] > 0)
    BY <1>2, <2>2 DEF TickPut
  <2> QED
    BY <2>1, <2>2
<1>4. /\ m \in [timer : Timers, stale : BOOLEAN]
      /\ queue \in Seq([timer : Timers, stale : BOOLEAN])
  BY <1>2 DEF IInv, TypeOK
<1> HIDE DEF m
<1>5. TypeOK'
  <2>1. list' \in Seq(Timers) /\ delta' \in [Timers -> 0 .. UINT_MOD - 1]
    BY <1>3 DEF Good
  <2>2. queue' \in Seq([timer : Timers, stale : BOOLEAN]) /\ Len(queue') <= Capacity
    BY <1>1, <1>4, TimerAssumption
  <2>3. elapsed' \in [Timers -> 0 .. MaxElapsed] /\ timeout' \in [Timers -> Timeouts \cup {Off}]
    BY <1>1, <1>2, TimerAssumption, SMTT(30) DEF IInv, TypeOK
  <2> QED
    BY <1>1, <2>1, <2>2, <2>3 DEF IInv, TypeOK
<1>6. Listing'
  <2>1. NoTimer \notin Listed(list')
    <3>1. NoTimer \notin Listed(list)
      BY <1>2 DEF Good, Listed
    <3> QED
      BY <1>2, <1>3, <3>1
  <2>2. starting.timer \notin Listed(list')
    <3>1. starting = NotStarting => starting.timer = NoTimer
      BY DEF NotStarting
    <3> QED
      BY <1>2, <1>3, <2>1, <3>1 DEF IInv, Listing
  <2>3. starting # NotStarting => starting.timer \in Timers /\ starting.timer # NoTimer
    BY <1>2 DEF IInv, Listing
  <2> QED
    BY <1>1, <1>3, <2>1, <2>2, <2>3 DEF IInv, Listing
<1>7. Counting'
  <2>1. Counts(Append(InFlight, m), NoTimer, outstanding, ignore)
    <3>1. Counts(InFlight, current, outstanding, ignore) /\ TypeOK
      BY DEF IInv, Counting
    <3> QED
      BY <1>2, <3>1, Typing, CountsPut DEF m
  <2>2. InFlight' = Append(InFlight, m)
    <3>1. held \in Seq(Msgs) /\ queue \in Seq(Msgs) /\ m \in Msgs
      BY <1>4, Typing DEF IInv, Msgs
    <3>2. Append(queue, m) = queue \o <<m>> /\ Append(held \o queue, m) = (held \o queue) \o <<m>>
      BY <3>1, AppendIsConcat, ConcatProperties
    <3>3. <<m>> \in Seq(Msgs)
      BY <3>1
    <3>4. (held \o queue) \o <<m>> = held \o (queue \o <<m>>)
      BY <3>1, <3>3, ConcatAssociative
    <3> QED
      BY <1>1, <3>2, <3>4 DEF InFlight
  <2> QED
    BY <1>1, <2>1, <2>2 DEF Counting
<1> QED
  BY <1>1, <1>5, <1>6, <1>7 DEF IInv, StaleIsInvalid

\* tick() ends when the first timer has ticks left, and then all have.
LEMMA EndKeeps == ASSUME IInv, TickEnd PROVE IInv'
<1>1. \A u \in Listed(list) : Left(list, delta, u) # 0
  <2>1. CASE list = <<>>
    BY <2>1 DEF Listed
  <2>2. CASE list # <<>>
    <3>1. /\ delta[Head(list)] # 0 /\ Head(list) \in Timers
          /\ \A u \in Listed(list) : Left(list, delta, u) >= delta[Head(list)] /\ Left(list, delta, u) \in Nat
      BY <2>2, TailIs DEF IInv, Listing, TickEnd, FirstExpires
    <3>2. delta[Head(list)] \in Nat
      BY <3>1, TimerAssumption DEF IInv, TypeOK
    <3> QED
      BY <3>1, <3>2
  <2> QED
    BY <2>1, <2>2
<1>2. TypeOK'
  BY DEF IInv, TypeOK, TickEnd, listVars, countVars, appVars, timeVars
<1>3. Listing'
  BY <1>1 DEF IInv, Listing, TickEnd, listVars, appVars
<1>4. Counting'
  BY CountingKept DEF IInv, TickEnd, appVars
<1> QED
  BY <1>2, <1>3, <1>4 DEF IInv, TickEnd, appVars, StaleIsInvalid


\* What stopping a timer does to the list and to the counters.
LEMMA StopKeeps ==
  ASSUME IInv, NEW t \in Timers, StopTimer(t), MutexIsFree, current' = current,
         outstanding' = outstanding
  PROVE  /\ list' \in Seq(Timers) /\ Good(list', delta')
         /\ Listed(list') = Listed(list) \ {t}
         /\ Same(list, delta, list', delta', Listed(list'))
         /\ ignore' \in [Timers -> Nat]
         /\ queue' \in Seq([timer : Timers, stale : BOOLEAN]) /\ Len(queue') <= Capacity
         /\ held' \in Seq([timer : Timers, stale : BOOLEAN]) /\ Len(held') <= 1
         /\ Counting'
         /\ current = NoTimer
<1> DEFINE new == timer_list_remove(list, delta, t)
<1>1. /\ list' = new.list /\ delta' = new.delta
      /\ ignore' = [ignore EXCEPT ![t] = outstanding[t]]
      /\ queue' = MarkStale(queue, t) /\ held' = MarkStale(held, t)
  BY DEF StopTimer, SetList
<1>2. /\ Good(new.list, new.delta) /\ Listed(new.list) = Listed(list) \ {t}
      /\ Same(list, delta, new.list, new.delta, Listed(new.list))
  BY RemoveIs DEF IInv, Listing
<1> HIDE DEF new
<1>3. /\ held \in Seq(Msgs) /\ queue \in Seq(Msgs) /\ InFlight \in Seq(Msgs)
      /\ outstanding \in [Timers -> Nat] /\ ignore \in [Timers -> Nat]
      /\ current = NoTimer /\ Len(queue) <= Capacity /\ Len(held) <= 1
  BY Typing DEF IInv, TypeOK
<1>4. /\ held' \in Seq(Msgs) /\ Len(held') = Len(held)
      /\ queue' \in Seq(Msgs) /\ Len(queue') = Len(queue)
      /\ InFlight' \in Seq(Msgs) /\ Len(InFlight') = Len(InFlight)
      /\ \A i \in 1 .. Len(InFlight) :
           /\ InFlight'[i].timer = InFlight[i].timer
           /\ InFlight'[i].stale <=> InFlight[i].stale \/ InFlight[i].timer = t
  <2> DEFINE f == held \o queue
             g == MarkStale(held, t) \o MarkStale(queue, t)
  <2>1. InFlight = f /\ InFlight' = g
    BY <1>1 DEF InFlight
  <2>2. /\ MarkStale(held, t) \in Seq(Msgs) /\ Len(MarkStale(held, t)) = Len(held)
        /\ MarkStale(queue, t) \in Seq(Msgs) /\ Len(MarkStale(queue, t)) = Len(queue)
        /\ g \in Seq(Msgs) /\ Len(g) = Len(f)
        /\ \A i \in 1 .. Len(f) : /\ g[i].timer = f[i].timer
                                  /\ g[i].stale <=> f[i].stale \/ f[i].timer = t
    <3>1. held \in Seq(Msgs) /\ queue \in Seq(Msgs)
      BY <1>3
    <3> QED
      BY <3>1, MarkFlight, Zenon
  <2> HIDE DEF f, g
  <2> QED
    BY <1>1, <2>1, <2>2
<1>5. Counts(InFlight, NoTimer, outstanding, ignore)
  BY <1>3 DEF IInv, Counting
<1>6. Counts(InFlight', NoTimer, outstanding, [ignore EXCEPT ![t] = outstanding[t]])
  BY <1>3, <1>4, <1>5, CountsStop
<1>7. Counting'
  BY <1>1, <1>3, <1>6 DEF Counting
<1>8. ignore' \in [Timers -> Nat]
  BY <1>1, <1>3
<1> QED
  BY <1>1, <1>2, <1>3, <1>4, <1>7, <1>8 DEF Good, Msgs

\* No timer of the list has 0 ticks left after one is stopped.
LEMMA StillNonzero ==
  ASSUME Listing, MutexIsFree, NEW T, T \subseteq Listed(list), NEW l, NEW d,
         Same(list, delta, l, d, T)
  PROVE  \A u \in T : Left(l, d, u) # 0
BY DEF Listing, MutexIsFree, Same

\* ml_timer_stop().
LEMMA TimerStopKeeps == ASSUME IInv, NEW t \in Timers, ml_timer_stop(t) PROVE IInv'
<1>1. /\ starting = NotStarting /\ MutexIsFree /\ StopTimer(t)
      /\ timeout' = [timeout EXCEPT ![t] = Off] /\ elapsed' = [elapsed EXCEPT ![t] = 0]
      /\ repeat_ticks' = repeat_ticks /\ outstanding' = outstanding /\ hpc' = hpc
      /\ current' = current /\ expired' = expired /\ starting' = starting
      /\ checked' = checked /\ clock' = clock
  BY DEF ml_timer_stop, handlerVars
<1>2. /\ list' \in Seq(Timers) /\ Good(list', delta')
      /\ Listed(list') = Listed(list) \ {t}
      /\ Same(list, delta, list', delta', Listed(list'))
      /\ ignore' \in [Timers -> Nat]
      /\ queue' \in Seq([timer : Timers, stale : BOOLEAN]) /\ Len(queue') <= Capacity
      /\ held' \in Seq([timer : Timers, stale : BOOLEAN]) /\ Len(held') <= 1
      /\ Counting'
  BY <1>1, StopKeeps
<1>3. TypeOK'
  <2>1. elapsed' \in [Timers -> 0 .. MaxElapsed] /\ timeout' \in [Timers -> Timeouts \cup {Off}]
    BY <1>1, TimerAssumption, SMTT(30) DEF IInv, TypeOK
  <2>2. delta' \in [Timers -> 0 .. UINT_MOD - 1]
    BY <1>2 DEF Good
  <2> QED
    BY <1>1, <1>2, <2>1, <2>2 DEF IInv, TypeOK
<1>4. Listing'
  <2>1. \A u \in Listed(list') : Left(list', delta', u) # 0
    BY <1>1, <1>2, StillNonzero DEF IInv
  <2> QED
    BY <1>1, <1>2, <2>1 DEF IInv, Listing
<1> QED
  BY <1>1, <1>2, <1>3, <1>4 DEF IInv, StaleIsInvalid

\* The first half of ml_timer_start().
LEMMA StartStopsKeeps ==
  ASSUME IInv, NEW t \in Timers, NEW initial \in Timeouts, NEW repeat \in Periods,
         StartStops(t, initial, repeat)
  PROVE  IInv'
<1>1. /\ starting = NotStarting /\ MutexIsFree /\ StopTimer(t)
      /\ starting' = [timer |-> t, initial |-> initial, repeat |-> repeat]
      /\ timeout' = [timeout EXCEPT ![t] = initial] /\ elapsed' = [elapsed EXCEPT ![t] = 0]
      /\ repeat_ticks' = repeat_ticks /\ outstanding' = outstanding /\ hpc' = hpc
      /\ current' = current /\ expired' = expired
      /\ checked' = checked /\ clock' = clock
  BY DEF StartStops, handlerVars
<1>2. /\ list' \in Seq(Timers) /\ Good(list', delta')
      /\ Listed(list') = Listed(list) \ {t}
      /\ Same(list, delta, list', delta', Listed(list'))
      /\ ignore' \in [Timers -> Nat]
      /\ queue' \in Seq([timer : Timers, stale : BOOLEAN]) /\ Len(queue') <= Capacity
      /\ held' \in Seq([timer : Timers, stale : BOOLEAN]) /\ Len(held') <= 1
      /\ Counting' /\ current = NoTimer
  BY <1>1, StopKeeps
<1>3. /\ starting'.timer = t /\ starting'.initial = initial /\ starting'.repeat = repeat
      /\ starting' \in [timer : Timers \cup {NoTimer}, initial : Timeouts \cup {0},
                        repeat : Periods \cup {0}]
  BY <1>1
<1>4. TypeOK'
  <2>1. elapsed' \in [Timers -> 0 .. MaxElapsed] /\ timeout' \in [Timers -> Timeouts \cup {Off}]
    BY <1>1, TimerAssumption, SMTT(30) DEF IInv, TypeOK
  <2>2. delta' \in [Timers -> 0 .. UINT_MOD - 1]
    BY <1>2 DEF Good
  <2> QED
    BY <1>1, <1>2, <1>3, <2>1, <2>2 DEF IInv, TypeOK
<1>5. Listing'
  <2>1. \A u \in Listed(list') : Left(list', delta', u) # 0
    BY <1>1, <1>2, StillNonzero DEF IInv
  <2>2. t # current'
    BY <1>1, <1>2, TimerAssumption
  <2> QED
    BY <1>1, <1>2, <1>3, <2>1, <2>2 DEF IInv, Listing
<1> QED
  BY <1>1, <1>2, <1>4, <1>5 DEF IInv, StaleIsInvalid

\* The ticks of a timeout are natural numbers that fit.
LEMMA TicksFit ==
  /\ \A initial \in Timeouts : StartTicks(initial) \in 1 .. UINT_MOD - 1
  /\ \A repeat \in Periods : DIV_CEIL(repeat, TICK) \in 0 .. UINT_MOD - 1
<1>1. ASSUME NEW a \in 0 .. UINT_MOD - 1 PROVE DIV_CEIL(a, TICK) \in 0 .. UINT_MOD - 1
  <2> DEFINE x == (a + TICK - 1) % UINT_MOD
  <2>1. x \in 0 .. UINT_MOD - 1 /\ TICK \in Nat \ {0} /\ UINT_MOD \in Nat
    BY TimerAssumption
  <2> HIDE DEF x
  <2>2. x \div TICK \in 0 .. x
    BY <2>1
  <2>3. x \div TICK \in 0 .. UINT_MOD - 1
    BY <2>1, <2>2
  <2> QED
    BY <2>3 DEF DIV_CEIL, x
<1>2. ASSUME NEW initial \in Timeouts PROVE StartTicks(initial) \in 1 .. UINT_MOD - 1
  <2>1. initial \in 0 .. UINT_MOD - 1 /\ UINT_MOD \in Nat
    BY TimerAssumption
  <2>2. DIV_CEIL(initial, TICK) \in 0 .. UINT_MOD - 1 /\ DIV_CEIL(initial, TICK) + 1 < UINT_MOD
    BY <1>1, <2>1, TicksAssumption
  <2> QED
    BY <2>1, <2>2 DEF StartTicks
<1> QED
  BY <1>1, <1>2, TimerAssumption

\* The second half of ml_timer_start().
LEMMA StartInsertsKeeps == ASSUME IInv, StartInserts PROVE IInv'
<1> DEFINE t == starting.timer
           ticks == StartTicks(starting.initial)
           new == timer_list_insert(list, delta, t, ticks)
<1>1. /\ starting # NotStarting /\ MutexIsFree /\ starting' = NotStarting
      /\ repeat_ticks' = [repeat_ticks EXCEPT ![t] = DIV_CEIL(starting.repeat, TICK)]
      /\ list' = new.list /\ delta' = new.delta
      /\ outstanding' = outstanding /\ ignore' = ignore /\ hpc' = hpc /\ current' = current
      /\ expired' = expired /\ queue' = queue /\ held' = held /\ checked' = checked
      /\ clock' = clock /\ elapsed' = elapsed /\ timeout' = timeout
  BY DEF StartInserts, SetList, countVars, handlerVars, timeVars
<1>2. /\ t \in Timers /\ starting.initial \in Timeouts /\ starting.repeat \in Periods
      /\ t \notin Listed(list) /\ t # current /\ Good(list, delta)
  BY <1>1 DEF IInv, Listing
<1>3. /\ ticks \in 1 .. UINT_MOD - 1 /\ ticks \in 0 .. UINT_MOD - 1
      /\ DIV_CEIL(starting.repeat, TICK) \in 0 .. UINT_MOD - 1 /\ UINT_MOD \in Nat
  <2>1. StartTicks(starting.initial) \in 1 .. UINT_MOD - 1
    BY <1>2, TicksFit
  <2>2. DIV_CEIL(starting.repeat, TICK) \in 0 .. UINT_MOD - 1 /\ UINT_MOD \in Nat
    BY <1>2, TicksFit, TimerAssumption
  <2> HIDE DEF t, new, ticks
  <2>3. ticks \in 1 .. UINT_MOD - 1
    BY <2>1 DEF ticks
  <2> QED
    BY <2>2, <2>3
<1>4. /\ Good(new.list, new.delta) /\ Listed(new.list) = Listed(list) \cup {t}
      /\ Left(new.list, new.delta, t) = ticks
      /\ Same(list, delta, new.list, new.delta, Listed(list))
  BY <1>2, <1>3, InsertIs
<1>5. current = NoTimer /\ NoTimer \notin Timers
  BY <1>1, Typing, TimerAssumption DEF IInv
<1> HIDE DEF t, ticks, new
<1>6. /\ repeat_ticks' \in [Timers -> 0 .. UINT_MOD - 1] /\ repeat_ticks' \in [Timers -> Nat]
  BY <1>1, <1>2, <1>3 DEF IInv, Listing
<1>7. NotStarting.timer = NoTimer
  BY DEF NotStarting
<1>8. TypeOK'
  <2>1. list' \in Seq(Timers) /\ delta' \in [Timers -> 0 .. UINT_MOD - 1]
    BY <1>1, <1>4 DEF Good
  <2>2. NotStarting \in [timer : Timers \cup {NoTimer}, initial : Timeouts \cup {0},
                         repeat : Periods \cup {0}]
    BY DEF NotStarting
  <2> QED
    BY <1>1, <1>6, <2>1, <2>2 DEF IInv, TypeOK
<1>9. Listing'
  <2>1. NoTimer \notin Listed(list')
    <3>1. NoTimer \notin Listed(list)
      BY <1>5 DEF IInv, Listing
    <3> QED
      BY <1>1, <1>2, <1>4, <1>5, <3>1
  <2>2. \A u \in Listed(list) : Left(list', delta', u) # 0
    BY <1>1, <1>4, StillNonzero DEF IInv
  <2>3. Left(list', delta', t) # 0
    BY <1>1, <1>3, <1>4
  <2> QED
    BY <1>1, <1>4, <1>5, <1>6, <1>7, <2>1, <2>2, <2>3 DEF Listing
<1>10. Counting'
  BY <1>1, CountingKept DEF IInv, countVars
<1> QED
  BY <1>1, <1>8, <1>9, <1>10 DEF IInv, StaleIsInvalid

\* A message moves from the queue to the hands of the application.
LEMMA GetKeeps == ASSUME IInv, Get PROVE IInv'
<1>1. /\ held = <<>> /\ queue # <<>> /\ held' = <<Head(queue)>> /\ queue' = Tail(queue)
      /\ list' = list /\ delta' = delta /\ repeat_ticks' = repeat_ticks
      /\ outstanding' = outstanding /\ ignore' = ignore /\ hpc' = hpc /\ current' = current
      /\ expired' = expired /\ starting' = starting /\ checked' = checked
      /\ clock' = clock /\ elapsed' = elapsed /\ timeout' = timeout
  BY DEF Get, listVars, countVars, handlerVars, timeVars
<1>2. queue \in Seq(Msgs) /\ Len(queue) <= Capacity /\ Capacity \in Nat
  BY Typing, TimerAssumption DEF IInv, TypeOK
<1>3. /\ held' \in Seq(Msgs) /\ Len(held') = 1 /\ queue' \in Seq(Msgs) /\ Len(queue') <= Capacity
      /\ held'[1] = queue[1] /\ Len(queue') = Len(queue) - 1 /\ Len(queue) \in Nat
      /\ \A i \in 1 .. Len(queue) - 1 : queue'[i] = queue[i + 1]
  BY <1>1, <1>2
<1>4. InFlight' = InFlight
  <2>1. InFlight = queue
    BY <1>1, <1>2, ConcatEmptySeq DEF InFlight
  <2>2. /\ InFlight' \in Seq(Msgs) /\ Len(InFlight') = Len(held') + Len(queue')
        /\ \A i \in 1 .. Len(held') : InFlight'[i] = held'[i]
        /\ \A i \in Len(held') + 1 .. Len(held') + Len(queue') : InFlight'[i] = queue'[i - Len(held')]
    <3>1. held' \in Seq(Msgs) /\ queue' \in Seq(Msgs)
      BY <1>3
    <3>2. InFlight' = held' \o queue'
      BY DEF InFlight
    <3>3. /\ held' \o queue' \in Seq(Msgs) /\ Len(held' \o queue') = Len(held') + Len(queue')
          /\ \A i \in 1 .. Len(held') : (held' \o queue')[i] = held'[i]
          /\ \A i \in Len(held') + 1 .. Len(held') + Len(queue') : (held' \o queue')[i] = queue'[i - Len(held')]
      BY <3>1, ConcatAt, Zenon
    <3> QED
      BY <3>2, <3>3, Zenon
  <2>3. Len(InFlight') = Len(queue)
    BY <1>3, <2>2
  <2>4. ASSUME NEW i \in 1 .. Len(queue) PROVE InFlight'[i] = queue[i]
    <3>1. CASE i = 1
      BY <1>3, <2>2, <3>1
    <3>2. CASE i # 1
      <4>1. i \in Len(held') + 1 .. Len(held') + Len(queue') /\ i - 1 \in 1 .. Len(queue) - 1 /\ (i - 1) + 1 = i
        BY <1>3, <3>2
      <4>2. InFlight'[i] = queue'[i - 1]
        BY <1>3, <2>2, <4>1
      <4>3. queue'[i - 1] = queue[i]
        BY <1>3, <4>1
      <4> QED
        BY <4>2, <4>3
    <3> QED
      BY <3>1, <3>2
  <2>5. InFlight' = queue
    BY <1>2, <2>2, <2>3, <2>4, SeqEqual
  <2> QED
    BY <2>1, <2>5
<1>5. TypeOK'
  <2>1. /\ held' \in Seq([timer : Timers, stale : BOOLEAN]) /\ Len(held') <= 1
        /\ queue' \in Seq([timer : Timers, stale : BOOLEAN]) /\ Len(queue') <= Capacity
    <3>1. Len(held') <= 1
      BY <1>3
    <3> QED
      BY <1>3, <3>1 DEF Msgs
  <2>2. TypeOK
    BY DEF IInv
  <2> QED
    BY <1>1, <2>1, <2>2 DEF TypeOK
<1>6. Listing'
  BY <1>1, ListingKept DEF IInv, listVars
<1>7. Counting'
  BY <1>1, <1>4 DEF IInv, Counting
<1> QED
  BY <1>1, <1>5, <1>6, <1>7 DEF IInv, StaleIsInvalid

\* The question if a message is valid.
LEMMA AskKeeps == ASSUME IInv, ml_timer_is_message_valid PROVE IInv'
<1> DEFINE t == held[1].timer
<1>1. /\ held # <<>> /\ MutexIsFree /\ held' = <<>> /\ queue' = queue
      /\ outstanding' = [outstanding EXCEPT ![t] = @ - 1]
      /\ ignore' = [ignore EXCEPT ![t] = IF @ > 0 THEN @ - 1 ELSE @]
      /\ checked' = [valid |-> ignore[t] = 0, stale |-> held[1].stale]
      /\ list' = list /\ delta' = delta /\ repeat_ticks' = repeat_ticks
      /\ hpc' = hpc /\ current' = current
      /\ expired' = expired /\ starting' = starting
      /\ clock' = clock /\ elapsed' = elapsed /\ timeout' = timeout
  BY DEF ml_timer_is_message_valid, listVars, handlerVars, timeVars
<1>2. /\ held \in Seq(Msgs) /\ queue \in Seq(Msgs) /\ InFlight \in Seq(Msgs)
      /\ outstanding \in [Timers -> Nat] /\ ignore \in [Timers -> Nat]
      /\ current = NoTimer /\ Len(held) <= 1
  BY <1>1, Typing DEF IInv, TypeOK
<1>3. Len(held) = 1 /\ held[1] \in Msgs
  <2>1. held \in Seq(Msgs) /\ held # <<>> /\ Len(held) <= 1
    BY <1>1, <1>2
  <2> HIDE DEF t
  <2>2. Len(held) \in Nat /\ Len(held) # 0
    BY <2>1, EmptySeq
  <2>3. Len(held) = 1
    BY <2>1, <2>2
  <2>4. 1 \in 1 .. Len(held)
    BY <2>3
  <2>5. held[1] \in Msgs
    BY <2>1, <2>4, ElementOfSeq
  <2> QED
    BY <2>3, <2>5
<1>4. t \in Timers /\ held[1].stale \in BOOLEAN
  BY <1>3 DEF Msgs
<1> HIDE DEF t
<1>5. /\ Len(InFlight) = 1 + Len(queue) /\ InFlight[1] = held[1] /\ Len(queue) \in Nat
      /\ \A i \in 2 .. 1 + Len(queue) : InFlight[i] = queue[i - 1]
  <2>1. /\ Len(InFlight) = Len(held) + Len(queue)
        /\ \A i \in 1 .. Len(held) : InFlight[i] = held[i]
        /\ \A i \in Len(held) + 1 .. Len(held) + Len(queue) : InFlight[i] = queue[i - Len(held)]
    BY <1>2, ConcatAt, Zenon DEF InFlight
  <2> QED
    BY <1>2, <1>3, <2>1
<1>6. InFlight' = Tail(InFlight) /\ InFlight # <<>>
  <2>1. InFlight' = queue
    BY <1>1, <1>2, ConcatEmptySeq DEF InFlight
  <2> DEFINE f == InFlight
  <2>2. f \in Seq(Msgs) /\ f # <<>>
    BY <1>2, <1>5
  <2> HIDE DEF f
  <2>3. /\ Tail(f) \in Seq(Msgs) /\ Len(Tail(f)) = Len(f) - 1
        /\ \A i \in 1 .. Len(f) - 1 : Tail(f)[i] = f[i + 1]
    BY <2>2
  <2>4. Len(Tail(f)) = Len(queue)
    BY <1>5, <2>3 DEF f
  <2>5. ASSUME NEW i \in 1 .. Len(queue) PROVE Tail(f)[i] = queue[i]
    <3>1. i \in 1 .. Len(f) - 1 /\ i + 1 \in 2 .. 1 + Len(queue) /\ (i + 1) - 1 = i
      BY <1>5 DEF f
    <3> QED
      BY <1>5, <2>3, <3>1 DEF f
  <2>6. Tail(f) = queue
    BY <1>2, <2>3, <2>4, <2>5, SeqEqual
  <2> QED
    BY <2>1, <2>2, <2>6 DEF f
<1>7. InFlight[1].timer = t
  BY <1>5 DEF t
<1>8. /\ Counts(Tail(InFlight), NoTimer, [outstanding EXCEPT ![t] = @ - 1],
                [ignore EXCEPT ![t] = IF @ > 0 THEN @ - 1 ELSE @])
      /\ outstanding[t] - 1 \in Nat
      /\ ignore[t] = 0 <=> ~InFlight[1].stale
  <2>1. Counts(InFlight, NoTimer, outstanding, ignore)
    BY <1>2 DEF IInv, Counting
  <2> QED
    <3> DEFINE f == InFlight
    <3>1. f \in Seq(Msgs) /\ f # <<>> /\ f[1].timer = t
      BY <1>2, <1>6, <1>7
    <3>2. Counts(f, NoTimer, outstanding, ignore)
      BY <2>1
    <3> HIDE DEF f
    <3>3. /\ Counts(Tail(f), NoTimer, [outstanding EXCEPT ![t] = @ - 1],
                    [ignore EXCEPT ![t] = IF @ > 0 THEN @ - 1 ELSE @])
          /\ outstanding[t] - 1 \in Nat
          /\ ignore[t] = 0 <=> ~f[1].stale
      <4>1. outstanding \in [Timers -> Nat] /\ ignore \in [Timers -> Nat]
        BY <1>2
      <4> QED
        BY <1>4, <3>1, <3>2, <4>1, CountsAsk, ZenonT(30)
    <3> QED
      BY <3>3 DEF f
<1>9. Counting'
  BY <1>1, <1>2, <1>6, <1>8 DEF Counting
<1>10. /\ outstanding' \in [Timers -> Nat] /\ ignore' \in [Timers -> Nat]
  BY <1>1, <1>2, <1>4, <1>8
<1>11. StaleIsInvalid' /\ checked' \in [valid : BOOLEAN, stale : BOOLEAN]
  BY <1>1, <1>4, <1>5, <1>8 DEF StaleIsInvalid
<1>12. TypeOK'
  <2>1. held' \in Seq([timer : Timers, stale : BOOLEAN]) /\ Len(held') <= 1
    BY <1>1
  <2>2. TypeOK
    BY DEF IInv
  <2> QED
    BY <1>1, <1>10, <1>11, <2>1, <2>2 DEF TypeOK
<1>13. Listing'
  BY <1>1, ListingKept DEF IInv, listVars
<1> QED
  BY <1>9, <1>11, <1>12, <1>13 DEF IInv

\* Every step keeps the invariant.
LEMMA StepKeeps == IInv /\ [Next]_vars => IInv'
<1>1. ASSUME IInv, Next PROVE IInv'
  BY <1>1, AdvanceKeeps, ReadKeeps, BeginKeeps, PopKeeps, PutKeeps, EndKeeps, TimerStopKeeps,
     StartStopsKeeps, StartInsertsKeeps, GetKeeps, AskKeeps DEF Next
<1>2. ASSUME IInv, UNCHANGED vars PROVE IInv'
  <2>1. TypeOK'
    BY <1>2 DEF IInv, TypeOK, vars, listVars, countVars, handlerVars, appVars, timeVars
  <2>2. Listing'
    BY <1>2, ListingKept DEF IInv, vars, listVars, handlerVars, appVars
  <2>3. Counting'
    BY <1>2, CountingKept DEF IInv, vars, handlerVars, appVars
  <2> QED
    BY <1>2, <2>1, <2>2, <2>3 DEF IInv, vars, appVars, StaleIsInvalid
<1> QED
  BY <1>1, <1>2

\* The invariant holds in every state of every behaviour.
LEMMA Invariance == Spec => []IInv
BY InitInv, StepKeeps, PTL DEF Spec

\* The counters number_of_outstanding_timeouts and number_of_timeouts_to_ignore
\* account for every message in flight, the oldest ones are those to ignore, and
\* no difference in the list wraps.
THEOREM CountersAccount == Spec => []CountersMatchFlight
<1>1. IInv => CountersMatchFlight
  BY DEF IInv, Counting, Counts, CountersMatchFlight, MessagesOf, StaleOf, Of, StaleIn
<1> QED
  BY <1>1, Invariance, PTL

\* ml_timer_is_message_valid() says no to a message if and only if the timer was
\* stopped or restarted after the message was put.
THEOREM StaleRejected == Spec => []StaleIsInvalid
<1>1. IInv => StaleIsInvalid
  BY DEF IInv
<1> QED
  BY <1>1, Invariance, PTL

-----------------------------------------------------------------------------
(* The list implements Countdown                                             *)

\* RemainingTicks, of any list.
Rem(l, d, cur) == [t \in Timers |-> IF t \in Listed(l) THEN Left(l, d, t)
                                    ELSE IF cur = t THEN 0 ELSE Off]

\* The refinement mapping before and after a step.
LEMMA RemIs ==
  /\ RemainingTicks = Rem(list, delta, current)
  /\ RemainingTicks' = Rem(list', delta', current')
<1>1. \A l, t : (\E i \in 1 .. Len(l) : l[i] = t) <=> t \in Listed(l)
  BY DEF Listed
<1> QED
  BY <1>1 DEF RemainingTicks, Rem, Left

\* The ticks left of a listed timer are a number.
LEMMA LeftIsNat ==
  ASSUME NEW l, NEW d, Good(l, d)
  PROVE  \A u \in Listed(l) : u \in Timers /\ Left(l, d, u) \in Nat
<1> SUFFICES ASSUME NEW i \in 1 .. Len(l) PROVE l[i] \in Timers /\ Left(l, d, l[i]) \in Nat
  BY DEF Listed
<1>1. i \in 0 .. Len(l) /\ Len(l) \in Nat
  BY GoodSums
<1> QED
  BY <1>1, GoodSums

\* What Countdown sees of a step that leaves the list alone.
LEMMA ListUnseen ==
  ASSUME list' = list, delta' = delta, current' = current, repeat_ticks' = repeat_ticks
  PROVE  UNCHANGED C!vars
BY RemIs DEF C!vars

\* The initial state of Countdown.
LEMMA InitCountdown == Init => C!Init
<1> SUFFICES ASSUME Init PROVE C!Init
  OBVIOUS
<1>1. Listed(list) = {} /\ current \notin Timers
  BY TimerAssumption DEF Init, Listed
<1>2. RemainingTicks = [t \in Timers |-> Off]
  BY <1>1, RemIs DEF Rem
<1> QED
  BY <1>2 DEF C!Init, Init

\* One tick is one tick of every timer.
LEMMA BeginCounts == ASSUME IInv, TickBegin PROVE [C!Next]_(C!vars)
<1> DEFINE r == RemainingTicks
<1>1. /\ hpc = "lock" /\ list' = list /\ repeat_ticks' = repeat_ticks /\ current' = current
      /\ current = NoTimer /\ NoTimer \notin Timers /\ Good(list, delta)
      /\ \A u \in Listed(list) : Left(list, delta, u) # 0
  BY TimerAssumption DEF IInv, TypeOK, Listing, TickBegin
<1>2. CASE list = <<>>
  <2>1. delta' = delta
    BY <1>2 DEF TickBegin
  <2> QED
    BY <1>1, <2>1, ListUnseen
<1>3. CASE list # <<>>
  <2>1. delta' = [delta EXCEPT ![Head(list)] = Minus(@, 1)]
    BY <1>3 DEF TickBegin
  <2>2. \A u \in Listed(list) : /\ Left(list', delta', u) = Left(list, delta, u) - 1
                                /\ Left(list, delta, u) \in Nat
    BY <1>1, <1>3, <2>1, CountIs, LeftIsNat
  <2>3. /\ r = [t \in Timers |-> IF t \in Listed(list) THEN Left(list, delta, t) ELSE Off]
        /\ r' = [t \in Timers |-> IF t \in Listed(list) THEN Left(list', delta', t) ELSE Off]
    BY <1>1, RemIs DEF Rem
  <2>4. \A t \in Timers : r[t] # 0
    <3> TAKE t \in Timers
    <3>1. CASE t \in Listed(list)
      BY <1>1, <2>3, <3>1
    <3>2. CASE t \notin Listed(list)
      BY <2>3, <3>2, TimerAssumption
    <3> QED
      BY <3>1, <3>2
  <2>5. r' = [t \in Timers |-> IF r[t] = Off THEN Off ELSE r[t] - 1]
    <3>1. ASSUME NEW t \in Timers PROVE r'[t] = IF r[t] = Off THEN Off ELSE r[t] - 1
      <4>1. CASE t \in Listed(list)
        <5>1. r[t] = Left(list, delta, t) /\ r'[t] = Left(list, delta, t) - 1 /\ r[t] # Off
          BY <2>2, <2>3, <4>1, TimerAssumption
        <5> QED
          BY <5>1
      <4>2. CASE t \notin Listed(list)
        BY <2>3, <4>2
      <4> QED
        BY <4>1, <4>2
    <3> QED
      BY <2>3, <3>1
  <2>6. C!Tick
    BY <1>1, <2>4, <2>5 DEF C!Tick
  <2> QED
    BY <2>6 DEF C!Next
<1> QED
  BY <1>2, <1>3

\* Taking a timer off the list is not seen: it has 0 ticks left before and after.
LEMMA PopUnseen == ASSUME IInv, TickPop PROVE UNCHANGED C!vars
<1> DEFINE h == Head(list)
<1>1. /\ list # <<>> /\ delta[h] = 0 /\ Good(list, delta) /\ hpc = "loop"
      /\ current' = h /\ list' = Tail(list) /\ delta' = delta
      /\ repeat_ticks' = repeat_ticks
  BY DEF IInv, Listing, TickPop, FirstExpires
<1>2. /\ h \in Timers /\ h \in Listed(list) /\ Left(list, delta, h) = 0
      /\ Listed(Tail(list)) = Listed(list) \ {h}
      /\ Same(list, delta, Tail(list), delta, Listed(Tail(list)))
  BY <1>1, TailIs
<1>3. current = NoTimer /\ NoTimer \notin Timers
  BY <1>1, TimerAssumption DEF IInv, TypeOK
<1> HIDE DEF h
<1>4. ASSUME NEW t \in Timers
      PROVE  Rem(list', delta', current')[t] = Rem(list, delta, current)[t]
  BY <1>1, <1>2, <1>3 DEF Rem, Same
<1>5. Rem(list', delta', current') = Rem(list, delta, current)
  BY <1>4 DEF Rem
<1> QED
  BY <1>1, <1>5, RemIs DEF C!vars

\* The put of the message is the moment a timer fires.
LEMMA PutFires == ASSUME IInv, TickPut PROVE C!Fire(current) /\ current \in Timers
<1> DEFINE c == current
           p == repeat_ticks[c]
<1>1. /\ hpc = "put" /\ current' = NoTimer /\ repeat_ticks' = repeat_ticks
      /\ c \in Timers /\ c \notin Listed(list) /\ Good(list, delta)
      /\ p \in 0 .. UINT_MOD - 1 /\ NoTimer \notin Timers /\ UINT_MOD \in Nat
  BY TimerAssumption DEF IInv, TypeOK, Listing, TickPut
<1>2. RemainingTicks[c] = 0
  BY <1>1, RemIs DEF Rem
<1>3. RemainingTicks' = [RemainingTicks EXCEPT ![c] = IF p = 0 THEN Off ELSE p]
  <2>1. CASE p > 0
    <3> DEFINE new == timer_list_insert(list, delta, c, p)
    <3>1. list' = new.list /\ delta' = new.delta
      BY <2>1 DEF TickPut, SetList
    <3>2. /\ Listed(new.list) = Listed(list) \cup {c}
          /\ Left(new.list, new.delta, c) = p
          /\ Same(list, delta, new.list, new.delta, Listed(list))
      BY <1>1, InsertIs
    <3> HIDE DEF new, c, p
    <3>3. ASSUME NEW t \in Timers
          PROVE  Rem(list', delta', current')[t]
                   = [Rem(list, delta, current) EXCEPT ![c] = IF p = 0 THEN Off ELSE p][t]
      <4>1. CASE t = c
        BY <1>1, <2>1, <3>1, <3>2, <4>1 DEF Rem
      <4>2. CASE t # c
        <5>1. t \in Listed(list') <=> t \in Listed(list)
          BY <3>1, <3>2, <4>2
        <5>2. t \in Listed(list) => Left(list', delta', t) = Left(list, delta, t)
          BY <3>1, <3>2 DEF Same
        <5> QED
          BY <1>1, <4>2, <5>1, <5>2 DEF Rem, c
      <4> QED
        BY <4>1, <4>2
    <3>4. Rem(list', delta', current')
            = [Rem(list, delta, current) EXCEPT ![c] = IF p = 0 THEN Off ELSE p]
      BY <3>3 DEF Rem
    <3> QED
      BY <3>4, RemIs
  <2>2. CASE ~(p > 0)
    <3>1. list' = list /\ delta' = delta /\ p = 0
      BY <1>1, <2>2 DEF TickPut
    <3> HIDE DEF p
    <3>2. ASSUME NEW t \in Timers
          PROVE  Rem(list', delta', current')[t] = [Rem(list, delta, current) EXCEPT ![c] = Off][t]
      BY <1>1, <3>1 DEF Rem
    <3>3. Rem(list', delta', current') = [Rem(list, delta, current) EXCEPT ![c] = Off]
      BY <3>2 DEF Rem
    <3> QED
      BY <3>1, <3>3, RemIs
  <2> QED
    BY <2>1, <2>2
<1> QED
  BY <1>1, <1>2, <1>3 DEF C!Fire

\* Stopping a timer concerns no other.
LEMMA StopIsStop ==
  ASSUME IInv, NEW t \in Timers, StopTimer(t), MutexIsFree, current' = current,
         outstanding' = outstanding, repeat_ticks' = repeat_ticks
  PROVE  C!Stop(t)
<1>1. /\ Listed(list') = Listed(list) \ {t}
      /\ Same(list, delta, list', delta', Listed(list'))
      /\ current = NoTimer /\ NoTimer \notin Timers
  BY StopKeeps, TimerAssumption
<1>2. ASSUME NEW u \in Timers
      PROVE  Rem(list', delta', current')[u] = [Rem(list, delta, current) EXCEPT ![t] = Off][u]
  BY <1>1 DEF Rem, Same
<1>3. Rem(list', delta', current') = [Rem(list, delta, current) EXCEPT ![t] = Off]
  BY <1>2 DEF Rem
<1> QED
  BY <1>3, RemIs DEF C!Stop

\* Inserting a timer concerns no other.
LEMMA InsertStarts == ASSUME IInv, StartInserts PROVE C!Start(starting.timer) /\ starting.timer \in Timers
<1> DEFINE t == starting.timer
           ticks == StartTicks(starting.initial)
           new == timer_list_insert(list, delta, t, ticks)
           q == DIV_CEIL(starting.repeat, TICK)
<1>1. /\ starting # NotStarting /\ MutexIsFree
      /\ repeat_ticks' = [repeat_ticks EXCEPT ![t] = q]
      /\ list' = new.list /\ delta' = new.delta /\ current' = current
  BY DEF StartInserts, SetList, handlerVars
<1>2. /\ t \in Timers /\ starting.initial \in Timeouts /\ starting.repeat \in Periods
      /\ t \notin Listed(list) /\ Good(list, delta)
  BY <1>1 DEF IInv, Listing
<1>3. ticks \in 1 .. UINT_MOD - 1 /\ q \in 0 .. UINT_MOD - 1 /\ UINT_MOD \in Nat
  BY <1>2, TicksFit, TimerAssumption
<1>4. current = NoTimer /\ NoTimer \notin Timers /\ repeat_ticks \in [Timers -> Nat]
  BY <1>1, Typing, TimerAssumption DEF IInv, TypeOK
<1> HIDE DEF ticks, q, t
<1>5. ticks \in 0 .. UINT_MOD - 1 /\ ticks \in Nat \ {0} /\ q \in Nat
  BY <1>3
<1>6. /\ Listed(new.list) = Listed(list) \cup {t}
      /\ Left(new.list, new.delta, t) = ticks
      /\ Same(list, delta, new.list, new.delta, Listed(list))
  BY <1>2, <1>5, InsertIs
<1> HIDE DEF new
<1>7. ASSUME NEW u \in Timers
      PROVE  Rem(list', delta', current')[u] = [Rem(list, delta, current) EXCEPT ![t] = ticks][u]
  <2>1. CASE u = t
    BY <1>1, <1>2, <1>6, <2>1 DEF Rem
  <2>2. CASE u # t
    <3>1. u \in Listed(list') <=> u \in Listed(list)
      BY <1>1, <1>6, <2>2
    <3>2. u \in Listed(list) => Left(list', delta', u) = Left(list, delta, u)
      BY <1>1, <1>6 DEF Same
    <3> QED
      BY <1>1, <2>2, <3>1, <3>2 DEF Rem
  <2> QED
    BY <2>1, <2>2
<1>8. RemainingTicks' = [RemainingTicks EXCEPT ![t] = ticks]
  <2>1. Rem(list', delta', current') = [Rem(list, delta, current) EXCEPT ![t] = ticks]
    BY <1>7 DEF Rem
  <2> QED
    BY <2>1, RemIs
<1>9. RemainingTicks[t] = Off /\ RemainingTicks'[t] = ticks
  <2>1. RemainingTicks[t] = Off
    BY <1>2, <1>4, RemIs DEF Rem
  <2>2. RemainingTicks = Rem(list, delta, current)
    BY RemIs
  <2>3. RemainingTicks'[t] = ticks
    BY <1>2, <1>8, <2>2 DEF Rem
  <2> QED
    BY <2>1, <2>3
<1>10. repeat_ticks'[t] = q
  BY <1>1, <1>2, <1>4
<1>11. C!Start(t)
  BY <1>1, <1>5, <1>8, <1>9, <1>10 DEF C!Start
<1> QED
  BY <1>2, <1>11 DEF t

\* Every step is a step of Countdown, or none that it can see.
LEMMA StepCountsDown == IInv /\ [Next]_vars => [C!Next]_(C!vars)
<1> SUFFICES ASSUME IInv, [Next]_vars PROVE [C!Next]_(C!vars)
  OBVIOUS
<1>1. CASE AdvanceTime
  BY <1>1, ListUnseen DEF AdvanceTime, listVars
<1>2. CASE HandlerRead
  BY <1>2, ListUnseen DEF HandlerRead, listVars
<1>3. CASE TickBegin
  BY <1>3, BeginCounts
<1>4. CASE TickPop
  BY <1>4, PopUnseen
<1>5. CASE TickPut
  BY <1>5, PutFires DEF C!Next
<1>6. CASE TickEnd
  BY <1>6, ListUnseen DEF TickEnd, listVars
<1>7. ASSUME NEW t \in Timers, ml_timer_stop(t) PROVE [C!Next]_(C!vars)
  <2>1. C!Stop(t)
    BY <1>7, StopIsStop DEF ml_timer_stop, handlerVars
  <2> QED
    BY <2>1 DEF C!Next
<1>8. ASSUME NEW t \in Timers, NEW i \in Timeouts, NEW r \in Periods, StartStops(t, i, r)
      PROVE  [C!Next]_(C!vars)
  <2>1. C!Stop(t)
    BY <1>8, StopIsStop DEF StartStops, handlerVars
  <2> QED
    BY <2>1 DEF C!Next
<1>9. CASE StartInserts
  BY <1>9, InsertStarts DEF C!Next
<1>10. CASE Get
  BY <1>10, ListUnseen DEF Get, listVars, handlerVars
<1>11. CASE ml_timer_is_message_valid
  BY <1>11, ListUnseen DEF ml_timer_is_message_valid, listVars, handlerVars
<1>12. CASE UNCHANGED vars
  BY <1>12, ListUnseen DEF vars, listVars, handlerVars
<1> QED
  BY <1>1, <1>2, <1>3, <1>4, <1>5, <1>6, <1>7, <1>8, <1>9, <1>10, <1>11, <1>12 DEF Next

\* The sorted list of differences, with its insertions, removals and the one
\* timer that counts, behaves as if every timer counted its own ticks: each one
\* fires when it has counted them, before the next tick, whatever is started,
\* stopped or restarted meanwhile.
THEOREM ListCountsDown == Spec => ImplementsCountdown
BY InitCountdown, StepCountsDown, Invariance, PTL DEF Spec, ImplementsCountdown, C!Spec

-----------------------------------------------------------------------------
(* Timers are never more than two ticks early                                *)

\* Ticks that were due and that tick() has not counted.
Pending == (IF expired THEN 1 ELSE 0) + (IF hpc = "lock" THEN 1 ELSE 0)

\* Ticks that a started timer counts before it expires.
ToCount(t) == IF starting.timer = t THEN StartTicks(starting.initial)
              ELSE RemainingTicks[t]

\* A started timer is being started, listed, or in the hands of tick().
Somewhere(t) == starting.timer = t \/ t \in Listed(list) \/ current = t

\* What has elapsed since the start, and the ticks still to count without those
\* that were due already, make up the timeout but for two ticks.
InTime(t) ==
  \/ elapsed[t] = MaxElapsed
  \/ elapsed[t] + TICK * (ToCount(t) - Pending) - clock + 2 * TICK > timeout[t]

Fine(t) == timeout[t] # Off => /\ Somewhere(t)
                               /\ starting.timer = t => timeout[t] = starting.initial
                               /\ InTime(t)

OnTime == \A t \in Timers : Fine(t)

\* Timeouts that the history variable can tell from later ones, and for which
\* the rounding to ticks does not wrap.
Measurable == \A initial \in Timeouts : initial <= MaxElapsed /\ initial + TICK <= UINT_MOD

\* The ticks of a start cover the timeout and one tick more.
LEMMA EnoughTicks ==
  ASSUME Measurable, NEW initial \in Timeouts
  PROVE  /\ StartTicks(initial) \in Nat
         /\ TICK * StartTicks(initial) \in Nat
         /\ TICK * StartTicks(initial) >= initial + TICK
<1> DEFINE x == initial + TICK - 1
           q == x \div TICK
<1>1. TICK \in Nat \ {0} /\ UINT_MOD \in Nat \ {0} /\ initial \in Nat /\ initial + TICK <= UINT_MOD
  BY TimerAssumption DEF Measurable
<1>2. x \in 0 .. UINT_MOD - 1 /\ x \in Nat
  BY <1>1
<1>3. DIV_CEIL(initial, TICK) = q
  BY <1>2, NoWrap DEF DIV_CEIL
<1>4. q \in Nat /\ TICK * q > x - TICK
  <2> HIDE DEF x
  <2> QED
    BY <1>1, <1>2
<1> HIDE DEF q
<1>5. TICK * q >= initial /\ TICK * q \in Nat
  BY <1>1, <1>4
<1>6. TICK * (q + 1) = TICK * q + TICK
  BY <1>1, <1>4
<1> QED
  BY <1>1, <1>3, <1>4, <1>5, <1>6 DEF StartTicks

\* One tick less takes a tick's time.
LEMMA TickLess == ASSUME NEW a \in Int PROVE TICK * (a - 1) = TICK * a - TICK /\ TICK * a \in Int
BY TimerAssumption

\* The number of ticks to count is a number.
LEMMA ToCountIs ==
  ASSUME IInv, NEW t \in Timers, Somewhere(t)
  PROVE  ToCount(t) \in Nat /\ Pending \in 0 .. 2 /\ ToCount(t) - Pending \in Int
<1>1. Pending \in 0 .. 2
  BY DEF Pending
<1>2. ToCount(t) \in Nat
  <2>1. CASE starting.timer = t
    <3>1. starting # NotStarting
      BY <2>1, TimerAssumption DEF NotStarting
    <3>2. starting.initial \in Timeouts
      BY <3>1 DEF IInv, Listing
    <3>3. StartTicks(starting.initial) \in 1 .. UINT_MOD - 1
      BY <3>2, TicksFit
    <3> QED
      BY <2>1, <3>3 DEF ToCount
  <2>2. CASE starting.timer # t /\ t \in Listed(list)
    <3>1. Left(list, delta, t) \in Nat
      BY <2>2, LeftIsNat DEF IInv, Listing
    <3> QED
      BY <2>2, <3>1, RemIs DEF ToCount, Rem
  <2>3. CASE starting.timer # t /\ t \notin Listed(list)
    BY <2>3, RemIs DEF ToCount, Rem, Somewhere
  <2> QED
    BY <2>1, <2>2, <2>3
<1> QED
  BY <1>1, <1>2

\* A step that does not concern a timer keeps it in time.
LEMMA FineKept ==
  ASSUME NEW t \in Timers, Fine(t),
         timeout'[t] = timeout[t], elapsed'[t] = elapsed[t], clock' = clock,
         Pending' = Pending,
         timeout[t] # Off => /\ Somewhere(t) => Somewhere(t)'
                             /\ starting'.timer = t => starting' = starting
                             /\ Somewhere(t) => ToCount(t)' = ToCount(t)
  PROVE  Fine(t)'
BY DEF Fine, InTime

\* A timeout is a natural number.
LEMMA TimeoutIs ==
  ASSUME TypeOK, NEW t \in Timers, timeout[t] # Off
  PROVE  timeout[t] \in Timeouts /\ timeout[t] \in Nat
<1>1. timeout[t] \in Timeouts \cup {Off}
  BY DEF TypeOK
<1>2. Timeouts \subseteq Nat
  BY TimerAssumption
<1> QED
  BY <1>1, <1>2

\* What a step of Countdown that leaves t alone says about it.
LEMMA SameCount ==
  ASSUME NEW t \in Timers, RemainingTicks'[t] = RemainingTicks[t], starting'.timer # t,
         starting.timer # t
  PROVE  ToCount(t)' = ToCount(t)
BY DEF ToCount

\* A timer counts ticks or is in the hands of tick() exactly if Countdown counts it.
LEMMA SeenIs ==
  ASSUME IInv, IInv', NEW t \in Timers
  PROVE  /\ RemainingTicks[t] # Off <=> t \in Listed(list) \/ current = t
         /\ RemainingTicks'[t] # Off <=> t \in Listed(list') \/ current' = t
<1>1. ASSUME NEW l, NEW d, NEW cur, Good(l, d)
      PROVE  Rem(l, d, cur)[t] # Off <=> t \in Listed(l) \/ cur = t
  BY <1>1, LeftIsNat, TimerAssumption DEF Rem
<1>2. Good(list, delta) /\ Good(list', delta')
  BY DEF IInv, Listing
<1> QED
  BY <1>1, <1>2, RemIs

\* Nothing but time passes: what one millisecond adds to what has elapsed it
\* takes off the rest of the tick.
LEMMA AdvanceInTime ==
  ASSUME IInv, AdvanceTime, NEW t \in Timers, Fine(t)
  PROVE  Fine(t)'
<1>1. /\ clock' = (clock + 1) % TICK
      /\ expired' = (expired \/ clock' = 0)
      /\ elapsed'[t] = IF timeout[t] = Off \/ elapsed[t] = MaxElapsed
                         THEN elapsed[t] ELSE elapsed[t] + 1
      /\ list' = list /\ delta' = delta /\ current' = current /\ hpc' = hpc
      /\ starting' = starting /\ timeout' = timeout
  BY DEF AdvanceTime, listVars, appVars
<1>2. /\ clock \in 0 .. TICK - 1 /\ elapsed[t] \in 0 .. MaxElapsed /\ TICK \in Nat \ {0}
      /\ expired \in BOOLEAN /\ MaxElapsed \in Nat
  BY TimerAssumption DEF IInv, TypeOK
<1>3. ToCount(t)' = ToCount(t) /\ (Somewhere(t)' <=> Somewhere(t))
  BY <1>1, RemIs DEF ToCount, Somewhere
<1> SUFFICES ASSUME timeout[t] # Off PROVE Fine(t)'
  BY <1>1 DEF Fine
<1>4. Somewhere(t) /\ (starting.timer = t => timeout[t] = starting.initial) /\ InTime(t)
  BY DEF Fine
<1>5. ToCount(t) - Pending \in Int /\ Pending \in 0 .. 2 /\ ToCount(t) \in Nat
  BY <1>4, ToCountIs
<1>6. timeout[t] \in Nat
  BY TimeoutIs DEF IInv
<1>7. CASE elapsed[t] = MaxElapsed
  BY <1>1, <1>3, <1>4, <1>7 DEF Fine, InTime
<1>8. CASE elapsed[t] # MaxElapsed
  <2> DEFINE a == ToCount(t) - Pending
             b == TICK * a
  <2>1. elapsed[t] + b - clock + 2 * TICK > timeout[t] /\ b \in Int
    BY <1>2, <1>4, <1>5, <1>8 DEF InTime
  <2>2. elapsed'[t] = elapsed[t] + 1
    BY <1>1, <1>8
  <2>3. CASE clock + 1 < TICK
    <3>1. clock' = clock + 1
      BY <1>1, <1>2, <2>3
    <3>2. Pending' = Pending
      BY <1>1, <1>2, <3>1 DEF Pending
    <3>3. TICK * (ToCount(t)' - Pending') = b
      BY <1>3, <3>2
    <3> HIDE DEF b
    <3>4. elapsed'[t] + b - clock' + 2 * TICK > timeout[t]
      BY <1>2, <1>6, <2>1, <2>2, <3>1
    <3>5. InTime(t)'
      BY <1>1, <3>3, <3>4 DEF InTime
    <3> QED
      BY <1>1, <1>3, <1>4, <3>5 DEF Fine
  <2>4. CASE clock + 1 = TICK
    <3>1. clock' = 0
      BY <1>1, <1>2, <2>4
    <3>2. expired' = TRUE
      BY <1>1, <3>1
    <3>3. Pending' = Pending \/ Pending' = Pending + 1
      BY <1>1, <1>2, <3>2 DEF Pending
    <3>4. TICK * (ToCount(t)' - Pending') >= b - TICK /\ TICK * (ToCount(t)' - Pending') \in Int
      <4>1. CASE Pending' = Pending
        BY <1>2, <1>3, <2>1, <4>1
      <4>2. CASE Pending' = Pending + 1
        <5>1. ToCount(t)' - Pending' = a - 1
          BY <1>3, <1>5, <4>2
        <5>2. TICK * (a - 1) = b - TICK
          BY <1>5, TickLess
        <5> QED
          BY <1>2, <2>1, <5>1, <5>2
      <4> QED
        BY <3>3, <4>1, <4>2
    <3> DEFINE c == TICK * (ToCount(t)' - Pending')
    <3> HIDE DEF b, c
    <3>5. elapsed'[t] + c - clock' + 2 * TICK > timeout[t]
      <4>1. c >= b - TICK /\ c \in Int
        BY <3>4 DEF c
      <4> QED
        BY <1>2, <1>6, <2>1, <2>2, <2>4, <3>1, <4>1
    <3>6. InTime(t)'
      BY <1>1, <3>5 DEF InTime, c
    <3> QED
      BY <1>1, <1>3, <1>4, <3>6 DEF Fine
  <2> QED
    BY <1>2, <2>3, <2>4
<1> QED
  BY <1>7, <1>8

\* tick() counts a tick that was due.
LEMMA BeginInTime ==
  ASSUME IInv, IInv', TickBegin, NEW t \in Timers, Fine(t)
  PROVE  Fine(t)'
<1>1. /\ hpc = "lock" /\ hpc' # "lock" /\ expired' = expired /\ starting' = starting
      /\ timeout' = timeout /\ elapsed' = elapsed /\ clock' = clock /\ current' = current
      /\ list' = list /\ current = NoTimer /\ NoTimer \notin Timers
  BY TimerAssumption DEF TickBegin, appVars, timeVars, IInv, TypeOK
<1> SUFFICES ASSUME timeout[t] # Off PROVE Fine(t)'
  BY <1>1 DEF Fine
<1>2. Somewhere(t) /\ (starting.timer = t => timeout[t] = starting.initial) /\ InTime(t)
  BY DEF Fine
<1>3. Pending = Pending' + 1 /\ Pending' \in 0 .. 1
  BY <1>1 DEF Pending
<1>4. ToCount(t) \in Nat /\ Pending \in 0 .. 2
  BY <1>2, ToCountIs
<1>5. Somewhere(t)'
  BY <1>1, <1>2 DEF Somewhere
<1>6. /\ clock \in 0 .. TICK - 1 /\ elapsed[t] \in 0 .. MaxElapsed /\ TICK \in Nat \ {0}
      /\ timeout[t] \in Nat /\ MaxElapsed \in Nat
  <2>1. timeout[t] \in Nat
    BY TimeoutIs DEF IInv
  <2> QED
    BY <2>1, TimerAssumption DEF IInv, TypeOK
<1> DEFINE a == ToCount(t) - Pending
           c == ToCount(t)' - Pending'
<1>7. c = a \/ c = a + 1
  <2>1. CASE starting.timer = t
    <3>1. ToCount(t)' = ToCount(t)
      BY <1>1, <2>1 DEF ToCount
    <3> QED
      BY <1>3, <1>4, <3>1
  <2>2. CASE starting.timer # t
    <3>1. t \in Listed(list)
      BY <1>1, <1>2, <2>2 DEF Somewhere
    <3>2. ToCount(t) = Left(list, delta, t) /\ ToCount(t)' = Left(list', delta', t)
      BY <1>1, <2>2, <3>1, RemIs DEF ToCount, Rem
    <3>3. list # <<>>
      BY <3>1 DEF Listed
    <3>4. delta' = [delta EXCEPT ![Head(list)] = Minus(@, 1)]
      BY <3>3 DEF TickBegin
    <3>5. Good(list, delta) /\ \A u \in Listed(list) : Left(list, delta, u) # 0
      BY <1>1 DEF IInv, Listing
    <3>6. Left(list, delta', t) = Left(list, delta, t) - 1
      BY <3>1, <3>3, <3>4, <3>5, CountIs
    <3>7. ToCount(t)' = ToCount(t) - 1
      BY <1>1, <3>2, <3>6
    <3> QED
      BY <1>3, <1>4, <3>7
  <2> QED
    BY <2>1, <2>2
<1>8. a \in Int
  BY <1>4
<1>9. TICK * c >= TICK * a /\ TICK * c \in Int /\ TICK * a \in Int
  <2> HIDE DEF a, c
  <2>1. CASE c = a
    BY <1>6, <1>8, <2>1
  <2>2. CASE c = a + 1
    <3>1. TICK * ((a + 1) - 1) = TICK * (a + 1) - TICK /\ TICK * (a + 1) \in Int
      BY <1>8, TickLess
    <3>2. (a + 1) - 1 = a
      BY <1>8
    <3>3. TICK * a \in Int
      BY <1>6, <1>8
    <3> QED
      BY <1>6, <2>2, <3>1, <3>2, <3>3
  <2> QED
    BY <1>7, <2>1, <2>2
<1>10. InTime(t)'
  <2>1. CASE elapsed[t] = MaxElapsed
    BY <1>1, <2>1 DEF InTime
  <2>2. CASE elapsed[t] # MaxElapsed
    <3>1. elapsed[t] + TICK * a - clock + 2 * TICK > timeout[t]
      BY <1>2, <2>2 DEF InTime
    <3> DEFINE x == TICK * a
               y == TICK * c
    <3> HIDE DEF x, y
    <3>2. elapsed[t] + y - clock + 2 * TICK > timeout[t]
      <4>1. y >= x /\ y \in Int /\ x \in Int /\ elapsed[t] + x - clock + 2 * TICK > timeout[t]
        BY <1>9, <3>1 DEF x, y
      <4> QED
        BY <1>6, <4>1
    <3> QED
      BY <1>1, <3>2 DEF InTime, y
  <2> QED
    BY <2>1, <2>2
<1> QED
  BY <1>1, <1>2, <1>5, <1>10 DEF Fine

\* The other steps of the handler.
LEMMA HandlerInTime ==
  ASSUME IInv, IInv', NEW t \in Timers, Fine(t), HandlerRead \/ TickPop \/ TickPut \/ TickEnd
  PROVE  Fine(t)'
<1>1. CASE HandlerRead
  <2>1. /\ hpc = "read" /\ expired /\ expired' = FALSE /\ hpc' = "lock" /\ starting' = starting
        /\ timeout' = timeout /\ elapsed' = elapsed /\ clock' = clock /\ current' = current
        /\ list' = list /\ delta' = delta
    BY <1>1 DEF HandlerRead, listVars, appVars, timeVars
  <2>2. Pending' = Pending
    BY <2>1 DEF Pending
  <2>3. ToCount(t)' = ToCount(t) /\ (Somewhere(t)' <=> Somewhere(t))
    BY <2>1, RemIs DEF ToCount, Somewhere
  <2> QED
    BY <2>1, <2>2, <2>3, FineKept
<1>2. CASE TickPop
  <2>1. /\ hpc = "loop" /\ expired' = expired /\ hpc' = "put" /\ starting' = starting
        /\ timeout' = timeout /\ elapsed' = elapsed /\ clock' = clock
    BY <1>2 DEF TickPop, appVars, timeVars
  <2>2. Pending' = Pending
    BY <2>1 DEF Pending
  <2>3. RemainingTicks' = RemainingTicks
    BY <1>2, PopUnseen DEF C!vars
  <2>4. ToCount(t)' = ToCount(t) /\ (Somewhere(t)' <=> Somewhere(t))
    BY <2>1, <2>3, SeenIs DEF ToCount, Somewhere
  <2> QED
    BY <2>1, <2>2, <2>4, FineKept
<1>3. CASE TickPut
  <2>1. /\ hpc = "put" /\ expired' = expired /\ hpc' = "loop" /\ starting' = starting
        /\ timeout' = [timeout EXCEPT ![current] = Off] /\ clock' = clock
        /\ elapsed' = [elapsed EXCEPT ![current] = 0]
        /\ timeout \in [Timers -> Timeouts \cup {Off}] /\ elapsed \in [Timers -> 0 .. MaxElapsed]
    BY <1>3 DEF TickPut, IInv, TypeOK
  <2>2. CASE t = current
    BY <2>1, <2>2 DEF Fine
  <2>3. CASE t # current
    <3>1. Pending' = Pending
      BY <2>1 DEF Pending
    <3>2. RemainingTicks'[t] = RemainingTicks[t]
      <4>1. /\ RemainingTicks' = [RemainingTicks EXCEPT ![current] =
                                   IF repeat_ticks[current] = 0 THEN Off ELSE repeat_ticks[current]]
        BY <1>3, PutFires DEF C!Fire
      <4>2. RemainingTicks \in [Timers -> {RemainingTicks[u] : u \in Timers}]
        BY DEF RemainingTicks
      <4> QED
        BY <2>3, <4>1, <4>2
    <3>3. ToCount(t)' = ToCount(t) /\ (Somewhere(t)' <=> Somewhere(t))
      BY <2>1, <3>2, SeenIs DEF ToCount, Somewhere
    <3>4. timeout'[t] = timeout[t] /\ elapsed'[t] = elapsed[t]
      BY <2>1, <2>3
    <3> QED
      BY <2>1, <3>1, <3>3, <3>4, FineKept
  <2> QED
    BY <2>2, <2>3
<1>4. CASE TickEnd
  <2>1. /\ hpc = "loop" /\ expired' = expired /\ hpc' = "read" /\ starting' = starting
        /\ timeout' = timeout /\ elapsed' = elapsed /\ clock' = clock /\ current' = current
        /\ list' = list /\ delta' = delta
    BY <1>4 DEF TickEnd, listVars, appVars, timeVars
  <2>2. Pending' = Pending
    BY <2>1 DEF Pending
  <2>3. ToCount(t)' = ToCount(t) /\ (Somewhere(t)' <=> Somewhere(t))
    BY <2>1, RemIs DEF ToCount, Somewhere
  <2> QED
    BY <2>1, <2>2, <2>3, FineKept
<1> QED
  BY <1>1, <1>2, <1>3, <1>4

\* Stopping another timer, or this one.
LEMMA StopInTime ==
  ASSUME IInv, IInv', NEW t \in Timers, Fine(t), NEW u \in Timers, ml_timer_stop(u)
  PROVE  Fine(t)'
<1>1. /\ starting = NotStarting /\ starting' = starting /\ StopTimer(u) /\ MutexIsFree
      /\ timeout' = [timeout EXCEPT ![u] = Off] /\ elapsed' = [elapsed EXCEPT ![u] = 0]
      /\ repeat_ticks' = repeat_ticks /\ outstanding' = outstanding /\ hpc' = hpc
      /\ current' = current /\ expired' = expired /\ clock' = clock
      /\ timeout \in [Timers -> Timeouts \cup {Off}] /\ elapsed \in [Timers -> 0 .. MaxElapsed]
  BY DEF ml_timer_stop, handlerVars, IInv, TypeOK
<1>2. CASE t = u
  BY <1>1, <1>2 DEF Fine
<1>3. CASE t # u
  <2>1. Pending' = Pending
    BY <1>1 DEF Pending
  <2>2. RemainingTicks'[t] = RemainingTicks[t]
    <3>1. RemainingTicks' = [RemainingTicks EXCEPT ![u] = Off]
      BY <1>1, StopIsStop DEF C!Stop
    <3>2. RemainingTicks \in [Timers -> {RemainingTicks[v] : v \in Timers}]
      BY DEF RemainingTicks
    <3> QED
      BY <1>3, <3>1, <3>2
  <2>3. ToCount(t)' = ToCount(t) /\ (Somewhere(t)' <=> Somewhere(t))
    BY <1>1, <2>2, SeenIs DEF ToCount, Somewhere
  <2>4. timeout'[t] = timeout[t] /\ elapsed'[t] = elapsed[t]
    BY <1>1, <1>3
  <2> QED
    BY <1>1, <2>1, <2>3, <2>4, FineKept
<1> QED
  BY <1>2, <1>3

\* A start gives the timer its timeout and one tick more to count, of which two
\* may be due already.
LEMMA StartInTime ==
  ASSUME Measurable, IInv, IInv', NEW t \in Timers, Fine(t), NEW u \in Timers,
         NEW i \in Timeouts, NEW r \in Periods, StartStops(u, i, r)
  PROVE  Fine(t)'
<1>1. /\ starting = NotStarting /\ StopTimer(u) /\ MutexIsFree
      /\ starting' = [timer |-> u, initial |-> i, repeat |-> r]
      /\ timeout' = [timeout EXCEPT ![u] = i] /\ elapsed' = [elapsed EXCEPT ![u] = 0]
      /\ repeat_ticks' = repeat_ticks /\ outstanding' = outstanding /\ hpc' = hpc
      /\ current' = current /\ expired' = expired /\ clock' = clock
      /\ timeout \in [Timers -> Timeouts \cup {Off}] /\ elapsed \in [Timers -> 0 .. MaxElapsed]
  BY DEF StartStops, handlerVars, IInv, TypeOK
<1>2. starting'.timer = u /\ starting'.initial = i
  BY <1>1
<1>3. Pending' = Pending /\ Pending \in 0 .. 2
  BY <1>1 DEF Pending
<1>4. CASE t = u
  <2>1. timeout'[t] = i /\ elapsed'[t] = 0
    BY <1>1, <1>4
  <2>2. ToCount(t)' = StartTicks(i)
    BY <1>2, <1>4 DEF ToCount
  <2> DEFINE s == StartTicks(i)
             x == TICK * s
  <2>3. s \in Nat /\ x \in Nat /\ x >= i + TICK
    BY EnoughTicks
  <2>4. TICK \in Nat \ {0} /\ clock' \in 0 .. TICK - 1 /\ i \in Nat
    BY TimerAssumption DEF IInv, TypeOK
  <2> HIDE DEF s
  <2>5. TICK * (s - Pending) >= x - 2 * TICK /\ TICK * (s - Pending) \in Int
    <3>1. TICK * (s - 1) = x - TICK /\ TICK * (s - 1) \in Int
      BY <2>3, <2>4, TickLess
    <3>2. TICK * ((s - 1) - 1) = TICK * (s - 1) - TICK
      BY <2>3, TickLess
    <3>3. (s - 1) - 1 = s - 2 /\ s - 0 = s
      BY <2>3
    <3>4. Pending = 0 \/ Pending = 1 \/ Pending = 2
      BY <1>3
    <3> HIDE DEF x
    <3>5. TICK * s = x
      BY DEF x
    <3>6. CASE Pending = 0
      BY <2>3, <2>4, <3>3, <3>5, <3>6
    <3>7. CASE Pending = 1
      BY <2>3, <2>4, <3>1, <3>7
    <3>8. CASE Pending = 2
      BY <2>3, <2>4, <3>1, <3>2, <3>3, <3>8
    <3> QED
      BY <3>4, <3>6, <3>7, <3>8
  <2> DEFINE y == TICK * (s - Pending)
  <2> HIDE DEF x, y
  <2>6. 0 + y - clock' + 2 * TICK > i
    <3>1. y >= x - 2 * TICK /\ y \in Int
      BY <2>5 DEF y
    <3>2. clock' \in Int /\ clock' <= TICK - 1 /\ TICK \in Int /\ i \in Int
      BY <2>4
    <3>3. x \in Int /\ x >= i + TICK
      BY <2>3
    <3>4. ASSUME NEW c \in Int, NEW a \in Int, NEW b \in Int, NEW k \in Int, NEW n \in Int,
                 a >= b - 2 * k, c <= k - 1, b >= n + k
          PROVE  0 + a - c + 2 * k > n
      BY <3>4
    <3> QED
      BY <3>1, <3>2, <3>3, <3>4
  <2>7. InTime(t)'
    BY <1>3, <2>1, <2>2, <2>6 DEF InTime, y, s
  <2> QED
    BY <1>2, <1>4, <2>1, <2>7 DEF Fine, Somewhere
<1>5. CASE t # u
  <2>1. RemainingTicks'[t] = RemainingTicks[t]
    <3>1. RemainingTicks' = [RemainingTicks EXCEPT ![u] = Off]
      BY <1>1, StopIsStop DEF C!Stop
    <3>2. RemainingTicks \in [Timers -> {RemainingTicks[v] : v \in Timers}]
      BY DEF RemainingTicks
    <3> QED
      BY <1>5, <3>1, <3>2
  <2>2. starting.timer # t
    BY <1>1, TimerAssumption DEF NotStarting
  <2>3. ToCount(t)' = ToCount(t) /\ (Somewhere(t)' <=> Somewhere(t))
    BY <1>2, <1>5, <2>1, <2>2, SeenIs DEF ToCount, Somewhere
  <2>4. timeout'[t] = timeout[t] /\ elapsed'[t] = elapsed[t]
    BY <1>1, <1>5
  <2> QED
    BY <1>1, <1>2, <1>3, <1>5, <2>3, <2>4, FineKept
<1> QED
  BY <1>4, <1>5

\* The start goes on with the ticks it promised.
LEMMA InsertInTime ==
  ASSUME IInv, IInv', NEW t \in Timers, Fine(t), StartInserts
  PROVE  Fine(t)'
<1> DEFINE u == starting.timer
           ticks == StartTicks(starting.initial)
           new == timer_list_insert(list, delta, u, ticks)
<1>1. /\ starting # NotStarting /\ MutexIsFree /\ starting' = NotStarting
      /\ list' = new.list /\ delta' = new.delta
      /\ hpc' = hpc /\ current' = current /\ expired' = expired
      /\ clock' = clock /\ elapsed' = elapsed /\ timeout' = timeout
  BY DEF StartInserts, SetList, handlerVars, timeVars
<1>2. /\ u \in Timers /\ starting.initial \in Timeouts
      /\ u \notin Listed(list) /\ u # current /\ Good(list, delta)
  BY <1>1 DEF IInv, Listing
<1>3. starting'.timer = NoTimer /\ NoTimer # t
  BY <1>1, TimerAssumption DEF NotStarting
<1>4. Pending' = Pending
  BY <1>1 DEF Pending
<1>5. CASE t = u
  <2>1. ticks \in 1 .. UINT_MOD - 1 /\ UINT_MOD \in Nat
    BY <1>2, TicksFit, TimerAssumption
  <2> HIDE DEF ticks
  <2>2. ticks \in 0 .. UINT_MOD - 1
    BY <2>1
  <2>3. /\ Listed(new.list) = Listed(list) \cup {u}
        /\ Left(new.list, new.delta, u) = ticks
    BY <1>2, <2>2, InsertIs
  <2>4. t \in Listed(list') /\ RemainingTicks'[t] = ticks
    BY <1>1, <1>5, <2>3, RemIs DEF Rem
  <2>5. Somewhere(t)' /\ ToCount(t)' = ToCount(t)
    BY <1>3, <1>5, <2>4 DEF Somewhere, ToCount, ticks
  <2> QED
    BY <1>1, <1>3, <1>4, <2>5, FineKept
<1>6. CASE t # u
  <2>1. RemainingTicks'[t] = RemainingTicks[t]
    <3>1. RemainingTicks' = [RemainingTicks EXCEPT ![u] = RemainingTicks'[u]]
      BY InsertStarts DEF C!Start
    <3>2. RemainingTicks \in [Timers -> {RemainingTicks[v] : v \in Timers}]
      BY DEF RemainingTicks
    <3> HIDE DEF u
    <3> QED
      BY <1>6, <3>1, <3>2
  <2>2. ToCount(t)' = ToCount(t) /\ (Somewhere(t)' <=> Somewhere(t))
    BY <1>3, <1>6, <2>1, SeenIs DEF ToCount, Somewhere
  <2> QED
    BY <1>1, <1>3, <1>4, <2>2, FineKept
<1> QED
  BY <1>5, <1>6

\* Steps that concern neither the list nor time.
LEMMA OthersInTime ==
  ASSUME IInv, NEW t \in Timers, Fine(t), Get \/ ml_timer_is_message_valid \/ UNCHANGED vars
  PROVE  Fine(t)'
<1>1. /\ starting' = starting /\ list' = list /\ delta' = delta /\ current' = current
      /\ hpc' = hpc /\ expired' = expired /\ clock' = clock /\ elapsed' = elapsed
      /\ timeout' = timeout
  BY DEF Get, ml_timer_is_message_valid, vars, listVars, handlerVars, appVars, timeVars
<1>2. Pending' = Pending
  BY <1>1 DEF Pending
<1>3. ToCount(t)' = ToCount(t) /\ (Somewhere(t)' <=> Somewhere(t))
  BY <1>1, RemIs DEF ToCount, Somewhere
<1> QED
  BY <1>1, <1>2, <1>3, FineKept

\* Every step keeps every timer in time.
LEMMA StepOnTime ==
  ASSUME Measurable
  PROVE  IInv /\ IInv' /\ OnTime /\ [Next]_vars => OnTime'
<1> SUFFICES ASSUME IInv, IInv', OnTime, [Next]_vars, NEW t \in Timers PROVE Fine(t)'
  BY DEF OnTime
<1>1. Fine(t)
  BY DEF OnTime
<1>2. CASE AdvanceTime
  BY <1>1, <1>2, AdvanceInTime
<1>3. CASE HandlerRead \/ TickPop \/ TickPut \/ TickEnd
  BY <1>1, <1>3, HandlerInTime
<1>4. CASE TickBegin
  BY <1>1, <1>4, BeginInTime
<1>5. ASSUME NEW u \in Timers, ml_timer_stop(u) PROVE Fine(t)'
  BY <1>1, <1>5, StopInTime
<1>6. ASSUME NEW u \in Timers, NEW i \in Timeouts, NEW r \in Periods, StartStops(u, i, r)
      PROVE  Fine(t)'
  BY <1>1, <1>6, StartInTime
<1>7. CASE StartInserts
  BY <1>1, <1>7, InsertInTime
<1>8. CASE Get \/ ml_timer_is_message_valid \/ UNCHANGED vars
  BY <1>1, <1>8, OthersInTime
<1> QED
  BY <1>2, <1>3, <1>4, <1>5, <1>6, <1>7, <1>8 DEF Next

\* What being in time means when the message of an expired timer is put.
LEMMA InTimeAtExpiry ==
  ASSUME Measurable, IInv, OnTime
  PROVE  LessThanTwoTicksEarly
<1> SUFFICES ASSUME NEW t \in Timers, FirstExpiry(t) PROVE elapsed[t] + 2 * TICK > timeout[t]
  BY DEF LessThanTwoTicksEarly
<1>1. hpc = "put" /\ current = t /\ timeout[t] # Off
  BY DEF FirstExpiry
<1>2. InTime(t) /\ timeout[t] \in Timeouts /\ timeout[t] \in Nat /\ timeout[t] <= MaxElapsed
  BY <1>1, TimeoutIs DEF OnTime, Fine, IInv, Measurable
<1>3. /\ clock \in 0 .. TICK - 1 /\ elapsed[t] \in 0 .. MaxElapsed /\ TICK \in Nat \ {0}
      /\ MaxElapsed \in Nat
  BY TimerAssumption DEF IInv, TypeOK
<1>4. CASE elapsed[t] = MaxElapsed
  BY <1>2, <1>3, <1>4
<1>5. CASE elapsed[t] # MaxElapsed
  <2>1. starting.timer # t
    <3>1. starting = NotStarting => starting.timer = NoTimer
      BY DEF NotStarting
    <3> QED
      BY <1>1, <3>1, TimerAssumption DEF IInv, Listing
  <2>2. t \notin Listed(list)
    BY <1>1 DEF IInv, Listing
  <2>3. ToCount(t) = 0
    BY <1>1, <2>1, <2>2, RemIs DEF ToCount, Rem
  <2>4. Pending \in 0 .. 1
    BY <1>1 DEF Pending
  <2>5. TICK * (ToCount(t) - Pending) <= 0 /\ TICK * (ToCount(t) - Pending) \in Int
    <3>1. CASE Pending = 0
      BY <1>3, <2>3, <3>1
    <3>2. CASE Pending = 1
      BY <1>3, <2>3, <3>2
    <3> QED
      BY <2>4, <3>1, <3>2
  <2> DEFINE x == TICK * (ToCount(t) - Pending)
  <2>6. elapsed[t] + x - clock + 2 * TICK > timeout[t]
    BY <1>2, <1>5 DEF InTime
  <2> HIDE DEF x
  <2>7. x <= 0 /\ x \in Int
    BY <2>5 DEF x
  <2> QED
    BY <1>2, <1>3, <2>6, <2>7
<1> QED
  BY <1>4, <1>5

\* However late the handler thread is, and whatever is started and stopped, a
\* timer expires less than two ticks before its timeout has elapsed: for every
\* timeout up to the bound of the history variable whose rounding does not wrap.
THEOREM NeverTwoTicksEarly ==
  ASSUME Measurable
  PROVE  Spec => []LessThanTwoTicksEarly
<1>1. Init => OnTime
  BY DEF Init, OnTime, Fine
<1>2. IInv /\ IInv' /\ OnTime /\ [Next]_vars => OnTime'
  BY StepOnTime
<1>3. IInv /\ OnTime => LessThanTwoTicksEarly
  BY InTimeAtExpiry
<1> QED
  BY <1>1, <1>2, <1>3, Invariance, PTL DEF Spec

=============================================================================
