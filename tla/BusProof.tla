------------------------------ MODULE BusProof ------------------------------
(* Proofs about Bus, for every number of producers, queues, messages and     *)
(* subscriptions. First the index of the bus: qsort() keeps it sorted, the   *)
(* binary search finds what is in it, so a broadcast reaches exactly the     *)
(* subscribers. Then the messages: the count in the header is the number of  *)
(* references, and whoever can reach a message finds it intact.              *)
EXTENDS Bus, FiniteSetTheorems, SequenceTheorems, WellFoundedInduction, TLAPS

\* Induction, for a set of naturals.
LEMMA SetInduction ==
  ASSUME NEW T \in SUBSET Nat, 0 \in T, \A n \in T : n + 1 \in T
  PROVE  T = Nat
<1> SUFFICES ASSUME Nat \ T # {} PROVE FALSE
  OBVIOUS
<1> DEFINE S == Nat \ T
           R == OpToRel(<, Nat)
<1>1. IsWellFoundedOn(R, Nat)
  BY NatLessThanWellFounded
<1>2. PICK n \in S : \A m \in S : ~(<<m, n>> \in R)
  <2> HIDE DEF R
  <2> QED
    BY <1>1, WFMin
<1>3. n # 0 /\ n - 1 \in Nat
  OBVIOUS
<1>4. n - 1 \notin T
  BY <1>3
<1>5. <<n - 1, n>> \in R
  BY <1>3 DEF OpToRel
<1> QED
  BY <1>2, <1>3, <1>4, <1>5

-----------------------------------------------------------------------------
(* The binary search                                                         *)

Elems == [uid : Uids, queues : Seq(Queues)]

Sorted(array) == \A i, j \in 1 .. Len(array) : i < j => array[i].uid < array[j].uid

\* One step of the search between s[1] and s[2], with f for the rest of it.
Probe(array, uid, f, s) ==
  IF s[1] >= s[2] THEN 0
  ELSE LET mid == (s[1] + s[2]) \div 2
           elem == array[mid + 1]
       IN  IF uid < elem.uid THEN f[<<s[1], mid>>]
           ELSE IF uid = elem.uid THEN mid + 1
           ELSE f[<<mid + 1, s[2]>>]

Mid(s) == (s[1] + s[2]) \div 2

\* The middle is between the ends.
LEMMA MidIs ==
  ASSUME NEW n \in Nat, NEW s \in (0 .. n) \X (0 .. n), s[1] < s[2]
  PROVE  Mid(s) \in 0 .. n - 1 /\ s[1] <= Mid(s) /\ Mid(s) < s[2]
BY DEF Mid

\* What a search that has not ended does.
LEMMA ProbeIs ==
  ASSUME NEW n \in Nat, NEW s \in (0 .. n) \X (0 .. n), s[1] < s[2],
         NEW array, NEW uid, NEW f
  PROVE  Probe(array, uid, f, s) =
           IF uid < array[Mid(s) + 1].uid THEN f[<<s[1], Mid(s)>>]
           ELSE IF uid = array[Mid(s) + 1].uid THEN Mid(s) + 1
           ELSE f[<<Mid(s) + 1, s[2]>>]
<1>1. ~(s[1] >= s[2])
  OBVIOUS
<1> QED
  BY <1>1 DEF Probe, Mid

\* The search terminates: there is a function that satisfies its equation.
LEMMA SearchExists ==
  ASSUME NEW array, NEW n \in Nat, NEW uid \in Nat
  PROVE  \E f \in [(0 .. n) \X (0 .. n) -> 0 .. n] :
           \A s \in (0 .. n) \X (0 .. n) : f[s] = Probe(array, uid, f, s)
<1> DEFINE D == (0 .. n) \X (0 .. n)
           F == [D -> 0 .. n]
           Good(f, k) == \A s \in D :
                           s[2] - s[1] <= k => f[s] = Probe(array, uid, f, s)
           T == {k \in Nat : \E f \in F : Good(f, k)}
<1>0. \A s \in D : s[1] \in 0 .. n /\ s[2] \in 0 .. n
  OBVIOUS
<1>1. 0 \in T
  <2> DEFINE f == [s \in D |-> 0]
  <2>1. f \in F
    OBVIOUS
  <2>2. Good(f, 0)
    BY <1>0 DEF Probe
  <2> QED
    BY <2>1, <2>2
<1>2. ASSUME NEW k \in T PROVE k + 1 \in T
  <2>1. PICK f \in F : Good(f, k)
    OBVIOUS
  <2> DEFINE g == [s \in D |->
                     IF s[2] - s[1] <= k THEN f[s]
                     ELSE IF s[2] - s[1] = k + 1 THEN Probe(array, uid, f, s) ELSE 0]
  <2>2. ASSUME NEW s \in D, s[2] - s[1] <= k + 1
        PROVE  /\ Probe(array, uid, g, s) = Probe(array, uid, f, s)
               /\ Probe(array, uid, f, s) \in 0 .. n
    <3>1. CASE s[1] >= s[2]
      BY <3>1 DEF Probe
    <3>2. CASE s[1] < s[2]
      <4> DEFINE mid == Mid(s)
      <4>1. mid \in 0 .. n - 1 /\ s[1] <= mid /\ mid < s[2]
        BY <3>2, MidIs
      <4>5. \A h : Probe(array, uid, h, s) =
                     IF uid < array[mid + 1].uid THEN h[<<s[1], mid>>]
                     ELSE IF uid = array[mid + 1].uid THEN mid + 1
                     ELSE h[<<mid + 1, s[2]>>]
        BY <3>2, ProbeIs
      <4> HIDE DEF mid
      <4> DEFINE a == <<s[1], mid>>
                 b == <<mid + 1, s[2]>>
      <4>2. /\ a \in D /\ a[2] - a[1] <= k
            /\ b \in D /\ b[2] - b[1] <= k
            /\ mid + 1 \in 0 .. n
        BY <1>0, <2>2, <4>1
      <4> HIDE DEF a, b
      <4>3. g[a] = f[a] /\ g[b] = f[b] /\ f[a] \in 0 .. n /\ f[b] \in 0 .. n
        BY <4>2
      <4> HIDE DEF g
      <4> QED
        BY <4>2, <4>3, <4>5 DEF a, b
    <3> QED
      BY <1>0, <3>1, <3>2
  <2>3. g \in F
    <3>1. ASSUME NEW s \in D PROVE g[s] \in 0 .. n
      <4>1. CASE s[2] - s[1] <= k
        BY <4>1
      <4>2. CASE s[2] - s[1] = k + 1
        <5>1. k \in Nat /\ s[1] \in 0 .. n /\ s[2] \in 0 .. n
          BY <1>0
        <5>2. s[2] - s[1] <= k + 1
          BY <4>2, <5>1
        <5>3. Probe(array, uid, f, s) \in 0 .. n
          BY <2>2, <5>2
        <5> QED
          BY <4>2, <5>3
      <4>3. CASE ~(s[2] - s[1] <= k) /\ s[2] - s[1] # k + 1
        BY <4>3
      <4> QED
        BY <4>1, <4>2, <4>3
    <3> QED
      BY <3>1
  <2>4. Good(g, k + 1)
    <3> SUFFICES ASSUME NEW s \in D, s[2] - s[1] <= k + 1
                 PROVE  g[s] = Probe(array, uid, g, s)
      OBVIOUS
    <3>1. g[s] = Probe(array, uid, f, s)
      BY <1>0, <2>1
    <3> QED
      BY <2>2, <3>1
  <2> HIDE DEF g, Good, F
  <2> QED
    BY <2>3, <2>4
<1>3. T = Nat
  <2> HIDE DEF T
  <2>1. T \in SUBSET Nat
    BY DEF T
  <2> QED
    BY <1>1, <1>2, <2>1, SetInduction
<1>4. PICK f \in F : Good(f, n)
  BY <1>3
<1>5. \A s \in D : f[s] = Probe(array, uid, f, s)
  BY <1>0, <1>4
<1> QED
  BY <1>4, <1>5

Search(array, uid) ==
  CHOOSE f : f = [s \in (0 .. Len(array)) \X (0 .. Len(array)) |-> Probe(array, uid, f, s)]

\* bsearch() starts with the whole array.
LEMMA SearchIs ==
  ASSUME NEW array, NEW uid
  PROVE  bsearch(array, uid) = Search(array, uid)[<<0, Len(array)>>]
BY DEF bsearch, Search, Probe

\* bsearch(), on a sorted array, returns the position of uid or 0 if there is none.
LEMMA SearchFinds ==
  ASSUME NEW array \in Seq(Elems), Sorted(array), NEW uid \in Nat
  PROVE  LET b == bsearch(array, uid)
         IN  /\ b \in 0 .. Len(array)
             /\ b = 0 => \A i \in 1 .. Len(array) : array[i].uid # uid
             /\ b # 0 => array[b].uid = uid
<1> DEFINE n == Len(array)
           D == (0 .. n) \X (0 .. n)
           Is(f) == f = [s \in D |-> Probe(array, uid, f, s)]
           search == Search(array, uid)
           Has(s) == \A i \in 1 .. n : array[i].uid = uid => s[1] < i /\ i <= s[2]
           Right(b) == /\ b \in 0 .. n
                       /\ b = 0 => \A i \in 1 .. n : array[i].uid # uid
                       /\ b # 0 => array[b].uid = uid
           T == {k \in Nat : \A s \in D :
                   s[2] - s[1] <= k /\ Has(s) => Right(search[s])}
<1>0. n \in Nat /\ \A i \in 1 .. n : array[i].uid \in Nat
  <2>1. \A i \in 1 .. Len(array) : array[i] \in Elems
    OBVIOUS
  <2>2. \A e \in Elems : e.uid \in Nat
    BY BusAssumption DEF Elems
  <2> QED
    BY <2>1, <2>2
<1>1. bsearch(array, uid) = search[<<0, n>>]
  BY SearchIs
<1> HIDE DEF n
<1>2. Is(search)
  <2>0. PICK f \in [D -> 0 .. n] : \A s \in D : f[s] = Probe(array, uid, f, s)
    BY <1>0, SearchExists
  <2>1. Is(f)
    BY <2>0
  <2> HIDE DEF Is
  <2>2. \E h : Is(h)
    BY <2>1
  <2>3. search = CHOOSE h : Is(h)
    BY DEF Search, Is, n
  <2> HIDE DEF search
  <2> QED
    BY <2>2, <2>3
<1>3. \A s \in D : search[s] = Probe(array, uid, search, s)
  <2> HIDE DEF search
  <2> QED
    BY <1>2
<1> HIDE DEF search
<1>4. \A s \in D : s[1] \in 0 .. n /\ s[2] \in 0 .. n
  OBVIOUS
<1>5. 0 \in T
  <2> SUFFICES ASSUME NEW s \in D, s[2] - s[1] <= 0, Has(s) PROVE Right(search[s])
    OBVIOUS
  <2>1. s[1] >= s[2]
    BY <1>0, <1>4
  <2>2. search[s] = 0
    BY <1>3, <2>1 DEF Probe
  <2> QED
    BY <1>0, <1>4, <2>1, <2>2
<1>6. ASSUME NEW k \in T PROVE k + 1 \in T
  <2>0. k \in Nat
    OBVIOUS
  <2> SUFFICES ASSUME NEW s \in D, s[2] - s[1] <= k + 1, Has(s) PROVE Right(search[s])
    BY <2>0
  <2>1. CASE s[1] >= s[2]
    <3>1. s[2] - s[1] <= k
      BY <1>0, <1>4, <2>0, <2>1
    <3> QED
      BY <3>1
  <2>2. CASE s[1] < s[2]
    <3> DEFINE mid == Mid(s)
               a == <<s[1], mid>>
               b == <<mid + 1, s[2]>>
    <3>1. mid \in 0 .. n - 1 /\ s[1] <= mid /\ mid < s[2]
      BY <1>0, <2>2, MidIs
    <3>2. search[s] = IF uid < array[mid + 1].uid THEN search[a]
                      ELSE IF uid = array[mid + 1].uid THEN mid + 1
                      ELSE search[b]
      BY <1>0, <1>3, <2>2, ProbeIs, SMTT(30)
    <3> HIDE DEF mid
    <3>3. /\ a \in D /\ a[2] - a[1] <= k /\ a[1] = s[1] /\ a[2] = mid
          /\ b \in D /\ b[2] - b[1] <= k /\ b[1] = mid + 1 /\ b[2] = s[2]
          /\ mid + 1 \in 1 .. n
      BY <1>0, <1>4, <2>0, <3>1
    <3> HIDE DEF a, b
    <3>4. CASE uid < array[mid + 1].uid
      <4>1. Has(a)
        <5> SUFFICES ASSUME NEW i \in 1 .. n, array[i].uid = uid
                     PROVE  s[1] < i /\ i <= mid
          BY <3>3
        <5>1. ~(i > mid)
          <6>1. i = mid + 1 \/ mid + 1 < i \/ i <= mid
            BY <3>3
          <6>2. mid + 1 < i => array[mid + 1].uid < array[i].uid
            BY <3>3 DEF Sorted, n
          <6>3. i # mid + 1
            BY <3>4
          <6>4. array[mid + 1].uid \in Nat
            BY <1>0, <3>3
          <6> HIDE DEF n
          <6> QED
            BY <3>1, <3>4, <6>1, <6>2, <6>3, <6>4
        <5> QED
          BY <1>0, <3>1, <5>1
      <4>2. Right(search[a])
        BY <3>3, <4>1
      <4> QED
        BY <3>2, <3>4, <4>2
    <3>5. CASE uid = array[mid + 1].uid
      <4>1. search[s] = mid + 1
        BY <1>0, <3>2, <3>3, <3>5, SMTT(30)
      <4> QED
        BY <1>0, <3>1, <3>3, <3>5, <4>1
    <3>6. CASE ~(uid < array[mid + 1].uid) /\ uid # array[mid + 1].uid
      <4>1. Has(b)
        <5> SUFFICES ASSUME NEW i \in 1 .. n, array[i].uid = uid
                     PROVE  mid + 1 < i /\ i <= s[2]
          BY <3>3
        <5>1. ~(i <= mid + 1)
          <6>1. i = mid + 1 \/ i < mid + 1 \/ mid + 1 < i
            BY <3>3
          <6>2. i < mid + 1 => array[i].uid < array[mid + 1].uid
            BY <3>3 DEF Sorted, n
          <6>3. i # mid + 1
            BY <3>6
          <6>4. array[mid + 1].uid \in Nat
            BY <1>0, <3>3
          <6> HIDE DEF n
          <6> QED
            BY <3>1, <3>6, <6>1, <6>2, <6>3, <6>4
        <5> QED
          BY <1>0, <3>1, <5>1
      <4>2. Right(search[b])
        BY <3>3, <4>1
      <4> QED
        BY <3>2, <3>6, <4>2
    <3> QED
      BY <3>4, <3>5, <3>6
  <2> QED
    BY <1>4, <2>1, <2>2
<1>7. T = Nat
  <2> HIDE DEF T
  <2>1. T \in SUBSET Nat
    BY DEF T
  <2> QED
    BY <1>5, <1>6, <2>1, SetInduction
<1>8. Right(search[<<0, n>>])
  <2> DEFINE s == <<0, n>>
  <2>1. s \in D /\ s[2] - s[1] <= n /\ Has(s)
    BY <1>0
  <2>2. n \in T
    BY <1>0, <1>7
  <2> HIDE DEF s, Right, Has, D
  <2> QED
    BY <2>1, <2>2 DEF s
<1> QED
  BY <1>1, <1>8 DEF n

-----------------------------------------------------------------------------
(* Sorting                                                                   *)

\* A new uid has a place in a sorted array: the smaller uids are before it.
LEMMA PlaceExists ==
  ASSUME NEW array \in Seq(Elems), Sorted(array), NEW uid \in Uids,
         \A i \in 1 .. Len(array) : array[i].uid # uid
  PROVE  \E k \in 0 .. Len(array) : \A i \in 1 .. Len(array) :
           IF i <= k THEN array[i].uid < uid ELSE uid < array[i].uid
<1> DEFINE n == Len(array)
           T == {k \in Nat : k <= n => \A i \in 1 .. k : array[i].uid < uid}
<1>0. n \in Nat /\ uid \in Nat /\ \A i \in 1 .. n : array[i].uid \in Nat
  <2>1. \A i \in 1 .. Len(array) : array[i] \in Elems
    OBVIOUS
  <2>2. \A e \in Elems : e.uid \in Nat
    BY BusAssumption DEF Elems
  <2> QED
    BY <2>1, <2>2, BusAssumption
<1>1. \A i, j \in 1 .. n : i < j => array[i].uid < array[j].uid
  BY DEF Sorted
<1> HIDE DEF n
<1>2. 0 \in T
  BY <1>0
<1>3. CASE \A k \in T : k + 1 \in T
  <2>1. T = Nat
    <3> HIDE DEF T
    <3>1. T \in SUBSET Nat
      BY DEF T
    <3> QED
      BY <1>2, <1>3, <3>1, SetInduction
  <2>2. \A i \in 1 .. n : array[i].uid < uid
    BY <1>0, <2>1, SMTT(30)
  <2>3. \A i \in 1 .. n : IF i <= n THEN array[i].uid < uid ELSE uid < array[i].uid
    BY <1>0, <2>2
  <2>4. n \in 0 .. n
    BY <1>0
  <2> QED
    BY <2>3, <2>4 DEF n
<1>4. CASE ~(\A k \in T : k + 1 \in T)
  <2>1. PICK k \in T : k + 1 \notin T
    BY <1>4
  <2>2. /\ k \in Nat /\ k + 1 <= n
        /\ \A i \in 1 .. k : array[i].uid < uid
        /\ \E i \in 1 .. k + 1 : ~(array[i].uid < uid)
    BY <1>0, <2>1
  <2>3. ~(array[k + 1].uid < uid) /\ k + 1 \in 1 .. n
    BY <1>0, <2>2
  <2>4. uid < array[k + 1].uid
    BY <1>0, <2>3 DEF n
  <2>5. ASSUME NEW i \in 1 .. n, ~(i <= k) PROVE uid < array[i].uid
    <3>1. i = k + 1 \/ k + 1 < i
      BY <1>0, <2>2, <2>5
    <3>2. k + 1 < i => array[k + 1].uid < array[i].uid
      BY <1>1, <2>3
    <3>3. array[k + 1].uid \in Nat /\ array[i].uid \in Nat
      BY <1>0, <2>3
    <3> QED
      BY <1>0, <2>4, <3>1, <3>2, <3>3
  <2>6. \A i \in 1 .. n : IF i <= k THEN array[i].uid < uid ELSE uid < array[i].uid
    BY <1>0, <2>2, <2>5
  <2>7. k \in 0 .. n
    BY <1>0, <2>2
  <2> QED
    BY <2>6, <2>7 DEF n
<1> QED
  BY <1>3, <1>4

\* qsort(), on an array of different uids that can be sorted, sorts it and
\* keeps its elements.
LEMMA QsortSorts ==
  ASSUME NEW array \in Seq(Elems),
         \A i, j \in 1 .. Len(array) : array[i].uid = array[j].uid => i = j,
         \E p \in Bijection(1 .. Len(array), 1 .. Len(array)) :
           \A i, j \in 1 .. Len(array) : i < j => array[p[i]].uid <= array[p[j]].uid
  PROVE  /\ qsort(array) \in Seq(Elems) /\ Len(qsort(array)) = Len(array)
         /\ Sorted(qsort(array))
         /\ \A i \in 1 .. Len(array) : \E j \in 1 .. Len(array) : qsort(array)[i] = array[j]
         /\ \A j \in 1 .. Len(array) : \E i \in 1 .. Len(array) : qsort(array)[i] = array[j]
<1> DEFINE n == Len(array)
           Orders(p) == \A i, j \in 1 .. n : i < j => array[p[i]].uid <= array[p[j]].uid
           p == CHOOSE p \in Bijection(1 .. n, 1 .. n) : Orders(p)
<1>0. n \in Nat /\ DOMAIN array = 1 .. n /\ \A i \in 1 .. n : array[i] \in Elems
  OBVIOUS
<1>1. qsort(array) = [i \in 1 .. n |-> array[p[i]]]
  BY <1>0 DEF qsort
<1>2. p \in Bijection(1 .. n, 1 .. n) /\ Orders(p)
  <2>1. \E q \in Bijection(1 .. n, 1 .. n) : Orders(q)
    OBVIOUS
  <2> HIDE DEF Orders, n
  <2> QED
    BY <2>1
<1> HIDE DEF p, n
<1>3. /\ \A i \in 1 .. n : p[i] \in 1 .. n
      /\ \A i, j \in 1 .. n : p[i] = p[j] => i = j
      /\ \A j \in 1 .. n : \E i \in 1 .. n : p[i] = j
  BY <1>2, ZenonT(30) DEF Bijection, Injection, Surjection, IsInjective
<1> DEFINE s == qsort(array)
<1>4. /\ s = [i \in 1 .. n |-> s[i]]
      /\ \A i \in 1 .. n : s[i] = array[p[i]] /\ s[i] \in Elems
  BY <1>0, <1>1, <1>3
<1> HIDE DEF s
<1>5. s \in Seq(Elems) /\ Len(s) = n
  BY <1>0, <1>4
<1>6. Sorted(s)
  <2> SUFFICES ASSUME NEW i \in 1 .. n, NEW j \in 1 .. n, i < j
               PROVE  s[i].uid < s[j].uid
    BY <1>5 DEF Sorted
  <2>1. array[p[i]].uid <= array[p[j]].uid
    BY <1>2
  <2>2. array[p[i]].uid # array[p[j]].uid
    <3>0. i # j
      BY <1>0
    <3>1. p[i] \in 1 .. n /\ p[j] \in 1 .. n /\ p[i] # p[j]
      BY <1>3, <3>0
    <3> QED
      BY <3>1 DEF n
  <2>3. \A k \in 1 .. n : array[k].uid \in Nat
    BY <1>0, BusAssumption DEF Elems
  <2>4. array[p[i]].uid \in Nat /\ array[p[j]].uid \in Nat
    BY <1>3, <2>3
  <2> QED
    BY <1>4, <2>1, <2>2, <2>4
<1>7. /\ \A i \in 1 .. n : \E j \in 1 .. n : s[i] = array[j]
      /\ \A j \in 1 .. n : \E i \in 1 .. n : s[i] = array[j]
  <2>1. ASSUME NEW i \in 1 .. n PROVE \E j \in 1 .. n : s[i] = array[j]
    BY <1>3, <1>4
  <2>2. ASSUME NEW j \in 1 .. n PROVE \E i \in 1 .. n : s[i] = array[j]
    <3>1. PICK i \in 1 .. n : p[i] = j
      BY <1>3
    <3> QED
      BY <1>4, <3>1
  <2> QED
    BY <2>1, <2>2
<1> QED
  BY <1>5, <1>6, <1>7 DEF s, n

New(uid) == [uid |-> uid, queues |-> <<>>]

\* insert_element() adds an element without queues to the array and keeps it
\* sorted.
LEMMA InsertSorts ==
  ASSUME NEW array \in Seq(Elems), Sorted(array), NEW uid \in Uids,
         \A i \in 1 .. Len(array) : array[i].uid # uid
  PROVE  LET a == insert_element(array, uid)
         IN  /\ a \in Seq(Elems) /\ Len(a) = Len(array) + 1 /\ Sorted(a)
             /\ \A i \in 1 .. Len(a) :
                  a[i] = New(uid) \/ \E j \in 1 .. Len(array) : a[i] = array[j]
             /\ \A j \in 1 .. Len(array) : \E i \in 1 .. Len(a) : a[i] = array[j]
             /\ \E i \in 1 .. Len(a) : a[i] = New(uid)
<1> DEFINE n == Len(array)
           b == Append(array, New(uid))
<1>0. n \in Nat /\ uid \in Nat /\ \A i \in 1 .. n : array[i] \in Elems /\ array[i].uid \in Nat
  <2>1. \A i \in 1 .. Len(array) : array[i] \in Elems
    OBVIOUS
  <2>2. \A e \in Elems : e.uid \in Nat
    BY BusAssumption DEF Elems
  <2> QED
    BY <2>1, <2>2, BusAssumption
<1>1. insert_element(array, uid) = qsort(b)
  BY DEF insert_element, New
<1>2. New(uid) \in Elems /\ New(uid).uid = uid
  BY DEF New, Elems
<1>3. /\ b \in Seq(Elems) /\ Len(b) = n + 1 /\ b[n + 1] = New(uid)
      /\ \A i \in 1 .. n : b[i] = array[i]
  BY <1>2
<1> HIDE DEF b
<1>4. \A i, j \in 1 .. n : i < j => array[i].uid < array[j].uid
  BY DEF Sorted
<1>5. PICK k \in 0 .. n : \A i \in 1 .. n :
        IF i <= k THEN array[i].uid < uid ELSE uid < array[i].uid
  BY PlaceExists
<1>6. \A i \in 1 .. n : array[i].uid # uid
  OBVIOUS
<1> HIDE DEF n
<1>7. \A i, j \in 1 .. n + 1 : b[i].uid = b[j].uid => i = j
  <2> SUFFICES ASSUME NEW i \in 1 .. n + 1, NEW j \in 1 .. n + 1, i < j
               PROVE  b[i].uid # b[j].uid
    BY <1>0
  <2>1. i \in 1 .. n /\ b[i].uid = array[i].uid
    BY <1>0, <1>3
  <2>2. CASE j = n + 1
    BY <1>2, <1>3, <1>6, <2>1, <2>2
  <2>3. CASE j \in 1 .. n
    <3>1. array[i].uid < array[j].uid /\ array[i].uid \in Nat /\ array[j].uid \in Nat
      BY <1>0, <1>4, <2>1, <2>3
    <3> QED
      BY <1>3, <2>1, <2>3, <3>1
  <2> QED
    BY <1>0, <2>2, <2>3
<1> DEFINE p == [i \in 1 .. n + 1 |-> IF i <= k THEN i ELSE IF i = k + 1 THEN n + 1 ELSE i - 1]
<1>8. p \in Bijection(1 .. n + 1, 1 .. n + 1)
  <2>1. p \in [1 .. n + 1 -> 1 .. n + 1]
    BY <1>0
  <2>2. \A i, j \in 1 .. n + 1 : p[i] = p[j] => i = j
    BY <1>0
  <2>3. ASSUME NEW j \in 1 .. n + 1 PROVE \E i \in 1 .. n + 1 : p[i] = j
    <3>1. CASE j <= k
      BY <1>0, <3>1
    <3>2. CASE j = n + 1
      <4>1. k + 1 \in 1 .. n + 1 /\ p[k + 1] = n + 1
        BY <1>0
      <4> QED
        BY <3>2, <4>1
    <3>3. CASE k < j /\ j # n + 1
      <4>1. j + 1 \in 1 .. n + 1 /\ p[j + 1] = j
        BY <1>0, <3>3
      <4> QED
        BY <4>1
    <3> QED
      BY <1>0, <3>1, <3>2, <3>3
  <2> HIDE DEF p
  <2> QED
    BY <2>1, <2>2, <2>3 DEF Bijection, Injection, Surjection, IsInjective
<1>15. \A i \in 1 .. n + 1 : /\ i <= k => p[i] = i
                             /\ i = k + 1 => p[i] = n + 1
                             /\ i > k + 1 => p[i] = i - 1
  BY <1>0
<1> HIDE DEF p
<1>9. ASSUME NEW i \in 1 .. n + 1, NEW j \in 1 .. n + 1, i < j
      PROVE  b[p[i]].uid <= b[p[j]].uid
  <2> DEFINE U(x) == b[x].uid
  <2>1. \A x \in 1 .. n : U(x) = array[x].uid /\ U(x) \in Nat
    BY <1>0, <1>3
  <2>2. U(n + 1) = uid
    BY <1>2, <1>3
  <2>3. \A x, y \in 1 .. n : x < y => U(x) < U(y)
    BY <1>4, <2>1
  <2>4. \A x \in 1 .. n : IF x <= k THEN U(x) < uid ELSE uid < U(x)
    BY <1>5, <2>1
  <2> HIDE DEF U
  <2>5. U(p[i]) <= U(p[j])
    <3>1. CASE j <= k
      <4>1. i \in 1 .. n /\ j \in 1 .. n /\ p[i] = i /\ p[j] = j
        BY <1>0, <1>9, <1>15, <3>1
      <4>2. U(i) < U(j) /\ U(i) \in Nat /\ U(j) \in Nat
        BY <1>9, <2>1, <2>3, <4>1
      <4> QED
        BY <4>1, <4>2
    <3>2. CASE j = k + 1
      <4>1. p[i] = i /\ i \in 1 .. n /\ i <= k /\ p[j] = n + 1
        BY <1>0, <1>9, <1>15, <3>2
      <4> QED
        BY <1>0, <2>1, <2>2, <2>4, <4>1
    <3>3. CASE j > k + 1
      <4>1. p[j] = j - 1 /\ j - 1 \in 1 .. n /\ ~(j - 1 <= k)
        BY <1>0, <1>9, <1>15, <3>3
      <4>2. \/ p[i] = n + 1
            \/ p[i] \in 1 .. n /\ p[i] < j - 1
        <5>1. i <= k \/ i = k + 1 \/ i > k + 1
          BY <1>0
        <5> QED
          BY <1>0, <1>9, <1>15, <3>3, <5>1
      <4>3. CASE p[i] = n + 1
        BY <1>0, <2>1, <2>2, <2>4, <4>1, <4>3
      <4>4. CASE p[i] \in 1 .. n /\ p[i] < j - 1
        <5>1. U(p[i]) < U(j - 1) /\ U(p[i]) \in Nat /\ U(j - 1) \in Nat
          BY <2>1, <2>3, <4>1, <4>4
        <5> QED
          BY <4>1, <5>1
      <4> QED
        BY <4>2, <4>3, <4>4
    <3> QED
      BY <1>0, <3>1, <3>2, <3>3
  <2> QED
    BY <2>5 DEF U
<1>10. /\ qsort(b) \in Seq(Elems) /\ Len(qsort(b)) = Len(b)
       /\ Sorted(qsort(b))
       /\ \A i \in 1 .. Len(b) : \E j \in 1 .. Len(b) : qsort(b)[i] = b[j]
       /\ \A j \in 1 .. Len(b) : \E i \in 1 .. Len(b) : qsort(b)[i] = b[j]
  BY <1>3, <1>7, <1>8, <1>9, QsortSorts
<1> DEFINE a == qsort(b)
<1> HIDE DEF a
<1>11. a \in Seq(Elems) /\ Len(a) = n + 1 /\ Sorted(a)
  BY <1>3, <1>10 DEF a
<1>12. \A i \in 1 .. n + 1 : a[i] = New(uid) \/ \E j \in 1 .. n : a[i] = array[j]
  <2> SUFFICES ASSUME NEW i \in 1 .. n + 1
               PROVE  a[i] = New(uid) \/ \E j \in 1 .. n : a[i] = array[j]
    OBVIOUS
  <2>1. PICK j \in 1 .. n + 1 : a[i] = b[j]
    BY <1>3, <1>10 DEF a
  <2>2. j = n + 1 \/ j \in 1 .. n
    BY <1>0
  <2> QED
    BY <1>3, <2>1, <2>2
<1>13. \A j \in 1 .. n : \E i \in 1 .. n + 1 : a[i] = array[j]
  <2> SUFFICES ASSUME NEW j \in 1 .. n PROVE \E i \in 1 .. n + 1 : a[i] = array[j]
    OBVIOUS
  <2>1. j \in 1 .. n + 1
    BY <1>0
  <2> QED
    BY <1>3, <1>10, <2>1 DEF a
<1>14. \E i \in 1 .. n + 1 : a[i] = New(uid)
  <2>1. n + 1 \in 1 .. n + 1
    BY <1>0
  <2> QED
    BY <1>3, <1>10, <2>1 DEF a
<1> QED
  BY <1>1, <1>11, <1>12, <1>13, <1>14 DEF a, n

-----------------------------------------------------------------------------
(* The index                                                                 *)

\* The array is sorted, has an element for every uid with a subscription and
\* no other, and each has the queues that subscribed, in their order.
IndexIs(array) ==
  /\ array \in Seq(Elems)
  /\ Sorted(array)
  /\ \A i \in 1 .. Len(array) : array[i].queues = subscriptions[array[i].uid]
  /\ \A u \in Uids :
       subscriptions[u] # <<>> => \E i \in 1 .. Len(array) : array[i].uid = u

Index ==
  /\ subscriptions \in [Uids -> Seq(Queues)]
  /\ \A u \in Uids : Len(subscriptions[u]) <= MaxSubscriptions
  /\ IndexIs(elems)
  /\ \A i \in 1 .. Len(elems) : elems[i].queues # <<>>

\* What the binary search finds in the index.
LEMMA Found ==
  ASSUME NEW array, IndexIs(array), NEW u \in Uids
  PROVE  LET i == find_element(array, u)
         IN  /\ i = 0 => (subscriptions[u] = <<>> /\ \A j \in 1 .. Len(array) : array[j].uid # u)
             /\ i # 0 => /\ i \in 1 .. Len(array)
                         /\ array[i].uid = u
                         /\ array[i].queues = subscriptions[u]
<1> DEFINE i == bsearch(array, u)
<1>1. array \in Seq(Elems) /\ Sorted(array) /\ u \in Nat
  BY BusAssumption DEF IndexIs
<1>2. /\ i \in 0 .. Len(array)
      /\ i = 0 => \A j \in 1 .. Len(array) : array[j].uid # u
      /\ i # 0 => array[i].uid = u
  BY <1>1, SearchFinds
<1> HIDE DEF i
<1>3. i # 0 => i \in 1 .. Len(array)
  BY <1>1, <1>2
<1>4. i = 0 => subscriptions[u] = <<>>
  BY <1>2 DEF IndexIs
<1>5. i # 0 => array[i].queues = subscriptions[u]
  BY <1>2, <1>3 DEF IndexIs
<1> QED
  BY <1>2, <1>3, <1>4, <1>5 DEF find_element, i

\* The index is right, so every subscriber is found.
LEMMA IndexFinds == Index => SubscribersAreFound
<1> SUFFICES ASSUME Index, NEW u \in Uids
             PROVE  LET i == find_element(elems, u)
                    IN  IF i = 0 THEN subscriptions[u] = <<>>
                                 ELSE elems[i].queues = subscriptions[u]
  BY DEF SubscribersAreFound
<1> QED
  BY Found DEF Index

\* Before an element is added to the index there is room for it.
LEMMA BelowLimit ==
  ASSUME subscriptions \in [Uids -> Seq(Queues)], NEW u \in Uids,
         Cardinality({s \in Uids \X (1 .. MaxSubscriptions) :
                        s[2] <= Len(subscriptions[s[1]])}) < MaxSubscriptions
  PROVE  Len(subscriptions[u]) < MaxSubscriptions
<1> SUFFICES ASSUME ~(Len(subscriptions[u]) < MaxSubscriptions) PROVE FALSE
  OBVIOUS
<1> DEFINE A == Uids \X (1 .. MaxSubscriptions)
           S == {s \in A : s[2] <= Len(subscriptions[s[1]])}
           R == {u} \X (1 .. MaxSubscriptions)
<1>1. MaxSubscriptions \in Nat /\ Len(subscriptions[u]) \in Nat
  BY BusAssumption
<1>2. R \subseteq S
  BY <1>1
<1>3. IsFiniteSet(1 .. MaxSubscriptions) /\ Cardinality(1 .. MaxSubscriptions) = MaxSubscriptions
  BY <1>1, FS_Interval
<1>4. IsFiniteSet(A)
  BY <1>3, FS_Product, BusAssumption
<1>5. IsFiniteSet(S)
  <2> HIDE DEF A
  <2> QED
    BY <1>4, FS_Subset
<1>6. Cardinality(R) = 1 * MaxSubscriptions
  <2> DEFINE U == {u}
             I == 1 .. MaxSubscriptions
  <2>1. IsFiniteSet(U) /\ Cardinality(U) = 1
    BY FS_Singleton
  <2>2. IsFiniteSet(I) /\ Cardinality(I) = MaxSubscriptions
    BY <1>3
  <2> HIDE DEF U, I
  <2>3. Cardinality(U \X I) = Cardinality(U) * Cardinality(I)
    BY <2>1, <2>2, FS_Product
  <2> QED
    BY <2>1, <2>2, <2>3 DEF U, I
<1>7. Cardinality(R) <= Cardinality(S)
  <2> HIDE DEF R, S
  <2> QED
    BY <1>2, <1>5, FS_Subset
<1>8. Cardinality(S) \in Nat /\ Cardinality(S) < MaxSubscriptions
  <2>1. Cardinality(S) < MaxSubscriptions
    OBVIOUS
  <2> HIDE DEF S
  <2> QED
    BY <1>5, <2>1, FS_CardinalityType
<1> HIDE DEF S, R
<1> QED
  BY <1>1, <1>6, <1>7, <1>8

\* ml_bus_subscribe() keeps the index right.
LEMMA SubscribeKeepsIndex ==
  ASSUME Index, NEW q \in Queues, NEW uid \in Uids, ml_bus_subscribe(q, uid)
  PROVE  Index'
<1> DEFINE array == IF find_element(elems, uid) = 0 THEN insert_element(elems, uid) ELSE elems
           k == find_element(array, uid)
<1>1. /\ elems' = append_queue_to_element(array, k, q)
      /\ subscriptions' = [subscriptions EXCEPT ![uid] = Append(@, q)]
  BY DEF ml_bus_subscribe
<1>2. /\ IndexIs(array)
      /\ \E i \in 1 .. Len(array) : array[i].uid = uid
      /\ \A i \in 1 .. Len(array) : array[i].uid # uid => array[i].queues # <<>>
  <2>1. CASE find_element(elems, uid) = 0
    <3>1. /\ subscriptions[uid] = <<>>
          /\ \A j \in 1 .. Len(elems) : elems[j].uid # uid
      BY <2>1, Found DEF Index
    <3> DEFINE a == insert_element(elems, uid)
    <3>2. /\ a \in Seq(Elems) /\ Len(a) = Len(elems) + 1 /\ Sorted(a)
          /\ \A i \in 1 .. Len(a) :
               a[i] = New(uid) \/ \E j \in 1 .. Len(elems) : a[i] = elems[j]
          /\ \A j \in 1 .. Len(elems) : \E i \in 1 .. Len(a) : a[i] = elems[j]
          /\ \E i \in 1 .. Len(a) : a[i] = New(uid)
      BY <3>1, InsertSorts DEF Index, IndexIs
    <3>3. array = a
      BY <2>1
    <3> HIDE DEF a, array
    <3>4. New(uid).uid = uid /\ New(uid).queues = <<>>
      BY DEF New
    <3>5. \A i \in 1 .. Len(a) : /\ a[i].queues = subscriptions[a[i].uid]
                                 /\ a[i].uid # uid => a[i].queues # <<>>
      <4> SUFFICES ASSUME NEW i \in 1 .. Len(a)
                   PROVE  /\ a[i].queues = subscriptions[a[i].uid]
                          /\ a[i].uid # uid => a[i].queues # <<>>
        OBVIOUS
      <4>1. CASE a[i] = New(uid)
        BY <3>1, <3>4, <4>1
      <4>2. CASE \E j \in 1 .. Len(elems) : a[i] = elems[j]
        BY <4>2 DEF Index, IndexIs
      <4> QED
        BY <3>2, <4>1, <4>2
    <3>6. ASSUME NEW u \in Uids, subscriptions[u] # <<>>
          PROVE  \E i \in 1 .. Len(a) : a[i].uid = u
      <4>1. PICK j \in 1 .. Len(elems) : elems[j].uid = u
        BY <3>6 DEF Index, IndexIs
      <4>2. PICK i \in 1 .. Len(a) : a[i] = elems[j]
        BY <3>2
      <4> QED
        BY <4>1, <4>2
    <3>7. IndexIs(a)
      BY <3>2, <3>5, <3>6 DEF IndexIs
    <3>8. \E i \in 1 .. Len(a) : a[i].uid = uid
      BY <3>2, <3>4
    <3> QED
      BY <3>3, <3>5, <3>7, <3>8
  <2>2. CASE find_element(elems, uid) # 0
    <3>1. array = elems
      BY <2>2
    <3>2. find_element(elems, uid) \in 1 .. Len(elems) /\ elems[find_element(elems, uid)].uid = uid
      BY <2>2, Found DEF Index
    <3> QED
      BY <3>1, <3>2 DEF Index
  <2> QED
    BY <2>1, <2>2
<1> HIDE DEF array
<1>3. /\ k \in 1 .. Len(array) /\ array[k].uid = uid
      /\ array[k].queues = subscriptions[uid]
  BY <1>2, Found
<1> HIDE DEF k
<1>4. /\ array \in Seq(Elems) /\ Len(array) \in Nat
      /\ \A i \in 1 .. Len(array) : array[i].uid \in Uids /\ array[i].queues \in Seq(Queues)
  <2>1. array \in Seq(Elems)
    BY <1>2 DEF IndexIs
  <2>2. \A i \in 1 .. Len(array) : array[i] \in Elems
    BY <2>1
  <2> QED
    BY <2>1, <2>2 DEF Elems
<1>5. /\ elems' \in Seq(Elems) /\ Len(elems') = Len(array)
      /\ \A i \in 1 .. Len(array) :
           /\ elems'[i].uid = array[i].uid
           /\ elems'[i].queues = IF i = k THEN Append(array[i].queues, q) ELSE array[i].queues
  <2> DEFINE e == [array[k] EXCEPT !.queues = Append(@, q)]
  <2>1. array[k] \in Elems
    BY <1>3, <1>4
  <2>2. e \in Elems /\ e.uid = array[k].uid /\ e.queues = Append(array[k].queues, q)
    <3>1. Append(array[k].queues, q) \in Seq(Queues)
      BY <1>3, <1>4
    <3>2. \A x \in Elems, y \in Seq(Queues) :
            LET z == [x EXCEPT !.queues = y] IN z \in Elems /\ z.uid = x.uid /\ z.queues = y
      BY DEF Elems
    <3> QED
      BY <2>1, <3>1, <3>2
  <2>3. elems' = [array EXCEPT ![k] = e]
    BY <1>1 DEF append_queue_to_element
  <2> HIDE DEF e
  <2>4. elems' \in Seq(Elems) /\ Len(elems') = Len(array)
    BY <1>3, <1>4, <2>2, <2>3
  <2>5. \A i \in 1 .. Len(array) : elems'[i] = IF i = k THEN e ELSE array[i]
    BY <1>3, <1>4, <2>3
  <2> QED
    BY <2>2, <2>4, <2>5
<1>6. \A i \in 1 .. Len(array) : array[i].uid = uid => i = k
  <2> SUFFICES ASSUME NEW i \in 1 .. Len(array), array[i].uid = uid, i # k PROVE FALSE
    OBVIOUS
  <2>1. i < k \/ k < i
    BY <1>3, <1>4
  <2>2. array[i].uid < array[k].uid \/ array[k].uid < array[i].uid
    BY <1>2, <1>3, <2>1 DEF IndexIs, Sorted
  <2> QED
    BY <1>3, <2>2, BusAssumption
<1>7. subscriptions \in [Uids -> Seq(Queues)]
  BY DEF Index
<1>8. /\ subscriptions' \in [Uids -> Seq(Queues)]
      /\ \A u \in Uids : subscriptions'[u] = IF u = uid THEN Append(subscriptions[u], q)
                                                        ELSE subscriptions[u]
  BY <1>1, <1>7
<1>9. \A u \in Uids : Len(subscriptions'[u]) <= MaxSubscriptions
  <2>1. Len(subscriptions[uid]) < MaxSubscriptions
    BY <1>7, BelowLimit DEF ml_bus_subscribe
  <2>2. Len(subscriptions[uid]) \in Nat /\ MaxSubscriptions \in Nat
    BY <1>7, BusAssumption
  <2>3. Len(Append(subscriptions[uid], q)) = Len(subscriptions[uid]) + 1
    BY <1>7
  <2>4. \A u \in Uids : Len(subscriptions[u]) <= MaxSubscriptions
    BY DEF Index
  <2> QED
    BY <1>8, <2>1, <2>2, <2>3, <2>4
<1>10. Sorted(elems')
  BY <1>2, <1>5 DEF Sorted, IndexIs
<1>11. \A i \in 1 .. Len(array) : elems'[i].queues = subscriptions'[elems'[i].uid]
  <2> SUFFICES ASSUME NEW i \in 1 .. Len(array)
               PROVE  elems'[i].queues = subscriptions'[array[i].uid]
    BY <1>5
  <2>1. array[i].queues = subscriptions[array[i].uid]
    BY <1>2 DEF IndexIs
  <2> QED
    BY <1>3, <1>4, <1>5, <1>6, <1>8, <2>1, ZenonT(30)
<1>12. \A u \in Uids :
         subscriptions'[u] # <<>> => \E i \in 1 .. Len(array) : elems'[i].uid = u
  <2> SUFFICES ASSUME NEW u \in Uids, subscriptions'[u] # <<>>
               PROVE  \E i \in 1 .. Len(array) : elems'[i].uid = u
    OBVIOUS
  <2>1. CASE u = uid
    BY <1>3, <1>5, <2>1
  <2>2. CASE u # uid
    <3>1. PICK i \in 1 .. Len(array) : array[i].uid = u
      BY <1>2, <1>8, <2>2 DEF IndexIs
    <3> QED
      BY <1>5, <3>1
  <2> QED
    BY <2>1, <2>2
<1>13. \A i \in 1 .. Len(array) : elems'[i].queues # <<>>
  <2> SUFFICES ASSUME NEW i \in 1 .. Len(array) PROVE elems'[i].queues # <<>>
    OBVIOUS
  <2>1. CASE i = k
    <3>1. \A x \in Seq(Queues) : Append(x, q) # <<>>
      OBVIOUS
    <3> QED
      BY <1>4, <1>5, <2>1, <3>1
  <2>2. CASE i # k
    BY <1>2, <1>5, <1>6, <2>2
  <2> QED
    BY <2>1, <2>2
<1>14. IndexIs(elems)'
  BY <1>5, <1>10, <1>11, <1>12 DEF IndexIs
<1> QED
  BY <1>5, <1>8, <1>9, <1>13, <1>14 DEF Index

-----------------------------------------------------------------------------
(* The messages                                                              *)

Labels == {"idle", "allocated", "put", "free", "on_free", "dealloc"}

Headers == [uid : Nat, count : Int, on_free : BOOLEAN]

Types ==
  /\ phase \in {"setup", "running"}
  /\ queue \in [Queues -> Seq(Messages)]
  /\ \A q \in Queues : Len(queue[q]) <= Capacity
  /\ header \in [Messages -> Headers]
  /\ allocated \subseteq Messages
  /\ attached \subseteq Messages
  /\ pc \in [Threads -> Labels]
  /\ arg \in [Threads -> Messages \cup {NoMessage}]
  /\ dest \in [Producers -> Seq(Queues)]
  /\ \A p \in Producers : /\ pc[p] = "put" <=> dest[p] # <<>>
                          /\ Len(dest[p]) <= MaxSubscriptions + 1
                          /\ pc[p] = "allocated" => header[arg[p]].uid \in Uids
  /\ \A t \in Threads : pc[t] = "idle" <=> arg[t] = NoMessage

Counts == \A m \in Messages : header[m].count = References(m)

\* Thread t has decremented the count to zero.
Frees(t) == pc[t] \in {"on_free", "dealloc"}

\* A message with references is intact...
Reached(m) ==
  References(m) > 0 => m \in allocated /\ (header[m].on_free <=> m \in attached)

\* ... and one without is taken down step by step.
Freed(t) ==
  Frees(t) =>
    /\ arg[t] \in allocated /\ References(arg[t]) = 0
    /\ pc[t] = "on_free" => (header[arg[t]].on_free <=> arg[t] \in attached)
    /\ pc[t] = "dealloc" => arg[t] \notin attached

Intact ==
  /\ \A m \in Messages : Reached(m)
  /\ attached \subseteq allocated
  /\ \A t \in Threads : Freed(t)
  /\ \A t, u \in Threads : Frees(t) /\ Frees(u) /\ arg[t] = arg[u] => t = u

IInv == Index /\ Types /\ Counts /\ Intact

\* A message has finitely many references.
LEMMA FiniteReferences ==
  ASSUME NEW m
  PROVE  /\ IsFiniteSet(InQueues(m)) /\ Cardinality(InQueues(m)) \in Nat
         /\ IsFiniteSet(Held(m)) /\ Cardinality(Held(m)) \in Nat
         /\ IsFiniteSet(PutsLeft(m)) /\ Cardinality(PutsLeft(m)) \in Nat
         /\ References(m) \in Nat
<1>1. Capacity \in Nat /\ MaxSubscriptions \in Nat
  BY BusAssumption
<1>2. IsFiniteSet(1 .. Capacity) /\ IsFiniteSet(1 .. MaxSubscriptions + 1)
  BY <1>1, FS_Interval
<1> DEFINE Q == Queues \X (1 .. Capacity)
           P == Producers \X (1 .. MaxSubscriptions + 1)
<1>3. IsFiniteSet(Q) /\ IsFiniteSet(P) /\ IsFiniteSet(Threads)
  BY <1>2, FS_Product, FS_Union, BusAssumption DEF Threads
<1>4. InQueues(m) \in SUBSET Q /\ PutsLeft(m) \in SUBSET P /\ Held(m) \in SUBSET Threads
  BY DEF InQueues, PutsLeft, Held
<1> HIDE DEF Q, P
<1>5. IsFiniteSet(InQueues(m)) /\ IsFiniteSet(Held(m)) /\ IsFiniteSet(PutsLeft(m))
  BY <1>3, <1>4, FS_Subset
<1>6. /\ Cardinality(InQueues(m)) \in Nat /\ Cardinality(Held(m)) \in Nat
      /\ Cardinality(PutsLeft(m)) \in Nat
  BY <1>5, FS_CardinalityType
<1> QED
  BY <1>5, <1>6 DEF References

\* A thread that has a message, and has not decremented its count, is one of
\* the references to it; so is a message in a queue.
LEMMA HolderCounts ==
  ASSUME NEW t \in Threads, pc[t] \in {"allocated", "free"}
  PROVE  References(arg[t]) > 0
<1>1. t \in Held(arg[t])
  BY DEF Held
<1>2. Cardinality(Held(arg[t])) # 0
  BY <1>1, FiniteReferences, FS_EmptySet
<1> QED
  BY <1>2, FiniteReferences DEF References

-----------------------------------------------------------------------------
\* Nothing is allocated and nobody is subscribed in the beginning.
LEMMA InitHolds == Init => IInv
<1> SUFFICES ASSUME Init PROVE IInv
  OBVIOUS
<1> USE BusAssumption
<1>1. Index
  <2>1. elems \in Seq(Elems) /\ Len(elems) = 0
    BY DEF Init
  <2> QED
    BY <2>1 DEF Init, Index, IndexIs, Sorted
<1>2. Types
  BY DEF Init, Types, Headers, Labels, Threads
<1>3. \A m \in Messages : References(m) = 0
  <2> SUFFICES ASSUME NEW m \in Messages PROVE References(m) = 0
    OBVIOUS
  <2>1. InQueues(m) = {} /\ Held(m) = {} /\ PutsLeft(m) = {}
    BY DEF Init, InQueues, Held, PutsLeft, Threads
  <2> QED
    BY <2>1, FS_EmptySet DEF References
<1>4. Counts
  BY <1>3 DEF Init, Counts
<1>5. Intact
  BY <1>3 DEF Init, Intact, Reached, Freed, Frees, Threads
<1> QED
  BY <1>1, <1>2, <1>4, <1>5 DEF IInv

\* Index, the only part that ml_bus_subscribe() changes.
LEMMA SubscribeKeeps ==
  ASSUME IInv, NEW q \in Queues, NEW uid \in Uids, ml_bus_subscribe(q, uid) PROVE IInv'
<1>1. /\ phase' = phase /\ queue' = queue /\ header' = header /\ allocated' = allocated
      /\ attached' = attached /\ pc' = pc /\ arg' = arg /\ dest' = dest
  BY DEF ml_bus_subscribe, msgVars, thrVars
<1>2. \A m : References(m)' = References(m)
  BY <1>1 DEF References, InQueues, Held, PutsLeft
<1>3. Types' /\ Counts' /\ Intact'
  BY <1>1, <1>2 DEF IInv, Types, Counts, Intact, Reached, Freed, Frees
<1> QED
  BY <1>3, SubscribeKeepsIndex DEF IInv

\* No other operation changes the index.
LEMMA IndexStays == ASSUME Index, elems' = elems, subscriptions' = subscriptions PROVE Index'
BY DEF Index, IndexIs, Sorted

\* A new message has one reference, that of the producer.
LEMMA AllocKeeps ==
  ASSUME IInv, NEW p \in Producers, NEW uid \in Uids, NEW f \in BOOLEAN,
         ml_message_alloc(p, uid, f)
  PROVE  IInv'
<1> USE DEF GoTo, busVars
<1>0. p \in Threads /\ \A q \in Queues : q \in Threads
  BY DEF Threads
<1>1. PICK n \in Messages \ allocated :
        /\ header' = [header EXCEPT ![n] = [uid |-> uid, count |-> 1, on_free |-> f]]
        /\ allocated' = allocated \cup {n}
        /\ attached' = IF f THEN attached \cup {n} ELSE attached
        /\ arg' = [arg EXCEPT ![p] = n]
  BY DEF ml_message_alloc
<1>2. /\ pc[p] = "idle" /\ pc' = [pc EXCEPT ![p] = "allocated"]
      /\ elems' = elems /\ subscriptions' = subscriptions /\ phase' = phase
      /\ queue' = queue /\ dest' = dest
  BY DEF ml_message_alloc
<1>3. /\ pc \in [Threads -> Labels] /\ arg \in [Threads -> Messages \cup {NoMessage}]
      /\ header \in [Messages -> Headers]
      /\ arg[p] = NoMessage /\ dest[p] = <<>> /\ n # NoMessage
  BY <1>0, <1>2, BusAssumption DEF IInv, Types
<1>4. Types'
  <2>1. /\ header' \in [Messages -> Headers]
        /\ \A m \in Messages : m # n => header'[m] = header[m]
        /\ header'[n].uid = uid
    BY <1>1, <1>3, BusAssumption DEF Headers
  <2>2. \A u \in Producers : pc'[u] = "allocated" => header'[arg'[u]].uid \in Uids
    <3> SUFFICES ASSUME NEW u \in Producers, pc'[u] = "allocated"
                 PROVE  header'[arg'[u]].uid \in Uids
      OBVIOUS
    <3>1. u \in Threads
      BY DEF Threads
    <3>2. CASE u = p
      BY <1>0, <1>1, <1>3, <2>1, <3>2
    <3>3. CASE u # p
      <4>1. pc[u] = "allocated" /\ arg'[u] = arg[u]
        BY <1>0, <1>1, <1>2, <1>3, <3>1, <3>3
      <4>2. header[arg[u]].uid \in Uids /\ arg[u] \in Messages
        BY <1>3, <3>1, <4>1 DEF IInv, Types
      <4>3. References(arg[u]) > 0
        BY <3>1, <4>1, HolderCounts
      <4>4. arg[u] # n
        BY <1>1, <4>2, <4>3 DEF IInv, Intact, Reached
      <4> QED
        BY <2>1, <4>1, <4>2, <4>4
    <3> QED
      BY <3>2, <3>3
  <2>3. /\ arg' \in [Threads -> Messages \cup {NoMessage}] /\ pc' \in [Threads -> Labels]
        /\ \A t \in Threads : pc'[t] = "idle" <=> arg'[t] = NoMessage
        /\ \A u \in Producers : pc'[u] = "put" <=> dest'[u] # <<>>
        /\ \A u \in Producers : Len(dest'[u]) <= MaxSubscriptions + 1
    BY <1>0, <1>1, <1>2, <1>3 DEF IInv, Types, Labels, Threads
  <2>4. allocated' \subseteq Messages /\ attached' \subseteq Messages
    BY <1>1 DEF IInv, Types
  <2> QED
    BY <1>2, <2>1, <2>2, <2>3, <2>4 DEF IInv, Types
<1>5. References(n) = 0
  BY <1>1, FiniteReferences DEF IInv, Intact, Reached
<1>6. \A m \in Messages : References(m)' = IF m = n THEN 1 ELSE References(m)
  <2> SUFFICES ASSUME NEW m \in Messages
               PROVE  References(m)' = IF m = n THEN 1 ELSE References(m)
    OBVIOUS
  <2>1. InQueues(m)' = InQueues(m)
    BY <1>2 DEF InQueues
  <2>2. PutsLeft(m)' = PutsLeft(m)
    BY <1>0, <1>1, <1>2, <1>3, BusAssumption DEF PutsLeft, Threads
  <2>3. CASE m # n
    <3>1. Held(m)' = Held(m)
      BY <1>0, <1>1, <1>2, <1>3, <2>3, BusAssumption DEF Held
    <3> QED
      BY <2>1, <2>2, <2>3, <3>1 DEF References
  <2>4. CASE m = n
    <3>1. Held(m)' = Held(m) \cup {p} /\ p \notin Held(m)
      BY <1>0, <1>1, <1>2, <1>3, <2>4, BusAssumption DEF Held
    <3>2. Cardinality(Held(m)') = Cardinality(Held(m)) + 1
      BY <3>1, FiniteReferences, FS_AddElement
    <3>3. References(m)' = References(m) + 1
      BY <2>1, <2>2, <3>2, FiniteReferences DEF References
    <3> QED
      BY <1>5, <2>4, <3>3
  <2> QED
    BY <2>3, <2>4
<1>7. Counts'
  <2>1. \A m \in Messages : header'[m].count = IF m = n THEN 1 ELSE header[m].count
    BY <1>1, <1>3
  <2> QED
    BY <1>6, <2>1 DEF IInv, Counts
<1>8. Intact'
  <2>1. \A t \in Threads : Frees(t)' => t # p /\ Frees(t) /\ arg'[t] = arg[t] /\ pc'[t] = pc[t]
    BY <1>0, <1>1, <1>2, <1>3 DEF Frees
  <2>2. \A t \in Threads : Frees(t) => arg[t] # n /\ arg[t] \in Messages
    BY <1>1 DEF IInv, Intact, Freed, Types
  <2>3. \A m \in Messages : m # n => header'[m] = header[m]
    BY <1>1, <1>3
  <2>4. header'[n].on_free = f
    BY <1>1, <1>3
  <2>5. /\ attached' \subseteq allocated'
        /\ n \in attached' <=> f
        /\ \A m \in Messages : m # n => (m \in attached' <=> m \in attached)
                                        /\ (m \in allocated' <=> m \in allocated)
        /\ n \in allocated'
    BY <1>1 DEF IInv, Intact
  <2>6. \A m \in Messages : Reached(m)'
    BY <1>6, <2>3, <2>4, <2>5 DEF IInv, Intact, Reached
  <2>7. ASSUME NEW t \in Threads PROVE Freed(t)'
    <3> SUFFICES ASSUME Frees(t)' PROVE Freed(t)'
      BY DEF Freed
    <3>1. /\ arg'[t] = arg[t] /\ pc'[t] = pc[t] /\ Frees(t) /\ Freed(t)
          /\ arg[t] # n /\ arg[t] \in Messages
      BY <2>1, <2>2 DEF IInv, Intact
    <3>2. References(arg[t])' = References(arg[t])
      BY <1>6, <3>1
    <3> QED
      BY <2>3, <2>5, <3>1, <3>2 DEF Freed
  <2> QED
    BY <2>1, <2>5, <2>6, <2>7 DEF IInv, Intact
<1> QED
  BY <1>2, <1>4, <1>7, <1>8, IndexStays DEF IInv

\* Operations that only pass references on leave the messages intact.
LEMMA IntactStays ==
  ASSUME IInv, allocated' = allocated, attached' = attached,
         \A m \in Messages : header'[m].on_free = header[m].on_free,
         \A m \in Messages : References(m) = 0 => References(m)' = 0,
         \A t \in Threads : Frees(t)' => Frees(t) /\ pc'[t] = pc[t] /\ arg'[t] = arg[t]
  PROVE  Intact'
<1>1. ASSUME NEW m \in Messages PROVE Reached(m)'
  <2> SUFFICES ASSUME References(m)' > 0 PROVE Reached(m)'
    BY DEF Reached
  <2>1. References(m) > 0
    BY FiniteReferences
  <2> QED
    BY <2>1 DEF IInv, Intact, Reached
<1>2. ASSUME NEW t \in Threads PROVE Freed(t)'
  <2> SUFFICES ASSUME Frees(t)' PROVE Freed(t)'
    BY DEF Freed
  <2>1. /\ pc'[t] = pc[t] /\ arg'[t] = arg[t] /\ Frees(t) /\ Freed(t)
        /\ arg[t] \in Messages
    BY DEF IInv, Intact, Freed, Types
  <2>2. References(arg[t])' = 0
    BY <2>1 DEF Freed
  <2> QED
    BY <2>1, <2>2 DEF Freed
<1> QED
  BY <1>1, <1>2 DEF IInv, Intact

\* A new count in the header of n changes nothing else.
LEMMA NewCount ==
  ASSUME header \in [Messages -> Headers], NEW n \in Messages, NEW v \in Int,
         header' = [header EXCEPT ![n].count = v]
  PROVE  /\ header' \in [Messages -> Headers]
         /\ \A m \in Messages : /\ header'[m].uid = header[m].uid
                                /\ header'[m].on_free = header[m].on_free
                                /\ header'[m].count = IF m = n THEN v ELSE header[m].count
<1> DEFINE e == [header[n] EXCEPT !.count = v]
<1>1. \A h \in Headers :
        LET g == [h EXCEPT !.count = v]
        IN  g \in Headers /\ g.uid = h.uid /\ g.on_free = h.on_free /\ g.count = v
  BY DEF Headers
<1>2. e \in Headers /\ e.uid = header[n].uid /\ e.on_free = header[n].on_free /\ e.count = v
  BY <1>1
<1>3. header' = [header EXCEPT ![n] = e]
  OBVIOUS
<1> HIDE DEF e
<1>4. header' \in [Messages -> Headers]
  BY <1>2, <1>3
<1> QED
  BY <1>2, <1>3, <1>4

\* ml_bus_broadcast() turns the reference of the producer into one for each
\* queue, before the first of them can be used.
LEMMA BroadcastKeeps ==
  ASSUME IInv, NEW p \in Producers, ml_bus_broadcast(p) PROVE IInv'
<1> USE DEF GoTo
<1> DEFINE n == arg[p]
           i == find_element(elems, header[n].uid)
<1>0. p \in Threads
  BY DEF Threads
<1>1. /\ pc[p] = "allocated" /\ phase' = "running"
      /\ elems' = elems /\ subscriptions' = subscriptions /\ queue' = queue
      /\ allocated' = allocated /\ attached' = attached /\ arg' = arg
  BY DEF ml_bus_broadcast
<1>2. /\ pc \in [Threads -> Labels] /\ arg \in [Threads -> Messages \cup {NoMessage}]
      /\ header \in [Messages -> Headers]
      /\ dest \in [Producers -> Seq(Queues)]
      /\ n \in Messages /\ dest[p] = <<>> /\ header[n].uid \in Uids
  BY <1>0, <1>1, BusAssumption DEF IInv, Types
<1>3. CASE i = 0
  <2>1. pc' = [pc EXCEPT ![p] = "free"] /\ header' = header /\ dest' = dest
    BY <1>3 DEF ml_bus_broadcast
  <2>2. Types'
    BY <1>0, <1>1, <1>2, <2>1 DEF IInv, Types, Labels, Threads
  <2>3. ASSUME NEW m \in Messages PROVE References(m)' = References(m)
    <3>1. InQueues(m)' = InQueues(m) /\ PutsLeft(m)' = PutsLeft(m)
      BY <1>1, <2>1 DEF InQueues, PutsLeft
    <3>2. Held(m)' = Held(m)
      BY <1>0, <1>1, <1>2, <2>1 DEF Held
    <3> QED
      BY <3>1, <3>2 DEF References
  <2>4. Counts'
    BY <2>1, <2>3 DEF IInv, Counts
  <2>5. \A t \in Threads : Frees(t)' => Frees(t) /\ pc'[t] = pc[t] /\ arg'[t] = arg[t]
    BY <1>0, <1>1, <1>2, <2>1 DEF Frees
  <2>6. Intact'
    BY <1>1, <2>1, <2>3, <2>5, IntactStays
  <2> QED
    BY <1>1, <2>2, <2>4, <2>6, IndexStays DEF IInv
<1>4. CASE i # 0
  <2> DEFINE d == elems[i].queues
             k == Len(d)
  <2>1. /\ header' = [header EXCEPT ![n].count = @ + (k - 1)]
        /\ dest' = [dest EXCEPT ![p] = d] /\ pc' = [pc EXCEPT ![p] = "put"]
    BY <1>4 DEF ml_bus_broadcast, ml_message_share
  <2>2. d \in Seq(Queues) /\ d # <<>> /\ k \in Nat \ {0} /\ k <= MaxSubscriptions
    <3>1. i \in 1 .. Len(elems) /\ d = subscriptions[header[n].uid]
      BY <1>2, <1>4, Found DEF IInv, Index
    <3>2. d \in Seq(Queues) /\ d # <<>> /\ Len(d) <= MaxSubscriptions
      BY <1>2, <3>1 DEF IInv, Index
    <3> HIDE DEF d
    <3> QED
      BY <3>2
  <2> HIDE DEF i, d
  <2>3. /\ header' \in [Messages -> Headers]
        /\ \A m \in Messages : /\ header'[m].uid = header[m].uid
                               /\ header'[m].on_free = header[m].on_free
                               /\ header'[m].count = IF m = n THEN header[m].count + (k - 1)
                                                              ELSE header[m].count
    <3> DEFINE v == header[n].count + (k - 1)
    <3>1. header[n] \in Headers /\ header \in [Messages -> Headers]
      BY <1>2 DEF Headers
    <3>2. v \in Int
      BY <2>2, <3>1 DEF Headers
    <3>3. header' = [header EXCEPT ![n].count = v]
      BY <2>1
    <3> HIDE DEF v
    <3>4. /\ header' \in [Messages -> Headers]
          /\ \A m \in Messages : /\ header'[m].uid = header[m].uid
                                 /\ header'[m].on_free = header[m].on_free
                                 /\ header'[m].count = IF m = n THEN v ELSE header[m].count
      BY <1>2, <3>1, <3>2, <3>3, NewCount, ZenonT(30)
    <3> QED
      BY <3>4 DEF Headers, v
  <2>4. Types'
    <3>1. pc' \in [Threads -> Labels] /\ dest' \in [Producers -> Seq(Queues)]
      BY <1>2, <2>1, <2>2 DEF Labels
    <3>2. ASSUME NEW u \in Producers
          PROVE  /\ pc'[u] = "put" <=> dest'[u] # <<>>
                 /\ Len(dest'[u]) <= MaxSubscriptions + 1
                 /\ pc'[u] = "allocated" => header'[arg'[u]].uid \in Uids
      <4>1. u \in Threads
        BY DEF Threads
      <4>2. CASE u = p
        BY <1>0, <1>1, <1>2, <2>1, <2>2, <4>2, BusAssumption
      <4>3. CASE u # p
        <5>1. pc'[u] = pc[u] /\ dest'[u] = dest[u] /\ arg'[u] = arg[u]
          BY <1>1, <1>2, <2>1, <4>1, <4>3
        <5>2. pc[u] = "allocated" => arg[u] \in Messages
          BY <1>2, <4>1 DEF IInv, Types
        <5> QED
          BY <2>3, <5>1, <5>2, ZenonT(30) DEF IInv, Types
      <4> QED
        BY <4>2, <4>3
    <3>3. \A t \in Threads : pc'[t] = "idle" <=> arg'[t] = NoMessage
      BY <1>0, <1>1, <1>2, <2>1 DEF IInv, Types
    <3> QED
      BY <1>1, <2>3, <3>1, <3>2, <3>3 DEF IInv, Types
  <2>5. ASSUME NEW m \in Messages
        PROVE  References(m)' = IF m = n THEN References(m) + (k - 1) ELSE References(m)
    <3>1. InQueues(m)' = InQueues(m)
      BY <1>1 DEF InQueues
    <3>2. CASE m # n
      <4>1. Held(m)' = Held(m)
        BY <1>0, <1>1, <1>2, <2>1, <3>2 DEF Held
      <4>2. PutsLeft(m)' = PutsLeft(m)
        BY <1>0, <1>1, <1>2, <2>1, <3>2 DEF PutsLeft
      <4> QED
        BY <3>1, <3>2, <4>1, <4>2 DEF References
    <3>3. CASE m = n
      <4> DEFINE New1 == {p} \X (1 .. k)
      <4>1. Held(m)' = Held(m) \ {p} /\ p \in Held(m)
        BY <1>0, <1>1, <1>2, <2>1, <3>3 DEF Held
      <4>2. PutsLeft(m)' = PutsLeft(m) \cup New1 /\ PutsLeft(m) \cap New1 = {}
        <5>1. ASSUME NEW r \in Producers \X (1 .. MaxSubscriptions + 1)
              PROVE  r \in PutsLeft(m)' <=> r \in PutsLeft(m) \/ r \in New1
          <6>1. r[1] \in Producers /\ r[2] \in 1 .. MaxSubscriptions + 1 /\ r = <<r[1], r[2]>>
            OBVIOUS
          <6>2. CASE r[1] = p
            BY <1>1, <1>2, <2>1, <2>2, <3>3, <6>1, <6>2 DEF PutsLeft
          <6>3. CASE r[1] # p
            BY <1>1, <1>2, <2>1, <6>1, <6>3 DEF PutsLeft
          <6> QED
            BY <6>2, <6>3
        <5>2. New1 \subseteq Producers \X (1 .. MaxSubscriptions + 1)
          BY <2>2, BusAssumption
        <5>3. PutsLeft(m) \cap New1 = {}
          BY <1>2 DEF PutsLeft
        <5>4. /\ PutsLeft(m) \subseteq Producers \X (1 .. MaxSubscriptions + 1)
              /\ PutsLeft(m)' \subseteq Producers \X (1 .. MaxSubscriptions + 1)
          BY DEF PutsLeft
        <5> HIDE DEF New1
        <5> QED
          BY <5>1, <5>2, <5>3, <5>4
      <4>3. IsFiniteSet(New1) /\ Cardinality(New1) = k
        <5> DEFINE P == {p}
                   I == 1 .. k
        <5>1. IsFiniteSet(P) /\ Cardinality(P) = 1
          BY FS_Singleton
        <5>2. IsFiniteSet(I) /\ Cardinality(I) = k
          BY <2>2, FS_Interval
        <5> HIDE DEF P, I
        <5>3. IsFiniteSet(P \X I) /\ Cardinality(P \X I) = Cardinality(P) * Cardinality(I)
          BY <5>1, <5>2, FS_Product
        <5> QED
          BY <2>2, <5>1, <5>2, <5>3 DEF P, I
      <4> HIDE DEF New1
      <4>4. Cardinality(PutsLeft(m)') = Cardinality(PutsLeft(m)) + k
        <5> DEFINE S == PutsLeft(m)
        <5>1. IsFiniteSet(S) /\ Cardinality(S) \in Nat
          BY FiniteReferences
        <5>2. Cardinality(S \cap New1) = 0
          BY <4>2, FS_EmptySet
        <5> HIDE DEF S
        <5>3. Cardinality(S \cup New1) = Cardinality(S) + Cardinality(New1) - Cardinality(S \cap New1)
          BY <4>3, <5>1, FS_Union
        <5> QED
          BY <2>2, <4>2, <4>3, <5>1, <5>2, <5>3 DEF S
      <4>5. Cardinality(Held(m)') = Cardinality(Held(m)) - 1
        BY <4>1, FiniteReferences, FS_RemoveElement
      <4> HIDE DEF k
      <4> QED
        BY <2>2, <3>1, <3>3, <4>4, <4>5, FiniteReferences DEF References
    <3> QED
      BY <3>2, <3>3
  <2>6. Counts'
    BY <2>3, <2>5 DEF IInv, Counts
  <2>7. References(n) > 0
    BY <1>0, <1>1, HolderCounts
  <2>8. \A t \in Threads : Frees(t)' => Frees(t) /\ pc'[t] = pc[t] /\ arg'[t] = arg[t]
    BY <1>0, <1>1, <1>2, <2>1 DEF Frees
  <2>9. Intact'
    BY <1>1, <2>3, <2>5, <2>7, <2>8, IntactStays
  <2> QED
    BY <1>1, <2>4, <2>6, <2>9, IndexStays DEF IInv
<1> QED
  BY <1>3, <1>4

\* A message put on one queue only: the reference becomes a put.
LEMMA PutDirectlyKeeps ==
  ASSUME IInv, NEW p \in Producers, NEW q \in Queues, PutDirectly(p, q) PROVE IInv'
<1> USE DEF GoTo
<1> DEFINE n == arg[p]
<1>0. p \in Threads
  BY DEF Threads
<1>1. /\ pc[p] = "allocated" /\ pc' = [pc EXCEPT ![p] = "put"]
      /\ dest' = [dest EXCEPT ![p] = <<q>>]
      /\ phase' = phase /\ elems' = elems /\ subscriptions' = subscriptions /\ queue' = queue
      /\ header' = header /\ allocated' = allocated /\ attached' = attached /\ arg' = arg
  BY DEF PutDirectly, busVars, msgVars
<1>2. /\ pc \in [Threads -> Labels] /\ arg \in [Threads -> Messages \cup {NoMessage}]
      /\ dest \in [Producers -> Seq(Queues)]
      /\ n \in Messages /\ dest[p] = <<>>
  BY <1>0, <1>1, BusAssumption DEF IInv, Types
<1>3. <<q>> \in Seq(Queues) /\ <<q>> # <<>> /\ Len(<<q>>) = 1
  OBVIOUS
<1>4. Types'
  <2>1. pc' \in [Threads -> Labels] /\ dest' \in [Producers -> Seq(Queues)]
    BY <1>1, <1>2, <1>3 DEF Labels
  <2>2. ASSUME NEW u \in Producers
        PROVE  /\ pc'[u] = "put" <=> dest'[u] # <<>>
               /\ Len(dest'[u]) <= MaxSubscriptions + 1
               /\ pc'[u] = "allocated" => header'[arg'[u]].uid \in Uids
    <3>1. u \in Threads
      BY DEF Threads
    <3>2. CASE u = p
      BY <1>0, <1>1, <1>2, <1>3, <3>2, BusAssumption
    <3>3. CASE u # p
      BY <1>1, <1>2, <3>1, <3>3 DEF IInv, Types
    <3> QED
      BY <3>2, <3>3
  <2>3. \A t \in Threads : pc'[t] = "idle" <=> arg'[t] = NoMessage
    BY <1>0, <1>1, <1>2 DEF IInv, Types
  <2> QED
    BY <1>1, <2>1, <2>2, <2>3 DEF IInv, Types
<1>5. ASSUME NEW m \in Messages PROVE References(m)' = References(m)
  <2>1. InQueues(m)' = InQueues(m)
    BY <1>1 DEF InQueues
  <2>2. CASE m # n
    <3>1. Held(m)' = Held(m) /\ PutsLeft(m)' = PutsLeft(m)
      BY <1>0, <1>1, <1>2, <2>2 DEF Held, PutsLeft
    <3> QED
      BY <2>1, <3>1 DEF References
  <2>3. CASE m = n
    <3>1. Held(m)' = Held(m) \ {p} /\ p \in Held(m)
      BY <1>0, <1>1, <1>2, <2>3 DEF Held
    <3>2. PutsLeft(m)' = PutsLeft(m) \cup {<<p, 1>>} /\ <<p, 1>> \notin PutsLeft(m)
      <4>1. ASSUME NEW r \in Producers \X (1 .. MaxSubscriptions + 1)
            PROVE  r \in PutsLeft(m)' <=> r \in PutsLeft(m) \/ r = <<p, 1>>
        <5>1. r[1] \in Producers /\ r[2] \in 1 .. MaxSubscriptions + 1 /\ r = <<r[1], r[2]>>
          OBVIOUS
        <5>2. CASE r[1] = p
          BY <1>1, <1>2, <1>3, <2>3, <5>1, <5>2, BusAssumption DEF PutsLeft
        <5>3. CASE r[1] # p
          BY <1>1, <1>2, <5>1, <5>3 DEF PutsLeft
        <5> QED
          BY <5>2, <5>3
      <4>2. <<p, 1>> \in Producers \X (1 .. MaxSubscriptions + 1)
        BY BusAssumption
      <4>3. <<p, 1>> \notin PutsLeft(m)
        BY <1>2 DEF PutsLeft
      <4>4. /\ PutsLeft(m) \subseteq Producers \X (1 .. MaxSubscriptions + 1)
            /\ PutsLeft(m)' \subseteq Producers \X (1 .. MaxSubscriptions + 1)
        BY DEF PutsLeft
      <4> QED
        BY <4>1, <4>2, <4>3, <4>4
    <3>3. Cardinality(PutsLeft(m)') = Cardinality(PutsLeft(m)) + 1
      BY <3>2, FiniteReferences, FS_AddElement
    <3>4. Cardinality(Held(m)') = Cardinality(Held(m)) - 1
      BY <3>1, FiniteReferences, FS_RemoveElement
    <3> QED
      BY <2>1, <3>3, <3>4, FiniteReferences DEF References
  <2> QED
    BY <2>2, <2>3
<1>6. Counts'
  BY <1>1, <1>5 DEF IInv, Counts
<1>7. \A t \in Threads : Frees(t)' => Frees(t) /\ pc'[t] = pc[t] /\ arg'[t] = arg[t]
  BY <1>0, <1>1, <1>2 DEF Frees
<1>8. Intact'
  BY <1>1, <1>5, <1>7, IntactStays
<1> QED
  BY <1>1, <1>4, <1>6, <1>8, IndexStays DEF IInv

\* A put moves a reference from the producer to the end of a queue.
LEMMA PutKeeps == ASSUME IInv, NEW p \in Producers, ml_queue_put(p) PROVE IInv'
<1> USE DEF GoTo
<1> DEFINE n == arg[p]
           q == Head(dest[p])
           k == Len(dest[p])
           l == Len(queue[q])
<1>0. p \in Threads
  BY DEF Threads
<1>1. /\ pc[p] = "put" /\ l < Capacity
      /\ queue' = [queue EXCEPT ![q] = Append(@, n)]
      /\ dest' = [dest EXCEPT ![p] = Tail(@)]
      /\ k = 1 => pc' = [pc EXCEPT ![p] = "idle"] /\ arg' = [arg EXCEPT ![p] = NoMessage]
      /\ k # 1 => pc' = pc /\ arg' = arg
      /\ phase' = phase /\ elems' = elems /\ subscriptions' = subscriptions
      /\ header' = header /\ allocated' = allocated /\ attached' = attached
  BY DEF ml_queue_put, busVars, msgVars
<1>2. /\ pc \in [Threads -> Labels] /\ arg \in [Threads -> Messages \cup {NoMessage}]
      /\ dest \in [Producers -> Seq(Queues)] /\ queue \in [Queues -> Seq(Messages)]
      /\ n \in Messages /\ dest[p] # <<>> /\ k <= MaxSubscriptions + 1
  BY <1>0, <1>1, BusAssumption DEF IInv, Types
<1>3. /\ q \in Queues /\ k \in Nat \ {0} /\ l \in Nat
      /\ Tail(dest[p]) \in Seq(Queues) /\ Len(Tail(dest[p])) = k - 1
      /\ Tail(dest[p]) = <<>> <=> k = 1
      /\ Append(queue[q], n) \in Seq(Messages) /\ Len(Append(queue[q], n)) = l + 1
      /\ Append(queue[q], n)[l + 1] = n
      /\ \A j \in 1 .. l : Append(queue[q], n)[j] = queue[q][j]
  <2>1. dest[p] \in Seq(Queues) /\ dest[p] # <<>>
    BY <1>2
  <2>2. q \in Queues /\ k \in Nat \ {0} /\ Tail(dest[p]) \in Seq(Queues) /\ Len(Tail(dest[p])) = k - 1
    BY <2>1
  <2>3. Tail(dest[p]) = <<>> <=> k = 1
    <3>1. Tail(dest[p]) = <<>> <=> Len(Tail(dest[p])) = 0
      BY <2>2, EmptySeq
    <3> QED
      BY <2>2, <3>1
  <2>4. queue[q] \in Seq(Messages)
    BY <1>2, <2>2
  <2> HIDE DEF q
  <2> QED
    BY <1>2, <2>2, <2>3, <2>4, SMTT(30)
<1> HIDE DEF q, k, l
<1>4. /\ \A u \in Threads : u # p => pc'[u] = pc[u] /\ arg'[u] = arg[u]
      /\ k = 1 => pc'[p] = "idle" /\ arg'[p] = NoMessage
      /\ k # 1 => pc'[p] = "put" /\ arg'[p] = n
      /\ pc' \in [Threads -> Labels] /\ arg' \in [Threads -> Messages \cup {NoMessage}]
  BY <1>0, <1>1, <1>2 DEF Labels
<1>5. /\ \A u \in Producers : u # p => dest'[u] = dest[u]
      /\ dest'[p] = Tail(dest[p]) /\ dest' \in [Producers -> Seq(Queues)]
      /\ \A u \in Queues : u # q => queue'[u] = queue[u]
      /\ queue'[q] = Append(queue[q], n) /\ queue' \in [Queues -> Seq(Messages)]
  BY <1>1, <1>2, <1>3
<1>11. /\ Len(queue[q]) = l /\ Len(queue'[q]) = l + 1 /\ queue'[q][l + 1] = n
       /\ \A j \in 1 .. l : queue'[q][j] = queue[q][j]
       /\ Len(dest[p]) = k /\ Len(dest'[p]) = k - 1
  BY <1>3, <1>5 DEF l, k
<1>6. Types'
  <2>1. \A u \in Queues : Len(queue'[u]) <= Capacity
    BY <1>1, <1>3, <1>5, BusAssumption DEF IInv, Types
  <2>2. ASSUME NEW u \in Producers
        PROVE  /\ pc'[u] = "put" <=> dest'[u] # <<>>
               /\ Len(dest'[u]) <= MaxSubscriptions + 1
               /\ pc'[u] = "allocated" => header'[arg'[u]].uid \in Uids
    <3>1. u \in Threads
      BY DEF Threads
    <3>2. CASE u = p
      BY <1>2, <1>3, <1>4, <1>5, <3>2, BusAssumption, SMTT(30)
    <3>3. CASE u # p
      BY <1>1, <1>4, <1>5, <3>1, <3>3 DEF IInv, Types
    <3> QED
      BY <3>2, <3>3
  <2>3. \A t \in Threads : pc'[t] = "idle" <=> arg'[t] = NoMessage
    BY <1>0, <1>2, <1>4, BusAssumption DEF IInv, Types
  <2> QED
    BY <1>1, <1>4, <1>5, <2>1, <2>2, <2>3 DEF IInv, Types
<1>7. ASSUME NEW m \in Messages PROVE References(m)' = References(m)
  <2>1. Held(m)' = Held(m)
    <3>1. ASSUME NEW t \in Threads PROVE t \in Held(m)' <=> t \in Held(m)
      <4>1. CASE t = p
        BY <1>1, <1>4, <4>1 DEF Held
      <4>2. CASE t # p
        BY <1>4, <4>2 DEF Held
      <4> QED
        BY <4>1, <4>2
    <3> QED
      BY <3>1 DEF Held
  <2>2. CASE m # n
    <3>1. InQueues(m)' = InQueues(m)
      <4>1. ASSUME NEW r \in Queues \X (1 .. Capacity)
            PROVE  r \in InQueues(m)' <=> r \in InQueues(m)
        <5>1. r[1] \in Queues /\ r[2] \in 1 .. Capacity
          OBVIOUS
        <5>2. CASE r[1] # q
          BY <1>5, <5>1, <5>2 DEF InQueues
        <5>3. CASE r[1] = q
          <6>1. r[2] \in 1 .. l \/ r[2] = l + 1 \/ r[2] > l + 1
            BY <1>3, <5>1, BusAssumption
          <6>2. r[2] <= Len(queue'[q]) /\ queue'[q][r[2]] = m
                  <=> r[2] <= Len(queue[q]) /\ queue[q][r[2]] = m
            BY <1>3, <1>11, <2>2, <5>1, <6>1, BusAssumption
          <6> QED
            BY <5>3, <6>2 DEF InQueues
        <5> QED
          BY <5>2, <5>3
      <4> QED
        BY <4>1 DEF InQueues
    <3>2. PutsLeft(m)' = PutsLeft(m)
      <4>1. ASSUME NEW r \in Producers \X (1 .. MaxSubscriptions + 1)
            PROVE  r \in PutsLeft(m)' <=> r \in PutsLeft(m)
        <5>1. r[1] \in Producers /\ r[1] \in Threads
          BY DEF Threads
        <5>2. CASE r[1] # p
          BY <1>4, <1>5, <5>1, <5>2 DEF PutsLeft
        <5>3. CASE r[1] = p
          BY <1>4, <2>2, <5>1, <5>3, BusAssumption DEF PutsLeft
        <5> QED
          BY <5>2, <5>3
      <4> QED
        BY <4>1 DEF PutsLeft
    <3> QED
      BY <2>1, <3>1, <3>2 DEF References
  <2>3. CASE m = n
    <3>1. InQueues(m)' = InQueues(m) \cup {<<q, l + 1>>} /\ <<q, l + 1>> \notin InQueues(m)
      <4>1. ASSUME NEW r \in Queues \X (1 .. Capacity)
            PROVE  r \in InQueues(m)' <=> r \in InQueues(m) \/ r = <<q, l + 1>>
        <5>1. r[1] \in Queues /\ r[2] \in 1 .. Capacity /\ r = <<r[1], r[2]>>
          OBVIOUS
        <5>2. CASE r[1] # q
          BY <1>5, <5>1, <5>2 DEF InQueues
        <5>3. CASE r[1] = q
          <6>1. r[2] \in 1 .. l \/ r[2] = l + 1 \/ r[2] > l + 1
            BY <1>3, <5>1, BusAssumption
          <6>2. CASE r[2] \in 1 .. l
            <7>1. /\ r[2] <= Len(queue'[q]) /\ queue'[q][r[2]] = m
                      <=> r[2] <= Len(queue[q]) /\ queue[q][r[2]] = m
                  /\ r[2] # l + 1
              BY <1>3, <1>11, <5>1, <6>2, BusAssumption
            <7> QED
              BY <5>1, <5>3, <7>1 DEF InQueues
          <6>3. CASE r[2] = l + 1
            <7>1. r[2] <= Len(queue'[q]) /\ queue'[q][r[2]] = m
              BY <1>3, <1>11, <2>3, <5>1, <6>3, BusAssumption
            <7> QED
              BY <5>1, <5>3, <6>3, <7>1 DEF InQueues
          <6>4. CASE r[2] > l + 1
            <7>1. ~(r[2] <= Len(queue'[q])) /\ ~(r[2] <= Len(queue[q])) /\ r[2] # l + 1
              BY <1>3, <1>11, <5>1, <6>4, BusAssumption
            <7> QED
              BY <5>1, <5>3, <7>1 DEF InQueues
          <6> QED
            BY <6>1, <6>2, <6>3, <6>4
        <5> QED
          BY <5>2, <5>3
      <4>2. <<q, l + 1>> \in Queues \X (1 .. Capacity)
        BY <1>1, <1>3, BusAssumption
      <4>3. <<q, l + 1>> \notin InQueues(m)
        BY <1>3 DEF InQueues, l
      <4>4. /\ InQueues(m) \subseteq Queues \X (1 .. Capacity)
            /\ InQueues(m)' \subseteq Queues \X (1 .. Capacity)
        BY DEF InQueues
      <4> QED
        BY <4>1, <4>2, <4>3, <4>4
    <3>2. PutsLeft(m)' = PutsLeft(m) \ {<<p, k>>} /\ <<p, k>> \in PutsLeft(m)
      <4>1. ASSUME NEW r \in Producers \X (1 .. MaxSubscriptions + 1)
            PROVE  r \in PutsLeft(m)' <=> r \in PutsLeft(m) /\ r # <<p, k>>
        <5>1. /\ r[1] \in Producers /\ r[1] \in Threads
              /\ r[2] \in 1 .. MaxSubscriptions + 1 /\ r = <<r[1], r[2]>>
          BY DEF Threads
        <5>2. CASE r[1] # p
          BY <1>4, <1>5, <5>1, <5>2 DEF PutsLeft
        <5>3. CASE r[1] = p
          <6>1. CASE k = 1
            <7>1. ~(r[2] <= Len(dest'[p])) /\ (r[2] <= Len(dest[p]) => r[2] = k)
              BY <1>3, <1>11, <5>1, <6>1, BusAssumption
            <7> QED
              BY <5>1, <5>3, <7>1 DEF PutsLeft
          <6>2. CASE k # 1
            <7>1. r[2] <= Len(dest'[p]) <=> r[2] <= Len(dest[p]) /\ r[2] # k
              BY <1>3, <1>11, <5>1, BusAssumption
            <7> QED
              BY <1>4, <2>3, <5>1, <5>3, <6>2, <7>1 DEF PutsLeft
          <6> QED
            BY <6>1, <6>2
        <5> QED
          BY <5>2, <5>3
      <4>2. <<p, k>> \in PutsLeft(m)
        BY <1>2, <1>3, <2>3, BusAssumption, SMTT(30) DEF PutsLeft, k
      <4>3. /\ PutsLeft(m) \subseteq Producers \X (1 .. MaxSubscriptions + 1)
            /\ PutsLeft(m)' \subseteq Producers \X (1 .. MaxSubscriptions + 1)
        BY DEF PutsLeft
      <4> QED
        BY <4>1, <4>2, <4>3
    <3>3. Cardinality(InQueues(m)') = Cardinality(InQueues(m)) + 1
      BY <3>1, FiniteReferences, FS_AddElement
    <3>4. Cardinality(PutsLeft(m)') = Cardinality(PutsLeft(m)) - 1
      BY <3>2, FiniteReferences, FS_RemoveElement
    <3> QED
      BY <2>1, <3>3, <3>4, FiniteReferences DEF References
  <2> QED
    BY <2>2, <2>3
<1>8. Counts'
  BY <1>1, <1>7 DEF IInv, Counts
<1>9. \A t \in Threads : Frees(t)' => Frees(t) /\ pc'[t] = pc[t] /\ arg'[t] = arg[t]
  BY <1>0, <1>1, <1>4 DEF Frees
<1>10. Intact'
  BY <1>1, <1>7, <1>9, IntactStays
<1> QED
  BY <1>1, <1>6, <1>8, <1>10, IndexStays DEF IInv

\* A get takes one message out of the queue; the others only move up.
LEMMA OneLessInQueues ==
  ASSUME NEW q \in Queues, queue \in [Queues -> Seq(Messages)], queue[q] # <<>>,
         queue' = [queue EXCEPT ![q] = Tail(@)], NEW m,
         \A u \in Queues : Len(queue[u]) <= Capacity
  PROVE  Cardinality(InQueues(m)') =
           IF Head(queue[q]) = m THEN Cardinality(InQueues(m)) - 1 ELSE Cardinality(InQueues(m))
<1> DEFINE l == Len(queue[q])
           first == <<q, 1>>
           A == InQueues(m) \ {first}
           B == InQueues(m)'
           f == [r \in A |-> IF r[1] = q THEN <<q, r[2] - 1>> ELSE r]
<1>1. /\ l \in Nat \ {0} /\ l <= Capacity /\ Head(queue[q]) = queue[q][1]
      /\ Len(queue'[q]) = l - 1
      /\ \A j \in 1 .. l - 1 : queue'[q][j] = queue[q][j + 1]
      /\ \A u \in Queues : u # q => queue'[u] = queue[u]
  <2>1. queue[q] \in Seq(Messages)
    OBVIOUS
  <2>2. queue'[q] = Tail(queue[q])
    OBVIOUS
  <2> QED
    BY <2>1, <2>2
<1>2. Capacity \in Nat /\ Len(queue[q]) = l
  BY BusAssumption
<1> HIDE DEF l
<1>3. /\ \A r \in A : /\ r[1] \in Queues /\ r[2] \in 1 .. Capacity /\ r = <<r[1], r[2]>>
                      /\ r[2] <= Len(queue[r[1]]) /\ queue[r[1]][r[2]] = m
                      /\ r[1] = q => r[2] # 1
      /\ \A r \in B : /\ r[1] \in Queues /\ r[2] \in 1 .. Capacity /\ r = <<r[1], r[2]>>
                      /\ r[2] <= Len(queue'[r[1]]) /\ queue'[r[1]][r[2]] = m
  BY DEF InQueues
<1>4. \A u \in Queues, j \in 1 .. Capacity :
        /\ <<u, j>> \in B <=> j <= Len(queue'[u]) /\ queue'[u][j] = m
        /\ <<u, j>> \in A <=> j <= Len(queue[u]) /\ queue[u][j] = m /\ ~(u = q /\ j = 1)
  BY DEF InQueues
<1> HIDE DEF A, B
<1>5. ASSUME NEW r \in A PROVE f[r] \in B
  <2>1. CASE r[1] = q
    <3>1. /\ r[2] - 1 \in 1 .. Capacity /\ r[2] - 1 <= Len(queue'[q])
          /\ queue'[q][r[2] - 1] = m
      <4>1. r[2] - 1 \in 1 .. l - 1 /\ r[2] - 1 \in 1 .. Capacity
        BY <1>1, <1>2, <1>3, <2>1
      <4>2. queue'[q][r[2] - 1] = queue[q][(r[2] - 1) + 1]
        BY <1>1, <4>1
      <4> QED
        BY <1>1, <1>3, <2>1, <4>1, <4>2
    <3> QED
      BY <1>4, <2>1, <3>1
  <2>2. CASE r[1] # q
    <3>1. f[r] = r /\ r = <<r[1], r[2]>> /\ r[1] \in Queues /\ r[2] \in 1 .. Capacity
      BY <1>3, <2>2
    <3>2. r[2] <= Len(queue'[r[1]]) /\ queue'[r[1]][r[2]] = m
      BY <1>1, <1>3, <2>2
    <3> HIDE DEF f
    <3> QED
      BY <1>4, <3>1, <3>2
  <2> QED
    BY <2>1, <2>2
<1>6. ASSUME NEW r \in A, NEW s \in A, f[r] = f[s] PROVE r = s
  <2>0. /\ f[r] = IF r[1] = q THEN <<q, r[2] - 1>> ELSE r
        /\ f[s] = IF s[1] = q THEN <<q, s[2] - 1>> ELSE s
    OBVIOUS
  <2>1. /\ r = <<r[1], r[2]>> /\ r[2] \in Nat
        /\ s = <<s[1], s[2]>> /\ s[2] \in Nat
    BY <1>2, <1>3
  <2>2. CASE r[1] = q /\ s[1] = q
    BY <1>6, <2>0, <2>1, <2>2
  <2>3. CASE r[1] = q /\ s[1] # q
    BY <1>6, <2>0, <2>1, <2>3
  <2>4. CASE r[1] # q /\ s[1] = q
    BY <1>6, <2>0, <2>1, <2>4
  <2>5. CASE r[1] # q /\ s[1] # q
    BY <1>6, <2>0, <2>5
  <2> QED
    BY <2>2, <2>3, <2>4, <2>5
<1>7. ASSUME NEW s \in B PROVE \E r \in A : f[r] = s
  <2>1. CASE s[1] = q
    <3> DEFINE r == <<q, s[2] + 1>>
    <3>1. s[2] + 1 \in 1 .. Capacity /\ s[2] + 1 <= Len(queue[q]) /\ queue[q][s[2] + 1] = m /\ s[2] + 1 # 1
      BY <1>1, <1>2, <1>3, <2>1
    <3>2. r \in A
      BY <1>4, <3>1
    <3>3. f[r] = <<q, (s[2] + 1) - 1>>
      BY <3>2
    <3>4. (s[2] + 1) - 1 = s[2] /\ s = <<q, s[2]>>
      BY <1>2, <1>3, <2>1
    <3> QED
      BY <3>2, <3>3, <3>4
  <2>2. CASE s[1] # q
    <3>1. s = <<s[1], s[2]>> /\ s[1] \in Queues /\ s[2] \in 1 .. Capacity
      BY <1>3
    <3>2. s[2] <= Len(queue[s[1]]) /\ queue[s[1]][s[2]] = m
      BY <1>1, <1>3, <2>2
    <3>3. s \in A
      BY <1>4, <2>2, <3>1, <3>2
    <3>4. f[s] = s
      BY <2>2, <3>3
    <3> QED
      BY <3>3, <3>4
  <2> QED
    BY <2>1, <2>2
<1>8. f \in Bijection(A, B)
  <2>1. f \in [A -> B]
    BY <1>5
  <2> HIDE DEF f
  <2> QED
    BY <1>6, <1>7, <2>1 DEF Bijection, Injection, Surjection, IsInjective
<1>9. /\ IsFiniteSet(A)
      /\ Cardinality(A) = IF first \in InQueues(m) THEN Cardinality(InQueues(m)) - 1
                                                   ELSE Cardinality(InQueues(m))
  BY FiniteReferences, FS_RemoveElement DEF A
<1>10. Cardinality(B) = Cardinality(A)
  BY <1>8, <1>9, FS_Bijection DEF ExistsBijection
<1>11. first \in InQueues(m) <=> Head(queue[q]) = m
  BY <1>1, <1>2, BusAssumption DEF InQueues
<1> QED
  BY <1>9, <1>10, <1>11 DEF B

\* A get moves a reference from the queue to its reader.
LEMMA GetKeeps == ASSUME IInv, NEW q \in Queues, ml_queue_get(q) PROVE IInv'
<1> USE DEF GoTo
<1> DEFINE n == Head(queue[q])
<1>0. q \in Threads
  BY DEF Threads
<1>1. /\ pc[q] = "idle" /\ queue[q] # <<>>
      /\ arg' = [arg EXCEPT ![q] = n]
      /\ queue' = [queue EXCEPT ![q] = Tail(@)]
      /\ pc' = [pc EXCEPT ![q] = "free"]
      /\ phase' = phase /\ elems' = elems /\ subscriptions' = subscriptions
      /\ header' = header /\ allocated' = allocated /\ attached' = attached /\ dest' = dest
  BY DEF ml_queue_get, busVars, msgVars
<1>2. /\ pc \in [Threads -> Labels] /\ arg \in [Threads -> Messages \cup {NoMessage}]
      /\ queue \in [Queues -> Seq(Messages)] /\ arg[q] = NoMessage
      /\ \A u \in Queues : Len(queue[u]) <= Capacity
  BY <1>0, <1>1 DEF IInv, Types
<1>3. /\ n \in Messages /\ Tail(queue[q]) \in Seq(Messages)
      /\ Len(Tail(queue[q])) = Len(queue[q]) - 1 /\ Len(queue[q]) \in Nat
  <2>1. queue[q] \in Seq(Messages)
    BY <1>2
  <2> QED
    BY <1>1, <2>1
<1>4. \A p \in Producers : p # q /\ p \in Threads
  BY BusAssumption DEF Threads
<1> HIDE DEF n
<1>5. Types'
  <2>1. queue' \in [Queues -> Seq(Messages)] /\ \A u \in Queues : Len(queue'[u]) <= Capacity
    BY <1>1, <1>2, <1>3, BusAssumption
  <2>2. \A p \in Producers : pc'[p] = pc[p] /\ arg'[p] = arg[p]
    BY <1>1, <1>2, <1>4
  <2>3. pc' \in [Threads -> Labels] /\ arg' \in [Threads -> Messages \cup {NoMessage}]
    BY <1>1, <1>2, <1>3 DEF Labels
  <2>4. \A t \in Threads : pc'[t] = "idle" <=> arg'[t] = NoMessage
    BY <1>0, <1>1, <1>2, <1>3, BusAssumption DEF IInv, Types
  <2> QED
    BY <1>1, <2>1, <2>2, <2>3, <2>4 DEF IInv, Types
<1>6. ASSUME NEW m \in Messages PROVE References(m)' = References(m)
  <2>1. PutsLeft(m)' = PutsLeft(m)
    BY <1>1, <1>2, <1>4 DEF PutsLeft
  <2>2. Cardinality(InQueues(m)') = IF n = m THEN Cardinality(InQueues(m)) - 1
                                             ELSE Cardinality(InQueues(m))
    BY <1>1, <1>2, OneLessInQueues DEF n
  <2>3. CASE m # n
    <3>1. Held(m)' = Held(m)
      BY <1>0, <1>1, <1>2, <2>3 DEF Held
    <3> QED
      BY <2>1, <2>2, <2>3, <3>1 DEF References
  <2>4. CASE m = n
    <3>1. Held(m)' = Held(m) \cup {q} /\ q \notin Held(m)
      BY <1>0, <1>1, <1>2, <2>4 DEF Held
    <3>2. Cardinality(Held(m)') = Cardinality(Held(m)) + 1
      BY <3>1, FiniteReferences, FS_AddElement
    <3> QED
      BY <2>1, <2>2, <2>4, <3>2, FiniteReferences DEF References
  <2> QED
    BY <2>3, <2>4
<1>7. Counts'
  BY <1>1, <1>6 DEF IInv, Counts
<1>8. \A t \in Threads : Frees(t)' => Frees(t) /\ pc'[t] = pc[t] /\ arg'[t] = arg[t]
  BY <1>0, <1>1, <1>2 DEF Frees
<1>9. Intact'
  BY <1>1, <1>6, <1>8, IntactStays
<1> QED
  BY <1>1, <1>5, <1>7, <1>9, IndexStays DEF IInv

\* ml_message_free() gives up a reference; whoever gives up the last one goes on
\* to take the message down, and nobody else does.
LEMMA FreeKeeps == ASSUME IInv, NEW t \in Threads, ml_message_free(t) PROVE IInv'
<1> USE DEF GoTo
<1> DEFINE n == arg[t]
           last == header[n].count = 1
<1>1. /\ pc[t] = "free" /\ header' = [header EXCEPT ![n].count = @ - 1]
      /\ last => pc' = [pc EXCEPT ![t] = "on_free"] /\ arg' = arg
      /\ ~last => pc' = [pc EXCEPT ![t] = "idle"] /\ arg' = [arg EXCEPT ![t] = NoMessage]
      /\ phase' = phase /\ elems' = elems /\ subscriptions' = subscriptions /\ queue' = queue
      /\ allocated' = allocated /\ attached' = attached /\ dest' = dest
  BY DEF ml_message_free, busVars
<1>2. /\ pc \in [Threads -> Labels] /\ arg \in [Threads -> Messages \cup {NoMessage}]
      /\ header \in [Messages -> Headers] /\ n \in Messages
      /\ t \in Producers => dest[t] = <<>>
  BY <1>1, BusAssumption DEF IInv, Types, Headers
<1>3. References(n) > 0 /\ References(n) \in Nat /\ header[n].count = References(n)
  BY <1>1, <1>2, HolderCounts, FiniteReferences DEF IInv, Counts
<1>4. /\ header' \in [Messages -> Headers]
      /\ \A m \in Messages : /\ header'[m].uid = header[m].uid
                             /\ header'[m].on_free = header[m].on_free
                             /\ header'[m].count = IF m = n THEN header[n].count - 1
                                                            ELSE header[m].count
  <2> DEFINE v == header[n].count - 1
  <2>1. v \in Int
    BY <1>3
  <2>2. header' = [header EXCEPT ![n].count = v]
    BY <1>1
  <2> HIDE DEF v
  <2>3. /\ header' \in [Messages -> Headers]
        /\ \A m \in Messages : /\ header'[m].uid = header[m].uid
                               /\ header'[m].on_free = header[m].on_free
                               /\ header'[m].count = IF m = n THEN v ELSE header[m].count
    BY <1>2, <2>1, <2>2, NewCount, ZenonT(30)
  <2> QED
    BY <2>3 DEF v
<1> HIDE DEF last
<1>5. /\ \A u \in Threads : u # t => pc'[u] = pc[u] /\ arg'[u] = arg[u]
      /\ last => pc'[t] = "on_free" /\ arg'[t] = n
      /\ ~last => pc'[t] = "idle" /\ arg'[t] = NoMessage
      /\ pc' \in [Threads -> Labels] /\ arg' \in [Threads -> Messages \cup {NoMessage}]
  BY <1>1, <1>2 DEF Labels
<1>6. Types'
  <2>1. ASSUME NEW u \in Producers
        PROVE  /\ pc'[u] = "put" <=> dest'[u] # <<>>
               /\ Len(dest'[u]) <= MaxSubscriptions + 1
               /\ pc'[u] = "allocated" => header'[arg'[u]].uid \in Uids
    <3>1. u \in Threads
      BY DEF Threads
    <3>2. CASE u = t
      BY <1>1, <1>2, <1>5, <3>2 DEF IInv, Types
    <3>3. CASE u # t
      <4>1. pc'[u] = pc[u] /\ dest'[u] = dest[u] /\ arg'[u] = arg[u]
        BY <1>1, <1>5, <3>1, <3>3
      <4>2. pc[u] = "allocated" => arg[u] \in Messages
        BY <1>2, <3>1 DEF IInv, Types
      <4> QED
        BY <1>4, <4>1, <4>2, ZenonT(30) DEF IInv, Types
    <3> QED
      BY <3>2, <3>3
  <2>2. \A u \in Threads : pc'[u] = "idle" <=> arg'[u] = NoMessage
    BY <1>2, <1>5, BusAssumption DEF IInv, Types
  <2> QED
    BY <1>1, <1>4, <1>5, <2>1, <2>2 DEF IInv, Types, Headers
<1>7. ASSUME NEW m \in Messages
      PROVE  References(m)' = IF m = n THEN References(m) - 1 ELSE References(m)
  <2>1. InQueues(m)' = InQueues(m)
    BY <1>1 DEF InQueues
  <2>2. PutsLeft(m)' = PutsLeft(m)
    <3>1. ASSUME NEW r \in Producers \X (1 .. MaxSubscriptions + 1)
          PROVE  r \in PutsLeft(m)' <=> r \in PutsLeft(m)
      <4>1. r[1] \in Producers /\ r[1] \in Threads /\ r[2] \in 1 .. MaxSubscriptions + 1
        BY DEF Threads
      <4>2. CASE r[1] = t
        <5>1. Len(dest[t]) = 0 /\ ~(r[2] <= 0)
          BY <1>2, <4>1, <4>2
        <5> QED
          BY <1>1, <4>2, <5>1 DEF PutsLeft
      <4>3. CASE r[1] # t
        BY <1>1, <1>5, <4>1, <4>3 DEF PutsLeft
      <4> QED
        BY <4>2, <4>3
    <3> QED
      BY <3>1 DEF PutsLeft
  <2>3. CASE m # n
    <3>1. Held(m)' = Held(m)
      <4>1. ASSUME NEW u \in Threads PROVE u \in Held(m)' <=> u \in Held(m)
        BY <1>2, <1>5, <2>3, BusAssumption DEF Held
      <4> QED
        BY <4>1 DEF Held
    <3> QED
      BY <2>1, <2>2, <2>3, <3>1 DEF References
  <2>4. CASE m = n
    <3>1. Held(m)' = Held(m) \ {t} /\ t \in Held(m)
      <4>1. ASSUME NEW u \in Threads PROVE u \in Held(m)' <=> u \in Held(m) /\ u # t
        BY <1>2, <1>5, <2>4, BusAssumption DEF Held
      <4>2. t \in Held(m)
        BY <1>1, <2>4 DEF Held
      <4> QED
        BY <4>1, <4>2 DEF Held
    <3>2. Cardinality(Held(m)') = Cardinality(Held(m)) - 1
      BY <3>1, FiniteReferences, FS_RemoveElement
    <3> QED
      BY <2>1, <2>2, <2>4, <3>2, FiniteReferences DEF References
  <2> QED
    BY <2>3, <2>4
<1>8. Counts'
  BY <1>4, <1>7 DEF IInv, Counts
<1>9. Intact'
  <2>1. ASSUME NEW m \in Messages PROVE Reached(m)'
    <3> SUFFICES ASSUME References(m)' > 0 PROVE Reached(m)'
      BY DEF Reached
    <3>1. References(m) > 0
      BY <1>3, <1>7
    <3> QED
      BY <1>1, <1>4, <3>1 DEF IInv, Intact, Reached
  <2>2. \A u \in Threads : Frees(u) => arg[u] # n /\ u # t
    BY <1>1, <1>3 DEF IInv, Intact, Freed, Frees
  <2>3. \A u \in Threads : Frees(u)' => \/ /\ u # t /\ Frees(u)
                                           /\ pc'[u] = pc[u] /\ arg'[u] = arg[u]
                                        \/ u = t /\ last
    BY <1>5 DEF Frees
  <2>4. ASSUME NEW u \in Threads PROVE Freed(u)'
    <3> SUFFICES ASSUME Frees(u)' PROVE Freed(u)'
      BY DEF Freed
    <3>1. CASE u = t
      <4>1. last /\ arg'[u] = n /\ pc'[u] = "on_free"
        BY <1>5, <2>3, <3>1
      <4>2. References(n)' = 0
        <5>0. References(n) = 1
          BY <1>3, <4>1 DEF last
        <5>1. ASSUME NEW m \in Messages, m = n PROVE References(m)' = 0
          BY <1>7, <5>0, <5>1
        <5> QED
          BY <1>2, <3>1, <4>1, <5>1
      <4>3. n \in allocated /\ (header[n].on_free <=> n \in attached)
        BY <1>2, <1>3 DEF IInv, Intact, Reached
      <4> QED
        BY <1>1, <1>2, <1>4, <4>1, <4>2, <4>3 DEF Freed
    <3>2. CASE u # t
      <4>1. /\ Frees(u) /\ pc'[u] = pc[u] /\ arg'[u] = arg[u] /\ Freed(u)
            /\ arg[u] # n /\ arg[u] \in Messages
        BY <2>2, <2>3, <3>2 DEF IInv, Intact, Freed, Types
      <4>2. References(arg[u])' = References(arg[u])
        BY <1>7, <4>1
      <4> QED
        BY <1>1, <1>4, <4>1, <4>2 DEF Freed
    <3> QED
      BY <3>1, <3>2
  <2>5. \A u, v \in Threads : Frees(u)' /\ Frees(v)' /\ arg'[u] = arg'[v] => u = v
    BY <1>5, <2>2, <2>3 DEF IInv, Intact
  <2> QED
    BY <1>1, <2>1, <2>4, <2>5 DEF IInv, Intact
<1> QED
  BY <1>1, <1>6, <1>8, <1>9, IndexStays DEF IInv

\* No reference is left when the callback runs and when the memory is freed.
LEMMA TakeDownReferences ==
  ASSUME IInv, NEW t \in Threads, Frees(t), queue' = queue, dest' = dest,
         \A u \in Threads : u # t => pc'[u] = pc[u] /\ arg'[u] = arg[u],
         arg'[t] = NoMessage \/ Frees(t)', pc'[t] \notin {"allocated", "free"},
         arg'[t] \in {arg[t], NoMessage}
  PROVE  \A m \in Messages : References(m)' = References(m)
<1> SUFFICES ASSUME NEW m \in Messages PROVE References(m)' = References(m)
  OBVIOUS
<1>1. InQueues(m)' = InQueues(m)
  BY DEF InQueues
<1>2. Held(m)' = Held(m)
  BY DEF Held, Frees
<1>3. PutsLeft(m)' = PutsLeft(m)
  <2>1. ASSUME NEW r \in Producers \X (1 .. MaxSubscriptions + 1)
        PROVE  r \in PutsLeft(m)' <=> r \in PutsLeft(m)
    <3>1. r[1] \in Producers /\ r[1] \in Threads /\ r[2] \in 1 .. MaxSubscriptions + 1
      BY DEF Threads
    <3>2. CASE r[1] = t
      <4>1. dest[t] = <<>>
        BY <3>1, <3>2 DEF IInv, Types, Frees
      <4>2. Len(dest[t]) = 0 /\ ~(r[2] <= 0)
        BY <3>1, <4>1
      <4> QED
        BY <3>2, <4>2 DEF PutsLeft
    <3>3. CASE r[1] # t
      BY <3>1, <3>3 DEF PutsLeft
    <3> QED
      BY <3>2, <3>3
  <2> QED
    BY <2>1 DEF PutsLeft
<1> QED
  BY <1>1, <1>2, <1>3 DEF References

\* The callback runs for a message that nobody can reach.
LEMMA CallbackKeeps == ASSUME IInv, NEW t \in Threads, FreeCallback(t) PROVE IInv'
<1> USE DEF GoTo
<1> DEFINE n == arg[t]
<1>1. /\ pc[t] = "on_free" /\ pc' = [pc EXCEPT ![t] = "dealloc"] /\ arg' = arg
      /\ attached' = IF header[n].on_free THEN attached \ {n} ELSE attached
      /\ phase' = phase /\ elems' = elems /\ subscriptions' = subscriptions /\ queue' = queue
      /\ allocated' = allocated /\ header' = header /\ dest' = dest
  BY DEF FreeCallback, busVars
<1>2. /\ pc \in [Threads -> Labels] /\ arg \in [Threads -> Messages \cup {NoMessage}]
      /\ Frees(t) /\ Freed(t) /\ n \in Messages
  BY <1>1, BusAssumption DEF IInv, Types, Intact, Frees
<1>3. /\ pc' \in [Threads -> Labels] /\ pc'[t] = "dealloc"
      /\ \A u \in Threads : u # t => pc'[u] = pc[u]
  BY <1>1, <1>2 DEF Labels
<1>4. Types'
  <2>1. \A p \in Producers : /\ pc'[p] = "put" <=> pc[p] = "put"
                             /\ pc'[p] = "allocated" <=> pc[p] = "allocated"
    BY <1>1, <1>3 DEF Threads
  <2>2. \A u \in Threads : pc'[u] = "idle" <=> arg'[u] = NoMessage
    BY <1>1, <1>3 DEF IInv, Types
  <2>3. attached' \subseteq Messages
    BY <1>1 DEF IInv, Types
  <2> QED
    BY <1>1, <1>3, <2>1, <2>2, <2>3 DEF IInv, Types
<1>5. \A m \in Messages : References(m)' = References(m)
  BY <1>1, <1>2, <1>3, TakeDownReferences DEF Frees
<1>6. Counts'
  BY <1>1, <1>5 DEF IInv, Counts
<1>7. Intact'
  <2>1. References(n) = 0 /\ n \in allocated /\ (header[n].on_free <=> n \in attached)
    BY <1>1, <1>2 DEF Freed
  <2>2. n \notin attached' /\ attached' \subseteq attached
        /\ \A m : m # n => (m \in attached' <=> m \in attached)
    BY <1>1, <2>1
  <2>3. ASSUME NEW m \in Messages PROVE Reached(m)'
    BY <1>1, <1>5, <2>1, <2>2 DEF IInv, Intact, Reached
  <2>4. \A u \in Threads : Frees(u)' <=> Frees(u)
    BY <1>1, <1>3 DEF Frees
  <2>5. ASSUME NEW u \in Threads PROVE Freed(u)'
    <3> SUFFICES ASSUME Frees(u)' PROVE Freed(u)'
      BY DEF Freed
    <3>1. CASE u = t
      <4>1. References(n)' = 0
        BY <1>1, <1>2, <1>5, <2>1
      <4> QED
        BY <1>1, <1>3, <2>1, <2>2, <3>1, <4>1 DEF Freed
    <3>2. CASE u # t
      <4>1. Frees(u) /\ Freed(u) /\ pc'[u] = pc[u] /\ arg[u] # n /\ arg[u] \in Messages
        BY <1>2, <1>3, <2>4, <3>2 DEF IInv, Intact, Freed, Types
      <4>2. References(arg[u])' = References(arg[u])
        BY <1>1, <1>5, <4>1
      <4> QED
        BY <1>1, <2>2, <4>1, <4>2 DEF Freed
    <3> QED
      BY <3>1, <3>2
  <2> QED
    BY <1>1, <2>2, <2>3, <2>4, <2>5 DEF IInv, Intact
<1> QED
  BY <1>1, <1>4, <1>6, <1>7, IndexStays DEF IInv

\* The memory is freed once, after the callback.
LEMMA MemoryKeeps == ASSUME IInv, NEW t \in Threads, FreeMemory(t) PROVE IInv'
<1> USE DEF GoTo
<1> DEFINE n == arg[t]
<1>1. /\ pc[t] = "dealloc" /\ pc' = [pc EXCEPT ![t] = "idle"]
      /\ arg' = [arg EXCEPT ![t] = NoMessage] /\ allocated' = allocated \ {n}
      /\ phase' = phase /\ elems' = elems /\ subscriptions' = subscriptions /\ queue' = queue
      /\ attached' = attached /\ header' = header /\ dest' = dest
  BY DEF FreeMemory, busVars
<1>2. /\ pc \in [Threads -> Labels] /\ arg \in [Threads -> Messages \cup {NoMessage}]
      /\ Frees(t) /\ Freed(t) /\ n \in Messages
  BY <1>1, BusAssumption DEF IInv, Types, Intact, Frees
<1>3. /\ pc' \in [Threads -> Labels] /\ pc'[t] = "idle" /\ arg'[t] = NoMessage
      /\ arg' \in [Threads -> Messages \cup {NoMessage}]
      /\ \A u \in Threads : u # t => pc'[u] = pc[u] /\ arg'[u] = arg[u]
  BY <1>1, <1>2 DEF Labels
<1>4. Types'
  <2>1. ASSUME NEW p \in Producers
        PROVE  /\ pc'[p] = "put" <=> pc[p] = "put"
               /\ pc'[p] = "allocated" => pc[p] = "allocated" /\ arg'[p] = arg[p]
    BY <1>1, <1>3 DEF Threads
  <2>2. \A u \in Threads : pc'[u] = "idle" <=> arg'[u] = NoMessage
    BY <1>3 DEF IInv, Types
  <2>3. allocated' \subseteq Messages
    BY <1>1 DEF IInv, Types
  <2> QED
    BY <1>1, <1>3, <2>1, <2>2, <2>3 DEF IInv, Types
<1>5. \A m \in Messages : References(m)' = References(m)
  BY <1>1, <1>2, <1>3, TakeDownReferences
<1>6. Counts'
  BY <1>1, <1>5 DEF IInv, Counts
<1>7. Intact'
  <2>1. References(n) = 0 /\ n \notin attached
    BY <1>1, <1>2 DEF Freed
  <2>2. ASSUME NEW m \in Messages PROVE Reached(m)'
    BY <1>1, <1>5, <2>1 DEF IInv, Intact, Reached
  <2>3. \A u \in Threads : Frees(u)' => u # t /\ Frees(u)
    BY <1>3 DEF Frees
  <2>4. ASSUME NEW u \in Threads PROVE Freed(u)'
    <3> SUFFICES ASSUME Frees(u)' PROVE Freed(u)'
      BY DEF Freed
    <3>1. /\ Frees(u) /\ Freed(u) /\ pc'[u] = pc[u] /\ arg'[u] = arg[u]
          /\ arg[u] # n /\ arg[u] \in Messages
      BY <1>2, <1>3, <2>3 DEF IInv, Intact, Freed, Types
    <3>2. References(arg[u])' = References(arg[u])
      BY <1>5, <3>1
    <3> QED
      BY <1>1, <3>1, <3>2 DEF Freed
  <2>5. attached' \subseteq allocated'
    BY <1>1, <2>1 DEF IInv, Intact
  <2> QED
    BY <1>3, <2>2, <2>3, <2>4, <2>5 DEF IInv, Intact
<1> QED
  BY <1>1, <1>4, <1>6, <1>7, IndexStays DEF IInv

\* Every step keeps the invariant.
LEMMA StepHolds == IInv /\ [Next]_vars => IInv'
<1> SUFFICES ASSUME IInv, [Next]_vars PROVE IInv'
  OBVIOUS
<1>1. ASSUME NEW q \in Queues, NEW u \in Uids, ml_bus_subscribe(q, u) PROVE IInv'
  BY <1>1, SubscribeKeeps
<1>2. ASSUME NEW p \in Producers, NEW u \in Uids, NEW f \in BOOLEAN, ml_message_alloc(p, u, f)
      PROVE  IInv'
  BY <1>2, AllocKeeps
<1>3. ASSUME NEW p \in Producers, ml_bus_broadcast(p) PROVE IInv'
  BY <1>3, BroadcastKeeps
<1>4. ASSUME NEW p \in Producers, ml_queue_put(p) PROVE IInv'
  BY <1>4, PutKeeps
<1>5. ASSUME NEW p \in Producers, NEW q \in Queues, PutDirectly(p, q) PROVE IInv'
  BY <1>5, PutDirectlyKeeps
<1>6. ASSUME NEW q \in Queues, ml_queue_get(q) PROVE IInv'
  BY <1>6, GetKeeps
<1>7. ASSUME NEW t \in Threads, FreeStep(t) PROVE IInv'
  BY <1>7, FreeKeeps, CallbackKeeps, MemoryKeeps DEF FreeStep
<1>8. CASE UNCHANGED vars
  <2>1. \A m : References(m)' = References(m)
    BY <1>8 DEF vars, thrVars, References, InQueues, Held, PutsLeft
  <2>2. Types' /\ Counts' /\ Intact'
    BY <1>8, <2>1 DEF vars, busVars, msgVars, thrVars, IInv, Types, Counts, Intact,
                      Reached, Freed, Frees
  <2> QED
    BY <1>8, <2>2, IndexStays DEF vars, busVars, IInv
<1> QED
  BY <1>1, <1>2, <1>3, <1>4, <1>5, <1>6, <1>7, <1>8 DEF Next

-----------------------------------------------------------------------------
\* SubscribersAreFound, whatever the uids and the order of the subscriptions:
\* ml_bus_subscribe() keeps the array sorted, so bsearch() in ml_bus_broadcast()
\* finds all the queues that subscribed, in their order, and no others.
THEOREM EverySubscriberIsFound == Spec => []SubscribersAreFound
<1>1. IInv => SubscribersAreFound
  BY IndexFinds DEF IInv
<1> QED
  BY <1>1, InitHolds, StepHolds, PTL DEF Spec

\* CountIsReferences, for any number of producers and readers: the count that
\* ml_message_share() and ml_message_free() keep is the number of threads and
\* queues that still have the message.
THEOREM CountsAreRight == Spec => []CountIsReferences
<1>1. IInv => CountIsReferences
  <2> SUFFICES ASSUME IInv PROVE CountIsReferences
    OBVIOUS
  <2>1. \A m \in Messages : header[m].count = References(m) /\ header[m].count \in Nat
    BY FiniteReferences DEF IInv, Counts
  <2>2. TypeOK
    BY <2>1 DEF IInv, Types, TypeOK, Labels
  <2> QED
    BY <2>1, <2>2 DEF CountIsReferences
<1> QED
  BY <1>1, InitHolds, StepHolds, PTL DEF Spec

\* ReachableIsIntact, for any number of threads: no reader of a broadcast
\* message sees it freed, and on free and the deallocation happen once, in one
\* thread.
THEOREM ReachableStaysIntact == Spec => []ReachableIsIntact
<1>1. IInv => ReachableIsIntact
  BY DEF IInv, Intact, Reached, Frees, ReachableIsIntact
<1> QED
  BY <1>1, InitHolds, StepHolds, PTL DEF Spec

=============================================================================
