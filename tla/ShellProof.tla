----------------------------- MODULE ShellProof -----------------------------
(* Proofs about Shell, for every size of the line and the history, all names *)
(* and characters. First that every function on lines gives a line that fits *)
(* in its buffer; then the history, the walk through it and the search; and  *)
(* that completion inserts what the names have in common.                    *)
EXTENDS Shell, FiniteSetTheorems, SequenceTheorems, WellFoundedInduction, TLAPS

\* Induction, for a set of naturals.
LEMMA SetInduction ==
  ASSUME NEW T \in SUBSET Nat, 0 \in T, \A n \in T : n + 1 \in T
  PROVE  T = Nat
<1> SUFFICES ASSUME Nat \ T # {} PROVE FALSE
  OBVIOUS
<1> DEFINE S == Nat \ T
           R == OpToRel(<, Nat)
<1>1. IsWellFoundedOn(R, Nat)
  BY NatLessThanWellFounded
<1>2. PICK n \in S : \A m \in S : ~(<<m, n>> \in R)
  <2> HIDE DEF R
  <2> QED
    BY <1>1, WFMin
<1>3. n # 0 /\ n - 1 \in Nat
  OBVIOUS
<1>4. n - 1 \notin T
  BY <1>3
<1>5. <<n - 1, n>> \in R
  BY <1>3 DEF OpToRel
<1> QED
  BY <1>2, <1>3, <1>4, <1>5

\* The least of some natural numbers.
LEMMA MinIs ==
  ASSUME NEW S \in SUBSET Nat, S # {}
  PROVE  Min(S) \in S /\ \A m \in S : Min(S) <= m
<1> DEFINE R == OpToRel(<, Nat)
<1>1. IsWellFoundedOn(R, Nat)
  BY NatLessThanWellFounded
<1>2. PICK n \in S : \A m \in S : ~(<<m, n>> \in R)
  <2> HIDE DEF R
  <2> QED
    BY <1>1, WFMin
<1>3. \A m \in S : n <= m
  <2> TAKE m \in S
  <2>1. m \in Nat /\ n \in Nat /\ <<m, n>> \notin R
    BY <1>2
  <2> QED
    BY <2>1 DEF OpToRel
<1> HIDE DEF R
<1> QED
  BY <1>3 DEF Min

\* The greatest of some natural numbers up to n.
LEMMA MaxIs ==
  ASSUME NEW n \in Nat, NEW S \in SUBSET (0 .. n), S # {}
  PROVE  Max(S) \in S /\ \A m \in S : m <= Max(S)
<1> DEFINE D == {n - m : m \in S}
<1>1. D \in SUBSET Nat /\ D # {}
  <2>1. \A m \in S : n - m \in Nat
    OBVIOUS
  <2> QED
    BY <2>1
<1>2. Min(D) \in D /\ \A d \in D : Min(D) <= d
  BY <1>1, MinIs
<1>3. PICK k \in S : Min(D) = n - k
  BY <1>2
<1>4. \A m \in S : m <= k
  <2> TAKE m \in S
  <2>1. n - k <= n - m
    BY <1>2, <1>3
  <2> QED
    BY <2>1
<1>5. \E x \in S : \A y \in S : x >= y
  BY <1>4
<1>6. Max(S) \in S /\ \A y \in S : Max(S) >= y
  BY <1>5 DEF Max
<1> QED
  BY <1>6

LEMMA MinOfTwo ==
  ASSUME NEW m \in Nat, NEW n \in Nat
  PROVE  Min({m, n}) = IF m <= n THEN m ELSE n
<1>1. Min({m, n}) \in {m, n} /\ \A k \in {m, n} : Min({m, n}) <= k
  BY MinIs
<1> QED
  BY <1>1

\* A buffer is a sequence of characters that leaves room for the null.
LEMMA BufferIs ==
  /\ Room \in Nat
  /\ \A s : s \in Buffers <=> s \in Seq(Characters) /\ Len(s) \in 0 .. Room
<1>1. Room \in Nat
  BY ShellAssumption DEF Room
<1> HIDE DEF Room
<1>2. ASSUME NEW s \in Buffers PROVE s \in Seq(Characters) /\ Len(s) \in 0 .. Room
  <2>1. PICK n \in 0 .. Room : s \in [1 .. n -> Characters]
    BY DEF Buffers
  <2>2. s \in Seq(Characters) /\ Len(s) = n
    BY <1>1, <2>1
  <2> QED
    BY <2>2
<1>3. ASSUME NEW s \in Seq(Characters), Len(s) \in 0 .. Room PROVE s \in Buffers
  <2>1. s \in [1 .. Len(s) -> Characters]
    OBVIOUS
  <2> QED
    BY <1>3, <2>1 DEF Buffers
<1> QED
  BY <1>1, <1>2, <1>3

\* A piece of a sequence.
LEMMA PieceIs ==
  ASSUME NEW C, NEW s \in Seq(C), NEW a \in 1 .. Len(s) + 1, NEW b \in 0 .. Len(s)
  PROVE  /\ SubSeq(s, a, b) \in Seq(C)
         /\ Len(SubSeq(s, a, b)) = IF a <= b THEN b - a + 1 ELSE 0
         /\ \A i \in 1 .. b - a + 1 : SubSeq(s, a, b)[i] = s[a + i - 1]
<1>1. a \in Int /\ b \in Int /\ \A i \in a .. b : s[i] \in C
  OBVIOUS
<1> QED
  BY <1>1, SubSeqProperties

-----------------------------------------------------------------------------
(* Lines                                                                     *)

Edited == {l \in [buf : Buffers, cursor : 0 .. Room] : l.cursor <= Len(l.buf)}

LEMMA EditedIs ==
  \A l : l \in Edited <=> /\ l \in [buf : Buffers, cursor : 0 .. Room]
                          /\ l.buf \in Seq(Characters)
                          /\ Len(l.buf) \in 0 .. Room
                          /\ l.cursor \in 0 .. Len(l.buf)
BY BufferIs DEF Edited

LEMMA LineOf ==
  ASSUME NEW b \in Seq(Characters), Len(b) <= Room, NEW c \in 0 .. Len(b)
  PROVE  [buf |-> b, cursor |-> c] \in Edited
BY BufferIs DEF Edited

LEMMA AtEndEdited ==
  ASSUME NEW b \in Buffers
  PROVE  AtEnd(b) \in Edited
BY BufferIs, LineOf DEF AtEnd

LEMMA EmptyBuffer == <<>> \in Buffers /\ line_init \in Edited
<1>1. <<>> \in Buffers
  <2>1. <<>> \in Seq(Characters) /\ Len(<<>>) = 0
    BY EmptySeq
  <2>2. Room \in Nat
    BY BufferIs
  <2>3. Len(<<>>) \in 0 .. Room
    BY <2>1, <2>2
  <2> QED
    BY <2>1, <2>3, BufferIs
<1> QED
  BY <1>1, AtEndEdited DEF line_init

LEMMA AtIs ==
  /\ \A s, i, e : InsertAt(s, i, e) = SubSeq(s, 1, i - 1) \o <<e>> \o SubSeq(s, i, Len(s))
  /\ \A s, i : RemoveAt(s, i) = SubSeq(s, 1, i - 1) \o SubSeq(s, i + 1, Len(s))
BY DEF InsertAt, RemoveAt

LEMMA AtCursorIs ==
  ASSUME NEW s, NEW c \in Nat, NEW e
  PROVE  /\ InsertAt(s, c + 1, e) = SubSeq(s, 1, c) \o <<e>> \o SubSeq(s, c + 1, Len(s))
         /\ RemoveAt(s, c + 1) = SubSeq(s, 1, c) \o SubSeq(s, c + 2, Len(s))
<1> DEFINE d == c + 1
<1>1. d - 1 = c /\ d + 1 = c + 2
  OBVIOUS
<1> HIDE DEF d
<1>2. /\ InsertAt(s, d, e) = SubSeq(s, 1, c) \o <<e>> \o SubSeq(s, d, Len(s))
      /\ RemoveAt(s, d) = SubSeq(s, 1, c) \o SubSeq(s, c + 2, Len(s))
  BY <1>1, AtIs
<1> QED
  BY <1>2 DEF d

LEMMA InsertEdited ==
  ASSUME NEW l \in Edited, NEW ch \in Characters
  PROVE  line_insert(l, ch) \in Edited
<1>1. /\ l \in [buf : Buffers, cursor : 0 .. Room] /\ l.buf \in Seq(Characters)
      /\ Len(l.buf) \in 0 .. Room /\ l.cursor \in 0 .. Len(l.buf) /\ Room \in Nat
  BY EditedIs, BufferIs
<1> DEFINE b == l.buf
           c == l.cursor
           front == SubSeq(b, 1, c)
           back == SubSeq(b, c + 1, Len(b))
<1>2. CASE Len(b) = Room
  BY <1>2 DEF line_insert
<1>3. CASE Len(b) # Room
  <2>1. front \in Seq(Characters) /\ Len(front) = c
    BY <1>1, PieceIs
  <2>2. back \in Seq(Characters) /\ Len(back) = Len(b) - c
    BY <1>1, PieceIs
  <2>3. line_insert(l, ch) = [buf |-> front \o <<ch>> \o back, cursor |-> c + 1]
    <3>1. c \in Nat
      BY <1>1
    <3>2. InsertAt(b, c + 1, ch) = front \o <<ch>> \o back
      BY <3>1, AtCursorIs, Zenon
    <3> QED
      BY <1>3, <3>2 DEF line_insert
  <2> HIDE DEF front, back
  <2>4. /\ front \o <<ch>> \o back \in Seq(Characters)
        /\ Len(front \o <<ch>> \o back) = Len(b) + 1
    <3>1. <<ch>> \in Seq(Characters) /\ Len(<<ch>>) = 1
      OBVIOUS
    <3>2. front \o <<ch>> \in Seq(Characters) /\ Len(front \o <<ch>>) = c + 1
      BY <2>1, <3>1, ConcatProperties
    <3>3. /\ front \o <<ch>> \o back \in Seq(Characters)
          /\ Len(front \o <<ch>> \o back) = (c + 1) + (Len(b) - c)
      <4> DEFINE both == front \o <<ch>>
      <4>1. both \in Seq(Characters) /\ Len(both) = c + 1
        BY <3>2
      <4> HIDE DEF both
      <4>2. both \o back \in Seq(Characters) /\ Len(both \o back) = Len(both) + Len(back)
        BY <2>2, <4>1, ConcatProperties
      <4> QED
        BY <2>2, <4>1, <4>2 DEF both
    <3> QED
      BY <1>1, <3>3
  <2>5. Len(b) + 1 <= Room /\ c + 1 \in 0 .. Len(b) + 1
    BY <1>1, <1>3, <2>4
  <2> QED
    BY <2>3, <2>4, <2>5, LineOf
<1> QED
  BY <1>2, <1>3

LEMMA DeleteEdited ==
  ASSUME NEW l \in Edited
  PROVE  line_delete(l) \in Edited
<1>1. /\ l \in [buf : Buffers, cursor : 0 .. Room] /\ l.buf \in Seq(Characters)
      /\ Len(l.buf) \in 0 .. Room /\ l.cursor \in 0 .. Len(l.buf) /\ Room \in Nat
  BY EditedIs, BufferIs
<1> DEFINE b == l.buf
           c == l.cursor
           front == SubSeq(b, 1, c)
           back == SubSeq(b, c + 2, Len(b))
<1>2. CASE c = Len(b)
  BY <1>2 DEF line_delete
<1>3. CASE c # Len(b)
  <2>1. front \in Seq(Characters) /\ Len(front) = c
    BY <1>1, PieceIs
  <2>2. back \in Seq(Characters) /\ Len(back) = Len(b) - c - 1
    BY <1>1, <1>3, PieceIs
  <2>3. line_delete(l) = [buf |-> front \o back, cursor |-> c]
    <3>1. c \in Nat
      BY <1>1
    <3>2. RemoveAt(b, c + 1) = front \o back
      BY <3>1, AtCursorIs, Zenon
    <3>3. line_delete(l) = [l EXCEPT !.buf = front \o back]
      BY <1>3, <3>2 DEF line_delete
    <3> HIDE DEF front, back
    <3> QED
      BY <1>1, <3>3
  <2> HIDE DEF front, back
  <2>4. front \o back \in Seq(Characters) /\ Len(front \o back) = Len(b) - 1
    BY <1>1, <2>1, <2>2
  <2>5. Len(b) - 1 <= Room /\ c \in 0 .. Len(b) - 1
    BY <1>1, <1>3, <2>4
  <2> QED
    BY <2>3, <2>4, <2>5, LineOf
<1> QED
  BY <1>2, <1>3

LEMMA TruncateEdited ==
  ASSUME NEW l \in Edited
  PROVE  line_truncate(l) \in Edited
<1>1. /\ l \in [buf : Buffers, cursor : 0 .. Room] /\ l.buf \in Seq(Characters)
      /\ Len(l.buf) \in 0 .. Room /\ l.cursor \in 0 .. Len(l.buf) /\ Room \in Nat
  BY EditedIs, BufferIs
<1> DEFINE front == SubSeq(l.buf, 1, l.cursor)
<1>2. front \in Seq(Characters) /\ Len(front) = l.cursor
  BY <1>1, PieceIs
<1>3. line_truncate(l) = [buf |-> front, cursor |-> l.cursor]
  BY <1>1 DEF line_truncate
<1> HIDE DEF front
<1> QED
  BY <1>1, <1>2, <1>3, LineOf

LEMMA SeekEdited ==
  ASSUME NEW l \in Edited, NEW pos \in Int
  PROVE  /\ line_seek(l, pos) \in Edited
         /\ line_seek_begin(l) \in Edited
         /\ line_seek_end(l) \in Edited
<1>1. /\ l \in [buf : Buffers, cursor : 0 .. Room] /\ l.buf \in Seq(Characters)
      /\ Len(l.buf) \in 0 .. Room /\ l.cursor \in 0 .. Len(l.buf) /\ Room \in Nat
  BY EditedIs, BufferIs
<1>2. line_seek(l, pos) \in Edited
  <2>1. CASE l.cursor + pos \in 0 .. Len(l.buf)
    <3>1. line_seek(l, pos) = [buf |-> l.buf, cursor |-> l.cursor + pos]
      BY <1>1, <2>1 DEF line_seek
    <3> QED
      BY <1>1, <2>1, <3>1, LineOf
  <2> QED
    BY <2>1 DEF line_seek
<1>3. line_seek_begin(l) \in Edited
  <2>1. line_seek_begin(l) = [buf |-> l.buf, cursor |-> 0]
    BY <1>1 DEF line_seek_begin
  <2> QED
    BY <1>1, <2>1, LineOf
<1>4. line_seek_end(l) \in Edited
  BY <1>1, AtEndEdited DEF line_seek_end
<1> QED
  BY <1>2, <1>3, <1>4

\* The lines from one inserted character to the next.
Inserting(l, s, f) ==
  /\ f \in [0 .. Len(s) -> Edited]
  /\ f[0] = l
  /\ \A i \in 1 .. Len(s) : f[i] = line_insert(f[i - 1], s[i])

LEMMA InsertingIs ==
  ASSUME NEW l \in Edited, NEW s \in Seq(Characters)
  PROVE  \E f : Inserting(l, s, f) /\ line_insert_string(l, s) = f[Len(s)]
<1> DEFINE n == Len(s)
           Step(f, i) == IF i = 0 THEN l ELSE line_insert(f[i - 1], s[i])
           Upto(k, f) == \A i \in 0 .. n : i <= k => f[i] = Step(f, i)
           T == {k \in Nat : \E f \in [0 .. n -> Edited] : Upto(k, f)}
<1>1. n \in Nat /\ \A i \in 1 .. n : s[i] \in Characters
  OBVIOUS
<1> HIDE DEF n
<1>2. 0 \in T
  <2>1. Upto(0, [i \in 0 .. n |-> l])
    BY <1>1
  <2>2. [i \in 0 .. n |-> l] \in [0 .. n -> Edited]
    OBVIOUS
  <2> QED
    BY <2>1, <2>2
<1>3. ASSUME NEW k \in T PROVE k + 1 \in T
  <2>1. k \in Nat /\ k + 1 \in Nat
    OBVIOUS
  <2>2. PICK f \in [0 .. n -> Edited] : Upto(k, f)
    BY <1>3
  <2>3. CASE k + 1 > n
    <3>1. Upto(k + 1, f)
      BY <1>1, <2>1, <2>2, <2>3
    <3> QED
      BY <2>1, <3>1
  <2>4. CASE k + 1 <= n
    <3> DEFINE next == line_insert(f[k], s[k + 1])
               g == [f EXCEPT ![k + 1] = next]
    <3>1. k \in 0 .. n /\ k + 1 \in 1 .. n /\ k + 1 \in 0 .. n
      BY <1>1, <2>1, <2>4
    <3>2. next \in Edited
      BY <1>1, <3>1, InsertEdited
    <3> HIDE DEF next
    <3>3. /\ g \in [0 .. n -> Edited] /\ g[k + 1] = next
          /\ \A i \in 0 .. n : i # k + 1 => g[i] = f[i]
      BY <3>1, <3>2
    <3> HIDE DEF g
    <3>4. ASSUME NEW i \in 0 .. n, i <= k + 1 PROVE g[i] = Step(g, i)
      <4>1. CASE i = k + 1
        <5>1. i # 0 /\ i - 1 = k /\ k # k + 1
          BY <2>1, <4>1
        <5> QED
          BY <3>1, <3>3, <4>1, <5>1 DEF next
      <4>2. CASE i # k + 1 /\ i # 0
        <5>1. i <= k /\ i - 1 \in 0 .. n /\ i - 1 # k + 1
          BY <1>1, <2>1, <3>4, <4>2
        <5> QED
          BY <2>2, <3>3, <4>2, <5>1
      <4>3. CASE i # k + 1 /\ i = 0
        <5>1. i <= k
          BY <2>1, <4>3
        <5> QED
          BY <2>2, <3>3, <4>3, <5>1
      <4> QED
        BY <4>1, <4>2, <4>3
    <3>5. Upto(k + 1, g)
      BY <3>4
    <3> QED
      BY <2>1, <3>3, <3>5
  <2> QED
    BY <1>1, <2>1, <2>3, <2>4
<1>4. n \in T
  <2> HIDE DEF T
  <2>1. T \in SUBSET Nat
    BY DEF T
  <2> QED
    BY <1>1, <1>2, <1>3, <2>1, SetInduction
<1>5. PICK f \in [0 .. n -> Edited] : Upto(n, f)
  BY <1>4
<1>6. f = [i \in 0 .. n |-> Step(f, i)]
  <2>1. \A i \in 0 .. n : i <= n /\ f[i] = Step(f, i)
    BY <1>1, <1>5
  <2> HIDE DEF Step
  <2> QED
    BY <2>1
<1> DEFINE g == CHOOSE g : g = [i \in 0 .. n |-> Step(g, i)]
<1>7. g = [i \in 0 .. n |-> Step(g, i)]
  <2> HIDE DEF Step
  <2> QED
    BY <1>6
<1>8. line_insert_string(l, s) = g[n]
  BY DEF line_insert_string, n
<1> HIDE DEF g
<1>9. g[0] = l /\ \A i \in 1 .. n : i - 1 \in 0 .. n /\ g[i] = line_insert(g[i - 1], s[i])
  <2>1. 0 \in 0 .. n /\ \A i \in 1 .. n : i \in 0 .. n /\ i # 0 /\ i - 1 \in 0 .. n
    BY <1>1
  <2>2. \A i \in 0 .. n : g[i] = Step(g, i)
    <3> HIDE DEF Step
    <3> QED
      BY <1>7
  <2> QED
    BY <2>1, <2>2
<1> DEFINE V == {k \in Nat : k <= n => g[k] \in Edited}
<1>10. 0 \in V
  BY <1>9
<1>11. ASSUME NEW k \in V PROVE k + 1 \in V
  <2> SUFFICES ASSUME k + 1 <= n PROVE g[k + 1] \in Edited
    OBVIOUS
  <2>1. k + 1 \in 1 .. n /\ (k + 1) - 1 = k /\ k <= n
    BY <1>1
  <2>2. g[k] \in Edited /\ g[k + 1] = line_insert(g[k], s[k + 1])
    BY <1>9, <2>1
  <2> QED
    BY <1>1, <2>1, <2>2, InsertEdited
<1>12. V = Nat
  <2> HIDE DEF V
  <2>1. V \in SUBSET Nat
    BY DEF V
  <2> QED
    BY <1>10, <1>11, <2>1, SetInduction
<1>13. \A i \in 0 .. n : g[i] \in Edited
  BY <1>1, <1>12
<1>14. g \in [0 .. n -> Edited]
  <2> HIDE DEF Step
  <2> QED
    BY <1>7, <1>13
<1> QED
  BY <1>8, <1>9, <1>14 DEF Inserting, n

LEMMA InsertStringEdited ==
  ASSUME NEW l \in Edited, NEW s \in Seq(Characters)
  PROVE  line_insert_string(l, s) \in Edited
<1>1. PICK f : Inserting(l, s, f) /\ line_insert_string(l, s) = f[Len(s)]
  BY InsertingIs
<1>2. Len(s) \in 0 .. Len(s)
  OBVIOUS
<1> QED
  BY <1>1, <1>2 DEF Inserting

\* At the end of a line with room left.
LEMMA InsertAtEnd ==
  ASSUME NEW b \in Seq(Characters), Len(b) < Room, NEW ch \in Characters
  PROVE  line_insert(AtEnd(b), ch) = AtEnd(Append(b, ch))
<1>1. Room \in Nat /\ Len(b) \in Nat
  BY BufferIs
<1>2. InsertAt(b, Len(b) + 1, ch) = SubSeq(b, 1, Len(b)) \o <<ch>> \o SubSeq(b, Len(b) + 1, Len(b))
  BY <1>1, AtCursorIs
<1>3. SubSeq(b, 1, Len(b)) = b
  BY SubSeqFull
<1>4. SubSeq(b, Len(b) + 1, Len(b)) = <<>>
  BY <1>1, SubSeqEmpty
<1>5. /\ Append(b, ch) = b \o <<ch>> /\ b \o <<ch>> \in Seq(Characters)
      /\ Len(Append(b, ch)) = Len(b) + 1
  BY AppendIsConcat, AppendProperties
<1>6. (b \o <<ch>>) \o <<>> = b \o <<ch>>
  BY <1>5, ConcatEmptySeq
<1>7. InsertAt(b, Len(b) + 1, ch) = Append(b, ch)
  BY <1>2, <1>3, <1>4, <1>5, <1>6
<1>8. AtEnd(b).buf = b /\ AtEnd(b).cursor = Len(b) /\ Len(b) # Room
  BY <1>1 DEF AtEnd
<1> QED
  BY <1>5, <1>7, <1>8 DEF line_insert, AtEnd

\* All of a string that there is room for.
LEMMA InsertStringAtEnd ==
  ASSUME NEW b \in Seq(Characters), NEW s \in Seq(Characters), Len(b) + Len(s) <= Room
  PROVE  line_insert_string(AtEnd(b), s) = AtEnd(b \o s)
<1> DEFINE n == Len(s)
           part(i) == b \o SubSeq(s, 1, i)
<1>1. n \in Nat /\ Len(b) \in Nat /\ Room \in Nat
  BY BufferIs
<1>2. AtEnd(b) \in Edited
  BY <1>1, BufferIs, AtEndEdited
<1>3. PICK f : Inserting(AtEnd(b), s, f) /\ line_insert_string(AtEnd(b), s) = f[n]
  BY <1>2, InsertingIs
<1>4. \A i \in 0 .. n : SubSeq(s, 1, i) \in Seq(Characters) /\ Len(SubSeq(s, 1, i)) = i
  <2> TAKE i \in 0 .. n
  <2> QED
    BY <1>1, PieceIs
<1>5. \A i \in 0 .. n : part(i) \in Seq(Characters) /\ Len(part(i)) = Len(b) + i
  <2> TAKE i \in 0 .. n
  <2> DEFINE p == SubSeq(s, 1, i)
  <2>1. p \in Seq(Characters) /\ Len(p) = i
    BY <1>4
  <2> HIDE DEF p
  <2>2. b \o p \in Seq(Characters) /\ Len(b \o p) = Len(b) + i
    BY <2>1, ConcatProperties
  <2> QED
    BY <2>2 DEF p
<1>6. part(0) = b
  <2>1. SubSeq(s, 1, 0) = <<>>
    BY SubSeqEmpty
  <2> QED
    BY <2>1, ConcatEmptySeq
<1>7. part(n) = b \o s
  BY SubSeqFull
<1>8. ASSUME NEW i \in 0 .. n, i < n
      PROVE  Append(part(i), s[i + 1]) = part(i + 1)
  <2>1. i + 1 \in 1 .. n /\ 1 \in 1 .. n /\ i + 1 \in 1 .. Len(s) /\ (i + 1) - 1 = i
    BY <1>1, <1>8
  <2>2. SubSeq(s, 1, i + 1) = SubSeq(s, 1, i) \o <<s[i + 1]>>
    <3>1. 1 \in 1 .. Len(s) /\ i + 1 \in 1 .. Len(s)
      BY <2>1
    <3>2. SubSeq(s, 1, i + 1) = SubSeq(s, 1, (i + 1) - 1) \o <<s[i + 1]>>
      BY <3>1, SubSeqRecursiveSecond
    <3> QED
      BY <2>1, <3>2
  <2>3. s[i + 1] \in Characters
    BY <2>1
  <2>4. <<s[i + 1]>> \in Seq(Characters)
    BY <2>3
  <2>5. part(i + 1) = (b \o SubSeq(s, 1, i)) \o <<s[i + 1]>>
    BY <1>4, <2>2, <2>4, ConcatAssociative
  <2> QED
    BY <1>5, <2>3, <2>5, AppendIsConcat
<1> DEFINE V == {k \in Nat : k <= n => f[k] = AtEnd(part(k))}
<1> HIDE DEF part, n
<1>9. 0 \in V
  BY <1>3, <1>6 DEF Inserting
<1>10. ASSUME NEW k \in V PROVE k + 1 \in V
  <2> SUFFICES ASSUME k + 1 <= n PROVE f[k + 1] = AtEnd(part(k + 1))
    OBVIOUS
  <2>1. k + 1 \in 1 .. n /\ (k + 1) - 1 = k /\ k \in 0 .. n /\ k < n /\ k <= n
    BY <1>1
  <2>2. f[k + 1] = line_insert(AtEnd(part(k)), s[k + 1])
    BY <1>3, <2>1 DEF Inserting, n
  <2>3. s[k + 1] \in Characters
    BY <2>1 DEF n
  <2>4. part(k) \in Seq(Characters) /\ Len(part(k)) < Room
    BY <1>1, <1>5, <2>1 DEF n
  <2> QED
    BY <1>8, <2>1, <2>2, <2>3, <2>4, InsertAtEnd
<1>11. V = Nat
  <2> HIDE DEF V
  <2>1. V \in SUBSET Nat
    BY DEF V
  <2> QED
    BY <1>9, <1>10, <2>1, SetInduction
<1>12. n \in V /\ n <= n
  BY <1>1, <1>11
<1> QED
  BY <1>3, <1>7, <1>12

\* A line that is recalled comes back as it was, with the cursor at its end.
LEMMA RecallIs ==
  ASSUME NEW b \in Buffers
  PROVE  Recall(b) = AtEnd(b)
<1>1. b \in Seq(Characters) /\ Len(b) <= Room
  BY BufferIs
<1>2. <<>> \in Seq(Characters) /\ Len(<<>>) + Len(b) <= Room
  BY <1>1, EmptySeq
<1>3. <<>> \o b = b
  BY <1>1, ConcatEmptySeq
<1> QED
  BY <1>1, <1>2, <1>3, InsertStringAtEnd DEF Recall, line_init

\* The character at the cursor is taken out and put in before the one before it.
LEMMA SwapEdited ==
  ASSUME NEW l \in Edited, l.cursor # 0, Len(l.buf) >= 2
  PROVE  LET k == IF l.cursor = Len(l.buf) THEN line_seek(l, -1) ELSE l
         IN  line_seek(line_insert(line_seek(line_delete(k), -1), k.buf[k.cursor + 1]), 1) \in Edited
<1> DEFINE k == IF l.cursor = Len(l.buf) THEN line_seek(l, -1) ELSE l
<1>1. /\ l \in [buf : Buffers, cursor : 0 .. Room] /\ l.buf \in Seq(Characters)
      /\ Len(l.buf) \in 0 .. Room /\ l.cursor \in 0 .. Len(l.buf) /\ Room \in Nat
  BY EditedIs, BufferIs
<1>2. k \in Edited
  <2>1. -1 \in Int
    OBVIOUS
  <2>2. line_seek(l, -1) \in Edited
    BY <2>1, SeekEdited
  <2> QED
    BY <2>2
<1>3. k.buf = l.buf /\ k.cursor + 1 \in 1 .. Len(l.buf)
  <2>1. CASE l.cursor = Len(l.buf)
    <3>1. l.cursor + (-1) \in 0 .. Len(l.buf)
      BY <1>1, <2>1
    <3>2. k = [l EXCEPT !.cursor = @ + (-1)]
      BY <2>1, <3>1 DEF line_seek
    <3> QED
      BY <1>1, <2>1, <3>2
  <2>2. CASE l.cursor # Len(l.buf)
    BY <1>1, <2>2
  <2> QED
    BY <2>1, <2>2
<1> HIDE DEF k
<1>4. k.buf[k.cursor + 1] \in Characters
  BY <1>1, <1>3
<1>5. line_seek(line_delete(k), -1) \in Edited
  BY <1>2, DeleteEdited, SeekEdited
<1>6. line_insert(line_seek(line_delete(k), -1), k.buf[k.cursor + 1]) \in Edited
  BY <1>4, <1>5, InsertEdited
<1> QED
  BY <1>6, SeekEdited DEF k

LEMMA DeleteWordEdited ==
  ASSUME NEW l \in Edited
  PROVE  DeleteWord(l) \in Edited
<1> DEFINE b == l.buf
           n == Len(b)
           rest == l.cursor + 1 .. n
           word == Min({i \in rest : b[i] # BLANK} \cup {n + 1})
           ends == {i \in rest : i > word /\ b[i] = BLANK} \cup {n + 1}
           end == Min(ends)
           front == SubSeq(b, 1, l.cursor)
           back == SubSeq(b, end, n)
<1>1. /\ l \in [buf : Buffers, cursor : 0 .. Room] /\ b \in Seq(Characters)
      /\ n \in 0 .. Room /\ l.cursor \in 0 .. n /\ Room \in Nat
  BY EditedIs, BufferIs
<1>2. end \in rest \cup {n + 1}
  <2>1. ends \in SUBSET Nat /\ ends # {}
    <3>1. rest \in SUBSET Nat /\ n + 1 \in Nat
      BY <1>1
    <3> HIDE DEF rest, word
    <3> QED
      BY <3>1
  <2> HIDE DEF ends
  <2>2. end \in ends
    BY <2>1, MinIs
  <2> QED
    BY <2>2 DEF ends
<1>3. DeleteWord(l) = [l EXCEPT !.buf = front \o back]
  BY DEF DeleteWord
<1> HIDE DEF end
<1>4. end \in 1 .. n + 1 /\ n - end + 1 <= n - l.cursor
  BY <1>1, <1>2
<1>5. front \in Seq(Characters) /\ Len(front) = l.cursor
  BY <1>1, PieceIs
<1>6. back \in Seq(Characters) /\ Len(back) \in 0 .. n - l.cursor
  BY <1>1, <1>4, PieceIs
<1> HIDE DEF front, back
<1>7. front \o back \in Seq(Characters) /\ Len(front \o back) \in l.cursor .. n
  BY <1>1, <1>5, <1>6
<1>8. DeleteWord(l) = [buf |-> front \o back, cursor |-> l.cursor]
  BY <1>1, <1>3
<1>9. Len(front \o back) <= Room /\ l.cursor \in 0 .. Len(front \o back)
  BY <1>1, <1>7
<1> QED
  BY <1>7, <1>8, <1>9, LineOf

\* What TAB makes of the line is a line.
LEMMA CompleteEdited ==
  ASSUME NEW l \in Edited
  PROVE  auto_complete_command(l).line \in Edited
<1> DEFINE size == Len(l.buf)
           matching == Matching(l.buf, size)
           first == Min(matching)
           name == Names[first]
           piece(k) == SubSeq(name, size + 1, size + k)
           after(k) == line_insert_string(l, piece(k))
           mismatch(k) == \E i \in Run(first, after(k).buf, size + k) :
                            CharAt(Names[i], size + k) # CharAt(name, size + k)
           stops == {k \in 0 .. Len(name) - size : mismatch(k) \/ size + k = Len(name)}
           stop == Min(stops)
<1>1. l.buf \in Seq(Characters) /\ size \in Nat
  BY EditedIs
<1>2. CASE matching = {}
  BY <1>2 DEF auto_complete_command
<1>3. CASE matching # {}
  <2>1. matching \in SUBSET (1 .. Len(Names))
    BY DEF Matching
  <2>2. Len(Names) \in Nat /\ \A i \in 1 .. Len(Names) : Names[i] \in Seq(Characters)
    BY ShellAssumption
  <2>3. first \in matching
    <3>1. matching \in SUBSET Nat
      BY <2>1
    <3> HIDE DEF matching
    <3> QED
      BY <1>3, <3>1, MinIs
  <2>4. Take(name, size) = Take(l.buf, size)
    <3> HIDE DEF first
    <3> QED
      BY <2>3 DEF Matching
  <2> HIDE DEF matching, first
  <2>5. name \in Seq(Characters) /\ Len(name) \in Nat
    BY <2>1, <2>2, <2>3
  <2> HIDE DEF name
  <2>6. Len(name) >= size
    <3>1. Len(Take(l.buf, size)) = size
      <4>1. Min({size, Len(l.buf)}) = size
        BY <1>1, MinOfTwo
      <4>2. size \in 0 .. Len(l.buf) /\ 1 \in 1 .. Len(l.buf) + 1
        BY <1>1
      <4>3. Len(SubSeq(l.buf, 1, size)) = size
        BY <1>1, SubSeqFull
      <4> QED
        BY <4>1, <4>3 DEF Take
    <3>2. Min({size, Len(name)}) \in 0 .. Len(name) /\ 1 \in 1 .. Len(name) + 1
      BY <1>1, <2>5, MinOfTwo
    <3> DEFINE m == Min({size, Len(name)})
    <3>3. Len(SubSeq(name, 1, m)) = IF 1 <= m THEN m - 1 + 1 ELSE 0
      <4> HIDE DEF m
      <4> QED
        BY <2>5, <3>2, PieceIs DEF m
    <3>4. Len(Take(name, size)) = m
      BY <3>2, <3>3 DEF Take
    <3>5. m = size
      BY <2>4, <3>1, <3>4
    <3> QED
      BY <1>1, <2>5, <3>5, MinOfTwo
  <2>7. stop \in 0 .. Len(name) - size
    <3>1. Len(name) - size \in stops
      BY <1>1, <2>5, <2>6
    <3>2. stops \in SUBSET Nat
      OBVIOUS
    <3>3. stop \in stops
      <4> HIDE DEF stops
      <4> QED
        BY <3>1, <3>2, MinIs
    <3> HIDE DEF stop
    <3> QED
      BY <3>3
  <2> HIDE DEF stop
  <2>8. piece(stop) \in Seq(Characters)
    <3>1. size + 1 \in 1 .. Len(name) + 1 /\ size + stop \in 0 .. Len(name)
      BY <1>1, <2>5, <2>6, <2>7
    <3> HIDE DEF size
    <3> QED
      BY <2>5, <3>1, PieceIs
  <2>9. after(stop) \in Edited
    <3> HIDE DEF piece
    <3> QED
      BY <2>8, InsertStringEdited
  <2>10. BLANK \in Characters
    BY ShellAssumption DEF Characters
  <2>11. line_insert(after(stop), BLANK) \in Edited
    <3> HIDE DEF after
    <3> QED
      BY <2>9, <2>10, InsertEdited
  <2>12. auto_complete_command(l) = IF mismatch(stop) THEN [line |-> after(stop), listed |-> stop = 0]
                                    ELSE [line |-> line_insert(after(stop), BLANK), listed |-> FALSE]
    BY <1>3 DEF auto_complete_command, matching, first, name, stop
  <2> HIDE DEF after, mismatch
  <2> QED
    BY <2>9, <2>11, <2>12
<1> QED
  BY <1>2, <1>3

-----------------------------------------------------------------------------
(* The invariant: the history is sound, the match is the latest, and the line *)
(* that is saved is the one that was edited when the walk began.             *)

ShellInv ==
  /\ HistoryIsSound
  /\ MatchIsLatest
  /\ current # 0 => saved = origin

LEMMA LineEdited ==
  ASSUME TypeOK
  PROVE  line \in Edited
BY DEF TypeOK, Edited

\* Editing, and everything else that leaves the history and the search alone.
LEMMA FinishInv ==
  ASSUME ShellInv, NEW l \in Edited, line' = l, mode' = "line",
         UNCHANGED <<historyVars, searchVars>>
  PROVE  ShellInv'
<1>1. /\ history' = history /\ current' = current /\ saved' = saved /\ lineValid' = lineValid
      /\ origin' = origin /\ pattern' = pattern /\ match' = match
  BY DEF historyVars, searchVars
<1>2. TypeOK'
  BY <1>1 DEF ShellInv, HistoryIsSound, TypeOK, Edited
<1> QED
  BY <1>1, <1>2 DEF ShellInv, HistoryIsSound, MatchIsLatest

LEMMA EditingInv ==
  ASSUME ShellInv,
         \/ handle_tab \/ handle_carrige_return \/ handle_backspace
         \/ handle_ctrl_a \/ handle_ctrl_e \/ handle_ctrl_d \/ handle_ctrl_k \/ handle_ctrl_t
         \/ AltD \/ Home \/ End \/ ArrowRight \/ ArrowLeft \/ UnknownSequence
         \/ \E ch \in Printable \cup Unprintable : handle_other(ch)
  PROVE  ShellInv'
<1>1. line \in Edited
  BY LineEdited DEF ShellInv, HistoryIsSound
<1>2. ASSUME NEW l \in Edited, NEW t, Editing, Finish(l, t) PROVE ShellInv'
  <2>1. line' = l /\ mode' = "line" /\ UNCHANGED <<historyVars, searchVars>>
    BY <1>2 DEF Editing, Finish
  <2> QED
    BY <2>1, FinishInv
<1>3. 1 \in Int /\ -1 \in Int /\ 0 \in Int
  OBVIOUS
<1>4. CASE handle_tab
  <2>1. auto_complete_command(line).line \in Edited
    BY <1>1, CompleteEdited
  <2> QED
    BY <1>2, <1>4, <2>1 DEF handle_tab
<1>5. CASE handle_carrige_return \/ UnknownSequence
  BY <1>1, <1>2, <1>5 DEF handle_carrige_return, UnknownSequence
<1>6. CASE handle_backspace
  <2>1. (IF line.cursor = 0 THEN line ELSE line_delete(line_seek(line, -1))) \in Edited
    <3>1. line_seek(line, -1) \in Edited
      BY <1>1, <1>3, SeekEdited
    <3> QED
      BY <1>1, <3>1, DeleteEdited
  <2> QED
    BY <1>2, <1>6, <2>1 DEF handle_backspace
<1>7. CASE handle_ctrl_a \/ Home
  <2>1. line_seek_begin(line) \in Edited
    BY <1>1, <1>3, SeekEdited
  <2> QED
    BY <1>2, <1>7, <2>1 DEF handle_ctrl_a, Home
<1>8. CASE handle_ctrl_e \/ End
  <2>1. line_seek_end(line) \in Edited
    BY <1>1, <1>3, SeekEdited
  <2> QED
    BY <1>2, <1>8, <2>1 DEF handle_ctrl_e, End
<1>9. CASE handle_ctrl_d
  <2>1. line_delete(line) \in Edited
    BY <1>1, DeleteEdited
  <2> QED
    BY <1>2, <1>9, <2>1 DEF handle_ctrl_d
<1>10. CASE handle_ctrl_k
  <2>1. line_truncate(line) \in Edited
    BY <1>1, TruncateEdited
  <2> QED
    BY <1>2, <1>10, <2>1 DEF handle_ctrl_k
<1>11. CASE handle_ctrl_t
  <2> DEFINE l == IF line.cursor = Len(line.buf) THEN line_seek(line, -1) ELSE line
             swapped == line_seek(line_insert(line_seek(line_delete(l), -1), l.buf[l.cursor + 1]), 1)
             new == IF line.cursor = 0 \/ Len(line.buf) < 2 THEN line ELSE swapped
  <2>1. new \in Edited
    <3>1. CASE line.cursor = 0 \/ Len(line.buf) < 2
      BY <1>1, <3>1
    <3>2. CASE ~(line.cursor = 0 \/ Len(line.buf) < 2)
      <4>1. line.cursor # 0 /\ Len(line.buf) >= 2
        BY <1>1, <3>2, EditedIs
      <4>2. swapped \in Edited
        BY <1>1, <4>1, SwapEdited
      <4> HIDE DEF swapped
      <4> QED
        BY <3>2, <4>2
    <3> QED
      BY <3>1, <3>2
  <2>2. Editing /\ Finish(new, term)
    BY <1>11 DEF handle_ctrl_t
  <2> HIDE DEF new
  <2> QED
    BY <1>2, <2>1, <2>2
<1>12. CASE AltD
  <2>1. DeleteWord(line) \in Edited
    BY <1>1, DeleteWordEdited
  <2> QED
    BY <1>2, <1>12, <2>1 DEF AltD
<1>13. CASE ArrowRight \/ ArrowLeft
  <2>1. line_seek(line, 1) \in Edited /\ line_seek(line, -1) \in Edited
    BY <1>1, <1>3, SeekEdited
  <2> QED
    BY <1>2, <1>13, <2>1 DEF ArrowRight, ArrowLeft
<1>14. ASSUME NEW ch \in Printable \cup Unprintable, handle_other(ch) PROVE ShellInv'
  <2>1. line_insert(line, ch) \in Edited
    BY <1>1, InsertEdited DEF Characters
  <2> QED
    BY <1>2, <1>14, <2>1 DEF handle_other
<1> QED
  BY <1>4, <1>5, <1>6, <1>7, <1>8, <1>9, <1>10, <1>11, <1>12, <1>13, <1>14

\* A line that was read is appended to the history, unless it is at its end.
LEMMA HistoryAppendIs ==
  ASSUME HistoryIsSound, NEW b \in Buffers, b # <<>>, NEW allocated \in BOOLEAN
  PROVE  LET h == history_append(b, allocated)
         IN  /\ h \in Seq(Buffers) /\ Len(h) <= MAXIMUM_HISTORY_LENGTH
             /\ \A i \in 1 .. Len(h) : h[i] # <<>>
             /\ \A i \in 2 .. Len(h) : h[i] # h[i - 1]
<1> DEFINE room == IF Len(history) = MAXIMUM_HISTORY_LENGTH THEN Tail(history) ELSE history
           n == Len(room)
           new == Append(room, b)
<1>1. /\ history \in Seq(Buffers) /\ Len(history) \in Nat /\ Len(history) <= MAXIMUM_HISTORY_LENGTH
      /\ MAXIMUM_HISTORY_LENGTH \in Nat \ {0}
      /\ \A i \in 1 .. Len(history) : history[i] # <<>>
      /\ \A i \in 2 .. Len(history) : history[i] # history[i - 1]
  BY ShellAssumption DEF HistoryIsSound, TypeOK
<1>2. /\ room \in Seq(Buffers) /\ n \in Nat /\ n + 1 <= MAXIMUM_HISTORY_LENGTH
      /\ \A i \in 1 .. n : room[i] # <<>>
      /\ \A i \in 2 .. n : room[i] # room[i - 1]
      /\ n # 0 => history # <<>> /\ room[n] = Last(history)
  <2>1. CASE Len(history) = MAXIMUM_HISTORY_LENGTH
    <3>1. history # <<>>
      BY <1>1, <2>1, EmptySeq
    <3>2. /\ Tail(history) \in Seq(Buffers) /\ Len(Tail(history)) = Len(history) - 1
          /\ \A i \in 1 .. Len(history) - 1 : Tail(history)[i] = history[i + 1]
      BY <1>1, <3>1, HeadTailProperties
    <3> DEFINE t == Tail(history)
               m == Len(history)
    <3> HIDE DEF t
    <3>3. room = t
      BY <2>1 DEF t
    <3>4. \A i \in 1 .. m - 1 : i + 1 \in 1 .. m /\ t[i] = history[i + 1]
      BY <1>1, <3>2 DEF t
    <3>5. ASSUME NEW i \in 2 .. m - 1 PROVE t[i] # t[i - 1]
      <4>1. i \in 1 .. m - 1 /\ i - 1 \in 1 .. m - 1 /\ (i - 1) + 1 = i /\ i + 1 \in 2 .. m /\ (i + 1) - 1 = i
        BY <1>1
      <4>2. t[i] = history[i + 1] /\ t[i - 1] = history[i]
        BY <3>4, <4>1
      <4>3. history[i + 1] # history[i]
        BY <1>1, <4>1
      <4> QED
        BY <4>2, <4>3
    <3>6. m - 1 # 0 => t[m - 1] = Last(history)
      <4> SUFFICES ASSUME m - 1 # 0 PROVE t[m - 1] = Last(history)
        OBVIOUS
      <4>1. m - 1 \in 1 .. m - 1 /\ (m - 1) + 1 = m
        BY <1>1, <2>1
      <4> QED
        BY <3>4, <4>1 DEF Last
    <3>7. m - 1 \in Nat /\ (m - 1) + 1 <= MAXIMUM_HISTORY_LENGTH
      BY <1>1, <2>1
    <3>8. t \in Seq(Buffers) /\ Len(t) = m - 1
      BY <3>2 DEF t
    <3>9. \A i \in 1 .. m - 1 : t[i] # <<>>
      BY <1>1, <3>4
    <3> HIDE DEF room
    <3> QED
      BY <3>1, <3>3, <3>5, <3>6, <3>7, <3>8, <3>9
  <2>2. CASE Len(history) # MAXIMUM_HISTORY_LENGTH
    <3>1. room = history
      BY <2>2
    <3> HIDE DEF room
    <3> QED
      BY <1>1, <2>2, <3>1, EmptySeq DEF Last
  <2> QED
    BY <2>1, <2>2
<1> HIDE DEF room
<1>3. CASE history # <<>> /\ Last(history) = b
  <2>1. history_append(b, allocated) = history
    BY <1>3 DEF history_append
  <2> QED
    BY <1>1, <2>1
<1>4. CASE ~(history # <<>> /\ Last(history) = b) /\ allocated
  <2>1. history_append(b, allocated) = new
    BY <1>4 DEF history_append, room
  <2>2. /\ new \in Seq(Buffers) /\ Len(new) = n + 1 /\ new[n + 1] = b
        /\ \A i \in 1 .. n : new[i] = room[i]
    BY <1>2, AppendProperties
  <2> HIDE DEF new
  <2>3. ASSUME NEW i \in 1 .. n + 1 PROVE new[i] # <<>>
    <3>1. CASE i = n + 1
      BY <2>2, <3>1
    <3>2. CASE i # n + 1
      <4>1. i \in 1 .. n
        BY <1>2, <3>2
      <4> QED
        BY <1>2, <2>2, <4>1
    <3> QED
      BY <3>1, <3>2
  <2>4. ASSUME NEW i \in 2 .. n + 1 PROVE new[i] # new[i - 1]
    <3>1. CASE i = n + 1
      <4>1. n \in 1 .. n /\ i - 1 = n /\ n # 0
        BY <1>2, <3>1
      <4> QED
        BY <1>2, <1>4, <2>2, <3>1, <4>1
    <3>2. CASE i # n + 1
      <4>1. i \in 2 .. n /\ i \in 1 .. n /\ i - 1 \in 1 .. n
        BY <1>2, <3>2
      <4> QED
        BY <1>2, <2>2, <4>1
    <3> QED
      BY <3>1, <3>2
  <2> QED
    BY <1>2, <2>1, <2>2, <2>3, <2>4
<1>5. CASE ~(history # <<>> /\ Last(history) = b) /\ ~allocated
  <2>1. history_append(b, allocated) = room
    BY <1>5 DEF history_append, room
  <2>2. n <= MAXIMUM_HISTORY_LENGTH
    BY <1>1, <1>2
  <2> QED
    BY <1>2, <2>1, <2>2
<1> QED
  BY <1>3, <1>4, <1>5

\* The next line is empty, and its mode is not that of a search.
LEMMA ExecuteInv ==
  ASSUME ShellInv, NEW l \in Edited, execute_line(l), {pattern', match'} \subseteq Buffers
  PROVE  ShellInv'
<1>1. /\ current' = 0 /\ origin' = <<>> /\ saved' = saved /\ lineValid' = lineValid
      /\ line' = line_init /\ mode' \in {"ended", "line"}
  BY DEF execute_line, shell_main
<1>2. l.buf \in Buffers
  BY EditedIs
<1>3. PICK allocated \in {TRUE, ~MallocFails} :
        history' = IF l.buf = <<>> THEN history ELSE history_append(l.buf, allocated)
  BY DEF execute_line
<1>4. allocated \in BOOLEAN
  BY ShellAssumption
<1>5. /\ history' \in Seq(Buffers) /\ Len(history') <= MAXIMUM_HISTORY_LENGTH
      /\ \A i \in 1 .. Len(history') : history'[i] # <<>>
      /\ \A i \in 2 .. Len(history') : history'[i] # history'[i - 1]
  <2>1. CASE l.buf = <<>>
    <3>1. history' = history
      BY <1>3, <2>1
    <3> QED
      BY <3>1 DEF ShellInv, HistoryIsSound, TypeOK
  <2>2. CASE l.buf # <<>>
    <3>1. history' = history_append(l.buf, allocated)
      BY <1>3, <2>2
    <3> QED
      BY <1>2, <1>4, <2>2, <3>1, HistoryAppendIs DEF ShellInv
  <2> QED
    BY <2>1, <2>2
<1>6. current' \in 0 .. Len(history')
  BY <1>1, <1>5
<1>7. TypeOK'
  BY <1>1, <1>5, <1>6, EmptyBuffer DEF ShellInv, HistoryIsSound, TypeOK, Edited
<1> QED
  BY <1>1, <1>5, <1>7 DEF ShellInv, HistoryIsSound, MatchIsLatest

\* The search returns the latest element of the history with the pattern in it.
LEMMA ReverseSearchIs ==
  ASSUME TypeOK, NEW p
  PROVE  LET found == {i \in 1 .. Len(history) : p \in SubSeqs(history[i])}
         IN  /\ history_reverse_search(p) = IF found = {} THEN <<>> ELSE history[Max(found)]
             /\ history_reverse_search(p) \in Buffers
<1> DEFINE found == {i \in 1 .. Len(history) : p \in SubSeqs(history[i])}
           at == IF found # {} THEN Max(found) ELSE 0
<1>1. history \in Seq(Buffers) /\ Len(history) \in Nat
  BY DEF TypeOK
<1>2. SelectLastInSeq(history, LAMBDA h : p \in SubSeqs(h)) = at
  BY DEF SelectLastInSeq
<1>3. history_reverse_search(p) = IF at = 0 THEN <<>> ELSE history[at]
  BY <1>2 DEF history_reverse_search
<1>4. CASE found = {}
  BY <1>3, <1>4, EmptyBuffer
<1>5. CASE found # {}
  <2>1. found \in SUBSET (0 .. Len(history)) /\ found \subseteq 1 .. Len(history)
    OBVIOUS
  <2> HIDE DEF found
  <2>2. Max(found) \in found
    BY <1>1, <1>5, <2>1, MaxIs
  <2>3. at = Max(found) /\ at # 0 /\ at \in 1 .. Len(history)
    <3>1. Max(found) \in 1 .. Len(history)
      BY <2>1, <2>2
    <3>2. Max(found) # 0
      BY <1>1, <3>1
    <3> QED
      BY <1>5, <3>1, <3>2
  <2>4. history[at] \in Buffers
    BY <1>1, <2>3
  <2> HIDE DEF at
  <2> QED
    BY <1>3, <1>5, <2>3, <2>4 DEF found
<1> QED
  BY <1>4, <1>5

LEMMA UpInv ==
  ASSUME ShellInv, Up
  PROVE  ShellInv'
<1>1. /\ history \in Seq(Buffers) /\ Len(history) \in Nat /\ current \in 0 .. Len(history)
      /\ line \in Edited /\ line.buf \in Buffers
  BY LineEdited, EditedIs DEF ShellInv, HistoryIsSound, TypeOK
<1>2. /\ mode = "line" /\ history' = history /\ pattern' = pattern /\ match' = match
  BY DEF Up, searchVars
<1>3. Min({1, Len(history)}) = IF 1 <= Len(history) THEN 1 ELSE Len(history)
  BY <1>1, MinOfTwo
<1>4. CASE /\ history_get_previous_command
           /\ Finish(Recall(history[current']), term)
           /\ origin' = IF current = 0 THEN line.buf ELSE origin
  <2>1. /\ current # Min({1, Len(history)})
        /\ current' = IF current = 0 THEN Len(history) ELSE current - 1
        /\ IF current = 0 THEN saved' = line.buf /\ lineValid' = TRUE
           ELSE saved' = saved /\ lineValid' = lineValid
    BY <1>4 DEF history_get_previous_command
  <2>2. current' \in 1 .. Len(history)
    BY <1>1, <1>3, <2>1
  <2>3. history[current'] \in Buffers
    BY <1>1, <2>2
  <2>4. line' = Recall(history[current']) /\ mode' = "line"
    BY <1>4 DEF Finish
  <2>5. line' \in Edited
    BY <2>3, <2>4, RecallIs, AtEndEdited
  <2>6. saved' = origin' /\ saved' \in Buffers /\ lineValid' = TRUE
    <3>1. CASE current = 0
      BY <1>1, <1>4, <2>1, <3>1
    <3>2. CASE current # 0
      BY <1>4, <2>1, <3>2 DEF ShellInv, HistoryIsSound, TypeOK
    <3> QED
      BY <3>1, <3>2
  <2>7. TypeOK'
    BY <1>1, <1>2, <2>2, <2>4, <2>5, <2>6 DEF ShellInv, HistoryIsSound, TypeOK, Edited
  <2> QED
    BY <1>2, <2>4, <2>6, <2>7 DEF ShellInv, HistoryIsSound, MatchIsLatest
<1>5. CASE /\ Finish(line, term)
           /\ UNCHANGED <<current, saved, lineValid, origin>>
  BY <1>1, <1>2, <1>5, FinishInv DEF Finish, historyVars, searchVars
<1> QED
  BY <1>4, <1>5 DEF Up

LEMMA DownInv ==
  ASSUME ShellInv, Down
  PROVE  ShellInv'
<1> DEFINE next == IF current \in {0, Len(history)} THEN 0 ELSE current + 1
<1>1. /\ history \in Seq(Buffers) /\ Len(history) \in Nat /\ current \in 0 .. Len(history)
      /\ line \in Edited /\ saved \in Buffers /\ lineValid \in BOOLEAN
  BY LineEdited DEF ShellInv, HistoryIsSound, TypeOK
<1>2. /\ mode = "line" /\ history' = history /\ pattern' = pattern /\ match' = match
      /\ current' = next
      /\ saved' = IF next = 0 THEN <<>> ELSE saved
      /\ origin' = IF next = 0 THEN <<>> ELSE origin
  BY DEF Down, searchVars
<1>3. next \in 0 .. Len(history) /\ (next # 0 => current # 0 /\ next \in 1 .. Len(history))
  BY <1>1
<1>4. CASE next # 0
  <2>1. line' = Recall(history[next]) /\ mode' = "line" /\ lineValid' = lineValid
    BY <1>4 DEF Down, Finish
  <2>2. history[next] \in Buffers
    BY <1>1, <1>3, <1>4
  <2>3. line' \in Edited
    BY <2>1, <2>2, RecallIs, AtEndEdited
  <2> HIDE DEF next
  <2>4. TypeOK'
    BY <1>1, <1>2, <1>3, <1>4, <2>1, <2>3 DEF ShellInv, HistoryIsSound, TypeOK, Edited
  <2> QED
    BY <1>2, <1>3, <1>4, <2>1, <2>4 DEF ShellInv, HistoryIsSound, MatchIsLatest
<1>5. CASE next = 0
  <2>1. /\ line' = IF lineValid THEN Recall(saved) ELSE line
        /\ mode' = "line" /\ lineValid' = FALSE
    BY <1>5 DEF Down, Finish
  <2>2. line' \in Edited
    <3>1. Recall(saved) \in Edited
      BY <1>1, RecallIs, AtEndEdited
    <3> QED
      BY <1>1, <2>1, <3>1
  <2> HIDE DEF next
  <2>3. TypeOK'
    <3>1. line' \in [buf : Buffers, cursor : 0 .. Room] /\ line'.cursor <= Len(line'.buf)
      BY <2>2 DEF Edited
    <3>2. saved' = <<>> /\ origin' = <<>> /\ current' = 0 /\ <<>> \in Buffers
      BY <1>2, <1>5, EmptyBuffer
    <3>3. {saved', pattern', match', origin'} \subseteq Buffers
      BY <1>2, <3>2 DEF ShellInv, HistoryIsSound, TypeOK
    <3>4. history' \in Seq(Buffers) /\ current' \in 0 .. Len(history')
      BY <1>1, <1>2, <3>2
    <3> QED
      BY <2>1, <3>1, <3>3, <3>4 DEF TypeOK
  <2> QED
    BY <1>2, <1>5, <2>1, <2>3 DEF ShellInv, HistoryIsSound, MatchIsLatest
<1> QED
  BY <1>4, <1>5

\* The pattern changes and is looked for again.
LEMMA SearchInv ==
  ASSUME ShellInv, mode = "search", pattern' \in Buffers,
         match' = history_reverse_search(pattern'), UNCHANGED <<line, mode, historyVars>>
  PROVE  ShellInv'
<1>1. /\ history' = history /\ current' = current /\ saved' = saved /\ lineValid' = lineValid
      /\ origin' = origin /\ line' = line /\ mode' = mode
  BY DEF historyVars
<1>2. TypeOK
  BY DEF ShellInv, HistoryIsSound
<1> DEFINE found == {i \in 1 .. Len(history) : pattern' \in SubSeqs(history[i])}
<1>3. match' = (IF found = {} THEN <<>> ELSE history[Max(found)]) /\ match' \in Buffers
  BY <1>2, ReverseSearchIs
<1>4. TypeOK'
  BY <1>1, <1>2, <1>3 DEF TypeOK
<1>5. MatchIsLatest'
  BY <1>1, <1>3 DEF MatchIsLatest
<1> QED
  BY <1>1, <1>4, <1>5 DEF ShellInv, HistoryIsSound

LEMMA SearchingInv ==
  ASSUME ShellInv, SearchDelete \/ \E ch \in Printable : SearchInsert(ch)
  PROVE  ShellInv'
<1>1. pattern \in Seq(Characters) /\ Len(pattern) \in 0 .. Room /\ Room \in Nat
  BY BufferIs DEF ShellInv, HistoryIsSound, TypeOK
<1>2. CASE SearchDelete
  <2>1. pattern # <<>> /\ pattern' = SubSeq(pattern, 1, Len(pattern) - 1)
    BY <1>2 DEF SearchDelete, Front
  <2>2. Len(pattern) - 1 \in 0 .. Len(pattern) /\ 1 \in 1 .. Len(pattern) + 1
    BY <1>1, <2>1, EmptySeq
  <2>3. pattern' \in Seq(Characters) /\ Len(pattern') \in 0 .. Room
    BY <1>1, <2>1, <2>2, PieceIs
  <2>4. pattern' \in Buffers
    BY <2>3, BufferIs
  <2> QED
    BY <1>2, <2>4, SearchInv DEF SearchDelete
<1>3. ASSUME NEW ch \in Printable, SearchInsert(ch) PROVE ShellInv'
  <2>1. pattern' = Append(pattern, ch) /\ Len(pattern) < Room /\ ch \in Characters
    BY <1>3 DEF SearchInsert, Characters
  <2>2. pattern' \in Seq(Characters) /\ Len(pattern') \in 0 .. Room
    BY <1>1, <2>1, AppendProperties
  <2>3. pattern' \in Buffers
    BY <2>2, BufferIs
  <2> QED
    BY <1>3, <2>3, SearchInv DEF SearchInsert
<1> QED
  BY <1>2, <1>3

LEMMA SearchEndInv ==
  ASSUME ShellInv, SearchAbort \/ SearchAccept
  PROVE  ShellInv'
<1>1. line \in Edited /\ AtEnd(match) \in Edited
  BY LineEdited, AtEndEdited DEF ShellInv, HistoryIsSound, TypeOK
<1>2. PICK l \in Edited : SearchEnd(l)
  BY <1>1 DEF SearchAbort, SearchAccept
<1>3. /\ line' = l /\ mode' = "line" /\ pattern' = <<>> /\ match' = <<>>
      /\ history' = history /\ current' = current /\ saved' = saved /\ lineValid' = lineValid
      /\ origin' = origin
  BY <1>2 DEF SearchEnd, Finish, historyVars
<1>4. TypeOK'
  BY <1>3, EmptyBuffer DEF ShellInv, HistoryIsSound, TypeOK, Edited
<1> QED
  BY <1>3, <1>4 DEF ShellInv, HistoryIsSound, MatchIsLatest

\* No line and no history: when the shell starts, and when it has ended.
Nothing ==
  /\ line = line_init /\ mode \in {"line", "exited"} /\ history = <<>> /\ current = 0
  /\ saved = <<>> /\ lineValid = FALSE /\ pattern = <<>> /\ match = <<>> /\ origin = <<>>

LEMMA NothingInv == Nothing => ShellInv
<1> SUFFICES ASSUME Nothing PROVE ShellInv
  OBVIOUS
<1>1. <<>> \in Seq(Buffers) /\ Len(<<>>) = 0 /\ MAXIMUM_HISTORY_LENGTH \in Nat
  BY EmptySeq, ShellAssumption
<1>2. TypeOK
  <2>1. line \in [buf : Buffers, cursor : 0 .. Room] /\ line.cursor <= Len(line.buf)
    BY EmptyBuffer DEF Nothing, Edited
  <2>2. history \in Seq(Buffers) /\ current \in 0 .. Len(history)
    BY <1>1 DEF Nothing
  <2> QED
    BY <2>1, <2>2, EmptyBuffer DEF Nothing, TypeOK
<1>3. HistoryIsSound
  BY <1>1, <1>2 DEF Nothing, HistoryIsSound
<1> QED
  BY <1>3 DEF Nothing, ShellInv, MatchIsLatest

LEMMA ShellStepInv == ShellInv /\ [Next]_vars => ShellInv'
<1> SUFFICES ASSUME ShellInv, [Next]_vars PROVE ShellInv'
  OBVIOUS
<1>1. TypeOK /\ line \in Edited /\ match \in Buffers
  BY LineEdited DEF ShellInv, HistoryIsSound, TypeOK
<1>2. CASE handle_newline
  <2>1. execute_line(line) /\ {pattern', match'} \subseteq Buffers
    BY <1>1, <1>2 DEF handle_newline, searchVars, TypeOK
  <2> QED
    BY <1>1, <2>1, ExecuteInv
<1>3. CASE SearchNewline
  <2>1. execute_line(AtEnd(match)) /\ {pattern', match'} \subseteq Buffers
    BY <1>3, EmptyBuffer DEF SearchNewline
  <2> QED
    BY <1>1, <2>1, AtEndEdited, ExecuteInv
<1>4. CASE handle_ctrl_r
  <2>1. /\ mode' = "search" /\ pattern' = <<>> /\ match' = <<>> /\ line' = line
        /\ history' = history /\ current' = current /\ saved' = saved /\ lineValid' = lineValid
        /\ origin' = origin
    BY <1>4 DEF handle_ctrl_r, historyVars
  <2>2. TypeOK'
    BY <1>1, <2>1, EmptyBuffer DEF TypeOK
  <2> QED
    BY <2>1, <2>2 DEF ShellInv, HistoryIsSound, MatchIsLatest
<1>5. CASE xgetc_eof
  <2>1. Nothing'
    BY <1>5 DEF xgetc_eof, Nothing
  <2>2. Nothing' => ShellInv'
    BY NothingInv, PTL
  <2> QED
    BY <2>1, <2>2
<1>6. CASE SearchCarriageReturn \/ UNCHANGED vars
  BY <1>6 DEF SearchCarriageReturn, vars, historyVars, searchVars, ShellInv, HistoryIsSound,
              MatchIsLatest, TypeOK
<1> QED
  BY <1>2, <1>3, <1>4, <1>5, <1>6, EditingInv, UpInv, DownInv, SearchingInv, SearchEndInv DEF Next

LEMMA ShellInitInv == Init => ShellInv
BY NothingInv DEF Init, Nothing

\* Every line fits in its buffer with the terminating null; the history stays
\* within its limit, with no empty line and none twice in a row, also when
\* memory is short; and a walk through it has a line to come back to.
THEOREM HistoryStaysSound == Spec => []HistoryIsSound
<1>1. ShellInv => HistoryIsSound
  BY DEF ShellInv
<1> QED
  BY <1>1, ShellInitInv, ShellStepInv, PTL DEF Spec

\* What a search shows is the latest command with the pattern in it, after every
\* key.
THEOREM MatchStaysLatest == Spec => []MatchIsLatest
<1>1. ShellInv => MatchIsLatest
  BY DEF ShellInv
<1> QED
  BY <1>1, ShellInitInv, ShellStepInv, PTL DEF Spec

\* A DOWN that leaves the history brings back the line that was edited when it
\* was entered, for the copy that was saved then has not changed since.
THEOREM DownAlwaysReturns == Spec => DownReturns
<1>1. ASSUME ShellInv, current # 0, current' = 0, Down
      PROVE  line' = AtEnd(origin)
  <2>1. /\ lineValid /\ saved = origin /\ saved \in Buffers
        /\ current \in 0 .. Len(history) /\ Len(history) \in Nat
    BY <1>1 DEF ShellInv, HistoryIsSound, TypeOK
  <2>2. line' = Recall(saved)
    BY <1>1, <2>1 DEF Down, Finish
  <2> QED
    BY <2>1, <2>2, RecallIs
<1>2. ShellInv /\ [Next]_vars => [current # 0 /\ current' = 0 /\ Down => line' = AtEnd(origin)]_vars
  BY <1>1
<1> QED
  BY <1>2, ShellInitInv, ShellStepInv, PTL DEF Spec, DownReturns

-----------------------------------------------------------------------------
(* Completion                                                                *)

Begins(p, s) == Len(p) <= Len(s) /\ \A i \in 1 .. Len(p) : p[i] = s[i]

LEMMA TakeIs ==
  ASSUME NEW C, NEW s \in Seq(C), NEW n \in Nat
  PROVE  /\ Take(s, n) \in Seq(C)
         /\ Len(Take(s, n)) = IF n <= Len(s) THEN n ELSE Len(s)
         /\ \A i \in 1 .. Len(Take(s, n)) : Take(s, n)[i] = s[i]
<1> DEFINE m == Min({n, Len(s)})
<1>1. m = (IF n <= Len(s) THEN n ELSE Len(s)) /\ Len(s) \in Nat
  BY MinOfTwo
<1>2. Take(s, n) = SubSeq(s, 1, m)
  BY DEF Take
<1> HIDE DEF m
<1>3. m \in 0 .. Len(s) /\ 1 \in 1 .. Len(s) + 1
  BY <1>1
<1>4. /\ SubSeq(s, 1, m) \in Seq(C)
      /\ Len(SubSeq(s, 1, m)) = IF 1 <= m THEN m - 1 + 1 ELSE 0
      /\ \A i \in 1 .. m - 1 + 1 : SubSeq(s, 1, m)[i] = s[1 + i - 1]
  BY <1>3, PieceIs
<1>5. Len(SubSeq(s, 1, m)) = m /\ m - 1 + 1 = m
  BY <1>1, <1>3, <1>4
<1>6. \A i \in 1 .. m : 1 + i - 1 = i
  BY <1>1, <1>3
<1> QED
  BY <1>1, <1>2, <1>4, <1>5, <1>6

\* Three ways to say that a sequence begins with another one.
LEMMA BeginsIs ==
  ASSUME NEW C, NEW p \in Seq(C), NEW s \in Seq(C)
  PROVE  /\ IsPrefix(p, s) <=> Begins(p, s)
         /\ Take(s, Len(p)) = p <=> Begins(p, s)
         /\ Take(p, Len(p)) = p
<1> DEFINE n == Len(p)
           t == Take(s, n)
<1>1. n \in Nat /\ Len(s) \in Nat
  OBVIOUS
<1>2. /\ t \in Seq(C) /\ Len(t) = IF n <= Len(s) THEN n ELSE Len(s)
      /\ \A i \in 1 .. Len(t) : t[i] = s[i]
  BY <1>1, TakeIs
<1>3. SubSeq(p, 1, n) = p
  BY SubSeqFull
<1>4. n <= Len(s) => t = SubSeq(s, 1, n)
  BY <1>1, MinOfTwo DEF Take
<1>5. Take(p, n) = p
  BY <1>1, <1>3, MinOfTwo DEF Take
<1>6. IsPrefix(p, s) <=> n <= Len(s) /\ t = p
  BY <1>3, <1>4 DEF IsPrefix
<1> HIDE DEF t
<1>7. t = p <=> Begins(p, s)
  <2>1. ASSUME t = p PROVE Begins(p, s)
    BY <1>1, <1>2, <2>1 DEF Begins
  <2>2. ASSUME Begins(p, s) PROVE t = p
    <3>1. Len(t) = n /\ \A i \in 1 .. n : t[i] = p[i]
      BY <1>1, <1>2, <2>2 DEF Begins
    <3> QED
      BY <1>2, <3>1, SeqEqual
  <2> QED
    BY <2>1, <2>2
<1>8. t = p => n <= Len(s)
  BY <1>1, <1>2
<1> QED
  BY <1>5, <1>6, <1>7, <1>8 DEF t

LEMMA NamesAre ==
  /\ Len(Names) \in Nat
  /\ \A i \in 1 .. Len(Names) :
       Names[i] \in Seq(Characters) /\ Len(Names[i]) \in Nat /\ Len(Names[i]) <= Room
BY ShellAssumption DEF Room

Beginning(p) == {i \in 1 .. Len(Names) : Begins(p, Names[i])}

LEMMA MatchingIs ==
  ASSUME NEW p \in Seq(Characters)
  PROVE  Matching(p, Len(p)) = Beginning(p)
<1>1. \A i \in 1 .. Len(Names) : Take(Names[i], Len(p)) = Take(p, Len(p)) <=> Begins(p, Names[i])
  BY NamesAre, BeginsIs
<1> QED
  BY <1>1 DEF Matching, Beginning

\* The names that begin with p are a run of the table.
LEMMA RunIs ==
  ASSUME NEW b \in Seq(Characters), NEW first \in Beginning(b),
         \A i \in Beginning(b) : first <= i,
         NEW p \in Seq(Characters), Begins(b, p), Begins(p, Names[first])
  PROVE  Run(first, p, Len(p)) = Beginning(p)
<1> DEFINE n == Len(p)
<1>1. first \in 1 .. Len(Names) /\ Len(Names) \in Nat /\ n \in Nat
  BY NamesAre DEF Beginning
<1>2. n <= Room /\ n \in 0 .. COMMAND_MAX
  BY <1>1, NamesAre, ShellAssumption DEF Begins, Room
<1>3. Run(first, p, n) = {i \in first .. Len(Names) : first .. i \subseteq Beginning(p)}
  BY MatchingIs DEF Run
<1>4. ASSUME NEW i \in Beginning(p) PROVE first <= i
  <2>1. Begins(b, Names[i])
    BY <1>4, NamesAre DEF Beginning, Begins
  <2> QED
    BY <1>4, <2>1 DEF Beginning
<1>5. ASSUME NEW i \in Beginning(p), NEW j \in first .. i PROVE j \in Beginning(p)
  <2>1. i \in 1 .. Len(Names) /\ j \in 1 .. Len(Names) /\ first <= j /\ j <= i
    BY <1>1, <1>5 DEF Beginning
  <2>2. Take(Names[first], n) = p /\ Take(Names[i], n) = p
    BY <1>1, <1>5, <2>1, NamesAre, BeginsIs DEF Beginning
  <2>3. Take(Names[j], n) = p
    BY <1>1, <1>2, <2>1, <2>2, ShellAssumption
  <2>4. Begins(p, Names[j])
    BY <2>1, <2>3, NamesAre, BeginsIs
  <2> QED
    BY <2>1, <2>4 DEF Beginning
<1>6. \A i \in Beginning(p) : i \in first .. Len(Names)
  BY <1>1, <1>4 DEF Beginning
<1>7. \A i \in first .. Len(Names) : first .. i \subseteq Beginning(p) => i \in Beginning(p)
  BY <1>1
<1> QED
  BY <1>3, <1>5, <1>6, <1>7

\* What the names that begin with b have in common is c: they begin with it, and
\* two of them go on differently, or one of them ends, if there are two.
Common(b, c) ==
  /\ c \in Buffers /\ Begins(b, c)
  /\ \A i \in Beginning(b) : Begins(c, Names[i])
  /\ \A q \in Seq(Characters) : (\A i \in Beginning(b) : Begins(q, Names[i])) => Len(q) <= Len(c)

\* TAB at the end of b.
LEMMA CompletionIs ==
  ASSUME NEW b \in Buffers, Beginning(b) # {}
  PROVE  \E c : /\ Common(b, c)
                /\ auto_complete_command(AtEnd(b)).line
                     = IF \A i, j \in Beginning(b) : Names[i] = Names[j]
                       THEN line_insert(AtEnd(c), BLANK) ELSE AtEnd(c)
<1> DEFINE l == AtEnd(b)
           size == Len(b)
           matching == Matching(b, size)
           first == Min(matching)
           name == Names[first]
           n == Len(name)
           piece(k) == SubSeq(name, size + 1, size + k)
           part(k) == SubSeq(name, 1, size + k)
           after(k) == line_insert_string(l, piece(k))
           mismatch(k) == \E i \in Run(first, after(k).buf, size + k) :
                            CharAt(Names[i], size + k) # CharAt(name, size + k)
           stops == {k \in 0 .. n - size : mismatch(k) \/ size + k = n}
           stop == Min(stops)
<1>1. b \in Seq(Characters) /\ size \in Nat /\ Room \in Nat /\ l.buf = b
  BY BufferIs DEF AtEnd
<1>2. auto_complete_command(l) = IF mismatch(stop) THEN [line |-> after(stop), listed |-> stop = 0]
                                 ELSE [line |-> line_insert(after(stop), BLANK), listed |-> FALSE]
  <2>1. matching # {}
    BY <1>1, MatchingIs
  <2>2. Matching(l.buf, Len(l.buf)) = matching
    BY <1>1
  <2> QED
    BY <1>1, <2>1, <2>2 DEF auto_complete_command
<1>3. first \in Beginning(b) /\ \A i \in Beginning(b) : first <= i
  <2>1. matching = Beginning(b)
    BY <1>1, MatchingIs
  <2>2. Beginning(b) \in SUBSET Nat
    BY DEF Beginning
  <2> QED
    BY <2>1, <2>2, MinIs
<1> HIDE DEF first, matching
<1>4. /\ name \in Seq(Characters) /\ n \in Nat /\ size <= n /\ n <= Room
      /\ first \in 1 .. Len(Names) /\ Begins(b, name)
  BY <1>3, NamesAre DEF Beginning, Begins
<1> HIDE DEF name
<1>5. \A k \in 0 .. n - size :
        /\ part(k) \in Seq(Characters) /\ Len(part(k)) = size + k
        /\ \A i \in 1 .. size + k : part(k)[i] = name[i]
  <2> TAKE k \in 0 .. n - size
  <2>1. 1 \in 1 .. n + 1 /\ size + k \in 0 .. n /\ size + k \in Nat
    BY <1>1, <1>4
  <2> DEFINE m == size + k
  <2> HIDE DEF m, size
  <2>2. /\ SubSeq(name, 1, m) \in Seq(Characters)
        /\ Len(SubSeq(name, 1, m)) = IF 1 <= m THEN m - 1 + 1 ELSE 0
        /\ \A i \in 1 .. m - 1 + 1 : SubSeq(name, 1, m)[i] = name[1 + i - 1]
    BY <1>4, <2>1, PieceIs DEF m
  <2>3. m \in Nat
    BY <2>1 DEF m
  <2>4. Len(SubSeq(name, 1, m)) = m /\ m - 1 + 1 = m
    BY <2>2, <2>3
  <2>5. \A i \in 1 .. m : 1 + i - 1 = i
    BY <2>3
  <2> QED
    BY <2>2, <2>4, <2>5 DEF m
<1>6. \A k \in 0 .. n - size : Begins(b, part(k)) /\ Begins(part(k), name)
  BY <1>1, <1>4, <1>5 DEF Begins
<1>7. \A k \in 0 .. n - size : after(k) = AtEnd(part(k))
  <2> TAKE k \in 0 .. n - size
  <2>1. /\ size + 1 \in 1 .. n + 1 /\ size + k \in 0 .. n /\ 1 \in 1 .. n + 1 /\ size \in 1 - 1 .. n
        /\ size + k \in size .. n
    BY <1>1, <1>4
  <2>2. piece(k) \in Seq(Characters) /\ Len(piece(k)) = k
    <3>1. /\ piece(k) \in Seq(Characters)
          /\ Len(piece(k)) = IF size + 1 <= size + k THEN (size + k) - (size + 1) + 1 ELSE 0
      <4> HIDE DEF size
      <4> QED
        BY <1>4, <2>1, PieceIs
    <3> QED
      BY <1>1, <3>1
  <2>3. part(k) = SubSeq(name, 1, size) \o piece(k)
    <3> HIDE DEF size
    <3> QED
      BY <1>4, <2>1, ConcatAdjacentSubSeq
  <2>4. SubSeq(name, 1, size) = b
    <3>1. size <= n => Take(name, size) = SubSeq(name, 1, size)
      BY <1>1, <1>4, MinOfTwo DEF Take
    <3>2. Take(name, size) = b
      BY <1>1, <1>4, BeginsIs
    <3> QED
      BY <1>4, <3>1, <3>2
  <2> HIDE DEF piece, part
  <2>5. Len(b) + Len(piece(k)) <= Room
    BY <1>1, <1>4, <2>1, <2>2
  <2> QED
    BY <1>1, <2>2, <2>3, <2>4, <2>5, InsertStringAtEnd
<1> HIDE DEF part, piece, after
<1>8. \A k \in 0 .. n - size :
        mismatch(k) <=> \E i \in Beginning(part(k)) : CharAt(Names[i], size + k) # CharAt(name, size + k)
  <2> TAKE k \in 0 .. n - size
  <2>1. after(k).buf = part(k)
    BY <1>7 DEF AtEnd
  <2>2. Run(first, part(k), size + k) = Beginning(part(k))
    BY <1>1, <1>3, <1>5, <1>6, RunIs DEF name
  <2> QED
    BY <2>1, <2>2
<1>9. stop \in 0 .. n - size /\ (mismatch(stop) \/ size + stop = n)
      /\ \A k \in 0 .. n - size : k < stop => ~mismatch(k) /\ size + k # n
  <2>1. n - size \in stops
    BY <1>1, <1>4
  <2>2. stops \in SUBSET Nat
    OBVIOUS
  <2>3. stop \in stops /\ \A k \in stops : stop <= k
    <3> HIDE DEF stops
    <3> QED
      BY <2>1, <2>2, MinIs
  <2> HIDE DEF mismatch, stop
  <2>4. stop \in Nat
    BY <2>2, <2>3
  <2> QED
    BY <2>3, <2>4
<1> HIDE DEF mismatch, stop, stops
\* Up to stop all the names agree.
<1> DEFINE V == {k \in Nat : k <= stop => Beginning(b) \subseteq Beginning(part(k))}
<1>10. 0 \in V
  <2>1. 0 \in 0 .. n - size
    BY <1>1, <1>4
  <2>2. /\ part(0) \in Seq(Characters) /\ Len(part(0)) = size
        /\ \A i \in 1 .. size : part(0)[i] = name[i]
    <3>1. size + 0 = size
      BY <1>1
    <3> QED
      BY <1>5, <2>1, <3>1
  <2>3. part(0) = b
    BY <1>1, <1>4, <2>2, SeqEqual DEF Begins
  <2> QED
    BY <2>3
<1>11. ASSUME NEW k \in V PROVE k + 1 \in V
  <2> SUFFICES ASSUME k + 1 <= stop, NEW i \in Beginning(b) PROVE i \in Beginning(part(k + 1))
    OBVIOUS
  <2>1. /\ k \in 0 .. n - size /\ k + 1 \in 0 .. n - size /\ k < stop /\ k <= stop
        /\ size + k \in Nat /\ size + (k + 1) = (size + k) + 1 /\ size + k # n
    BY <1>1, <1>4, <1>9
  <2>2. i \in Beginning(part(k)) /\ CharAt(Names[i], size + k) = CharAt(name, size + k)
    BY <1>8, <1>9, <2>1
  <2>3. size + k < n
    BY <1>4, <2>1
  <2>4. CharAt(name, size + k) = name[(size + k) + 1] /\ name[(size + k) + 1] \in Characters
    BY <1>4, <2>1, <2>3 DEF CharAt
  <2>5. /\ i \in 1 .. Len(Names) /\ Names[i] \in Seq(Characters) /\ Len(Names[i]) \in Nat
        /\ size + k <= Len(Names[i])
        /\ \A j \in 1 .. size + k : name[j] = Names[i][j]
    BY <1>5, <2>1, <2>2, NamesAre DEF Beginning, Begins
  <2>6. size + k < Len(Names[i])
    <3> SUFFICES ASSUME ~(size + k < Len(Names[i])) PROVE FALSE
      OBVIOUS
    <3>1. CharAt(Names[i], size + k) = NUL
      BY DEF CharAt
    <3> QED
      BY <2>2, <2>4, <3>1, ShellAssumption
  <2>7. Names[i][(size + k) + 1] = name[(size + k) + 1]
    BY <2>2, <2>4, <2>6 DEF CharAt
  <2>8. \A j \in 1 .. (size + k) + 1 : part(k + 1)[j] = Names[i][j]
    <3> TAKE j \in 1 .. (size + k) + 1
    <3>1. part(k + 1)[j] = name[j]
      BY <1>5, <2>1
    <3>2. CASE j = (size + k) + 1
      BY <2>7, <3>1, <3>2
    <3>3. CASE j # (size + k) + 1
      <4>1. j \in 1 .. size + k
        BY <2>1, <3>3
      <4> QED
        BY <2>5, <3>1, <4>1
    <3> QED
      BY <3>2, <3>3
  <2>9. Len(part(k + 1)) = (size + k) + 1 /\ (size + k) + 1 <= Len(Names[i])
    BY <1>5, <2>1, <2>5, <2>6
  <2> QED
    BY <2>5, <2>8, <2>9 DEF Beginning, Begins
<1>12. V = Nat
  <2> HIDE DEF V
  <2>1. V \in SUBSET Nat
    BY DEF V
  <2> QED
    BY <1>10, <1>11, <2>1, SetInduction
<1> DEFINE c == part(stop)
           m == size + stop
<1>13. /\ c \in Seq(Characters) /\ Len(c) = m /\ m \in Nat /\ m <= n
       /\ \A i \in 1 .. m : c[i] = name[i]
  BY <1>1, <1>4, <1>5, <1>9
<1>14. c \in Buffers /\ Begins(b, c)
  BY <1>4, <1>6, <1>9, <1>13, BufferIs
<1>15. \A i \in Beginning(b) : i \in Beginning(c) /\ Begins(c, Names[i])
  <2>1. stop \in V /\ stop <= stop
    BY <1>1, <1>4, <1>9, <1>12
  <2> QED
    BY <2>1 DEF Beginning
<1>16. mismatch(stop) <=> \E i \in Beginning(b) : CharAt(Names[i], m) # CharAt(name, m)
  <2>1. Beginning(c) \subseteq Beginning(b)
    <3> SUFFICES ASSUME NEW i \in Beginning(c) PROVE i \in Beginning(b)
      OBVIOUS
    <3>1. Begins(b, c) /\ Begins(c, Names[i]) /\ i \in 1 .. Len(Names) /\ Len(Names[i]) \in Nat
      BY <1>14, NamesAre DEF Beginning
    <3> HIDE DEF c
    <3>2. size <= m /\ size <= Len(Names[i]) /\ \A j \in 1 .. size : j \in 1 .. m
      BY <1>1, <1>13, <3>1 DEF Begins
    <3>3. \A j \in 1 .. size : b[j] = Names[i][j]
      BY <1>13, <3>1, <3>2 DEF Begins
    <3> QED
      BY <3>1, <3>2, <3>3 DEF Beginning, Begins
  <2> QED
    BY <1>8, <1>9, <1>15, <2>1
<1> HIDE DEF c
<1>17. ASSUME NEW q \in Seq(Characters), \A i \in Beginning(b) : Begins(q, Names[i])
       PROVE  Len(q) <= m
  <2> SUFFICES ASSUME Len(q) > m PROVE FALSE
    BY <1>13
  <2>1. Len(q) <= n /\ m < n /\ m + 1 \in 1 .. Len(q) /\ q[m + 1] = name[m + 1]
    <3>1. Begins(q, name)
      BY <1>3, <1>17 DEF name
    <3>2. Len(q) <= n /\ m + 1 \in 1 .. Len(q)
      BY <1>13, <3>1 DEF Begins
    <3> QED
      BY <1>4, <1>13, <3>1, <3>2 DEF Begins
  <2>2. PICK i \in Beginning(b) : CharAt(Names[i], m) # CharAt(name, m)
    BY <1>9, <1>16, <2>1, <1>13, <1>4
  <2>3. Begins(q, Names[i]) /\ Len(Names[i]) \in Nat
    BY <1>17, NamesAre DEF Beginning
  <2>4. m < Len(Names[i]) /\ q[m + 1] = Names[i][m + 1]
    BY <1>13, <2>1, <2>3 DEF Begins
  <2> QED
    BY <2>1, <2>2, <2>4 DEF CharAt
<1>18. Common(b, c)
  BY <1>13, <1>14, <1>15, <1>17 DEF Common
<1>19. mismatch(stop) <=> ~(\A i, j \in Beginning(b) : Names[i] = Names[j])
  <2>1. ASSUME mismatch(stop) PROVE ~(\A i, j \in Beginning(b) : Names[i] = Names[j])
    <3>1. PICK i \in Beginning(b) : CharAt(Names[i], m) # CharAt(name, m)
      BY <1>16, <2>1
    <3> QED
      BY <1>3, <3>1 DEF name
  <2>2. ASSUME ~mismatch(stop), NEW i \in Beginning(b) PROVE Names[i] = name
    <3>1. m = n /\ CharAt(Names[i], m) = CharAt(name, m)
      BY <1>9, <1>16, <2>2
    <3>2. /\ i \in 1 .. Len(Names) /\ Names[i] \in Seq(Characters) /\ Len(Names[i]) \in Nat
          /\ Begins(c, Names[i])
      BY <1>15, NamesAre DEF Beginning
    <3>3. CharAt(name, m) = NUL
      BY <1>4, <3>1 DEF CharAt
    <3>4. Len(Names[i]) = n
      <4> SUFFICES ASSUME m < Len(Names[i]) PROVE FALSE
        BY <1>4, <1>13, <3>1, <3>2 DEF Begins
      <4>1. CharAt(Names[i], m) = Names[i][m + 1] /\ Names[i][m + 1] \in Characters
        BY <1>13, <3>2 DEF CharAt
      <4> QED
        BY <3>1, <3>3, <4>1, ShellAssumption
    <3>5. \A j \in 1 .. n : Names[i][j] = name[j]
      BY <1>13, <3>1, <3>2 DEF Begins
    <3> QED
      BY <1>4, <3>2, <3>4, <3>5, SeqEqual
  <2> QED
    BY <2>1, <2>2
<1>20. after(stop) = AtEnd(c)
  BY <1>7, <1>9 DEF c
<1>21. auto_complete_command(l).line = IF mismatch(stop) THEN AtEnd(c) ELSE line_insert(AtEnd(c), BLANK)
  BY <1>2, <1>20
<1> QED
  BY <1>18, <1>19, <1>21

LEMMA PrefixesAre ==
  /\ \A s : Prefixes(s) = {SubSeq(s, 1, k) : k \in 0 .. Len(s)}
  /\ \A S : CommonPrefixes(S) = {p \in UNION {Prefixes(s) : s \in S} : \A t \in S : IsPrefix(p, t)}
  /\ \A S : LongestCommonPrefix(S)
              = CHOOSE p \in CommonPrefixes(S) : \A q \in CommonPrefixes(S) : Len(q) <= Len(p)
BY DEF Prefixes, CommonPrefixes, LongestCommonPrefix

\* The longest common prefix of the names that begin with b.
LEMMA CommonIsLongest ==
  ASSUME NEW b \in Buffers, NEW c, Common(b, c), Beginning(b) # {}
  PROVE  LongestCommonPrefix({Names[i] : i \in Beginning(b)}) = c
<1> DEFINE S == {Names[i] : i \in Beginning(b)}
           CP == CommonPrefixes(S)
           Longest(p) == \A q \in CP : Len(q) <= Len(p)
<1>1. /\ c \in Seq(Characters) /\ \A i \in Beginning(b) : Begins(c, Names[i])
      /\ \A q \in Seq(Characters) : (\A i \in Beginning(b) : Begins(q, Names[i])) => Len(q) <= Len(c)
  BY BufferIs DEF Common
<1>2. \A s \in S : s \in Seq(Characters)
  BY NamesAre DEF Beginning
<1>3. \A p \in CP : p \in Seq(Characters) /\ \A i \in Beginning(b) : Begins(p, Names[i])
  <2> SUFFICES ASSUME NEW p \in CP PROVE p \in Seq(Characters) /\ \A i \in Beginning(b) : Begins(p, Names[i])
    OBVIOUS
  <2>1. PICK s \in S : p \in Prefixes(s)
    BY PrefixesAre
  <2>2. PICK k \in 0 .. Len(s) : p = SubSeq(s, 1, k)
    BY <2>1, PrefixesAre
  <2>3. p \in Seq(Characters)
    <3>1. s \in Seq(Characters) /\ 1 \in 1 .. Len(s) + 1
      BY <1>2
    <3> QED
      BY <2>2, <3>1, PieceIs
  <2>4. \A t \in S : IsPrefix(p, t)
    BY PrefixesAre
  <2>5. \A i \in Beginning(b) : Begins(p, Names[i])
    <3> TAKE i \in Beginning(b)
    <3>1. Names[i] \in S /\ Names[i] \in Seq(Characters)
      BY <1>2
    <3> QED
      BY <2>3, <2>4, <3>1, BeginsIs
  <2> QED
    BY <2>3, <2>5
<1>4. c \in CP
  <2>1. PICK i \in Beginning(b) : TRUE
    OBVIOUS
  <2>2. Names[i] \in S /\ Names[i] \in Seq(Characters)
    BY <1>2
  <2>3. c = Take(Names[i], Len(c)) /\ Len(c) <= Len(Names[i]) /\ Len(c) \in Nat
    BY <1>1, <2>2, BeginsIs DEF Begins
  <2>4. c = SubSeq(Names[i], 1, Len(c)) /\ Len(c) \in 0 .. Len(Names[i])
    <3>1. Min({Len(c), Len(Names[i])}) = Len(c)
      BY <2>2, <2>3, MinOfTwo
    <3>2. Take(Names[i], Len(c)) = SubSeq(Names[i], 1, Len(c))
      BY <3>1 DEF Take
    <3>3. Len(c) \in 0 .. Len(Names[i])
      BY <2>2, <2>3
    <3> QED
      BY <2>3, <3>2, <3>3
  <2>5. c \in Prefixes(Names[i])
    BY <2>4, PrefixesAre
  <2>6. \A t \in S : IsPrefix(c, t)
    <3> SUFFICES ASSUME NEW j \in Beginning(b) PROVE IsPrefix(c, Names[j])
      OBVIOUS
    <3>1. Names[j] \in Seq(Characters)
      BY <1>2
    <3> QED
      BY <1>1, <3>1, BeginsIs
  <2>7. CP = {p \in UNION {Prefixes(s) : s \in S} : \A t \in S : IsPrefix(p, t)}
    BY PrefixesAre
  <2> HIDE DEF S, CP
  <2> QED
    BY <2>2, <2>5, <2>6, <2>7
<1> HIDE DEF CP
<1>5. Longest(c)
  BY <1>1, <1>3
<1>6. ASSUME NEW p \in CP, Longest(p) PROVE p = c
  <2>1. Len(p) = Len(c)
    <3>1. Len(p) <= Len(c) /\ Len(c) <= Len(p)
      BY <1>4, <1>5, <1>6
    <3> QED
      BY <1>1, <1>3, <1>6, <3>1
  <2>2. PICK i \in Beginning(b) : TRUE
    OBVIOUS
  <2>3. Begins(p, Names[i]) /\ Begins(c, Names[i])
    BY <1>1, <1>3, <1>6
  <2>4. \A j \in 1 .. Len(p) : p[j] = c[j]
    BY <2>1, <2>3 DEF Begins
  <2> QED
    BY <1>1, <1>3, <1>6, <2>1, <2>4, SeqEqual
<1>7. LongestCommonPrefix(S) = CHOOSE p \in CP : Longest(p)
  BY PrefixesAre DEF CP
<1> HIDE DEF Longest
<1>8. (CHOOSE p \in CP : Longest(p)) = c
  BY <1>4, <1>5, <1>6
<1> QED
  BY <1>7, <1>8

\* TAB at the end of the line completes it to what all commands that begin with
\* it have in common, and adds a blank if there is only one and there is room:
\* in a sorted table the run of commands that the code looks at is all of them.
THEOREM CompletionStaysCommon == Spec => CompletionIsCommon
<1> DEFINE names == {n \in Range(Names) : IsPrefix(line.buf, n)}
           common == LongestCommonPrefix(names)
           whole == IF Cardinality(names) = 1 /\ Len(common) < Room
                      THEN Append(common, BLANK) ELSE common
           Completed == line'.buf = IF names = {} THEN line.buf ELSE whole
<1>1. ASSUME ShellInv, line.cursor = Len(line.buf), handle_tab
      PROVE  Completed
  <2> DEFINE b == line.buf
  <2>1. line \in Edited /\ b \in Buffers /\ b \in Seq(Characters)
    BY <1>1, LineEdited, EditedIs DEF ShellInv, HistoryIsSound
  <2>2. line = AtEnd(b)
    BY <1>1, <2>1, EditedIs DEF AtEnd
  <2>3. line' = auto_complete_command(line).line
    BY <1>1 DEF handle_tab, Finish
  <2>4. names = {Names[i] : i \in Beginning(b)}
    <3>1. Range(Names) = {Names[i] : i \in 1 .. Len(Names)}
      BY ShellAssumption, RangeEquality
    <3>2. \A i \in 1 .. Len(Names) : IsPrefix(b, Names[i]) <=> Begins(b, Names[i])
      BY <2>1, NamesAre, BeginsIs
    <3> QED
      BY <3>1, <3>2 DEF Beginning
  <2> HIDE DEF names
  <2>5. CASE Beginning(b) = {}
    <3>1. names = {}
      BY <2>4, <2>5
    <3>2. Matching(line.buf, Len(line.buf)) = {}
      BY <2>1, <2>5, MatchingIs
    <3>3. line' = line
      BY <2>3, <3>2 DEF auto_complete_command
    <3> QED
      BY <3>1, <3>3
  <2>6. CASE Beginning(b) # {}
    <3> DEFINE one == \A i, j \in Beginning(b) : Names[i] = Names[j]
    <3>1. PICK c : /\ Common(b, c)
                   /\ auto_complete_command(AtEnd(b)).line
                        = IF one THEN line_insert(AtEnd(c), BLANK) ELSE AtEnd(c)
      BY <2>1, <2>6, CompletionIs
    <3>2. common = c /\ names # {}
      BY <2>1, <2>4, <2>6, <3>1, CommonIsLongest
    <3>3. Cardinality(names) = 1 <=> one
      <4>1. IsFiniteSet(names)
        <5>1. IsFiniteSet(1 .. Len(Names))
          BY NamesAre, FS_Interval
        <5>2. IsFiniteSet(Beginning(b))
          BY <5>1, FS_Subset DEF Beginning
        <5> DEFINE f == [i \in Beginning(b) |-> Names[i]]
        <5>3. f \in Surjection(Beginning(b), names)
          BY <2>4 DEF Surjection
        <5> QED
          BY <5>2, <5>3, FS_Surjection
      <4>2. Cardinality(names) = 1 <=> \E x : names = {x}
        BY <4>1, FS_Singleton
      <4>3. ASSUME NEW x, names = {x} PROVE one
        <5>1. \A i \in Beginning(b) : Names[i] = x
          BY <2>4, <4>3
        <5> QED
          BY <5>1
      <4>4. ASSUME one PROVE \E x : names = {x}
        <5>1. PICK i \in Beginning(b) : TRUE
          BY <2>6
        <5>2. names = {Names[i]}
          BY <2>4, <4>4, <5>1
        <5> QED
          BY <5>2
      <4> QED
        BY <4>2, <4>3, <4>4
    <3> HIDE DEF one
    <3>4. c \in Seq(Characters) /\ Len(c) \in 0 .. Room /\ Room \in Nat /\ BLANK \in Characters
      BY <3>1, BufferIs, ShellAssumption DEF Common, Characters
    <3>5. AtEnd(c).buf = c
      BY DEF AtEnd
    <3>6. line_insert(AtEnd(c), BLANK).buf = IF Len(c) < Room THEN Append(c, BLANK) ELSE c
      <4>1. CASE Len(c) < Room
        <5>1. line_insert(AtEnd(c), BLANK) = AtEnd(Append(c, BLANK))
          BY <3>4, <4>1, InsertAtEnd
        <5> QED
          BY <4>1, <5>1 DEF AtEnd
      <4>2. CASE ~(Len(c) < Room)
        <5>1. Len(c) = Room
          BY <3>4, <4>2
        <5>2. line_insert(AtEnd(c), BLANK) = AtEnd(c)
          BY <3>5, <5>1 DEF line_insert
        <5> QED
          BY <3>5, <4>2, <5>2
      <4> QED
        BY <4>1, <4>2
    <3>7. line'.buf = IF one /\ Len(c) < Room THEN Append(c, BLANK) ELSE c
      BY <2>2, <2>3, <3>1, <3>5, <3>6
    <3> QED
      BY <3>2, <3>3, <3>7
  <2> QED
    BY <2>5, <2>6
<1>2. ShellInv /\ [Next]_vars => [line.cursor = Len(line.buf) /\ handle_tab => Completed]_vars
  BY <1>1
<1> QED
  BY <1>2, ShellInitInv, ShellStepInv, PTL DEF Spec, CompletionIsCommon

=============================================================================
