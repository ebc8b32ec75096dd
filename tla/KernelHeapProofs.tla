-------------------------- MODULE KernelHeapProofs --------------------------
(***************************************************************************)
(* The array of ordered_array.c, for any items, any key and any size, and  *)
(* the heap that keeps its holes in one, for any page size, any bounds and *)
(* any programs that the heap serves: those that never ask for an aligned  *)
(* block and either free their blocks newest first and fit into the heap's *)
(* least size, or never free and ask for odd sizes.                        *)
(***************************************************************************)
EXTENDS KernelHeap, OrderedArray, SequenceTheorems, WellFoundedInduction,
        FiniteSetTheorems, TLAPS

----------------------------------------------------------------------------
(* What the users of an ordered array are promised. *)

\* An item belongs at the one place where the search can stop.
LEMMA PositionIs ==
  ASSUME NEW s, Len(s) \in Nat, NEW k, NEW x, NEW p \in 1..(Len(s) + 1),
         \A j \in 1..(p - 1) : Promised!Less(k, s[j], x),
         p <= Len(s) => ~Promised!Less(k, s[p], x)
  PROVE  Promised!Position(s, k, x) = p
<1> DEFINE Stop(q) == /\ \A j \in 1..(q - 1) : Promised!Less(k, s[j], x)
                      /\ q <= Len(s) => ~Promised!Less(k, s[q], x)
           q == CHOOSE q \in 1..(Len(s) + 1) : Stop(q)
<1>1. p \in 1..(Len(s) + 1) /\ Stop(p)
  OBVIOUS
<1>2. Promised!Position(s, k, x) = q
  BY DEF Promised!Position
<1>3. q \in 1..(Len(s) + 1) /\ Stop(q)
  <2> HIDE DEF Stop
  <2> QED
    BY <1>1
<1> HIDE DEF q
<1>4. ~(q < p)
  <2> SUFFICES ASSUME q < p PROVE FALSE
    OBVIOUS
  <2>1. q \in 1..(p - 1) /\ q <= Len(s)
    BY <1>1, <1>3
  <2> QED
    BY <1>1, <1>3, <2>1
<1>5. ~(p < q)
  <2> SUFFICES ASSUME p < q PROVE FALSE
    OBVIOUS
  <2>1. p \in 1..(q - 1) /\ p <= Len(s)
    BY <1>1, <1>3
  <2> QED
    BY <1>1, <1>3, <2>1
<1>6. p = q
  BY <1>1, <1>3, <1>4, <1>5
<1> QED
  BY <1>2, <1>6

\* And there is one: at the first item that is not less, or behind the last.
LEMMA PositionFact ==
  ASSUME NEW s \in Seq(Items), NEW k, NEW x
  PROVE  LET p == Promised!Position(s, k, x)
         IN  /\ p \in 1..(Len(s) + 1)
             /\ \A j \in 1..(p - 1) : Promised!Less(k, s[j], x)
             /\ p <= Len(s) => ~Promised!Less(k, s[p], x)
<1> DEFINE Stops == {q \in 1..(Len(s) + 1) : q <= Len(s) => ~Promised!Less(k, s[q], x)}
<1>1. Len(s) \in Nat
  OBVIOUS
<1>2. Len(s) + 1 \in Stops /\ Stops \subseteq Nat
  BY <1>1
<1>3. PICK q \in Stops : \A m \in Stops : ~(<<m, q>> \in OpToRel(<, Nat))
  <2> HIDE DEF Stops
  <2> QED
    BY <1>2, WFMin, NatLessThanWellFounded
<1>4. \A m \in Stops : ~(m < q)
  BY <1>2, <1>3 DEF OpToRel
<1>5. /\ q \in 1..(Len(s) + 1)
      /\ \A j \in 1..(q - 1) : Promised!Less(k, s[j], x)
      /\ q <= Len(s) => ~Promised!Less(k, s[q], x)
  BY <1>1, <1>4
<1>6. Promised!Position(s, k, x) = q
  BY <1>1, <1>5, PositionIs
<1> QED
  BY <1>5, <1>6

\* Three pieces of an array put together again.
LEMMA Pieces ==
  ASSUME NEW S, NEW s \in Seq(S), NEW x \in S, NEW p \in 1..(Len(s) + 1)
  PROVE  /\ InsertAt(s, p, x) \in Seq(S) /\ Len(InsertAt(s, p, x)) = Len(s) + 1
         /\ \A j \in 1..(Len(s) + 1) :
              InsertAt(s, p, x)[j] = IF j < p THEN s[j] ELSE IF j = p THEN x ELSE s[j - 1]
<1> DEFINE front == SubSeq(s, 1, p - 1)
           back == SubSeq(s, p, Len(s))
           half == front \o <<x>>
<1>1. Len(s) \in Nat /\ p \in Int /\ 1 <= p /\ p <= Len(s) + 1
  OBVIOUS
<1>2. /\ front \in Seq(S) /\ Len(front) = p - 1
      /\ \A j \in 1..(p - 1) : front[j] = s[j]
  <2>1. \A j \in 1..(p - 1) : s[j] \in S
    BY <1>1, ElementOfSeq
  <2>2. /\ SubSeq(s, 1, p - 1) \in Seq(S)
        /\ Len(SubSeq(s, 1, p - 1)) = IF 1 <= p - 1 THEN p - 1 - 1 + 1 ELSE 0
        /\ \A j \in 1..(p - 1 - 1 + 1) : SubSeq(s, 1, p - 1)[j] = s[1 + j - 1]
    BY <1>1, <2>1, SubSeqProperties
  <2> QED
    BY <1>1, <2>2
<1>3. /\ back \in Seq(S) /\ Len(back) = Len(s) - p + 1
      /\ \A j \in 1..(Len(s) - p + 1) : back[j] = s[p + j - 1]
  <2>1. \A j \in p..Len(s) : s[j] \in S
    BY <1>1, ElementOfSeq
  <2>2. /\ SubSeq(s, p, Len(s)) \in Seq(S)
        /\ Len(SubSeq(s, p, Len(s))) = IF p <= Len(s) THEN Len(s) - p + 1 ELSE 0
        /\ \A j \in 1..(Len(s) - p + 1) : SubSeq(s, p, Len(s))[j] = s[p + j - 1]
    BY <1>1, <2>1, SubSeqProperties
  <2> QED
    BY <1>1, <2>2
<1>4. <<x>> \in Seq(S) /\ Len(<<x>>) = 1 /\ <<x>>[1] = x
  OBVIOUS
<1>5. InsertAt(s, p, x) = half \o back
  BY DEF InsertAt
<1> HIDE DEF front, back
<1>6. /\ half \in Seq(S) /\ Len(half) = p
      /\ \A j \in 1..p : half[j] = IF j <= p - 1 THEN front[j] ELSE <<x>>[j - (p - 1)]
  BY <1>1, <1>2, <1>4, ConcatProperties
<1> HIDE DEF half
<1>7. /\ half \o back \in Seq(S) /\ Len(half \o back) = Len(half) + Len(back)
      /\ \A j \in 1..(Len(half) + Len(back)) :
           (half \o back)[j] = IF j <= Len(half) THEN half[j] ELSE back[j - Len(half)]
  BY <1>3, <1>6, ConcatProperties
<1>8. Len(half) + Len(back) = Len(s) + 1
  BY <1>1, <1>3, <1>6
<1>9. ASSUME NEW j \in 1..(Len(s) + 1)
      PROVE  (half \o back)[j] = IF j < p THEN s[j] ELSE IF j = p THEN x ELSE s[j - 1]
  <2>1. CASE j < p
    <3>1. half[j] = front[j] /\ front[j] = s[j]
      BY <1>1, <1>2, <1>6, <2>1
    <3> QED
      BY <1>1, <1>6, <1>7, <1>8, <2>1, <3>1
  <2>2. CASE j = p
    <3>1. half[j] = x
      BY <1>1, <1>4, <1>6, <2>2
    <3> QED
      BY <1>1, <1>6, <1>7, <1>8, <2>2, <3>1
  <2>3. CASE j > p
    <3>1. back[j - p] = s[j - 1]
      BY <1>1, <1>3, <2>3
    <3> QED
      BY <1>1, <1>6, <1>7, <1>8, <2>3, <3>1
  <2>4. j < p \/ j = p \/ j > p
    BY <1>1
  <2> QED
    BY <2>1, <2>2, <2>3, <2>4
<1> QED
  BY <1>5, <1>7, <1>8, <1>9

\* An array with the item at p left out.
LEMMA LeftOut ==
  ASSUME NEW S, NEW s \in Seq(S), NEW p \in 1..Len(s)
  PROVE  /\ RemoveAt(s, p) \in Seq(S) /\ Len(RemoveAt(s, p)) = Len(s) - 1
         /\ \A j \in 1..(Len(s) - 1) : RemoveAt(s, p)[j] = IF j < p THEN s[j] ELSE s[j + 1]
<1> DEFINE front == SubSeq(s, 1, p - 1)
           back == SubSeq(s, p + 1, Len(s))
<1>1. Len(s) \in Nat /\ p \in Int /\ 1 <= p /\ p <= Len(s)
  OBVIOUS
<1>2. /\ front \in Seq(S) /\ Len(front) = p - 1
      /\ \A j \in 1..(p - 1) : front[j] = s[j]
  <2>1. \A j \in 1..(p - 1) : s[j] \in S
    BY <1>1, ElementOfSeq
  <2>2. /\ SubSeq(s, 1, p - 1) \in Seq(S)
        /\ Len(SubSeq(s, 1, p - 1)) = IF 1 <= p - 1 THEN p - 1 - 1 + 1 ELSE 0
        /\ \A j \in 1..(p - 1 - 1 + 1) : SubSeq(s, 1, p - 1)[j] = s[1 + j - 1]
    BY <1>1, <2>1, SubSeqProperties
  <2> QED
    BY <1>1, <2>2
<1>3. /\ back \in Seq(S) /\ Len(back) = Len(s) - p
      /\ \A j \in 1..(Len(s) - p) : back[j] = s[p + j]
  <2>1. \A j \in (p + 1)..Len(s) : s[j] \in S
    BY <1>1, ElementOfSeq
  <2>2. /\ SubSeq(s, p + 1, Len(s)) \in Seq(S)
        /\ Len(SubSeq(s, p + 1, Len(s))) = IF p + 1 <= Len(s) THEN Len(s) - (p + 1) + 1 ELSE 0
        /\ \A j \in 1..(Len(s) - (p + 1) + 1) : SubSeq(s, p + 1, Len(s))[j] = s[(p + 1) + j - 1]
    BY <1>1, <2>1, SubSeqProperties
  <2> QED
    BY <1>1, <2>2
<1>4. RemoveAt(s, p) = front \o back
  BY DEF RemoveAt
<1> HIDE DEF front, back
<1>5. /\ front \o back \in Seq(S) /\ Len(front \o back) = Len(front) + Len(back)
      /\ \A j \in 1..(Len(front) + Len(back)) :
           (front \o back)[j] = IF j <= Len(front) THEN front[j] ELSE back[j - Len(front)]
  BY <1>2, <1>3, ConcatProperties
<1>6. Len(front) + Len(back) = Len(s) - 1
  BY <1>1, <1>2, <1>3
<1>7. ASSUME NEW j \in 1..(Len(s) - 1)
      PROVE  (front \o back)[j] = IF j < p THEN s[j] ELSE s[j + 1]
  <2>1. CASE j < p
    BY <1>1, <1>2, <1>5, <1>6, <2>1
  <2>2. CASE ~(j < p)
    <3>1. back[j - (p - 1)] = s[j + 1]
      BY <1>1, <1>3, <2>2
    <3> QED
      BY <1>1, <1>2, <1>5, <1>6, <2>2, <3>1
  <2> QED
    BY <2>1, <2>2
<1> QED
  BY <1>4, <1>5, <1>6, <1>7

\* What the promise means by its words.
LEMMA InsertedIs ==
  ASSUME NEW s, NEW f, NEW x
  PROVE  Promised!Inserted(s, f, x) = InsertAt(s, Promised!Position(s, f, x), x)
BY DEF Promised!Inserted, Promised!InsertAt, InsertAt

SortedBy(s, f) == \A j, k \in 1..Len(s) : j < k => f[s[j]] <= f[s[k]]

\* An insertion into a sorted array is one, whatever the new item's key.
LEMMA InsertSorts ==
  ASSUME NEW s \in Seq(Items), NEW f \in [Items -> Int], SortedBy(s, f), NEW x \in Items
  PROVE  /\ Promised!Inserted(s, f, x) \in Seq(Items) /\ Len(Promised!Inserted(s, f, x)) = Len(s) + 1
         /\ SortedBy(Promised!Inserted(s, f, x), f)
<1> DEFINE p == Promised!Position(s, f, x)
           t == InsertAt(s, p, x)
<1>1. /\ p \in 1..(Len(s) + 1)
      /\ \A j \in 1..(p - 1) : Promised!Less(f, s[j], x)
      /\ p <= Len(s) => ~Promised!Less(f, s[p], x)
  BY PositionFact
<1> HIDE DEF p
<1>2. /\ t \in Seq(Items) /\ Len(t) = Len(s) + 1
      /\ \A j \in 1..(Len(s) + 1) : t[j] = IF j < p THEN s[j] ELSE IF j = p THEN x ELSE s[j - 1]
  BY <1>1, Pieces
<1> HIDE DEF t
<1>3. /\ Len(s) \in Nat
      /\ \A j \in 1..Len(s) : s[j] \in Items
      /\ \A y \in Items : f[y] \in Int
  BY ElementOfSeq
<1>4. \A j, k \in 1..Len(s) : j < k => f[s[j]] <= f[s[k]]
  BY DEF SortedBy
<1>5. \A j \in 1..(p - 1) : f[s[j]] < f[x]
  BY <1>1 DEF Promised!Less
<1>6. \A j \in p..Len(s) : f[x] <= f[s[j]]
  <2> TAKE j \in p..Len(s)
  <2>1. p \in 1..Len(s) /\ j \in 1..Len(s) /\ p \in Int /\ j \in Int
    BY <1>1, <1>3
  <2>2. ~(f[s[p]] < f[x])
    BY <1>1, <2>1 DEF Promised!Less
  <2>3. f[x] <= f[s[p]]
    BY <1>3, <2>1, <2>2
  <2>4. p = j \/ f[s[p]] <= f[s[j]]
    BY <1>4, <2>1
  <2> QED
    BY <1>3, <2>1, <2>3, <2>4
<1>7. ASSUME NEW j \in 1..Len(t), NEW k \in 1..Len(t), j < k
      PROVE  f[t[j]] <= f[t[k]]
  <2>1. j \in Int /\ k \in Int /\ p \in Int /\ 1 <= j /\ k <= Len(s) + 1 /\ 1 <= p
    BY <1>1, <1>2, <1>3
  <2>2. t[j] = (IF j < p THEN s[j] ELSE IF j = p THEN x ELSE s[j - 1])
    BY <1>2
  <2>3. t[k] = (IF k < p THEN s[k] ELSE IF k = p THEN x ELSE s[k - 1])
    BY <1>2
  <2>4. CASE k < p
    <3>1. t[j] = s[j] /\ t[k] = s[k] /\ j \in 1..Len(s) /\ k \in 1..Len(s)
      BY <1>1, <1>3, <1>7, <2>1, <2>2, <2>3, <2>4
    <3> QED
      BY <1>4, <1>7, <3>1
  <2>5. CASE k = p
    <3>1. t[j] = s[j] /\ t[k] = x /\ j \in 1..(p - 1) /\ j \in 1..Len(s)
      BY <1>1, <1>3, <1>7, <2>1, <2>2, <2>3, <2>5
    <3>2. f[s[j]] < f[x] /\ f[s[j]] \in Int /\ f[x] \in Int
      BY <1>3, <1>5, <3>1
    <3> QED
      BY <3>1, <3>2
  <2>6. CASE k > p
    <3>1. t[k] = s[k - 1] /\ k - 1 \in p..Len(s) /\ k - 1 \in 1..Len(s)
      BY <1>1, <1>3, <2>1, <2>3, <2>6
    <3>2. f[x] <= f[s[k - 1]] /\ f[s[k - 1]] \in Int /\ f[x] \in Int
      BY <1>3, <1>6, <3>1
    <3>3. CASE j < p
      <4>1. t[j] = s[j] /\ j \in 1..(p - 1) /\ j \in 1..Len(s)
        BY <1>1, <1>3, <2>1, <2>2, <3>3
      <4>2. f[s[j]] < f[x] /\ f[s[j]] \in Int
        BY <1>3, <1>5, <4>1
      <4> QED
        BY <3>1, <3>2, <4>1, <4>2
    <3>4. CASE j = p
      BY <2>1, <2>2, <3>1, <3>2, <3>4
    <3>5. CASE j > p
      <4>1. t[j] = s[j - 1] /\ j - 1 \in 1..Len(s) /\ j - 1 < k - 1
        BY <1>3, <1>7, <2>1, <2>2, <3>5
      <4> QED
        BY <1>4, <3>1, <4>1
    <3>6. j < p \/ j = p \/ j > p
      BY <2>1
    <3> QED
      BY <3>3, <3>4, <3>5, <3>6
  <2>7. k < p \/ k = p \/ k > p
    BY <2>1
  <2> QED
    BY <2>4, <2>5, <2>6, <2>7
<1>8. SortedBy(t, f)
  BY <1>7 DEF SortedBy
<1>9. t = Promised!Inserted(s, f, x)
  BY InsertedIs DEF t, p
<1> QED
  BY <1>2, <1>8, <1>9

\* A removal leaves a sorted array sorted.
LEMMA RemoveSorts ==
  ASSUME NEW s \in Seq(Items), NEW f \in [Items -> Int], SortedBy(s, f), NEW n \in 0..(Len(s) - 1)
  PROVE  /\ Promised!Removed(s, n) \in Seq(Items) /\ Len(Promised!Removed(s, n)) = Len(s) - 1
         /\ SortedBy(Promised!Removed(s, n), f)
<1> DEFINE t == RemoveAt(s, n + 1)
<1>1. n + 1 \in 1..Len(s) /\ n < Len(s) /\ Len(s) \in Nat
  OBVIOUS
<1>2. Promised!Removed(s, n) = t
  BY <1>1 DEF Promised!Removed, Promised!RemoveAt, RemoveAt
<1>3. /\ t \in Seq(Items) /\ Len(t) = Len(s) - 1
      /\ \A j \in 1..(Len(s) - 1) : t[j] = IF j < n + 1 THEN s[j] ELSE s[j + 1]
  BY <1>1, LeftOut
<1> HIDE DEF t
<1>4. \A j, k \in 1..Len(s) : j < k => f[s[j]] <= f[s[k]]
  BY DEF SortedBy
<1>5. ASSUME NEW j \in 1..Len(t), NEW k \in 1..Len(t), j < k
      PROVE  f[t[j]] <= f[t[k]]
  <2>3. j \in 1..(Len(s) - 1) /\ k \in 1..(Len(s) - 1) /\ j < k /\ n \in Nat
    BY <1>3, <1>5
  <2>1. PICK a : a = IF j < n + 1 THEN j ELSE j + 1
    OBVIOUS
  <2>2. PICK b : b = IF k < n + 1 THEN k ELSE k + 1
    OBVIOUS
  <2>4. t[j] = s[a] /\ t[k] = s[b]
    BY <1>3, <2>1, <2>2, <2>3
  <2>5. a \in 1..Len(s) /\ b \in 1..Len(s) /\ a < b
    BY <1>1, <2>1, <2>2, <2>3
  <2> QED
    BY <1>4, <2>4, <2>5
<1>6. SortedBy(t, f)
  BY <1>5 DEF SortedBy
<1> QED
  BY <1>2, <1>3, <1>6

----------------------------------------------------------------------------
(* The loops, turn by turn: what each does to the array as it will stand. *)

Words == Items \cup {Blank}

\* n words from the first on; the same while an insertion holds t behind word i,
\* and while a removal has moved the words up to i.
Plain(a, n)        == [j \in 1..n |-> a[j - 1]]
Holding(a, n, i, t) == [j \in 1..(n + 1) |-> IF j <= i + 1 THEN a[j - 1]
                                           ELSE IF j = i + 2 THEN t ELSE a[j - 2]]
Closing(a, n, i)   == [j \in 1..(n - 1) |-> IF j <= i THEN a[j - 1] ELSE a[j]]

LEMMA PlainFact ==
  ASSUME NEW a \in [0..MaxSize -> Words], NEW n \in Nat, n <= MaxSize + 1
  PROVE  /\ Plain(a, n) \in Seq(Words) /\ Len(Plain(a, n)) = n
         /\ \A j \in 1..n : Plain(a, n)[j] = a[j - 1]
<1>1. \A j \in 1..n : a[j - 1] \in Words
  BY ItemAssumption
<1>2. Plain(a, n) \in [1..n -> Words]
  BY <1>1 DEF Plain
<1> QED
  BY <1>2 DEF Plain

\* The item is put behind the last one.
LEMMA AddedAtEnd ==
  ASSUME NEW a \in [0..MaxSize -> Words], NEW n \in 0..(MaxSize - 1), NEW x \in Words
  PROVE  Plain([a EXCEPT ![n] = x], n + 1) = InsertAt(Plain(a, n), n + 1, x)
<1> DEFINE b == [a EXCEPT ![n] = x]
           s == Plain(a, n)
           t == Plain(b, n + 1)
           u == InsertAt(s, n + 1, x)
<1>1. /\ n \in Nat /\ n <= MaxSize /\ MaxSize \in Nat /\ n + 1 \in Nat
      /\ n <= MaxSize + 1 /\ n + 1 <= MaxSize + 1 /\ x \in Words
  BY ItemAssumption
<1>2. /\ b \in [0..MaxSize -> Words] /\ b[n] = x
      /\ \A j \in 0..MaxSize : j # n => b[j] = a[j]
  BY <1>1
<1> HIDE DEF b
<1>3. s \in Seq(Words) /\ Len(s) = n /\ \A j \in 1..n : s[j] = a[j - 1]
  BY <1>1, PlainFact
<1>4. t \in Seq(Words) /\ Len(t) = n + 1 /\ \A j \in 1..(n + 1) : t[j] = b[j - 1]
  BY <1>1, <1>2, PlainFact
<1> HIDE DEF s, t
<1>5. n + 1 \in 1..(Len(s) + 1)
  BY <1>1, <1>3
<1>6. /\ u \in Seq(Words) /\ Len(u) = Len(s) + 1
      /\ \A j \in 1..(Len(s) + 1) :
           u[j] = IF j < n + 1 THEN s[j] ELSE IF j = n + 1 THEN x ELSE s[j - 1]
  <2>1. s \in Seq(Words) /\ x \in Words /\ n + 1 \in 1..(Len(s) + 1)
    BY <1>1, <1>3, <1>5
  <2> QED
    BY <2>1, Pieces
<1> HIDE DEF u
<1>7. ASSUME NEW j \in 1..Len(t) PROVE t[j] = u[j]
  <2>1. j \in 1..(n + 1) /\ t[j] = b[j - 1] /\ j - 1 \in 0..MaxSize
    BY <1>1, <1>4
  <2>2. CASE j = n + 1
    <3>1. u[j] = x /\ j - 1 = n
      BY <1>1, <1>3, <1>6, <2>1, <2>2
    <3> QED
      BY <1>2, <2>1, <3>1
  <2>3. CASE j # n + 1
    <3>1. j \in 1..n /\ j < n + 1 /\ j - 1 # n /\ j \in 1..(Len(s) + 1)
      BY <1>1, <1>3, <2>1, <2>3
    <3>2. u[j] = s[j] /\ s[j] = a[j - 1] /\ b[j - 1] = a[j - 1]
      BY <1>2, <1>3, <1>6, <2>1, <3>1
    <3> QED
      BY <2>1, <3>2
  <2> QED
    BY <2>2, <2>3
<1>8. Len(t) = Len(u)
  BY <1>3, <1>4, <1>6
<1>9. t = u
  BY <1>4, <1>6, <1>7, <1>8, SeqEqual
<1> QED
  BY <1>9 DEF t, u, s, b

LEMMA HoldingFact ==
  ASSUME NEW a \in [0..MaxSize -> Words], NEW n \in 0..(MaxSize - 1), NEW i \in 0..n,
         NEW t \in Words
  PROVE  Holding(a, n, i, t) \in Seq(Words) /\ Len(Holding(a, n, i, t)) = n + 1
<1>1. n \in Nat /\ n + 1 \in Nat /\ n < MaxSize /\ MaxSize \in Nat /\ i \in Nat
  BY ItemAssumption
<1>2. ASSUME NEW j \in 1..(n + 1)
      PROVE  (IF j <= i + 1 THEN a[j - 1] ELSE IF j = i + 2 THEN t ELSE a[j - 2]) \in Words
  <2>1. j - 1 \in 0..MaxSize
    BY <1>1
  <2>2. ~(j <= i + 1) => j - 2 \in 0..MaxSize
    BY <1>1
  <2> QED
    BY <2>1, <2>2
<1>3. Holding(a, n, i, t) \in [1..(n + 1) -> Words]
  BY <1>2 DEF Holding
<1> HIDE DEF Holding
<1> QED
  BY <1>1, <1>3

\* The item is put at i, and what lay there is held.
LEMMA Displaced ==
  ASSUME NEW a \in [0..MaxSize -> Words], NEW n \in 0..(MaxSize - 1), NEW i \in 0..(n - 1),
         NEW x \in Words
  PROVE  Holding([a EXCEPT ![i] = x], n, i, a[i]) = InsertAt(Plain(a, n), i + 1, x)
<1> DEFINE b == [a EXCEPT ![i] = x]
           s == Plain(a, n)
           t == Holding(b, n, i, a[i])
<1>1. /\ n \in Nat /\ n < MaxSize /\ MaxSize \in Nat /\ i \in Nat /\ i < n /\ i \in 0..n
      /\ n <= MaxSize + 1 /\ i \in 0..MaxSize /\ n \in 0..(MaxSize - 1) /\ x \in Words
  BY ItemAssumption
<1>2. /\ b \in [0..MaxSize -> Words] /\ b[i] = x /\ a[i] \in Words
      /\ \A j \in 0..MaxSize : j # i => b[j] = a[j]
  BY <1>1
<1> HIDE DEF b
<1>3. s \in Seq(Words) /\ Len(s) = n /\ \A j \in 1..n : s[j] = a[j - 1]
  BY <1>1, PlainFact
<1>4. /\ t \in Seq(Words) /\ Len(t) = n + 1
      /\ \A j \in 1..(n + 1) : t[j] =
           IF j <= i + 1 THEN b[j - 1] ELSE IF j = i + 2 THEN a[i] ELSE b[j - 2]
  <2>1. t \in Seq(Words) /\ Len(t) = n + 1
    BY <1>1, <1>2, HoldingFact
  <2>2. \A j \in 1..(n + 1) : t[j] =
          IF j <= i + 1 THEN b[j - 1] ELSE IF j = i + 2 THEN a[i] ELSE b[j - 2]
    BY DEF Holding
  <2> QED
    BY <2>1, <2>2
<1> HIDE DEF s, t
<1> DEFINE u == InsertAt(s, i + 1, x)
<1>5. i + 1 \in 1..(Len(s) + 1)
  BY <1>1, <1>3
<1>6. /\ u \in Seq(Words) /\ Len(u) = Len(s) + 1
      /\ \A j \in 1..(Len(s) + 1) :
           u[j] = IF j < i + 1 THEN s[j] ELSE IF j = i + 1 THEN x ELSE s[j - 1]
  <2>1. PICK p \in 1..(Len(s) + 1) : p = i + 1
    BY <1>5
  <2>2. /\ InsertAt(s, p, x) \in Seq(Words) /\ Len(InsertAt(s, p, x)) = Len(s) + 1
        /\ \A j \in 1..(Len(s) + 1) :
             InsertAt(s, p, x)[j] = IF j < p THEN s[j] ELSE IF j = p THEN x ELSE s[j - 1]
    <3>1. s \in Seq(Words) /\ x \in Words /\ p \in 1..(Len(s) + 1)
      BY <1>3
    <3> HIDE DEF u
    <3> QED
      BY <3>1, Pieces
  <2> QED
    BY <2>1, <2>2
<1> HIDE DEF u
<1>7. ASSUME NEW j \in 1..Len(t) PROVE t[j] = u[j]
  <2>1. j \in 1..(n + 1) /\ j \in 1..(Len(s) + 1) /\ j - 1 \in 0..MaxSize /\ j \in Nat
    BY <1>1, <1>3, <1>4
  <2>2. CASE j < i + 1
    <3>1. j - 1 # i /\ j \in 1..n
      BY <1>1, <2>1, <2>2
    <3>2. t[j] = b[j - 1] /\ b[j - 1] = a[j - 1]
      BY <1>1, <1>2, <1>4, <2>1, <2>2, <3>1
    <3>3. u[j] = s[j] /\ s[j] = a[j - 1]
      BY <1>3, <1>6, <2>1, <2>2, <3>1
    <3> QED
      BY <3>2, <3>3
  <2>3. CASE j = i + 1
    <3>1. t[j] = b[i] /\ u[j] = x
      BY <1>1, <1>4, <1>6, <2>1, <2>3
    <3> QED
      BY <1>2, <3>1
  <2>4. CASE j > i + 1
    <3>1. j - 1 \in 1..n /\ (j - 1) - 1 = j - 2 /\ j - 2 \in 0..MaxSize
      BY <1>1, <2>1, <2>4
    <3>2. u[j] = s[j - 1] /\ s[j - 1] = a[j - 2]
      BY <1>1, <1>3, <1>6, <2>1, <2>4, <3>1
    <3>3. t[j] = IF j = i + 2 THEN a[i] ELSE b[j - 2]
      BY <1>1, <1>4, <2>1, <2>4
    <3>4. j # i + 2 => b[j - 2] = a[j - 2]
      BY <1>1, <1>2, <2>1, <3>1
    <3>5. j = i + 2 => j - 2 = i
      BY <1>1, <2>1
    <3> QED
      BY <3>2, <3>3, <3>4, <3>5
  <2> QED
    BY <1>1, <2>1, <2>2, <2>3, <2>4
<1>8. Len(t) = Len(u)
  BY <1>3, <1>4, <1>6
<1>9. t = u
  BY <1>4, <1>6, <1>7, <1>8, SeqEqual
<1> QED
  BY <1>9 DEF t, u, s, b

\* A turn moves on what is held, and changes nothing of the result.
LEMMA HeldOn ==
  ASSUME NEW a \in [0..MaxSize -> Words], NEW n \in 0..(MaxSize - 1), NEW i \in 0..(n - 1),
         NEW t \in Words
  PROVE  Holding([a EXCEPT ![i + 1] = t], n, i + 1, a[i + 1]) = Holding(a, n, i, t)
<1> DEFINE b == [a EXCEPT ![i + 1] = t]
           u == Holding(b, n, i + 1, a[i + 1])
           v == Holding(a, n, i, t)
<1>1. /\ n \in Nat /\ n < MaxSize /\ MaxSize \in Nat /\ i \in Nat /\ i < n /\ i \in 0..n
      /\ i + 1 \in 0..n /\ i + 1 \in 0..MaxSize
  BY ItemAssumption
<1>2. /\ b \in [0..MaxSize -> Words] /\ b[i + 1] = t /\ a[i + 1] \in Words
      /\ \A j \in 0..MaxSize : j # i + 1 => b[j] = a[j]
  BY <1>1
<1> HIDE DEF b
<1>3. /\ u \in Seq(Words) /\ Len(u) = n + 1
      /\ \A j \in 1..(n + 1) : u[j] =
           IF j <= (i + 1) + 1 THEN b[j - 1] ELSE IF j = (i + 1) + 2 THEN a[i + 1] ELSE b[j - 2]
  <2>1. u \in Seq(Words) /\ Len(u) = n + 1
    BY <1>1, <1>2, HoldingFact
  <2>2. \A j \in 1..(n + 1) : u[j] =
          IF j <= (i + 1) + 1 THEN b[j - 1] ELSE IF j = (i + 1) + 2 THEN a[i + 1] ELSE b[j - 2]
    BY DEF Holding
  <2> QED
    BY <2>1, <2>2
<1>4. /\ v \in Seq(Words) /\ Len(v) = n + 1
      /\ \A j \in 1..(n + 1) : v[j] =
           IF j <= i + 1 THEN a[j - 1] ELSE IF j = i + 2 THEN t ELSE a[j - 2]
  <2>1. v \in Seq(Words) /\ Len(v) = n + 1
    BY <1>1, HoldingFact
  <2>2. \A j \in 1..(n + 1) : v[j] =
          IF j <= i + 1 THEN a[j - 1] ELSE IF j = i + 2 THEN t ELSE a[j - 2]
    BY DEF Holding
  <2> QED
    BY <2>1, <2>2
<1> HIDE DEF u, v
<1>5. ASSUME NEW j \in 1..(n + 1) PROVE u[j] = v[j]
  <2>1. j \in Nat /\ j - 1 \in 0..MaxSize /\ (j > i + 1 => j - 2 \in 0..MaxSize)
    BY <1>1
  <2>2. CASE j <= i + 1
    <3>1. j <= (i + 1) + 1 /\ j - 1 # i + 1
      BY <1>1, <2>1, <2>2
    <3>2. u[j] = b[j - 1]
      BY <1>3, <3>1
    <3>3. v[j] = a[j - 1]
      BY <1>4, <2>2
    <3>4. b[j - 1] = a[j - 1]
      BY <1>2, <2>1, <3>1
    <3> QED
      BY <3>2, <3>3, <3>4
  <2>3. CASE j = i + 2
    <3>1. u[j] = b[i + 1] /\ v[j] = t
      BY <1>1, <1>3, <1>4, <2>1, <2>3
    <3> QED
      BY <1>2, <3>1
  <2>4. CASE j > i + 2
    <3>1. v[j] = a[j - 2]
      BY <1>1, <1>4, <2>1, <2>4
    <3>2. u[j] = IF j = i + 3 THEN a[i + 1] ELSE b[j - 2]
      BY <1>1, <1>3, <2>1, <2>4
    <3>3. j # i + 3 => b[j - 2] = a[j - 2]
      BY <1>1, <1>2, <2>1, <2>4
    <3>4. j = i + 3 => j - 2 = i + 1
      BY <1>1, <2>1
    <3> QED
      BY <3>1, <3>2, <3>3, <3>4
  <2> QED
    BY <1>1, <2>1, <2>2, <2>3, <2>4
<1>6. u = v
  BY <1>1, <1>3, <1>4, <1>5, SeqEqual
<1> QED
  BY <1>6 DEF u, v, b

\* When all have moved, what is held is the word behind them, which is no item.
LEMMA HeldLast ==
  ASSUME NEW a \in [0..MaxSize -> Words], NEW n \in 0..(MaxSize - 1), NEW t \in Words
  PROVE  Holding(a, n, n, t) = Plain(a, n + 1)
<1>1. n \in Nat
  OBVIOUS
<1>2. \A j \in 1..(n + 1) : j <= n + 1
  BY <1>1
<1> QED
  BY <1>2 DEF Holding, Plain

\* A removal begins: the array without the item at i.
LEMMA Closed ==
  ASSUME NEW a \in [0..MaxSize -> Words], NEW n \in 1..MaxSize, NEW i \in 0..(n - 1)
  PROVE  Closing(a, n, i) = RemoveAt(Plain(a, n), i + 1)
<1> DEFINE s == Plain(a, n)
           t == Closing(a, n, i)
           u == RemoveAt(s, i + 1)
<1>1. /\ n \in Nat /\ n <= MaxSize /\ MaxSize \in Nat /\ i \in Nat /\ i < n
      /\ n <= MaxSize + 1 /\ n - 1 \in Nat
  BY ItemAssumption
<1>2. s \in Seq(Words) /\ Len(s) = n /\ \A j \in 1..n : s[j] = a[j - 1]
  BY <1>1, PlainFact
<1>3. \A j \in 1..(n - 1) : j - 1 \in 0..MaxSize /\ j \in 0..MaxSize
  BY <1>1
<1>4. t \in [1..(n - 1) -> Words]
  BY <1>3 DEF Closing
<1>5. \A j \in 1..(n - 1) : t[j] = IF j <= i THEN a[j - 1] ELSE a[j]
  BY DEF Closing
<1>6. t \in Seq(Words) /\ Len(t) = n - 1
  BY <1>1, <1>4
<1> HIDE DEF s, t
<1>7. i + 1 \in 1..Len(s)
  BY <1>1, <1>2
<1>8. /\ u \in Seq(Words) /\ Len(u) = Len(s) - 1
      /\ \A j \in 1..(Len(s) - 1) : u[j] = IF j < i + 1 THEN s[j] ELSE s[j + 1]
  BY <1>2, <1>7, LeftOut
<1> HIDE DEF u
<1>9. ASSUME NEW j \in 1..Len(t) PROVE t[j] = u[j]
  <2>1. j \in 1..(n - 1) /\ j \in 1..n /\ j + 1 \in 1..n /\ (j + 1) - 1 = j /\ j \in Nat
    BY <1>1, <1>6
  <2>2. s[j] = a[j - 1] /\ s[j + 1] = a[j]
    BY <1>2, <2>1
  <2>3. u[j] = IF j < i + 1 THEN s[j] ELSE s[j + 1]
    BY <1>2, <1>8, <2>1
  <2>4. j < i + 1 <=> j <= i
    BY <1>1, <2>1
  <2> QED
    BY <1>5, <2>1, <2>2, <2>3, <2>4
<1>10. Len(t) = Len(u)
  BY <1>2, <1>6, <1>8
<1>11. t = u
  BY <1>6, <1>8, <1>9, <1>10, SeqEqual
<1> QED
  BY <1>11 DEF t, u, s

\* A turn moves one word down, and changes nothing of the result.
LEMMA ClosedOn ==
  ASSUME NEW a \in [0..MaxSize -> Words], NEW n \in 1..MaxSize, NEW i \in 0..(n - 1)
  PROVE  Closing([a EXCEPT ![i] = a[i + 1]], n, i + 1) = Closing(a, n, i)
<1> DEFINE b == [a EXCEPT ![i] = a[i + 1]]
<1>1. n \in Nat /\ n <= MaxSize /\ MaxSize \in Nat /\ i \in Nat /\ i < n /\ i \in 0..MaxSize
  BY ItemAssumption
<1>2. b[i] = a[i + 1] /\ \A j \in 0..MaxSize : j # i => b[j] = a[j]
  BY <1>1
<1> HIDE DEF b
<1>3. ASSUME NEW j \in 1..(n - 1)
      PROVE  (IF j <= i + 1 THEN b[j - 1] ELSE b[j]) = (IF j <= i THEN a[j - 1] ELSE a[j])
  <2>1. j \in Nat /\ j - 1 \in 0..MaxSize /\ j \in 0..MaxSize
    BY <1>1
  <2>2. CASE j <= i
    <3>1. j <= i + 1 /\ j - 1 # i
      BY <1>1, <2>1, <2>2
    <3> QED
      BY <1>2, <2>1, <2>2, <3>1
  <2>3. CASE j = i + 1
    <3>1. j - 1 = i /\ ~(j <= i) /\ j <= i + 1
      BY <1>1, <2>3
    <3> QED
      BY <1>2, <2>3, <3>1
  <2>4. CASE j > i + 1
    <3>1. j # i /\ ~(j <= i + 1) /\ ~(j <= i)
      BY <1>1, <2>1, <2>4
    <3> QED
      BY <1>2, <2>1, <3>1
  <2> QED
    BY <1>1, <2>1, <2>2, <2>3, <2>4
<1>4. Closing(b, n, i + 1) = Closing(a, n, i)
  BY <1>3 DEF Closing
<1> QED
  BY <1>4 DEF b

LEMMA ClosedLast ==
  ASSUME NEW a, NEW n \in 1..MaxSize
  PROVE  Closing(a, n, n) = Plain(a, n - 1)
<1>1. \A j \in 1..(n - 1) : j <= n
  BY ItemAssumption
<1> QED
  BY <1>1 DEF Closing, Plain

----------------------------------------------------------------------------
(* The array implements the promise. *)

\* Where a call is in its loops.  The items that an insertion has passed are
\* less than its own, in an array sorted or not.
ArrayInv ==
  /\ array \in [0..MaxSize -> Words] /\ count \in 0..MaxSize /\ key \in Keys
  /\ pc \in {"idle", "search", "up", "down"} /\ item \in Words /\ tmp \in Words
  /\ pc # "idle" => iterator \in 0..count
  /\ pc \in {"search", "up"} => count < MaxSize
  /\ pc = "search" => item \in Items /\ \A j \in 0..(iterator - 1) : LessThan(array[j], item)
  /\ pc = "down" => count # 0

LEMMA ArrayInvInit == ArrayInit => ArrayInv
<1> SUFFICES ASSUME ArrayInit PROVE ArrayInv
  OBVIOUS
<1>1. PICK behind \in Words : array = [i \in 0..MaxSize |-> IF i < MaxSize THEN Blank ELSE behind]
  BY DEF ArrayInit, Words
<1>2. Blank \in Words
  BY DEF Words
<1>3. array \in [0..MaxSize -> Words]
  BY <1>1, <1>2
<1>4. count = 0 /\ key \in Keys /\ pc = "idle" /\ iterator = 0 /\ item = Blank /\ tmp = Blank
  BY DEF ArrayInit
<1> QED
  BY <1>2, <1>3, <1>4, ItemAssumption DEF ArrayInv

LEMMA ArrayInvNext == ArrayInv /\ [ArrayNext]_arrayVars => ArrayInv'
<1> SUFFICES ASSUME ArrayInv, [ArrayNext]_arrayVars PROVE ArrayInv'
  OBVIOUS
<1>1. MaxSize \in Nat /\ Items \subseteq Words
  BY ItemAssumption DEF Words
<1>2. CASE Rekey
  BY <1>2 DEF ArrayInv, Rekey
<1>3. ASSUME NEW x \in Items, InsertItem(x) PROVE ArrayInv'
  BY <1>1, <1>3 DEF ArrayInv, InsertItem
<1>4. CASE Search
  <2>1. pc = "search" /\ iterator \in Nat /\ iterator < count /\ LessThan(array[iterator], item)
    BY <1>4 DEF ArrayInv, Search
  <2>2. iterator' = iterator + 1 /\ UNCHANGED <<array, count, key, pc, item, tmp>>
    BY <1>4 DEF Search
  <2>3. \A j \in 0..(iterator' - 1) : LessThan(array[j], item)
    BY <2>1, <2>2 DEF ArrayInv
  <2>4. \A j \in 0..(iterator' - 1) : LessThan(array[j], item)'
    BY <2>2, <2>3 DEF LessThan
  <2>5. iterator' \in 0..count'
    BY <2>1, <2>2 DEF ArrayInv
  <2> QED
    BY <2>1, <2>2, <2>4, <2>5 DEF ArrayInv
<1>5. CASE AddAtEnd
  BY <1>1, <1>5 DEF ArrayInv, AddAtEnd
<1>6. CASE Displace
  BY <1>1, <1>6 DEF ArrayInv, Displace
<1>7. CASE ShiftUp
  BY <1>1, <1>7 DEF ArrayInv, ShiftUp
<1>8. CASE ShiftedUp
  BY <1>1, <1>8 DEF ArrayInv, ShiftedUp
<1>9. ASSUME NEW i \in 0..(MaxSize - 1), RemoveItem(i) PROVE ArrayInv'
  BY <1>1, <1>9 DEF ArrayInv, RemoveItem
<1>10. CASE ShiftDown
  BY <1>1, <1>10 DEF ArrayInv, ShiftDown
<1>11. CASE ShiftedDown
  BY <1>1, <1>11 DEF ArrayInv, ShiftedDown
<1>12. CASE UNCHANGED arrayVars
  BY <1>12 DEF ArrayInv, arrayVars, LessThan
<1> QED
  BY <1>2, <1>3, <1>4, <1>5, <1>6, <1>7, <1>8, <1>9, <1>10, <1>11, <1>12 DEF ArrayNext

LEMMA ArrayInvariant == ArraySpec => []ArrayInv
BY ArrayInvInit, ArrayInvNext, PTL DEF ArraySpec

\* Each step of the loops is a step of the promise or none.
LEMMA LoopStep == ArrayInv /\ [ArrayNext]_arrayVars => [Promised!Next]_<<Contents, key>>
<1> SUFFICES ASSUME ArrayInv, ArrayNext
             PROVE  Promised!Next \/ UNCHANGED <<Contents, key>>
  <2>1. UNCHANGED arrayVars => UNCHANGED <<Contents, key>>
    BY DEF arrayVars, Contents
  <2> QED
    BY <2>1
<1>1. /\ MaxSize \in Nat /\ array \in [0..MaxSize -> Words] /\ count \in Nat /\ count <= MaxSize
      /\ pc \in {"idle", "search", "up", "down"} /\ item \in Words /\ tmp \in Words
  BY ItemAssumption DEF ArrayInv
<1>2. pc \in {"idle", "search"} => Contents = Plain(array, count)
  BY DEF Contents, Plain
<1>3. pc = "up" => Contents = Holding(array, count, iterator, tmp)
  BY DEF Contents, Holding
<1>4. pc = "down" => Contents = Closing(array, count, iterator)
  BY DEF Contents, Closing
<1>5. pc' \in {"idle", "search"} => Contents' = Plain(array', count')
  BY DEF Contents, Plain
<1>6. pc' = "up" => Contents' = Holding(array', count', iterator', tmp')
  BY DEF Contents, Holding
<1>7. pc' = "down" => Contents' = Closing(array', count', iterator')
  BY DEF Contents, Closing
<1>8. /\ Plain(array, count) \in Seq(Words) /\ Len(Plain(array, count)) = count
      /\ \A j \in 1..count : Plain(array, count)[j] = array[j - 1]
  BY <1>1, PlainFact
<1>9. CASE Rekey
  <2>1. UNCHANGED Contents
    BY <1>9 DEF Rekey, Contents
  <2> QED
    BY <1>9, <2>1 DEF Rekey, Promised!Next, Promised!Rekey
<1>10. ASSUME NEW x \in Items, InsertItem(x) PROVE UNCHANGED <<Contents, key>>
  BY <1>2, <1>5, <1>10 DEF InsertItem
<1>11. CASE Search
  BY <1>2, <1>5, <1>11 DEF Search
<1>12. CASE AddAtEnd
  <2>1. /\ pc = "search" /\ iterator = count /\ array' = [array EXCEPT ![count] = item]
        /\ count' = count + 1 /\ pc' = "idle" /\ UNCHANGED key
    BY <1>12 DEF AddAtEnd
  <2>2. count < MaxSize /\ item \in Items /\ \A j \in 0..(count - 1) : LessThan(array[j], item)
    BY <2>1 DEF ArrayInv
  <2>3. \A j \in 1..((count + 1) - 1) : Promised!Less(key, Plain(array, count)[j], item)
    <3> TAKE j \in 1..((count + 1) - 1)
    <3>1. j \in 1..count /\ j - 1 \in 0..(count - 1)
      BY <1>1
    <3>2. key[array[j - 1]] < key[item] /\ Plain(array, count)[j] = array[j - 1]
      BY <1>8, <2>2, <3>1 DEF LessThan
    <3> QED
      BY <3>2 DEF Promised!Less
  <2>4. Promised!Position(Plain(array, count), key, item) = count + 1
    <3>1. count + 1 \in 1..(Len(Plain(array, count)) + 1) /\ ~(count + 1 <= Len(Plain(array, count)))
      BY <1>1, <1>8
    <3> QED
      BY <1>1, <1>8, <2>3, <3>1, PositionIs
  <2>5. Plain(array', count') = InsertAt(Plain(array, count), count + 1, item)
    <3>1. count \in 0..(MaxSize - 1)
      BY <1>1, <2>2
    <3> QED
      BY <1>1, <2>1, <3>1, AddedAtEnd
  <2>6. Contents' = Promised!Inserted(Contents, key, item) /\ Len(Contents) < MaxSize
    BY <1>2, <1>5, <1>8, <2>1, <2>2, <2>4, <2>5, InsertedIs
  <2> QED
    BY <2>1, <2>2, <2>6 DEF Promised!Next, Promised!InsertItem
<1>13. CASE Displace
  <2>1. /\ pc = "search" /\ iterator < count /\ ~LessThan(array[iterator], item)
        /\ tmp' = array[iterator] /\ array' = [array EXCEPT ![iterator] = item]
        /\ pc' = "up" /\ UNCHANGED <<count, key, iterator>>
    BY <1>13 DEF Displace
  <2>2. /\ count < MaxSize /\ item \in Items /\ iterator \in Nat
        /\ \A j \in 0..(iterator - 1) : LessThan(array[j], item)
    BY <2>1 DEF ArrayInv
  <2>3. \A j \in 1..((iterator + 1) - 1) : Promised!Less(key, Plain(array, count)[j], item)
    <3> TAKE j \in 1..((iterator + 1) - 1)
    <3>1. j \in 1..count /\ j - 1 \in 0..(iterator - 1)
      BY <1>1, <2>1, <2>2
    <3>2. key[array[j - 1]] < key[item] /\ Plain(array, count)[j] = array[j - 1]
      BY <1>8, <2>2, <3>1 DEF LessThan
    <3> QED
      BY <3>2 DEF Promised!Less
  <2>4. ~Promised!Less(key, Plain(array, count)[iterator + 1], item)
    <3>1. iterator + 1 \in 1..count /\ (iterator + 1) - 1 = iterator
      BY <1>1, <2>1, <2>2
    <3>2. Plain(array, count)[iterator + 1] = array[iterator]
      BY <1>8, <3>1
    <3> QED
      BY <2>1, <3>2 DEF Promised!Less, LessThan
  <2>5. Promised!Position(Plain(array, count), key, item) = iterator + 1
    <3>1. iterator + 1 \in 1..(Len(Plain(array, count)) + 1)
      BY <1>1, <1>8, <2>1, <2>2
    <3> QED
      BY <1>1, <1>8, <2>3, <2>4, <3>1, PositionIs
  <2>6. Holding(array', count', iterator', tmp') = InsertAt(Plain(array, count), iterator + 1, item)
    <3>1. count \in 0..(MaxSize - 1) /\ iterator \in 0..(count - 1)
      BY <1>1, <2>1, <2>2
    <3> QED
      BY <1>1, <2>1, <3>1, Displaced
  <2>7. Contents' = Promised!Inserted(Contents, key, item) /\ Len(Contents) < MaxSize
    BY <1>2, <1>6, <1>8, <2>1, <2>2, <2>5, <2>6, InsertedIs
  <2> QED
    BY <2>1, <2>2, <2>7 DEF Promised!Next, Promised!InsertItem
<1>14. CASE ShiftUp
  <2>1. /\ pc = "up" /\ iterator < count /\ iterator' = iterator + 1
        /\ tmp' = array[iterator + 1] /\ array' = [array EXCEPT ![iterator + 1] = tmp]
        /\ UNCHANGED <<count, key, pc>>
    BY <1>14 DEF ShiftUp
  <2>2. count \in 0..(MaxSize - 1) /\ iterator \in 0..(count - 1)
    BY <1>1, <2>1 DEF ArrayInv
  <2>3. Holding(array', count', iterator', tmp') = Holding(array, count, iterator, tmp)
    BY <1>1, <2>1, <2>2, HeldOn
  <2> QED
    BY <1>3, <1>6, <2>1, <2>3
<1>15. CASE ShiftedUp
  <2>1. /\ pc = "up" /\ iterator = count /\ count' = count + 1 /\ pc' = "idle"
        /\ UNCHANGED <<array, key>>
    BY <1>15 DEF ShiftedUp
  <2>2. count \in 0..(MaxSize - 1)
    BY <1>1, <2>1 DEF ArrayInv
  <2>3. Holding(array, count, iterator, tmp) = Plain(array', count')
    BY <1>1, <2>1, <2>2, HeldLast
  <2> QED
    BY <1>3, <1>5, <2>1, <2>3
<1>16. ASSUME NEW i \in 0..(MaxSize - 1), RemoveItem(i) PROVE Promised!Next
  <2>1. /\ pc = "idle" /\ i < count /\ pc' = "down" /\ iterator' = i
        /\ UNCHANGED <<array, count, key>>
    BY <1>16 DEF RemoveItem
  <2>2. count \in 1..MaxSize /\ i \in 0..(count - 1)
    BY <1>1, <2>1
  <2>3. Closing(array', count', iterator') = RemoveAt(Plain(array, count), i + 1)
    BY <1>1, <2>1, <2>2, Closed
  <2>4. Contents' = RemoveAt(Contents, i + 1) /\ i < Len(Contents)
    BY <1>2, <1>7, <1>8, <2>1, <2>3
  <2>5. Contents' = Promised!Removed(Contents, i)
    BY <2>4 DEF Promised!Removed, Promised!RemoveAt, RemoveAt
  <2> QED
    BY <2>1, <2>4, <2>5 DEF Promised!Next, Promised!RemoveItem
<1>17. CASE ShiftDown
  <2>1. /\ pc = "down" /\ iterator < count /\ iterator' = iterator + 1
        /\ array' = [array EXCEPT ![iterator] = array[iterator + 1]]
        /\ UNCHANGED <<count, key, pc>>
    BY <1>17 DEF ShiftDown
  <2>2. count \in 1..MaxSize /\ iterator \in 0..(count - 1)
    BY <1>1, <2>1 DEF ArrayInv
  <2>3. Closing(array', count', iterator') = Closing(array, count, iterator)
    BY <1>1, <2>1, <2>2, ClosedOn
  <2> QED
    BY <1>4, <1>7, <2>1, <2>3
<1>18. CASE ShiftedDown
  <2>1. /\ pc = "down" /\ iterator = count /\ count' = count - 1 /\ pc' = "idle"
        /\ UNCHANGED <<array, key>>
    BY <1>18 DEF ShiftedDown
  <2>2. count \in 1..MaxSize
    BY <1>1, <2>1 DEF ArrayInv
  <2>3. Closing(array, count, iterator) = Plain(array', count')
    BY <1>1, <2>1, <2>2, ClosedLast
  <2> QED
    BY <1>4, <1>5, <2>1, <2>3
<1> QED
  BY <1>9, <1>10, <1>11, <1>12, <1>13, <1>14, <1>15, <1>16, <1>17, <1>18 DEF ArrayNext

\* The loops of insert_ordered_array and remove_ordered_array do to the array
\* what they promise, for any items, keys and sizes, whatever the owner does to
\* the keys between the calls.
THEOREM LoopsKeepPromise == ArraySpec => ImplementsSortedArray
<1>1. ArrayInit => Promised!Init
  <2> SUFFICES ASSUME ArrayInit PROVE Contents = << >>
    BY DEF ArrayInit, Promised!Init
  <2>1. pc = "idle" /\ count = 0
    BY DEF ArrayInit
  <2> QED
    BY <2>1 DEF Contents
<1> QED
  BY <1>1, LoopStep, ArrayInvariant, PTL DEF ArraySpec, ImplementsSortedArray, Promised!Spec

----------------------------------------------------------------------------
(* It stays sorted. *)

LEMMA InsertedIn ==
  ASSUME NEW s \in Seq(Items), NEW f, NEW x \in Items
  PROVE  Promised!Inserted(s, f, x) \in Seq(Items)
<1> DEFINE p == Promised!Position(s, f, x)
<1>1. p \in 1..(Len(s) + 1)
  BY PositionFact
<1> HIDE DEF p
<1>2. InsertAt(s, p, x) \in Seq(Items)
  BY <1>1, Pieces
<1> QED
  BY <1>2, InsertedIs DEF p

LEMMA RemovedIn ==
  ASSUME NEW s \in Seq(Items), NEW n \in 0..(Len(s) - 1)
  PROVE  Promised!Removed(s, n) \in Seq(Items)
<1>1. n + 1 \in 1..Len(s)
  OBVIOUS
<1>2. RemoveAt(s, n + 1) \in Seq(Items)
  BY <1>1, LeftOut
<1> QED
  BY <1>2 DEF Promised!Removed, Promised!RemoveAt, RemoveAt

\* What a step of the promise does to items in their order.
LEMMA OrderKept ==
  ASSUME NEW s \in Seq(Items), NEW t, NEW f \in [Items -> Int],
         \/ \E x \in Items : t = Promised!Inserted(s, f, x)
         \/ \E n \in 0..(Len(s) - 1) : t = Promised!Removed(s, n)
         \/ t = s
  PROVE  t \in Seq(Items) /\ (SortedBy(s, f) => SortedBy(t, f))
<1>1. CASE \E x \in Items : t = Promised!Inserted(s, f, x)
  <2>1. PICK x \in Items : t = Promised!Inserted(s, f, x)
    BY <1>1
  <2>2. t \in Seq(Items)
    BY <2>1, InsertedIn
  <2>3. SortedBy(s, f) => SortedBy(t, f)
    BY <2>1, InsertSorts
  <2> QED
    BY <2>2, <2>3
<1>2. CASE \E n \in 0..(Len(s) - 1) : t = Promised!Removed(s, n)
  <2>1. PICK n \in 0..(Len(s) - 1) : t = Promised!Removed(s, n)
    BY <1>2
  <2>2. t \in Seq(Items)
    BY <2>1, RemovedIn
  <2>3. SortedBy(s, f) => SortedBy(t, f)
    BY <2>1, RemoveSorts
  <2> QED
    BY <2>2, <2>3
<1>3. CASE t = s
  BY <1>3
<1> QED
  BY <1>1, <1>2, <1>3

\* Which steps of the promise there are, told by the contents alone.
LEMMA StepKinds ==
  ASSUME [Promised!Next]_<<Contents, key>>, Contents \in Seq(Items), NEW s, s = Contents
  PROVE  \/ \E x \in Items : Contents' = Promised!Inserted(s, key, x)
         \/ \E n \in 0..(Len(s) - 1) : Contents' = Promised!Removed(s, n)
         \/ Contents' = s
<1>1. ASSUME NEW x \in Items, Promised!InsertItem(x)
      PROVE  Contents' = Promised!Inserted(s, key, x)
  BY <1>1 DEF Promised!InsertItem
<1>2. ASSUME NEW n \in 0..(MaxSize - 1), Promised!RemoveItem(n)
      PROVE  n \in 0..(Len(s) - 1) /\ Contents' = Promised!Removed(s, n)
  <2>1. n < Len(Contents) /\ Contents' = Promised!Removed(Contents, n)
    BY <1>2 DEF Promised!RemoveItem
  <2>2. Contents' = Promised!Removed(s, n)
    BY <2>1
  <2>3. s \in Seq(Items) /\ n < Len(s)
    BY <2>1
  <2> QED
    BY <2>2, <2>3
<1>3. CASE Promised!Rekey
  BY <1>3 DEF Promised!Rekey
<1>4. CASE UNCHANGED <<Contents, key>>
  BY <1>4
<1> QED
  BY <1>1, <1>2, <1>3, <1>4 DEF Promised!Next

\* The contents are items, so that the lemmas about sequences apply.
ItemsOnly == Contents \in Seq(Items)

\* "It always remains in a sorted state (between calls)": for any items, keys
\* and sizes, no step but an owner's takes the array out of its order.
THEOREM StaysSorted == ArraySpec => Sorted
<1>1. ArrayInit => ItemsOnly
  <2> SUFFICES ASSUME ArrayInit PROVE Contents \in Seq(Items)
    BY DEF ItemsOnly
  <2>1. pc = "idle" /\ count = 0
    BY DEF ArrayInit
  <2> QED
    BY <2>1 DEF Contents
<1>2. ASSUME ArrayInv, [ArrayNext]_arrayVars, Contents \in Seq(Items)
      PROVE  Contents' \in Seq(Items) /\ KeepsOrder
  <2>1. PICK s \in Seq(Items) : s = Contents
    BY <1>2
  <2>2. PICK t : t = Contents'
    OBVIOUS
  <2>3. PICK f \in [Items -> Int] : f = key
    BY <1>2, ItemAssumption DEF ArrayInv
  <2>4. [Promised!Next]_<<Contents, key>>
    BY <1>2, LoopStep
  <2>5. \/ \E x \in Items : Contents' = Promised!Inserted(s, key, x)
        \/ \E n \in 0..(Len(s) - 1) : Contents' = Promised!Removed(s, n)
        \/ Contents' = s
    BY <1>2, <2>1, <2>4, StepKinds
  <2>6. \/ \E x \in Items : t = Promised!Inserted(s, f, x)
        \/ \E n \in 0..(Len(s) - 1) : t = Promised!Removed(s, n)
        \/ t = s
    BY <2>2, <2>3, <2>5
  <2>7. t \in Seq(Items) /\ (SortedBy(s, f) => SortedBy(t, f))
    BY <2>6, OrderKept
  <2>8. InOrder => SortedBy(s, f)
    BY <2>1, <2>3 DEF InOrder, SortedBy
  <2>9. key' = key /\ SortedBy(t, f) => InOrder'
    BY <2>2, <2>3 DEF InOrder, SortedBy
  <2> QED
    BY <2>2, <2>7, <2>8, <2>9 DEF KeepsOrder
<1>3. ArrayInv /\ [ArrayNext]_arrayVars /\ ItemsOnly => ItemsOnly'
  BY <1>2 DEF ItemsOnly
<1>4. ArrayInv /\ [ArrayNext]_arrayVars /\ ItemsOnly => [KeepsOrder]_arrayVars
  BY <1>2 DEF ItemsOnly
<1>5. ArraySpec => []ItemsOnly
  BY <1>1, <1>3, ArrayInvariant, PTL DEF ArraySpec
<1> QED
  BY <1>4, <1>5, ArrayInvariant, PTL DEF ArraySpec, Sorted

----------------------------------------------------------------------------
(* Memory. *)

\* What the constants are worth to a proof.
LEMMA Sizes ==
  /\ PAGE \in Nat /\ 20 <= PAGE /\ MIN \in Nat /\ 2 * PAGE <= MIN
  /\ START \in Nat /\ PAGE < START /\ INITIAL \in Nat /\ MIN <= INITIAL /\ START + INITIAL <= MAX
  /\ MAX \in Nat /\ MAX < WORD /\ WORD \in Nat /\ HDR = 12 /\ FTR = 8
BY SizeAssumption DEF HDR, FTR

Tags == [kind: {"header", "footer"}, hole: BOOLEAN, size: 0..(WORD - 1), header: Nat]

\* A memory of tags that lie in the heap.
Tagged(m) == \A a \in DOMAIN m : a \in START..MAX /\ m[a] \in Tags

LEMMA LengthFact ==
  ASSUME NEW tag \in Tags
  PROVE  Length(tag) \in {8, 12}
BY DEF Length, HDR, FTR

\* A sum below 2^32.
LEMMA SmallSum ==
  ASSUME NEW x \in Nat, NEW y \in Nat, x + y < WORD
  PROVE  Plus(x, y) = x + y
<1>1. x + y \in 0..(WORD - 1) /\ WORD \in Nat
  BY Sizes
<1> QED
  BY <1>1 DEF Plus

\* The headers of holes and of blocks.
HoleTag(size)  == Header(TRUE, size)
BlockTag(size) == Header(FALSE, size)

LEMMA HeaderFact ==
  ASSUME NEW size \in 0..(WORD - 1)
  PROVE  /\ HoleTag(size) \in Tags /\ BlockTag(size) \in Tags
BY Sizes DEF HoleTag, BlockTag, Header, Tags

LEMMA TagFact ==
  ASSUME NEW size
  PROVE  /\ HoleTag(size).kind = "header" /\ HoleTag(size).size = size /\ Length(HoleTag(size)) = 12
         /\ HoleTag(size).hole = TRUE
         /\ BlockTag(size).kind = "header" /\ BlockTag(size).size = size /\ Length(BlockTag(size)) = 12
         /\ BlockTag(size).hole = FALSE
BY DEF HoleTag, BlockTag, Header, Length, HDR

LEMMA ResizedTag ==
  ASSUME NEW old, NEW size
  PROVE  [HoleTag(old) EXCEPT !.size = size] = HoleTag(size)
<1>1. PICK hole : hole = TRUE
  OBVIOUS
<1>2. [Header(hole, old) EXCEPT !.size = size] = Header(hole, size)
  BY DEF Header
<1> QED
  BY <1>1, <1>2 DEF HoleTag

LEMMA FooterFact ==
  ASSUME NEW a \in Nat
  PROVE  /\ Footer(a) \in Tags /\ Length(Footer(a)) = 8
         /\ Footer(a).kind = "footer" /\ Footer(a).header = a
BY Sizes DEF Footer, Tags, Length

\* m becomes n by changes between lo and hi: tags that end below lo stay, and
\* those that are new lie there.
Writes(m, n, lo, hi) ==
  /\ \A a \in DOMAIN m : a + Length(m[a]) <= lo => a \in DOMAIN n /\ n[a] = m[a]
  /\ \A a \in DOMAIN n : \/ a \in DOMAIN m /\ n[a] = m[a]
                         \/ lo <= a /\ a + Length(n[a]) <= hi

LEMMA WritesTrans ==
  ASSUME NEW m, NEW n, NEW o, NEW lo, NEW hi, Writes(m, n, lo, hi), Writes(n, o, lo, hi)
  PROVE  Writes(m, o, lo, hi)
<1>1. ASSUME NEW a \in DOMAIN m, a + Length(m[a]) <= lo
      PROVE  a \in DOMAIN o /\ o[a] = m[a]
  <2>1. a \in DOMAIN n /\ n[a] = m[a]
    BY <1>1 DEF Writes
  <2> QED
    BY <1>1, <2>1 DEF Writes
<1>2. ASSUME NEW a \in DOMAIN o, ~(lo <= a /\ a + Length(o[a]) <= hi)
      PROVE  a \in DOMAIN m /\ o[a] = m[a]
  <2>1. a \in DOMAIN n /\ o[a] = n[a]
    BY <1>2 DEF Writes
  <2> QED
    BY <1>2, <2>1 DEF Writes
<1> QED
  BY <1>1, <1>2 DEF Writes

LEMMA PutFact ==
  ASSUME NEW m, Tagged(m), NEW lo \in Nat, NEW hi \in Nat,
         NEW a \in START..MAX, NEW tag \in Tags, lo <= a, a + Length(tag) <= hi
  PROVE  /\ Tagged(Put(m, a, tag)) /\ Writes(m, Put(m, a, tag), lo, hi)
         /\ Tag(Put(m, a, tag), a) = tag
         /\ \A b \in DOMAIN m : b # a /\ (b + Length(m[b]) <= a \/ a + Length(tag) <= b) =>
              Tag(Put(m, a, tag), b) = Tag(m, b)
<1> DEFINE n == Put(m, a, tag)
<1>1. /\ DOMAIN n \subseteq DOMAIN m \cup {a} /\ a \in DOMAIN n /\ n[a] = tag
      /\ \A b \in DOMAIN n : b # a => n[b] = m[b]
      /\ \A b \in DOMAIN m : b # a /\ (b + Length(m[b]) <= a \/ a + Length(tag) <= b) =>
           b \in DOMAIN n
  BY DEF Put, Erase, Restrict
<1>2. Tagged(n)
  BY <1>1 DEF Tagged
<1>3. \A b \in DOMAIN m : b \in Nat /\ Length(m[b]) \in {8, 12}
  BY Sizes, LengthFact DEF Tagged
<1>4. a \in Nat /\ Length(tag) \in {8, 12}
  BY Sizes, LengthFact
<1> HIDE DEF n
<1>5. Writes(m, n, lo, hi)
  <2>1. ASSUME NEW b \in DOMAIN m, b + Length(m[b]) <= lo
        PROVE  b \in DOMAIN n /\ n[b] = m[b]
    <3>1. b # a /\ b + Length(m[b]) <= a
      BY <1>3, <1>4, <2>1
    <3> QED
      BY <1>1, <3>1
  <2>2. ASSUME NEW b \in DOMAIN n
        PROVE  \/ b \in DOMAIN m /\ n[b] = m[b]
               \/ lo <= b /\ b + Length(n[b]) <= hi
    BY <1>1
  <2> QED
    BY <2>1, <2>2 DEF Writes
<1>6. \A b \in DOMAIN m : b # a /\ (b + Length(m[b]) <= a \/ a + Length(tag) <= b) =>
        Tag(n, b) = Tag(m, b)
  BY <1>1 DEF Tag
<1>7. Tag(n, a) = tag
  BY <1>1 DEF Tag
<1> QED
  BY <1>2, <1>5, <1>6, <1>7 DEF n

LEMMA EraseFact ==
  ASSUME NEW m, Tagged(m), NEW lo \in Nat, NEW hi, NEW x \in Nat, NEW y, lo <= x
  PROVE  /\ Tagged(Erase(m, x, y)) /\ Writes(m, Erase(m, x, y), lo, hi)
         /\ \A b \in DOMAIN m : b + Length(m[b]) <= x \/ y <= b =>
              Tag(Erase(m, x, y), b) = Tag(m, b)
<1> DEFINE n == Erase(m, x, y)
<1>1. /\ DOMAIN n \subseteq DOMAIN m /\ \A b \in DOMAIN n : n[b] = m[b]
      /\ \A b \in DOMAIN m : b + Length(m[b]) <= x \/ y <= b => b \in DOMAIN n
  BY DEF Erase, Restrict
<1>2. \A b \in DOMAIN m : b \in Nat /\ Length(m[b]) \in {8, 12}
  BY Sizes, LengthFact DEF Tagged
<1> HIDE DEF n
<1>3. \A b \in DOMAIN m : b + Length(m[b]) <= lo => b + Length(m[b]) <= x
  BY <1>2
<1>4. Tagged(n) /\ Writes(m, n, lo, hi)
  BY <1>1, <1>3 DEF Tagged, Writes
<1> QED
  BY <1>1, <1>4 DEF n, Tag

\* The header of a hole whose size is written in place.
LEMMA ResizeFact ==
  ASSUME NEW m, Tagged(m), NEW lo \in Nat, NEW hi \in Nat, NEW a \in Nat, NEW old,
         Tag(m, a) = HoleTag(old), NEW size \in 0..(WORD - 1), lo <= a, a + 12 <= hi
  PROVE  /\ Tagged(Resize(m, a, size)) /\ Writes(m, Resize(m, a, size), lo, hi)
         /\ Tag(Resize(m, a, size), a) = HoleTag(size)
         /\ \A b : b # a => Tag(Resize(m, a, size), b) = Tag(m, b)
<1>h. PICK h : h = HoleTag(old)
  OBVIOUS
<1>g. PICK g : g = HoleTag(size)
  OBVIOUS
<1> DEFINE n == Resize(m, a, size)
<1>1. a \in DOMAIN m /\ m[a] = h
  <2>1. h.kind = "header" /\ Tag(m, a) = h
    BY <1>h, TagFact
  <2> QED
    BY <2>1 DEF Tag, Nothing
<1>2. n = [m EXCEPT ![a].size = size]
  BY <1>1 DEF Resize
<1>3. DOMAIN n = DOMAIN m /\ (\A b \in DOMAIN m : b # a => n[b] = m[b]) /\ n[a] = g
  <2>1. g = [h EXCEPT !.size = size]
    BY <1>h, <1>g, ResizedTag
  <2> QED
    BY <1>1, <1>2, <2>1
<1> HIDE DEF n
<1>4. Tagged(n)
  <2>1. TRUE \in BOOLEAN
    OBVIOUS
  <2>2. g \in Tags
    BY <1>g, <2>1, HeaderFact
  <2> QED
    BY <1>1, <1>3, <2>2 DEF Tagged
<1>5. Writes(m, n, lo, hi)
  <2>1. Length(m[a]) = 12 /\ Length(n[a]) = 12
    <3>1. Length(h) = 12 /\ Length(g) = 12
      BY <1>h, <1>g, TagFact
    <3> QED
      BY <1>1, <1>3, <3>1
  <2>2. ASSUME NEW b \in DOMAIN m, b + Length(m[b]) <= lo
        PROVE  n[b] = m[b]
    <3>1. b # a
      BY <2>1, <2>2
    <3> QED
      BY <1>3, <3>1
  <2>3. ASSUME NEW b \in DOMAIN n
        PROVE  n[b] = m[b] \/ (lo <= b /\ b + Length(n[b]) <= hi)
    BY <1>3, <2>1, <2>3
  <2> QED
    BY <1>3, <2>2, <2>3 DEF Writes
<1>6. Tag(n, a) = g /\ \A b : b # a => Tag(n, b) = Tag(m, b)
  BY <1>1, <1>3 DEF Tag
<1> QED
  BY <1>g, <1>4, <1>5, <1>6 DEF n

\* Where all of lo..(hi - 1) is present, changes there do not fault.
LEMMA NoFault ==
  ASSUME NEW m, NEW f, NEW lo \in Nat, NEW hi \in Nat, Tagged(m), Writes(mem, m, lo, hi),
         \A a \in lo..(hi - 1) : Present(f, a)
  PROVE  ~Faults(m, f)
<1> SUFFICES ASSUME NEW a \in DOMAIN m, m[a] # Tag(mem, a)
             PROVE  Present(f, a) /\ Present(f, a + Length(m[a]) - 1)
  BY DEF Faults
<1>1. lo <= a /\ a + Length(m[a]) <= hi
  BY DEF Writes, Tag
<1>2. a \in Nat /\ Length(m[a]) \in {8, 12}
  BY Sizes, LengthFact DEF Tagged
<1>3. a \in lo..(hi - 1) /\ a + Length(m[a]) - 1 \in lo..(hi - 1)
  BY <1>1, <1>2
<1> QED
  BY <1>3

----------------------------------------------------------------------------
(* The inductive invariant: the blocks lie one behind the other, oldest     *)
(* first, and what is left behind the last is the only hole.               *)

At(k)    == live[k].at - HDR
After(k) == At(k) + Size(At(k))
Edge(k)  == IF k = 0 THEN START ELSE After(k)
Top      == Edge(Len(live))

\* Each block begins where the one before it ends, and has its tags.
BlockInv ==
  /\ \A k \in 1..Len(live) :
       /\ At(k) \in START..MAX /\ At(k) = Edge(k - 1) /\ live[k].size \in Nat
       /\ Size(At(k)) \in Nat /\ live[k].size + 20 <= Size(At(k)) /\ After(k) <= end
       /\ Tag(mem, At(k)) = BlockTag(Size(At(k)))
       /\ Tag(mem, After(k) - FTR) = Footer(At(k))
  /\ \A j, k \in 1..Len(live) : j < k => After(j) <= At(k)

\* One hole, the largest possible, or none.
HoleInv ==
  /\ Top = end => index = << >>
  /\ Top # end => /\ index = <<Top>> /\ Top + 20 <= end
                  /\ Tag(mem, Top) = HoleTag(end - Top)

\* How much the blocks of a stacked program take; a heap that grows does so by
\* whole pages.
Bound == CHOOSE b \in 0..MIN : Enough(program, b)
PlaceInv ==
  IF Stacked(program)
  THEN /\ end - START \in {MIN, INITIAL}
       /\ \A k \in 0..Len(live) : Edge(k) - START <= k * Bound
  ELSE (end - START) % PAGE = 0

StateInv ==
  /\ program \in Programs /\ call \in program.calls \cup {NoCall}
  /\ halted \in {"no", "memory"}
  /\ live \in Seq([at: Int, size: Int]) /\ Len(live) <= program.most
  /\ call # NoCall => Len(live) < program.most
  /\ end \in START..MAX
  /\ frame \in [Pages -> {"none", "mapped", "freed"}]

IInv == StateInv /\ Tagged(mem) /\ BlockInv /\ HoleInv /\ PlaceInv /\ HeapMapped

\* The program runs with what it may ask for.
LEMMA CallFact ==
  ASSUME NEW p \in Programs, NEW c \in p.calls
  PROVE  c.size \in Nat /\ p.most \in Nat /\ c # NoCall
BY SizeAssumption DEF NoCall

\* A program that the heap serves asks for nothing so large that its size with
\* header and footer passes 2^32.
LEMMA NeedFact ==
  ASSUME NEW p \in Programs, NEW c \in p.calls, Served(p)
  PROVE  Need(c) = c.size + 20
<1>1. c.size \in Nat
  BY CallFact
<1>2. c.size + 20 < WORD
  <2>1. CASE OddSizes(p)
    BY <1>1, <2>1, Sizes DEF OddSizes
  <2>2. CASE Stacked(p)
    <3>1. PICK b \in 0..MIN : Enough(p, b)
      BY <2>2 DEF Stacked
    <3> QED
      BY <1>1, <3>1, Sizes DEF Enough
  <2> QED
    BY <2>1, <2>2 DEF Served
<1>3. Plus(c.size, 20) = c.size + 20
  BY <1>1, <1>2, SmallSum
<1> QED
  BY <1>3 DEF Need, HDR, FTR

LEMMA BoundFact ==
  ASSUME Stacked(program), program \in Programs
  PROVE  /\ Bound \in 0..MIN /\ program.most * Bound + 20 <= MIN
         /\ \A c \in program.calls : Need(c) <= Bound
<1>1. Bound \in 0..MIN /\ Enough(program, Bound)
  BY DEF Stacked, Bound
<1>4. ASSUME NEW c \in program.calls PROVE Need(c) <= Bound
  <2>1. c.size \in Nat /\ c.size + 20 <= Bound
    BY <1>1, CallFact DEF Enough, HDR, FTR
  <2>2. c.size + 20 < WORD
    BY <1>1, <2>1, Sizes
  <2>3. Plus(c.size, 20) = c.size + 20
    BY <2>1, <2>2, SmallSum
  <2> QED
    BY <2>1, <2>3 DEF Need, HDR, FTR
<1>2. program.most \in Nat /\ Bound \in Nat /\ MIN \in Nat
  BY <1>1, SizeAssumption
<1>3. program.most * Bound \in Nat
  BY <1>2
<1> QED
  BY <1>1, <1>2, <1>3, <1>4 DEF Enough, HDR, FTR

\* The edges are in order, from START to the top.
LEMMA EdgeFact ==
  ASSUME IInv
  PROVE  /\ Len(live) \in Nat /\ Top \in START..end /\ end \in Nat
         /\ \A k \in 1..Len(live) : /\ At(k) \in Nat /\ Size(At(k)) \in Nat /\ After(k) \in Nat
                                    /\ START <= At(k) /\ At(k) + 20 <= After(k) /\ After(k) <= Top
                                    /\ live[k] = [at |-> At(k) + 12, size |-> live[k].size]
                                    /\ live[k].at = At(k) + 12
         /\ Len(live) # 0 => Top = After(Len(live))
         /\ Len(live) = 0 => Top = START
<1>1. Len(live) \in Nat /\ end \in Nat /\ START <= end
  BY Sizes DEF IInv, StateInv
<1>2. ASSUME NEW k \in 1..Len(live)
      PROVE  /\ At(k) \in Nat /\ Size(At(k)) \in Nat /\ After(k) \in Nat
             /\ START <= At(k) /\ At(k) + 20 <= After(k) /\ After(k) <= end
  <2>1. /\ At(k) \in START..MAX /\ Size(At(k)) \in Nat /\ After(k) <= end
        /\ live[k].size \in Nat /\ live[k].size + 20 <= Size(At(k))
    BY DEF IInv, BlockInv
  <2>2. After(k) = At(k) + Size(At(k))
    BY DEF After
  <2> QED
    BY <2>1, <2>2, Sizes
<1>3. /\ Len(live) # 0 => Top = After(Len(live))
      /\ Len(live) = 0 => Top = START
  BY DEF Top, Edge
<1>4. ASSUME NEW k \in 1..Len(live) PROVE After(k) <= Top
  <2>1. PICK n \in Nat : n = Len(live)
    BY <1>1
  <2>2. n # 0 /\ n \in 1..Len(live) /\ After(n) = Top
    BY <1>1, <1>3, <2>1
  <2>3. k = n \/ After(k) <= At(n)
    BY <2>1, <2>2 DEF IInv, BlockInv
  <2>4. At(n) <= After(n) /\ At(n) \in Nat /\ After(n) \in Nat /\ After(k) \in Nat
    BY <1>2, <2>2
  <2> QED
    BY <2>2, <2>3, <2>4
<1>5. Top \in START..end
  <2>1. CASE Len(live) = 0
    BY <1>1, <1>3, <2>1, Sizes
  <2>2. CASE Len(live) # 0
    <3>1. PICK n \in Nat : n = Len(live)
      BY <1>1
    <3>2. n \in 1..Len(live) /\ Top = After(n)
      BY <1>1, <1>3, <2>2, <3>1
    <3> QED
      BY <1>1, <1>2, <3>2, Sizes
  <2> QED
    BY <2>1, <2>2
<1>6. ASSUME NEW k \in 1..Len(live)
      PROVE  /\ live[k] = [at |-> At(k) + 12, size |-> live[k].size]
             /\ live[k].at = At(k) + 12
  <2>1. live[k] \in [at: Int, size: Int]
    BY ElementOfSeq DEF IInv, StateInv
  <2>2. live[k].at = At(k) + 12
    BY <2>1 DEF At, HDR
  <2> QED
    BY <2>1, <2>2
<1> QED
  BY <1>1, <1>2, <1>3, <1>4, <1>5, <1>6

\* x lies on page x \div PAGE.
LEMMA PageFact ==
  ASSUME NEW x \in Nat, NEW p \in Nat, p \in Nat \ {0}
  PROVE  /\ x \div p \in Nat /\ p * (x \div p) <= x /\ x < p * (x \div p) + p
OBVIOUS

LEMMA Divided ==
  ASSUME NEW x \in Nat, NEW p \in Nat, p # 0, x % p = 0
  PROVE  \E q \in Nat : x = p * q
OBVIOUS

\* Pages do not overlap.
LEMMA PageUnique ==
  ASSUME NEW x \in Nat, NEW p \in Nat, p # 0, NEW q \in Nat, p * q <= x, x < p * q + p
  PROVE  x \div p = q
<1> DEFINE r == x \div p
<1>1. r \in Nat /\ p * r <= x /\ x < p * r + p
  BY PageFact
<1> HIDE DEF r
<1>2. ASSUME NEW u \in Nat, NEW v \in Nat, u < v, x < p * u + p, p * v <= x PROVE FALSE
  <2>1. p * (u + 1) <= p * v /\ p * (u + 1) = p * u + p
    BY <1>2
  <2>2. p * u \in Nat /\ p * v \in Nat
    OBVIOUS
  <2> QED
    BY <1>2, <2>1, <2>2
<1>3. ~(r < q) /\ ~(q < r)
  BY <1>1, <1>2
<1>4. r = q
  BY <1>1, <1>3
<1> QED
  BY <1>4 DEF r

LEMMA Multiple ==
  ASSUME NEW p \in Nat, p # 0, NEW q \in Nat
  PROVE  p * q \in Nat /\ (p * q) % p = 0
<1>1. ASSUME NEW x \in Nat, x = p * q PROVE x % p = 0
  BY <1>1
<1>2. p * q \in Nat
  OBVIOUS
<1> QED
  BY <1>1, <1>2

\* Where every page up to e has a frame, everything up to e is present.
LEMMA MappedPresent ==
  ASSUME NEW f, NEW e \in START..MAX, \A p \in Pages : START + p * PAGE < e => f[p] = "mapped",
         NEW a \in START..(e - 1)
  PROVE  Present(f, a)
<1>1. a - START \in Nat /\ e \in Nat /\ e <= MAX /\ START \in Nat /\ MAX \in Nat /\ a \in Nat
  BY Sizes
<1> DEFINE p == PageOf(a)
<1>2. p \in Nat /\ PAGE * p <= a - START
  BY <1>1, PageFact, Sizes DEF PageOf
<1>3. p <= (MAX - START) \div PAGE
  <2>1. a - START <= MAX - START /\ MAX - START \in Nat
    BY <1>1
  <2> DEFINE q == (MAX - START) \div PAGE
  <2>2. q \in Nat /\ MAX - START < PAGE * q + PAGE
    BY <2>1, PageFact, Sizes
  <2> HIDE DEF p, q
  <2>3. PAGE * p < PAGE * q + PAGE
    <3>1. PAGE * p \in Nat /\ PAGE * q \in Nat
      BY <1>2, <2>2, Sizes
    <3> QED
      BY <1>1, <1>2, <2>1, <2>2, <3>1, Sizes
  <2>4. p < q + 1
    BY <1>2, <2>2, <2>3, Sizes
  <2> QED
    BY <1>2, <2>2, <2>4 DEF q
<1>4. p \in Pages
  <2>1. (MAX - START) \div PAGE \in Nat
    BY <1>1, PageFact, Sizes
  <2> QED
    BY <1>2, <1>3, <2>1 DEF Pages
<1>5. START + p * PAGE < e
  BY <1>1, <1>2, Sizes
<1> QED
  BY <1>4, <1>5 DEF Present

LEMMA HeapPresent ==
  ASSUME IInv, NEW a \in START..(end - 1)
  PROVE  Present(frame, a)
BY MappedPresent DEF IInv, StateInv, HeapMapped

----------------------------------------------------------------------------
(* create_heap. *)

LEMMA InitInv == Init => IInv
<1> SUFFICES ASSUME Init PROVE IInv
  OBVIOUS
<1>1. /\ mem = [a \in {START} |-> HoleTag(INITIAL)] /\ index = <<START>>
      /\ end = START + INITIAL /\ live = << >> /\ call = NoCall /\ halted = "no"
      /\ frame = [p \in Pages |-> IF p < INITIAL \div PAGE THEN "mapped" ELSE "none"]
      /\ program \in Programs /\ Len(live) = 0
  BY DEF Init, HoleTag
<1>2. HoleTag(INITIAL) \in Tags
  <2>1. INITIAL \in 0..(WORD - 1) /\ TRUE \in BOOLEAN
    BY Sizes
  <2> QED
    BY <2>1, HeaderFact
<1>3. Tagged(mem)
  <2>1. START \in START..MAX
    BY Sizes
  <2> QED
    BY <1>1, <1>2, <2>1 DEF Tagged
<1>4. StateInv
  <2>1. program.most \in Nat
    BY <1>1, SizeAssumption
  <2>2. live \in Seq([at: Int, size: Int])
    BY <1>1
  <2> QED
    BY <1>1, <2>1, <2>2, Sizes DEF StateInv
<1>5. BlockInv
  BY <1>1 DEF BlockInv
<1>6. HoleInv
  <2>1. Top = START
    BY <1>1 DEF Top, Edge
  <2>2. Tag(mem, START) = HoleTag(INITIAL)
    BY <1>1 DEF Tag
  <2> QED
    BY <1>1, <2>1, <2>2, Sizes DEF HoleInv
<1>7. PlaceInv
  <2>1. end - START = INITIAL /\ INITIAL % PAGE = 0
    BY <1>1, Sizes, SizeAssumption
  <2>2. ASSUME Stacked(program), NEW k \in 0..Len(live)
        PROVE  Edge(k) - START <= k * Bound
    BY <1>1, <2>2, BoundFact, Sizes DEF Edge
  <2> QED
    BY <2>1, <2>2 DEF PlaceInv
<1>8. HeapMapped
  <2> SUFFICES ASSUME NEW p \in Pages, START + p * PAGE < end
               PROVE  p < INITIAL \div PAGE
    BY <1>1 DEF HeapMapped
  <2>1. p \in Nat /\ INITIAL \div PAGE \in Nat
    BY PageFact, Sizes DEF Pages
  <2> DEFINE q == INITIAL \div PAGE
  <2>2. INITIAL = PAGE * q
    BY SizeAssumption, Sizes
  <2>3. PAGE * p < PAGE * q
    BY <1>1, <2>1, <2>2, Sizes
  <2> HIDE DEF q
  <2>4. p < q
    BY <2>1, <2>3, Sizes DEF q
  <2> QED
    BY <2>4 DEF q
<1> QED
  BY <1>3, <1>4, <1>5, <1>6, <1>7, <1>8 DEF IInv

----------------------------------------------------------------------------
(* alloc. *)

\* A block of s bytes, z of which the program fills, cut from the front of the
\* hole from t to the end.
Slice(t, s) == [pos |-> t, front |-> 0, size |-> s - 20, new |-> s, rest |-> end - t - s]

LEMMA SliceEnd ==
  ASSUME end \in START..MAX, NEW t \in START..MAX, NEW s \in Nat, 20 <= s, t + s <= end
  PROVE  RestAt(Slice(t, s)) = t + s
<1>1. /\ t + 20 \in Nat /\ s - 20 \in Nat /\ t + 20 + (s - 20) = t + s /\ t + s < WORD
      /\ t + HDR + FTR = t + 20
  BY Sizes
<1>2. Plus(t + 20, s - 20) = t + s
  BY <1>1, SmallSum
<1>3. Slice(t, s).pos = t /\ Slice(t, s).size = s - 20
  BY DEF Slice
<1> QED
  BY <1>1, <1>2, <1>3 DEF RestAt

LEMMA SliceFact ==
  ASSUME Tagged(mem), end \in START..MAX, NEW t \in START..MAX, NEW s \in Nat, NEW z \in Nat,
         z + 20 <= s, t + s = end \/ t + s + 20 <= end
  PROVE  LET m == WithRest(WithBlock(mem, Slice(t, s)), Slice(t, s))
             e == Erase(m, t + HDR, t + HDR + z)
         IN  /\ Tagged(m) /\ Writes(mem, m, t, end)
             /\ Tagged(e) /\ Writes(mem, e, t, end)
             /\ Tag(e, t) = BlockTag(s) /\ Tag(e, t + s - FTR) = Footer(t)
             /\ t + s # end => Tag(e, t + s) = HoleTag(end - t - s)
<1>h. PICK h : h = BlockTag(s)
  OBVIOUS
<1>g. PICK g : g = HoleTag(end - t - s)
  OBVIOUS
<1> DEFINE cut == Slice(t, s)
           m1 == Put(mem, t, h)
           m2 == Put(m1, t + s - 8, Footer(t))
           m3 == Put(m2, t + s, g)
           m4 == Put(m3, end - 8, Footer(t + s))
           m == WithRest(WithBlock(mem, cut), cut)
           e == Erase(m, t + 12, t + 12 + z)
<1>1. /\ t \in Nat /\ end \in Nat /\ end <= MAX /\ START \in Nat /\ START <= t /\ WORD \in Nat
      /\ MAX < WORD /\ HDR = 12 /\ FTR = 8 /\ MAX \in Nat
  BY Sizes
<1>2. h \in Tags /\ Length(h) = 12 /\ h.kind = "header"
  <2>1. s \in 0..(WORD - 1) /\ FALSE \in BOOLEAN
    BY <1>1
  <2> QED
    BY <1>h, <2>1, HeaderFact, TagFact
<1>3. Footer(t) \in Tags /\ Length(Footer(t)) = 8 /\ Footer(t).kind = "footer"
  BY <1>1, FooterFact
<1>4. /\ Tagged(m1) /\ Writes(mem, m1, t, end) /\ Tag(m1, t) = h
  <2>1. t \in START..MAX /\ t <= t /\ t + Length(h) <= end
    BY <1>1, <1>2
  <2> QED
    BY <1>1, <1>2, <2>1, PutFact
<1> HIDE DEF m1
<1>5. t \in DOMAIN m1 /\ m1[t] = h
  BY <1>2, <1>4 DEF Tag, Nothing
<1>6. /\ Tagged(m2) /\ Writes(m1, m2, t, end) /\ Tag(m2, t + s - 8) = Footer(t)
      /\ Tag(m2, t) = h
  <2>1. t + s - 8 \in START..MAX /\ t <= t + s - 8 /\ t + s - 8 + 8 <= end /\ t + 12 <= t + s - 8 /\ t # t + s - 8
    BY <1>1
  <2>2. /\ Tagged(m2) /\ Writes(m1, m2, t, end) /\ Tag(m2, t + s - 8) = Footer(t)
        /\ \A b \in DOMAIN m1 : b # t + s - 8 /\ (b + Length(m1[b]) <= t + s - 8 \/ t + s - 8 + 8 <= b) =>
             Tag(m2, b) = Tag(m1, b)
    BY <1>1, <1>3, <1>4, <2>1, PutFact
  <2> QED
    BY <1>2, <1>4, <1>5, <2>1, <2>2
<1> HIDE DEF m2
<1>7. Writes(mem, m2, t, end)
  BY <1>4, <1>6, WritesTrans
<1>8. /\ t \in DOMAIN m2 /\ m2[t] = h
      /\ t + s - 8 \in DOMAIN m2 /\ m2[t + s - 8] = Footer(t)
  BY <1>2, <1>3, <1>6 DEF Tag, Nothing
<1>9. WithBlock(mem, cut) = m2
  <2>1. t + HDR + (s - 20) = t + s - 8 /\ t + 12 \in Nat /\ s - 20 \in Nat /\ t + 12 + (s - 20) < WORD
    BY <1>1
  <2>2. Plus(t + HDR, s - 20) = t + s - 8
    BY <1>1, <2>1, SmallSum
  <2> QED
    BY <1>h, <2>2 DEF WithBlock, Slice, BlockTag, m1, m2
<1>10. /\ Tagged(m) /\ Writes(mem, m, t, end)
       /\ t \in DOMAIN m /\ m[t] = h
       /\ t + s - 8 \in DOMAIN m /\ m[t + s - 8] = Footer(t)
       /\ t + s # end => t + s \in DOMAIN m /\ m[t + s] = g
  <2>1. CASE t + s = end
    <3>1. cut.rest = 0
      BY <1>1, <2>1 DEF Slice
    <3>2. m = m2
      BY <1>9, <3>1 DEF WithRest
    <3> QED
      BY <1>6, <1>7, <1>8, <2>1, <3>2
  <2>2. CASE t + s # end
    <3>1. t + s + 20 <= end
      BY <2>2
    <3>2. /\ cut.rest = end - t - s /\ cut.rest # 0 /\ RestAt(cut) = t + s
          /\ Plus(RestAt(cut), cut.rest - FTR) = end - 8 /\ end - 8 < end
      <4>1. cut.rest = end - t - s /\ cut.rest # 0
        BY <1>1, <3>1 DEF Slice
      <4>2. RestAt(cut) = t + s
        BY <1>1, <3>1, SliceEnd
      <4>3. t + s + ((end - t - s) - 8) = end - 8 /\ (end - 8) % WORD = end - 8
        BY <1>1, <3>1
      <4> QED
        BY <1>1, <4>1, <4>2, <4>3 DEF Plus
    <3>3. m = m4
      BY <1>9, <1>g, <3>2 DEF WithRest, HoleTag, m3, m4
    <3>4. g \in Tags /\ Length(g) = 12 /\ g.kind = "header"
      <4>1. end - t - s \in 0..(WORD - 1) /\ TRUE \in BOOLEAN
        BY <1>1, <3>1
      <4> QED
        BY <1>g, <4>1, HeaderFact, TagFact
    <3>5. Footer(t + s) \in Tags /\ Length(Footer(t + s)) = 8
      BY <1>1, FooterFact
    <3>6. /\ Tagged(m3) /\ Writes(m2, m3, t, end) /\ Tag(m3, t + s) = g
          /\ Tag(m3, t) = h /\ Tag(m3, t + s - 8) = Footer(t)
      <4>1. /\ t + s \in START..MAX /\ t <= t + s /\ t + s + 12 <= end
            /\ t # t + s /\ t + 12 <= t + s /\ t + s - 8 # t + s /\ t + s - 8 + 8 <= t + s
        BY <1>1, <3>1
      <4>2. /\ Tagged(m3) /\ Writes(m2, m3, t, end) /\ Tag(m3, t + s) = g
            /\ \A b \in DOMAIN m2 : b # t + s /\ (b + Length(m2[b]) <= t + s \/ t + s + 12 <= b) =>
                 Tag(m3, b) = Tag(m2, b)
        <5>1. t + s + Length(g) <= end
          BY <3>4, <4>1
        <5>2. /\ Tagged(m3) /\ Writes(m2, m3, t, end) /\ Tag(m3, t + s) = g
              /\ \A b \in DOMAIN m2 : b # t + s /\ (b + Length(m2[b]) <= t + s
                                                 \/ t + s + Length(g) <= b) =>
                   Tag(m3, b) = Tag(m2, b)
          BY <1>1, <1>6, <3>4, <4>1, <5>1, PutFact
        <5> QED
          BY <3>4, <5>2
      <4> QED
        BY <1>2, <1>3, <1>6, <1>8, <4>1, <4>2
    <3> HIDE DEF m3
    <3>7. /\ t \in DOMAIN m3 /\ m3[t] = h
          /\ t + s - 8 \in DOMAIN m3 /\ m3[t + s - 8] = Footer(t)
          /\ t + s \in DOMAIN m3 /\ m3[t + s] = g
      BY <1>2, <1>3, <3>4, <3>6 DEF Tag, Nothing
    <3>8. /\ Tagged(m4) /\ Writes(m3, m4, t, end)
          /\ Tag(m4, t) = h /\ Tag(m4, t + s - 8) = Footer(t)
          /\ Tag(m4, t + s) = g
      <4>1. /\ end - 8 \in START..MAX /\ t <= end - 8 /\ end - 8 + 8 <= end
            /\ t # end - 8 /\ t + 12 <= end - 8 /\ t + s - 8 # end - 8 /\ t + s - 8 + 8 <= end - 8
            /\ t + s # end - 8 /\ t + s + 12 <= end - 8
        BY <1>1, <3>1
      <4>2. /\ Tagged(m4) /\ Writes(m3, m4, t, end)
            /\ \A b \in DOMAIN m3 : b # end - 8 /\ (b + Length(m3[b]) <= end - 8 \/ end - 8 + 8 <= b) =>
                 Tag(m4, b) = Tag(m3, b)
        BY <1>1, <3>5, <3>6, <4>1, PutFact
      <4> QED
        BY <1>2, <1>3, <3>4, <3>6, <3>7, <4>1, <4>2
    <3> HIDE DEF m4
    <3>9. Writes(mem, m4, t, end)
      <4>1. Writes(mem, m3, t, end)
        BY <1>7, <3>6, WritesTrans
      <4> QED
        BY <3>8, <4>1, WritesTrans
    <3>10. /\ t \in DOMAIN m4 /\ m4[t] = h
           /\ t + s - 8 \in DOMAIN m4 /\ m4[t + s - 8] = Footer(t)
           /\ t + s \in DOMAIN m4 /\ m4[t + s] = g
      BY <1>2, <1>3, <3>4, <3>8 DEF Tag, Nothing
    <3> QED
      BY <3>3, <3>8, <3>9, <3>10
  <2> QED
    BY <2>1, <2>2
<1> HIDE DEF m
<1>11. /\ Tagged(e) /\ Writes(m, e, t, end)
       /\ \A b \in DOMAIN m : b + Length(m[b]) <= t + 12 \/ t + 12 + z <= b => Tag(e, b) = Tag(m, b)
  <2>1. t + 12 \in Nat /\ t <= t + 12
    BY <1>1
  <2> QED
    BY <1>1, <1>10, <2>1, EraseFact
<1>12. t + 12 + z <= t + s - 8 /\ t + 12 + z <= t + s
  BY <1>1
<1> HIDE DEF e
<1>13. Tag(e, t) = h /\ Tag(e, t + s - 8) = Footer(t)
  <2>1. t + Length(m[t]) <= t + 12
    BY <1>1, <1>2, <1>10
  <2>2. Tag(e, t) = Tag(m, t)
    BY <1>10, <1>11, <2>1
  <2>3. Tag(e, t + s - 8) = Tag(m, t + s - 8)
    BY <1>10, <1>11, <1>12
  <2> QED
    BY <1>10, <2>2, <2>3 DEF Tag
<1>14. t + s # end => Tag(e, t + s) = g
  <2> SUFFICES ASSUME t + s # end PROVE Tag(e, t + s) = g
    OBVIOUS
  <2>1. Tag(e, t + s) = Tag(m, t + s)
    BY <1>10, <1>11, <1>12
  <2> QED
    BY <1>10, <2>1 DEF Tag
<1>15. Writes(mem, e, t, end)
  BY <1>10, <1>11, WritesTrans
<1> QED
  BY <1>1, <1>10, <1>11, <1>13, <1>14, <1>15, <1>h, <1>g DEF m, e

\* The first m blocks stay where nothing in front of lo is written.
LEMMA OldBlocks ==
  ASSUME IInv, NEW lo \in Nat, NEW hi, NEW m \in 0..Len(live), Writes(mem, mem', lo, hi),
         \A k \in 1..m : live'[k] = live[k] /\ After(k) <= lo
  PROVE  /\ \A k \in 1..m : /\ At(k)' = At(k) /\ After(k)' = After(k)
                            /\ Size(At(k))' = Size(At(k))
                            /\ Tag(mem', At(k)) = BlockTag(Size(At(k)))
                            /\ Tag(mem', After(k) - FTR) = Footer(At(k))
         /\ \A k \in 0..m : Edge(k)' = Edge(k)
<1>1. ASSUME NEW k \in 1..m
      PROVE  /\ At(k)' = At(k) /\ After(k)' = After(k)
             /\ Size(At(k))' = Size(At(k))
             /\ Tag(mem', At(k)) = BlockTag(Size(At(k)))
             /\ Tag(mem', After(k) - FTR) = Footer(At(k))
  <2>h. PICK h : h = BlockTag(Size(At(k)))
    OBVIOUS
  <2>f. PICK f : f = Footer(At(k))
    OBVIOUS
  <2>1. /\ k \in 1..Len(live) /\ At(k) \in Nat /\ After(k) \in Nat /\ At(k) + 20 <= After(k)
        /\ After(k) <= lo /\ FTR = 8
    <3>1. k \in 1..Len(live)
      BY EdgeFact
    <3> QED
      BY <3>1, EdgeFact DEF FTR
  <2>2. h = BlockTag(Size(At(k))) /\ h.kind = "header" /\ Length(h) = 12
    BY <2>h, TagFact
  <2>3. f = Footer(At(k)) /\ f.kind = "footer" /\ Length(f) = 8
    BY <2>f DEF Footer, Length, FTR
  <2>4. Tag(mem, At(k)) = h /\ Tag(mem, After(k) - 8) = f
    BY <2>1, <2>2, <2>3 DEF IInv, BlockInv
  <2>5. At(k) \in DOMAIN mem /\ mem[At(k)] = h /\ After(k) - 8 \in DOMAIN mem /\ mem[After(k) - 8] = f
    <3>1. At(k) \in DOMAIN mem /\ mem[At(k)] = h
      <4>1. h.kind = "header" /\ Tag(mem, At(k)) = h
        BY <2>2, <2>4
      <4> QED
        BY <4>1 DEF Tag, Nothing
    <3>2. After(k) - 8 \in DOMAIN mem /\ mem[After(k) - 8] = f
      BY <2>3, <2>4 DEF Tag, Nothing
    <3> QED
      BY <3>1, <3>2
  <2>6. At(k) + 12 <= lo /\ (After(k) - 8) + 8 <= lo
    BY <2>1
  <2>7. At(k) \in DOMAIN mem' /\ mem'[At(k)] = h
    BY <2>2, <2>5, <2>6 DEF Writes
  <2>8. After(k) - 8 \in DOMAIN mem' /\ mem'[After(k) - 8] = f
    BY <2>3, <2>5, <2>6 DEF Writes
  <2>9. Tag(mem', At(k)) = h /\ Tag(mem', After(k) - 8) = f
    BY <2>7, <2>8 DEF Tag
  <2>10. At(k)' = At(k)
    BY DEF At
  <2>11. Size(At(k))' = Size(At(k))
    BY <2>4, <2>9, <2>10 DEF Size
  <2>12. After(k)' = After(k)
    BY <2>10, <2>11 DEF After
  <2> QED
    BY <2>1, <2>2, <2>3, <2>9, <2>10, <2>11, <2>12
<1>2. ASSUME NEW k \in 0..m PROVE Edge(k)' = Edge(k)
  <2>1. k = 0 \/ k \in 1..m
    OBVIOUS
  <2> QED
    BY <1>1, <2>1 DEF Edge
<1> QED
  BY <1>1, <1>2

\* Where the blocks are the first m of those there were, and nothing in front
\* of lo is written, they are in order.
LEMMA SameBlocks ==
  ASSUME IInv, NEW lo \in Nat, NEW hi, NEW m \in 0..Len(live), Writes(mem, mem', lo, hi),
         \A k \in 1..m : live'[k] = live[k] /\ After(k) <= lo,
         Len(live') = m, end' \in Nat, lo <= end'
  PROVE  BlockInv' /\ Top' = Edge(m)
<1>1. Len(live) \in Nat
  BY EdgeFact
<1>2. ASSUME NEW k \in 1..m
      PROVE  /\ k \in 1..Len(live) /\ k - 1 \in 0..m /\ At(k) \in START..MAX /\ At(k) = Edge(k - 1)
             /\ live[k].size \in Nat /\ Size(At(k)) \in Nat /\ live[k].size + 20 <= Size(At(k))
             /\ After(k) \in Nat /\ After(k) <= end'
  <2>1. k \in 1..Len(live) /\ k - 1 \in 0..m
    BY <1>1
  <2>2. After(k) \in Nat /\ After(k) <= lo
    BY <2>1, EdgeFact
  <2>3. /\ At(k) \in START..MAX /\ At(k) = Edge(k - 1)
        /\ live[k].size \in Nat /\ Size(At(k)) \in Nat /\ live[k].size + 20 <= Size(At(k))
    BY <2>1 DEF IInv, BlockInv
  <2>4. After(k) <= end'
    BY <2>2
  <2> QED
    BY <2>1, <2>2, <2>3, <2>4
<1>3. ASSUME NEW k \in 1..Len(live')
      PROVE  /\ At(k)' \in START..MAX /\ At(k)' = Edge(k - 1)' /\ live'[k].size \in Nat
             /\ Size(At(k))' \in Nat /\ live'[k].size + 20 <= Size(At(k))' /\ After(k)' <= end'
             /\ Tag(mem', At(k)') = BlockTag(Size(At(k))')
             /\ Tag(mem', After(k)' - FTR) = Footer(At(k)')
  BY <1>2, OldBlocks
<1>4. ASSUME NEW j \in 1..Len(live'), NEW k \in 1..Len(live'), j < k
      PROVE  After(j)' <= At(k)'
  <2>1. j \in 1..Len(live) /\ k \in 1..Len(live)
    BY <1>2
  <2>2. After(j) <= At(k)
    BY <1>4, <2>1 DEF IInv, BlockInv
  <2> QED
    BY <2>2, OldBlocks
<1>5. BlockInv'
  BY <1>3, <1>4 DEF BlockInv
<1>6. Top' = Edge(m)
  <2>1. Edge(m)' = Edge(m)
    <3>1. m \in 0..m
      BY <1>1
    <3> QED
      BY <3>1, OldBlocks
  <2>2. Top' = Edge(m)'
    BY DEF Top, Edge, After, At, Size
  <2> QED
    BY <2>1, <2>2
<1> QED
  BY <1>5, <1>6

\* The index of one hole, filed and taken out.
LEMMA OneFiled ==
  ASSUME NEW f, NEW x
  PROVE  O!Inserted(<< >>, f, x) = <<x>>
<1>1. O!Position(<< >>, f, x) = 1
  BY DEF O!Position
<1>2. SubSeq(<< >>, 1, 1 - 1) = << >> /\ SubSeq(<< >>, 1, Len(<< >>)) = << >>
  OBVIOUS
<1>3. O!InsertAt(<< >>, 1, x) = << >> \o <<x>> \o << >>
  BY <1>2, Zenon DEF O!InsertAt
<1>4. << >> \o <<x>> \o << >> = <<x>>
  OBVIOUS
<1> QED
  BY <1>1, <1>3, <1>4 DEF O!Inserted

LEMMA OneRemoved ==
  ASSUME NEW x
  PROVE  O!Removed(<<x>>, 0) = << >>
BY DEF O!Removed, O!RemoveAt

\* What alloc does for a program that the heap serves: it cuts a block of s
\* bytes from the front of the only hole.
LEMMA AllocCut ==
  ASSUME IInv, Served(program), call # NoCall, SmallestHole(call) # 0,
         NEW t, t = Top, NEW c, c = Cut(call, index[SmallestHole(call)])
  PROVE  \E s \in Nat :
           /\ SmallestHole(call) = 1 /\ index = <<t>> /\ ~call.align
           /\ t \in START..MAX /\ call.size \in Nat /\ call.size + 20 <= s
           /\ (t + s = end /\ Need(call) + t + 20 > end) \/ (t + s + 20 <= end /\ s = Need(call))
           /\ c = Slice(t, s)
<1>1. /\ call \in program.calls /\ ~call.align /\ call.size \in Nat /\ Need(call) = call.size + 20
      /\ program \in Programs
  <2>1. call \in program.calls /\ program \in Programs
    BY DEF IInv, StateInv
  <2> QED
    BY <2>1, CallFact, NeedFact DEF Served
<1>2. /\ t \in START..end /\ end \in Nat /\ end <= MAX /\ START \in Nat /\ MAX \in Nat /\ MAX < WORD
      /\ WORD \in Nat
  BY EdgeFact, Sizes DEF IInv, StateInv
<1>3. index # << >>
  BY DEF SmallestHole
<1>4. /\ index = <<t>> /\ t + 20 <= end /\ Tag(mem, t) = HoleTag(end - t)
  BY <1>3 DEF IInv, HoleInv
<1>5. Len(index) = 1 /\ index[1] = t
  BY <1>4
<1>6. SmallestHole(call) = 1 /\ Fits(call, t)
  <2>1. \E k \in 1..Len(index) : Fits(call, index[k])
    BY DEF SmallestHole
  <2>2. Fits(call, t)
    BY <1>5, <2>1
  <2>3. SmallestHole(call) = CHOOSE k \in 1..Len(index) : Fits(call, index[k]) /\ \A j \in 1..(k - 1) : ~Fits(call, index[j])
    BY <2>1 DEF SmallestHole
  <2>4. \E k \in 1..Len(index) : Fits(call, index[k]) /\ \A j \in 1..(k - 1) : ~Fits(call, index[j])
    <3>1. 1 \in 1..Len(index) /\ \A j \in 1..(1 - 1) : ~Fits(call, index[j])
      BY <1>5
    <3> QED
      BY <1>5, <2>2, <3>1
  <2>5. SmallestHole(call) \in 1..Len(index)
    BY <2>3, <2>4
  <2> QED
    BY <1>5, <2>2, <2>5
<1>7. Tag(mem, t).size = end - t
  BY <1>4, TagFact
<1>8. Need(call) <= end - t
  BY <1>1, <1>6, <1>7 DEF Fits
<1>9. Minus(end - t, Need(call)) = end - t - Need(call)
  <2>1. end - t - Need(call) \in 0..(WORD - 1)
    BY <1>1, <1>2, <1>8
  <2> QED
    BY <1>2, <2>1 DEF Minus
<1> DEFINE whole == end - t - Need(call) < 20
           s == IF whole THEN end - t ELSE Need(call)
<1>10. /\ s \in Nat /\ call.size + 20 <= s
       /\ (t + s = end /\ Need(call) + t + 20 > end) \/ (t + s + 20 <= end /\ s = Need(call))
  BY <1>1, <1>2, <1>4, <1>8
<1>11. Plus(t, 0) = t
  <2>1. t + 0 = t /\ t \in 0..(WORD - 1)
    BY <1>2
  <2> QED
    BY <1>2, <2>1 DEF Plus
<1>12. Minus(end - t - 0, s) = end - t - s
  <2>1. end - t - 0 - s = end - t - s /\ end - t - s \in 0..(WORD - 1)
    BY <1>1, <1>2, <1>8, <1>10
  <2> QED
    BY <1>2, <2>1 DEF Minus
<1>13. c = Slice(t, s)
  <2>1. c = [pos |-> Plus(t, 0), front |-> 0, size |-> IF whole THEN Minus(end - t, 20) ELSE call.size,
             new |-> s, rest |-> Minus(end - t - 0, s)]
    BY <1>1, <1>5, <1>6, <1>7, <1>9 DEF Cut, HDR, FTR
  <2>2. (IF whole THEN Minus(end - t, 20) ELSE call.size) = s - 20
    <3>1. end - t - 20 \in 0..(WORD - 1)
      BY <1>2, <1>4
    <3>2. Minus(end - t, 20) = end - t - 20
      BY <1>2, <3>1 DEF Minus
    <3> QED
      BY <1>1, <1>2, <3>2
  <2> QED
    BY <2>1, <2>2, <1>11, <1>12 DEF Slice
<1>14. t \in START..MAX
  BY <1>2
<1> HIDE DEF s
<1> QED
  BY <1>1, <1>4, <1>6, <1>10, <1>13, <1>14

\* alloc succeeds: the block comes to lie on top of the others.
LEMMA AllocInv ==
  ASSUME IInv, Served(program), Alloc
  PROVE  /\ IInv'
         /\ \E z \in Nat : live' = Append(live, [at |-> Top + 12, size |-> z]) /\ Top + 20 + z <= end
<1>1. call # NoCall /\ SmallestHole(call) # 0 /\ halted = "no"
  BY DEF Alloc
<1> DEFINE c == Cut(call, index[SmallestHole(call)])
<1>2. PICK t : t = Top
  OBVIOUS
<1>3. PICK z : z = call.size
  OBVIOUS
<1>4. PICK s \in Nat :
        /\ SmallestHole(call) = 1 /\ index = <<t>> /\ ~call.align
        /\ t \in START..MAX /\ z \in Nat /\ z + 20 <= s
        /\ (t + s = end /\ Need(call) + t + 20 > end) \/ (t + s + 20 <= end /\ s = Need(call))
        /\ c = Slice(t, s)
  <2>1. \E s \in Nat :
          /\ SmallestHole(call) = 1 /\ index = <<t>> /\ ~call.align
          /\ t \in START..MAX /\ call.size \in Nat /\ call.size + 20 <= s
          /\ (t + s = end /\ Need(call) + t + 20 > end) \/ (t + s + 20 <= end /\ s = Need(call))
          /\ c = Slice(t, s)
    BY <1>1, <1>2, AllocCut
  <2> QED
    BY <1>3, <2>1
<1> DEFINE m == WithRest(WithBlock(mem, Slice(t, s)), Slice(t, s))
           e == Erase(m, t + HDR, t + HDR + z)
<1>5. PICK n \in Nat : n = Len(live)
  BY EdgeFact
<1>6. /\ t \in Nat /\ end \in Nat /\ end \in START..MAX /\ end <= MAX /\ START \in Nat /\ MAX \in Nat
      /\ t = Edge(n) /\ t <= end /\ HDR = 12 /\ FTR = 8
  <2>1. t = Edge(n)
    BY <1>2, <1>5 DEF Top
  <2> QED
    BY <1>2, <2>1, EdgeFact, Sizes DEF IInv, StateInv
<1>7. /\ Tagged(m) /\ Writes(mem, m, t, end)
      /\ Tagged(e) /\ Writes(mem, e, t, end)
      /\ Tag(e, t) = BlockTag(s) /\ Tag(e, t + s - FTR) = Footer(t)
      /\ t + s # end => Tag(e, t + s) = HoleTag(end - t - s)
  <2>1. Tagged(mem) /\ (t + s = end \/ t + s + 20 <= end)
    BY <1>4 DEF IInv
  <2>2. t \in START..MAX /\ z \in Nat /\ z + 20 <= s /\ end \in START..MAX
    BY <1>4, <1>6
  <2> HIDE DEF c
  <2> QED
    BY <2>1, <2>2, SliceFact
<1> HIDE DEF c, m
<1>8. WithFront(mem, index[SmallestHole(call)], c, call.align) = mem
  BY <1>4 DEF WithFront
<1>9. ~Faults(m, frame)
  <2>1. \A a \in t..(end - 1) : Present(frame, a)
    <3>1. ASSUME NEW a \in t..(end - 1) PROVE a \in START..(end - 1)
      BY <1>4, <1>6
    <3> QED
      BY <3>1, HeapPresent
  <2> QED
    BY <1>6, <1>7, <2>1, NoFault
<1>10. /\ mem' = e /\ live' = Append(live, [at |-> t + 12, size |-> z]) /\ call' = NoCall
       /\ end' = end /\ frame' = frame /\ halted' = halted /\ program' = program
       /\ index' = IF t + s = end THEN << >> ELSE <<t + s>>
  <2>1. /\ c.pos = t /\ c.rest = end - t - s /\ RestAt(c) = t + s
    <3>1. 20 <= s /\ t + s <= end
      BY <1>4, <1>6
    <3> QED
      BY <1>4, <1>6, <3>1, SliceEnd DEF Slice
  <2>2. WithRest(WithBlock(WithFront(mem, index[SmallestHole(call)], c, call.align), c), c) = m
    BY <1>4, <1>8 DEF m
  <2>3. O!Removed(index, SmallestHole(call) - 1) = << >>
    <3>1. SmallestHole(call) - 1 = 0 /\ index = <<t>>
      BY <1>4
    <3> QED
      BY <3>1, OneRemoved
  <2>4. (IF call.align THEN index ELSE O!Removed(index, SmallestHole(call) - 1)) = << >>
    BY <1>4, <2>3
  <2>5. Indexed(m, << >>, t + s) = <<t + s>>
    BY OneFiled DEF Indexed
  <2>6. /\ mem' = Erase(m, c.pos + HDR, c.pos + HDR + call.size)
        /\ index' = IF c.rest = 0 THEN << >> ELSE Indexed(m, << >>, RestAt(c))
        /\ live' = Append(live, [at |-> c.pos + HDR, size |-> call.size])
        /\ call' = NoCall /\ UNCHANGED <<end, frame, halted, program>>
    BY <1>9, <2>2, <2>4 DEF Alloc, c
  <2>7. c.rest = 0 <=> t + s = end
    BY <1>6, <2>1
  <2>8. mem' = e
    BY <1>3, <2>1, <2>6 DEF e
  <2>9. index' = IF t + s = end THEN << >> ELSE <<t + s>>
    BY <2>1, <2>5, <2>6, <2>7
  <2> QED
    BY <1>3, <1>6, <2>1, <2>6, <2>8, <2>9
<1> HIDE DEF e
<1>11. Tagged(mem') /\ Writes(mem, mem', t, end)
  BY <1>7, <1>10
<1>12. live \in Seq([at: Int, size: Int]) /\ program \in Programs /\ call \in program.calls
  BY <1>1 DEF IInv, StateInv
<1>13. /\ Len(live') = n + 1 /\ live' \in Seq([at: Int, size: Int])
       /\ \A k \in 1..n : live'[k] = live[k]
       /\ live'[n + 1].at = t + 12 /\ live'[n + 1].size = z
  <2>1. [at |-> t + 12, size |-> z] \in [at: Int, size: Int]
    BY <1>4, <1>6
  <2>2. /\ live' \in Seq([at: Int, size: Int]) /\ Len(live') = Len(live) + 1
        /\ \A k \in 1..Len(live) : live'[k] = live[k]
        /\ live'[Len(live) + 1] = [at |-> t + 12, size |-> z]
    BY <1>10, <1>12, <2>1, AppendProperties
  <2> QED
    BY <1>5, <2>2
<1>14. /\ \A k \in 1..n : /\ k \in 1..Len(live) /\ At(k) \in START..MAX /\ At(k) = Edge(k - 1)
                          /\ live[k].size \in Nat /\ Size(At(k)) \in Nat /\ After(k) \in Nat
                          /\ live[k].size + 20 <= Size(At(k)) /\ After(k) <= t
       /\ \A j, k \in 1..n : j < k => After(j) <= At(k)
  BY <1>2, <1>5, EdgeFact DEF IInv, BlockInv
<1>15. /\ \A k \in 1..n : /\ At(k)' = At(k) /\ After(k)' = After(k) /\ Size(At(k))' = Size(At(k))
                          /\ Tag(mem', At(k)) = BlockTag(Size(At(k)))
                          /\ Tag(mem', After(k) - FTR) = Footer(At(k))
       /\ \A k \in 0..n : Edge(k)' = Edge(k)
  <2>1. n \in 0..Len(live)
    BY <1>5
  <2>2. \A k \in 1..n : live'[k] = live[k] /\ After(k) <= t
    BY <1>13, <1>14
  <2> QED
    BY <1>6, <1>11, <2>1, <2>2, OldBlocks
<1>16. /\ At(n + 1)' = t /\ Size(At(n + 1))' = s /\ After(n + 1)' = t + s
       /\ Edge(n + 1)' = t + s /\ Top' = t + s
  <2>1. At(n + 1)' = t
    BY <1>6, <1>13 DEF At
  <2>2. Size(At(n + 1))' = s
    <3>1. Tag(mem', t).size = s
      BY <1>7, <1>10, TagFact
    <3> QED
      BY <2>1, <3>1 DEF Size
  <2>3. After(n + 1)' = t + s
    BY <2>1, <2>2 DEF After
  <2>4. Edge(n + 1)' = t + s
    BY <1>5, <2>3 DEF Edge
  <2>5. Top' = Edge(n + 1)'
    BY <1>13 DEF Top, Edge, After, At, Size
  <2> QED
    BY <2>1, <2>2, <2>3, <2>4, <2>5
<1>17. BlockInv'
  <2>1. ASSUME NEW k \in 1..Len(live')
        PROVE  /\ At(k)' \in START..MAX /\ At(k)' = Edge(k - 1)' /\ live'[k].size \in Nat
               /\ Size(At(k))' \in Nat /\ live'[k].size + 20 <= Size(At(k))' /\ After(k)' <= end'
               /\ Tag(mem', At(k)') = BlockTag(Size(At(k))')
               /\ Tag(mem', After(k)' - FTR) = Footer(At(k)')
    <3>1. CASE k \in 1..n
      <4>1. k - 1 \in 0..n
        BY <3>1
      <4>2. Edge(k - 1)' = At(k)
        BY <1>14, <1>15, <3>1, <4>1
      <4>3. live'[k].size = live[k].size
        BY <1>13, <3>1
      <4>4. After(k) <= end'
        <5>1. After(k) <= t /\ After(k) \in Nat
          BY <1>14, <3>1
        <5> QED
          BY <1>6, <1>10, <5>1
      <4> QED
        BY <1>14, <1>15, <3>1, <4>2, <4>3, <4>4
    <3>2. CASE k = n + 1
      <4>1. Edge(k - 1)' = t
        <5>1. k - 1 = n /\ n \in 0..n
          BY <3>2
        <5> QED
          BY <1>6, <1>15, <5>1
      <4>2. t + s <= end'
        BY <1>4, <1>6, <1>10
      <4> QED
        <5>1. At(n + 1)' \in START..MAX /\ live'[n + 1].size \in Nat /\ Size(At(n + 1))' \in Nat
          BY <1>4, <1>13, <1>16
        <5>2. live'[n + 1].size + 20 <= Size(At(n + 1))' /\ After(n + 1)' <= end'
          BY <1>4, <1>13, <1>16, <4>2
        <5>3. Tag(mem', At(n + 1)') = BlockTag(Size(At(n + 1))')
          BY <1>7, <1>10, <1>16
        <5>4. Tag(mem', After(n + 1)' - FTR) = Footer(At(n + 1)')
          <6>1. Tag(mem', t + s - FTR) = Footer(t)
            BY <1>7, <1>10
          <6>2. After(n + 1)' = t + s
            BY <1>16
          <6>3. At(n + 1)' = t
            BY <1>16
          <6>4. After(n + 1)' - FTR = t + s - FTR
            BY <1>4, <1>6, <6>2
          <6> QED
            BY <6>1, <6>3, <6>4
        <5> QED
          BY <1>16, <3>2, <4>1, <5>1, <5>2, <5>3, <5>4
    <3>3. k \in 1..n \/ k = n + 1
      BY <1>13
    <3> QED
      BY <3>1, <3>2, <3>3
  <2>2. ASSUME NEW j \in 1..Len(live'), NEW k \in 1..Len(live'), j < k
        PROVE  After(j)' <= At(k)'
    <3>1. j \in 1..n /\ (k \in 1..n \/ k = n + 1)
      BY <1>13, <2>2
    <3>2. CASE k \in 1..n
      BY <1>14, <1>15, <2>2, <3>1, <3>2
    <3>3. CASE k = n + 1
      BY <1>14, <1>15, <1>16, <3>1, <3>3
    <3> QED
      BY <3>1, <3>2, <3>3
  <2> QED
    BY <2>1, <2>2 DEF BlockInv
<1>18. HoleInv'
  <2>1. CASE t + s = end
    BY <1>10, <1>16, <2>1 DEF HoleInv
  <2>2. CASE t + s # end
    <3>1. t + s + 20 <= end /\ end - (t + s) = end - t - s
      BY <1>4, <1>6, <2>2
    <3>2. Tag(mem', t + s) = HoleTag(end - (t + s))
      BY <1>7, <1>10, <2>2, <3>1
    <3> QED
      BY <1>10, <1>16, <2>2, <3>1, <3>2 DEF HoleInv
  <2> QED
    BY <2>1, <2>2
<1>19. StateInv'
  <2>1. Len(live') <= program.most
    <3>1. Len(live) < program.most /\ program.most \in Nat
      BY <1>1, <1>12, CallFact DEF IInv, StateInv
    <3> QED
      BY <1>5, <1>13, <3>1
  <2> QED
    BY <1>10, <1>13, <2>1 DEF IInv, StateInv
<1>20. PlaceInv'
  <2>1. CASE ~Stacked(program)
    BY <1>10, <2>1 DEF IInv, PlaceInv, Stacked
  <2>2. CASE Stacked(program)
    <3>1. PICK b : b = Bound
      OBVIOUS
    <3>2. /\ b \in Nat /\ program.most * b + 20 <= MIN /\ Need(call) <= b /\ Need(call) \in Nat
          /\ program.most \in Nat /\ n < program.most
      <4>1. Bound \in 0..MIN /\ program.most * Bound + 20 <= MIN /\ Need(call) <= Bound
        BY <1>12, <2>2, BoundFact
      <4>2. program.most \in Nat /\ n < program.most /\ Need(call) \in Nat
        BY <1>1, <1>5, <1>12, CallFact, NeedFact DEF IInv, StateInv
      <4> QED
        BY <3>1, <4>1, <4>2, Sizes
    <3>3. Bound' = b
      BY <1>10, <3>1 DEF Bound, Enough
    <3>4. \A k \in 0..n : Edge(k) - START <= k * b
      BY <1>5, <2>2, <3>1 DEF IInv, PlaceInv
    <3>5. t - START <= n * b
      BY <1>6, <3>4
    <3>6. (n + 1) * b <= program.most * b /\ (n + 1) * b = n * b + b /\ n * b \in Nat
      BY <3>2
    <3>7. end - START \in {MIN, INITIAL}
      BY <2>2 DEF IInv, PlaceInv
    <3>8. MIN <= end - START
      BY <3>7, Sizes
    <3>9. s = Need(call)
      <4>1. program.most * b \in Nat
        BY <3>2
      <4>2. n * b + b + 20 <= MIN
        BY <3>2, <3>6, <4>1, Sizes
      <4>3. Need(call) + t + 20 <= end
        BY <1>6, <3>2, <3>5, <3>6, <3>8, <4>2, Sizes
      <4> QED
        BY <1>4, <1>6, <3>2, <4>3
    <3>10. t + s - START <= (n + 1) * b
      BY <1>4, <1>6, <3>2, <3>5, <3>6, <3>9
    <3>11. ASSUME NEW k \in 0..Len(live') PROVE Edge(k)' - START <= k * b
      <4>1. k \in 0..n \/ k = n + 1
        BY <1>13
      <4> QED
        <5>1. ASSUME k \in 0..n PROVE Edge(k)' - START <= k * b
          BY <1>15, <3>4, <5>1
        <5>2. ASSUME k = n + 1 PROVE Edge(k)' - START <= k * b
          <6>1. Edge(k)' = t + s
            BY <1>16, <5>2
          <6>2. k * b = (n + 1) * b
            BY <5>2
          <6> QED
            BY <1>4, <1>6, <3>10, <6>1, <6>2
        <5> QED
          BY <4>1, <5>1, <5>2
    <3> QED
      BY <1>10, <2>2, <3>3, <3>7, <3>11 DEF PlaceInv, Stacked
  <2> QED
    BY <2>1, <2>2
<1>21. HeapMapped'
  BY <1>10 DEF IInv, HeapMapped
<1>22. Top + 20 + z <= end
  BY <1>2, <1>4, <1>6
<1> QED
  BY <1>2, <1>4, <1>10, <1>11, <1>17, <1>18, <1>19, <1>20, <1>21, <1>22 DEF IInv

----------------------------------------------------------------------------
(* expand. *)

\* A heap of whole pages that is to hold an odd number of bytes more.
LEMMA ExpandedFact ==
  ASSUME NEW old \in Nat, old % PAGE = 0, NEW need \in Nat, need % 2 = 1,
         old + need + PAGE < WORD
  PROVE  /\ Expanded(old + need) \in Nat /\ Expanded(old + need) % PAGE = 0
         /\ old + need < Expanded(old + need) /\ Expanded(old + need) <= old + need + PAGE
<1>1. PICK h \in Nat : PAGE = 2 * h
  BY SizeAssumption, Divided
<1>2. PAGE \in Nat /\ PAGE # 0
  BY Sizes
<1>3. PICK o \in Nat : old = PAGE * o
  BY <1>2, Divided
<1>4. (old + need) % 2 = 1
  <2>1. PICK r \in Nat : r = h * o
    BY <1>1
  <2>2. old = 2 * r
    BY <1>1, <1>3, <2>1
  <2> QED
    BY <2>2
<1> DEFINE n == old + need
           q == n \div PAGE
<1>5. n \in Nat /\ q \in Nat /\ PAGE * q <= n /\ n < PAGE * q + PAGE
  BY <1>2, PageFact
<1>6. Expanded(n) = q * PAGE + PAGE
  <2>1. Expanded(n) = Plus(q * PAGE, PAGE)
    BY <1>4 DEF Expanded
  <2> HIDE DEF q
  <2>2. q * PAGE = PAGE * q /\ q * PAGE \in Nat /\ q * PAGE + PAGE < WORD
    <3>1. q * PAGE = PAGE * q /\ q * PAGE \in Nat
      BY <1>2, <1>5
    <3> QED
      BY <1>2, <1>5, <3>1, Sizes
  <2> QED
    BY <1>2, <2>1, <2>2, SmallSum
<1> HIDE DEF q
<1>7. q * PAGE + PAGE = PAGE * (q + 1) /\ PAGE * (q + 1) = PAGE * q + PAGE /\ q + 1 \in Nat
  BY <1>2, <1>5
<1>8. PAGE * (q + 1) \in Nat /\ (PAGE * (q + 1)) % PAGE = 0
  BY <1>2, <1>7, Multiple
<1>9. n \in Nat /\ PAGE * q \in Nat /\ PAGE * (q + 1) <= n + PAGE /\ n < PAGE * (q + 1)
  BY <1>2, <1>5, <1>7
<1>10. Expanded(n) = PAGE * (q + 1)
  BY <1>6, <1>7
<1> QED
  BY <1>8, <1>9, <1>10

\* expand asks for every page from the old end to the new one.
LEMMA NewPagesFact ==
  ASSUME NEW old \in Nat, old % PAGE = 0, NEW new \in Nat, NEW p \in Nat,
         old <= p * PAGE, p * PAGE < new
  PROVE  p \in NewPages(old, new)
<1>1. PAGE \in Nat /\ PAGE # 0 /\ START \in Nat
  BY Sizes
<1>2. PICK o \in Nat : old = PAGE * o
  BY <1>1, Divided
<1>3. p * PAGE = PAGE * p /\ PAGE * p \in Nat /\ PAGE * o \in Nat
  BY <1>1
<1>4. o <= p
  <2>1. PAGE * o <= PAGE * p
    BY <1>2, <1>3
  <2>2. ASSUME p < o PROVE FALSE
    <3>1. PAGE * (p + 1) <= PAGE * o /\ PAGE * (p + 1) = PAGE * p + PAGE
      BY <1>1, <2>2
    <3> QED
      BY <1>1, <1>3, <2>1, <3>1
  <2> QED
    BY <2>2
<1>5. PICK k \in Nat : p = o + k
  BY <1>4
<1>6. PAGE * p = PAGE * o + PAGE * k /\ PAGE * k \in Nat
  BY <1>1, <1>5
<1> DEFINE d == new - old - 1
           q == d \div PAGE
<1>7. d \in Nat /\ PAGE * k <= d
  BY <1>2, <1>3, <1>6
<1>8. q \in Nat /\ d < PAGE * q + PAGE
  BY <1>1, <1>7, PageFact
<1>9. k <= q
  <2>1. PAGE * q \in Nat
    BY <1>1, <1>8
  <2> HIDE DEF q, d
  <2>2. ASSUME q < k PROVE FALSE
    <3>1. PAGE * (q + 1) <= PAGE * k /\ PAGE * (q + 1) = PAGE * q + PAGE
      BY <1>1, <1>8, <2>2
    <3> QED
      BY <1>1, <1>6, <1>7, <1>8, <2>1, <3>1
  <2> QED
    BY <1>8, <2>2
<1>10. PageOf(START + old + PAGE * k) = p
  <2>1. (START + old + PAGE * k) - START = PAGE * p
    BY <1>1, <1>2, <1>3, <1>6
  <2>2. (PAGE * p) \div PAGE = p
    BY <1>1, <1>3, PageUnique
  <2> QED
    BY <2>1, <2>2 DEF PageOf
<1>11. k \in 0..((new - old - 1) \div PAGE)
  BY <1>8, <1>9
<1> QED
  BY <1>10, <1>11 DEF NewPages

\* A heap of a stacked program never expands: its blocks and the pair of tags
\* behind them leave room for one more.
LEMMA StackedFits ==
  ASSUME IInv, Served(program), Stacked(program), call # NoCall
  PROVE  SmallestHole(call) # 0
<1>1. /\ call \in program.calls /\ ~call.align /\ program \in Programs /\ Len(live) < program.most
  BY DEF IInv, StateInv, Served
<1>2. PICK b : b = Bound
  OBVIOUS
<1>3. PICK n \in Nat : n = Len(live)
  BY EdgeFact
<1>4. PICK t : t = Top
  OBVIOUS
<1>5. /\ b \in Nat /\ program.most * b + 20 <= MIN /\ Need(call) <= b /\ Need(call) \in Nat
      /\ program.most \in Nat /\ n < program.most
  <2>1. Bound \in 0..MIN /\ program.most * Bound + 20 <= MIN /\ Need(call) <= Bound
    BY <1>1, BoundFact
  <2>2. program.most \in Nat /\ Need(call) \in Nat
    BY <1>1, CallFact, NeedFact
  <2> QED
    BY <1>1, <1>2, <1>3, <2>1, <2>2, Sizes
<1>6. t - START <= n * b /\ t \in START..end /\ end \in Nat
  <2>1. t = Edge(n) /\ n \in 0..Len(live)
    BY <1>3, <1>4 DEF Top
  <2>2. Edge(n) - START <= n * Bound
    BY <2>1 DEF IInv, PlaceInv
  <2> QED
    BY <1>2, <1>4, <2>1, <2>2, EdgeFact
<1>7. MIN <= end - START
  <2>1. end - START \in {MIN, INITIAL}
    BY DEF IInv, PlaceInv
  <2> QED
    BY <2>1, Sizes
<1>8. (n + 1) * b <= program.most * b /\ (n + 1) * b = n * b + b /\ n * b \in Nat
  BY <1>5
<1>9. Need(call) + 20 <= end - t
  <2>1. program.most * b \in Nat
    BY <1>5
  <2>2. n * b + b + 20 <= MIN
    BY <1>5, <1>8, <2>1, Sizes
  <2> QED
    BY <1>5, <1>6, <1>7, <1>8, <2>2, Sizes
<1>10. index = <<t>> /\ Tag(mem, t).size = end - t
  <2>1. t # end
    BY <1>5, <1>6, <1>9, Sizes
  <2> QED
    BY <1>4, <2>1, TagFact DEF IInv, HoleInv
<1>11. Fits(call, t)
  <2>1. Tag(mem, t).size >= Need(call)
    BY <1>5, <1>6, <1>9, <1>10, Sizes
  <2> QED
    BY <1>1, <2>1 DEF Fits
<1>12. 1 \in 1..Len(index) /\ index[1] = t /\ Len(index) = 1
  BY <1>10
<1>13. \E k \in 1..Len(index) : Fits(call, index[k]) /\ \A j \in 1..(k - 1) : ~Fits(call, index[j])
  <2>1. \A j \in 1..(1 - 1) : ~Fits(call, index[j])
    OBVIOUS
  <2> QED
    BY <1>11, <1>12, <2>1
<1>14. SmallestHole(call) \in 1..Len(index)
  BY <1>13 DEF SmallestHole
<1> QED
  BY <1>12, <1>14

\* The footer of a hole at the end.
LEMMA FootFact ==
  ASSUME NEW t \in START..MAX, NEW e \in START..MAX, t + 20 <= e,
         NEW w, Tagged(w), Writes(mem, w, t, e), Tag(w, t) = HoleTag(e - t)
  PROVE  LET m == Put(w, e - 8, Footer(t))
         IN  Tagged(m) /\ Writes(mem, m, t, e) /\ Tag(m, t) = HoleTag(e - t)
<1>1. START \in Nat /\ MAX \in Nat /\ e \in Nat /\ t \in Nat /\ e <= MAX
  BY Sizes
<1>2. PICK h : h = HoleTag(e - t)
  OBVIOUS
<1>3. Length(h) = 12 /\ h.kind = "header"
  BY <1>2, TagFact
<1>4. t \in DOMAIN w /\ w[t] = h
  <2>1. Tag(w, t) = h /\ h.kind # "none"
    BY <1>2, <1>3
  <2> QED
    BY <2>1 DEF Tag, Nothing
<1>5. PICK f : f = Footer(t)
  OBVIOUS
<1>6. f \in Tags /\ Length(f) = 8
  BY <1>1, <1>5, FooterFact
<1> DEFINE m == Put(w, e - 8, f)
<1>7. e - 8 \in START..MAX /\ t <= e - 8 /\ t # e - 8 /\ t + 12 <= e - 8 /\ (e - 8) + 8 <= e
  BY <1>1
<1>8. /\ Tagged(m) /\ Writes(w, m, t, e)
      /\ \A b \in DOMAIN w : b # e - 8 /\ (b + Length(w[b]) <= e - 8 \/ (e - 8) + Length(f) <= b) =>
           Tag(m, b) = Tag(w, b)
  <2>1. (e - 8) + Length(f) <= e
    BY <1>6, <1>7
  <2> QED
    BY <1>1, <1>6, <1>7, <2>1, PutFact
<1> HIDE DEF m
<1>9. Writes(mem, m, t, e)
  BY <1>8, WritesTrans
<1>10. Tag(m, t) = Tag(w, t)
  <2>1. t + Length(w[t]) <= e - 8
    BY <1>3, <1>4, <1>7
  <2> QED
    BY <1>4, <1>7, <1>8, <2>1
<1> QED
  BY <1>5, <1>8, <1>9, <1>10 DEF m

\* The hole that grows with the heap: a new one at the end, or the one there is.
LEMMA GrownFact ==
  ASSUME IInv, NEW e \in START..MAX, end + 20 <= e, NEW t, t = Top
  PROVE  LET w == IF index = << >> THEN Put(mem, end, HoleTag(e - end))
                  ELSE Resize(mem, t, e - t)
             m == Put(w, e - 8, Footer(t))
         IN  /\ Tagged(m) /\ Writes(mem, m, t, e) /\ Tag(m, t) = HoleTag(e - t)
             /\ t \in START..MAX /\ t + 20 <= e
<1> DEFINE w == IF index = << >> THEN Put(mem, end, HoleTag(e - end))
                ELSE Resize(mem, t, e - t)
<1>1. /\ t \in START..end /\ end \in Nat /\ START \in Nat /\ MAX \in Nat /\ MAX < WORD /\ WORD \in Nat
      /\ Tagged(mem) /\ e \in Nat /\ t \in Nat /\ e <= MAX
  BY EdgeFact, Sizes DEF IInv
<1>2. PICK h : h = HoleTag(e - t)
  OBVIOUS
<1>3. h \in Tags /\ Length(h) = 12 /\ e - t \in 0..(WORD - 1) /\ TRUE \in BOOLEAN
  <2>1. e - t \in 0..(WORD - 1) /\ TRUE \in BOOLEAN
    BY <1>1
  <2> QED
    BY <1>2, <2>1, HeaderFact, TagFact
<1>4. t \in START..MAX /\ t <= t /\ t + 12 <= e /\ t + 20 <= e
  BY <1>1
<1>5. CASE index = << >>
  <2>1. t = end
    BY <1>5 DEF IInv, HoleInv
  <2>2. w = Put(mem, t, h)
    BY <1>2, <1>5, <2>1
  <2>3. t + Length(h) <= e
    BY <1>3, <1>4
  <2>4. Tagged(Put(mem, t, h)) /\ Writes(mem, Put(mem, t, h), t, e) /\ Tag(Put(mem, t, h), t) = h
    <3>1. /\ Tagged(mem) /\ t \in Nat /\ e \in Nat /\ t \in START..MAX /\ h \in Tags
          /\ t <= t /\ t + Length(h) <= e
      BY <1>1, <1>3, <1>4, <2>3
    <3> QED
      BY <3>1, PutFact
  <2> HIDE DEF w
  <2>5. Tagged(w) /\ Writes(mem, w, t, e) /\ Tag(w, t) = HoleTag(e - t)
    BY <1>2, <2>2, <2>4
  <2>6. LET m == Put(w, e - 8, Footer(t))
        IN  Tagged(m) /\ Writes(mem, m, t, e) /\ Tag(m, t) = HoleTag(e - t)
    BY <1>4, <2>5, FootFact
  <2> QED
    BY <1>4, <2>6 DEF w
<1>6. CASE index # << >>
  <2>1. Tag(mem, t) = HoleTag(end - t)
    BY <1>6 DEF IInv, HoleInv
  <2>2. w = Resize(mem, t, e - t)
    BY <1>6
  <2> HIDE DEF w
  <2>3. /\ Tagged(Resize(mem, t, e - t)) /\ Writes(mem, Resize(mem, t, e - t), t, e)
        /\ Tag(Resize(mem, t, e - t), t) = HoleTag(e - t)
    <3>1. /\ Tagged(mem) /\ t \in Nat /\ e \in Nat /\ e - t \in 0..(WORD - 1)
          /\ t <= t /\ t + 12 <= e
      BY <1>1, <1>3, <1>4
    <3> QED
      BY <2>1, <3>1, ResizeFact
  <2>4. Tagged(w) /\ Writes(mem, w, t, e) /\ Tag(w, t) = HoleTag(e - t)
    BY <2>2, <2>3
  <2>5. LET m == Put(w, e - 8, Footer(t))
        IN  Tagged(m) /\ Writes(mem, m, t, e) /\ Tag(m, t) = HoleTag(e - t)
    BY <1>4, <2>4, FootFact
  <2> QED
    BY <1>4, <2>5 DEF w
<1> QED
  BY <1>5, <1>6

\* expand succeeds, or the heap has reached its last address.
LEMMA ExpandInv ==
  ASSUME IInv, Served(program), Expand
  PROVE  IInv' /\ live' = live
<1>1. call # NoCall /\ SmallestHole(call) = 0 /\ halted = "no"
  BY DEF Expand
<1>2. ~Stacked(program) /\ OddSizes(program)
  <2>1. ~Stacked(program)
    BY <1>1, StackedFits
  <2> QED
    BY <2>1 DEF Served
<1> DEFINE old == end - START
           want == Plus(old, Need(call))
           new == Expanded(want)
           e == START + new
           got == [p \in Pages |-> IF p \in NewPages(old, new) THEN "mapped" ELSE frame[p]]
<1>3. PICK t : t = Top
  OBVIOUS
<1>4. /\ t \in START..end /\ t \in Nat /\ end \in Nat /\ START \in Nat /\ MAX \in Nat /\ WORD \in Nat /\ MAX < WORD
      /\ START <= end /\ HDR = 12 /\ FTR = 8
  BY <1>3, EdgeFact, Sizes DEF IInv, StateInv
<1>5. old \in Nat /\ old % PAGE = 0 /\ START + old = end
  BY <1>2, <1>4 DEF IInv, PlaceInv
<1>6. Need(call) \in Nat /\ 20 <= Need(call) /\ Need(call) % 2 = 1 /\ MAX + Need(call) + PAGE < WORD
  <2>1. call \in program.calls /\ program \in Programs
    BY <1>1 DEF IInv, StateInv
  <2>2. call.size \in Nat /\ Need(call) = call.size + 20
    BY <2>1, CallFact, NeedFact
  <2>3. call.size % 2 = 1 /\ MAX + call.size + HDR + FTR + PAGE < WORD
    BY <1>2, <2>1 DEF OddSizes
  <2> QED
    BY <2>2, <2>3, Sizes
<1>12. /\ want = old + Need(call)
       /\ new \in Nat /\ new % PAGE = 0 /\ want < new /\ new <= want + PAGE
  <2>1. old <= MAX
    BY <1>4, <1>5 DEF IInv, StateInv
  <2> HIDE DEF old
  <2>2. old + Need(call) + PAGE < WORD /\ old + Need(call) < WORD
    BY <1>4, <1>5, <1>6, <2>1, Sizes
  <2>3. want = old + Need(call)
    BY <1>5, <1>6, <2>2, SmallSum
  <2> QED
    BY <1>5, <1>6, <2>2, <2>3, ExpandedFact
<1>7. /\ new \in Nat /\ new % PAGE = 0 /\ old + Need(call) < new
      /\ ~(want <= old) /\ Plus(START, new) = e
  <2>1. START + new < WORD
    <3>1. end <= MAX
      BY DEF IInv, StateInv
    <3> QED
      BY <1>4, <1>5, <1>6, <1>12, <3>1, Sizes
  <2>2. Plus(START, new) = START + new
    BY <1>4, <1>12, <2>1, SmallSum
  <2> QED
    BY <1>4, <1>5, <1>6, <1>12, <2>2
<1> HIDE DEF new, want
<1>8. e \in Nat /\ end + 20 <= e /\ t <= e
  BY <1>4, <1>5, <1>6, <1>7
<1>9. CASE e > MAX
  <2>1. halted' = "memory" /\ UNCHANGED <<mem, index, end, frame, live, call, program>>
    BY <1>7, <1>9 DEF Expand, Halt, old, want, new
  <2>2. /\ StateInv' /\ Tagged(mem') /\ HeapMapped'
    BY <2>1 DEF IInv, StateInv, HeapMapped
  <2>3. BlockInv' /\ HoleInv'
    BY <2>1 DEF IInv, BlockInv, HoleInv, At, After, Edge, Top, Size
  <2>4. PlaceInv'
    BY <1>2, <2>1 DEF IInv, PlaceInv, Stacked
  <2> QED
    BY <2>1, <2>2, <2>3, <2>4 DEF IInv
<1>10. CASE e <= MAX
  <2> DEFINE w == IF index = << >> THEN Put(mem, end, HoleTag(e - end)) ELSE Resize(mem, t, e - t)
             m == Put(w, e - 8, Footer(t))
  <2>1. e \in START..MAX
    BY <1>4, <1>8, <1>10
  <2>2. /\ Tagged(m) /\ Writes(mem, m, t, e) /\ Tag(m, t) = HoleTag(e - t)
        /\ t \in START..MAX /\ t + 20 <= e
    <3> HIDE DEF e
    <3> QED
      BY <1>3, <1>8, <2>1, GrownFact
  <2> HIDE DEF m
  <2>3. \A p \in Pages : START + p * PAGE < e => got[p] = "mapped"
    <3> SUFFICES ASSUME NEW p \in Pages, START + p * PAGE < e, p \notin NewPages(old, new)
                 PROVE  frame[p] = "mapped"
      OBVIOUS
    <3>1. p \in Nat /\ p * PAGE \in Nat
      <4>1. p \in Nat
        BY DEF Pages
      <4> QED
        BY <4>1, Sizes
    <3>2. p * PAGE < new
      BY <1>4, <1>7, <3>1
    <3>3. ~(old <= p * PAGE)
      <4> HIDE DEF old
      <4> QED
        BY <1>5, <1>7, <3>1, <3>2, NewPagesFact
    <3>4. START + p * PAGE < end
      BY <1>4, <1>5, <3>1, <3>3
    <3> QED
      BY <3>4 DEF IInv, HeapMapped
  <2>4. got \in [Pages -> {"none", "mapped", "freed"}]
    BY DEF IInv, StateInv
  <2> HIDE DEF got
  <2>5. ~Faults(m, got)
    <3>1. ASSUME NEW a \in t..(e - 1) PROVE Present(got, a)
      <4>1. a \in START..(e - 1)
        BY <1>4
      <4> HIDE DEF e
      <4> QED
        BY <2>1, <2>3, <4>1, MappedPresent
    <3> HIDE DEF e
    <3> QED
      BY <1>4, <1>8, <2>2, <3>1, NoFault
  <2>6. /\ mem' = m /\ index' = <<t>> /\ end' = e /\ frame' = got
        /\ live' = live /\ call' = call /\ halted' = halted /\ program' = program
    <3> DEFINE hole == IF index = << >> THEN end ELSE LastHole
               size == IF index = << >> THEN Minus(new, old) ELSE Plus(Tag(mem, hole).size, new - old)
               with == IF index = << >> THEN Put(mem, hole, Header(TRUE, size))
                       ELSE Resize(mem, hole, size)
               n == Put(with, Plus(hole, size - FTR), Footer(hole))
    <3>1. hole = t
      <4>1. CASE index = << >>
        BY <1>3, <4>1 DEF IInv, HoleInv
      <4>2. CASE index # << >>
        <5>1. index = <<t>>
          BY <1>3, <4>2 DEF IInv, HoleInv
        <5>2. {index[k] : k \in 1..Len(index)} = {t} /\ Len(index) = 1 /\ index[1] = t
          BY <5>1
        <5>3. \A a \in {t} : (\A k \in 1..Len(index) : index[k] <= a) <=> t <= a
          BY <5>2
        <5>4. LastHole = t
          BY <1>4, <5>2, <5>3 DEF LastHole
        <5> QED
          BY <4>2, <5>4
      <4> QED
        BY <4>1, <4>2
    <3>2. size = e - t
      <4>1. CASE index = << >>
        <5>1. t = end
          BY <1>3, <4>1 DEF IInv, HoleInv
        <5>2. new - old = e - t /\ e - t \in 0..(WORD - 1)
          BY <1>4, <1>5, <1>7, <1>8, <1>10, <5>1
        <5>3. Minus(new, old) = e - t
          BY <1>4, <5>2 DEF Minus
        <5> QED
          BY <4>1, <5>3
      <4>2. CASE index # << >>
        <5>1. Tag(mem, t) = HoleTag(end - t)
          BY <1>3, <4>2 DEF IInv, HoleInv, HoleTag
        <5>2. Tag(mem, hole).size = end - t
          BY <3>1, <5>1, TagFact
        <5>3. (end - t) + (new - old) = e - t /\ e - t \in 0..(WORD - 1)
          BY <1>4, <1>5, <1>7, <1>8, <1>10
        <5>4. Plus(end - t, new - old) = e - t
          BY <1>4, <5>3 DEF Plus
        <5> HIDE DEF hole
        <5> QED
          BY <4>2, <5>2, <5>4
      <4> QED
        BY <4>1, <4>2
    <3> HIDE DEF hole, size
    <3>3. with = w
      <4>1. index = << >> => hole = end /\ e - t = e - end
        BY <3>1 DEF hole
      <4> QED
        BY <3>1, <3>2, <4>1 DEF HoleTag
    <3>4. Plus(hole, size - FTR) = e - 8
      <4>1. t + ((e - t) - FTR) = e - 8 /\ e - 8 \in 0..(WORD - 1)
        BY <1>4, <1>8, <1>10
      <4> QED
        BY <1>4, <3>1, <3>2, <4>1 DEF Plus
    <3>5. n = m
      BY <3>1, <3>3, <3>4 DEF m
    <3> HIDE DEF n
    <3>6. ~(want <= old) /\ ~(Plus(START, new) > MAX) /\ ~(START + new > MAX)
      BY <1>4, <1>7, <1>8, <1>10
    <3>7. index # << >> => index = <<t>>
      BY <1>3 DEF IInv, HoleInv
    <3>8. /\ mem' = n
          /\ index' = IF index = << >> THEN <<hole>> ELSE index
          /\ end' = START + new /\ frame' = got
          /\ UNCHANGED <<live, call, halted, program>>
      BY <2>5, <3>5, <3>6 DEF Expand, n, hole, size, got, want, new
    <3> QED
      BY <3>1, <3>5, <3>7, <3>8
  <2>7. BlockInv' /\ Top' = t
    <3>1. PICK k \in Nat : k = Len(live)
      BY EdgeFact
    <3>2. /\ k \in 0..Len(live) /\ Edge(k) = t /\ Len(live') = k
          /\ \A j \in 1..k : live'[j] = live[j] /\ After(j) <= t
      <4>1. Edge(k) = t /\ k \in 0..Len(live)
        BY <1>3, <3>1 DEF Top
      <4>2. Len(live') = k
        BY <2>6, <3>1
      <4>3. \A j \in 1..k : live'[j] = live[j] /\ After(j) <= t
        BY <1>3, <2>6, <3>1, EdgeFact
      <4> QED
        BY <4>1, <4>2, <4>3
    <3>3. Writes(mem, mem', t, e) /\ end' \in Nat /\ t <= end'
      BY <1>8, <2>2, <2>6
    <3> HIDE DEF e
    <3>4. BlockInv' /\ Top' = Edge(k)
      BY <1>4, <3>2, <3>3, SameBlocks
    <3> QED
      BY <3>2, <3>4
  <2> HIDE DEF e
  <2>8. HoleInv'
    <3>1. t # e
      BY <1>4, <2>2
    <3> QED
      BY <2>2, <2>6, <2>7, <3>1 DEF HoleInv, HoleTag
  <2>9. StateInv'
    BY <2>1, <2>4, <2>6 DEF IInv, StateInv
  <2>10. PlaceInv'
    <3>1. ~Stacked(program')
      BY <1>2, <2>6 DEF Stacked, Enough
    <3>2. end' - START = new
      BY <1>4, <1>7, <2>6 DEF e
    <3> QED
      BY <1>7, <3>1, <3>2 DEF PlaceInv
  <2>11. HeapMapped'
    BY <2>3, <2>6 DEF HeapMapped
  <2> QED
    BY <2>2, <2>6, <2>7, <2>8, <2>9, <2>10, <2>11 DEF IInv
<1>11. e > MAX \/ e <= MAX
  BY <1>4, <1>8
<1> QED
  BY <1>9, <1>10, <1>11

----------------------------------------------------------------------------
(* free. *)

\* Only a stacked program frees, and only its newest block.
LEMMA FreesNewest ==
  ASSUME IInv, Served(program), NEW k \in MayFree(Len(live))
  PROVE  Stacked(program) /\ k = Len(live) /\ k # 0
<1>1. program.frees \in {"never", "newest"}
  BY DEF Served, OddSizes, Stacked
<1>2. program.frees # "never"
  BY DEF MayFree
<1>3. program.frees = "newest"
  BY <1>1, <1>2
<1>4. k \in {Len(live)} \ {0}
  BY <1>3 DEF MayFree
<1>5. Stacked(program)
  BY <1>3 DEF Served, OddSizes
<1> QED
  BY <1>4, <1>5

\* The stack leaves room below HEAP_MIN_SIZE for a pair of tags.
LEMMA StackedTop ==
  ASSUME IInv, Stacked(program)
  PROVE  /\ Top + 20 <= START + MIN /\ START + MIN <= end
         /\ index = <<Top>> /\ Tag(mem, Top) = HoleTag(end - Top)
<1>1. PICK b : b = Bound
  OBVIOUS
<1>2. PICK n \in Nat : n = Len(live)
  BY EdgeFact
<1>3. PICK t : t = Top
  OBVIOUS
<1>4. /\ b \in Nat /\ program.most * b + 20 <= MIN /\ program.most \in Nat /\ n <= program.most
  <2>1. program \in Programs /\ program.most \in Nat /\ n <= program.most
    BY <1>2, SizeAssumption DEF IInv, StateInv
  <2>2. Bound \in 0..MIN /\ program.most * Bound + 20 <= MIN
    BY <2>1, BoundFact
  <2> QED
    BY <1>1, <2>1, <2>2, Sizes
<1>5. t - START <= n * b /\ t \in START..end /\ end \in Nat
  <2>1. t = Edge(n) /\ n \in 0..Len(live)
    BY <1>2, <1>3 DEF Top
  <2>2. Edge(n) - START <= n * Bound
    BY <2>1 DEF IInv, PlaceInv
  <2> QED
    BY <1>1, <1>3, <2>1, <2>2, EdgeFact
<1>6. MIN <= end - START
  <2>1. end - START \in {MIN, INITIAL}
    BY DEF IInv, PlaceInv
  <2> QED
    BY <2>1, Sizes
<1>7. n * b <= program.most * b /\ n * b \in Nat /\ program.most * b \in Nat
  BY <1>4
<1>8. t + 20 <= START + MIN /\ START + MIN <= end /\ t # end
  BY <1>4, <1>5, <1>6, <1>7, Sizes
<1>9. index = <<t>> /\ Tag(mem, t) = HoleTag(end - t)
  BY <1>3, <1>8 DEF IInv, HoleInv, HoleTag
<1> QED
  BY <1>3, <1>8, <1>9

\* The block on top of the others, which is the one to be freed: what lies in
\* front of it is no hole.
LEMMA NewestFact ==
  ASSUME IInv, Stacked(program), NEW n \in Nat, n = Len(live), n # 0, NEW h, h = At(n), NEW t, t = Top
  PROVE  /\ h \in START..MAX /\ h + 20 <= t /\ h = Edge(n - 1) /\ t \in Nat
         /\ Tag(mem, h) = BlockTag(t - h) /\ Tag(mem, t - 8) = Footer(h)
         /\ live[n].at - HDR = h
         /\ Tag(mem, h - 8).kind = "footer" =>
              Tag(mem, Tag(mem, h - 8).header).hole = FALSE /\ Tag(mem, h - 8).header # h
<1>1. /\ n \in 1..Len(live) /\ t = After(n) /\ FTR = 8
  BY EdgeFact DEF FTR
<1>2. /\ h \in Nat /\ h + 20 <= t /\ t \in Nat /\ Size(h) = t - h /\ START \in Nat
  <2>1. At(n) \in Nat /\ Size(At(n)) \in Nat /\ After(n) \in Nat /\ At(n) + 20 <= After(n)
    BY <1>1, EdgeFact
  <2>2. After(n) = At(n) + Size(At(n))
    BY DEF After
  <2> QED
    BY <1>1, <2>1, <2>2, Sizes
<1>3. /\ h \in START..MAX /\ h = Edge(n - 1) /\ Tag(mem, h) = BlockTag(t - h) /\ Tag(mem, t - 8) = Footer(h)
  BY <1>1, <1>2 DEF IInv, BlockInv, BlockTag
<1>4. ASSUME Tag(mem, h - 8).kind = "footer"
      PROVE  Tag(mem, Tag(mem, h - 8).header).hole = FALSE /\ Tag(mem, h - 8).header # h
  <2>1. CASE n = 1
    <3>1. h = START
      BY <1>3, <2>1 DEF Edge
    <3>2. h - 8 \notin DOMAIN mem
      BY <1>2, <3>1 DEF IInv, Tagged
    <3> QED
      BY <1>4, <3>2 DEF Tag, Nothing
  <2>2. CASE n # 1
    <3>1. PICK j \in Nat : j = n - 1
      BY <2>2
    <3>2. j \in 1..Len(live) /\ j # 0 /\ h = After(j)
      BY <1>1, <1>3, <2>2, <3>1 DEF Edge
    <3>3. Tag(mem, h - 8) = Footer(At(j)) /\ Tag(mem, At(j)) = BlockTag(Size(At(j)))
      BY <1>1, <3>2 DEF IInv, BlockInv, BlockTag
    <3>4. At(j) \in Nat /\ At(j) + 20 <= h
      BY <3>2, EdgeFact
    <3>5. PICK a : a = At(j)
      OBVIOUS
    <3>6. Tag(mem, h - 8).header = a /\ Tag(mem, a).hole = FALSE
      <4>1. Footer(a).header = a
        BY <3>4, <3>5, FooterFact
      <4>2. BlockTag(Size(a)).hole = FALSE
        BY TagFact
      <4>3. Tag(mem, h - 8) = Footer(a) /\ Tag(mem, a) = BlockTag(Size(a))
        BY <3>3, <3>5
      <4> QED
        BY <4>1, <4>2, <4>3
    <3> QED
      BY <1>2, <3>4, <3>5, <3>6
  <2> QED
    BY <2>1, <2>2
<1>5. live[n].at - HDR = h
  BY DEF At
<1> QED
  BY <1>2, <1>3, <1>4, <1>5

\* The local variables of free.
Locals(m, i, e, f, h, x, r) ==
  [mem |-> m, index |-> i, end |-> e, frame |-> f, header |-> h, footer |-> x, right |-> r,
   add |-> TRUE]

WithMem(s, n)              == [s EXCEPT !.mem = n]
WithIndex(s, j)            == [s EXCEPT !.index = j]
WithJoined(s, n, y)        == [s EXCEPT !.mem = n, !.footer = y]
WithContracted(s, n, c, g) == [s EXCEPT !.mem = n, !.end = c, !.frame = g]

LEMMA LocalsFields ==
  ASSUME NEW m, NEW i, NEW e, NEW f, NEW h, NEW x, NEW r, NEW s, s = Locals(m, i, e, f, h, x, r)
  PROVE  /\ s.mem = m /\ s.index = i /\ s.end = e /\ s.frame = f /\ s.header = h
         /\ s.footer = x /\ s.right = r /\ s.add
<1>1. PICK add : add = TRUE
  OBVIOUS
<1>2. s = [mem |-> m, index |-> i, end |-> e, frame |-> f, header |-> h, footer |-> x, right |-> r,
           add |-> add]
  BY <1>1 DEF Locals
<1>3. /\ s.mem = m /\ s.index = i /\ s.end = e /\ s.frame = f /\ s.header = h
      /\ s.footer = x /\ s.right = r
  BY <1>2
<1>4. s.add = add
  BY <1>2
<1> QED
  BY <1>1, <1>3, <1>4

LEMMA LocalsMem ==
  ASSUME NEW m, NEW i, NEW e, NEW f, NEW h, NEW x, NEW r, NEW s, s = Locals(m, i, e, f, h, x, r), NEW n
  PROVE  WithMem(s, n) = Locals(n, i, e, f, h, x, r)
<1>1. PICK add : add = TRUE
  OBVIOUS
<1>2. [[mem |-> m, index |-> i, end |-> e, frame |-> f, header |-> h, footer |-> x, right |-> r,
        add |-> add] EXCEPT !.mem = n]
        = [mem |-> n, index |-> i, end |-> e, frame |-> f, header |-> h, footer |-> x, right |-> r,
           add |-> add]
  OBVIOUS
<1> QED
  BY <1>1, <1>2 DEF Locals, WithMem

LEMMA LocalsIndex ==
  ASSUME NEW m, NEW i, NEW e, NEW f, NEW h, NEW x, NEW r, NEW s, s = Locals(m, i, e, f, h, x, r), NEW j
  PROVE  WithIndex(s, j) = Locals(m, j, e, f, h, x, r)
<1>1. PICK add : add = TRUE
  OBVIOUS
<1>2. [[mem |-> m, index |-> i, end |-> e, frame |-> f, header |-> h, footer |-> x, right |-> r,
        add |-> add] EXCEPT !.index = j]
        = [mem |-> m, index |-> j, end |-> e, frame |-> f, header |-> h, footer |-> x, right |-> r,
           add |-> add]
  OBVIOUS
<1> QED
  BY <1>1, <1>2 DEF Locals, WithIndex

LEMMA LocalsJoined ==
  ASSUME NEW m, NEW i, NEW e, NEW f, NEW h, NEW x, NEW r, NEW s, s = Locals(m, i, e, f, h, x, r),
         NEW n, NEW y
  PROVE  WithJoined(s, n, y) = Locals(n, i, e, f, h, y, r)
<1>1. PICK add : add = TRUE
  OBVIOUS
<1>2. PICK u : u = [s EXCEPT !.mem = n]
  OBVIOUS
<1>3. u = Locals(n, i, e, f, h, x, r)
  BY <1>2, LocalsMem DEF WithMem
<1>4. [[mem |-> n, index |-> i, end |-> e, frame |-> f, header |-> h, footer |-> x, right |-> r,
        add |-> add] EXCEPT !.footer = y]
        = [mem |-> n, index |-> i, end |-> e, frame |-> f, header |-> h, footer |-> y, right |-> r,
           add |-> add]
  OBVIOUS
<1>5. [u EXCEPT !.footer = y] = Locals(n, i, e, f, h, y, r)
  BY <1>1, <1>3, <1>4 DEF Locals
<1>6. [s EXCEPT !.mem = n, !.footer = y] = [[s EXCEPT !.mem = n] EXCEPT !.footer = y]
  OBVIOUS
<1> QED
  BY <1>2, <1>5, <1>6 DEF WithJoined

LEMMA LocalsContracted ==
  ASSUME NEW m, NEW i, NEW e, NEW f, NEW h, NEW x, NEW r, NEW s, s = Locals(m, i, e, f, h, x, r),
         NEW n, NEW c, NEW g
  PROVE  WithContracted(s, n, c, g) = Locals(n, i, c, g, h, x, r)
<1>1. PICK add : add = TRUE
  OBVIOUS
<1>2. PICK u : u = [s EXCEPT !.mem = n]
  OBVIOUS
<1>3. u = Locals(n, i, e, f, h, x, r)
  BY <1>2, LocalsMem DEF WithMem
<1>4. [[mem |-> n, index |-> i, end |-> e, frame |-> f, header |-> h, footer |-> x, right |-> r,
        add |-> add] EXCEPT !.end = c]
        = [mem |-> n, index |-> i, end |-> c, frame |-> f, header |-> h, footer |-> x, right |-> r,
           add |-> add]
  OBVIOUS
<1>5. [[mem |-> n, index |-> i, end |-> c, frame |-> f, header |-> h, footer |-> x, right |-> r,
        add |-> add] EXCEPT !.frame = g]
        = [mem |-> n, index |-> i, end |-> c, frame |-> g, header |-> h, footer |-> x, right |-> r,
           add |-> add]
  OBVIOUS
<1>6. [[u EXCEPT !.end = c] EXCEPT !.frame = g] = Locals(n, i, c, g, h, x, r)
  BY <1>1, <1>3, <1>4, <1>5 DEF Locals
<1>7. [s EXCEPT !.mem = n, !.end = c, !.frame = g]
        = [[[s EXCEPT !.mem = n] EXCEPT !.end = c] EXCEPT !.frame = g]
  OBVIOUS
<1> QED
  BY <1>2, <1>6, <1>7 DEF WithContracted

\* The header of a block that becomes one of a hole.
Marked(m, a) == [m EXCEPT ![a].hole = TRUE]

LEMMA MarkedFact ==
  ASSUME NEW m, Tagged(m), NEW lo \in Nat, NEW hi \in Nat, NEW a \in Nat, NEW size \in 0..(WORD - 1),
         Tag(m, a) = BlockTag(size), lo <= a, a + 12 <= hi
  PROVE  /\ Tagged(Marked(m, a)) /\ Writes(m, Marked(m, a), lo, hi)
         /\ Tag(Marked(m, a), a) = HoleTag(size)
         /\ \A b : b # a => Tag(Marked(m, a), b) = Tag(m, b)
<1>h. PICK h : h = BlockTag(size)
  OBVIOUS
<1>g. PICK g : g = HoleTag(size)
  OBVIOUS
<1>1. a \in DOMAIN m /\ m[a] = h
  <2>1. h.kind = "header" /\ Tag(m, a) = h
    BY <1>h, TagFact
  <2> QED
    BY <2>1 DEF Tag, Nothing
<1> DEFINE n == [m EXCEPT ![a].hole = TRUE]
<1>2. DOMAIN n = DOMAIN m /\ (\A b \in DOMAIN m : b # a => n[b] = m[b]) /\ n[a] = g
  <2>1. PICK yes : yes = TRUE
    OBVIOUS
  <2>2. PICK no : no = FALSE
    OBVIOUS
  <2>3. g = [h EXCEPT !.hole = yes]
    <3>1. Header(yes, size) = [Header(no, size) EXCEPT !.hole = yes]
      BY DEF Header
    <3> QED
      BY <1>h, <1>g, <2>1, <2>2, <3>1 DEF HoleTag, BlockTag
  <2>4. n = [m EXCEPT ![a] = [h EXCEPT !.hole = yes]]
    BY <1>1, <2>1
  <2> HIDE DEF n
  <2> QED
    BY <1>1, <2>3, <2>4
<1> HIDE DEF n
<1>3. Tagged(n)
  <2>1. HoleTag(size) \in Tags
    BY HeaderFact
  <2> QED
    BY <1>g, <1>1, <1>2, <2>1 DEF Tagged
<1>4. Writes(m, n, lo, hi)
  <2>1. Length(m[a]) = 12 /\ Length(n[a]) = 12
    <3>1. Length(h) = 12 /\ Length(g) = 12
      BY <1>h, <1>g, TagFact
    <3> QED
      BY <1>1, <1>2, <3>1
  <2>2. ASSUME NEW b \in DOMAIN m, b + Length(m[b]) <= lo
        PROVE  n[b] = m[b]
    <3>1. b # a
      BY <2>1, <2>2
    <3> QED
      BY <1>2, <3>1
  <2>3. ASSUME NEW b \in DOMAIN n
        PROVE  n[b] = m[b] \/ (lo <= b /\ b + Length(n[b]) <= hi)
    BY <1>2, <2>1, <2>3
  <2> QED
    BY <1>2, <2>2, <2>3 DEF Writes
<1>5. Tag(n, a) = g /\ \A b : b # a => Tag(n, b) = Tag(m, b)
  BY <1>1, <1>2 DEF Tag
<1> QED
  BY <1>g, <1>3, <1>4, <1>5 DEF n, Marked

\* Tags that go with their pages.
Dropped(m, Q) == Restrict(m, {a \in DOMAIN m : a \in Q})

LEMMA DroppedFact ==
  ASSUME NEW m, Tagged(m), NEW lo \in Nat, NEW hi \in Nat, lo <= hi,
         NEW Q, \A a \in DOMAIN m : a + Length(m[a]) <= hi => a \in Q
  PROVE  /\ Tagged(Dropped(m, Q)) /\ Writes(m, Dropped(m, Q), lo, hi)
         /\ \A b \in DOMAIN m : b + Length(m[b]) <= hi => Tag(Dropped(m, Q), b) = Tag(m, b)
<1> DEFINE n == Dropped(m, Q)
<1>1. /\ DOMAIN n \subseteq DOMAIN m /\ \A b \in DOMAIN n : n[b] = m[b]
      /\ \A b \in DOMAIN m : b \in Q => b \in DOMAIN n
  BY DEF Restrict, Dropped
<1>2. \A b \in DOMAIN m : b \in Nat /\ Length(m[b]) \in {8, 12}
  BY Sizes, LengthFact DEF Tagged
<1> HIDE DEF n
<1>3. \A b \in DOMAIN m : b + Length(m[b]) <= lo => b + Length(m[b]) <= hi
  BY <1>2
<1>4. \A b \in DOMAIN m : b + Length(m[b]) <= hi => b \in DOMAIN n /\ n[b] = m[b]
  BY <1>1
<1>5. Tagged(n) /\ Writes(m, n, lo, hi)
  BY <1>1, <1>3, <1>4 DEF Tagged, Writes
<1>6. \A b \in DOMAIN m : b + Length(m[b]) <= hi => Tag(n, b) = Tag(m, b)
  BY <1>4 DEF Tag
<1> QED
  BY <1>5, <1>6 DEF n

\* contract gives up no page in front of HEAP_MIN_SIZE.
LEMMA OldPagesFact ==
  ASSUME NEW old \in {MIN, INITIAL}, NEW p \in OldPages(old, MIN)
  PROVE  p \in Nat /\ MIN < p * PAGE
<1>1. /\ PAGE \in Nat /\ PAGE # 0 /\ START \in Nat /\ MIN \in Nat /\ INITIAL \in Nat /\ old \in Nat
  BY Sizes
<1>2. PICK j \in 1..(old \div PAGE) : MIN < old - PAGE * j /\ p = PageOf(START + old - PAGE * j)
  BY DEF OldPages
<1>3. old \div PAGE \in Nat
  BY <1>1, PageFact
<1>4. j \in Nat /\ 1 <= j /\ PAGE * j \in Nat /\ 0 < PAGE * j
  <2>1. j \in Nat /\ 1 <= j
    BY <1>3
  <2>2. PAGE * j \in Nat /\ PAGE * j # 0
    BY <1>1, <2>1
  <2> QED
    BY <2>1, <2>2
<1>5. old = INITIAL
  <2>1. old # MIN
    BY <1>1, <1>2, <1>4
  <2> QED
    BY <2>1
<1>6. PICK o \in Nat : old = PAGE * o
  BY <1>1, <1>5, Divided, SizeAssumption
<1>7. PAGE * o - PAGE * j = PAGE * (o - j) /\ PAGE * o \in Nat
  BY <1>1, <1>4, <1>6
<1>8. j < o
  <2>1. ASSUME o <= j PROVE FALSE
    <3>1. PAGE * o <= PAGE * j
      BY <1>1, <1>4, <2>1
    <3> QED
      BY <1>1, <1>2, <1>4, <1>6, <1>7, <3>1
  <2> QED
    BY <1>4, <2>1
<1>9. PICK q \in Nat : q = o - j
  BY <1>4, <1>8
<1>10. PAGE * q \in Nat /\ PAGE * q = old - PAGE * j
  BY <1>1, <1>6, <1>7, <1>9
<1>11. p = q
  <2>1. (START + old - PAGE * j) - START = PAGE * q
    BY <1>1, <1>4, <1>10
  <2>2. (PAGE * q) \div PAGE = q
    BY <1>1, <1>10, PageUnique
  <2> QED
    BY <1>2, <2>1, <2>2 DEF PageOf
<1> QED
  BY <1>1, <1>2, <1>10, <1>11

LEMMA ContractedFact ==
  ASSUME NEW x \in Nat, x < MIN
  PROVE  Contracted(x) = MIN
<1>1. MIN \in Nat /\ 2 * PAGE \in Nat /\ 2 * PAGE <= MIN
  BY Sizes
<1> DEFINE rounded == IF (x \div PAGE) % 2 = 1 THEN 2 * PAGE ELSE x
<1>2. rounded \in Nat /\ rounded <= MIN
  BY <1>1
<1>3. Contracted(x) = IF rounded < MIN THEN MIN ELSE rounded
  BY DEF Contracted
<1> HIDE DEF rounded
<1> QED
  BY <1>1, <1>2, <1>3

LEMMA OnePlaced ==
  ASSUME NEW x
  PROVE  Place(<<x>>, x) = 1
<1>1. Len(<<x>>) = 1 /\ <<x>>[1] = x
  OBVIOUS
<1>2. 1 \in 1..Len(<<x>>) /\ \A j \in 1..(1 - 1) : <<x>>[j] # x
  OBVIOUS
<1>3. Place(<<x>>, x) = CHOOSE k \in 1..Len(<<x>>) : <<x>>[k] = x /\ \A j \in 1..(k - 1) : <<x>>[j] # x
  BY <1>1, <1>2 DEF Place
<1>4. \A k \in 1..Len(<<x>>) : k = 1
  BY <1>1
<1> QED
  BY <1>1, <1>2, <1>3, <1>4

\* free of the newest block as far as contract: the block is a hole, nothing is
\* united on the left, and the hole on the right is taken in, up to the end.
LEMMA Unified ==
  ASSUME IInv, Stacked(program), NEW n \in Nat, n = Len(live), n # 0, NEW h, h = At(n), NEW t, t = Top
  PROVE  \E m1, m2 :
           /\ Freed(live[n].at - HDR) = Locals(m1, index, end, frame, h, t - 8, t)
           /\ UnifyLeft(Freed(live[n].at - HDR)) = Locals(m1, index, end, frame, h, t - 8, t)
           /\ RightIsHole(Locals(m1, index, end, frame, h, t - 8, t))
           /\ Place(index, t) = 1
           /\ UnifyRight(Locals(m1, index, end, frame, h, t - 8, t))
                = Locals(m2, << >>, end, frame, h, end - 8, t)
           /\ Tagged(m2) /\ Writes(mem, m2, h, START + MIN) /\ Tag(m2, h) = HoleTag(end - h)
<1>1. /\ h \in START..MAX /\ h + 20 <= t /\ h = Edge(n - 1) /\ t \in Nat
      /\ Tag(mem, h) = BlockTag(t - h) /\ Tag(mem, t - 8) = Footer(h)
      /\ live[n].at - HDR = h
      /\ Tag(mem, h - 8).kind = "footer" =>
           Tag(mem, Tag(mem, h - 8).header).hole = FALSE /\ Tag(mem, h - 8).header # h
  BY NewestFact
<1>2. /\ t + 20 <= START + MIN /\ START + MIN <= end
      /\ index = <<t>> /\ Tag(mem, t) = HoleTag(end - t)
  BY StackedTop
<1>3. /\ START \in Nat /\ MAX \in Nat /\ WORD \in Nat /\ MAX < WORD /\ MIN \in Nat /\ HDR = 12 /\ FTR = 8
      /\ end \in Nat /\ end <= MAX /\ h \in Nat /\ START <= h /\ Tagged(mem)
  BY <1>1, EdgeFact, Sizes DEF IInv, StateInv
<1> DEFINE m1 == Marked(mem, h)
           m2 == Resize(m1, h, end - h)
           hi == START + MIN
<1>4. hi \in Nat /\ h <= h /\ h + 12 <= hi /\ t - h \in 0..(WORD - 1) /\ end - h \in 0..(WORD - 1)
  <2>1. hi \in Nat /\ h <= h /\ h + 12 <= hi
    BY <1>1, <1>2, <1>3
  <2>2. t - h \in 0..(WORD - 1)
    BY <1>1, <1>2, <1>3
  <2>3. end - h \in 0..(WORD - 1)
    BY <1>1, <1>2, <1>3
  <2> QED
    BY <2>1, <2>2, <2>3
<1> HIDE DEF hi
<1>5. /\ Tagged(m1) /\ Writes(mem, m1, h, hi) /\ Tag(m1, h) = HoleTag(t - h)
      /\ \A b : b # h => Tag(m1, b) = Tag(mem, b)
  <2>1. /\ Tagged(mem) /\ h \in Nat /\ hi \in Nat /\ t - h \in 0..(WORD - 1)
        /\ Tag(mem, h) = BlockTag(t - h) /\ h <= h /\ h + 12 <= hi
    BY <1>1, <1>3, <1>4
  <2> QED
    BY <2>1, MarkedFact
<1>6. Freed(h) = Locals(m1, index, end, frame, h, t - 8, t)
  <2>1. Tag(mem, h).size = t - h
    BY <1>1, TagFact
  <2>2. h + (t - h) - FTR = t - 8 /\ h + (t - h) = t
    <3>1. h \in Nat /\ t \in Nat /\ FTR = 8
      BY <1>1, <1>2, <1>3, Sizes
    <3> QED
      BY <3>1
  <2>3. h + Tag(mem, h).size - FTR = t - 8 /\ h + Tag(mem, h).size = t
    BY <2>1, <2>2
  <2> HIDE DEF m1
  <2> QED
    BY <2>3 DEF Freed, Locals, Marked, m1
<1> HIDE DEF m1
<1>7. /\ Tagged(m2) /\ Writes(m1, m2, h, hi) /\ Tag(m2, h) = HoleTag(end - h)
  <2>1. h \in Nat /\ hi \in Nat /\ end - h \in 0..(WORD - 1) /\ h <= h /\ h + 12 <= hi
    BY <1>3, <1>4
  <2> QED
    BY <1>5, <2>1, ResizeFact
<1> HIDE DEF m2
<1>8. Writes(mem, m2, h, hi)
  BY <1>5, <1>7, WritesTrans
<1>9. PICK s : s = Locals(m1, index, end, frame, h, t - 8, t)
  OBVIOUS
<1>10. /\ s.mem = m1 /\ s.index = index /\ s.end = end /\ s.frame = frame /\ s.header = h
       /\ s.footer = t - 8 /\ s.right = t
  BY <1>9, LocalsFields
<1>11. UnifyLeft(s) = s
  <2>1. h - 8 # h
    BY <1>3
  <2>2. Tag(m1, h - 8) = Tag(mem, h - 8)
    BY <1>5, <2>1
  <2>3. ASSUME Tag(m1, h - 8).kind = "footer" PROVE ~Tag(m1, Tag(m1, h - 8).header).hole
    BY <1>1, <1>5, <2>2, <2>3
  <2>4. ~(Tag(s.mem, s.header - FTR).kind = "footer"
            /\ Tag(s.mem, Tag(s.mem, s.header - FTR).header).hole)
    BY <1>3, <1>10, <2>3
  <2> QED
    BY <2>4 DEF UnifyLeft
<1>12. Tag(m1, t) = HoleTag(end - t)
  <2>1. t # h
    BY <1>1, <1>3
  <2> QED
    BY <1>2, <1>5, <2>1
<1>13. RightIsHole(s)
  <2>1. HoleTag(end - t).kind = "header" /\ HoleTag(end - t).hole = TRUE
    BY TagFact
  <2>2. Tag(s.mem, s.right) = HoleTag(end - t)
    BY <1>10, <1>12
  <2> QED
    BY <2>1, <2>2 DEF RightIsHole, IsHeader
<1>14. Place(index, t) = 1
  BY <1>2, OnePlaced
<1>15. Joined(s) = Locals(m2, index, end, frame, h, end - 8, t)
  <2>1. Tag(m1, h).size = t - h /\ Tag(m1, t).size = end - t
    BY <1>5, <1>12, TagFact
  <2>2. Plus(t - h, end - t) = end - h
    <3>1. (t - h) + (end - t) = end - h
      BY <1>1, <1>3
    <3>2. (end - h) % WORD = end - h
      <4>1. \A x \in 0..(WORD - 1) : x % WORD = x
        BY <1>3
      <4> QED
        BY <1>4, <4>1
    <3> QED
      BY <3>1, <3>2 DEF Plus
  <2>3. Plus(t, (end - t) - FTR) = end - 8
    <3>1. t + ((end - t) - FTR) = end - 8 /\ end - 8 \in 0..(WORD - 1)
      <4>1. t + ((end - t) - FTR) = end - 8
        BY <1>1, <1>3
      <4>2. end - 8 \in 0..(WORD - 1)
        <5>1. 8 <= end /\ end <= WORD
          BY <1>1, <1>2, <1>3
        <5> QED
          BY <1>3, <5>1
      <4> QED
        BY <4>1, <4>2
    <3> QED
      BY <1>3, <3>1 DEF Plus
  <2>4. Resize(s.mem, s.header, Plus(Tag(s.mem, s.header).size, Tag(s.mem, s.right).size)) = m2
    BY <1>10, <2>1, <2>2 DEF m2
  <2>5. Plus(s.right, Tag(s.mem, s.right).size - FTR) = end - 8
    BY <1>10, <2>1, <2>3
  <2>6. Joined(s) = WithJoined(s, m2, end - 8)
    BY <2>4, <2>5 DEF Joined, WithJoined
  <2> QED
    BY <1>9, <2>6, LocalsJoined
<1>16. UnifyRight(s) = Locals(m2, << >>, end, frame, h, end - 8, t)
  <2>1. PICK j : j = Locals(m2, index, end, frame, h, end - 8, t)
    OBVIOUS
  <2>2. j.index = index
    BY <2>1, LocalsFields
  <2>3. O!Removed(j.index, Place(j.index, s.right) - 1) = << >>
    <3>1. Place(j.index, s.right) - 1 = 0 /\ j.index = <<t>>
      <4>1. Place(j.index, s.right) = 1 /\ j.index = <<t>>
        BY <1>2, <1>10, <1>14, <2>2
      <4> QED
        BY <4>1
    <3> QED
      BY <3>1, OneRemoved
  <2>4. UnifyRight(s) = WithIndex(j, O!Removed(j.index, Place(j.index, s.right) - 1))
    BY <1>13, <1>15, <2>1 DEF UnifyRight, WithIndex
  <2> QED
    BY <2>1, <2>3, <2>4, LocalsIndex
<1> QED
  BY <1>1, <1>6, <1>7, <1>8, <1>9, <1>11, <1>13, <1>14, <1>16 DEF hi

\* contract then: the heap goes back to HEAP_MIN_SIZE, and the hole with it.
LEMMA ContractFact ==
  ASSUME IInv, Stacked(program), NEW n \in Nat, n = Len(live), n # 0, NEW h, h = At(n), NEW t, t = Top,
         NEW m2, Tagged(m2), Writes(mem, m2, h, START + MIN), Tag(m2, h) = HoleTag(end - h),
         NEW v, v = Locals(m2, << >>, end, frame, h, end - 8, t)
  PROVE  \E m, g :
           /\ Contract(v) = Locals(m, << >>, START + MIN, g, h, end - 8, t)
           /\ Tagged(m) /\ Writes(mem, m, h, START + MIN) /\ Tag(m, h) = HoleTag((START + MIN) - h)
           /\ g \in [Pages -> {"none", "mapped", "freed"}]
           /\ \A p \in Pages : START + p * PAGE < START + MIN => g[p] = "mapped"
<1>1. h \in START..MAX /\ h + 20 <= t /\ t \in Nat
  BY NewestFact
<1>2. t + 20 <= START + MIN /\ START + MIN <= end
  BY StackedTop
<1>3. /\ START \in Nat /\ MAX \in Nat /\ WORD \in Nat /\ MAX < WORD /\ MIN \in Nat /\ HDR = 12 /\ FTR = 8
      /\ end \in Nat /\ end <= MAX /\ h \in Nat /\ START <= h
      /\ PAGE \in Nat /\ PAGE # 0
  BY <1>1, EdgeFact, Sizes DEF IInv, StateInv
<1> DEFINE old == end - START
           gone == OldPages(old, MIN)
           m3 == Restrict(m2, {a \in DOMAIN m2 :
                   gone \cap {PageOf(a), PageOf(a + Length(m2[a]) - 1)} = {}})
           e == START + MIN
           m4 == Resize(m3, h, e - h)
           m5 == Put(m4, e - 8, Footer(h))
           g == [p \in Pages |-> IF p \in gone /\ frame[p] = "mapped" THEN "freed" ELSE frame[p]]
<1>4. e \in START..MAX /\ h + 40 <= e /\ e <= end /\ e \in Nat /\ e - h \in 0..(WORD - 1)
  <2>1. h + 40 <= e /\ e <= end /\ e \in Nat
    BY <1>1, <1>2, <1>3
  <2> HIDE DEF e
  <2> QED
    BY <1>3, <2>1
<1>5. \A p \in gone : p \in Nat /\ MIN < p * PAGE
  <2>1. old \in {MIN, INITIAL}
    BY DEF IInv, PlaceInv
  <2> HIDE DEF old
  <2> QED
    BY <2>1, OldPagesFact
<1> HIDE DEF gone
<1>6. ASSUME NEW a \in START..(e - 1) PROVE PageOf(a) \notin gone
  <2>1. a - START \in Nat /\ a - START < MIN
    BY <1>3
  <2> DEFINE p == (a - START) \div PAGE
  <2>2. p \in Nat /\ PAGE * p <= a - START /\ PAGE * p \in Nat
    <3>1. p \in Nat /\ PAGE * p <= a - START
      BY <1>3, <2>1, PageFact
    <3> QED
      BY <1>3, <3>1
  <2> HIDE DEF p
  <2>3. p * PAGE = PAGE * p
    BY <1>3, <2>2
  <2>4. ~(MIN < p * PAGE)
    BY <1>3, <2>1, <2>2, <2>3
  <2> QED
    BY <1>5, <2>4 DEF PageOf, p
<1> DEFINE Q == {a \in DOMAIN m2 : gone \cap {PageOf(a), PageOf(a + Length(m2[a]) - 1)} = {}}
<1>7. \A a \in DOMAIN m2 : a + Length(m2[a]) <= e => a \in Q
  <2> SUFFICES ASSUME NEW a \in DOMAIN m2, a + Length(m2[a]) <= e PROVE a \in Q
    OBVIOUS
  <2>1. a \in START..MAX /\ a \in Nat /\ Length(m2[a]) \in {8, 12}
    BY LengthFact, <1>3 DEF Tagged
  <2>2. a \in START..(e - 1) /\ a + Length(m2[a]) - 1 \in START..(e - 1)
    <3> HIDE DEF e
    <3>1. PICK l \in {8, 12} : l = Length(m2[a])
      BY <2>1
    <3>2. a + l <= e
      BY <3>1
    <3>3. a \in START..(e - 1) /\ a + l - 1 \in START..(e - 1)
      <4>1. a \in Nat /\ START \in Nat /\ START <= a /\ e \in Nat
        BY <1>3, <1>4, <2>1
      <4>2. CASE l = 8
        BY <3>2, <4>1, <4>2
      <4>3. CASE l = 12
        BY <3>2, <4>1, <4>3
      <4> QED
        BY <4>2, <4>3
    <3> QED
      BY <3>1, <3>3
  <2>3. PageOf(a) \notin gone /\ PageOf(a + Length(m2[a]) - 1) \notin gone
    BY <1>6, <2>2
  <2> QED
    BY <2>3
<1>8. /\ Tagged(m3) /\ Writes(m2, m3, h, e)
      /\ \A b \in DOMAIN m2 : b + Length(m2[b]) <= e => Tag(m3, b) = Tag(m2, b)
  <2>1. m3 = Dropped(m2, Q)
    <3>1. {a \in DOMAIN m2 : a \in Q} = Q
      OBVIOUS
    <3> QED
      BY <3>1 DEF Dropped
  <2> HIDE DEF Q, e, m3
  <2>2. h \in Nat /\ e \in Nat /\ h <= e
    BY <1>3, <1>4
  <2>3. /\ Tagged(Dropped(m2, Q)) /\ Writes(m2, Dropped(m2, Q), h, e)
        /\ \A b \in DOMAIN m2 : b + Length(m2[b]) <= e => Tag(Dropped(m2, Q), b) = Tag(m2, b)
    BY <1>7, <2>2, DroppedFact
  <2> QED
    BY <2>1, <2>3
<1> HIDE DEF m3, Q
<1>9. Writes(mem, m3, h, e)
  <2>1. Writes(mem, m2, h, e)
    OBVIOUS
  <2> HIDE DEF e
  <2> QED
    BY <1>8, <2>1, WritesTrans
<1>10. Tag(m3, h) = HoleTag(end - h)
  <2>1. HoleTag(end - h).kind = "header" /\ Length(HoleTag(end - h)) = 12
    BY TagFact
  <2>2. h \in DOMAIN m2 /\ m2[h] = HoleTag(end - h)
    <3>1. Tag(m2, h).kind = "header"
      BY <2>1
    <3> QED
      BY <3>1 DEF Tag, Nothing
  <2>3. h + Length(m2[h]) <= e
    <3> HIDE DEF e
    <3> QED
      BY <1>3, <1>4, <2>1, <2>2
  <2> QED
    BY <1>8, <2>2, <2>3
<1>11. Tagged(m4) /\ Writes(m3, m4, h, e) /\ Tag(m4, h) = HoleTag(e - h)
  <2> HIDE DEF e
  <2>1. h \in Nat /\ e \in Nat /\ e - h \in 0..(WORD - 1) /\ h <= h /\ h + 12 <= e
    BY <1>3, <1>4
  <2> QED
    BY <1>8, <1>10, <2>1, ResizeFact
<1> HIDE DEF m4
<1>12. Tagged(m5) /\ Writes(mem, m5, h, e) /\ Tag(m5, h) = HoleTag(e - h)
  <2> HIDE DEF e
  <2>1. h \in START..MAX /\ h + 20 <= e
    BY <1>1, <1>3, <1>4
  <2>2. Writes(mem, m4, h, e)
    BY <1>9, <1>11, WritesTrans
  <2> QED
    BY <1>4, <1>11, <2>1, <2>2, FootFact
<1> HIDE DEF m5
<1>13. g \in [Pages -> {"none", "mapped", "freed"}]
  BY DEF IInv, StateInv
<1>14. \A p \in Pages : START + p * PAGE < e => g[p] = "mapped"
  <2> SUFFICES ASSUME NEW p \in Pages, START + p * PAGE < e PROVE g[p] = "mapped"
    OBVIOUS
  <2>1. p \in Nat /\ p * PAGE \in Nat
    <3>1. p \in Nat
      BY DEF Pages
    <3> QED
      BY <1>3, <3>1
  <2>2. p * PAGE < MIN /\ START + p * PAGE < end
    BY <1>3, <1>4, <2>1
  <2>3. p \notin gone
    <3>1. ~(MIN < p * PAGE)
      BY <1>3, <2>1, <2>2
    <3> QED
      BY <1>5, <3>1
  <2>4. frame[p] = "mapped"
    BY <2>2 DEF IInv, HeapMapped
  <2> QED
    BY <2>3, <2>4
<1>15. /\ v.mem = m2 /\ v.index = << >> /\ v.end = end /\ v.frame = frame /\ v.header = h
       /\ v.footer = end - 8 /\ v.right = t
  BY LocalsFields
<1>16. Contract(v) = Locals(m5, << >>, e, g, h, end - 8, t)
  <2>1. v.footer + FTR = v.end
    BY <1>3, <1>15
  <2>2. Contracted(v.header - START) = MIN
    <3>1. h - START \in Nat /\ h - START < MIN
      BY <1>1, <1>2, <1>3
    <3> QED
      BY <1>15, <3>1, ContractedFact
  <2>3. Minus(Tag(v.mem, v.header).size, (v.end - START) - MIN) = e - h
    <3>1. Tag(v.mem, v.header).size = end - h
      <4>1. Tag(v.mem, v.header) = HoleTag(end - h)
        BY <1>15
      <4>2. HoleTag(end - h).size = end - h
        BY TagFact
      <4> QED
        BY <4>1, <4>2
    <3>2. (end - h) - ((end - START) - MIN) = e - h
      BY <1>3
    <3>3. (e - h) % WORD = e - h
      <4>1. \A x \in 0..(WORD - 1) : x % WORD = x
        BY <1>3
      <4> HIDE DEF e
      <4> QED
        BY <1>4, <4>1
    <3> QED
      BY <1>15, <3>1, <3>2, <3>3 DEF Minus
  <2>4. Plus(h, (e - h) - FTR) = e - 8
    <3> HIDE DEF e
    <3>1. h + ((e - h) - FTR) = e - 8
      BY <1>3, <1>4
    <3>2. e - 8 \in 0..(WORD - 1)
      BY <1>3, <1>4
    <3>3. \A x \in 0..(WORD - 1) : x % WORD = x
      BY <1>3
    <3> QED
      BY <3>1, <3>2, <3>3 DEF Plus
  <2>5. e - h # 0
    <3> HIDE DEF e
    <3> QED
      BY <1>3, <1>4
  <2>6. OldPages(v.end - START, MIN) = gone
    BY <1>15 DEF gone
  <2>7. WithContracted(v, m3, e, g) = Locals(m3, << >>, e, g, h, end - 8, t)
    <3> HIDE DEF e, g
    <3> QED
      BY LocalsContracted
  <2>8. PICK w : w = WithContracted(v, m3, e, g)
    OBVIOUS
  <2>9. w.mem = m3 /\ w.header = h /\ w = Locals(m3, << >>, e, g, h, end - 8, t)
    <3> HIDE DEF e, g
    <3> QED
      BY <2>7, <2>8, LocalsFields
  <2>10. WithMem(w, m5) = Locals(m5, << >>, e, g, h, end - 8, t)
    <3> HIDE DEF e, g
    <3> QED
      BY <2>9, LocalsMem
  <2>11. w = [v EXCEPT !.mem = m3, !.end = e,
                       !.frame = [p \in Pages |-> IF p \in gone /\ v.frame[p] = "mapped"
                                                  THEN "freed" ELSE v.frame[p]]]
    BY <1>15, <2>8 DEF WithContracted
  <2>12. Contract(v) = [w EXCEPT !.mem = Put(Resize(m3, h, e - h), Plus(h, (e - h) - FTR), Footer(h))]
    <3> DEFINE new_  == Contracted(v.header - START)
               gone_ == OldPages(v.end - START, new_)
               m_    == Restrict(v.mem, {a \in DOMAIN v.mem :
                          gone_ \cap {PageOf(a), PageOf(a + Length(v.mem[a]) - 1)} = {}})
               size_ == Minus(Tag(v.mem, v.header).size, (v.end - START) - new_)
               t_    == [v EXCEPT !.mem = m_, !.end = START + new_,
                                  !.frame = [p \in Pages |-> IF p \in gone_ /\ v.frame[p] = "mapped"
                                                             THEN "freed" ELSE v.frame[p]]]
               i_    == IF Place(v.index, v.right) = 0 THEN t_.index
                        ELSE O!Removed(t_.index, Place(v.index, v.right) - 1)
    <3>1. Contract(v) =
            IF v.footer + FTR # v.end THEN v
            ELSE IF size_ # 0
                 THEN [t_ EXCEPT !.mem = Put(Resize(m_, v.header, size_),
                                             Plus(v.header, size_ - FTR), Footer(v.header))]
                 ELSE [t_ EXCEPT !.index = i_]
      BY DEF Contract
    <3>2. new_ = MIN
      BY <2>2
    <3>3. gone_ = gone
      BY <2>2, <2>6
    <3>4. size_ = e - h
      BY <2>2, <2>3
    <3> HIDE DEF gone_, new_, size_
    <3>5. m_ = m3
      BY <1>15, <3>3 DEF m3
    <3> HIDE DEF m_
    <3>6. t_ = w
      BY <2>11, <3>2, <3>3, <3>5
    <3> HIDE DEF t_, i_, e
    <3> QED
      BY <1>15, <2>1, <2>5, <3>1, <3>4, <3>5, <3>6
  <2>13. Put(Resize(m3, h, e - h), Plus(h, (e - h) - FTR), Footer(h)) = m5
    BY <2>4 DEF m4, m5
  <2> QED
    BY <2>10, <2>12, <2>13 DEF WithMem
<1> QED
  BY <1>12, <1>13, <1>14, <1>16

\* free of the newest block: it does not halt, and the block is gone.
LEMMA FreeInv ==
  ASSUME IInv, Served(program), NEW k, Free(k)
  PROVE  /\ IInv'
         /\ k = Len(live) /\ k # 0 /\ Len(live') = k - 1 /\ \A j \in 1..(k - 1) : live'[j] = live[j]
<1>1. halted = "no" /\ call = NoCall /\ k \in MayFree(Len(live))
  BY DEF Free
<1>2. Stacked(program) /\ k = Len(live) /\ k # 0
  BY <1>1, FreesNewest
<1>3. PICK n \in Nat : n = Len(live)
  BY EdgeFact
<1>4. PICK h : h = At(n)
  OBVIOUS
<1>5. PICK t : t = Top
  OBVIOUS
<1>6. n # 0 /\ k = n
  BY <1>2, <1>3
<1>7. /\ h \in START..MAX /\ h + 20 <= t /\ h = Edge(n - 1) /\ t \in Nat
      /\ Tag(mem, h) = BlockTag(t - h) /\ Tag(mem, t - 8) = Footer(h)
      /\ live[n].at - HDR = h
  BY <1>2, <1>3, <1>4, <1>5, <1>6, NewestFact
<1>8. t + 20 <= START + MIN /\ START + MIN <= end
  BY <1>2, <1>5, StackedTop
<1> DEFINE e == START + MIN
<1>9. /\ START \in Nat /\ MAX \in Nat /\ MIN \in Nat /\ HDR = 12 /\ FTR = 8
      /\ end \in Nat /\ end <= MAX /\ h \in Nat /\ START <= h /\ e \in Nat /\ e <= end /\ h + 40 <= e
      /\ e \in START..MAX
  <2>1. /\ START \in Nat /\ MAX \in Nat /\ MIN \in Nat /\ HDR = 12 /\ FTR = 8
        /\ end \in Nat /\ end <= MAX /\ h \in Nat /\ START <= h
    BY <1>7, EdgeFact, Sizes DEF IInv, StateInv
  <2>2. e \in Nat /\ e <= end /\ h + 40 <= e
    BY <1>7, <1>8, <2>1
  <2>3. e \in START..MAX
    BY <1>8, <2>1, <2>2
  <2> QED
    BY <2>1, <2>2, <2>3
<1>10. PICK m1, m2 :
         /\ Freed(live[n].at - HDR) = Locals(m1, index, end, frame, h, t - 8, t)
         /\ UnifyLeft(Freed(live[n].at - HDR)) = Locals(m1, index, end, frame, h, t - 8, t)
         /\ RightIsHole(Locals(m1, index, end, frame, h, t - 8, t))
         /\ Place(index, t) = 1
         /\ UnifyRight(Locals(m1, index, end, frame, h, t - 8, t))
              = Locals(m2, << >>, end, frame, h, end - 8, t)
         /\ Tagged(m2) /\ Writes(mem, m2, h, START + MIN) /\ Tag(m2, h) = HoleTag(end - h)
  BY <1>2, <1>3, <1>4, <1>5, <1>6, Unified
<1>11. PICK s : s = Locals(m1, index, end, frame, h, t - 8, t)
  OBVIOUS
<1>12. PICK v : v = Locals(m2, << >>, end, frame, h, end - 8, t)
  OBVIOUS
<1>13. PICK m, g :
         /\ Contract(v) = Locals(m, << >>, START + MIN, g, h, end - 8, t)
         /\ Tagged(m) /\ Writes(mem, m, h, START + MIN) /\ Tag(m, h) = HoleTag((START + MIN) - h)
         /\ g \in [Pages -> {"none", "mapped", "freed"}]
         /\ \A p \in Pages : START + p * PAGE < START + MIN => g[p] = "mapped"
  BY <1>2, <1>3, <1>4, <1>5, <1>6, <1>10, <1>12, ContractFact
<1>14. PICK c : c = Locals(m, << >>, START + MIN, g, h, end - 8, t)
  OBVIOUS
<1>15. /\ s.footer = t - 8 /\ s.right = t /\ s.index = index
       /\ c.mem = m /\ c.index = << >> /\ c.end = e /\ c.frame = g /\ c.header = h /\ c.add
  <2>1. s.footer = t - 8 /\ s.right = t /\ s.index = index
    BY <1>11, LocalsFields
  <2>2. c.mem = m /\ c.index = << >> /\ c.end = START + MIN /\ c.frame = g /\ c.header = h /\ c.add
    BY <1>14, LocalsFields
  <2> QED
    BY <2>1, <2>2
<1>16. /\ Freed(live[k].at - HDR) = s /\ UnifyLeft(s) = s /\ UnifyRight(s) = v /\ Contract(v) = c
       /\ RightIsHole(s)
  BY <1>6, <1>10, <1>11, <1>12, <1>13, <1>14
<1>17. IsHeader(mem, live[k].at - HDR) /\ IsFooter(mem, s.footer)
  <2>1. Tag(mem, h).kind = "header"
    <3>1. BlockTag(t - h).kind = "header"
      BY TagFact
    <3> QED
      BY <1>7, <3>1
  <2>2. Tag(mem, t - 8).kind = "footer"
    <3>1. Footer(h).kind = "footer"
      BY <1>9, FooterFact
    <3> QED
      BY <1>7, <3>1
  <2> QED
    BY <1>6, <1>7, <1>15, <2>1, <2>2 DEF IsHeader, IsFooter
<1>18. Present(frame, s.right)
  <2>1. t \in START..(end - 1)
    BY <1>7, <1>8, <1>9
  <2> QED
    BY <1>15, <2>1, HeapPresent
<1>19. Place(s.index, s.right) # 0
  BY <1>10, <1>15
<1>20. ~Faults(m, g)
  <2>1. ASSUME NEW a \in h..(e - 1) PROVE Present(g, a)
    <3>1. a \in START..(e - 1)
      BY <1>9
    <3>2. \A p \in Pages : START + p * PAGE < e => g[p] = "mapped"
      BY <1>13
    <3> HIDE DEF e
    <3> QED
      BY <1>9, <3>1, <3>2, MappedPresent
  <2>2. Tagged(m) /\ Writes(mem, m, h, e)
    BY <1>13
  <2> HIDE DEF e
  <2> QED
    BY <1>9, <2>1, <2>2, NoFault
<1>21. Filed(c) = <<h>>
  BY <1>15, OneFiled DEF Filed, Indexed
<1>22. /\ mem' = m /\ end' = e /\ frame' = g /\ index' = <<h>> /\ live' = RemoveAt(live, k)
       /\ UNCHANGED <<call, halted, program>>
  <2>1. /\ mem' = c.mem /\ end' = c.end /\ frame' = c.frame /\ index' = Filed(c)
        /\ live' = RemoveAt(live, k) /\ UNCHANGED <<call, halted, program>>
    <3> HIDE DEF e
    <3>1. ~Faults(c.mem, c.frame)
      BY <1>15, <1>20
    <3> QED
      BY <1>16, <1>17, <1>18, <1>19, <3>1 DEF Free
  <2> QED
    BY <1>15, <1>21, <2>1
<1> HIDE DEF e
<1>23. PICK j \in Nat : j = n - 1
  BY <1>6
<1>24. /\ live' \in Seq([at: Int, size: Int]) /\ Len(live') = j
       /\ \A i \in 1..j : live'[i] = live[i]
  <2>1. live \in Seq([at: Int, size: Int]) /\ n \in 1..Len(live)
    BY <1>3, <1>6 DEF IInv, StateInv
  <2>2. /\ RemoveAt(live, n) \in Seq([at: Int, size: Int]) /\ Len(RemoveAt(live, n)) = Len(live) - 1
        /\ \A i \in 1..(Len(live) - 1) : RemoveAt(live, n)[i] = IF i < n THEN live[i] ELSE live[i + 1]
    BY <2>1, LeftOut
  <2>3. live' = RemoveAt(live, n) /\ Len(live) - 1 = j /\ n = j + 1
    BY <1>3, <1>6, <1>22, <1>23
  <2>4. ASSUME NEW i \in 1..j PROVE live'[i] = live[i]
    BY <2>2, <2>3
  <2> QED
    BY <2>2, <2>3, <2>4
<1>25. /\ \A i \in 1..j : After(i) <= h
       /\ j \in 0..Len(live) /\ Edge(j) = h
  <2>1. Edge(j) = h /\ j \in 0..Len(live) /\ n \in 1..Len(live)
    BY <1>3, <1>6, <1>7, <1>23
  <2>2. ASSUME NEW i \in 1..j PROVE After(i) <= h
    <3>1. i \in 1..Len(live) /\ i < n
      BY <1>3, <1>23
    <3>2. After(i) <= At(n)
      BY <2>1, <3>1 DEF IInv, BlockInv
    <3> QED
      BY <1>4, <3>2
  <2> QED
    BY <2>1, <2>2
<1>26. Tagged(mem') /\ Writes(mem, mem', h, e) /\ Tag(mem', h) = HoleTag(e - h)
  BY <1>13, <1>22 DEF e
<1>27. BlockInv' /\ Top' = h
  <2>1. end' \in Nat /\ h <= end'
    BY <1>9, <1>22
  <2>2. \A i \in 1..j : live'[i] = live[i] /\ After(i) <= h
    BY <1>24, <1>25
  <2>3. BlockInv' /\ Top' = Edge(j)
    BY <1>9, <1>24, <1>25, <1>26, <2>1, <2>2, SameBlocks
  <2> QED
    BY <1>25, <2>3
<1>28. \A i \in 0..j : Edge(i)' = Edge(i)
  <2>1. \A i \in 1..j : live'[i] = live[i] /\ After(i) <= h
    BY <1>24, <1>25
  <2> QED
    BY <1>9, <1>25, <1>26, <2>1, OldBlocks
<1>29. HoleInv'
  <2>1. h # e /\ h + 20 <= e
    BY <1>9
  <2> QED
    BY <1>22, <1>26, <1>27, <2>1 DEF HoleInv, HoleTag
<1>30. StateInv'
  <2>1. program \in Programs /\ program.most \in Nat /\ n <= program.most
    BY <1>3, SizeAssumption DEF IInv, StateInv
  <2>2. Len(live') <= program.most
    BY <1>23, <1>24, <2>1
  <2>3. g \in [Pages -> {"none", "mapped", "freed"}]
    BY <1>13
  <2> QED
    BY <1>1, <1>9, <1>22, <1>24, <2>1, <2>2, <2>3 DEF IInv, StateInv
<1>31. PlaceInv'
  <2>1. Stacked(program') /\ Bound' = Bound
    BY <1>2, <1>22 DEF Stacked, Bound, Enough
  <2>2. end' - START = MIN
    BY <1>9, <1>22 DEF e
  <2>3. ASSUME NEW i \in 0..Len(live') PROVE Edge(i)' - START <= i * Bound'
    <3>1. i \in 0..j /\ i \in 0..Len(live)
      BY <1>3, <1>23, <1>24
    <3>2. Edge(i) - START <= i * Bound
      BY <1>2, <3>1 DEF IInv, PlaceInv
    <3> QED
      BY <1>28, <2>1, <3>1, <3>2
  <2> QED
    BY <2>1, <2>2, <2>3 DEF PlaceInv
<1>32. HeapMapped'
  BY <1>13, <1>22 DEF HeapMapped, e
<1>33. IInv'
  BY <1>26, <1>27, <1>29, <1>30, <1>31, <1>32 DEF IInv
<1> QED
  BY <1>2, <1>6, <1>23, <1>24, <1>33

----------------------------------------------------------------------------
(* The invariant is one. *)

LEMMA CallInv ==
  ASSUME IInv, NEW c \in program.calls, Call(c)
  PROVE  IInv' /\ live' = live
<1>1. /\ halted = "no" /\ Len(live) < program.most /\ call' = c
      /\ UNCHANGED <<mem, index, end, frame, live, halted, program>>
  BY DEF Call
<1>2. StateInv'
  BY <1>1 DEF IInv, StateInv
<1>3. Tagged(mem') /\ BlockInv' /\ HoleInv' /\ HeapMapped'
  BY <1>1 DEF IInv, BlockInv, HoleInv, HeapMapped, At, After, Edge, Top, Size
<1>4. PlaceInv'
  BY <1>1 DEF IInv, PlaceInv, Stacked, Bound, Enough, At, After, Edge, Size
<1> QED
  BY <1>1, <1>2, <1>3, <1>4 DEF IInv

LEMMA StutterInv ==
  ASSUME IInv, UNCHANGED vars
  PROVE  IInv'
<1>1. UNCHANGED <<mem, index, end, frame, live, call, halted, program>>
  BY DEF vars
<1>2. StateInv'
  BY <1>1 DEF IInv, StateInv
<1>3. Tagged(mem') /\ BlockInv' /\ HoleInv' /\ HeapMapped'
  BY <1>1 DEF IInv, BlockInv, HoleInv, HeapMapped, At, After, Edge, Top, Size
<1>4. PlaceInv'
  BY <1>1 DEF IInv, PlaceInv, Stacked, Bound, Enough, At, After, Edge, Size
<1> QED
  BY <1>2, <1>3, <1>4 DEF IInv

\* The inductive invariant holds for every program that the heap serves.
THEOREM HeapInvariant ==
  ASSUME \A p \in Programs : Served(p)
  PROVE  Spec => []IInv
<1>1. Init => IInv
  BY InitInv
<1>2. IInv /\ [Next]_vars => IInv'
  <2> SUFFICES ASSUME IInv, [Next]_vars PROVE IInv'
    OBVIOUS
  <2>1. Served(program)
    BY DEF IInv, StateInv
  <2>2. ASSUME NEW c \in program.calls, Call(c) PROVE IInv'
    BY <2>2, CallInv
  <2>3. CASE Alloc
    BY <2>1, <2>3, AllocInv
  <2>4. CASE Expand
    BY <2>1, <2>4, ExpandInv
  <2>5. ASSUME NEW k \in 1..program.most, Free(k) PROVE IInv'
    BY <2>1, <2>5, FreeInv
  <2>6. CASE UNCHANGED vars
    BY <2>6, StutterInv
  <2> QED
    BY <2>2, <2>3, <2>4, <2>5, <2>6 DEF Next
<1> QED
  BY <1>1, <1>2, PTL DEF Spec

----------------------------------------------------------------------------
(* What it is for. *)

\* Every variable of the heap holds what its C variable can, and the index
\* never needs more room than there are gaps between the blocks.
THEOREM HeapTypes ==
  ASSUME \A p \in Programs : Served(p)
  PROVE  Spec => []TypeOK
<1>1. IInv => TypeOK
  <2> SUFFICES ASSUME IInv PROVE TypeOK
    OBVIOUS
  <2>1. program \in Programs /\ program.most \in Nat
    BY SizeAssumption DEF IInv, StateInv
  <2>2. /\ DOMAIN mem \subseteq 0..(WORD - 1)
        /\ \A a \in DOMAIN mem : mem[a].kind \in {"header", "footer"} /\ mem[a].size \in 0..(WORD - 1)
    <3>1. \A a \in START..MAX : a \in 0..(WORD - 1)
      BY Sizes
    <3> QED
      BY <3>1 DEF IInv, Tagged, Tags
  <2>3. index \in Seq(0..(WORD - 1)) /\ Len(index) <= program.most + 1
    <3>1. CASE index = << >>
      BY <2>1, <3>1
    <3>2. CASE index # << >>
      <4>1. PICK t : t = Top
        OBVIOUS
      <4>2. index = <<t>>
        BY <3>2, <4>1 DEF IInv, HoleInv
      <4>3. t \in START..end
        BY <4>1, EdgeFact
      <4>4. end \in Nat /\ end <= MAX
        BY Sizes DEF IInv, StateInv
      <4>5. t \in 0..(WORD - 1)
        BY <4>3, <4>4, Sizes
      <4> QED
        BY <2>1, <4>2, <4>5
    <3> QED
      BY <3>1, <3>2
  <2> QED
    BY <2>1, <2>2, <2>3 DEF IInv, StateInv, TypeOK
<1> QED
  BY <1>1, HeapInvariant, PTL

\* A set whose elements are numbered from 1 to n has n of them.
LEMMA Numbered ==
  ASSUME NEW S, NEW n \in Nat, NEW f \in [1..n -> S], S = {f[k] : k \in 1..n},
         \A j, k \in 1..n : j # k => f[j] # f[k]
  PROVE  IsFiniteSet(S) /\ Cardinality(S) = n
<1>1. IsFiniteSet(1..n) /\ Cardinality(1..n) = n
  BY FS_Interval
<1>2. f \in Bijection(1..n, S)
  BY DEF Bijection, Injection, Surjection, IsInjective
<1>3. ExistsBijection(1..n, S)
  BY <1>2 DEF ExistsBijection
<1> QED
  BY <1>1, <1>3, FS_Bijection

\* The blocks, in order, and the hole behind them.
LEMMA LayoutFact ==
  ASSUME IInv, NEW n \in Nat, n = Len(live), NEW t, t = Top
  PROVE  /\ Blocks = {At(k) : k \in 1..n}
         /\ Holes = IF t = end THEN {} ELSE {t}
         /\ \A k \in 1..n : At(k) \in Nat /\ At(k) < t /\ At(k) + Size(At(k)) = After(k) /\ After(k) \in Nat
         /\ \A j, k \in 1..n : j < k => At(j) < After(j) /\ After(j) <= At(k)
         /\ t # end => Size(t) = end - t
         /\ t \in Nat /\ end \in Nat /\ t <= end
<1>1. Blocks = {At(k) : k \in 1..n}
  BY DEF Blocks, At
<1>2. t \in Nat /\ end \in Nat /\ t <= end
  BY EdgeFact, Sizes
<1>3. Holes = IF t = end THEN {} ELSE {t}
  <2>1. CASE t = end
    <3>1. index = << >>
      BY <2>1 DEF IInv, HoleInv
    <3> QED
      BY <2>1, <3>1 DEF Holes
  <2>2. CASE t # end
    <3>1. index = <<t>>
      BY <2>2 DEF IInv, HoleInv
    <3>2. Len(index) = 1 /\ index[1] = t
      BY <3>1
    <3> QED
      BY <2>2, <3>2 DEF Holes
  <2> QED
    BY <2>1, <2>2
<1>4. ASSUME NEW k \in 1..n
      PROVE  At(k) \in Nat /\ At(k) < t /\ At(k) + Size(At(k)) = After(k) /\ After(k) \in Nat /\ At(k) < After(k)
  <2>1. /\ At(k) \in Nat /\ After(k) \in Nat /\ At(k) + 20 <= After(k) /\ After(k) <= t
    BY EdgeFact
  <2>2. At(k) + Size(At(k)) = After(k)
    BY DEF After
  <2> QED
    BY <1>2, <2>1, <2>2
<1>5. \A j, k \in 1..n : j < k => After(j) <= At(k)
  BY DEF IInv, BlockInv
<1>6. t # end => Size(t) = end - t
  <2>1. t # end => Tag(mem, t) = HoleTag(end - t)
    BY DEF IInv, HoleInv, HoleTag
  <2> QED
    BY <2>1, TagFact DEF Size
<1> QED
  BY <1>1, <1>2, <1>3, <1>4, <1>5, <1>6

\* An address with a header's tag.
LEMMA TaggedFact ==
  ASSUME NEW a, NEW size
  PROVE  /\ Tag(mem, a) = HoleTag(size) => IsHeader(mem, a) /\ mem[a] = HoleTag(size)
         /\ Tag(mem, a) = BlockTag(size) => IsHeader(mem, a) /\ mem[a] = BlockTag(size)
<1>1. Nothing.kind = "none"
  BY DEF Nothing
<1>2. HoleTag(size).kind = "header" /\ BlockTag(size).kind = "header"
  BY TagFact
<1> QED
  BY <1>1, <1>2 DEF IsHeader, Tag

\* The holes and the blocks lie one behind the other, from the start of the
\* heap to its end.
THEOREM HeapTiled ==
  ASSUME \A p \in Programs : Served(p)
  PROVE  Spec => []Tiled
<1>1. IInv => Tiled
  <2> SUFFICES ASSUME IInv PROVE Tiled
    OBVIOUS
  <2>1. PICK n \in Nat : n = Len(live)
    BY EdgeFact
  <2>2. PICK t : t = Top
    OBVIOUS
  <2>3. /\ Blocks = {At(k) : k \in 1..n}
        /\ Holes = IF t = end THEN {} ELSE {t}
        /\ \A k \in 1..n : At(k) \in Nat /\ At(k) < t /\ At(k) + Size(At(k)) = After(k) /\ After(k) \in Nat
        /\ \A j, k \in 1..n : j < k => At(j) < After(j) /\ After(j) <= At(k)
        /\ t # end => Size(t) = end - t
        /\ t \in Nat /\ end \in Nat /\ t <= end
    BY <2>1, <2>2, LayoutFact
  <2>4. t \notin Blocks /\ Holes \cap Blocks = {}
    BY <2>3
  <2>5. IsFiniteSet(Blocks) /\ Cardinality(Blocks) = n
    <3> DEFINE f == [k \in 1..n |-> At(k)]
    <3>1. f \in [1..n -> Blocks] /\ Blocks = {f[k] : k \in 1..n}
      BY <2>3
    <3>2. ASSUME NEW j \in 1..n, NEW k \in 1..n, j # k PROVE At(j) # At(k)
      <4>1. j < k \/ k < j
        BY <2>1, <3>2
      <4> QED
        BY <2>3, <4>1
    <3>3. \A j, k \in 1..n : j # k => f[j] # f[k]
      BY <3>2
    <3> HIDE DEF f
    <3> QED
      BY <3>1, <3>3, Numbered
  <2>6. Cardinality(Starts) = Len(index) + Len(live)
    <3>1. CASE t = end
      <4>1. index = << >> /\ Starts = Blocks
        BY <2>2, <2>3, <3>1 DEF IInv, HoleInv, Starts
      <4> QED
        BY <2>1, <2>5, <4>1
    <3>2. CASE t # end
      <4>1. index = <<t>> /\ Starts = Blocks \cup {t}
        BY <2>2, <2>3, <3>2 DEF IInv, HoleInv, Starts
      <4>2. Cardinality(Blocks \cup {t}) = n + 1
        BY <2>4, <2>5, FS_AddElement
      <4> QED
        BY <2>1, <4>1, <4>2
    <3> QED
      BY <3>1, <3>2
  <2>7. \A k \in 1..n : After(k) = IF k = n THEN t ELSE At(k + 1)
    <3> SUFFICES ASSUME NEW k \in 1..n PROVE After(k) = IF k = n THEN t ELSE At(k + 1)
      OBVIOUS
    <3>1. CASE k = n
      BY <2>1, <2>2, <3>1 DEF Top, Edge
    <3>2. CASE k # n
      <4>1. k + 1 \in 1..n /\ k # 0 /\ (k + 1) - 1 = k
        BY <2>1, <3>2
      <4>2. At(k + 1) = Edge((k + 1) - 1)
        BY <2>1, <4>1 DEF IInv, BlockInv
      <4> QED
        BY <3>2, <4>1, <4>2 DEF Edge
    <3> QED
      BY <3>1, <3>2
  <2>8. t \in Starts \cup {end}
    BY <2>3 DEF Starts
  <2>9. START \in Starts \cup {end}
    <3>1. CASE n = 0
      BY <2>1, <2>2, <2>8, <3>1 DEF Top, Edge
    <3>2. CASE n # 0
      <4>1. 1 \in 1..n /\ At(1) = Edge(1 - 1) /\ 1 - 1 = 0
        BY <2>1, <3>2 DEF IInv, BlockInv
      <4> QED
        BY <2>3, <4>1 DEF Edge, Starts
    <3> QED
      BY <3>1, <3>2
  <2>10. ASSUME NEW a \in Holes
         PROVE  /\ IsHeader(mem, a) /\ mem[a].hole = (a \in Holes)
                /\ a + Size(a) \in Starts \cup {end}
                /\ \A b \in Starts : b <= a \/ a + Size(a) <= b
    <3>1. a = t /\ t # end
      BY <2>3
    <3>2. Tag(mem, t) = HoleTag(end - t)
      BY <2>2, <3>1 DEF IInv, HoleInv, HoleTag
    <3>3. IsHeader(mem, t) /\ mem[t] = HoleTag(end - t)
      BY <3>2, TaggedFact
    <3>4. mem[t].hole = (t \in Holes)
      <4>1. mem[t].hole = TRUE
        BY <3>3, TagFact, Zenon
      <4>2. (t \in Holes) = TRUE
        BY <3>1
      <4> QED
        BY <4>1, <4>2, Zenon
    <3>5. t + Size(t) = end
      BY <2>3, <3>1
    <3>6. \A b \in Starts : b <= t
      BY <2>3 DEF Starts
    <3> QED
      BY <3>1, <3>3, <3>4, <3>5, <3>6
  <2>11. ASSUME NEW a \in Blocks
         PROVE  /\ IsHeader(mem, a) /\ mem[a].hole = (a \in Holes)
                /\ a + Size(a) \in Starts \cup {end}
                /\ \A b \in Starts : b <= a \/ a + Size(a) <= b
    <3>1. PICK k \in 1..n : a = At(k)
      BY <2>3
    <3>2. Tag(mem, a) = BlockTag(Size(a))
      BY <2>1, <3>1 DEF IInv, BlockInv
    <3>3. IsHeader(mem, a) /\ mem[a] = BlockTag(Size(a))
      BY <3>2, TaggedFact
    <3>4. mem[a].hole = (a \in Holes)
      <4>1. mem[a].hole = FALSE
        BY <3>3, TagFact, Zenon
      <4>2. (a \in Holes) = FALSE
        BY <2>4
      <4> QED
        BY <4>1, <4>2, Zenon
    <3>5. IsHeader(mem, a) /\ mem[a].hole = (a \in Holes)
      BY <3>3, <3>4, Zenon
    <3>6. a + Size(a) = After(k)
      BY <2>3, <3>1
    <3>7. After(k) \in Starts \cup {end}
      BY <2>1, <2>3, <2>7, <2>8 DEF Starts
    <3>8. After(k) <= t
      BY <2>1, <2>2, EdgeFact
    <3>9. ASSUME NEW j \in 1..n PROVE At(j) <= a \/ After(k) <= At(j)
      <4>1. j = k \/ j < k \/ k < j
        BY <2>1
      <4>2. j < k => At(j) <= a
        BY <2>3, <3>1
      <4> QED
        BY <2>3, <3>1, <4>1, <4>2
    <3>10. \A b \in Starts : b <= a \/ After(k) <= b
      BY <2>3, <3>8, <3>9 DEF Starts
    <3> QED
      BY <3>5, <3>6, <3>7, <3>10, Zenon
  <2> QED
    BY <2>4, <2>6, <2>9, <2>10, <2>11 DEF Tiled, Starts
<1> QED
  BY <1>1, HeapInvariant, PTL

\* Whatever has a neighbour on its right has a footer that points to its
\* header, so that unifying left finds it.
THEOREM HeapFooters ==
  ASSUME \A p \in Programs : Served(p)
  PROVE  Spec => []FootersPointBack
<1>1. IInv => FootersPointBack
  <2> SUFFICES ASSUME IInv, NEW a \in Starts, a + Size(a) # end
               PROVE  Tag(mem, a + Size(a) - FTR) = Footer(a)
    BY DEF FootersPointBack
  <2>1. PICK n \in Nat : n = Len(live)
    BY EdgeFact
  <2>2. PICK t : t = Top
    OBVIOUS
  <2>3. /\ Blocks = {At(k) : k \in 1..n}
        /\ Holes = IF t = end THEN {} ELSE {t}
        /\ \A k \in 1..n : At(k) + Size(At(k)) = After(k)
        /\ t # end => Size(t) = end - t
        /\ t \in Nat /\ end \in Nat
    BY <2>1, <2>2, LayoutFact
  <2>4. a \notin Holes
    BY <2>3
  <2>5. PICK k \in 1..n : a = At(k)
    BY <2>3, <2>4 DEF Starts
  <2>6. Tag(mem, After(k) - FTR) = Footer(At(k))
    BY <2>1 DEF IInv, BlockInv
  <2>7. At(k) \in Nat /\ Size(At(k)) \in Nat /\ FTR = 8
    BY <2>1, EdgeFact, Sizes
  <2> QED
    BY <2>3, <2>5, <2>6, <2>7
<1> QED
  BY <1>1, HeapInvariant, PTL

\* No two holes are neighbours: what free gives back joins what is free already.
THEOREM HeapCoalesced ==
  ASSUME \A p \in Programs : Served(p)
  PROVE  Spec => []Coalesced
<1>1. IInv => Coalesced
  <2> SUFFICES ASSUME IInv, NEW a \in Holes, NEW b \in Holes
               PROVE  a + Size(a) # b
    BY DEF Coalesced
  <2>1. PICK n \in Nat : n = Len(live)
    BY EdgeFact
  <2>2. PICK t : t = Top
    OBVIOUS
  <2>3. /\ Holes = IF t = end THEN {} ELSE {t}
        /\ t # end => Size(t) = end - t
        /\ t \in Nat /\ end \in Nat
    BY <2>1, <2>2, LayoutFact
  <2> QED
    BY <2>3
<1> QED
  BY <1>1, HeapInvariant, PTL

\* Every page of the heap has a frame, however it grew and shrank.
THEOREM HeapAllMapped ==
  ASSUME \A p \in Programs : Served(p)
  PROVE  Spec => []HeapMapped
<1>1. IInv => HeapMapped
  BY DEF IInv
<1> QED
  BY <1>1, HeapInvariant, PTL

\* No ASSERT of the heap fails and none of its writes faults.
THEOREM HeapNeverHalts ==
  ASSUME \A p \in Programs : Served(p)
  PROVE  Spec => []NeverHalts
<1>1. IInv => NeverHalts
  BY DEF IInv, StateInv, NeverHalts
<1> QED
  BY <1>1, HeapInvariant, PTL

\* The regions in use, as Allocator sees them.
Regions == {[at |-> live[k].at, size |-> live[k].size] : k \in 1..Len(live)}

LEMMA RecordFact ==
  ASSUME NEW s \in Seq([at: Int, size: Int])
  PROVE  \A k \in 1..Len(s) : [at |-> s[k].at, size |-> s[k].size] = s[k]
<1> SUFFICES ASSUME NEW k \in 1..Len(s) PROVE [at |-> s[k].at, size |-> s[k].size] = s[k]
  OBVIOUS
<1>1. s[k] \in [at: Int, size: Int]
  BY ElementOfSeq
<1> QED
  BY <1>1

\* They are numbered like the blocks, lie apart, and end before the top.
LEMMA RegionFact ==
  ASSUME IInv
  PROVE  /\ Regions = {live[k] : k \in 1..Len(live)}
         /\ \A k \in 1..Len(live) : /\ live[k].at \in Nat /\ live[k].size \in Nat
                                    /\ live[k].at + live[k].size <= Top
         /\ \A j, k \in 1..Len(live) : j < k => live[j].at < live[k].at
<1>1. \A k \in 1..Len(live) : [at |-> live[k].at, size |-> live[k].size] = live[k]
  BY RecordFact DEF IInv, StateInv
<1>2. ASSUME NEW k \in 1..Len(live)
      PROVE  /\ live[k].at \in Nat /\ live[k].size \in Nat
             /\ live[k].at + live[k].size <= Top
  <2>1. /\ At(k) \in Nat /\ Size(At(k)) \in Nat /\ After(k) <= Top /\ live[k].at = At(k) + 12
    BY EdgeFact
  <2>4. Top \in Nat
    BY EdgeFact, Sizes
  <2>2. live[k].size \in Nat /\ live[k].size + 20 <= Size(At(k))
    BY DEF IInv, BlockInv
  <2>3. After(k) = At(k) + Size(At(k))
    BY DEF After
  <2> QED
    BY <2>1, <2>2, <2>3, <2>4
<1>3. ASSUME NEW j \in 1..Len(live), NEW k \in 1..Len(live), j < k
      PROVE  live[j].at < live[k].at
  <2>1. /\ At(j) \in Nat /\ At(k) \in Nat /\ After(j) \in Nat /\ At(j) + 20 <= After(j)
        /\ live[j].at = At(j) + 12 /\ live[k].at = At(k) + 12
    BY EdgeFact
  <2>2. After(j) <= At(k)
    BY <1>3 DEF IInv, BlockInv
  <2> QED
    BY <2>1, <2>2
<1> QED
  BY <1>1, <1>2, <1>3 DEF Regions

\* alloc hands out a region that is clear of the others.
LEMMA AllocTakes ==
  ASSUME IInv, IInv', Served(program), Alloc
  PROVE  Abstract!Next
<1>1. PICK z \in Nat : live' = Append(live, [at |-> Top + 12, size |-> z]) /\ Top + 20 + z <= end
  BY AllocInv
<1>2. PICK n \in Nat : n = Len(live)
  BY EdgeFact
<1>3. PICK t \in Nat : t = Top /\ START <= t
  BY EdgeFact, Sizes
<1> DEFINE r == [at |-> t + 12, size |-> z]
<1>4. r.at = t + 12 /\ r.size = z
  OBVIOUS
<1>5. PICK old : old = Regions
  OBVIOUS
<1>6. PICK new : new = Regions'
  OBVIOUS
<1>7. old = {live[k] : k \in 1..n}
  BY <1>2, <1>5, RegionFact
<1>8. new = old \cup {r}
  <2>1. live' = Append(live, r)
    BY <1>1, <1>3
  <2>2. live \in Seq([at: Int, size: Int]) /\ r \in [at: Int, size: Int]
    BY DEF IInv, StateInv
  <2> HIDE DEF r
  <2>3. Len(live') = n + 1 /\ live'[n + 1] = r /\ \A k \in 1..n : live'[k] = live[k]
    BY <1>2, <2>1, <2>2
  <2>4. Regions' = {live'[k] : k \in 1..Len(live')}
    <3>1. live' \in Seq([at: Int, size: Int])
      BY DEF IInv, StateInv
    <3>2. \A k \in 1..Len(live') : [at |-> live'[k].at, size |-> live'[k].size] = live'[k]
      BY <3>1, RecordFact
    <3> QED
      BY <3>2 DEF Regions
  <2>5. 1..(n + 1) = (1..n) \cup {n + 1}
    OBVIOUS
  <2> QED
    BY <1>6, <1>7, <2>3, <2>4, <2>5
<1> HIDE DEF r
<1>9. \A s \in old : s.at \in Nat /\ s.size \in Nat /\ s.at + s.size <= t
  BY <1>2, <1>3, <1>7, RegionFact
<1>10. r \notin old
  BY <1>4, <1>9
<1>11. START <= r.at /\ r.at + r.size <= MAX
  <2>1. end \in Nat /\ end <= MAX
    BY Sizes DEF IInv, StateInv
  <2> QED
    BY <1>1, <1>3, <1>4, <2>1, Sizes
<1>12. \A s \in old : Abstract!Apart(r, s)
  BY <1>4, <1>9 DEF Abstract!Apart
<1>13. Abstract!Take(r)
  BY <1>5, <1>6, <1>8, <1>11, <1>12 DEF Abstract!Take, Regions
<1>14. r \in Regions' \ Regions
  BY <1>5, <1>6, <1>8, <1>10
<1> QED
  BY <1>13, <1>14 DEF Abstract!Next, Regions

\* free gives one back.
LEMMA FreeReleases ==
  ASSUME IInv, IInv', Served(program), NEW k, Free(k)
  PROVE  Abstract!Next
<1>1. k = Len(live) /\ k # 0 /\ Len(live') = k - 1 /\ \A j \in 1..(k - 1) : live'[j] = live[j]
  BY FreeInv
<1>2. k \in Nat /\ k \in 1..Len(live)
  BY <1>1, EdgeFact
<1>3. PICK r : r = live[k]
  OBVIOUS
<1>4. PICK old : old = Regions
  OBVIOUS
<1>5. PICK new : new = Regions'
  OBVIOUS
<1>6. old = {live[j] : j \in 1..k}
  BY <1>1, <1>4, RegionFact
<1>7. new = {live[j] : j \in 1..(k - 1)}
  <2>1. Regions' = {live'[j] : j \in 1..Len(live')}
    <3>1. live' \in Seq([at: Int, size: Int])
      BY DEF IInv, StateInv
    <3>2. \A j \in 1..Len(live') : [at |-> live'[j].at, size |-> live'[j].size] = live'[j]
      BY <3>1, RecordFact
    <3> QED
      BY <3>2 DEF Regions
  <2> QED
    BY <1>1, <1>5, <2>1
<1>8. \A j \in 1..(k - 1) : live[j] # r
  <2>1. \A j \in 1..(k - 1) : j \in 1..Len(live) /\ live[j].at < live[k].at
    BY <1>1, <1>2, RegionFact
  <2>2. \A j \in 1..Len(live) : live[j].at \in Nat
    BY RegionFact
  <2> QED
    BY <1>2, <1>3, <2>1, <2>2
<1>9. r \in old /\ new = old \ {r}
  <2>1. 1..k = (1..(k - 1)) \cup {k}
    BY <1>1, <1>2
  <2> QED
    BY <1>3, <1>6, <1>7, <1>8, <2>1
<1>10. Abstract!Release(r)
  BY <1>4, <1>5, <1>9 DEF Abstract!Release, Regions
<1> QED
  BY <1>4, <1>9, <1>10 DEF Abstract!Next, Regions

\* The heap implements Allocator: what alloc returns lies in the heap, overlaps
\* no other block and stays the program's until it frees it.
THEOREM HeapAllocates ==
  ASSUME \A p \in Programs : Served(p)
  PROVE  Spec => ImplementsAllocator
<1>1. Init => Abstract!Init
  <2> SUFFICES ASSUME Init PROVE Regions = {}
    BY DEF Abstract!Init, Regions
  <2>1. live = << >>
    BY DEF Init
  <2> QED
    BY <2>1 DEF Regions
<1>2. IInv /\ IInv' /\ [Next]_vars => Abstract!Next \/ UNCHANGED Regions
  <2> SUFFICES ASSUME IInv, IInv', [Next]_vars PROVE Abstract!Next \/ UNCHANGED Regions
    OBVIOUS
  <2>1. Served(program)
    BY DEF IInv, StateInv
  <2>2. live' = live => UNCHANGED Regions
    BY DEF Regions
  <2>3. ASSUME NEW c \in program.calls, Call(c) PROVE UNCHANGED Regions
    BY <2>2, <2>3, CallInv
  <2>4. CASE Alloc
    BY <2>1, <2>4, AllocTakes
  <2>5. CASE Expand
    BY <2>1, <2>2, <2>5, ExpandInv
  <2>6. ASSUME NEW k \in 1..program.most, Free(k) PROVE Abstract!Next
    BY <2>1, <2>6, FreeReleases
  <2>7. CASE UNCHANGED vars
    BY <2>2, <2>7 DEF vars
  <2> QED
    BY <2>3, <2>4, <2>5, <2>6, <2>7 DEF Next
<1>3. IInv /\ IInv' /\ [Next]_vars =>
        [Abstract!Next]_{[at |-> live[k].at, size |-> live[k].size] : k \in 1..Len(live)}
  BY <1>2 DEF Regions
<1> QED
  BY <1>1, <1>3, HeapInvariant, PTL DEF Spec, ImplementsAllocator, Abstract!Spec

=============================================================================
