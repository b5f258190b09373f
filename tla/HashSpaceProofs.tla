------------------------- MODULE HashSpaceProofs -------------------------
(***************************************************************************)
(* Facts about cmp that hold for keys of any length over any byte range,   *)
(* after the facts about loops and sequences that this module and the      *)
(* proofs about the other components need.                                 *)
(*                                                                         *)
(* Induction is stated on membership of a set and a recursive function by  *)
(* the functions its rounds apply, so that both can be cited by name for   *)
(* any formula: neither takes an operator.                                 *)
(***************************************************************************)
EXTENDS HashSpace, SequenceTheorems, WellFoundedInduction, TLAPS

-----------------------------------------------------------------------------
(* Loops and sequences                                                     *)

(* A nonempty set of naturals has a least element.                         *)
LEMMA LeastElement ==
  ASSUME NEW S \in SUBSET Nat, S # {}
  PROVE  \E i \in S : \A j \in S : i <= j
<1>1. PICK i \in S : \A j \in S : ~(<<j, i>> \in OpToRel(<, Nat))
  BY NatLessThanWellFounded, WFMin
<1>2. ASSUME NEW j \in S PROVE i <= j
  <2>1. i \in Nat /\ j \in Nat
    OBVIOUS
  <2>2. j < i => <<j, i>> \in OpToRel(<, Nat)
    BY <2>1, Zenon DEF OpToRel
  <2>3. ~(j < i)
    BY <1>1, <2>2, Zenon
  <2> QED
    BY <2>1, <2>3
<1> QED
  BY <1>2

(* Induction up to n, on membership of a set.                              *)
LEMMA UpTo ==
  ASSUME NEW n \in Nat, NEW S, 0 \in S,
         \A i \in 1..n : i - 1 \in S => i \in S
  PROVE  \A i \in 0..n : i \in S
<1> DEFINE Bad == {i \in 0..n : i \notin S}
<1>1. SUFFICES ASSUME Bad # {} PROVE FALSE
  OBVIOUS
<1>2. Bad \in SUBSET Nat
  OBVIOUS
<1>3. PICK i \in Bad : \A j \in Bad : i <= j
  BY <1>1, <1>2, LeastElement
<1>4. i # 0 /\ i \in 1..n /\ i - 1 \in 0..n
  BY <1>3
<1>5. i - 1 \in S
  BY <1>3, <1>4
<1> QED
  BY <1>3, <1>4, <1>5

(* A loop: f[i] is what i rounds make of the value `start`, where step[i]  *)
(* is the body of round i.                                                 *)
Runs(V, start, n, step) ==
    \E f \in [0..n -> V] : f[0] = start /\ \A i \in 1..n : f[i] = step[i][f[i - 1]]

LEMMA LoopExists ==
  ASSUME NEW V, NEW start \in V, NEW n \in Nat, NEW step \in [1..n -> [V -> V]]
  PROVE  Runs(V, start, n, step)
<1> DEFINE Makes(m, f) == /\ f \in [0..m -> V] /\ f[0] = start
                         /\ \A i \in 1..m : f[i] = step[i][f[i - 1]]
           S == {m \in 0..n : \E f : Makes(m, f)}
<1>1. 0 \in S
  <2>1. Makes(0, [i \in 0..0 |-> start]) /\ 0 \in 0..n
    OBVIOUS
  <2> HIDE DEF Makes
  <2> QED
    BY <2>1, Zenon
<1>2. ASSUME NEW m \in 1..n, m - 1 \in S PROVE m \in S
  <2>1. PICK f : Makes(m - 1, f)
    BY <1>2
  <2> DEFINE g == [i \in 0..m |-> IF i = m THEN step[m][f[m - 1]] ELSE f[i]]
  <2>2. f[m - 1] \in V
    BY <2>1
  <2>3. step[m][f[m - 1]] \in V
    BY <2>2
  <2>4. g \in [0..m -> V]
    BY <2>1, <2>3
  <2>5. g[0] = start /\ \A i \in 0..(m - 1) : g[i] = f[i]
    BY <2>1
  <2>6. ASSUME NEW i \in 1..m PROVE g[i] = step[i][g[i - 1]]
    <3>1. CASE i = m
      BY <3>1, <2>5
    <3>2. CASE i # m
      <4>1. i \in 1..(m - 1) /\ i \in 0..(m - 1) /\ i - 1 \in 0..(m - 1)
        BY <3>2
      <4>2. g[i] = f[i] /\ g[i - 1] = f[i - 1]
        BY <4>1, <2>5
      <4> HIDE DEF g
      <4> QED
        BY <4>1, <4>2, <2>1
    <3> QED
      BY <3>1, <3>2
  <2> HIDE DEF g
  <2>7. Makes(m, g) /\ m \in 0..n
    BY <2>4, <2>5, <2>6
  <2> HIDE DEF Makes
  <2> QED
    BY <2>7, Zenon
<1>3. n \in S
  <2>1. \A i \in 1..n : i - 1 \in S => i \in S
    BY <1>2
  <2> HIDE DEF S
  <2>2. \A i \in 0..n : i \in S
    BY <1>1, <2>1, UpTo
  <2> QED
    BY <2>2
<1> QED
  BY <1>3 DEF Runs

(* What an erase in the middle leaves, and an insert makes.                *)
LEMMA RemoveAtIs ==
  ASSUME NEW S, NEW s \in Seq(S), NEW i \in 1..Len(s)
  PROVE  /\ RemoveAt(s, i) \in Seq(S)
         /\ Len(RemoveAt(s, i)) = Len(s) - 1
         /\ \A j \in 1..(Len(s) - 1) : RemoveAt(s, i)[j] = IF j < i THEN s[j] ELSE s[j + 1]
<1> DEFINE a == SubSeq(s, 1, i - 1)  b == SubSeq(s, i + 1, Len(s))
<1>1. a \in Seq(S) /\ Len(a) = i - 1 /\ \A j \in 1..(i - 1) : a[j] = s[j]
  BY SubSeqProperties
<1>2. b \in Seq(S) /\ Len(b) = Len(s) - i /\ \A j \in 1..(Len(s) - i) : b[j] = s[i + j]
  BY SubSeqProperties
<1> HIDE DEF a, b
<1>3. a \o b \in Seq(S) /\ Len(a \o b) = Len(a) + Len(b)
      /\ \A j \in 1..(Len(a) + Len(b)) : (a \o b)[j] = IF j <= Len(a) THEN a[j] ELSE b[j - Len(a)]
  BY <1>1, <1>2, ConcatProperties
<1>4. RemoveAt(s, i) = a \o b
  BY DEF RemoveAt, a, b
<1> DEFINE c == a \o b
<1> HIDE DEF c
<1>5. ASSUME NEW j \in 1..(Len(s) - 1)
      PROVE  c[j] = IF j < i THEN s[j] ELSE s[j + 1]
  <2>1. CASE j < i
    BY <2>1, <1>1, <1>2, <1>3 DEF c
  <2>2. CASE ~(j < i)
    <3>1. j - (i - 1) \in 1..(Len(s) - i)
      BY <2>2
    <3>2. b[j - (i - 1)] = s[i + (j - (i - 1))]
      BY <3>1, <1>2
    <3> QED
      BY <2>2, <3>1, <3>2, <1>1, <1>2, <1>3 DEF c
  <2> QED
    BY <2>1, <2>2
<1>6. c \in Seq(S) /\ Len(c) = Len(s) - 1
  BY <1>1, <1>2, <1>3 DEF c
<1> QED
  BY <1>4, <1>5, <1>6 DEF c

LEMMA InsertAtIs ==
  ASSUME NEW S, NEW s \in Seq(S), NEW i \in 1..(Len(s) + 1), NEW e \in S
  PROVE  /\ InsertAt(s, i, e) \in Seq(S)
         /\ Len(InsertAt(s, i, e)) = Len(s) + 1
         /\ \A j \in 1..(Len(s) + 1) :
               InsertAt(s, i, e)[j] = IF j < i THEN s[j] ELSE IF j = i THEN e ELSE s[j - 1]
<1> DEFINE a == SubSeq(s, 1, i - 1)  b == SubSeq(s, i, Len(s))  d == <<e>>
<1>1. a \in Seq(S) /\ Len(a) = i - 1 /\ \A j \in 1..(i - 1) : a[j] = s[j]
  BY SubSeqProperties
<1>2. b \in Seq(S) /\ Len(b) = Len(s) - i + 1
      /\ \A j \in 1..(Len(s) - i + 1) : b[j] = s[i + j - 1]
  BY SubSeqProperties
<1>3. d \in Seq(S) /\ Len(d) = 1 /\ d[1] = e
  OBVIOUS
<1> HIDE DEF a, b, d
<1>4. a \o d \in Seq(S) /\ Len(a \o d) = Len(a) + Len(d)
      /\ \A j \in 1..(Len(a) + Len(d)) : (a \o d)[j] = IF j <= Len(a) THEN a[j] ELSE d[j - Len(a)]
  BY <1>1, <1>3, ConcatProperties
<1> DEFINE ad == a \o d
<1>5. ad \in Seq(S) /\ Len(ad) = i /\ \A j \in 1..i : ad[j] = IF j < i THEN s[j] ELSE e
  BY <1>1, <1>3, <1>4
<1> HIDE DEF ad
<1>6. ad \o b \in Seq(S) /\ Len(ad \o b) = Len(ad) + Len(b)
      /\ \A j \in 1..(Len(ad) + Len(b)) : (ad \o b)[j] = IF j <= Len(ad) THEN ad[j] ELSE b[j - Len(ad)]
  BY <1>2, <1>5, ConcatProperties
<1>7. InsertAt(s, i, e) = ad \o b
  BY DEF InsertAt, ad, a, b, d
<1> DEFINE c == ad \o b
<1> HIDE DEF c
<1>8. ASSUME NEW j \in 1..(Len(s) + 1)
      PROVE  c[j] = IF j < i THEN s[j] ELSE IF j = i THEN e ELSE s[j - 1]
  <2>1. CASE j <= i
    BY <2>1, <1>2, <1>5, <1>6 DEF c
  <2>2. CASE ~(j <= i)
    <3>1. j - i \in 1..(Len(s) - i + 1)
      BY <2>2
    <3>2. b[j - i] = s[i + (j - i) - 1]
      BY <3>1, <1>2
    <3> QED
      BY <2>2, <3>1, <3>2, <1>2, <1>5, <1>6 DEF c
  <2> QED
    BY <2>1, <2>2
<1>9. c \in Seq(S) /\ Len(c) = Len(s) + 1
  BY <1>2, <1>5, <1>6 DEF c
<1> QED
  BY <1>7, <1>8, <1>9 DEF c

(* r is s without its place i.                                             *)
Without(s, r, i) ==
    /\ i \in 1..Len(s)
    /\ \E g \in [1..Len(r) -> 1..Len(s)] :
          /\ \A j, k \in 1..Len(r) : j < k => g[j] < g[k]
          /\ \A j \in 1..Len(r) : g[j] # i /\ r[j] = s[g[j]]
          /\ \A k \in 1..Len(s) : k # i => \E j \in 1..Len(r) : g[j] = k

LEMMA WithoutIs ==
  ASSUME NEW s, NEW r, NEW i, Without(s, r, i)
  PROVE  /\ \A j \in 1..Len(s) : j # i => \E k \in 1..Len(r) : s[j] = r[k]
         /\ \A k \in 1..Len(r) : \E j \in 1..Len(s) : r[k] = s[j]
<1>1. PICK g \in [1..Len(r) -> 1..Len(s)] :
         /\ \A j \in 1..Len(r) : g[j] # i /\ r[j] = s[g[j]]
         /\ \A k \in 1..Len(s) : k # i => \E j \in 1..Len(r) : g[j] = k
  BY DEF Without
<1>2. ASSUME NEW j \in 1..Len(s), j # i PROVE \E k \in 1..Len(r) : s[j] = r[k]
  <2>1. PICK k \in 1..Len(r) : g[k] = j
    BY <1>1, <1>2, Zenon
  <2>2. r[k] = s[j]
    BY <1>1, <2>1
  <2> QED
    BY <2>2
<1>3. ASSUME NEW k \in 1..Len(r) PROVE \E j \in 1..Len(s) : r[k] = s[j]
  <2>1. r[k] = s[g[k]] /\ g[k] \in 1..Len(s)
    BY <1>1
  <2> QED
    BY <2>1
<1> QED
  BY <1>2, <1>3

LEMMA RemoveIsWithout ==
  ASSUME NEW S, NEW s \in Seq(S), NEW i \in 1..Len(s)
  PROVE  Without(s, RemoveAt(s, i), i)
<1> DEFINE r == RemoveAt(s, i)
           g == [j \in 1..Len(r) |-> IF j < i THEN j ELSE j + 1]
<1>1. Len(s) \in Nat /\ Len(r) = Len(s) - 1
  BY RemoveAtIs
<1>2. \A j \in 1..Len(r) : r[j] = IF j < i THEN s[j] ELSE s[j + 1]
  <2>1. \A j \in 1..(Len(s) - 1) : r[j] = IF j < i THEN s[j] ELSE s[j + 1]
    BY RemoveAtIs
  <2> HIDE DEF r
  <2> QED
    BY <1>1, <2>1
<1> HIDE DEF r
<1>3. g \in [1..Len(r) -> 1..Len(s)] /\ \A j, k \in 1..Len(r) : j < k => g[j] < g[k]
  BY <1>1
<1>4. \A j \in 1..Len(r) : g[j] # i /\ r[j] = s[g[j]]
  BY <1>1, <1>2
<1>5. ASSUME NEW k \in 1..Len(s), k # i PROVE \E j \in 1..Len(r) : g[j] = k
  <2>1. CASE k < i
    BY <1>1, <2>1
  <2>2. CASE i < k
    <3>1. k - 1 \in 1..Len(r) /\ g[k - 1] = k
      BY <1>1, <2>2
    <3> QED
      BY <3>1
  <2> QED
    BY <1>5, <2>1, <2>2
<1> HIDE DEF g
<1> QED
  BY <1>3, <1>4, <1>5 DEF Without, r

LEMMA InsertIsWith ==
  ASSUME NEW S, NEW s \in Seq(S), NEW i \in 1..(Len(s) + 1), NEW e \in S
  PROVE  Without(InsertAt(s, i, e), s, i) /\ InsertAt(s, i, e)[i] = e
<1> DEFINE r == InsertAt(s, i, e)
           g == [j \in 1..Len(s) |-> IF j < i THEN j ELSE j + 1]
<1>1. Len(s) \in Nat /\ Len(r) = Len(s) + 1
  BY InsertAtIs
<1>2. \A j \in 1..Len(r) : r[j] = IF j < i THEN s[j] ELSE IF j = i THEN e ELSE s[j - 1]
  <2>1. \A j \in 1..(Len(s) + 1) :
           r[j] = IF j < i THEN s[j] ELSE IF j = i THEN e ELSE s[j - 1]
    BY InsertAtIs
  <2> HIDE DEF r
  <2> QED
    BY <1>1, <2>1
<1> HIDE DEF r
<1>3. g \in [1..Len(s) -> 1..Len(r)] /\ \A j, k \in 1..Len(s) : j < k => g[j] < g[k]
  BY <1>1
<1>4. ASSUME NEW j \in 1..Len(s) PROVE g[j] # i /\ s[j] = r[g[j]]
  <2>1. CASE j < i
    BY <1>1, <1>2, <2>1
  <2>2. CASE ~(j < i)
    <3>1. g[j] = j + 1 /\ j + 1 \in 1..Len(r) /\ (j + 1) - 1 = j
      BY <1>1, <2>2
    <3>2. r[j + 1] = s[(j + 1) - 1]
      BY <1>2, <2>2, <3>1
    <3> QED
      BY <2>2, <3>1, <3>2
  <2> QED
    BY <2>1, <2>2
<1>5. ASSUME NEW k \in 1..Len(r), k # i PROVE \E j \in 1..Len(s) : g[j] = k
  <2>1. CASE k < i
    BY <1>1, <2>1
  <2>2. CASE i < k
    <3>1. k - 1 \in 1..Len(s) /\ g[k - 1] = k
      BY <1>1, <2>2
    <3> QED
      BY <3>1
  <2> QED
    BY <1>5, <2>1, <2>2
<1> HIDE DEF g
<1>6. Without(r, s, i)
  BY <1>1, <1>3, <1>4, <1>5 DEF Without
<1>7. i \in 1..Len(r) /\ r[i] = e
  BY <1>1, <1>2
<1> QED
  BY <1>6, <1>7 DEF r

LEMMA TailIsRemove ==
  ASSUME NEW S, NEW s \in Seq(S), s # <<>>
  PROVE  Tail(s) = RemoveAt(s, 1)
<1> DEFINE r == RemoveAt(s, 1)
<1>1. Len(s) \in Nat /\ 1 \in 1..Len(s)
  OBVIOUS
<1>2. r \in Seq(S) /\ Len(r) = Len(s) - 1
  BY <1>1, RemoveAtIs
<1>3. \A j \in 1..(Len(s) - 1) : r[j] = s[j + 1]
  <2>1. \A j \in 1..(Len(s) - 1) : r[j] = IF j < 1 THEN s[j] ELSE s[j + 1]
    BY <1>1, RemoveAtIs
  <2> HIDE DEF r
  <2> QED
    BY <2>1
<1> HIDE DEF r
<1>4. Tail(s) \in Seq(S) /\ Len(Tail(s)) = Len(s) - 1
      /\ \A j \in 1..(Len(s) - 1) : Tail(s)[j] = s[j + 1]
  BY HeadTailProperties
<1> DEFINE t == Tail(s)
<1>5. t \in Seq(S) /\ Len(t) = Len(r) /\ \A j \in 1..Len(t) : t[j] = r[j]
  BY <1>2, <1>3, <1>4
<1> HIDE DEF t
<1>6. t = r
  BY <1>2, <1>5, SeqEqual
<1> QED
  BY <1>6 DEF t, r

(* Of a sequence without repetitions, an erase takes exactly its element.  *)
LEMMA RemoveDistinct ==
  ASSUME NEW S, NEW s \in Seq(S), NEW i \in 1..Len(s),
         \A j, k \in 1..Len(s) : s[j] = s[k] => j = k
  PROVE  LET r == RemoveAt(s, i)
         IN  /\ \A j, k \in 1..Len(r) : r[j] = r[k] => j = k
             /\ \A j \in 1..Len(r) : r[j] # s[i] /\ \E k \in 1..Len(s) : r[j] = s[k]
             /\ \A k \in 1..Len(s) : s[k] # s[i] => \E j \in 1..Len(r) : r[j] = s[k]
<1> DEFINE r == RemoveAt(s, i)
           from(j) == IF j < i THEN j ELSE j + 1
<1>1. Len(s) \in Nat /\ Len(r) = Len(s) - 1
  BY RemoveAtIs
<1>2. \A j \in 1..Len(r) : from(j) \in 1..Len(s) /\ from(j) # i /\ r[j] = s[from(j)]
  <2>1. \A j \in 1..(Len(s) - 1) : r[j] = IF j < i THEN s[j] ELSE s[j + 1]
    BY RemoveAtIs
  <2> HIDE DEF r
  <2> QED
    BY <1>1, <2>1
<1>3. \A j, k \in 1..Len(r) : from(j) = from(k) => j = k
  BY <1>1
<1>4. ASSUME NEW k \in 1..Len(s), k # i PROVE \E j \in 1..Len(r) : from(j) = k
  <2>1. CASE k < i
    BY <1>1, <2>1
  <2>2. CASE i < k
    <3>1. k - 1 \in 1..Len(r) /\ from(k - 1) = k
      BY <1>1, <2>2
    <3> QED
      BY <3>1
  <2> QED
    BY <1>4, <2>1, <2>2
<1> HIDE DEF r, from
<1>5. \A j, k \in 1..Len(r) : r[j] = r[k] => j = k
  BY <1>2, <1>3
<1>6. \A j \in 1..Len(r) : r[j] # s[i] /\ \E k \in 1..Len(s) : r[j] = s[k]
  BY <1>2
<1>7. \A k \in 1..Len(s) : s[k] # s[i] => \E j \in 1..Len(r) : r[j] = s[k]
  BY <1>2, <1>4
<1> QED
  BY <1>5, <1>6, <1>7 DEF r

(* An insert brings its element and keeps the others.                      *)
LEMMA InsertDistinct ==
  ASSUME NEW S, NEW s \in Seq(S), NEW i \in 1..(Len(s) + 1), NEW e \in S,
         \A j, k \in 1..Len(s) : s[j] = s[k] => j = k, \A j \in 1..Len(s) : s[j] # e
  PROVE  LET r == InsertAt(s, i, e)
         IN  /\ \A j, k \in 1..Len(r) : r[j] = r[k] => j = k
             /\ \A j \in 1..Len(r) : r[j] = e \/ \E k \in 1..Len(s) : r[j] = s[k]
<1> DEFINE r == InsertAt(s, i, e)
           from(j) == IF j < i THEN j ELSE j - 1
<1>1. Len(s) \in Nat /\ Len(r) = Len(s) + 1
  BY InsertAtIs
<1>2. \A j \in 1..Len(r) : IF j = i THEN r[j] = e
                           ELSE from(j) \in 1..Len(s) /\ r[j] = s[from(j)]
  BY <1>1, InsertAtIs
<1>3. \A j, k \in 1..Len(r) : j # i /\ k # i /\ from(j) = from(k) => j = k
  BY <1>1
<1> HIDE DEF r, from
<1>4. \A j, k \in 1..Len(r) : r[j] = r[k] => j = k
  BY <1>2, <1>3
<1>5. \A j \in 1..Len(r) : r[j] = e \/ \E k \in 1..Len(s) : r[j] = s[k]
  BY <1>2
<1> QED
  BY <1>4, <1>5 DEF r

-----------------------------------------------------------------------------
(* The metric                                                              *)

(* The first position where two candidates differ exists as soon as any    *)
(* position does: the loop of cmp cannot run past a difference.            *)
LEMMA FirstDiffer ==
  ASSUME NEW m, NEW a, NEW b, Differ(m, a, b) # {}
  PROVE  \E i \in Differ(m, a, b) : \A j \in Differ(m, a, b) : i <= j
<1>1. Differ(m, a, b) \in SUBSET Nat
  BY HashSpaceAssumption DEF Differ
<1> QED
  BY <1>1, LeastElement

(* A gap is a natural number, so the two orders of < on gaps exclude each  *)
(* other.                                                                  *)
LEMMA GapType ==
  ASSUME NEW m \in Hash, NEW a \in Hash, NEW i \in 1..HASHSIZE
  PROVE  Gap(m, a, i) \in Nat
BY HashSpaceAssumption DEF Hash, Byte, Gap

(* Closer, spelled out: there is a position where the first key is nearer  *)
(* and before which the two are level.                                     *)
LEMMA CloserAt ==
  ASSUME NEW m \in Hash, NEW a \in Hash, NEW b \in Hash
  PROVE  Closer(m, a, b) <=>
           \E i \in 1..HASHSIZE :
              /\ Gap(m, a, i) < Gap(m, b, i)
              /\ \A j \in 1..HASHSIZE : j < i => Gap(m, a, j) = Gap(m, b, j)
<1>1. ASSUME Closer(m, a, b)
      PROVE  \E i \in 1..HASHSIZE :
              /\ Gap(m, a, i) < Gap(m, b, i)
              /\ \A j \in 1..HASHSIZE : j < i => Gap(m, a, j) = Gap(m, b, j)
  <2>1. PICK i \in Differ(m, a, b) :
              /\ \A j \in Differ(m, a, b) : i <= j
              /\ Gap(m, a, i) < Gap(m, b, i)
    BY <1>1 DEF Closer, cmp
  <2>2. ASSUME NEW j \in 1..HASHSIZE, j < i
        PROVE  Gap(m, a, j) = Gap(m, b, j)
    BY <2>1, <2>2, HashSpaceAssumption DEF Differ
  <2> QED BY <2>1, <2>2 DEF Differ
<1>2. ASSUME NEW i \in 1..HASHSIZE,
             Gap(m, a, i) < Gap(m, b, i),
             \A j \in 1..HASHSIZE : j < i => Gap(m, a, j) = Gap(m, b, j)
      PROVE  Closer(m, a, b)
  <2>1. i \in Differ(m, a, b)
    BY <1>2, GapType DEF Differ
  <2>2. \A j \in Differ(m, a, b) : i <= j
    BY <1>2, HashSpaceAssumption DEF Differ
  <2> QED BY <1>2, <2>1, <2>2 DEF Closer, cmp
<1> QED BY <1>1, <1>2

(* cmp answers 2 exactly when exchanging the candidates makes it answer 1: *)
(* what father_handler::check drops a father for (cmp = 2) is what         *)
(* father_handler::set accepts one for (cmp = 1).                          *)
THEOREM CmpMirror ==
  ASSUME NEW m \in Hash, NEW a \in Hash, NEW b \in Hash
  PROVE  cmp(m, a, b) = 2 <=> Closer(m, b, a)
<1> USE DEF Closer
<1>1. Differ(m, a, b) = Differ(m, b, a)
  BY DEF Differ
<1>2. ASSUME cmp(m, a, b) = 2 PROVE cmp(m, b, a) = 1
  <2>1. Differ(m, a, b) # {} /\ ~Closer(m, a, b)
    BY <1>2 DEF cmp
  <2>2. PICK i \in Differ(m, a, b) : \A j \in Differ(m, a, b) : i <= j
    BY <2>1, FirstDiffer
  <2>3. ~(Gap(m, a, i) < Gap(m, b, i))
    BY <2>1, <2>2 DEF cmp
  <2>4. Gap(m, b, i) < Gap(m, a, i)
    BY <2>3, <2>2, GapType DEF Differ
  <2> QED BY <1>1, <2>2, <2>4 DEF cmp
<1>3. ASSUME cmp(m, b, a) = 1 PROVE cmp(m, a, b) = 2
  <2>1. PICK i \in 1..HASHSIZE :
              /\ Gap(m, b, i) < Gap(m, a, i)
              /\ \A j \in 1..HASHSIZE : j < i => Gap(m, b, j) = Gap(m, a, j)
    BY <1>3, CloserAt
  <2>2. ~Closer(m, a, b)
    <3>1. SUFFICES ASSUME NEW k \in 1..HASHSIZE,
                          Gap(m, a, k) < Gap(m, b, k),
                          \A j \in 1..HASHSIZE : j < k => Gap(m, a, j) = Gap(m, b, j)
                   PROVE FALSE
      BY CloserAt
    <3>2. Gap(m, a, i) \in Nat /\ Gap(m, b, i) \in Nat /\ Gap(m, a, k) \in Nat /\ Gap(m, b, k) \in Nat
      BY GapType
    <3> QED BY <2>1, <3>1, <3>2, HashSpaceAssumption
  <2>3. i \in Differ(m, a, b)
    BY <2>1, GapType DEF Differ
  <2> QED BY <2>2, <2>3 DEF cmp
<1> QED BY <1>2, <1>3

(* Closer is asymmetric: two peers cannot each be a better father than the *)
(* other.                                                                  *)
THEOREM CloserAsymmetric ==
  ASSUME NEW m \in Hash, NEW a \in Hash, NEW b \in Hash, Closer(m, a, b)
  PROVE  ~Closer(m, b, a)
BY CmpMirror DEF Closer

(* Closer is transitive, so a chain of better fathers never returns to its *)
(* start and the scan of nearest cannot depend on where it began.          *)
THEOREM CloserTransitive ==
  ASSUME NEW m \in Hash, NEW a \in Hash, NEW b \in Hash, NEW c \in Hash,
         Closer(m, a, b), Closer(m, b, c)
  PROVE  Closer(m, a, c)
<1>1. PICK i \in 1..HASHSIZE :
         /\ Gap(m, a, i) < Gap(m, b, i)
         /\ \A j \in 1..HASHSIZE : j < i => Gap(m, a, j) = Gap(m, b, j)
  BY CloserAt
<1>2. PICK k \in 1..HASHSIZE :
         /\ Gap(m, b, k) < Gap(m, c, k)
         /\ \A j \in 1..HASHSIZE : j < k => Gap(m, b, j) = Gap(m, c, j)
  BY CloserAt
<1>3. \A j \in 1..HASHSIZE : /\ Gap(m, a, j) \in Nat
                             /\ Gap(m, b, j) \in Nat
                             /\ Gap(m, c, j) \in Nat
  BY GapType
<1>4. CASE i <= k
  <2>1. Gap(m, a, i) < Gap(m, c, i)
    BY <1>1, <1>2, <1>3, <1>4
  <2>2. \A j \in 1..HASHSIZE : j < i => Gap(m, a, j) = Gap(m, c, j)
    BY <1>1, <1>2, <1>4
  <2> QED BY <2>1, <2>2, CloserAt
<1>5. CASE k < i
  <2>1. Gap(m, a, k) < Gap(m, c, k)
    BY <1>1, <1>2, <1>3, <1>5
  <2>2. \A j \in 1..HASHSIZE : j < k => Gap(m, a, j) = Gap(m, c, j)
    BY <1>1, <1>2, <1>5
  <2> QED BY <2>1, <2>2, CloserAt
<1> QED BY <1>4, <1>5, HashSpaceAssumption

(* Equal nearness is transitive with Closer: keys that tie are             *)
(* interchangeable in every comparison, which is why abstracting the       *)
(* order of structs::nodes to a choice among Nearest loses nothing.        *)
THEOREM CloserNegTransitive ==
  ASSUME NEW m \in Hash, NEW a \in Hash, NEW b \in Hash, NEW c \in Hash,
         ~Closer(m, a, b), ~Closer(m, b, c)
  PROVE  ~Closer(m, a, c)
<1>1. SUFFICES ASSUME Closer(m, a, c) PROVE FALSE
  OBVIOUS
<1>2. CASE Closer(m, b, a)
  BY <1>1, <1>2, CloserTransitive
<1>3. CASE ~Closer(m, b, a)
  <2>1. cmp(m, a, b) # 1 /\ cmp(m, a, b) # 2
    BY <1>3, CmpMirror DEF Closer
  <2>2. Differ(m, a, b) = {}
    BY <2>1 DEF cmp
  <2>3. \A j \in 1..HASHSIZE : Gap(m, a, j) = Gap(m, b, j)
    BY <2>2 DEF Differ
  <2>4. Closer(m, b, c)
    <3>1. PICK i \in 1..HASHSIZE :
             /\ Gap(m, a, i) < Gap(m, c, i)
             /\ \A j \in 1..HASHSIZE : j < i => Gap(m, a, j) = Gap(m, c, j)
      BY <1>1, CloserAt
    <3>2. /\ Gap(m, b, i) < Gap(m, c, i)
          /\ \A j \in 1..HASHSIZE : j < i => Gap(m, b, j) = Gap(m, c, j)
      BY <3>1, <2>3
    <3> QED BY <3>2, CloserAt
  <2> QED BY <2>4
<1> QED BY <1>2, <1>3

(* Nothing is nearer to a key than the key itself: a peer that is itself   *)
(* in its node list is never displaced by the scan of nearest.             *)
THEOREM NothingCloserThanSelf ==
  ASSUME NEW m \in Hash, NEW a \in Hash
  PROVE  ~Closer(m, a, m)
<1>1. \A i \in 1..HASHSIZE : Gap(m, m, i) = 0 /\ Gap(m, a, i) \in Nat
  BY GapType, HashSpaceAssumption DEF Gap, Hash, Byte
<1> QED BY <1>1, CloserAt

-----------------------------------------------------------------------------
(* The loops of the code                                                   *)

LEMMA ByteSum ==
  ASSUME NEW h \in Hash
  PROVE  byte_sum(h) \in Nat
<1> DEFINE n == HASHSIZE
           step == [i \in 1..n |-> [s \in Nat |-> s + h[i]]]
<1>1. n \in Nat /\ \A i \in 1..n : h[i] \in Nat
  BY HashSpaceAssumption DEF Hash, Byte
<1>2. step \in [1..n -> [Nat -> Nat]]
  BY <1>1
<1>3. PICK f \in [0..n -> Nat] : f[0] = 0 /\ \A i \in 1..n : f[i] = step[i][f[i - 1]]
  <2> DEFINE V == Nat  start == 0
  <2>1. n \in Nat /\ start \in V /\ step \in [1..n -> [V -> V]]
    BY <1>1, <1>2
  <2> HIDE DEF step, n, V, start
  <2>2. Runs(V, start, n, step)
    BY <2>1, LoopExists
  <2> QED
    BY <2>2 DEF Runs, V, start
<1> DEFINE Loop(g) == g = [i \in 0..HASHSIZE |-> IF i = 0 THEN 0 ELSE g[i - 1] + h[i]]
<1>4. Loop(f)
  <2>1. ASSUME NEW i \in 1..n PROVE f[i] = f[i - 1] + h[i]
    <3>1. i - 1 \in 0..n
      BY <1>1
    <3> QED
      BY <1>3, <3>1
  <2> HIDE DEF step
  <2> QED
    BY <1>1, <1>3, <2>1
<1> DEFINE sum == CHOOSE g : Loop(g)
<1>5. Loop(sum)
  <2> HIDE DEF Loop
  <2> QED
    BY <1>4
<1>6. byte_sum(h) = sum[HASHSIZE]
  BY DEF byte_sum
<1> HIDE DEF sum
<1>7. sum[0] = 0 /\ \A i \in 1..n : sum[i] = sum[i - 1] + h[i]
  <2>1. 0 \in 0..HASHSIZE /\ \A i \in 1..n : i \in 0..HASHSIZE /\ i # 0
    BY <1>1
  <2> QED
    BY <1>5, <2>1, Zenon
<1> DEFINE Good == {i \in 0..n : sum[i] \in Nat}
<1>8. 0 \in Good /\ \A i \in 1..n : i - 1 \in Good => i \in Good
  <2>1. 0 \in Good
    BY <1>1, <1>7
  <2>2. ASSUME NEW i \in 1..n, sum[i - 1] \in Nat PROVE i \in 0..n /\ sum[i] \in Nat
    <3>1. sum[i] = sum[i - 1] + h[i] /\ h[i] \in Nat
      BY <1>1, <1>7
    <3> HIDE DEF n
    <3> QED
      BY <1>1, <2>2, <3>1
  <2> QED
    BY <2>1, <2>2
<1>9. n \in Good
  <2> HIDE DEF Good
  <2>1. n \in 0..n
    BY <1>1
  <2> QED
    BY <1>1, <1>8, <2>1, UpTo
<1> QED
  BY <1>6, <1>9

Scans(main, me, n, head, vec) ==
    \E f \in [0..n -> Hash] :
        /\ f[0] = head
        /\ \A i \in 1..n : f[i] = IF vec[i] # me /\ Closer(main, vec[i], f[i - 1])
                                  THEN vec[i] ELSE f[i - 1]

LEMMA ScanExists ==
  ASSUME NEW main, NEW me, NEW n \in Nat,
         NEW head \in Hash, NEW vec, \A i \in 1..n : vec[i] \in Hash
  PROVE  Scans(main, me, n, head, vec)
<1> DEFINE next(i, b) == IF vec[i] # me /\ Closer(main, vec[i], b) THEN vec[i] ELSE b
           step == [i \in 1..n |-> [b \in Hash |-> next(i, b)]]
           first == head
<1>1. first \in Hash /\ step \in [1..n -> [Hash -> Hash]]
  OBVIOUS
<1>2. PICK f \in [0..n -> Hash] : f[0] = first /\ \A i \in 1..n : f[i] = step[i][f[i - 1]]
  <2> HIDE DEF step, first
  <2>1. Runs(Hash, first, n, step)
    BY <1>1, LoopExists
  <2> QED
    BY <2>1 DEF Runs
<1>3. ASSUME NEW i \in 1..n PROVE f[i] = next(i, f[i - 1])
  <2>1. i - 1 \in 0..n
    OBVIOUS
  <2>2. f[i - 1] \in Hash
    BY <2>1
  <2> QED
    BY <1>2, <2>2
<1> QED
  BY <1>2, <1>3 DEF Scans

(* The scan of nodes_handler::nearest, whatever the order of the vector,   *)
(* answers a key that no candidate is nearer than: the head, which may be  *)
(* gone from the vector, and every key of it but the peer's own are        *)
(* candidates.  It keeps the head unless one of the others is nearer, as   *)
(* Father, which knows no order, takes for granted.                        *)
THEOREM ScanIsMinimal ==
  ASSUME NEW main \in Hash, NEW me, NEW head \in Hash, NEW vec \in Seq(Hash)
  PROVE  /\ nearest(main, me, head, vec) \in Nearest(main, {head} \cup (ToSet(vec) \ {me}))
         /\ nearest(main, me, head, vec) \in NearestFrom(main, head, ToSet(vec) \ {me})
<1> DEFINE n == Len(vec)
           next(i, b) == IF vec[i] # me /\ Closer(main, vec[i], b) THEN vec[i] ELSE b
           C(i) == {head} \cup ({vec[j] : j \in 1..i} \ {me})
<1>1. n \in Nat /\ \A i \in 1..n : vec[i] \in Hash
  BY ElementOfSeq
<1>3. PICK f \in [0..n -> Hash] : f[0] = head /\ \A i \in 1..n : f[i] = next(i, f[i - 1])
  <2>1. Scans(main, me, n, head, vec)
    BY <1>1, ScanExists
  <2> QED
    BY <2>1 DEF Scans
<1> DEFINE Loop(g) == g = [i \in 0..Len(vec) |->
                              IF i = 0 THEN head
                              ELSE IF vec[i] # me /\ Closer(main, vec[i], g[i - 1]) THEN vec[i]
                              ELSE g[i - 1]]
<1>4. Loop(f)
  BY <1>1, <1>3
<1> DEFINE node == CHOOSE g : Loop(g)
<1>5. Loop(node)
  <2> HIDE DEF Loop
  <2> QED
    BY <1>4
<1>6. nearest(main, me, head, vec) = node[Len(vec)]
  BY DEF nearest
<1> HIDE DEF node
<1>7. node[0] = head /\ \A i \in 1..n : node[i] = next(i, node[i - 1])
  <2>1. 0 \in 0..Len(vec) /\ \A i \in 1..n : i \in 0..Len(vec) /\ i # 0
    BY <1>1
  <2> QED
    BY <1>5, <2>1, Zenon
<1> DEFINE Good == {i \in 0..n : /\ node[i] \in C(i)
                                 /\ \A g \in C(i) : ~Closer(main, g, node[i])
                                 /\ node[i] = head \/ Closer(main, node[i], head)}
<1>8. 0 \in Good
  <2>1. C(0) = {head}
    OBVIOUS
  <2>2. ~Closer(main, head, head)
    BY <1>1, CloserAsymmetric
  <2> QED
    BY <1>1, <1>7, <2>1, <2>2
<1>9. ASSUME NEW i \in 1..n, i - 1 \in Good PROVE i \in Good
  <2> DEFINE b == node[i - 1]
  <2>1. /\ b \in C(i - 1) /\ \A g \in C(i - 1) : ~Closer(main, g, b)
        /\ b = head \/ Closer(main, b, head)
    BY <1>9
  <2>2. C(i) = C(i - 1) \cup ({vec[i]} \ {me})
    <3>1. 1..i = (1..(i - 1)) \cup {i}
      BY <1>1
    <3> QED
      BY <3>1
  <2>3. C(i) \subseteq Hash
    <3>1. \A j \in 1..i : j \in 1..n
      BY <1>1
    <3> QED
      BY <1>1, <3>1
  <2>4. node[i] = next(i, b) /\ i \in 0..n
    BY <1>1, <1>7
  <2> HIDE DEF b, C
  <2>5. CASE vec[i] # me /\ Closer(main, vec[i], b)
    <3>1. node[i] = vec[i] /\ vec[i] \in C(i) /\ b \in Hash /\ vec[i] \in Hash
      BY <2>1, <2>2, <2>3, <2>4, <2>5
    <3>2. ASSUME NEW g \in C(i) PROVE ~Closer(main, g, vec[i])
      <4>1. g \in Hash
        BY <2>3
      <4>2. CASE g \in C(i - 1)
        <5>1. ~Closer(main, g, b)
          BY <2>1, <4>2
        <5> QED
          BY <2>5, <3>1, <4>1, <5>1, CloserTransitive
      <4>3. CASE g = vec[i]
        BY <3>1, <4>3, CloserAsymmetric
      <4> QED
        BY <2>2, <4>2, <4>3
    <3>3. Closer(main, vec[i], head)
      BY <2>1, <2>5, <3>1, CloserTransitive
    <3> QED
      BY <2>4, <3>1, <3>2, <3>3
  <2>6. CASE ~(vec[i] # me /\ Closer(main, vec[i], b))
    <3>1. node[i] = b /\ b \in C(i)
      BY <2>1, <2>2, <2>4, <2>6
    <3>2. ASSUME NEW g \in C(i) PROVE ~Closer(main, g, b)
      BY <2>1, <2>2, <2>6
    <3> QED
      BY <2>1, <2>4, <3>1, <3>2
  <2> QED
    BY <2>5, <2>6
<1>10. n \in Good
  <2>1. \A i \in 1..n : i - 1 \in Good => i \in Good
    BY <1>9
  <2>2. n \in 0..n
    BY <1>1
  <2> HIDE DEF Good
  <2> QED
    BY <1>1, <1>8, <2>1, <2>2, UpTo
<1> DEFINE S == ToSet(vec) \ {me}
<1>11. C(n) = {head} \cup S
  BY DEF ToSet
<1>12. C(n) \subseteq Hash
  BY <1>1
<1> DEFINE found == nearest(main, me, head, vec)
<1> HIDE DEF C
<1>13. /\ found \in {head} \cup S /\ \A g \in {head} \cup S : ~Closer(main, g, found)
       /\ found = head \/ Closer(main, found, head)
  BY <1>6, <1>10, <1>11
<1> HIDE DEF S, found
<1>14. found \in Nearest(main, {head} \cup S)
  BY <1>13 DEF Nearest
<1>15. found \in NearestFrom(main, head, S)
  <2>1. CASE \E g \in S : Closer(main, g, head)
    <3>1. found \in S /\ \A g \in S : ~Closer(main, g, found)
      BY <1>13, <2>1
    <3> QED
      BY <2>1, <3>1 DEF NearestFrom, Nearest
  <2>2. CASE ~\E g \in S : Closer(main, g, head)
    BY <1>13, <2>2 DEF NearestFrom
  <2> QED
    BY <2>1, <2>2
<1> QED
  BY <1>14, <1>15 DEF found, S

=============================================================================
