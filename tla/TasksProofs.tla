---------------------------- MODULE TasksProofs ----------------------------
(***************************************************************************)
(* What holds of Tasks for any number of tasks, cookies and threads and    *)
(* any number of attempts.                                                 *)
(***************************************************************************)
EXTENDS Tasks, HashSpaceProofs, FiniteSetTheorems, TLAPS

-----------------------------------------------------------------------------
(* The vector                                                              *)

LEMMA VectorIs ==
  ASSUME NEW s \in Seq(Ids)
  PROVE  /\ Len(s) \in Nat /\ DOMAIN s = 1..Len(s)
         /\ \A i \in 1..Len(s) : s[i] \in Ids /\ s[i] \in Range(s)
         /\ \A x \in Range(s) : x \in Ids /\ \E i \in 1..Len(s) : x = s[i]
         /\ IsInjective(s) <=> \A i, j \in 1..Len(s) : s[i] = s[j] => i = j
<1>1. Len(s) \in Nat /\ DOMAIN s = 1..Len(s) /\ \A i \in 1..Len(s) : s[i] \in Ids
  BY ElementOfSeq
<1> QED
  BY <1>1 DEF Range, IsInjective

LEMMA EraseIs ==
  ASSUME NEW s \in Seq(Ids), NEW i \in 1..Len(s), IsInjective(s)
  PROVE  LET r == RemoveAt(s, i)
         IN  /\ r \in Seq(Ids) /\ IsInjective(r)
             /\ Range(r) = Range(s) \ {s[i]}
<1> DEFINE r == RemoveAt(s, i)
<1>1. r \in Seq(Ids)
  BY RemoveAtIs
<1>2. \A j, k \in 1..Len(s) : s[j] = s[k] => j = k
  BY VectorIs
<1>3. /\ \A j, k \in 1..Len(r) : r[j] = r[k] => j = k
      /\ \A j \in 1..Len(r) : r[j] # s[i] /\ \E k \in 1..Len(s) : r[j] = s[k]
      /\ \A k \in 1..Len(s) : s[k] # s[i] => \E j \in 1..Len(r) : r[j] = s[k]
  BY <1>2, RemoveDistinct
<1> HIDE DEF r
<1>4. IsInjective(r)
  BY <1>1, <1>3, VectorIs
<1>5. Range(r) \subseteq Range(s) \ {s[i]}
  BY <1>1, <1>3, VectorIs
<1>6. Range(s) \ {s[i]} \subseteq Range(r)
  <2>1. ASSUME NEW x \in Range(s) \ {s[i]} PROVE x \in Range(r)
    <3>1. PICK k \in 1..Len(s) : x = s[k]
      BY VectorIs
    <3>2. PICK j \in 1..Len(r) : r[j] = x
      BY <1>3, <3>1
    <3> QED
      BY <1>1, <3>2, VectorIs
  <2> QED
    BY <2>1
<1> QED
  BY <1>1, <1>4, <1>5, <1>6 DEF r

LEMMA PushIsAppend ==
  ASSUME NEW s \in Seq(Ids), NEW e \in Ids, IsInjective(s), e \notin Range(s)
  PROVE  LET r == Append(s, e)
         IN  /\ r \in Seq(Ids) /\ IsInjective(r)
             /\ Range(r) = Range(s) \cup {e}
<1> DEFINE r == Append(s, e)  n == Len(s)
<1>1. /\ r \in Seq(Ids) /\ Len(r) = n + 1 /\ n \in Nat
      /\ \A j \in 1..n : r[j] = s[j] /\ r[n + 1] = e
  BY VectorIs, AppendProperties
<1>2. r[n + 1] = e
  BY AppendProperties
<1>3. \A j, k \in 1..n : s[j] = s[k] => j = k
  BY VectorIs
<1>4. \A j \in 1..n : s[j] # e
  BY VectorIs
<1> HIDE DEF r
<1>5. \A j \in 1..Len(r) : j \in 1..n \/ j = n + 1
  BY <1>1
<1>6. IsInjective(r)
  <2>1. \A j, k \in 1..Len(r) : r[j] = r[k] => j = k
    BY <1>1, <1>2, <1>3, <1>4, <1>5
  <2> QED
    BY <1>1, <2>1, VectorIs
<1>7. Range(r) \subseteq Range(s) \cup {e}
  BY <1>1, <1>2, <1>5, VectorIs
<1>8. Range(s) \cup {e} \subseteq Range(r)
  <2>1. \A j \in 1..n : j \in 1..Len(r) /\ n + 1 \in 1..Len(r)
    BY <1>1
  <2>2. n + 1 \in 1..Len(r)
    BY <1>1
  <2>3. e \in Range(r)
    BY <1>1, <1>2, <2>2, VectorIs
  <2>4. ASSUME NEW x \in Range(s) PROVE x \in Range(r)
    <3>1. PICK j \in 1..n : x = s[j]
      BY VectorIs
    <3> QED
      BY <1>1, <2>1, <3>1, VectorIs
  <2> QED
    BY <2>3, <2>4
<1> QED
  BY <1>1, <1>6, <1>7, <1>8 DEF r

-----------------------------------------------------------------------------
(* The order of the stamps                                                 *)

LEMMA ForgetOrdered ==
  ASSUME Ordered, NEW gone, Forget(gone), Stamped' = Stamped \ gone
  PROVE  Ordered'
<1>1. \A a, b \in Stamped' : Older(a, b)' <=> Older(a, b)
  BY DEF Forget, Older
<1>2. older' \subseteq Stamped' \X Stamped'
  BY DEF Forget, Ordered
<1>3. Stamped' \subseteq Stamped /\ aged' = aged \cap Stamped'
  BY DEF Forget, Ordered
<1> QED
  BY <1>1, <1>2, <1>3 DEF Ordered

LEMMA RestampOrdered ==
  ASSUME Ordered, NEW id \in Stamped, Restamp(id), Stamped' = Stamped
  PROVE  Ordered'
<1>1. \A a, b \in Stamped :
         Older(a, b)' <=> (a # id /\ (b = id \/ Older(a, b)))
  BY DEF Restamp, Older
<1>2. older' \subseteq Stamped' \X Stamped'
  BY DEF Restamp, Ordered
<1>3. aged' = aged \ {id}
  BY DEF Restamp
<1> QED
  BY <1>1, <1>2, <1>3 DEF Ordered

LEMMA StampOrdered ==
  ASSUME Ordered, NEW id, id \notin Stamped, older' = older \cup (Stamped \X {id}), aged' = aged,
         Stamped' = Stamped \cup {id}
  PROVE  Ordered'
<1>1. \A a, b \in Stamped' :
         Older(a, b)' <=> (a # id /\ (b = id \/ Older(a, b)))
  BY DEF Older, Ordered
<1>2. older' \subseteq Stamped' \X Stamped'
  BY DEF Ordered
<1> QED
  BY <1>1, <1>2 DEF Ordered

LEMMA ElapseOrdered ==
  ASSUME Ordered, Elapse
  PROVE  Ordered'
<1>1. Stamped' = Stamped /\ older' = older
  BY DEF Elapse, Stamped, Queued
<1>2. PICK id \in Stamped \ aged : /\ \A o \in Stamped \ aged : ~Older(o, id)
                                   /\ aged' = aged \cup {id}
  BY DEF Elapse
<1>3. \A a, b : Older(a, b)' <=> Older(a, b)
  BY <1>1 DEF Older
<1> QED
  BY <1>1, <1>2, <1>3 DEF Ordered

-----------------------------------------------------------------------------
(* The scan of first()                                                     *)

(* The loop: what is kept after each round.                                *)
Keeps(f) ==
    /\ f \in [0..Len(tasks) -> 0..Len(tasks)] /\ f[0] = 0
    /\ \A i \in 1..Len(tasks) :
          f[i] = IF ~Over(f[i - 1]) /\ Takes(f[i - 1], i) THEN i ELSE f[i - 1]

LEMMA KeepsExists ==
  ASSUME tasks \in Seq(Ids)
  PROVE  \E f : Keeps(f)
<1> DEFINE n == Len(tasks)
           next(i, k) == IF ~Over(k) /\ Takes(k, i) THEN i ELSE k
           step == [i \in 1..n |-> [k \in 0..n |-> next(i, k)]]
<1>1. n \in Nat
  OBVIOUS
<1>2. step \in [1..n -> [0..n -> 0..n]] /\ 0 \in 0..n
  BY <1>1
<1>3. PICK f \in [0..n -> 0..n] : f[0] = 0 /\ \A i \in 1..n : f[i] = step[i][f[i - 1]]
  <2> HIDE DEF step
  <2>1. Runs(0..n, 0, n, step)
    BY <1>1, <1>2, LoopExists
  <2> QED
    BY <2>1 DEF Runs
<1>4. ASSUME NEW i \in 1..n PROVE f[i] = next(i, f[i - 1])
  <2>1. i - 1 \in 0..n
    BY <1>1
  <2>2. f[i - 1] \in 0..n
    BY <2>1
  <2> HIDE DEF next
  <2> QED
    BY <1>3, <2>2
<1> QED
  BY <1>3, <1>4 DEF Keeps

LEMMA ScanKeeps ==
  ASSUME tasks \in Seq(Ids)
  PROVE  \E f : Keeps(f) /\ Scan = f[Len(tasks)]
<1> DEFINE Loop(g) == g = [i \in 0..Len(tasks) |->
                              IF i = 0 THEN 0
                              ELSE IF ~Over(g[i - 1]) /\ Takes(g[i - 1], i) THEN i ELSE g[i - 1]]
           kept == CHOOSE g : Loop(g)
<1>1. PICK f : Keeps(f)
  BY KeepsExists
<1>2. Len(tasks) \in Nat
  OBVIOUS
<1>3. ASSUME NEW g, Loop(g) PROVE g = f
  <2>1. g \in [0..Len(tasks) -> {g[i] : i \in 0..Len(tasks)}]
    BY <1>3
  <2>2. g[0] = 0 /\ \A i \in 1..Len(tasks) :
           g[i] = IF ~Over(g[i - 1]) /\ Takes(g[i - 1], i) THEN i ELSE g[i - 1]
    <3>1. 0 \in 0..Len(tasks) /\ \A i \in 1..Len(tasks) : i \in 0..Len(tasks) /\ i # 0
      BY <1>2
    <3> QED
      BY <1>3, <3>1, Zenon
  <2> DEFINE S == {i \in 0..Len(tasks) : g[i] = f[i]}
  <2>3. 0 \in S
    BY <1>1, <1>2, <2>2 DEF Keeps
  <2>4. \A i \in 1..Len(tasks) : i - 1 \in S => i \in S
    BY <1>1, <1>2, <2>2 DEF Keeps
  <2>5. \A i \in 0..Len(tasks) : i \in S
    <3> HIDE DEF S
    <3> QED
      BY <1>2, <2>3, <2>4, UpTo
  <2>6. f \in [0..Len(tasks) -> 0..Len(tasks)]
    BY <1>1 DEF Keeps
  <2> QED
    BY <2>1, <2>5, <2>6
<1>4. Loop(f)
  BY <1>1, <1>2 DEF Keeps
<1>5. Loop(kept)
  <2> HIDE DEF Loop
  <2> QED
    BY <1>4
<1>6. kept = f
  <2> HIDE DEF Loop, kept
  <2> QED
    BY <1>3, <1>5
<1> QED
  BY <1>1, <1>6 DEF Scan

(* What the scan keeps is live.  Unless a ping answer ended it, there is   *)
(* none, and no live task is older than what is kept, or than the head     *)
(* when nothing is.                                                        *)
LEMMA ScanIs ==
  ASSUME tasks \in Seq(Ids), Ordered, tasks # <<>>
  PROVE  /\ Scan \in 0..Len(tasks)
         /\ Scan # 0 => Live(tasks[Scan])
         /\ ~Over(Scan) => \A j \in 1..Len(tasks) :
               ~Pong(j) /\ (Live(tasks[j]) => ~Older(tasks[j], One(Scan)))
<1> DEFINE n == Len(tasks)
<1>1. /\ n \in Nat /\ 1 \in 1..n /\ \A i \in 1..n : tasks[i] \in Queued
  BY VectorIs DEF Queued
<1>2. PICK f : Keeps(f) /\ Scan = f[n]
  BY ScanKeeps
<1>3. f \in [0..n -> 0..n] /\ f[0] = 0
      /\ \A i \in 1..n : f[i] = IF ~Over(f[i - 1]) /\ Takes(f[i - 1], i) THEN i ELSE f[i - 1]
  BY <1>2 DEF Keeps
<1> DEFINE Leads(i, k) == \A j \in 1..i : ~Pong(j) /\ (Live(tasks[j]) => ~Older(tasks[j], One(k)))
           Good(i, k) == (k # 0 => Live(tasks[k])) /\ (~Over(k) => Leads(i, k))
           S == {i \in 0..n : Good(i, f[i])}
<1>4. 0 \in S
  BY <1>1, <1>3
<1>5. \A k \in 0..n : One(k) \in Stamped
  BY <1>1 DEF One, Stamped
<1>6. ASSUME NEW i \in 1..n, i - 1 \in S PROVE i \in S
  <2>1. PICK k \in 0..n : k = f[i - 1]
    <3>1. i - 1 \in 0..n
      BY <1>1
    <3> QED
      BY <1>3, <3>1
  <2>2. Good(i - 1, k) /\ i \in 0..n /\ \A j \in 1..i : j \in 1..n /\ (j \in 1..(i - 1) \/ j = i)
    BY <1>1, <1>6, <2>1
  <2>3. f[i] = IF ~Over(k) /\ Takes(k, i) THEN i ELSE k
    BY <1>3, <2>1
  <2>4. CASE Over(k)
    BY <2>2, <2>3, <2>4
  <2>5. CASE ~Over(k) /\ Pong(i)
    <3>1. f[i] = i /\ Live(tasks[i]) /\ Over(i)
      BY <1>1, <2>3, <2>5 DEF Takes, Pong, Over
    <3> QED
      BY <2>2, <3>1
  <2>6. CASE ~Over(k) /\ ~Pong(i) /\ Takes(k, i)
    <3>1. f[i] = i /\ Live(tasks[i]) /\ ~Older(One(k), tasks[i]) /\ Leads(i - 1, k)
      BY <2>2, <2>3, <2>6 DEF Takes
    <3>2. One(i) = tasks[i] /\ tasks[i] \in Stamped /\ One(k) \in Stamped
      BY <1>1, <1>5 DEF One, Stamped
    <3>3. ASSUME NEW j \in 1..i, Live(tasks[j]) PROVE ~Older(tasks[j], tasks[i])
      <4>1. tasks[j] \in Stamped
        BY <1>1, <2>2 DEF Stamped
      <4>2. CASE j = i
        BY <3>2, <4>2 DEF Ordered
      <4>3. CASE j \in 1..(i - 1)
        <5>1. ~Older(tasks[j], One(k))
          BY <3>1, <3>3, <4>3
        <5> QED
          BY <3>1, <3>2, <4>1, <5>1 DEF Ordered
      <4> QED
        BY <2>2, <4>2, <4>3
    <3>4. Leads(i, i)
      BY <2>2, <2>6, <3>1, <3>2, <3>3
    <3> HIDE DEF Leads
    <3> QED
      BY <2>2, <3>1, <3>4
  <2>7. CASE ~Over(k) /\ ~Pong(i) /\ ~Takes(k, i)
    <3>1. f[i] = k /\ Leads(i - 1, k) /\ (Live(tasks[i]) => Older(One(k), tasks[i]))
      BY <2>2, <2>3, <2>7 DEF Takes
    <3>2. tasks[i] \in Stamped /\ One(k) \in Stamped
      BY <1>1, <1>5 DEF Stamped
    <3>3. Live(tasks[i]) => ~Older(tasks[i], One(k))
      BY <3>1, <3>2 DEF Ordered
    <3>4. Leads(i, k)
      BY <2>2, <2>7, <3>1, <3>3
    <3> HIDE DEF Leads
    <3> QED
      BY <2>2, <3>1, <3>4
  <2> QED
    BY <2>4, <2>5, <2>6, <2>7
<1>7. n \in S
  <2>1. \A i \in 1..n : i - 1 \in S => i \in S
    BY <1>6
  <2>2. n \in 0..n
    BY <1>1
  <2> HIDE DEF S
  <2> QED
    BY <1>1, <1>4, <2>1, <2>2, UpTo
<1> QED
  BY <1>1, <1>2, <1>3, <1>7

-----------------------------------------------------------------------------
(* The loop of check()                                                     *)

Memory == [mem : [1..Len(tasks) -> Queued], len : {l \in Int : l <= Len(tasks)}, past : BOOLEAN]
Before == [mem |-> tasks, len |-> Len(tasks), past |-> FALSE]

Purges(f) ==
    /\ f \in [0..Len(tasks) -> Memory] /\ f[0] = Before
    /\ \A i \in 1..Len(tasks) : f[i] = PurgeRound(f[i - 1], i)

LEMMA RoundIs ==
  ASSUME tasks \in Seq(Ids), NEW s \in Memory, NEW i \in 1..Len(tasks), Purgeable(s.mem[i])
  PROVE  LET r == PurgeRound(s, i)
         IN  /\ r \in Memory /\ r.len = s.len - 1 /\ (r.past <=> s.past \/ i > s.len)
             /\ \A j \in 1..Len(tasks) :
                   r.mem[j] = IF i <= j /\ j < s.len THEN s.mem[j + 1] ELSE s.mem[j]
<1> DEFINE n == Len(tasks)
           m == [j \in 1..n |-> IF i <= j /\ j < s.len THEN s.mem[j + 1] ELSE s.mem[j]]
<1>1. n \in Nat /\ s.mem \in [1..n -> Queued] /\ s.len \in Int /\ s.len <= n /\ s.past \in BOOLEAN
  BY DEF Memory
<1>2. m \in [1..n -> Queued]
  <2>1. \A j \in 1..n : j < s.len => j + 1 \in 1..n
    BY <1>1
  <2> QED
    BY <1>1, <2>1
<1>3. \A j \in 1..n : m[j] = IF i <= j /\ j < s.len THEN s.mem[j + 1] ELSE s.mem[j]
  OBVIOUS
<1>4. PurgeRound(s, i) = [mem |-> m, len |-> s.len - 1, past |-> s.past \/ i > s.len]
  BY DEF PurgeRound
<1>5. s.len - 1 \in {l \in Int : l <= n} /\ (s.past \/ i > s.len) \in BOOLEAN
  BY <1>1
<1> HIDE DEF m
<1>6. PICK past \in BOOLEAN : past = (s.past \/ i > s.len)
  BY <1>5
<1>7. PurgeRound(s, i) = [mem |-> m, len |-> s.len - 1, past |-> past]
  BY <1>4, <1>6, Zenon
<1>8. [mem |-> m, len |-> s.len - 1, past |-> past] \in Memory
  BY <1>2, <1>5 DEF Memory
<1>. PICK r : r = PurgeRound(s, i)
  OBVIOUS
<1>9. r \in Memory /\ r.mem = m /\ r.len = s.len - 1 /\ r.past = past
  BY <1>7, <1>8
<1>10. r.past <=> s.past \/ i > s.len
  BY <1>6, <1>9
<1>11. \A j \in 1..n : r.mem[j] = IF i <= j /\ j < s.len THEN s.mem[j + 1] ELSE s.mem[j]
  BY <1>3, <1>9
<1> QED
  BY <1>9, <1>10, <1>11, Zenon

LEMMA PurgesExists ==
  ASSUME tasks \in Seq(Ids)
  PROVE  \E f : Purges(f)
<1> DEFINE n == Len(tasks)
           step == [i \in 1..n |-> [s \in Memory |-> PurgeRound(s, i)]]
<1>1. n \in Nat /\ Before \in Memory
  BY VectorIs DEF Before, Memory, Queued
<1>2. ASSUME NEW i \in 1..n, NEW s \in Memory PROVE PurgeRound(s, i) \in Memory
  <2>1. CASE Purgeable(s.mem[i])
    BY <2>1, RoundIs
  <2>2. CASE ~Purgeable(s.mem[i])
    BY <2>2 DEF PurgeRound
  <2> QED
    BY <2>1, <2>2
<1>3. step \in [1..n -> [Memory -> Memory]]
  BY <1>2
<1>4. PICK f \in [0..n -> Memory] : f[0] = Before /\ \A i \in 1..n : f[i] = step[i][f[i - 1]]
  <2> HIDE DEF step
  <2>1. Runs(Memory, Before, n, step)
    BY <1>1, <1>3, LoopExists
  <2> QED
    BY <2>1 DEF Runs
<1>5. ASSUME NEW i \in 1..n PROVE f[i] = PurgeRound(f[i - 1], i)
  <2>1. i - 1 \in 0..n
    BY <1>1
  <2>2. f[i - 1] \in Memory
    BY <2>1
  <2> QED
    BY <1>4, <2>2
<1> QED
  BY <1>4, <1>5 DEF Purges

LEMMA LoopPurges ==
  ASSUME tasks \in Seq(Ids)
  PROVE  \E f : Purges(f) /\ PurgeLoop = f[Len(tasks)]
<1> DEFINE Loop(g) == g = [i \in 0..Len(tasks) |->
                              IF i = 0 THEN [mem |-> tasks, len |-> Len(tasks), past |-> FALSE]
                              ELSE PurgeRound(g[i - 1], i)]
           after == CHOOSE g : Loop(g)
<1>1. PICK f : Purges(f)
  BY PurgesExists
<1>2. Len(tasks) \in Nat
  OBVIOUS
<1>3. ASSUME NEW g, Loop(g) PROVE g = f
  <2>1. g \in [0..Len(tasks) -> {g[i] : i \in 0..Len(tasks)}]
    BY <1>3
  <2>2. g[0] = Before /\ \A i \in 1..Len(tasks) : g[i] = PurgeRound(g[i - 1], i)
    <3>1. 0 \in 0..Len(tasks) /\ \A i \in 1..Len(tasks) : i \in 0..Len(tasks) /\ i # 0
      BY <1>2
    <3> QED
      BY <1>3, <3>1, Zenon DEF Before
  <2> DEFINE S == {i \in 0..Len(tasks) : g[i] = f[i]}
  <2>3. 0 \in S
    BY <1>1, <1>2, <2>2 DEF Purges
  <2>4. \A i \in 1..Len(tasks) : i - 1 \in S => i \in S
    BY <1>1, <1>2, <2>2 DEF Purges
  <2>5. \A i \in 0..Len(tasks) : i \in S
    <3> HIDE DEF S
    <3> QED
      BY <1>2, <2>3, <2>4, UpTo
  <2>6. f \in [0..Len(tasks) -> Memory]
    BY <1>1 DEF Purges
  <2> QED
    BY <2>1, <2>5, <2>6
<1>4. Loop(f)
  BY <1>1, <1>2 DEF Purges, Before
<1>5. Loop(after)
  <2> HIDE DEF Loop
  <2> QED
    BY <1>4
<1>6. after = f
  <2> HIDE DEF Loop, after
  <2> QED
    BY <1>3, <1>5
<1> QED
  BY <1>1, <1>6 DEF PurgeLoop

(* What is left in the vector was in it, once.                             *)
LEMMA PurgeIs ==
  ASSUME tasks \in Seq(Ids), IsInjective(tasks)
  PROVE  LET left == SubSeq(PurgeLoop.mem, 1, PurgeLoop.len)
         IN  left \in Seq(Ids) /\ IsInjective(left) /\ Range(left) \subseteq Queued
<1> DEFINE n == Len(tasks)
<1>1. n \in Nat /\ \A i, j \in 1..n : tasks[i] = tasks[j] => i = j
  BY VectorIs
<1>2. PICK f : Purges(f) /\ PurgeLoop = f[n]
  BY LoopPurges
<1>3. f \in [0..n -> Memory] /\ f[0] = Before /\ \A i \in 1..n : f[i] = PurgeRound(f[i - 1], i)
  BY <1>2 DEF Purges
<1> DEFINE Good(i, s) == /\ s.len >= n - i
                         /\ \A j, k \in 1..n : j <= s.len /\ k <= s.len /\ s.mem[j] = s.mem[k] => j = k
           S == {i \in 0..n : Good(i, f[i])}
<1>4. 0 \in S
  BY <1>1, <1>3 DEF Before
<1>5. ASSUME NEW i \in 1..n, i - 1 \in S PROVE i \in S
  <2>1. PICK s \in Memory : s = f[i - 1]
    <3>1. i - 1 \in 0..n
      BY <1>1
    <3> QED
      BY <1>3, <3>1
  <2>2. Good(i - 1, s) /\ f[i] = PurgeRound(s, i) /\ i \in 0..n
    BY <1>1, <1>3, <1>5, <2>1
  <2>3. s.len \in Int /\ s.len <= n
    BY DEF Memory
  <2>4. CASE Purgeable(s.mem[i])
    <3>1. PICK r : r = PurgeRound(s, i)
      OBVIOUS
    <3>2. /\ r.len = s.len - 1
          /\ \A j \in 1..n : r.mem[j] = IF i <= j /\ j < s.len THEN s.mem[j + 1] ELSE s.mem[j]
      BY <2>4, <3>1, RoundIs
    <3>3. r.len >= n - i
      BY <1>1, <2>2, <2>3, <3>2
    <3>4. ASSUME NEW j \in 1..n, NEW k \in 1..n, j <= r.len, k <= r.len, r.mem[j] = r.mem[k]
          PROVE  j = k
      <4>1. j < s.len /\ k < s.len /\ j + 1 \in 1..n /\ k + 1 \in 1..n
        BY <2>3, <3>2, <3>4
      <4>2. PICK a \in 1..n : a = IF i <= j THEN j + 1 ELSE j
        BY <4>1
      <4>3. PICK b \in 1..n : b = IF i <= k THEN k + 1 ELSE k
        BY <4>1
      <4>4. s.mem[a] = s.mem[b]
        BY <3>2, <3>4, <4>1, <4>2, <4>3
      <4>5. a <= s.len /\ b <= s.len
        BY <2>3, <4>1, <4>2, <4>3
      <4>6. a = b
        BY <2>2, <4>4, <4>5
      <4> QED
        BY <4>2, <4>3, <4>6
    <3> QED
      BY <2>2, <3>1, <3>3, <3>4
  <2>5. CASE ~Purgeable(s.mem[i])
    <3>1. f[i] = s
      BY <2>2, <2>5 DEF PurgeRound
    <3>2. s.len >= n - i
      BY <1>1, <2>2, <2>3
    <3> QED
      BY <2>2, <3>1, <3>2
  <2> QED
    BY <2>4, <2>5
<1>6. n \in S
  <2>1. \A i \in 1..n : i - 1 \in S => i \in S
    BY <1>5
  <2>2. n \in 0..n
    BY <1>1
  <2> HIDE DEF S
  <2> QED
    BY <1>1, <1>4, <2>1, <2>2, UpTo
<1>7. PICK s \in Memory : s = PurgeLoop
  BY <1>1, <1>2, <1>3
<1>8. Good(n, s)
  BY <1>2, <1>6, <1>7
<1>9. s.len \in 0..n /\ s.mem \in [1..n -> Queued] /\ s.mem \in Seq(Queued) /\ Len(s.mem) = n
  BY <1>1, <1>8 DEF Memory
<1> DEFINE left == SubSeq(s.mem, 1, s.len)
<1>10. /\ left \in Seq(Queued) /\ Len(left) = s.len
       /\ \A j \in 1..s.len : left[j] = s.mem[j]
  BY <1>1, <1>9, SubSeqProperties
<1>11. Queued \subseteq Ids
  BY VectorIs DEF Queued
<1> HIDE DEF left
<1>12. left \in Seq(Ids)
  BY <1>10, <1>11, SeqMonotonic
<1>13. IsInjective(left)
  <2>1. \A j \in 1..s.len : j \in 1..n /\ j <= s.len
    BY <1>1, <1>9
  <2>2. \A j, k \in 1..Len(left) : left[j] = left[k] => j = k
    BY <1>8, <1>10, <2>1
  <2> QED
    BY <1>12, <2>2, VectorIs
<1>14. Range(left) \subseteq Queued
  <2>1. \A j \in 1..s.len : s.mem[j] \in Queued
    BY <1>1, <1>9
  <2> QED
    BY <1>10, <1>12, <2>1, VectorIs
<1> QED
  BY <1>7, <1>12, <1>13, <1>14 DEF left

(* While the last task is not due, the loop never reads past the end that  *)
(* matters: what it finds there are copies of that task.  An erase makes   *)
(* it skip one task, the successor of the one erased.                      *)
LEMMA PurgeRest ==
  ASSUME tasks \in Seq(Ids), IsInjective(tasks), tasks # <<>>,
         ~Purgeable(tasks[Len(tasks)])
  PROVE  LET left == SubSeq(PurgeLoop.mem, 1, PurgeLoop.len)
         IN  /\ ~PurgeLoop.past
             /\ \A x \in Queued : ~Purgeable(x) => x \in Range(left)
             /\ \A p \in 1..Len(tasks) : Purgeable(tasks[p]) /\ tasks[p] \in Range(left)
                                           => p > 1 /\ Purgeable(tasks[p - 1])
<1> DEFINE n == Len(tasks)
<1>1. /\ n \in Nat /\ n \in 1..n /\ \A i \in 1..n : tasks[i] \in Queued
      /\ \A i, j \in 1..n : tasks[i] = tasks[j] => i = j
      /\ \A x \in Queued : \E i \in 1..n : x = tasks[i]
  <2>1. n # 0
    BY EmptySeq
  <2> QED
    BY <2>1, VectorIs DEF Queued
<1>2. PICK f : Purges(f) /\ PurgeLoop = f[n]
  BY LoopPurges
<1>3. f \in [0..n -> Memory] /\ f[0] = Before /\ \A i \in 1..n : f[i] = PurgeRound(f[i - 1], i)
  BY <1>2 DEF Purges
<1> DEFINE Erased(s) == n - s.len
           Ahead(i, s) == \A j \in 1..n : j > i =>
                             s.mem[j] = IF j <= s.len THEN tasks[j + Erased(s)] ELSE tasks[n]
           Once(s) == \A j, k \in 1..n : j <= s.len /\ k <= s.len /\ s.mem[j] = s.mem[k] => j = k
           Rest(s) == \A x \in Queued : ~Purgeable(x) => \E j \in 1..n : j <= s.len /\ s.mem[j] = x
           Skipped(i, s) ==
               \A p, j \in 1..n :
                  p <= i + Erased(s) /\ j <= s.len /\ s.mem[j] = tasks[p] /\ Purgeable(tasks[p])
                     => p > 1 /\ Purgeable(tasks[p - 1])
           Good(i, s) == ~s.past /\ Ahead(i, s) /\ Once(s) /\ Rest(s) /\ Skipped(i, s)
           S == {i \in 0..n : Good(i, f[i])}
<1>4. 0 \in S
  <2>1. f[0].len = n /\ f[0].mem = tasks /\ ~f[0].past /\ Erased(f[0]) = 0
    BY <1>1, <1>3 DEF Before
  <2>2. Ahead(0, f[0]) /\ Once(f[0]) /\ Skipped(0, f[0])
    BY <1>1, <2>1
  <2>3. Rest(f[0])
    <3>1. ASSUME NEW x \in Queued PROVE \E j \in 1..n : j <= n /\ tasks[j] = x
      BY <1>1
    <3> QED
      BY <2>1, <3>1
  <2> QED
    BY <1>1, <2>1, <2>2, <2>3
<1>5. ASSUME NEW i \in 1..n, i - 1 \in S PROVE i \in S
  <2>1. PICK s \in Memory : s = f[i - 1]
    <3>1. i - 1 \in 0..n
      BY <1>1
    <3> QED
      BY <1>3, <3>1
  <2>2. Good(i - 1, s) /\ f[i] = PurgeRound(s, i) /\ i \in 0..n
    BY <1>1, <1>3, <1>5, <2>1
  <2>3. s.len \in Int /\ s.len <= n
    BY DEF Memory
  <2>4. s.mem[i] = IF i <= s.len THEN tasks[i + Erased(s)] ELSE tasks[n]
    BY <1>1, <2>2
  <2>5. CASE Purgeable(s.mem[i])
    <3>1. i < s.len /\ s.mem[i] = tasks[i + Erased(s)] /\ i + Erased(s) \in 1..n
      BY <1>1, <2>3, <2>4, <2>5
    <3>2. PICK r : r = PurgeRound(s, i)
      OBVIOUS
    <3>3. /\ r.len = s.len - 1 /\ (r.past <=> s.past \/ i > s.len)
          /\ \A j \in 1..n : r.mem[j] = IF i <= j /\ j < s.len THEN s.mem[j + 1] ELSE s.mem[j]
      BY <2>5, <3>2, RoundIs
    <3>4. ~r.past /\ Erased(r) = Erased(s) + 1
      BY <1>1, <2>2, <2>3, <3>1, <3>3
    <3>5. Ahead(i, r)
      <4>1. ASSUME NEW j \in 1..n, j > i
            PROVE  r.mem[j] = IF j <= r.len THEN tasks[j + Erased(r)] ELSE tasks[n]
        <5>1. CASE j < s.len
          <6>1. j + 1 \in 1..n /\ j + 1 > i - 1 /\ j + 1 <= s.len /\ r.mem[j] = s.mem[j + 1]
            BY <1>1, <2>3, <3>3, <4>1, <5>1
          <6>2. s.mem[j + 1] = tasks[(j + 1) + Erased(s)]
            BY <2>2, <6>1
          <6>3. (j + 1) + Erased(s) = j + Erased(r) /\ j <= r.len
            BY <1>1, <2>3, <3>3, <3>4, <5>1
          <6> QED
            BY <6>1, <6>2, <6>3
        <5>2. CASE ~(j < s.len)
          <6>1. r.mem[j] = s.mem[j] /\ j > i - 1 /\ ~(j <= r.len)
            BY <1>1, <2>3, <3>3, <4>1, <5>2
          <6>2. j <= s.len => j + Erased(s) = n
            BY <1>1, <2>3, <5>2
          <6>3. s.mem[j] = tasks[n]
            BY <2>2, <6>1, <6>2
          <6> QED
            BY <6>1, <6>3
        <5> QED
          BY <5>1, <5>2
      <4> QED
        BY <4>1
    <3>6. ASSUME NEW j \in 1..n, j <= r.len
          PROVE  \E a \in 1..n : /\ a = (IF i <= j THEN j + 1 ELSE j) /\ a # i
                                 /\ a <= s.len /\ r.mem[j] = s.mem[a]
      <4>1. CASE i <= j
        <5>1. j + 1 \in 1..n /\ j + 1 # i /\ j + 1 <= s.len /\ j < s.len
          BY <1>1, <2>3, <3>3, <3>6, <4>1
        <5> QED
          BY <3>3, <4>1, <5>1
      <4>2. CASE ~(i <= j)
        <5>1. j # i /\ j <= s.len /\ r.mem[j] = s.mem[j]
          BY <1>1, <2>3, <3>3, <3>6, <4>2
        <5> QED
          BY <4>2, <5>1
      <4> QED
        BY <4>1, <4>2
    <3>7. Once(r)
      <4>1. ASSUME NEW j \in 1..n, NEW k \in 1..n, j <= r.len, k <= r.len, r.mem[j] = r.mem[k]
            PROVE  j = k
        <5>1. PICK a \in 1..n : /\ a = (IF i <= j THEN j + 1 ELSE j) /\ a <= s.len
                                 /\ r.mem[j] = s.mem[a]
          BY <3>6, <4>1
        <5>2. PICK b \in 1..n : /\ b = (IF i <= k THEN k + 1 ELSE k) /\ b <= s.len
                                 /\ r.mem[k] = s.mem[b]
          BY <3>6, <4>1
        <5>3. s.mem[a] = s.mem[b]
          BY <4>1, <5>1, <5>2
        <5>4. \A c, d \in 1..n : c <= s.len /\ d <= s.len /\ s.mem[c] = s.mem[d] => c = d
          BY <2>2
        <5>5. a = b
          BY <5>1, <5>2, <5>3, <5>4
        <5> QED
          BY <5>1, <5>2, <5>5
      <4> QED
        BY <4>1
    <3>8. Rest(r)
      <4>1. ASSUME NEW x \in Queued, ~Purgeable(x) PROVE \E j \in 1..n : j <= r.len /\ r.mem[j] = x
        <5>1. PICK j \in 1..n : j <= s.len /\ s.mem[j] = x
          BY <2>2, <4>1
        <5>2. j # i
          BY <2>5, <4>1, <5>1
        <5>3. CASE j < i
          <6>1. j <= r.len /\ r.mem[j] = s.mem[j]
            BY <1>1, <2>3, <3>1, <3>3, <5>3
          <6> QED
            BY <5>1, <6>1
        <5>4. CASE i < j
          <6>1. j - 1 \in 1..n /\ j - 1 <= r.len /\ i <= j - 1 /\ j - 1 < s.len /\ (j - 1) + 1 = j
            BY <1>1, <2>3, <3>3, <5>1, <5>4
          <6>2. r.mem[j - 1] = s.mem[j]
            BY <3>3, <6>1
          <6> QED
            BY <5>1, <6>1, <6>2
        <5> QED
          BY <5>2, <5>3, <5>4
      <4> QED
        BY <4>1
    <3>9. Skipped(i, r)
      <4>1. ASSUME NEW p \in 1..n, NEW j \in 1..n, p <= i + Erased(r), j <= r.len,
                   r.mem[j] = tasks[p], Purgeable(tasks[p])
            PROVE  p > 1 /\ Purgeable(tasks[p - 1])
        <5>1. PICK a \in 1..n : a # i /\ a <= s.len /\ r.mem[j] = s.mem[a]
          BY <3>6, <4>1
        <5>2. CASE p <= (i - 1) + Erased(s)
          <6>1. a <= s.len /\ s.mem[a] = tasks[p]
            BY <4>1, <5>1
          <6>2. \A q, k \in 1..n :
                   q <= (i - 1) + Erased(s) /\ k <= s.len /\ s.mem[k] = tasks[q] /\ Purgeable(tasks[q])
                      => q > 1 /\ Purgeable(tasks[q - 1])
            BY <2>2
          <6> HIDE DEF Erased
          <6>3. a \in 1..n /\ p \in 1..n
            BY <5>1
          <6>4. p <= (i - 1) + Erased(s) /\ a <= s.len /\ s.mem[a] = tasks[p] /\ Purgeable(tasks[p])
                   => p > 1 /\ Purgeable(tasks[p - 1])
            BY <6>2, <6>3, Zenon
          <6> QED
            BY <4>1, <5>2, <6>1, <6>4, Zenon
        <5>3. CASE p = i + Erased(s)
          <6>1. s.mem[a] = s.mem[i] /\ i <= s.len
            <7>1. i <= s.len
              BY <2>3, <3>1
            <7>2. s.mem[a] = tasks[p] /\ s.mem[i] = tasks[i + Erased(s)]
              BY <3>1, <4>1, <5>1
            <7> HIDE DEF Erased
            <7> QED
              BY <5>3, <7>1, <7>2, Zenon
          <6>2. a = i
            BY <2>2, <5>1, <6>1
          <6> QED
            BY <5>1, <6>2
        <5>4. CASE p = i + Erased(s) + 1
          <6>1. p > 1 /\ p - 1 = i + Erased(s)
            BY <1>1, <2>3, <5>4
          <6> QED
            BY <2>5, <3>1, <6>1
        <5>5. Erased(s) \in Int /\ p <= i + Erased(s) + 1
          BY <1>1, <2>3, <3>4, <4>1
        <5>6. p <= (i - 1) + Erased(s) \/ p = i + Erased(s) \/ p = i + Erased(s) + 1
          <6> HIDE DEF Erased
          <6> QED
            BY <5>5
        <5> QED
          BY <5>2, <5>3, <5>4, <5>6
      <4> QED
        BY <4>1
    <3> HIDE DEF Ahead, Once, Rest, Skipped
    <3> QED
      BY <2>2, <3>2, <3>4, <3>5, <3>7, <3>8, <3>9
  <2>6. CASE ~Purgeable(s.mem[i])
    <3>1. f[i] = s
      BY <2>2, <2>6 DEF PurgeRound
    <3>2. Ahead(i, s)
      <4>1. \A j \in 1..n : j > i => j > i - 1
        BY <1>1
      <4> QED
        BY <2>2, <4>1
    <3>3. Skipped(i, s)
      <4>1. ASSUME NEW p \in 1..n, NEW j \in 1..n, p <= i + Erased(s), j <= s.len,
                   s.mem[j] = tasks[p], Purgeable(tasks[p])
            PROVE  p > 1 /\ Purgeable(tasks[p - 1])
        <5>1. CASE p <= (i - 1) + Erased(s)
          BY <2>2, <4>1, <5>1
        <5>2. CASE p = i + Erased(s)
          <6>1. i <= s.len
            BY <1>1, <2>3, <5>2
          <6> QED
            BY <2>4, <2>6, <4>1, <5>2, <6>1
        <5>3. p <= (i - 1) + Erased(s) \/ p = i + Erased(s)
          <6>1. Erased(s) \in Int /\ p <= i + Erased(s)
            BY <1>1, <2>3, <4>1
          <6> HIDE DEF Erased
          <6> QED
            BY <6>1
        <5> QED
          BY <5>1, <5>2, <5>3
      <4> QED
        BY <4>1
    <3> HIDE DEF Ahead, Once, Rest, Skipped
    <3> QED
      BY <2>2, <3>1, <3>2, <3>3
  <2> QED
    BY <2>5, <2>6
<1>6. n \in S
  <2>1. \A i \in 1..n : i - 1 \in S => i \in S
    BY <1>5
  <2>2. n \in 0..n
    BY <1>1
  <2> HIDE DEF S
  <2> QED
    BY <1>1, <1>4, <2>1, <2>2, UpTo
<1>7. PICK s \in Memory : s = PurgeLoop
  BY <1>1, <1>2, <1>3
<1>8. Good(n, s)
  BY <1>2, <1>6, <1>7
<1>9. s.len \in 0..n /\ s.mem \in [1..n -> Queued]
  <2>1. s.len \in Int /\ s.len <= n /\ s.mem \in [1..n -> Queued]
    BY DEF Memory
  <2>2. \E j \in 1..n : j <= s.len
    BY <1>1, <1>8
  <2> QED
    BY <1>1, <2>1, <2>2
<1> DEFINE left == SubSeq(s.mem, 1, s.len)
<1>10. /\ left \in Seq(Queued) /\ Len(left) = s.len
       /\ \A j \in 1..s.len : left[j] = s.mem[j]
  BY <1>1, <1>9, SubSeqProperties
<1>11. left \in Seq(Ids)
  <2>1. Queued \subseteq Ids
    BY VectorIs DEF Queued
  <2> HIDE DEF left
  <2> QED
    BY <1>10, <2>1, SeqMonotonic
<1> HIDE DEF left
<1>12. Range(left) = {s.mem[j] : j \in 1..s.len}
  <2>1. DOMAIN left = 1..s.len
    BY <1>10, <1>11, VectorIs
  <2> QED
    BY <1>10, <2>1 DEF Range
<1>13. \A j \in 1..n : j <= s.len <=> j \in 1..s.len
  BY <1>1, <1>9
<1>14. ASSUME NEW x \in Queued, ~Purgeable(x) PROVE x \in Range(left)
  <2>1. PICK j \in 1..n : j <= s.len /\ s.mem[j] = x
    BY <1>8, <1>14
  <2> QED
    BY <1>12, <1>13, <2>1
<1>15. ASSUME NEW p \in 1..n, Purgeable(tasks[p]), tasks[p] \in Range(left)
       PROVE  p > 1 /\ Purgeable(tasks[p - 1])
  <2>1. PICK j \in 1..s.len : tasks[p] = s.mem[j]
    BY <1>12, <1>15
  <2>2. j \in 1..n /\ j <= s.len /\ p <= n + Erased(s)
    BY <1>1, <1>9
  <2> QED
    BY <1>8, <1>15, <2>1, <2>2
<1> QED
  BY <1>7, <1>8, <1>14, <1>15 DEF left

(* With one task due at most, the stale size does no harm: the loop erases *)
(* that task, goes on over the tail it has moved down, and reads the last  *)
(* slot, which is not due, once more.                                      *)
LEMMA PurgeOne ==
  ASSUME tasks \in Seq(Ids), IsInjective(tasks),
         \A a, b \in Queued : Purgeable(a) /\ Purgeable(b) => a = b
  PROVE  LET left == SubSeq(PurgeLoop.mem, 1, PurgeLoop.len)
         IN  ~PurgeLoop.past /\ Range(left) = {id \in Queued : ~Purgeable(id)}
<1> DEFINE n == Len(tasks)
<1>1. /\ n \in Nat /\ \A i \in 1..n : tasks[i] \in Queued
      /\ \A i, j \in 1..n : tasks[i] = tasks[j] => i = j
      /\ \A x \in Queued : \E i \in 1..n : x = tasks[i]
  BY VectorIs DEF Queued
<1>2. PICK f : Purges(f) /\ PurgeLoop = f[n]
  BY LoopPurges
<1>3. f \in [0..n -> Memory] /\ f[0] = Before /\ \A i \in 1..n : f[i] = PurgeRound(f[i - 1], i)
  BY <1>2 DEF Purges
<1> DEFINE None1(i, s) == /\ s.len = n /\ \A j \in 1..n : s.mem[j] = tasks[j]
                          /\ \A j \in 1..i : ~Purgeable(tasks[j])
           Gone(k, s) == /\ Purgeable(tasks[k]) /\ s.len = n - 1
                         /\ \A j \in 1..n : s.mem[j] = IF k <= j /\ j < n THEN tasks[j + 1] ELSE tasks[j]
           Good(i, s) == ~s.past /\ (None1(i, s) \/ \E k \in 1..i : Gone(k, s))
           S == {i \in 0..n : Good(i, f[i])}
<1>4. 0 \in S
  BY <1>1, <1>3 DEF Before
<1>5. ASSUME NEW i \in 1..n, i - 1 \in S PROVE i \in S
  <2>1. PICK s \in Memory : s = f[i - 1]
    <3>1. i - 1 \in 0..n
      BY <1>1
    <3> QED
      BY <1>3, <3>1
  <2>2. Good(i - 1, s) /\ f[i] = PurgeRound(s, i) /\ i \in 0..n
    BY <1>1, <1>3, <1>5, <2>1
  <2>3. \A j \in 1..i : j \in 1..(i - 1) \/ j = i
    BY <1>1
  <2>4. CASE None1(i - 1, s) /\ ~Purgeable(tasks[i])
    <3>1. f[i] = s
      BY <2>2, <2>4 DEF PurgeRound
    <3>2. None1(i, s)
      BY <2>3, <2>4
    <3> HIDE DEF None1, Gone
    <3> QED
      BY <2>2, <3>1, <3>2
  <2>5. CASE None1(i - 1, s) /\ Purgeable(tasks[i])
    <3>1. PICK r : r = PurgeRound(s, i)
      OBVIOUS
    <3>2. /\ r.len = s.len - 1 /\ (r.past <=> s.past \/ i > s.len)
          /\ \A j \in 1..n : r.mem[j] = IF i <= j /\ j < s.len THEN s.mem[j + 1] ELSE s.mem[j]
      BY <2>5, <3>1, RoundIs
    <3>3. ~r.past
      BY <1>1, <2>2, <2>5, <3>2
    <3>4. \A j \in 1..n : j < n => j + 1 \in 1..n
      BY <1>1
    <3>5. Gone(i, r)
      BY <2>5, <3>2, <3>4
    <3> HIDE DEF None1, Gone
    <3> QED
      BY <2>2, <3>1, <3>3, <3>5
  <2>6. ASSUME NEW k \in 1..(i - 1), Gone(k, s) PROVE i \in S
    <3>1. PICK j \in 1..n : s.mem[i] = tasks[j] /\ j # k
      <4>1. CASE i < n
        <5>1. i + 1 \in 1..n /\ s.mem[i] = tasks[i + 1] /\ i + 1 # k
          BY <1>1, <2>6, <4>1
        <5> QED
          BY <5>1
      <4>2. CASE ~(i < n)
        BY <1>1, <2>6, <4>2
      <4> QED
        BY <4>1, <4>2
    <3>2. ~Purgeable(s.mem[i])
      <4>1. k \in 1..n /\ Purgeable(tasks[k]) /\ tasks[j] # tasks[k]
        BY <1>1, <2>6, <3>1
      <4> QED
        BY <1>1, <3>1, <4>1
    <3>3. f[i] = s /\ k \in 1..i
      BY <1>1, <2>2, <3>2 DEF PurgeRound
    <3> HIDE DEF None1, Gone
    <3> QED
      BY <2>2, <2>6, <3>3
  <2> QED
    <3> HIDE DEF None1, Gone, S
    <3> QED
      BY <2>2, <2>4, <2>5, <2>6
<1>6. n \in S
  <2>1. \A i \in 1..n : i - 1 \in S => i \in S
    BY <1>5
  <2>2. n \in 0..n
    BY <1>1
  <2> HIDE DEF S
  <2> QED
    BY <1>1, <1>4, <2>1, <2>2, UpTo
<1>7. PICK s \in Memory : s = PurgeLoop
  BY <1>1, <1>2, <1>3
<1>8. Good(n, s)
  BY <1>2, <1>6, <1>7
<1>9. s.len \in 0..n /\ s.mem \in [1..n -> Queued]
  BY <1>1, <1>8 DEF Memory
<1> DEFINE left == SubSeq(s.mem, 1, s.len)
<1>10. /\ left \in Seq(Queued) /\ Len(left) = s.len
       /\ \A j \in 1..s.len : left[j] = s.mem[j]
  BY <1>1, <1>9, SubSeqProperties
<1>11. left \in Seq(Ids)
  <2>1. Queued \subseteq Ids
    BY VectorIs DEF Queued
  <2> HIDE DEF left
  <2> QED
    BY <1>10, <2>1, SeqMonotonic
<1> HIDE DEF left
<1>12. Range(left) = {s.mem[j] : j \in 1..s.len}
  <2>1. DOMAIN left = 1..s.len
    BY <1>10, <1>11, VectorIs
  <2> QED
    BY <1>10, <2>1 DEF Range
<1>13. {s.mem[j] : j \in 1..s.len} = {id \in Queued : ~Purgeable(id)}
  <2>1. CASE None1(n, s)
    BY <1>1, <2>1
  <2>2. ASSUME NEW k \in 1..n, Gone(k, s)
        PROVE  {s.mem[j] : j \in 1..s.len} = {id \in Queued : ~Purgeable(id)}
    <3>1. ASSUME NEW j \in 1..s.len PROVE s.mem[j] \in Queued /\ ~Purgeable(s.mem[j])
      <4>1. PICK m \in 1..n : s.mem[j] = tasks[m] /\ m # k
        <5>1. j \in 1..n /\ j < n /\ j + 1 \in 1..n
          BY <1>1, <2>2
        <5> QED
          BY <2>2, <5>1
      <4> QED
        BY <1>1, <2>2, <4>1
    <3>2. ASSUME NEW id \in Queued, ~Purgeable(id) PROVE \E j \in 1..s.len : id = s.mem[j]
      <4>1. PICK m \in 1..n : id = tasks[m]
        BY <1>1
      <4>2. m # k
        BY <2>2, <3>2, <4>1
      <4>3. CASE m < k
        <5>1. m \in 1..s.len /\ s.mem[m] = tasks[m]
          BY <1>1, <2>2, <4>3
        <5> QED
          BY <4>1, <5>1
      <4>4. CASE k < m
        <5>1. m - 1 \in 1..n /\ m - 1 \in 1..s.len /\ k <= m - 1 /\ m - 1 < n /\ (m - 1) + 1 = m
          BY <1>1, <2>2, <4>4
        <5>2. s.mem[m - 1] = tasks[m]
          BY <2>2, <5>1
        <5> QED
          BY <4>1, <5>1, <5>2
      <4> QED
        BY <4>2, <4>3, <4>4
    <3> QED
      BY <3>1, <3>2
  <2> HIDE DEF None1, Gone
  <2> QED
    BY <1>8, <2>1, <2>2
<1> QED
  BY <1>7, <1>8, <1>12, <1>13 DEF left

-----------------------------------------------------------------------------
(* The invariant                                                           *)

(* A task between its stamp and its push is in one writer's hands only,    *)
(* and the role request in the hands of send_thread.                       *)
InHand ==
    /\ \A w \in Writers : adding[w] # None => adding[w] \notin Queued
    /\ \A v, w \in Writers : adding[v] = adding[w] /\ adding[v] # None => v = w
    /\ \A w \in Writers : adding[w] # None => (info[adding[w]].type = "ROLE" <=> w = Sender)
    /\ adding[Sender] # None => loop = "role"

(* What has been sent, and what is about to be, is paid for by attempts.   *)
(* A response is paid for by leaving the queue.                            *)
Sent(id) == sends[id] + (IF hand = id THEN 1 ELSE 0)
Paid ==
    /\ \A id \in Ids : IF IsResponse(info[id].type) THEN Sent(id) <= 1
                       ELSE Sent(id) <= info[id].attempts
    /\ \A id \in Stamped : IsResponse(info[id].type) => Sent(id) = 0

Asking == {id \in Stamped : info[id].type = "ROLE" /\ Live(id)}
OneAsks == \A a, b \in Asking : a = b

IInv == TypeOK /\ InHand /\ Paid /\ OneAsks

LEMMA InitInv == Init => IInv
<1> SUFFICES ASSUME Init PROVE IInv
  OBVIOUS
<1>1. Queued = {} /\ Stamped = {}
  BY DEF Init, Queued, Stamped, Range
<1>2. TypeOK
  <2>1. tasks \in Seq(Ids) /\ IsInjective(tasks)
    BY DEF Init, IsInjective
  <2>2. Ordered
    BY <1>1 DEF Init, Ordered
  <2>3. info \in [Ids -> [type : Types, cookie : Cookies, attempts : 0..ATTEMPTS]]
    <3>1. \A c \in Cookies : [type |-> "REQ", cookie |-> c, attempts |-> 0]
                                \in [type : Types, cookie : Cookies, attempts : 0..ATTEMPTS]
      BY TasksAssumption DEF Types
    <3> QED
      BY <3>1 DEF Init
  <2> QED
    BY <2>1, <2>2, <2>3, TasksAssumption DEF Init, TypeOK, None
<1>3. InHand
  BY DEF Init, InHand, Writers
<1>4. Paid
  <2>1. \A id \in Ids : hand # id /\ sends[id] = 0 /\ info[id].type = "REQ" /\ info[id].attempts = 0
    BY TasksAssumption DEF Init, None
  <2> QED
    BY <1>1, <2>1 DEF Paid, Sent, IsResponse
<1>5. OneAsks
  BY <1>1 DEF OneAsks, Asking
<1> QED
  BY <1>2, <1>3, <1>4, <1>5 DEF IInv

(* What a type-correct state is made of, in the terms of the steps below.  *)
LEMMA StateIs ==
  ASSUME TypeOK
  PROVE  /\ tasks \in Seq(Ids) /\ IsInjective(tasks) /\ Ordered
         /\ info \in [Ids -> [type : Types, cookie : Cookies, attempts : 0..ATTEMPTS]]
         /\ adding \in [Writers -> Ids \cup {None}] /\ hand \in Ids \cup {None}
         /\ Stamped = Queued \cup ({adding[w] : w \in Writers} \ {None})
         /\ Queued \subseteq Stamped /\ Stamped \subseteq Ids /\ None \notin Stamped
         /\ Queued \subseteq Ids /\ Sender \in Writers /\ None \notin Ids
         /\ ATTEMPTS \in Nat \ {0} /\ \A i \in 1..Len(tasks) : tasks[i] \in Queued
<1>1. Queued \subseteq Ids /\ \A i \in 1..Len(tasks) : tasks[i] \in Queued
  BY VectorIs DEF TypeOK, Queued
<1>2. Stamped = Queued \cup ({adding[w] : w \in Writers} \ {None})
  BY DEF TypeOK, Stamped, Range
<1>3. None \notin Ids /\ Sender \in Writers /\ ATTEMPTS \in Nat \ {0}
  BY TasksAssumption DEF None, Writers
<1> QED
  BY <1>1, <1>2, <1>3 DEF TypeOK

(* A step that changes neither the vector, nor the writers, nor a task.    *)
LEMMA QuietStep ==
  ASSUME IInv, UNCHANGED <<tasks, adding, info>>, Ordered', TypeOK',
         adding[Sender] # None => loop' = "role", \A id \in Ids : Sent(id)' = Sent(id)
  PROVE  IInv'
<1>1. Queued' = Queued /\ Stamped' = Stamped
  BY DEF Queued, Stamped
<1>2. InHand'
  BY <1>1 DEF IInv, InHand
<1>3. Paid'
  BY <1>1, StateIs DEF IInv, Paid
<1>4. OneAsks'
  BY <1>1 DEF IInv, OneAsks, Asking, Live
<1> QED
  BY <1>2, <1>3, <1>4 DEF IInv

LEMMA StampStep ==
  ASSUME IInv, NEW w \in Writers, NEW id \in Ids, NEW type \in Types, NEW c \in Cookies,
         Stamp(w, id, type, c)
  PROVE  IInv'
<1>1. TypeOK /\ InHand /\ Paid /\ OneAsks
  BY DEF IInv
<1>2. /\ tasks' = tasks /\ aged' = aged /\ loop' = loop /\ hand' = hand /\ crashed' = crashed
      /\ adding[w] = None /\ id \notin Stamped /\ id # hand /\ id # None
      /\ info' = [info EXCEPT ![id] = [type |-> type, cookie |-> c, attempts |-> 0]]
      /\ adding' = [adding EXCEPT ![w] = id] /\ sends' = [sends EXCEPT ![id] = 0]
      /\ older' = older \cup (Stamped \X {id})
  BY <1>1, StateIs DEF Stamp
<1>3. Queued' = Queued
  BY <1>2 DEF Queued
<1>4. adding' \in [Writers -> Ids \cup {None}] /\ adding'[w] = id
      /\ \A v \in Writers : v # w => adding'[v] = adding[v]
  BY <1>1, <1>2, StateIs
<1>5. Stamped' = Stamped \cup {id}
  <2>1. Stamped' = Queued \cup ({adding'[v] : v \in Writers} \ {None})
    BY <1>3, <1>4 DEF Stamped, Range
  <2>2. {adding'[v] : v \in Writers} \ {None} = ({adding[v] : v \in Writers} \ {None}) \cup {id}
    BY <1>2, <1>4
  <2> QED
    BY <1>1, <2>1, <2>2, StateIs
<1>6. /\ info'[id] = [type |-> type, cookie |-> c, attempts |-> 0]
      /\ \A o \in Ids : o # id => info'[o] = info[o]
  BY <1>1, <1>2, StateIs
<1>7. TypeOK'
  <2>1. Ordered'
    BY <1>1, <1>2, <1>5, StampOrdered, StateIs
  <2>2. [type |-> type, cookie |-> c, attempts |-> 0] \in [type : Types, cookie : Cookies, attempts : 0..ATTEMPTS]
    BY TasksAssumption
  <2>3. info' \in [Ids -> [type : Types, cookie : Cookies, attempts : 0..ATTEMPTS]]
    BY <1>1, <1>2, <2>2, StateIs
  <2>4. sends' \in [Ids -> Nat]
    BY <1>1, <1>2 DEF TypeOK
  <2>5. UNCHANGED <<tasks, loop, hand, crashed>>
    BY <1>2
  <2> QED
    BY <1>1, <1>4, <2>1, <2>3, <2>4, <2>5 DEF TypeOK
<1>8. InHand'
  <2>1. \A v \in Writers : v # w /\ adding[v] # None => adding[v] \in Stamped
    BY <1>1, StateIs
  <2>2. \A v \in Writers : adding[v] # None => adding[v] \in Ids /\ adding[v] # id
    BY <1>1, <1>2, StateIs
  <2>3. info'[id].type = "ROLE" <=> w = Sender
    <3>1. info'[id].type = type
      BY <1>6
    <3>2. (w = Sender => type = "ROLE") /\ (w # Sender => type # "ROLE")
      BY Zenon DEF Stamp
    <3> QED
      BY <3>1, <3>2
  <2>4. adding'[Sender] # None => loop' = "role"
    BY <1>1, <1>2, <1>4, StateIs DEF InHand, Stamp
  <2>5. \A v \in Writers : adding'[v] # None => adding'[v] \notin Queued
    BY <1>1, <1>2, <1>4, StateIs DEF InHand
  <2>6. \A u, v \in Writers : adding'[u] = adding'[v] /\ adding'[u] # None => u = v
    BY <1>1, <1>2, <1>4, <2>2 DEF InHand
  <2>7. \A v \in Writers : adding'[v] # None => (info'[adding'[v]].type = "ROLE" <=> v = Sender)
    BY <1>1, <1>4, <1>6, <2>2, <2>3 DEF InHand
  <2> QED
    BY <1>3, <2>4, <2>5, <2>6, <2>7 DEF InHand
<1>9. Paid'
  <2>1. \A o \in Ids : o # id => sends'[o] = sends[o]
    BY <1>1, <1>2 DEF TypeOK
  <2>2. sends'[id] = 0
    BY <1>1, <1>2 DEF TypeOK
  <2>3. \A o \in Ids : o # id => Sent(o)' = Sent(o)
    BY <1>2, <2>1 DEF Sent
  <2>4. Sent(id)' = 0
    BY <1>2, <2>2 DEF Sent
  <2>5. info'[id].attempts = 0
    BY <1>6
  <2> QED
    BY <1>1, <1>5, <1>6, <2>3, <2>4, <2>5, StateIs DEF Paid
<1>10. OneAsks'
  <2>1. \A o \in Stamped : info'[o] = info[o]
    BY <1>1, <1>2, <1>6, StateIs
  <2>2. CASE type # "ROLE"
    <3>1. Asking' = Asking
      BY <1>2, <1>5, <1>6, <2>1, <2>2 DEF Asking, Live
    <3> QED
      BY <1>1, <3>1 DEF OneAsks
  <2>3. CASE type = "ROLE"
    <3>1. w = Sender /\ ~exists("ROLE")
      BY <2>3 DEF Stamp
    <3>2. Asking = {}
      BY <1>1, <1>2, <3>1, StateIs DEF Asking, exists, InHand
    <3>3. Asking' \subseteq Asking \cup {id}
      BY <1>5, <2>1 DEF Asking, Live
    <3> QED
      BY <3>2, <3>3 DEF OneAsks
  <2> QED
    BY <2>2, <2>3
<1> QED
  BY <1>7, <1>8, <1>9, <1>10 DEF IInv

LEMMA PushStep ==
  ASSUME IInv, NEW w \in Writers, Push(w)
  PROVE  IInv'
<1>1. TypeOK /\ InHand /\ Paid /\ OneAsks
  BY DEF IInv
<1>. PICK id \in Ids : id = adding[w]
  BY <1>1, StateIs DEF Push
<1>2. /\ id # None /\ id \notin Queued /\ tasks' = Append(tasks, id)
      /\ adding' = [adding EXCEPT ![w] = None] /\ loop' = IF w = Sender THEN "first" ELSE loop
      /\ info' = info /\ older' = older /\ aged' = aged /\ hand' = hand
      /\ crashed' = crashed /\ sends' = sends
  BY <1>1 DEF Push, InHand
<1>3. tasks' \in Seq(Ids) /\ IsInjective(tasks') /\ Queued' = Queued \cup {id}
  BY <1>1, <1>2, PushIsAppend, StateIs DEF Queued
<1>4. /\ adding' \in [Writers -> Ids \cup {None}] /\ adding'[w] = None
      /\ \A v \in Writers : v # w => adding'[v] = adding[v]
  BY <1>1, <1>2, StateIs
<1>5. Stamped' = Stamped
  <2>1. Stamped' = Queued \cup {id} \cup ({adding'[v] : v \in Writers} \ {None})
    BY <1>3, <1>4 DEF Stamped, Range
  <2>2. ({adding'[v] : v \in Writers} \ {None}) \cup {id} = {adding[v] : v \in Writers} \ {None}
    BY <1>2, <1>4
  <2> QED
    BY <1>1, <2>1, <2>2, StateIs
<1>6. TypeOK'
  <2>1. Ordered'
    BY <1>1, <1>2, <1>5, StateIs DEF Ordered, Older
  <2>2. w = Sender => loop = "role"
    BY <1>1, <1>2 DEF InHand
  <2> QED
    BY <1>1, <1>2, <1>3, <1>4, <2>1, <2>2 DEF TypeOK
<1>7. InHand'
  BY <1>1, <1>2, <1>3, <1>4, StateIs DEF InHand
<1>8. \A o \in Ids : Sent(o)' = Sent(o)
  BY <1>2 DEF Sent
<1>9. Paid'
  BY <1>1, <1>2, <1>5, <1>8, StateIs DEF Paid
<1>10. OneAsks'
  BY <1>1, <1>2, <1>5 DEF OneAsks, Asking, Live
<1> QED
  BY <1>6, <1>7, <1>9, <1>10 DEF IInv

(* Tasks leave the vector, and their stamps with them.                     *)
LEMMA Leave ==
  ASSUME IInv, tasks' \in Seq(Ids), Queued' \subseteq Queued, Forget(Queued \ Queued'),
         adding' = adding
  PROVE  Stamped' = Stamped \ (Queued \ Queued') /\ Ordered'
<1>1. TypeOK /\ InHand
  BY DEF IInv
<1>2. Stamped' = Queued' \cup ({adding[w] : w \in Writers} \ {None})
  BY <1>1, StateIs DEF Stamped, Range
<1>3. Stamped' = Stamped \ (Queued \ Queued')
  BY <1>1, <1>2, StateIs DEF InHand
<1> QED
  BY <1>1, <1>3, ForgetOrdered, StateIs

LEMMA EraseStep ==
  ASSUME IInv, tasks' \in Seq(Ids), IsInjective(tasks'), Queued' \subseteq Queued,
         Forget(Queued \ Queued'), crashed' \in BOOLEAN,
         UNCHANGED <<info, adding, loop, hand, sends>>
  PROVE  IInv'
<1>1. TypeOK /\ InHand /\ Paid /\ OneAsks
  BY DEF IInv
<1>2. Ordered' /\ Stamped' \subseteq Stamped
  BY Leave
<1>3. TypeOK'
  BY <1>1, <1>2 DEF TypeOK
<1>4. InHand'
  BY <1>1 DEF InHand
<1>5. Paid'
  BY <1>1, <1>2 DEF Paid, Sent
<1>6. OneAsks'
  BY <1>1, <1>2 DEF OneAsks, Asking, Live
<1> QED
  BY <1>3, <1>4, <1>5, <1>6 DEF IInv

LEMMA RmCookieStep ==
  ASSUME IInv, NEW c, rm_cookie(c)
  PROVE  IInv'
<1>1. tasks \in Seq(Ids) /\ IsInjective(tasks) /\ DOMAIN tasks = 1..Len(tasks)
  BY VectorIs DEF IInv, TypeOK
<1>2. PICK i \in 1..Len(tasks) : tasks' = RemoveAt(tasks, i) /\ Forget({tasks[i]})
  BY <1>1 DEF rm_cookie
<1>3. tasks' \in Seq(Ids) /\ IsInjective(tasks') /\ Queued' = Queued \ {tasks[i]}
  BY <1>1, <1>2, EraseIs DEF Queued
<1>4. Queued \ Queued' = {tasks[i]}
  BY <1>1, <1>3, VectorIs DEF Queued
<1>5. crashed' \in BOOLEAN /\ UNCHANGED <<info, adding, loop, hand, sends>>
  BY DEF rm_cookie, IInv, TypeOK
<1> QED
  BY <1>2, <1>3, <1>4, <1>5, EraseStep

LEMMA CheckStep ==
  ASSUME IInv, check
  PROVE  IInv'
<1>1. TypeOK /\ InHand /\ tasks \in Seq(Ids) /\ IsInjective(tasks)
  BY DEF IInv, TypeOK
<1>2. CASE tasks' = SubSeq(PurgeLoop.mem, 1, PurgeLoop.len) /\ Forget(Queued \ Range(tasks')) /\ crashed' = FALSE
  <2>1. tasks' \in Seq(Ids) /\ IsInjective(tasks') /\ Queued' \subseteq Queued /\ Queued' = Range(tasks')
    BY <1>1, <1>2, PurgeIs DEF Queued
  <2>2. UNCHANGED <<info, adding, loop, hand, sends>>
    BY DEF check
  <2> QED
    BY <1>2, <2>1, <2>2, EraseStep
<1>3. CASE crashed' = TRUE /\ UNCHANGED <<tasks, older, aged>>
  <2>1. UNCHANGED <<tasks, older, aged, info, adding, loop, hand, sends>>
    BY <1>3 DEF check
  <2>2. TypeOK' /\ Ordered'
    BY <1>1, <1>3, <2>1 DEF TypeOK, Ordered, Older, Stamped, Queued
  <2>3. \A id \in Ids : Sent(id)' = Sent(id)
    BY <2>1 DEF Sent
  <2>4. adding[Sender] # None => loop' = "role"
    BY <1>1, <2>1 DEF InHand
  <2> QED
    BY <2>1, <2>2, <2>3, <2>4, QuietStep
<1> QED
  BY <1>2, <1>3 DEF check

LEMMA FirstStep ==
  ASSUME IInv, first
  PROVE  IInv'
<1>1. /\ TypeOK /\ InHand /\ Paid /\ OneAsks
      /\ tasks \in Seq(Ids) /\ IsInjective(tasks) /\ Ordered /\ tasks # <<>>
  BY DEF IInv, TypeOK, first
<1>2. loop = "first" /\ hand = None /\ adding[Sender] = None
  BY <1>1, StateIs DEF first, TypeOK, InHand
<1>3. /\ Scan \in 0..Len(tasks) /\ Touched \in 1..Len(tasks)
      /\ Scan # 0 => Live(tasks[Scan]) /\ Touched = Scan
  BY <1>1, ScanIs DEF Touched
<1>. PICK id \in Queued : id = tasks[Touched]
  BY <1>1, <1>3, VectorIs DEF Queued
<1>4. id \in Ids /\ id \in Stamped
  BY <1>1, StateIs
<1>5. /\ Selected # None => Selected = id /\ Live(id)
      /\ hand' = Selected /\ Selected \in Ids \cup {None}
  BY <1>1, <1>3, <1>4 DEF Selected, first
<1>6. /\ adding' = adding /\ crashed' = crashed /\ sends' = sends
      /\ loop' = IF Selected = None THEN "role" ELSE "send"
      /\ info' = [info EXCEPT ![id].attempts = IF @ < ATTEMPTS THEN @ + 1 ELSE @]
  BY DEF first
<1>7. info[id].attempts \in 0..ATTEMPTS /\ ATTEMPTS \in Nat
  BY <1>1, <1>4, StateIs
<1>8. /\ info' \in [Ids -> [type : Types, cookie : Cookies, attempts : 0..ATTEMPTS]]
      /\ \A o \in Ids : o # id => info'[o] = info[o]
      /\ info'[id].type = info[id].type
      /\ info'[id].attempts = IF info[id].attempts < ATTEMPTS THEN info[id].attempts + 1
                              ELSE info[id].attempts
  <2>1. (IF info[id].attempts < ATTEMPTS THEN info[id].attempts + 1 ELSE info[id].attempts) \in 0..ATTEMPTS
    BY <1>7
  <2> QED
    BY <1>1, <1>4, <1>6, <2>1, StateIs
<1>9. /\ tasks' \in Seq(Ids) /\ IsInjective(tasks') /\ Ordered'
      /\ Queued' \subseteq Queued /\ Stamped' \subseteq Stamped
      /\ IsResponse(info[id].type) => id \notin Stamped'
  <2>1. CASE IsResponse(info[id].type)
    <3>1. tasks' = RemoveAt(tasks, Touched) /\ Forget({id})
      BY <2>1 DEF first
    <3>2. tasks' \in Seq(Ids) /\ IsInjective(tasks') /\ Queued' = Queued \ {id}
      BY <1>1, <1>3, <3>1, EraseIs DEF Queued
    <3>3. Queued \ Queued' = {id} /\ Queued' \subseteq Queued
      BY <3>2
    <3>4. Stamped' = Stamped \ {id} /\ Ordered'
      BY <1>6, <3>1, <3>2, <3>3, Leave
    <3> QED
      BY <3>2, <3>3, <3>4
  <2>2. CASE ~IsResponse(info[id].type)
    <3>1. tasks' = tasks /\ Restamp(id)
      BY <2>2 DEF first
    <3>2. Queued' = Queued /\ Stamped' = Stamped
      BY <1>6, <3>1 DEF Queued, Stamped
    <3> QED
      BY <1>1, <1>4, <2>2, <3>1, <3>2, RestampOrdered
  <2> QED
    BY <2>1, <2>2
<1>10. TypeOK'
  BY <1>1, <1>5, <1>6, <1>8, <1>9 DEF TypeOK
<1>11. InHand'
  <2>1. \A w \in Writers : adding[w] # None => adding[w] # id /\ adding[w] \in Ids
    BY <1>1, StateIs DEF InHand
  <2> QED
    BY <1>1, <1>2, <1>6, <1>8, <1>9, <2>1 DEF InHand
<1>12. Paid'
  <2>1. \A o \in Ids : hand # o
    BY <1>1, <1>2, StateIs
  <2>2. \A o \in Ids : Sent(o) = sends[o] /\ sends[o] \in Nat
    BY <1>1, <2>1 DEF Sent, TypeOK
  <2>3. ASSUME NEW o \in Ids, o # id PROVE Sent(o)' = Sent(o)
    BY <1>5, <1>6, <2>2, <2>3, StateIs, <1>1 DEF Sent
  <2>4. Sent(id)' = sends[id] + IF Selected = id THEN 1 ELSE 0
    BY <1>5, <1>6 DEF Sent
  <2>5. CASE IsResponse(info[id].type)
    <3>1. Sent(id)' <= 1
      BY <1>1, <1>4, <2>2, <2>4, <2>5 DEF Paid
    <3> QED
      BY <1>1, <1>4, <1>8, <1>9, <2>3, <2>5, <3>1, StateIs DEF Paid
  <2>6. CASE ~IsResponse(info[id].type)
    <3>1. sends[id] <= info[id].attempts
      BY <1>1, <1>4, <2>2, <2>6 DEF Paid
    <3>2. Selected = id => info[id].attempts < ATTEMPTS
      BY <1>1, <1>4, <1>5, StateIs DEF Live
    <3>3. Sent(id)' <= info'[id].attempts
      BY <1>4, <1>7, <1>8, <2>2, <2>4, <3>1, <3>2
    <3> QED
      BY <1>1, <1>4, <1>8, <1>9, <2>3, <2>6, <3>3, StateIs DEF Paid
  <2> QED
    BY <2>5, <2>6
<1>13. OneAsks'
  <2>1. \A o \in Ids : Live(o)' => Live(o)
    BY <1>4, <1>7, <1>8 DEF Live
  <2>2. \A o \in Ids : info'[o].type = info[o].type
    BY <1>8
  <2>3. Asking' \subseteq Asking
    BY <1>1, <1>9, <2>1, <2>2, StateIs DEF Asking
  <2> QED
    BY <1>1, <2>3 DEF OneAsks
<1> QED
  BY <1>10, <1>11, <1>12, <1>13 DEF IInv

LEMMA SendStep ==
  ASSUME IInv, no_role_request \/ first_empty \/ send_package \/ Elapse
  PROVE  IInv'
<1>1. TypeOK /\ InHand /\ Ordered /\ UNCHANGED <<tasks, adding, info>>
  BY DEF IInv, TypeOK, no_role_request, first_empty, send_package, Elapse
<1>2. Ordered'
  <2>1. CASE Elapse
    BY <1>1, <2>1, ElapseOrdered
  <2>2. CASE no_role_request \/ first_empty \/ send_package
    <3>1. older' = older /\ aged' = aged /\ Stamped' = Stamped
      BY <1>1, <2>2 DEF no_role_request, first_empty, send_package, Stamped, Queued
    <3> QED
      BY <1>1, <3>1 DEF Ordered, Older
  <2> QED
    BY <2>1, <2>2
<1>3. CASE send_package
  <2>1. hand \in Ids /\ sends \in [Ids -> Nat] /\ hand' = None /\ loop' = "role"
        /\ sends' = [sends EXCEPT ![hand] = @ + 1] /\ crashed' = crashed /\ None \notin Ids
    BY <1>1, <1>3, StateIs DEF send_package, TypeOK
  <2>2. sends' \in [Ids -> Nat]
    BY <2>1
  <2>3. TypeOK'
    BY <1>1, <1>2, <2>1, <2>2 DEF TypeOK
  <2>4. \A id \in Ids : Sent(id)' = Sent(id)
    BY <2>1 DEF Sent
  <2> QED
    BY <1>1, <1>2, <2>1, <2>3, <2>4, QuietStep
<1>4. CASE no_role_request \/ first_empty \/ Elapse
  <2>1. hand' = hand /\ sends' = sends /\ crashed' = crashed
    BY <1>4 DEF no_role_request, first_empty, Elapse
  <2>2. loop' \in {"role", "first", "send"} /\ (loop' = "send" <=> hand # None)
        /\ (adding[Sender] # None => loop' = "role")
    BY <1>1, <1>4 DEF no_role_request, first_empty, Elapse, TypeOK, InHand
  <2>3. TypeOK'
    BY <1>1, <1>2, <2>1, <2>2 DEF TypeOK
  <2>4. \A id \in Ids : Sent(id)' = Sent(id)
    BY <2>1 DEF Sent
  <2> QED
    BY <1>1, <1>2, <2>2, <2>3, <2>4, QuietStep
<1> QED
  BY <1>3, <1>4

LEMMA NextInv == IInv /\ [Next]_vars => IInv'
<1> SUFFICES ASSUME IInv, [Next]_vars PROVE IInv'
  OBVIOUS
<1>1. ASSUME NEW w \in Writers, NEW id \in Ids, NEW type \in Types, NEW c \in Cookies, Stamp(w, id, type, c)
      PROVE  IInv'
  BY <1>1, StampStep
<1>2. ASSUME NEW w \in Writers, Push(w) PROVE IInv'
  BY <1>2, PushStep
<1>3. ASSUME NEW c \in Cookies, rm_cookie(c) PROVE IInv'
  BY <1>3, RmCookieStep
<1>4. CASE first
  BY <1>4, FirstStep
<1>5. CASE no_role_request \/ first_empty \/ send_package \/ Elapse
  BY <1>5, SendStep
<1>6. CASE check
  BY <1>6, CheckStep
<1>7. CASE UNCHANGED vars
  <2>1. TypeOK' /\ Ordered'
    BY <1>7 DEF vars, IInv, TypeOK, Ordered, Older, Stamped, Queued
  <2>2. UNCHANGED <<tasks, adding, info>> /\ \A id \in Ids : Sent(id)' = Sent(id)
    BY <1>7 DEF vars, Sent
  <2>3. adding[Sender] # None => loop' = "role"
    BY <1>7 DEF vars, IInv, InHand
  <2> QED
    BY <2>1, <2>2, <2>3, QuietStep
<1> QED
  BY <1>1, <1>2, <1>3, <1>4, <1>5, <1>6, <1>7 DEF Next, send_thread

THEOREM TasksInvariant == Spec => []IInv
<1> QED
  BY InitInv, NextInv, PTL DEF Spec

(* Every variable of the queue and of the send loop keeps its range, no    *)
(* task is in the vector twice, and the stamps are in a linear order of    *)
(* which the aged ones are the older part.                                 *)
THEOREM TypeCorrect == Spec => []TypeOK
<1>1. IInv => TypeOK
  BY DEF IInv
<1> QED
  BY <1>1, TasksInvariant, PTL

(* No request is sent more often than ATTEMPTS times and no response more  *)
(* than once (tasks_handler::first).                                       *)
THEOREM BudgetIsKept == Spec => []SendBudget
<1>1. IInv => SendBudget
  <2> SUFFICES ASSUME IInv, NEW id \in Ids
               PROVE  sends[id] <= IF IsResponse(info[id].type) THEN 1 ELSE ATTEMPTS
    BY DEF SendBudget
  <2>1. TypeOK /\ Paid
    BY DEF IInv
  <2>2. sends[id] \in Nat /\ sends[id] <= Sent(id) /\ Sent(id) \in Nat
    BY <2>1 DEF TypeOK, Sent
  <2>3. info[id].attempts \in 0..ATTEMPTS /\ ATTEMPTS \in Nat
    BY <2>1, StateIs
  <2>4. CASE IsResponse(info[id].type)
    BY <2>1, <2>2, <2>4 DEF Paid
  <2>5. CASE ~IsResponse(info[id].type)
    <3>1. Sent(id) <= info[id].attempts
      BY <2>1, <2>5 DEF Paid
    <3> QED
      BY <2>2, <2>3, <2>5, <3>1
  <2> QED
    BY <2>4, <2>5
<1> QED
  BY <1>1, TasksInvariant, PTL

(* Never are two role requests being retried, although exists() and add()  *)
(* each take the mutex for themselves.                                     *)
THEOREM OneRoleRequest == Spec => []SingleRoleRequest
<1>1. IInv => SingleRoleRequest
  <2> SUFFICES ASSUME IInv PROVE Cardinality(Asking) <= 1
    BY DEF SingleRoleRequest, Asking
  <2>1. CASE Asking = {}
    BY <2>1, FS_EmptySet
  <2>2. CASE Asking # {}
    <3>1. PICK a : Asking = {a}
      BY <2>2 DEF IInv, OneAsks
    <3> QED
      BY <3>1, FS_Singleton
  <2> QED
    BY <2>1, <2>2
<1> QED
  BY <1>1, TasksInvariant, PTL

-----------------------------------------------------------------------------
(* What a step may do                                                      *)

(* The scan of first(), whatever the order of the vector and of the stamps *)
(* and wherever the given-up tasks are, selects no request or response     *)
(* while a ping answer or an older live task is queued.                    *)
THEOREM OldestIsFirst == Spec => OldestFirst
<1> DEFINE Choice(id) == (loop = "first" /\ hand' = id /\ info[id].type # "PONG") =>
                            \A o \in Queued : Live(o) => info[o].type # "PONG" /\ ~Older(o, id)
<1>1. ASSUME IInv, [Next]_vars, NEW id \in Queued PROVE Choice(id)
  <2> SUFFICES ASSUME loop = "first", hand' = id, info[id].type # "PONG",
                      NEW o \in Queued, Live(o)
               PROVE  info[o].type # "PONG" /\ ~Older(o, id)
    OBVIOUS
  <2>1. TypeOK /\ InHand /\ id # None /\ hand = None /\ tasks \in Seq(Ids) /\ Ordered
    BY <1>1, StateIs DEF IInv, TypeOK
  <2>2. first
    <3>1. hand' # hand
      BY <2>1
    <3> QED
      BY <1>1, <3>1 DEF Next, send_thread, vars, Stamp, Push, rm_cookie, no_role_request,
                        first_empty, send_package, check, Elapse
  <2>3. Scan # 0 /\ tasks[Scan] = id /\ tasks # <<>>
    BY <2>1, <2>2 DEF first, Selected
  <2>4. ~Over(Scan) /\ One(Scan) = id
    BY <2>3 DEF Over, Pong, One
  <2>5. PICK j \in 1..Len(tasks) : o = tasks[j]
    BY <2>1, VectorIs DEF Queued
  <2>6. ~Pong(j) /\ ~Older(tasks[j], One(Scan))
    BY <2>1, <2>3, <2>4, <2>5, ScanIs
  <2> QED
    BY <2>4, <2>5, <2>6 DEF Pong
<1>2. IInv /\ [Next]_vars => [\A id \in Queued : Choice(id)]_vars
  BY <1>1
<1> QED
  BY <1>2, TasksInvariant, PTL DEF Spec, OldestFirst

(* A pass of check() does not run off the vector unless its last task is   *)
(* due together with another; otherwise it erases nothing but due tasks,   *)
(* and leaves of them only such as follow another due one.                 *)
THEOREM PurgeIsExact == Spec => PurgeExact
<1> DEFINE n == Len(tasks)
           Apart == tasks[n] \in Due => Due = {tasks[n]}
           Kept == /\ ~crashed'
                   /\ Queued \ Due \subseteq Range(tasks') /\ Range(tasks') \subseteq Queued
                   /\ \A i \in DOMAIN tasks :
                          tasks[i] \in Due \cap Range(tasks') => i > 1 /\ tasks[i - 1] \in Due
<1>1. ASSUME IInv, check, Apart PROVE Kept
  <2> DEFINE left == SubSeq(PurgeLoop.mem, 1, PurgeLoop.len)
  <2>1. tasks \in Seq(Ids) /\ IsInjective(tasks) /\ tasks # <<>>
    BY <1>1 DEF IInv, TypeOK, check
  <2>2. /\ n \in Nat /\ DOMAIN tasks = 1..n /\ n \in 1..n
        /\ \A i \in 1..n : tasks[i] \in Queued
    <3>1. n # 0
      BY <2>1, EmptySeq
    <3> QED
      BY <2>1, <3>1, VectorIs DEF Queued
  <2>3. \A x : x \in Due <=> x \in Queued /\ Purgeable(x)
    BY DEF Due, Purgeable
  <2>4. Range(left) \subseteq Queued
    BY <2>1, PurgeIs
  <2>5. /\ ~PurgeLoop.past
        /\ \A x \in Queued : ~Purgeable(x) => x \in Range(left)
        /\ \A p \in 1..n : Purgeable(tasks[p]) /\ tasks[p] \in Range(left)
                              => p > 1 /\ Purgeable(tasks[p - 1])
    <3>1. CASE Purgeable(tasks[n])
      <4>1. Due = {tasks[n]}
        BY <1>1, <2>2, <2>3, <3>1
      <4>2. \A a, b \in Queued : Purgeable(a) /\ Purgeable(b) => a = b
        BY <2>3, <4>1
      <4>3. ~PurgeLoop.past /\ Range(left) = {id \in Queued : ~Purgeable(id)}
        BY <2>1, <4>2, PurgeOne
      <4> HIDE DEF left
      <4> QED
        BY <4>3
    <3>2. CASE ~Purgeable(tasks[n])
      BY <2>1, <2>2, <3>2, PurgeRest
    <3> QED
      BY <3>1, <3>2
  <2>6. tasks' = left /\ crashed' = FALSE
    BY <1>1, <2>5 DEF check
  <2> HIDE DEF left
  <2>7. Queued \ Due \subseteq Range(tasks')
    BY <2>3, <2>5, <2>6
  <2>8. ASSUME NEW i \in DOMAIN tasks, tasks[i] \in Due \cap Range(tasks')
        PROVE  i > 1 /\ tasks[i - 1] \in Due
    <3>1. i \in 1..n /\ i > 1 /\ Purgeable(tasks[i - 1])
      BY <2>2, <2>3, <2>5, <2>6, <2>8
    <3>2. i - 1 \in 1..n
      BY <2>2, <3>1
    <3> QED
      BY <2>2, <2>3, <3>1, <3>2
  <2> QED
    BY <2>4, <2>6, <2>7, <2>8
<1>2. IInv /\ [Next]_vars => [check /\ Apart => Kept]_vars
  BY <1>1
<1> QED
  BY <1>2, TasksInvariant, PTL DEF Spec, PurgeExact
=============================================================================
