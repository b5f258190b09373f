---------------------------- MODULE StoreProofs ----------------------------
(***************************************************************************)
(* What holds of Store for any keys, any threads, any limit of the vector  *)
(* and any number of starts.                                               *)
(***************************************************************************)
EXTENDS Store, HashSpaceProofs, FiniteSetTheorems, TLAPS

(* The phases in which a new key pair is being stored.                     *)
Storing == {"rm pub", "add pub", "rm sec", "add sec"}

(* A secret key is on disk only as the other half of the public one, since *)
(* it is written last: a start that finds no pair finds no secret key.     *)
KeyInv ==
    /\ settings \in KeyPair /\ keys \in KeyPair
    /\ settings.sec # None => settings.pub = settings.sec
    /\ identity # None => settings.sec = identity
    /\ phase \in Storing => settings.sec = None /\ keys.pub # None /\ keys.sec = keys.pub
    /\ phase \in {"rm sec", "add sec"} => settings.pub = keys.pub
    /\ phase \in {"select", "up"} => settings = keys /\ keys.sec # None
    /\ phase = "up" => identity = keys.pub

RowInv ==
    /\ op = [t \in Threads |-> op[t]]
    /\ \A t \in Threads : op[t] # None =>
           op[t] = [do |-> op[t].do, hash |-> op[t].hash, ip |-> op[t].ip]
    /\ RowsBounded

-----------------------------------------------------------------------------
LEMMA OwnKeysAreKeys == OwnKeys \subseteq Hash /\ None \notin Hash
BY StoreAssumption

LEMMA InitKeys == Init => KeyInv
BY DEF Init, KeyInv, KeyPair, NoKeys, Storing

LEMMA StartKeys == KeyInv /\ Start => KeyInv'
<1> SUFFICES ASSUME KeyInv, Start PROVE KeyInv'
  OBVIOUS
<1>1. CASE Stored(get_var("pub"), get_var("sec"))
  <2>1. keys' = settings
    BY <1>1 DEF Start, get_var, KeyInv, KeyPair
  <2> QED
    BY <1>1, <2>1 DEF Start, Stored, get_var, KeyInv, Storing
<1>2. CASE ~Stored(get_var("pub"), get_var("sec"))
  <2>1. settings.sec = None
    BY <1>2 DEF Stored, get_var, KeyInv
  <2>2. PICK k \in OwnKeys : keys' = [pub |-> k, sec |-> k]
    BY <1>2 DEF Start
  <2>3. keys' \in KeyPair /\ keys'.pub # None /\ keys'.sec = keys'.pub
    BY <2>2, OwnKeysAreKeys DEF KeyPair
  <2> QED
    BY <1>2, <2>1, <2>3 DEF Start, KeyInv, Storing
<1> QED
  BY <1>1, <1>2

LEMMA SetVarsKeys == KeyInv /\ set_vars => KeyInv'
<1> SUFFICES ASSUME KeyInv, set_vars PROVE KeyInv'
  OBVIOUS
<1>1. CASE rm_var("rm pub", "pub", "add pub")
  BY <1>1 DEF rm_var, KeyInv, KeyPair, Storing
<1>2. CASE insert_var("add pub", "pub", "rm sec")
  BY <1>2 DEF insert_var, KeyInv, KeyPair, Storing
<1>3. CASE rm_var("rm sec", "sec", "add sec")
  BY <1>3 DEF rm_var, KeyInv, KeyPair, Storing
<1>4. CASE insert_var("add sec", "sec", "select")
  <2>1. settings' = keys
    BY <1>4 DEF insert_var, KeyInv, KeyPair
  <2> QED
    BY <1>4, <2>1 DEF insert_var, KeyInv, Storing
<1> QED
  BY <1>1, <1>2, <1>3, <1>4 DEF set_vars

LEMMA SelectKeys == KeyInv /\ select => KeyInv'
<1> SUFFICES ASSUME KeyInv, select PROVE KeyInv'
  OBVIOUS
<1>1. CASE rows = {}
  BY <1>1 DEF select, KeyInv, KeyPair, NoKeys, Storing
<1>2. CASE rows # {}
  <2>1. phase' = "up" /\ keys' = keys /\ settings' = settings
    BY <1>2 DEF select
  <2>2. identity' = keys.pub
    BY <2>1 DEF select, KeyInv
  <2> QED
    BY <2>1, <2>2 DEF select, KeyInv, Storing
<1> QED
  BY <1>1, <1>2

LEMMA NextKeys == KeyInv /\ [Next]_vars => KeyInv'
<1> SUFFICES ASSUME KeyInv, [Next]_vars PROVE KeyInv'
  OBVIOUS
<1>1. CASE Crash
  BY <1>1 DEF Crash, KeyInv, KeyPair, NoKeys, Storing
<1>2. CASE UNCHANGED <<settings, phase, keys, identity>>
  BY <1>2 DEF KeyInv
<1>3. ASSUME NEW t \in Threads, Delete(t) \/ add_node(t)
      PROVE  KeyInv'
  BY <1>2, <1>3 DEF Delete, add_node
<1>4. ASSUME NEW t \in Threads, NEW h, NEW ip, add(t, h, ip) \/ rm_hash(t, h)
      PROVE  KeyInv'
  BY <1>2, <1>4 DEF add, rm_hash
<1>5. CASE UNCHANGED vars
  BY <1>2, <1>5 DEF vars
<1> QED
  BY <1>1, <1>3, <1>4, <1>5, StartKeys, SetVarsKeys, SelectKeys DEF Next, Threads

(* A peer that is up has the key pair it was first up with, wherever       *)
(* earlier starts died between the statements of set_var.                  *)
THEOREM SamePeerForEver == Spec => []SameIdentity
<1>1. KeyInv => SameIdentity
  BY DEF KeyInv, SameIdentity
<1> QED
  BY <1>1, InitKeys, NextKeys, PTL DEF Spec

-----------------------------------------------------------------------------
LEMMA InitRows == Init => RowInv
<1> SUFFICES ASSUME Init PROVE RowInv
  OBVIOUS
<1>1. op = [t \in Threads |-> op[t]] /\ \A t \in Threads : op[t] = None
  BY DEF Init
<1>2. ASSUME NEW r \in rows, NEW s \in rows, r.ip = s.ip PROVE r = s
  <2>1. PICK p \in FirstRows : r = [hash |-> p[1], ip |-> p[2], by |-> Boot]
    BY <1>2 DEF Init
  <2>2. PICK q \in FirstRows : s = [hash |-> q[1], ip |-> q[2], by |-> Boot]
    BY <1>2 DEF Init
  <2>3. p = q
    BY <1>2, <2>1, <2>2, StoreAssumption
  <2> QED
    BY <2>1, <2>2, <2>3
<1> QED
  BY <1>1, <1>2 DEF RowInv, RowsBounded

(* Removing rows and giving a thread work that is not "add" is harmless.   *)
LEMMA FewerRows ==
  ASSUME RowInv, NEW t \in Threads, NEW work, rows' \subseteq rows,
         op' = [op EXCEPT ![t] = work],
         work # None => work.do # "add"
             /\ work = [do |-> work.do, hash |-> work.hash, ip |-> work.ip]
  PROVE  RowInv'
<1>1. op' = [u \in Threads |-> op'[u]]
  BY DEF RowInv
<1>2. ASSUME NEW u \in Threads, op'[u] # None, op'[u].do = "add"
      PROVE  op'[u] = op[u] /\ u # t
  BY <1>2 DEF RowInv
<1> QED
  BY <1>1, <1>2 DEF RowInv, RowsBounded

LEMMA AddRows ==
  ASSUME RowInv, NEW t \in Threads, NEW h, NEW ip, add(t, h, ip)
  PROVE  RowInv'
<1>1. rows' \subseteq rows
  BY DEF add, Spared
<1>2. op' = [op EXCEPT ![t] = [do |-> "rm add", hash |-> h, ip |-> ip]]
  BY DEF add
<1> QED
  BY <1>1, <1>2, FewerRows

LEMMA RmHashRows ==
  ASSUME RowInv, NEW t \in Threads, NEW h, rm_hash(t, h)
  PROVE  RowInv'
<1>1. rows' \subseteq rows
  BY DEF rm_hash
<1>2. PICK ip : op' = [op EXCEPT ![t] = [do |-> "rm", hash |-> h, ip |-> ip]]
  BY DEF rm_hash
<1> QED
  BY <1>1, <1>2, FewerRows

(* The rows of the address go before the thread is due to write one.       *)
LEMMA DeleteRows ==
  ASSUME RowInv, NEW t \in Threads, Delete(t)
  PROVE  RowInv'
<1>1. rows' \subseteq rows /\ \A r \in rows' : r.ip # op[t].ip
  BY DEF Delete, rm_node
<1>2. CASE op[t].do = "rm"
  <2>1. op' = [op EXCEPT ![t] = None]
    BY <1>2 DEF Delete
  <2> QED
    BY <1>1, <2>1, FewerRows
<1>3. CASE op[t].do # "rm"
  <2>1. op' = [op EXCEPT ![t] = [do |-> "add", hash |-> op[t].hash, ip |-> op[t].ip]]
    <3>1. PICK d, h, ip : op[t] = [do |-> d, hash |-> h, ip |-> ip]
      BY DEF Delete, RowInv
    <3>2. op' = [op EXCEPT ![t] = [op[t] EXCEPT !.do = "add"]]
      BY <1>3 DEF Delete
    <3>3. [op[t] EXCEPT !.do = "add"] = [do |-> "add", hash |-> op[t].hash, ip |-> op[t].ip]
      BY <3>1
    <3> QED
      BY <3>2, <3>3
  <2>2. op' = [u \in Threads |-> op'[u]]
    BY <2>1 DEF RowInv
  <2>3. ASSUME NEW u \in Threads, op'[u] # None, op'[u].do = "add",
               NEW r \in rows', r.ip = op'[u].ip, r.by = u
        PROVE  FALSE
    <3>1. CASE u = t
      <4>1. op'[u] = [do |-> "add", hash |-> op[t].hash, ip |-> op[t].ip]
        BY <2>1, <3>1 DEF RowInv
      <4>2. op'[u].ip = op[t].ip
        BY <4>1
      <4> QED
        BY <1>1, <2>3, <4>2
    <3>2. CASE u # t
      <4>1. op'[u] = op[u]
        BY <2>1, <3>2 DEF RowInv
      <4> QED
        BY <1>1, <2>3, <4>1 DEF RowInv, RowsBounded
    <3> QED
      BY <3>1, <3>2
  <2>4. ASSUME NEW u \in Threads, op'[u] # None
        PROVE  op'[u] = [do |-> op'[u].do, hash |-> op'[u].hash, ip |-> op'[u].ip]
    BY <2>1, <2>4 DEF RowInv
  <2>5. \A r, s \in rows' : r.ip = s.ip /\ r.by = s.by => r = s
    BY <1>1 DEF RowInv, RowsBounded
  <2> QED
    BY <2>2, <2>3, <2>4, <2>5 DEF RowInv, RowsBounded
<1> QED
  BY <1>2, <1>3

(* The thread's own row is the only one of the address it has written.     *)
LEMMA AddNodeRows ==
  ASSUME RowInv, NEW t \in Threads, add_node(t)
  PROVE  RowInv'
<1> DEFINE new == [hash |-> op[t].hash, ip |-> op[t].ip, by |-> t]
<1>1. rows' = rows \cup {new} /\ op' = [op EXCEPT ![t] = None]
  BY DEF add_node
<1>2. op' = [u \in Threads |-> op'[u]]
  BY <1>1 DEF RowInv
<1>3. \A r \in rows : ~(r.ip = op[t].ip /\ r.by = t)
  BY DEF add_node, RowInv, RowsBounded
<1>4. new.ip = op[t].ip /\ new.by = t
  OBVIOUS
<1>5. ASSUME NEW r \in rows', NEW s \in rows', r.ip = s.ip, r.by = s.by
      PROVE  r = s
  <2> HIDE DEF new
  <2> QED
    BY <1>1, <1>3, <1>4, <1>5 DEF RowInv, RowsBounded
<1>6. ASSUME NEW u \in Threads, op'[u] # None, op'[u].do = "add",
             NEW r \in rows', r.ip = op'[u].ip, r.by = u
      PROVE  FALSE
  <2>1. u # t /\ op'[u] = op[u]
    BY <1>1, <1>6 DEF RowInv
  <2> HIDE DEF new
  <2> QED
    BY <1>1, <1>4, <1>6, <2>1 DEF RowInv, RowsBounded
<1>7. ASSUME NEW u \in Threads, op'[u] # None
      PROVE  op'[u] = [do |-> op'[u].do, hash |-> op'[u].hash, ip |-> op'[u].ip]
  BY <1>1, <1>7 DEF RowInv
<1> QED
  BY <1>2, <1>5, <1>6, <1>7 DEF RowInv, RowsBounded

LEMMA NextRows == RowInv /\ [Next]_vars => RowInv'
<1> SUFFICES ASSUME RowInv, [Next]_vars PROVE RowInv'
  OBVIOUS
<1>1. CASE Crash
  BY <1>1 DEF Crash, RowInv, RowsBounded
<1>2. CASE UNCHANGED <<rows, op>>
  BY <1>2 DEF RowInv, RowsBounded
<1>3. CASE Start \/ set_vars \/ select
  BY <1>2, <1>3 DEF Start, set_vars, rm_var, insert_var, select
<1>4. CASE UNCHANGED vars
  BY <1>2, <1>4 DEF vars
<1> QED
  BY <1>1, <1>3, <1>4, AddRows, RmHashRows, DeleteRows, AddNodeRows DEF Next, Threads

(* An address never has two rows of one thread, however additions,         *)
(* removals and deaths of the process interleave: the table is bounded by  *)
(* addresses times threads, although its insert makes nothing unique.      *)
THEOREM TableIsBounded == Spec => []RowsBounded
<1>1. RowInv => RowsBounded
  BY DEF RowInv
<1> QED
  BY <1>1, InitRows, NextRows, PTL DEF Spec

-----------------------------------------------------------------------------
(* The vector                                                              *)

LEMMA VecIs ==
  ASSUME NEW vec \in Seq(Entry)
  PROVE  /\ Len(vec) \in Nat /\ DOMAIN vec = 1..Len(vec)
         /\ \A i \in 1..Len(vec) : /\ vec[i] \in Entry /\ vec[i].hash \in Hash /\ vec[i].ip \in Ips
                                   /\ byte_sum(vec[i].hash) \in Nat
<1>1. \A i \in 1..Len(vec) : vec[i] \in Entry
  BY ElementOfSeq
<1> QED
  BY <1>1, ByteSum DEF Entry

(* The entries with a smaller byte sum come first.                         *)
LEMMA Prefix ==
  ASSUME NEW vec \in Seq(Entry), Sorted(vec), NEW x \in Nat
  PROVE  LET S == {i \in DOMAIN vec : byte_sum(vec[i].hash) < x}
         IN  Cardinality(S) \in 0..Len(vec) /\ S = 1..Cardinality(S)
<1> DEFINE n == Len(vec)
           sum(i) == byte_sum(vec[i].hash)
           T == {i \in 1..(n + 1) : i = n + 1 \/ ~(sum(i) < x)}
           S == {i \in DOMAIN vec : sum(i) < x}
<1>1. n \in Nat /\ DOMAIN vec = 1..n /\ \A i \in 1..n : sum(i) \in Nat
  BY VecIs
<1>2. \A i, j \in 1..n : i < j => sum(i) <= sum(j)
  BY <1>1 DEF Sorted
<1> HIDE DEF n, sum
<1>3. PICK k \in T : \A i \in T : k <= i
  <2>1. T # {} /\ T \in SUBSET Nat
    BY <1>1
  <2> HIDE DEF T
  <2> QED
    BY <2>1, LeastElement
<1>4. k \in 1..(n + 1) /\ (k = n + 1 \/ ~(sum(k) < x))
  OBVIOUS
<1>5. ASSUME NEW i \in 1..n PROVE sum(i) < x <=> i <= k - 1
  <2>1. CASE i < k
    <3>1. i \notin T
      BY <1>3, <1>1, <1>4, <2>1
    <3>2. i \in 1..(n + 1) /\ i # n + 1
      BY <1>1
    <3> QED
      BY <1>1, <1>4, <2>1, <3>1, <3>2
  <2>2. CASE i = k
    BY <1>1, <1>4, <2>2
  <2>3. CASE k < i
    <3>1. k \in 1..n /\ ~(sum(k) < x)
      BY <1>1, <1>4, <2>3
    <3>2. sum(k) <= sum(i)
      BY <1>2, <2>3, <3>1
    <3> QED
      BY <1>1, <1>4, <2>3, <3>1, <3>2
  <2> QED
    BY <1>1, <1>4, <2>1, <2>2, <2>3
<1>6. S = 1..(k - 1) /\ k - 1 \in 0..n
  <2>1. \A i : i \in 1..(k - 1) => i \in 1..n
    BY <1>1, <1>4
  <2>2. \A i \in 1..n : i <= k - 1 => i \in 1..(k - 1)
    BY <1>1, <1>4
  <2> QED
    BY <1>1, <1>4, <1>5, <2>1, <2>2
<1>7. Cardinality(1..(k - 1)) = k - 1
  <2>1. k - 1 \in Int /\ 1 \in Int /\ (1 > k - 1 => k - 1 = 0) /\ (k - 1) - 1 + 1 = k - 1
    BY <1>1, <1>4
  <2> QED
    BY <2>1, FS_Interval
<1>8. S = 1..Cardinality(S) /\ Cardinality(S) \in 0..n
  BY <1>6, <1>7
<1> QED
  BY <1>8 DEF n, sum

LEMMA PushIs ==
  ASSUME NEW vec \in Seq(Entry), Sorted(vec), NEW e \in Entry
  PROVE  /\ vector_push(vec, e) \in Seq(Entry) /\ Sorted(vector_push(vec, e))
         /\ \E p \in Nat : Without(vector_push(vec, e), vec, p) /\ vector_push(vec, e)[p] = e
<1> DEFINE x == byte_sum(e.hash)
           S == {i \in DOMAIN vec : byte_sum(vec[i].hash) < x}
           p == 1 + Cardinality(S)
           r == InsertAt(vec, p, e)
           n == Len(vec)
           sum(i) == byte_sum(vec[i].hash)
           key(i) == byte_sum(r[i].hash)
<1>1. x \in Nat
  BY ByteSum DEF Entry
<1>2. Cardinality(S) \in 0..n /\ S = 1..Cardinality(S)
  <2> HIDE DEF x
  <2> QED
    BY <1>1, Prefix
<1>3. n \in Nat /\ DOMAIN vec = 1..n /\ \A i \in 1..n : sum(i) \in Nat
  BY VecIs
<1>4. p \in 1..(n + 1) /\ \A i \in 1..n : sum(i) < x <=> i < p
  <2>1. \A i \in 1..n : sum(i) < x <=> i \in S
    BY <1>3
  <2> HIDE DEF S, sum
  <2>2. p \in 1..(n + 1) /\ Cardinality(S) \in Nat
    BY <1>2, <1>3
  <2>3. \A i \in 1..n : i \in S <=> i < p
    BY <1>2, <1>3, <2>2
  <2> QED
    BY <2>1, <2>2, <2>3
<1>5. vector_push(vec, e) = r
  BY DEF vector_push
<1> HIDE DEF p
<1>6. r \in Seq(Entry) /\ Len(r) = n + 1
  BY <1>4, InsertAtIs
<1>7. Without(r, vec, p) /\ r[p] = e
  <2>1. p \in 1..(Len(vec) + 1)
    BY <1>4
  <2>2. Without(InsertAt(vec, p, e), vec, p) /\ InsertAt(vec, p, e)[p] = e
    BY <2>1, InsertIsWith, Zenon
  <2> QED
    BY <2>2 DEF r
<1>8. \A j \in 1..(n + 1) : r[j] = IF j < p THEN vec[j] ELSE IF j = p THEN e ELSE vec[j - 1]
  BY <1>4, InsertAtIs
<1> HIDE DEF r
<1>9. \A j \in 1..(n + 1) : key(j) = IF j < p THEN sum(j) ELSE IF j = p THEN x ELSE sum(j - 1)
  BY <1>8
<1>10. \A i, j \in 1..n : i < j => sum(i) <= sum(j)
  BY <1>3 DEF Sorted
<1>11. \A i, j \in 1..(n + 1) : i < j => key(i) <= key(j)
  <2> HIDE DEF key, sum, n, x
  <2> SUFFICES ASSUME NEW i \in 1..(n + 1), NEW j \in 1..(n + 1), i < j PROVE key(i) <= key(j)
    OBVIOUS
  <2>1. CASE j < p
    <3>1. i \in 1..n /\ j \in 1..n /\ i < p
      BY <1>3, <1>4, <2>1
    <3> QED
      BY <1>9, <1>10, <2>1, <3>1
  <2>2. CASE j = p
    <3>1. i \in 1..n /\ i < p
      BY <1>3, <1>4, <2>2
    <3> QED
      BY <1>1, <1>3, <1>4, <1>9, <2>2, <3>1
  <2>3. CASE p < j
    <3>1. j - 1 \in 1..n /\ ~(j - 1 < p) /\ ~(j < p) /\ j # p
      BY <1>3, <1>4, <2>3
    <3>2. key(j) = sum(j - 1) /\ sum(j - 1) \in Nat /\ x <= sum(j - 1)
      BY <1>1, <1>3, <1>4, <1>9, <3>1
    <3>3. CASE i < p
      <4>1. i \in 1..n /\ (i < j - 1 \/ i = j - 1)
        BY <1>3, <1>4, <2>3, <3>3
      <4>2. key(i) = sum(i)
        BY <1>9, <3>3
      <4> QED
        BY <1>3, <1>10, <3>1, <3>2, <4>1, <4>2
    <3>4. CASE i = p
      BY <1>9, <3>2, <3>4, <1>4
    <3>5. CASE p < i
      <4>1. i - 1 \in 1..n /\ i - 1 < j - 1 /\ ~(i < p) /\ i # p
        BY <1>3, <1>4, <3>5
      <4>2. key(i) = sum(i - 1)
        BY <1>9, <4>1
      <4> QED
        BY <1>10, <3>1, <3>2, <4>1, <4>2
    <3> QED
      BY <1>4, <3>3, <3>4, <3>5
  <2> QED
    BY <1>4, <2>1, <2>2, <2>3
<1>12. Sorted(r)
  BY <1>6, <1>11 DEF Sorted
<1>13. p \in Nat
  BY <1>3, <1>4
<1> QED
  BY <1>5, <1>6, <1>7, <1>12, <1>13

LEMMA StillSorted ==
  ASSUME NEW vec \in Seq(Entry), Sorted(vec), NEW r \in Seq(Entry), NEW i, Without(vec, r, i)
  PROVE  Sorted(r)
<1>1. PICK g \in [1..Len(r) -> 1..Len(vec)] :
         /\ \A j, k \in 1..Len(r) : j < k => g[j] < g[k]
         /\ \A j \in 1..Len(r) : r[j] = vec[g[j]]
  BY DEF Without
<1>2. DOMAIN vec = 1..Len(vec) /\ DOMAIN r = 1..Len(r)
  BY VecIs
<1>3. ASSUME NEW j \in 1..Len(r), NEW k \in 1..Len(r), j < k
      PROVE  byte_sum(r[j].hash) <= byte_sum(r[k].hash)
  <2>1. g[j] \in 1..Len(vec) /\ g[k] \in 1..Len(vec) /\ g[j] < g[k]
    BY <1>1, <1>3
  <2> QED
    BY <1>1, <1>2, <2>1 DEF Sorted
<1> QED
  BY <1>2, <1>3 DEF Sorted

(* What an entry more, or less, means at an address.                       *)
Known(vec, ip) == {vec[i].hash : i \in {j \in DOMAIN vec : vec[j].ip = ip}}
Once(vec, ip) == \A i, j \in DOMAIN vec : vec[i].ip = ip /\ vec[j].ip = ip => i = j

LEMMA Elsewhere ==
  ASSUME NEW s \in Seq(Entry), NEW r \in Seq(Entry), NEW i, Without(s, r, i),
         NEW ip, s[i].ip # ip
  PROVE  Known(r, ip) = Known(s, ip) /\ (Once(r, ip) <=> Once(s, ip))
<1>1. PICK g \in [1..Len(r) -> 1..Len(s)] :
         /\ \A j, k \in 1..Len(r) : j < k => g[j] < g[k]
         /\ \A j \in 1..Len(r) : g[j] # i /\ r[j] = s[g[j]]
         /\ \A k \in 1..Len(s) : k # i => \E j \in 1..Len(r) : g[j] = k
  BY DEF Without
<1>2. DOMAIN s = 1..Len(s) /\ DOMAIN r = 1..Len(r)
  BY VecIs
<1>3. Known(r, ip) = Known(s, ip)
  <2>1. ASSUME NEW h \in Known(r, ip) PROVE h \in Known(s, ip)
    <3>1. PICK j \in 1..Len(r) : r[j].ip = ip /\ h = r[j].hash
      BY <1>2, <2>1 DEF Known
    <3>2. g[j] \in 1..Len(s) /\ s[g[j]].ip = ip /\ h = s[g[j]].hash
      BY <1>1, <3>1
    <3> QED
      BY <1>2, <3>2 DEF Known
  <2>2. ASSUME NEW h \in Known(s, ip) PROVE h \in Known(r, ip)
    <3>1. PICK k \in 1..Len(s) : s[k].ip = ip /\ h = s[k].hash
      BY <1>2, <2>2 DEF Known
    <3>2. PICK j \in 1..Len(r) : g[j] = k
      BY <1>1, <3>1
    <3>3. r[j].ip = ip /\ h = r[j].hash
      BY <1>1, <3>1, <3>2
    <3> QED
      BY <1>2, <3>3 DEF Known
  <2> QED
    BY <2>1, <2>2
<1>4. \A j, k \in 1..Len(r) : g[j] = g[k] => j = k
  <2> SUFFICES ASSUME NEW j \in 1..Len(r), NEW k \in 1..Len(r), j # k PROVE g[j] # g[k]
    OBVIOUS
  <2>1. (j < k => g[j] < g[k]) /\ (k < j => g[k] < g[j]) /\ g[j] \in 1..Len(s) /\ g[k] \in 1..Len(s)
    BY <1>1
  <2> QED
    BY <2>1
<1>5. ASSUME Once(r, ip), NEW a \in 1..Len(s), NEW b \in 1..Len(s), s[a].ip = ip, s[b].ip = ip
      PROVE  a = b
  <2>1. PICK j \in 1..Len(r) : g[j] = a
    BY <1>1, <1>5
  <2>2. PICK k \in 1..Len(r) : g[k] = b
    BY <1>1, <1>5
  <2>3. r[j].ip = ip /\ r[k].ip = ip
    BY <1>1, <1>5, <2>1, <2>2
  <2> QED
    BY <1>2, <1>5, <2>1, <2>2, <2>3 DEF Once
<1>6. Once(s, ip) => Once(r, ip)
  BY <1>1, <1>2, <1>4 DEF Once
<1> QED
  BY <1>2, <1>3, <1>5, <1>6 DEF Once

LEMMA TheOnly ==
  ASSUME NEW s \in Seq(Entry), NEW r \in Seq(Entry), NEW i, Without(s, r, i),
         NEW ip, s[i].ip = ip, Once(s, ip)
  PROVE  Known(r, ip) = {} /\ Once(r, ip) /\ Known(s, ip) = {s[i].hash}
<1>1. PICK g \in [1..Len(r) -> 1..Len(s)] :
         /\ \A j \in 1..Len(r) : g[j] # i /\ r[j] = s[g[j]]
  BY DEF Without
<1>2. DOMAIN s = 1..Len(s) /\ DOMAIN r = 1..Len(r) /\ i \in 1..Len(s)
  BY VecIs DEF Without
<1>3. \A j \in 1..Len(r) : r[j].ip # ip
  BY <1>1, <1>2 DEF Once
<1> QED
  BY <1>2, <1>3 DEF Known, Once

(* No entry of vec is at ip; only the one with this hash is.               *)
Absent(vec, ip) == Known(vec, ip) = {}
Sole(vec, ip, hash) == Known(vec, ip) = {hash} /\ Once(vec, ip)

(* An entry brought to an address that had none is alone at it.            *)
LEMMA TheFirst ==
  ASSUME NEW s \in Seq(Entry), NEW r \in Seq(Entry), NEW i, Without(s, r, i),
         Absent(r, s[i].ip)
  PROVE  Sole(s, s[i].ip, s[i].hash)
<1> DEFINE ip == s[i].ip
<1>1. PICK g \in [1..Len(r) -> 1..Len(s)] :
         /\ \A j \in 1..Len(r) : g[j] # i /\ r[j] = s[g[j]]
         /\ \A k \in 1..Len(s) : k # i => \E j \in 1..Len(r) : g[j] = k
  BY DEF Without
<1>2. DOMAIN s = 1..Len(s) /\ DOMAIN r = 1..Len(r) /\ i \in 1..Len(s)
  BY VecIs DEF Without
<1>3. \A j \in 1..Len(r) : r[j].ip # ip
  BY <1>2 DEF Known, Absent
<1>4. \A k \in 1..Len(s) : s[k].ip = ip => k = i
  BY <1>1, <1>3
<1> QED
  BY <1>2, <1>4 DEF Known, Once, Sole

-----------------------------------------------------------------------------
(* Types, and the order of the vector                                      *)

(* Threads work only while the process is up, and the one that drops a     *)
(* father never writes a row.                                              *)
TypeInv ==
    /\ TypeOK /\ IsFiniteSet(rows)
    /\ phase # "up" => nodes = <<>> /\ \A t \in Threads : op[t] = None
    /\ op[Dropper] # None => op[Dropper].do = "rm"

LEMMA EmptyVector == <<>> \in Seq(Entry) /\ Sorted(<<>>)
BY DEF Sorted

LEMMA InitTypes == Init => TypeInv
<1> SUFFICES ASSUME Init PROVE TypeInv
  OBVIOUS
<1> DEFINE g == [s \in FirstRows |-> [hash |-> s[1], ip |-> s[2], by |-> Boot]]
<1>1. rows = {g[s] : s \in FirstRows}
  BY DEF Init
<1>2. \A s \in FirstRows : g[s] \in Row
  BY StoreAssumption DEF Row
<1>3. g \in Surjection(FirstRows, rows)
  <2>1. g \in [FirstRows -> rows]
    BY <1>1
  <2> HIDE DEF g
  <2> QED
    BY <1>1, <2>1 DEF Surjection
<1>4. IsFiniteSet(rows)
  BY <1>3, FS_Surjection, StoreAssumption
<1>5. settings \in KeyPair /\ keys \in KeyPair
  BY InitKeys DEF KeyInv
<1>6. rows \subseteq Row
  BY <1>1, <1>2
<1>7. 0 \in 0..MaxStarts
  BY StoreAssumption
<1> QED
  BY <1>4, <1>5, <1>6, <1>7, EmptyVector DEF Init, TypeInv, TypeOK, Threads

LEMMA RowIs ==
  ASSUME TypeInv, NEW r \in rows
  PROVE  r.hash \in Hash /\ r.ip \in Ips /\ Pair(r) \in Entry /\ Pair(r).hash = r.hash
         /\ Pair(r).ip = r.ip
<1>1. r \in Row
  BY DEF TypeInv, TypeOK
<1> QED
  BY <1>1 DEF Row, Entry, Pair

Kept(ip) == {r.hash : r \in {s \in rows : s.ip = ip}}

(* The vector after a start: of every row one entry, in the order of byte  *)
(* sums.                                                                   *)
LEMMA SelectIs ==
  ASSUME TypeInv, NEW s \in db_nodes, Sorted(s),
         NEW vec, vec = [i \in DOMAIN s |-> Pair(s[i])]
  PROVE  /\ vec \in Seq(Entry) /\ Sorted(vec)
         /\ \A ip : Known(vec, ip) = Kept(ip) /\ (ip \notin Shared(rows) => Once(vec, ip))
         /\ \A i \in DOMAIN vec : \E r \in rows : vec[i].hash = r.hash
<1> DEFINE N == Cardinality(rows)
<1>1. N \in Nat /\ IsFiniteSet(rows)
  BY FS_CardinalityType DEF TypeInv
<1>2. s \in [1..N -> rows] /\ \A i, j \in 1..N : i # j => s[i] # s[j]
  BY DEF db_nodes, SetToSeqs
<1>3. \A r \in rows : \E i \in 1..N : s[i] = r
  <2>1. s \in Injection(1..N, rows)
    BY <1>2 DEF Injection, IsInjective
  <2>2. Cardinality(1..N) = N
    <3>1. N \in Int /\ 1 \in Int /\ (1 > N => N = 0) /\ N - 1 + 1 = N
      BY <1>1
    <3> HIDE DEF N
    <3> QED
      BY <3>1, FS_Interval
  <2>3. s \in Surjection(1..N, rows)
    <3> DEFINE D == 1..N
    <3>1. s \in Injection(D, rows) /\ Cardinality(D) = Cardinality(rows)
      BY <2>1, <2>2
    <3> HIDE DEF D
    <3>2. s \in Surjection(D, rows)
      BY <1>1, <3>1, FS_Injection
    <3> QED
      BY <3>2 DEF D
  <2> QED
    BY <2>3 DEF Surjection
<1> HIDE DEF N
<1>4. DOMAIN s = 1..N /\ DOMAIN vec = 1..N /\ \A i \in 1..N : s[i] \in rows /\ vec[i] = Pair(s[i])
  BY <1>2
<1>5. \A i \in 1..N : /\ vec[i] \in Entry /\ vec[i].hash = s[i].hash /\ vec[i].ip = s[i].ip
  BY <1>4, RowIs
<1>6. vec \in Seq(Entry)
  <2>1. vec = [i \in 1..N |-> vec[i]]
    BY <1>4
  <2>2. vec \in [1..N -> Entry]
    BY <1>5, <2>1
  <2> QED
    BY <1>1, <2>2
<1>7. Sorted(vec)
  BY <1>4, <1>5 DEF Sorted
<1>8. ASSUME NEW ip PROVE Known(vec, ip) = Kept(ip)
  <2>1. ASSUME NEW h \in Known(vec, ip) PROVE h \in Kept(ip)
    <3>1. PICK i \in 1..N : vec[i].ip = ip /\ h = vec[i].hash
      BY <1>4, <2>1 DEF Known
    <3>2. s[i] \in rows /\ s[i].ip = ip /\ h = s[i].hash
      BY <1>4, <1>5, <3>1
    <3> QED
      BY <3>2 DEF Kept
  <2>2. ASSUME NEW h \in Kept(ip) PROVE h \in Known(vec, ip)
    <3>1. PICK r \in rows : r.ip = ip /\ h = r.hash
      BY <2>2 DEF Kept
    <3>2. PICK i \in 1..N : s[i] = r
      BY <1>3, <3>1
    <3>3. vec[i].ip = ip /\ h = vec[i].hash
      BY <1>5, <3>1, <3>2
    <3> QED
      BY <1>4, <3>3 DEF Known
  <2> QED
    BY <2>1, <2>2
<1>9. ASSUME NEW ip, ip \notin Shared(rows), NEW i \in 1..N, NEW j \in 1..N,
             vec[i].ip = ip, vec[j].ip = ip
      PROVE  i = j
  <2>1. s[i] \in rows /\ s[j] \in rows /\ s[i].ip = ip /\ s[j].ip = ip
    BY <1>4, <1>5, <1>9
  <2>2. s[i] = s[j]
    BY <1>9, <2>1 DEF Shared
  <2> QED
    BY <1>2, <2>2
<1>10. \A ip : ip \notin Shared(rows) => Once(vec, ip)
  BY <1>4, <1>9 DEF Once
<1>11. \A i \in DOMAIN vec : \E r \in rows : vec[i].hash = r.hash
  BY <1>4, <1>5
<1> QED
  BY <1>6, <1>7, <1>8, <1>10, <1>11

(* What add makes of the vector.                                           *)
LEMMA AddIs ==
  ASSUME TypeInv, NEW t, NEW h, NEW ip, h \in Hash, ip \in Ips, add(t, h, ip)
  PROVE  \E rest \in Seq(Entry), p \in Nat :
            /\ \/ rest = nodes /\ Evicted(nodes) = {}
               \/ Without(nodes, rest, 1) /\ Evicted(nodes) = {nodes[1]}
            /\ Without(nodes', rest, p) /\ nodes'[p] = [hash |-> h, ip |-> ip]
            /\ nodes' \in Seq(Entry) /\ Sorted(nodes')
<1> DEFINE e == [hash |-> h, ip |-> ip]
           rest == IF Evicted(nodes) = {} THEN nodes ELSE Tail(nodes)
<1>1. e \in Entry
  BY DEF Entry
<1>2. nodes \in Seq(Entry) /\ Sorted(nodes)
  BY DEF TypeInv, TypeOK
<1>3. \/ rest = nodes /\ Evicted(nodes) = {}
      \/ Without(nodes, rest, 1) /\ Evicted(nodes) = {nodes[1]} /\ rest \in Seq(Entry)
  <2>1. CASE Evicted(nodes) = {}
    BY <2>1
  <2>2. CASE Evicted(nodes) # {}
    <3>1. Evicted(nodes) = {nodes[1]} /\ Len(nodes) >= NODE_LIMIT
      BY <2>2 DEF Evicted
    <3>2. nodes # <<>> /\ 1 \in 1..Len(nodes)
      BY <1>2, <3>1, StoreAssumption
    <3>3. rest = RemoveAt(nodes, 1)
      BY <1>2, <2>2, <3>2, TailIsRemove
    <3> HIDE DEF rest
    <3> QED
      BY <1>2, <3>1, <3>2, <3>3, RemoveIsWithout, RemoveAtIs
  <2> QED
    BY <2>1, <2>2
<1>4. rest \in Seq(Entry) /\ Sorted(rest)
  BY <1>2, <1>3, StillSorted
<1>5. nodes' = vector_push(rest, e)
  BY DEF add
<1> HIDE DEF rest, e
<1>6. nodes' \in Seq(Entry) /\ Sorted(nodes')
      /\ \E p \in Nat : Without(nodes', rest, p) /\ nodes'[p] = e
  BY <1>1, <1>4, <1>5, PushIs
<1>7. PICK p \in Nat : Without(nodes', rest, p) /\ nodes'[p] = e
  BY <1>6
<1> QED
  BY <1>3, <1>4, <1>6, <1>7 DEF e

(* What rm_hash makes of it.                                               *)
LEMMA RmIs ==
  ASSUME TypeInv, NEW t, NEW h, rm_hash(t, h)
  PROVE  \E i \in 1..Len(nodes) :
            /\ nodes[i].hash = h /\ nodes[i].ip \in Ips /\ h \in Hash
            /\ Without(nodes, nodes', i) /\ nodes' \in Seq(Entry) /\ Sorted(nodes')
            /\ op' = [op EXCEPT ![t] = [do |-> "rm", hash |-> h, ip |-> nodes[i].ip]]
            /\ mixed' = mixed \cup {j \in {nodes[i].ip} : Meets(t, j, h)}
<1>1. nodes \in Seq(Entry) /\ Sorted(nodes)
  BY DEF TypeInv, TypeOK
<1>2. DOMAIN nodes = 1..Len(nodes) /\ \A i \in 1..Len(nodes) : nodes[i].ip \in Ips /\ nodes[i].hash \in Hash
  BY <1>1, VecIs
<1> DEFINE F == Find(nodes, h)
           i == CHOOSE j \in F : \A k \in F : j <= k
<1>3. F # {} /\ F \in SUBSET Nat /\ F \subseteq 1..Len(nodes)
  BY <1>2 DEF rm_hash, Find
<1>4. i \in F
  <2> HIDE DEF F
  <2>1. \E j \in F : \A k \in F : j <= k
    BY <1>3, LeastElement
  <2> QED
    BY <2>1
<1>5. i \in 1..Len(nodes) /\ nodes[i].hash = h
  BY <1>3, <1>4 DEF Find
<1>6. /\ nodes' = RemoveAt(nodes, i)
      /\ op' = [op EXCEPT ![t] = [do |-> "rm", hash |-> h, ip |-> nodes[i].ip]]
      /\ mixed' = mixed \cup {j \in {nodes[i].ip} : Meets(t, j, h)}
  BY DEF rm_hash
<1> HIDE DEF i
<1>7. Without(nodes, nodes', i) /\ nodes' \in Seq(Entry)
  BY <1>1, <1>5, <1>6, RemoveIsWithout, RemoveAtIs
<1>8. Sorted(nodes')
  BY <1>1, <1>7, StillSorted
<1> QED
  BY <1>2, <1>5, <1>6, <1>7, <1>8

LEMMA SpokenIs ==
  ASSUME NEW s \in Spoken
  PROVE  s[1] \in Hash /\ s[2] \in Ips
BY StoreAssumption

LEMMA AddTypes ==
  ASSUME TypeInv, NEW t \in Handlers, NEW h \in Hash, NEW ip \in Ips, add(t, h, ip)
  PROVE  TypeInv'
<1>1. nodes' \in Seq(Entry) /\ Sorted(nodes')
  BY AddIs
<1>2. rows' \subseteq rows
  BY DEF add, Spared
<1>3. IsFiniteSet(rows')
  BY <1>2, FS_Subset DEF TypeInv
<1>4. [do |-> "rm add", hash |-> h, ip |-> ip] \in Op
  BY DEF Op
<1>5. op' \in [Threads -> Op \cup {None}] /\ op'[Dropper] = op[Dropper]
  BY <1>4, StoreAssumption DEF add, TypeInv, TypeOK, Threads
<1>6. mixed' \subseteq Ips
  <2>1. \A e \in Evicted(nodes) : e.ip \in Ips
    <3>1. nodes \in Seq(Entry)
      BY DEF TypeInv, TypeOK
    <3>2. Evicted(nodes) # {} => nodes[1] \in Entry
      <4>1. Evicted(nodes) # {} => Len(nodes) >= 1
        BY <3>1, StoreAssumption DEF Evicted
      <4> QED
        BY <3>1, <4>1, ElementOfSeq
    <3> QED
      BY <3>2 DEF Evicted, Entry
  <2> QED
    BY <2>1 DEF add, TypeInv, TypeOK
<1>7. TypeOK'
  BY <1>1, <1>2, <1>5, <1>6 DEF add, TypeInv, TypeOK
<1> QED
  BY <1>3, <1>5, <1>7 DEF TypeInv, add

LEMMA RmTypes ==
  ASSUME TypeInv, NEW h, rm_hash(Dropper, h)
  PROVE  TypeInv'
<1>1. PICK i \in 1..Len(nodes) :
            /\ nodes[i].ip \in Ips /\ h \in Hash
            /\ nodes' \in Seq(Entry) /\ Sorted(nodes')
            /\ op' = [op EXCEPT ![Dropper] = [do |-> "rm", hash |-> h, ip |-> nodes[i].ip]]
            /\ mixed' = mixed \cup {j \in {nodes[i].ip} : Meets(Dropper, j, h)}
  BY RmIs
<1>2. [do |-> "rm", hash |-> h, ip |-> nodes[i].ip] \in Op
  BY <1>1 DEF Op
<1>3. op' \in [Threads -> Op \cup {None}] /\ op'[Dropper].do = "rm"
  BY <1>1, <1>2 DEF TypeInv, TypeOK, Threads
<1>4. mixed' \subseteq Ips
  BY <1>1 DEF TypeInv, TypeOK
<1>5. TypeOK'
  BY <1>1, <1>3, <1>4 DEF rm_hash, TypeInv, TypeOK
<1> QED
  BY <1>3, <1>5 DEF TypeInv, rm_hash

LEMMA TableTypes ==
  ASSUME TypeInv, NEW t \in Threads, Delete(t) \/ add_node(t)
  PROVE  TypeInv'
<1>0. op \in [Threads -> Op \cup {None}] /\ op[t] \in Op /\ phase = "up" /\ IsFiniteSet(rows)
      /\ rows \subseteq Row
  BY DEF TypeInv, TypeOK, Delete, add_node
<1>1. CASE Delete(t)
  <2>1. rows' \subseteq rows
    BY <1>1 DEF Delete, rm_node
  <2>2. IsFiniteSet(rows')
    BY <1>0, <2>1, FS_Subset
  <2>3. [op[t] EXCEPT !.do = "add"] \in Op
    BY <1>0 DEF Op
  <2>4. op' \in [Threads -> Op \cup {None}]
    BY <1>0, <1>1, <2>3 DEF Delete
  <2>5. op'[Dropper] # None => op'[Dropper].do = "rm"
    BY <1>0, <1>1 DEF Delete, TypeInv, Threads
  <2>6. TypeOK'
    BY <1>0, <1>1, <2>1, <2>4 DEF Delete, TypeInv, TypeOK
  <2> QED
    BY <1>0, <1>1, <2>2, <2>5, <2>6 DEF TypeInv, Delete
<1>2. CASE add_node(t)
  <2> DEFINE new == [hash |-> op[t].hash, ip |-> op[t].ip, by |-> t]
  <2>1. t \in Handlers
    BY <1>2 DEF add_node, TypeInv, Threads
  <2>2. new \in Row
    BY <1>0, <2>1 DEF Row, Op
  <2> HIDE DEF new
  <2>3. rows' = rows \cup {new} /\ op' = [op EXCEPT ![t] = None]
    BY <1>2 DEF add_node, new
  <2>4. IsFiniteSet(rows') /\ rows' \subseteq Row
    BY <1>0, <2>2, <2>3, FS_AddElement
  <2>5. op' \in [Threads -> Op \cup {None}] /\ (op'[Dropper] # None => op'[Dropper].do = "rm")
    BY <1>0, <2>3 DEF TypeInv, Threads
  <2>6. TypeOK'
    BY <1>2, <2>4, <2>5 DEF add_node, TypeInv, TypeOK
  <2> QED
    BY <1>0, <1>2, <2>4, <2>5, <2>6 DEF TypeInv, add_node
<1> QED
  BY <1>1, <1>2

LEMMA SelectTypes ==
  ASSUME TypeInv, KeyInv, select
  PROVE  TypeInv'
<1>0. settings' \in KeyPair /\ keys' \in KeyPair /\ keys.pub \in Hash \cup {None}
      /\ identity' \in Hash \cup {None}
  BY SelectKeys DEF KeyInv, KeyPair, select, TypeInv, TypeOK
<1>1. CASE rows = {}
  BY <1>0, <1>1 DEF select, TypeInv, TypeOK
<1>2. CASE rows # {}
  <2>1. PICK s \in db_nodes : Sorted(s) /\ nodes' = [i \in DOMAIN s |-> Pair(s[i])]
    BY <1>2 DEF select
  <2>2. nodes' \in Seq(Entry) /\ Sorted(nodes')
    BY <2>1, SelectIs
  <2>3. phase' = "up" /\ mixed' = Shared(rows)
    BY <1>2 DEF select
  <2>4. mixed' \subseteq Ips
    BY <2>3, RowIs DEF Shared
  <2>5. TypeOK'
    BY <1>0, <2>2, <2>3, <2>4 DEF select, TypeInv, TypeOK
  <2> QED
    BY <2>3, <2>5 DEF TypeInv, select
<1> QED
  BY <1>1, <1>2

LEMMA StartTypes ==
  ASSUME TypeInv, KeyInv, Start \/ set_vars \/ Crash
  PROVE  TypeInv'
<1>1. CASE Start
  <2>1. settings' \in KeyPair /\ keys' \in KeyPair
    BY <1>1, StartKeys DEF KeyInv
  <2>2. starts' \in 0..MaxStarts
    <3>1. starts' = starts + 1 /\ starts < MaxStarts /\ starts \in 0..MaxStarts
      BY <1>1 DEF Start, TypeInv, TypeOK
    <3> QED
      BY <3>1, StoreAssumption
  <2>3. phase # "up" /\ phase' \in {"rm pub", "select"}
    BY <1>1 DEF Start
  <2>4. TypeOK'
    BY <1>1, <2>1, <2>2, <2>3 DEF Start, TypeInv, TypeOK
  <2> QED
    BY <1>1, <2>3, <2>4 DEF Start, TypeInv
<1>2. CASE set_vars
  <2>1. settings' \in KeyPair /\ keys' \in KeyPair
    BY <1>2, SetVarsKeys DEF KeyInv
  <2>2. phase # "up" /\ phase' \in {"rm pub", "add pub", "rm sec", "add sec", "select"}
        /\ UNCHANGED <<rows, nodes, op, starts, identity, mixed>>
    BY <1>2 DEF set_vars, rm_var, insert_var
  <2>3. TypeOK'
    BY <2>1, <2>2 DEF TypeInv, TypeOK
  <2> QED
    BY <2>2, <2>3 DEF TypeInv
<1>3. CASE Crash
  <2>1. NoKeys \in KeyPair
    BY DEF NoKeys, KeyPair
  <2>2. TypeOK'
    BY <1>3, <2>1, EmptyVector DEF Crash, TypeInv, TypeOK
  <2> QED
    BY <1>3, <2>2 DEF Crash, TypeInv, Threads
<1> QED
  BY <1>1, <1>2, <1>3

LEMMA NextTypes == TypeInv /\ KeyInv /\ [Next]_vars => TypeInv'
<1> SUFFICES ASSUME TypeInv, KeyInv, [Next]_vars PROVE TypeInv'
  OBVIOUS
<1>1. CASE Start \/ set_vars \/ Crash
  BY <1>1, StartTypes
<1>2. CASE select
  BY <1>2, SelectTypes
<1>3. ASSUME NEW t \in Handlers, NEW s \in Spoken, add(t, s[1], s[2]) PROVE TypeInv'
  BY <1>3, SpokenIs, AddTypes
<1>4. ASSUME NEW s \in Spoken, rm_hash(Dropper, s[1]) PROVE TypeInv'
  BY <1>4, RmTypes
<1>5. ASSUME NEW t \in Threads, Delete(t) \/ add_node(t) PROVE TypeInv'
  BY <1>5, TableTypes
<1>6. CASE UNCHANGED vars
  BY <1>6 DEF vars, TypeInv, TypeOK
<1> QED
  BY <1>1, <1>2, <1>3, <1>4, <1>5, <1>6 DEF Next

THEOREM StoreIsTyped == Spec => [](TypeInv /\ KeyInv)
<1>1. Init => TypeInv /\ KeyInv
  BY InitTypes, InitKeys
<1>2. TypeInv /\ KeyInv /\ [Next]_vars => (TypeInv /\ KeyInv)'
  BY NextTypes, NextKeys
<1> QED
  BY <1>1, <1>2, PTL DEF Spec

(* The vector stays sorted by byte sums, which vector_search assumes,      *)
(* through additions, evictions, removals and restarts; and nobody but a   *)
(* handler writes rows.                                                    *)
THEOREM TypeCorrect == Spec => []TypeOK
<1>1. TypeInv => TypeOK
  BY DEF TypeInv
<1> QED
  BY <1>1, StoreIsTyped, PTL

(* cmp says the same from both sides and orders the known nodes weakly     *)
(* about every key.                                                        *)
THEOREM OrderHolds == Spec => []OrderIsConsistent
<1>1. ASSUME TypeInv, NEW main \in Hash,
             NEW i \in DOMAIN nodes, NEW j \in DOMAIN nodes, NEW k \in DOMAIN nodes
      PROVE  LET a == nodes[i].hash  b == nodes[j].hash  c == nodes[k].hash
             IN  /\ cmp(main, a, b) = 1 <=> cmp(main, b, a) = 2
                 /\ cmp(main, a, a) = 0
                 /\ Closer(main, a, b) /\ Closer(main, b, c) => Closer(main, a, c)
                 /\ Closer(main, a, c) => Closer(main, a, b) \/ Closer(main, b, c)
  <2> DEFINE a == nodes[i].hash  b == nodes[j].hash  c == nodes[k].hash
  <2>1. a \in Hash /\ b \in Hash /\ c \in Hash
    BY <1>1, VecIs DEF TypeInv, TypeOK
  <2> HIDE DEF a, b, c
  <2>2. cmp(main, a, b) = 1 <=> cmp(main, b, a) = 2
    BY <2>1, CmpMirror DEF Closer
  <2>3. cmp(main, a, a) = 0
    BY DEF cmp, Differ
  <2>4. Closer(main, a, b) /\ Closer(main, b, c) => Closer(main, a, c)
    BY <2>1, CloserTransitive
  <2>5. Closer(main, a, c) => Closer(main, a, b) \/ Closer(main, b, c)
    BY <2>1, CloserNegTransitive
  <2> QED
    BY <2>2, <2>3, <2>4, <2>5 DEF a, b, c
<1>2. TypeInv => OrderIsConsistent
  BY <1>1 DEF OrderIsConsistent
<1> QED
  BY <1>2, StoreIsTyped, PTL

-----------------------------------------------------------------------------
(* The scan of nearest                                                     *)

(* The own key is known only from the table that was shipped: packets that *)
(* name it are turned away once the peer has one, and it never gets        *)
(* another.                                                                *)
Shipped == {s[1] : s \in FirstRows}
Foreign == {h \in Hash : h \in Shipped \/ (identity # None /\ h # identity)}

OwnInv ==
    /\ \A r \in rows : r.hash \in Foreign
    /\ \A i \in DOMAIN nodes : nodes[i].hash \in Foreign
    /\ \A t \in Threads : op[t] # None => op[t].hash \in Foreign

LEMMA InitOwn == Init => OwnInv
<1> SUFFICES ASSUME Init PROVE OwnInv
  OBVIOUS
<1>1. ASSUME NEW r \in rows PROVE r.hash \in Foreign
  <2>1. PICK s \in FirstRows : r = [hash |-> s[1], ip |-> s[2], by |-> Boot]
    BY DEF Init
  <2>2. s[1] \in Hash
    BY StoreAssumption
  <2> QED
    BY <2>1, <2>2 DEF Foreign, Shipped
<1> QED
  BY <1>1 DEF Init, OwnInv

(* The identity is set once.                                               *)
LEMMA ForeignStays ==
  ASSUME [Next]_vars
  PROVE  Foreign \subseteq Foreign'
<1>1. identity # None => identity' = identity
  <2>1. CASE select
    BY <2>1 DEF select
  <2>2. CASE Start \/ set_vars \/ Crash
    BY <2>2 DEF Start, set_vars, rm_var, insert_var, Crash
  <2>3. ASSUME NEW t \in Threads, Delete(t) \/ add_node(t) PROVE identity' = identity
    BY <2>3 DEF Delete, add_node
  <2>4. ASSUME NEW t, NEW k, NEW ip, add(t, k, ip) \/ rm_hash(t, k) PROVE identity' = identity
    BY <2>4 DEF add, rm_hash
  <2>5. CASE UNCHANGED vars
    BY <2>5 DEF vars
  <2> QED
    BY <2>1, <2>2, <2>3, <2>4, <2>5 DEF Next
<1> QED
  BY <1>1 DEF Foreign, Shipped

LEMMA NextOwn == OwnInv /\ TypeInv /\ KeyInv /\ [Next]_vars => OwnInv'
<1> SUFFICES ASSUME OwnInv, TypeInv, KeyInv, [Next]_vars PROVE OwnInv'
  OBVIOUS
<1>0. Foreign \subseteq Foreign'
  BY ForeignStays
<1>1. CASE select
  <2>1. CASE rows = {}
    BY <1>0, <1>1, <2>1 DEF select, OwnInv
  <2>2. CASE rows # {}
    <3>1. PICK s \in db_nodes : Sorted(s) /\ nodes' = [i \in DOMAIN s |-> Pair(s[i])]
      BY <1>1, <2>2 DEF select
    <3>2. \A i \in DOMAIN nodes' : \E r \in rows : nodes'[i].hash = r.hash
      BY <3>1, SelectIs
    <3>3. rows' = rows /\ op' = op
      BY <1>1 DEF select
    <3> QED
      BY <1>0, <3>2, <3>3 DEF OwnInv
  <2> QED
    BY <2>1, <2>2
<1>2. ASSUME NEW t \in Handlers, NEW s \in Spoken, add(t, s[1], s[2]) PROVE OwnInv'
  <2> DEFINE h == s[1]  ip == s[2]
  <2>1. h \in Foreign'
    <3>1. identity = keys.pub /\ h # keys.pub /\ keys.pub # None /\ identity' = identity
          /\ h \in Hash
      BY <1>2, SpokenIs DEF add, Ignored, KeyInv
    <3> QED
      BY <3>1 DEF Foreign, Shipped
  <2>2. PICK rest \in Seq(Entry), p \in Nat :
            /\ rest = nodes \/ Without(nodes, rest, 1)
            /\ Without(nodes', rest, p) /\ nodes'[p] = [hash |-> h, ip |-> ip]
            /\ nodes' \in Seq(Entry)
    BY <1>2, AddIs, SpokenIs
  <2>3. nodes \in Seq(Entry)
    BY DEF TypeInv, TypeOK
  <2>4. \A i \in DOMAIN rest : rest[i].hash \in Foreign'
    <3>1. CASE rest = nodes
      BY <1>0, <3>1 DEF OwnInv
    <3>2. CASE Without(nodes, rest, 1)
      <4>1. \A i \in 1..Len(rest) : \E j \in 1..Len(nodes) : rest[i] = nodes[j]
        BY <3>2, WithoutIs
      <4> QED
        BY <1>0, <2>3, <4>1, VecIs DEF OwnInv
    <3> QED
      BY <2>2, <3>1, <3>2
  <2>5. \A i \in DOMAIN nodes' : nodes'[i].hash \in Foreign'
    <3>1. \A i \in 1..Len(nodes') : i # p => \E j \in 1..Len(rest) : nodes'[i] = rest[j]
      <4> DEFINE m == nodes'
      <4>1. Without(m, rest, p)
        BY <2>2
      <4> HIDE DEF m
      <4>2. \A i \in 1..Len(m) : i # p => \E j \in 1..Len(rest) : m[i] = rest[j]
        BY <4>1, WithoutIs
      <4> QED
        BY <4>2 DEF m
    <3>2. /\ DOMAIN nodes' = 1..Len(nodes') /\ DOMAIN rest = 1..Len(rest)
          /\ nodes'[p].hash = h
      BY <2>2, VecIs
    <3> QED
      BY <2>1, <2>4, <3>1, <3>2
  <2>6. rows' \subseteq rows /\ op' = [op EXCEPT ![t] = [do |-> "rm add", hash |-> h, ip |-> ip]]
    BY <1>2 DEF add, Spared
  <2>7. \A u \in Threads : op'[u] # None => op'[u].hash \in Foreign'
    BY <1>0, <2>1, <2>6 DEF OwnInv, TypeInv, TypeOK
  <2> QED
    BY <1>0, <2>5, <2>6, <2>7 DEF OwnInv
<1>3. ASSUME NEW s \in Spoken, rm_hash(Dropper, s[1]) PROVE OwnInv'
  <2> DEFINE h == s[1]
  <2>1. PICK i \in 1..Len(nodes) :
            /\ nodes[i].hash = h
            /\ Without(nodes, nodes', i) /\ nodes' \in Seq(Entry)
            /\ op' = [op EXCEPT ![Dropper] = [do |-> "rm", hash |-> h, ip |-> nodes[i].ip]]
    BY <1>3, RmIs
  <2>2. nodes \in Seq(Entry) /\ op \in [Threads -> Op \cup {None}]
    BY DEF TypeInv, TypeOK
  <2>3. h \in Foreign'
    BY <1>0, <2>1, <2>2, VecIs DEF OwnInv
  <2>4. \A j \in DOMAIN nodes' : nodes'[j].hash \in Foreign'
    <3>1. \A j \in 1..Len(nodes') : \E k \in 1..Len(nodes) : nodes'[j] = nodes[k]
      BY <2>1 DEF Without
    <3> QED
      BY <1>0, <2>1, <2>2, <3>1, VecIs DEF OwnInv
  <2>5. \A u \in Threads : op'[u] # None => op'[u].hash \in Foreign'
    BY <1>0, <2>1, <2>2, <2>3 DEF OwnInv
  <2>6. rows' = rows
    BY <1>3 DEF rm_hash
  <2> QED
    BY <1>0, <2>4, <2>5, <2>6 DEF OwnInv
<1>4. ASSUME NEW t \in Threads, Delete(t) PROVE OwnInv'
  <2>1. rows' \subseteq rows /\ nodes' = nodes
    BY <1>4 DEF Delete, rm_node
  <2>2. op \in [Threads -> Op \cup {None}] /\ op[t] \in Op
    BY <1>4 DEF Delete, TypeInv, TypeOK
  <2>3. op'[t] # None => op'[t].hash = op[t].hash
    BY <1>4, <2>2 DEF Delete, Op
  <2>4. \A u \in Threads : u # t => op'[u] = op[u]
    BY <1>4, <2>2 DEF Delete
  <2>5. \A u \in Threads : op'[u] # None => op'[u].hash \in Foreign'
    BY <1>0, <1>4, <2>2, <2>3, <2>4 DEF OwnInv, Delete
  <2> QED
    BY <1>0, <2>1, <2>5 DEF OwnInv
<1>5. ASSUME NEW t \in Threads, add_node(t) PROVE OwnInv'
  <2>1. op \in [Threads -> Op \cup {None}] /\ op' = [op EXCEPT ![t] = None] /\ nodes' = nodes
    BY <1>5 DEF add_node, TypeInv, TypeOK
  <2> DEFINE new == [hash |-> op[t].hash, ip |-> op[t].ip, by |-> t]
  <2>2. rows' = rows \cup {new} /\ new.hash = op[t].hash /\ op[t] # None
    BY <1>5 DEF add_node
  <2> HIDE DEF new
  <2>3. \A r \in rows' : r.hash \in Foreign'
    BY <1>0, <2>2 DEF OwnInv
  <2> QED
    BY <1>0, <2>1, <2>3 DEF OwnInv
<1>6. CASE Start \/ set_vars \/ UNCHANGED vars
  <2>1. rows' = rows /\ nodes' = nodes /\ op' = op
    BY <1>6 DEF Start, set_vars, rm_var, insert_var, vars
  <2> QED
    BY <1>0, <2>1 DEF OwnInv
<1>7. CASE Crash
  <2>1. rows' = rows /\ nodes' = <<>> /\ op' = [t \in Threads |-> None]
    BY <1>7 DEF Crash
  <2> QED
    BY <1>0, <2>1 DEF OwnInv
<1> QED
  BY <1>1, <1>2, <1>3, <1>4, <1>5, <1>6, <1>7 DEF Next

LEMMA OwnHolds == Spec => [](OwnInv /\ TypeInv /\ KeyInv)
<1>1. Init => OwnInv /\ TypeInv /\ KeyInv
  BY InitOwn, InitTypes, InitKeys
<1>2. OwnInv /\ TypeInv /\ KeyInv /\ [Next]_vars => (OwnInv /\ TypeInv /\ KeyInv)'
  BY NextOwn, NextTypes, NextKeys
<1> QED
  BY <1>1, <1>2, PTL DEF Spec

(* nearest answers a key that no candidate is nearer to `main` than, over  *)
(* whatever vector additions, evictions, removals and restarts leave, and  *)
(* whatever head it read before it took the mutex.                         *)
THEOREM NearestHolds == Spec => []NearestIsMinimal
<1>1. ASSUME TypeInv, NEW main \in Hash, NEW head \in KnownKeys
      PROVE  LET vec == [i \in DOMAIN nodes |-> nodes[i].hash]
             IN  nearest(main, keys.pub, head, vec)
                     \in Nearest(main, {head} \cup (ToSet(vec) \ {keys.pub}))
  <2> DEFINE vec == [i \in DOMAIN nodes |-> nodes[i].hash]
  <2>1. nodes \in Seq(Entry)
    BY <1>1 DEF TypeInv, TypeOK
  <2>2. DOMAIN nodes = 1..Len(nodes) /\ Len(nodes) \in Nat
        /\ \A i \in 1..Len(nodes) : nodes[i].hash \in Hash
    BY <2>1, VecIs
  <2>3. vec \in Seq(Hash)
    BY <2>2
  <2> HIDE DEF vec
  <2>0. head \in Hash
    BY StoreAssumption DEF KnownKeys
  <2>4. nearest(main, keys.pub, head, vec) \in Nearest(main, {head} \cup (ToSet(vec) \ {keys.pub}))
    BY <2>0, <2>3, ScanIsMinimal
  <2> QED
    BY <2>4 DEF vec
<1>2. TypeInv => NearestIsMinimal
  BY <1>1 DEF NearestIsMinimal
<1> QED
  BY <1>2, OwnHolds, PTL

(* A peer's own key is among its nodes only if it was shipped with it.     *)
THEOREM OwnKeyIsShipped == Spec => []OwnKeyShipped
<1>1. OwnInv /\ TypeInv /\ KeyInv => OwnKeyShipped
  <2> SUFFICES ASSUME OwnInv, KeyInv, phase = "up",
                      NEW i \in DOMAIN nodes, nodes[i].hash = keys.pub
               PROVE  keys.pub \in Shipped
    BY DEF OwnKeyShipped, Shipped
  <2>1. keys.pub \in Foreign
    BY DEF OwnInv
  <2>2. identity = keys.pub /\ keys.pub # None
    BY DEF KeyInv
  <2> QED
    BY <2>1, <2>2 DEF Foreign
<1> QED
  BY <1>1, OwnHolds, PTL

-----------------------------------------------------------------------------
(* Vector and table                                                        *)

Busy(ip) == {t \in Threads : op[t] # None /\ op[t].ip = ip}

Matches(ip) ==
    \/ Busy(ip) = {} /\ Kept(ip) = Known(nodes, ip)
    \/ \E t \in Busy(ip) :
          /\ Busy(ip) = {t} /\ Kept(ip) \subseteq {op[t].hash}
          /\ Known(nodes, ip) = IF op[t].do = "rm" THEN {} ELSE {op[t].hash}

(* Where nothing has met, an address is in the vector once, and it is of   *)
(* at most one thread.                                                     *)
MatchInv ==
    phase = "up" => \A ip \in Ips \ mixed : Once(nodes, ip) /\ Matches(ip)

(* Nothing changes at an address that a step is not about.                 *)
LEMMA OthersMatch ==
  ASSUME NEW ip, Once(nodes, ip), Matches(ip), Known(nodes', ip) = Known(nodes, ip),
         Once(nodes', ip), Kept(ip)' = Kept(ip), Busy(ip)' = Busy(ip),
         \A t \in Busy(ip) : op'[t] = op[t]
  PROVE  (Once(nodes, ip) /\ Matches(ip))'
BY DEF Matches

(* One thread is at work on an address at which no other was.              *)
LEMMA NewWork ==
  ASSUME TypeInv, NEW t \in Threads, NEW w \in Op, NEW a, w.ip = a, op[t] = None, op' = [op EXCEPT ![t] = w]
  PROVE  /\ op'[t] = w /\ \A u \in Threads : u # t => op'[u] = op[u]
         /\ \A ip : a # ip => Busy(ip)' = Busy(ip)
         /\ Busy(a) = {} => Busy(a)' = {t}
<1>1. op \in [Threads -> Op \cup {None}] /\ w # None
  BY StoreAssumption DEF TypeInv, TypeOK
<1>2. op'[t] = w /\ \A u \in Threads : u # t => op'[u] = op[u]
  BY <1>1
<1>3. \A ip : a # ip => Busy(ip)' = Busy(ip)
  BY <1>1, <1>2 DEF Busy
<1>4. Busy(a) = {} => Busy(a)' = {t}
  BY <1>1, <1>2 DEF Busy
<1> QED
  BY <1>2, <1>3, <1>4

LEMMA NoMeeting ==
  ASSUME NEW t \in Threads, NEW ip, NEW h, ~Meets(t, ip, h), op[t] = None, nodes \in Seq(Entry)
  PROVE  Busy(ip) = {} /\ Known(nodes, ip) \subseteq {h}
<1>1. Busy(ip) = {}
  BY DEF Meets, Busy
<1>2. Known(nodes, ip) \subseteq {h}
  BY DEF Meets, Known
<1> QED
  BY <1>1, <1>2

(* The rows of the addresses of the evicted go.                            *)
LEMMA SparedRows ==
  ASSUME NEW gone, rows' = Spared(rows, gone), NEW ip
  PROVE  /\ (\A e \in gone : e.ip # ip) => Kept(ip)' = Kept(ip)
         /\ (\E e \in gone : e.ip = ip) => Kept(ip)' = {}
         /\ Kept(ip)' \subseteq Kept(ip)
<1>1. rows' \subseteq rows /\ \A r \in rows : r \in rows' <=> \A e \in gone : r.ip # e.ip
  BY DEF Spared, rm_node
<1> QED
  BY <1>1 DEF Kept

LEMMA AddMatches ==
  ASSUME TypeInv, MatchInv, NEW t \in Handlers, NEW h \in Hash, NEW a \in Ips, add(t, h, a)
  PROVE  MatchInv'
<1> DEFINE w == [do |-> "rm add", hash |-> h, ip |-> a]
           gone == Evicted(nodes)
<1>0. /\ phase = "up" /\ phase' = "up" /\ op[t] = None /\ t \in Threads /\ Find(nodes, h) = {}
      /\ rows' = Spared(rows, gone) /\ op' = [op EXCEPT ![t] = w]
      /\ mixed' = mixed \cup {i \in {a} : Meets(t, a, h)}
                        \cup {e.ip : e \in {g \in gone : g.ip = a \/ Meets(t, g.ip, g.hash)}}
      /\ nodes \in Seq(Entry)
  BY DEF add, Ignored, Threads, TypeInv, TypeOK
<1>1. w \in Op /\ w.ip = a /\ w.hash = h /\ w.do = "rm add"
  BY DEF Op
<1> HIDE DEF w
<1>2. PICK rest \in Seq(Entry), p \in Nat :
            /\ \/ rest = nodes /\ gone = {}
               \/ Without(nodes, rest, 1) /\ gone = {nodes[1]}
            /\ Without(nodes', rest, p) /\ nodes'[p] = [hash |-> h, ip |-> a]
            /\ nodes' \in Seq(Entry)
  BY AddIs
<1>3. nodes'[p].ip = a /\ nodes'[p].hash = h
  BY <1>2
<1>4. /\ op'[t] = w /\ \A u \in Threads : u # t => op'[u] = op[u]
      /\ \A ip : a # ip => Busy(ip)' = Busy(ip)
      /\ Busy(a) = {} => Busy(a)' = {t}
  <2>1. w \in Op /\ w.ip = a /\ op[t] = None /\ t \in Threads /\ op' = [op EXCEPT ![t] = w]
    BY <1>0, <1>1
  <2>2. op'[t] = w /\ \A u \in Threads : u # t => op'[u] = op[u]
    BY <2>1, NewWork
  <2>3. ASSUME NEW ip, a # ip PROVE Busy(ip)' = Busy(ip)
    BY <2>1, <2>2, <2>3, StoreAssumption DEF Busy
  <2>4. Busy(a) = {} => Busy(a)' = {t}
    BY <2>1, NewWork
  <2> QED
    BY <2>2, <2>3, <2>4
<1>5. \A ip \in Ips \ mixed : Once(nodes, ip) /\ Matches(ip)
  BY <1>0 DEF MatchInv
<1> HIDE DEF gone
<1>6. ASSUME NEW ip \in Ips \ mixed', ip # a, \A e \in gone : e.ip # ip
      PROVE  (Once(nodes, ip) /\ Matches(ip))'
  <2>1. Known(rest, ip) = Known(nodes, ip) /\ (Once(rest, ip) <=> Once(nodes, ip))
    <3>1. CASE rest = nodes
      BY <3>1
    <3>2. CASE Without(nodes, rest, 1) /\ gone = {nodes[1]}
      <4>1. nodes[1].ip # ip
        BY <1>6, <3>2
      <4> QED
        BY <1>0, <1>2, <3>2, <4>1, Elsewhere
    <3> QED
      BY <1>2, <3>1, <3>2
  <2>2. Known(nodes', ip) = Known(rest, ip) /\ (Once(nodes', ip) <=> Once(rest, ip))
    <3>1. nodes'[p].ip # ip
      BY <1>3, <1>6
    <3> QED
      BY <1>2, <3>1, Elsewhere
  <2>3. Kept(ip)' = Kept(ip)
    BY <1>0, <1>6, SparedRows
  <2>4. ip \in Ips \ mixed
    BY <1>0, <1>6
  <2>5. Busy(ip)' = Busy(ip) /\ \A u \in Busy(ip) : op'[u] = op[u]
    BY <1>0, <1>4, <1>6 DEF Busy
  <2> QED
    BY <1>5, <2>1, <2>2, <2>3, <2>4, <2>5, OthersMatch
<1>7. ASSUME NEW ip \in Ips \ mixed', ip # a, NEW e \in gone, e.ip = ip
      PROVE  (Once(nodes, ip) /\ Matches(ip))'
  <2>1. e = nodes[1] /\ Without(nodes, rest, 1) /\ gone = {nodes[1]} /\ ip \in Ips \ mixed
    BY <1>0, <1>2, <1>7
  <2>2. Busy(ip) = {} /\ Once(nodes, ip)
    <3>1. ~Meets(t, ip, e.hash)
      BY <1>0, <1>7
    <3> QED
      BY <1>0, <1>5, <2>1, <3>1, NoMeeting
  <2>3. Known(rest, ip) = {} /\ Once(rest, ip)
    BY <1>0, <1>2, <1>7, <2>1, <2>2, TheOnly
  <2>4. Known(nodes', ip) = {} /\ Once(nodes', ip)
    <3>1. nodes'[p].ip # ip
      BY <1>3, <1>7
    <3> QED
      BY <1>2, <2>3, <3>1, Elsewhere
  <2>5. Kept(ip)' = {}
    BY <1>0, <1>7, SparedRows
  <2>6. Busy(ip)' = {}
    BY <1>4, <1>7, <2>2
  <2> QED
    BY <2>4, <2>5, <2>6 DEF Matches
<1>8. ASSUME a \notin mixed'
      PROVE  (Once(nodes, a) /\ Matches(a))'
  <2>1. a \in Ips \ mixed /\ ~Meets(t, a, h) /\ \A e \in gone : e.ip # a
    BY <1>0, <1>8
  <2>2. Busy(a) = {} /\ Known(nodes, a) = {}
    <3>1. Busy(a) = {} /\ Known(nodes, a) \subseteq {h}
      BY <1>0, <2>1, NoMeeting
    <3>2. h \notin Known(nodes, a)
      BY <1>0 DEF Known, Find
    <3> QED
      BY <3>1, <3>2
  <2>3. Known(rest, a) = {}
    <3>1. CASE rest = nodes
      BY <2>2, <3>1
    <3>2. CASE Without(nodes, rest, 1) /\ gone = {nodes[1]}
      <4>1. nodes[1].ip # a
        BY <2>1, <3>2
      <4> QED
        BY <1>0, <1>2, <2>2, <3>2, <4>1, Elsewhere
    <3> QED
      BY <1>2, <3>1, <3>2
  <2>4. Known(nodes', a) = {h} /\ Once(nodes', a)
    <3>1. Absent(rest, nodes'[p].ip)
      BY <1>3, <2>3 DEF Absent
    <3>2. Sole(nodes', nodes'[p].ip, nodes'[p].hash)
      BY <1>2, <3>1, TheFirst
    <3> QED
      BY <1>3, <3>2 DEF Sole
  <2>5. Kept(a)' = {}
    <3>1. Kept(a) = {}
      BY <1>5, <2>1, <2>2 DEF Matches
    <3> QED
      BY <1>0, <3>1, SparedRows
  <2>6. Busy(a)' = {t} /\ op'[t] = w
    BY <1>4, <2>2
  <2> QED
    BY <1>1, <2>4, <2>5, <2>6 DEF Matches
<1> QED
  BY <1>6, <1>7, <1>8 DEF MatchInv

LEMMA RmMatches ==
  ASSUME TypeInv, MatchInv, NEW h, rm_hash(Dropper, h)
  PROVE  MatchInv'
<1> DEFINE t == Dropper
<1>0. /\ phase = "up" /\ phase' = "up" /\ op[t] = None /\ t \in Threads /\ nodes \in Seq(Entry)
      /\ rows' = rows
  BY DEF rm_hash, Threads, TypeInv, TypeOK
<1>1. PICK i \in 1..Len(nodes) :
            /\ nodes[i].hash = h /\ nodes[i].ip \in Ips /\ h \in Hash
            /\ Without(nodes, nodes', i) /\ nodes' \in Seq(Entry)
            /\ op' = [op EXCEPT ![t] = [do |-> "rm", hash |-> h, ip |-> nodes[i].ip]]
            /\ mixed' = mixed \cup {j \in {nodes[i].ip} : Meets(t, j, h)}
  BY RmIs
<1>. PICK a \in Ips : a = nodes[i].ip
  BY <1>1
<1> DEFINE w == [do |-> "rm", hash |-> h, ip |-> a]
<1>2. w \in Op /\ w.ip = a /\ w.hash = h /\ w.do = "rm" /\ op' = [op EXCEPT ![t] = w]
  BY <1>1 DEF Op
<1> HIDE DEF w, t
<1>3. /\ op'[t] = w /\ \A u \in Threads : u # t => op'[u] = op[u]
      /\ \A ip : a # ip => Busy(ip)' = Busy(ip)
      /\ Busy(a) = {} => Busy(a)' = {t}
  BY <1>0, <1>2, NewWork
<1>4. \A ip \in Ips \ mixed : Once(nodes, ip) /\ Matches(ip)
  BY <1>0 DEF MatchInv
<1>5. \A ip : Kept(ip)' = Kept(ip)
  BY <1>0 DEF Kept
<1>6. ASSUME NEW ip \in Ips \ mixed', ip # a
      PROVE  (Once(nodes, ip) /\ Matches(ip))'
  <2>1. Known(nodes', ip) = Known(nodes, ip) /\ (Once(nodes', ip) <=> Once(nodes, ip))
    BY <1>0, <1>1, <1>6, Elsewhere
  <2>2. ip \in Ips \ mixed
    BY <1>1, <1>6
  <2>3. Busy(ip)' = Busy(ip) /\ \A u \in Busy(ip) : op'[u] = op[u]
    BY <1>0, <1>3, <1>6 DEF Busy
  <2> QED
    BY <1>4, <1>5, <2>1, <2>2, <2>3, OthersMatch
<1>7. ASSUME a \notin mixed'
      PROVE  (Once(nodes, a) /\ Matches(a))'
  <2>1. a \in Ips \ mixed /\ ~Meets(t, a, h)
    BY <1>1, <1>7
  <2>2. Busy(a) = {} /\ Once(nodes, a)
    BY <1>0, <1>4, <2>1, NoMeeting
  <2>3. Known(nodes', a) = {} /\ Once(nodes', a) /\ Known(nodes, a) = {h}
    <3>1. /\ nodes \in Seq(Entry) /\ nodes' \in Seq(Entry) /\ Without(nodes, nodes', i)
          /\ nodes[i].ip = a /\ nodes[i].hash = h /\ Once(nodes, a)
      BY <1>0, <1>1, <2>2
    <3>2. Known(nodes', a) = {} /\ Once(nodes', a) /\ Known(nodes, a) = {nodes[i].hash}
      BY <3>1, TheOnly
    <3> QED
      BY <3>1, <3>2
  <2>4. Kept(a)' = {h}
    BY <1>4, <1>5, <2>1, <2>2, <2>3 DEF Matches
  <2>5. Busy(a)' = {t} /\ op'[t] = w
    BY <1>3, <2>2
  <2> QED
    BY <1>2, <2>3, <2>4, <2>5 DEF Matches
<1> QED
  BY <1>6, <1>7 DEF MatchInv

(* A thread that goes on with, or ends, its work on an address changes the *)
(* rows of that address only.                                              *)
LEMMA TableMatches ==
  ASSUME TypeInv, MatchInv, NEW t \in Threads, Delete(t) \/ add_node(t)
  PROVE  MatchInv'
<1>. PICK a, h : a = op[t].ip /\ h = op[t].hash
  OBVIOUS
<1>0. /\ op \in [Threads -> Op \cup {None}] /\ op[t] \in Op /\ op[t] # None
      /\ phase = "up" /\ nodes' = nodes /\ mixed' = mixed
  BY DEF TypeInv, TypeOK, Delete, add_node
<1>1. \A ip \in Ips \ mixed : Once(nodes, ip) /\ Matches(ip)
  BY <1>0 DEF MatchInv
<1>2. \A u \in Threads : u # t => op'[u] = op[u]
  BY <1>0 DEF Delete, add_node
<1>3. /\ op'[t] = None \/ (op'[t] # None /\ op'[t].ip = a /\ op'[t].hash = h /\ op'[t].do = "add"
                           /\ op[t].do # "rm")
      /\ Delete(t) /\ op[t].do = "rm" => op'[t] = None
      /\ add_node(t) => op'[t] = None
  <2>1. op[t].do # "rm" => /\ [op[t] EXCEPT !.do = "add"] \in Op
                           /\ [op[t] EXCEPT !.do = "add"].ip = a
                           /\ [op[t] EXCEPT !.do = "add"].hash = op[t].hash
                           /\ [op[t] EXCEPT !.do = "add"].do = "add"
    BY <1>0 DEF Op
  <2> QED
    BY <1>0, <2>1, StoreAssumption DEF Delete, add_node
<1>4. ASSUME NEW ip, ip # a PROVE Kept(ip)' = Kept(ip)
  <2>1. CASE Delete(t)
    BY <1>4, <2>1 DEF Delete, rm_node, Kept
  <2>2. CASE add_node(t)
    <3> DEFINE new == [hash |-> h, ip |-> a, by |-> t]
    <3>1. rows' = rows \cup {new} /\ new.ip = a
      BY <2>2 DEF add_node
    <3> HIDE DEF new
    <3> QED
      BY <1>4, <3>1 DEF Kept
  <2> QED
    BY <2>1, <2>2
<1>5. ASSUME NEW ip \in Ips \ mixed', ip # a
      PROVE  (Once(nodes, ip) /\ Matches(ip))'
  <2>1. Busy(ip)' = Busy(ip) /\ \A u \in Busy(ip) : op'[u] = op[u]
    BY <1>0, <1>2, <1>3, <1>5 DEF Busy
  <2> QED
    BY <1>0, <1>1, <1>4, <1>5, <2>1, OthersMatch
<1>6. ASSUME a \in Ips \ mixed'
      PROVE  (Once(nodes, a) /\ Matches(a))'
  <2>1. t \in Busy(a)
    BY <1>0 DEF Busy
  <2>2. /\ Once(nodes, a) /\ Busy(a) = {t} /\ Kept(a) \subseteq {h}
        /\ Known(nodes, a) = IF op[t].do = "rm" THEN {} ELSE {h}
    <3>1. Once(nodes, a) /\ Matches(a)
      BY <1>0, <1>1, <1>6
    <3> QED
      BY <2>1, <3>1 DEF Matches
  <2>3. op'[t] = None => Busy(a)' = {}
    BY <1>2, <2>2 DEF Busy
  <2>4. op'[t] # None => Busy(a)' = {t}
    BY <1>2, <1>3, <2>1, <2>2 DEF Busy
  <2>5. CASE Delete(t)
    <3>1. Kept(a)' = {}
      BY <2>5 DEF Delete, rm_node, Kept
    <3>2. CASE op[t].do = "rm"
      BY <1>0, <1>3, <2>2, <2>3, <2>5, <3>1, <3>2 DEF Matches
    <3>3. CASE op[t].do # "rm"
      <4>1. op'[t] # None
        BY <1>0, <2>5, <3>3, StoreAssumption DEF Delete, Op
      <4>2. op'[t].do = "add" /\ op'[t].hash = h
        BY <1>3, <4>1
      <4> QED
        BY <1>0, <2>2, <2>4, <3>1, <3>3, <4>1, <4>2 DEF Matches
    <3> QED
      BY <3>2, <3>3
  <2>6. CASE add_node(t)
    <3> DEFINE new == [hash |-> h, ip |-> a, by |-> t]
    <3>1. rows' = rows \cup {new} /\ new.ip = a /\ new.hash = h /\ op[t].do = "add"
      BY <2>6 DEF add_node
    <3> HIDE DEF new
    <3>2. Kept(a)' = {h}
      BY <2>2, <3>1 DEF Kept
    <3>3. Known(nodes, a) = {h}
      BY <2>2, <3>1
    <3> QED
      BY <1>0, <1>3, <2>2, <2>3, <2>6, <3>2, <3>3 DEF Matches
  <2> QED
    BY <2>5, <2>6
<1> QED
  BY <1>0, <1>5, <1>6 DEF MatchInv

LEMMA SelectMatches ==
  ASSUME TypeInv, select
  PROVE  MatchInv'
<1>1. CASE rows = {}
  BY <1>1 DEF select, MatchInv
<1>2. CASE rows # {}
  <2>1. PICK s \in db_nodes : Sorted(s) /\ nodes' = [i \in DOMAIN s |-> Pair(s[i])]
    BY <1>2 DEF select
  <2>2. \A ip : Known(nodes', ip) = Kept(ip) /\ (ip \notin Shared(rows) => Once(nodes', ip))
    BY <2>1, SelectIs
  <2>3. rows' = rows /\ op' = op /\ mixed' = Shared(rows) /\ \A t \in Threads : op[t] = None
    BY <1>2 DEF select, TypeInv
  <2>4. \A ip : Busy(ip)' = {} /\ Kept(ip)' = Kept(ip)
    BY <2>3 DEF Busy, Kept
  <2> QED
    BY <2>2, <2>3, <2>4 DEF MatchInv, Matches
<1> QED
  BY <1>1, <1>2

LEMMA NextMatches == MatchInv /\ TypeInv /\ [Next]_vars => MatchInv'
<1> SUFFICES ASSUME MatchInv, TypeInv, [Next]_vars PROVE MatchInv'
  OBVIOUS
<1>1. CASE Start \/ set_vars \/ Crash
  <2>1. phase' # "up"
    BY <1>1 DEF Start, set_vars, rm_var, insert_var, Crash
  <2> QED
    BY <2>1 DEF MatchInv
<1>2. CASE select
  BY <1>2, SelectMatches
<1>3. ASSUME NEW t \in Handlers, NEW s \in Spoken, add(t, s[1], s[2]) PROVE MatchInv'
  BY <1>3, SpokenIs, AddMatches
<1>4. ASSUME NEW s \in Spoken, rm_hash(Dropper, s[1]) PROVE MatchInv'
  BY <1>4, RmMatches
<1>5. ASSUME NEW t \in Threads, Delete(t) \/ add_node(t) PROVE MatchInv'
  BY <1>5, TableMatches
<1>6. CASE UNCHANGED vars
  BY <1>6 DEF vars, MatchInv, Matches, Once, Known, Kept, Busy
<1> QED
  BY <1>1, <1>2, <1>3, <1>4, <1>5, <1>6 DEF Next

(* Vector and table agree at every address at which no two operations and  *)
(* no two keys have met since the start, up to the one operation under     *)
(* way, although the vector is changed under the mutex and the table after *)
(* it, and whenever the process dies.                                      *)
THEOREM TableFollows == Spec => []StoreMatches
<1>1. Init => MatchInv
  BY DEF Init, MatchInv
<1>2. MatchInv => StoreMatches
  BY DEF MatchInv, StoreMatches, Matches, Known, Kept, Busy
<1> QED
  BY <1>1, <1>2, NextMatches, StoreIsTyped, PTL DEF Spec
=============================================================================
