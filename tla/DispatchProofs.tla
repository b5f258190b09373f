--------------------------- MODULE DispatchProofs ---------------------------
(***************************************************************************)
(* What holds of Dispatch for any datagrams, any finite number of threads  *)
(* and any limit.                                                          *)
(***************************************************************************)
EXTENDS Dispatch, FiniteSetTheorems, TLAPS

(* The threads between their increment and their decrement.                *)
Running(p) == {t \in Slots : p[t] \in Counted}
Counting == threads = Cardinality(Running(pc))

(* Until two threads have passed the test together, at most one is between *)
(* test and increment, and there is room for it.                           *)
RoomLeft ==
    ~raced =>
        /\ threads <= PACKLIM
        /\ \A t, u \in Slots : pc[t] = "count" /\ pc[u] = "count" => t = u
        /\ \A t \in Slots : pc[t] = "count" => threads < PACKLIM

CInv == TypeOK /\ Counting /\ RoomLeft

-----------------------------------------------------------------------------
LEMMA PacketTypes ==
  /\ None \notin Packets /\ None \notin Ips
  /\ \A p \in Packets : p.ip \in Ips /\ p.cookie \in Cookies
BY DispatchAssumption DEF Ips, Cookies

LEMMA CookieIsKey ==
  ASSUME NEW p \in Packets, garbled \in BOOLEAN
  PROVE  /\ cookie(p) \subseteq Key
         /\ ~garbled => cookie(p) = {<<p.cookie, 0>>}
BY PacketTypes DEF cookie, Key

LEMMA InitCounts == Init => CInv
<1> SUFFICES ASSUME Init PROVE CInv
  OBVIOUS
<1>1. Running(pc) = {} /\ Cardinality({}) = 0
  <2>1. \A t \in Slots : pc[t] = "idle"
    BY DEF Init
  <2>2. Running(pc) = {}
    BY <2>1 DEF Running, Counted
  <2>3. Cardinality({}) = 0
    BY FS_EmptySet
  <2> QED
    BY <2>2, <2>3
<1>2. TypeOK
  <2>1. garbled \in BOOLEAN /\ msg \in [Slots -> Packets \cup {None}]
    BY DEF Init
  <2>2. queue \in [Key -> Ips \cup {None}] /\ arrivals \in 0..MaxArrivals
    BY DispatchAssumption DEF Init
  <2> QED
    BY <2>1, <2>2 DEF Init, TypeOK
<1>3. Counting /\ RoomLeft
  BY <1>1, DispatchAssumption DEF Init, Counting, RoomLeft
<1> QED
  BY <1>2, <1>3 DEF CInv

(* A step of a thread between two labels of Counted leaves the count.      *)
LEMMA StillRunning ==
  ASSUME TypeOK, NEW t \in Slots, NEW from, NEW to, Goes(t, from, to),
         from \in Counted <=> to \in Counted
  PROVE  Running(pc') = Running(pc)
BY DEF TypeOK, Goes, Running

LEMMA RunningFinite ==
  ASSUME NEW p
  PROVE  IsFiniteSet(Running(p)) /\ Cardinality(Running(p)) \in Nat
<1>1. Running(p) \subseteq Slots
  BY DEF Running
<1>2. IsFiniteSet(Running(p))
  BY <1>1, DispatchAssumption, FS_Subset
<1> QED
  BY <1>2, FS_CardinalityType

(* Actions that leave the threads alone.                                   *)
LEMMA OutsideCounts ==
  ASSUME CInv, UNCHANGED <<role, garbled, pc, msg, threads, queue, arrivals, raced>>,
         father' \in BOOLEAN, stalled' \in BOOLEAN
  PROVE  CInv'
BY DEF CInv, TypeOK, Counting, RoomLeft, Running

(* Actions of a thread that is counted before and after.                   *)
LEMMA InsideCounts ==
  ASSUME CInv, NEW t \in Slots, NEW from \in Counted, NEW to \in Counted, Goes(t, from, to),
         UNCHANGED <<role, garbled, msg, threads, father, stalled, arrivals, raced>>,
         queue' \in [Key -> Ips \cup {None}]
  PROVE  CInv'
<1>1. Running(pc') = Running(pc)
  BY StillRunning DEF CInv
<1>2. TypeOK'
  BY DEF CInv, TypeOK, Goes, Counted
<1>3. Counting'
  BY <1>1 DEF CInv, Counting
<1>4. \A u \in Slots : pc'[u] = "count" => pc[u] = "count"
  BY DEF CInv, TypeOK, Goes, Counted
<1>5. RoomLeft'
  BY <1>4 DEF CInv, RoomLeft
<1> QED
  BY <1>2, <1>3, <1>5 DEF CInv

LEMMA RecordedType ==
  ASSUME TypeOK, NEW t \in Slots, pc[t] # "idle", NEW k \in cookie(msg[t])
  PROVE  /\ Recorded(t, k) \in [Key -> Ips \cup {None}]
         /\ Released(t, k) \in [Key -> Ips \cup {None}]
<1>1. msg[t] \in Packets
  BY DEF TypeOK
<1>2. k \in Key /\ msg[t].ip \in Ips
  BY <1>1, CookieIsKey, PacketTypes DEF TypeOK
<1> QED
  BY <1>2 DEF TypeOK, Recorded, Released

LEMMA NextCounts == CInv /\ [Next]_vars => CInv'
<1> SUFFICES ASSUME CInv, [Next]_vars PROVE CInv'
  OBVIOUS
<1>1. ASSUME NEW t \in Slots, NEW p \in Packets, recv_thread(t, p)
      PROVE  CInv'
  <2>1. Running(pc') = Running(pc)
    BY <1>1, StillRunning DEF CInv, recv_thread, Counted
  <2>2. TypeOK'
    BY <1>1, PacketTypes, DispatchAssumption DEF CInv, TypeOK, recv_thread, Goes
  <2>3. \A u \in Slots : pc'[u] = "count" => pc[u] = "count"
    BY <1>1 DEF CInv, TypeOK, recv_thread, Goes
  <2> QED
    BY <1>1, <2>1, <2>2, <2>3 DEF CInv, Counting, RoomLeft, recv_thread
<1>2. ASSUME NEW t \in Slots, Test(t)
      PROVE  CInv'
  <2>1. CASE Full
    <3>1. Running(pc') = Running(pc)
      BY <1>2, <2>1, StillRunning DEF CInv, Test, Returns, Counted
    <3>2. TypeOK'
      BY <1>2, <2>1, PacketTypes DEF CInv, TypeOK, Test, Returns, Goes
    <3>3. \A u \in Slots : pc'[u] = "count" => pc[u] = "count"
      BY <1>2, <2>1 DEF CInv, TypeOK, Test, Returns, Goes
    <3> QED
      BY <1>2, <2>1, <3>1, <3>2, <3>3 DEF CInv, Counting, RoomLeft, Test
  <2>2. CASE ~Full
    <3>1. Running(pc') = Running(pc)
      BY <1>2, <2>2, StillRunning DEF CInv, Test, Counted
    <3>2. TypeOK'
      BY <1>2, <2>2 DEF CInv, TypeOK, Test, Goes
    <3>3. threads < PACKLIM
      BY <2>2, DispatchAssumption DEF CInv, TypeOK, Full
    <3>4. RoomLeft'
      BY <1>2, <2>2, <3>3 DEF CInv, TypeOK, RoomLeft, Test, Goes
    <3> QED
      BY <1>2, <2>2, <3>1, <3>2, <3>4 DEF CInv, Counting, Test
  <2> QED
    BY <2>1, <2>2
<1>3. ASSUME NEW t \in Slots, Count(t)
      PROVE  CInv'
  <2>1. Running(pc') = Running(pc) \cup {t} /\ t \notin Running(pc)
    BY <1>3 DEF CInv, TypeOK, Count, Goes, Running, Counted
  <2>2. Cardinality(Running(pc')) = Cardinality(Running(pc)) + 1
    BY <2>1, RunningFinite, FS_AddElement
  <2>3. Counting'
    BY <1>3, <2>2 DEF CInv, Counting, Count
  <2>4. TypeOK'
    BY <1>3 DEF CInv, TypeOK, Count, Goes, Counted
  <2>5. RoomLeft'
    BY <1>3, DispatchAssumption DEF CInv, TypeOK, RoomLeft, Count, Goes
  <2> QED
    BY <2>3, <2>4, <2>5 DEF CInv
<1>4. ASSUME NEW t \in Slots, Refuse(t) \/ Suppress(t) \/ EnterUser(t) \/ Handle(t)
      PROVE  CInv'
  <2>1. \E from, to \in Counted : Goes(t, from, to)
    BY <1>4 DEF Refuse, Suppress, EnterUser, Handle, AfterHandle, Counted
  <2>2. UNCHANGED <<role, garbled, msg, threads, queue, father, stalled, arrivals, raced>>
    BY <1>4 DEF Refuse, Suppress, EnterUser, Handle
  <2> QED
    BY <2>1, <2>2, InsideCounts DEF CInv, TypeOK
<1>5. ASSUME NEW t \in Slots, Lock(t) \/ Unlock(t)
      PROVE  CInv'
  <2>1. \E from, to \in Counted : Goes(t, from, to)
    BY <1>5 DEF Lock, Unlock, Counted
  <2>2. UNCHANGED <<role, garbled, msg, threads, father, stalled, arrivals, raced>>
    BY <1>5 DEF Lock, Unlock
  <2>3. \E k \in cookie(msg[t]) : queue' \in {Recorded(t, k), Released(t, k)}
    BY <1>5 DEF Lock, Unlock
  <2>4. pc[t] # "idle"
    BY <1>5 DEF Lock, Unlock, Goes
  <2>5. queue' \in [Key -> Ips \cup {None}]
    BY <2>3, <2>4, RecordedType DEF CInv
  <2> QED
    BY <2>1, <2>2, <2>5, InsideCounts
<1>6. ASSUME NEW t \in Slots, End(t)
      PROVE  CInv'
  <2>1. Running(pc') = Running(pc) \ {t} /\ t \in Running(pc)
    BY <1>6 DEF CInv, TypeOK, End, Returns, Goes, Running, Counted
  <2>2. Cardinality(Running(pc')) = Cardinality(Running(pc)) - 1
    BY <2>1, RunningFinite, FS_RemoveElement
  <2>3. Counting'
    BY <1>6, <2>2 DEF CInv, Counting, End, Left
  <2>4. threads' \in Nat
    BY <2>3, RunningFinite DEF Counting
  <2>5. TypeOK'
    BY <1>6, <2>4, PacketTypes DEF CInv, TypeOK, End, Returns, Goes
  <2>6. threads' < threads
    BY <1>6 DEF CInv, TypeOK, End, Left
  <2>7. \A u \in Slots : pc'[u] = "count" => pc[u] = "count"
    BY <1>6 DEF CInv, TypeOK, End, Returns, Goes
  <2>8. RoomLeft'
    BY <1>6, <2>4, <2>6, <2>7, DispatchAssumption DEF CInv, TypeOK, RoomLeft, End
  <2> QED
    BY <2>3, <2>5, <2>8 DEF CInv
<1>7. CASE FatherChanges \/ Stall \/ Resume
  BY <1>7, OutsideCounts DEF CInv, TypeOK, FatherChanges, Stall, Resume
<1>8. CASE UNCHANGED vars
  BY <1>8, OutsideCounts DEF CInv, TypeOK, vars
<1> QED
  BY <1>1, <1>2, <1>3, <1>4, <1>5, <1>6, <1>7, <1>8 DEF Next, Step

(* The dispatcher keeps its types; in particular the count of threads      *)
(* never wraps below zero.                                                 *)
THEOREM TypeCorrect == Spec => []TypeOK
<1>1. CInv => TypeOK
  BY DEF CInv
<1> QED
  BY <1>1, InitCounts, NextCounts, PTL DEF Spec

(* THREAD_START lets more than PACKLIM threads in only by its race, for    *)
(* any limit, and the count is that of the threads there are.              *)
THEOREM LimitIsKept == Spec => []LimitHolds
<1>1. CInv => LimitHolds
  BY DispatchAssumption DEF CInv, TypeOK, Counting, RoomLeft, LimitHolds, Running
<1> QED
  BY <1>1, InitCounts, NextCounts, PTL DEF Spec

-----------------------------------------------------------------------------
(* The queue, where cookies are read back as they were written.  A user    *)
(* never files an entry.                                                   *)
UserFilesNothing == role = "UDP_USER" => \A k \in Key : queue[k] = None

(* An entry belongs to a thread, ...                                       *)
EntriesOwned ==
    \A k \in Key : queue[k] # None =>
        /\ k = <<k[1], 0>>
        /\ \E t \in Slots : Handling(t) /\ msg[t].cookie = k[1] /\ msg[t].ip = queue[k]

(* ... and a thread whose cookie no other address uses has an entry.       *)
HandlersOwn ==
    \A t \in Slots : Handling(t) /\ Unshared(msg[t]) =>
        queue[<<msg[t].cookie, 0>>] = msg[t].ip

Alone ==
    \A t, u \in Slots :
        t # u /\ Handling(t) /\ Handling(u) /\ Unshared(msg[t]) =>
            ~(msg[u].cookie = msg[t].cookie /\ msg[u].ip = msg[t].ip)

QInv ==
    /\ UserFilesNothing
    /\ ~garbled => EntriesOwned
    /\ ~garbled /\ role = "UDP_NODE" => HandlersOwn /\ Alone

-----------------------------------------------------------------------------
LEMMA InitQueue == Init => QInv
<1> SUFFICES ASSUME Init PROVE QInv
  OBVIOUS
<1>1. \A k \in Key : queue[k] = None
  BY DEF Init
<1>2. \A t \in Slots : ~Handling(t)
  BY DEF Init, Handling
<1> QED
  BY <1>1, <1>2 DEF QInv, UserFilesNothing, EntriesOwned, HandlersOwn, Alone

(* Steps that change neither the queue nor who handles what.               *)
LEMMA SameHandlers ==
  ASSUME TypeOK, QInv, UNCHANGED <<role, garbled, queue>>,
         \A t \in Slots : Handling(t)' <=> Handling(t),
         \A t \in Slots : Handling(t) => msg'[t] = msg[t]
  PROVE  QInv'
<1>1. UserFilesNothing'
  BY DEF QInv, UserFilesNothing
<1>2. EntriesOwned => EntriesOwned'
  BY DEF EntriesOwned
<1>3. HandlersOwn => HandlersOwn'
  BY DEF HandlersOwn, Unshared
<1>4. Alone => Alone'
  BY DEF Alone, Unshared
<1> QED
  BY <1>1, <1>2, <1>3, <1>4 DEF QInv

LEMMA LockQueue ==
  ASSUME TypeOK, QInv, NEW t \in Slots, Lock(t)
  PROVE  QInv'
<1> DEFINE c == <<msg[t].cookie, 0>>
<1>1. msg[t] \in Packets /\ msg' = msg /\ pc[t] = "enter" /\ pc' = [pc EXCEPT ![t] = "handle"]
  BY DEF TypeOK, Lock, Goes
<1>2. \A u \in Slots : Handling(u)' <=> Handling(u) \/ u = t
  BY <1>1 DEF TypeOK, Handling
<1>3. ~Handling(t)
  BY <1>1 DEF Handling
<1>4. role = "UDP_NODE" /\ UNCHANGED <<role, garbled>>
  BY DEF Lock
<1>5. CASE garbled
  BY <1>4, <1>5 DEF QInv, UserFilesNothing
<1>6. CASE ~garbled
  <2>1. cookie(msg[t]) = {c} /\ c \in Key /\ msg[t].ip \in Ips /\ msg[t].ip # None
    BY <1>1, <1>6, CookieIsKey, PacketTypes DEF TypeOK
  <2>2. queue[c] # msg[t].ip /\ queue' = Recorded(t, c)
    BY <2>1 DEF Lock, Duplicate
  <2>3. \A k \in Key : k # c => queue'[k] = queue[k]
    BY <2>1, <2>2 DEF TypeOK, Recorded
  <2>4. queue'[c] = IF queue[c] = None THEN msg[t].ip ELSE queue[c]
    BY <2>1, <2>2 DEF TypeOK, Recorded
  <2>5. EntriesOwned /\ HandlersOwn /\ Alone
    BY <1>4, <1>6 DEF QInv
  <2>6. EntriesOwned'
    BY <1>1, <1>2, <2>3, <2>4, <2>5 DEF EntriesOwned
  <2>7. Unshared(msg[t]) => queue[c] = None
    <3>1. SUFFICES ASSUME Unshared(msg[t]), queue[c] # None PROVE FALSE
      OBVIOUS
    <3>2. PICK u \in Slots : Handling(u) /\ msg[u].cookie = msg[t].cookie /\ msg[u].ip = queue[c]
      BY <2>1, <2>5, <3>1 DEF EntriesOwned
    <3>3. msg[u] \in Packets
      BY <3>2 DEF TypeOK, Handling
    <3> QED
      BY <2>2, <3>1, <3>2, <3>3 DEF Unshared
  <2>8. HandlersOwn'
    <3>1. SUFFICES ASSUME NEW u \in Slots, Handling(u)', Unshared(msg[u])
                   PROVE  queue'[<<msg[u].cookie, 0>>] = msg[u].ip
      BY <1>1 DEF HandlersOwn, Unshared
    <3>2. CASE u = t
      BY <2>4, <2>7, <3>1, <3>2
    <3>3. CASE u # t
      <4>1. msg[u] \in Packets /\ <<msg[u].cookie, 0>> \in Key /\ msg[u].ip # None
        BY <1>2, <3>1, <3>3, PacketTypes DEF TypeOK, Handling, Key
      <4>2. queue[<<msg[u].cookie, 0>>] = msg[u].ip
        BY <1>2, <2>5, <3>1, <3>3 DEF HandlersOwn
      <4> QED
        BY <2>3, <2>4, <4>1, <4>2
    <3> QED
      BY <3>2, <3>3
  <2>9. Alone'
    <3>1. ASSUME NEW u \in Slots, u # t, Handling(u),
                 msg[u].cookie = msg[t].cookie, msg[u].ip = msg[t].ip,
                 Unshared(msg[t]) \/ Unshared(msg[u])
          PROVE  FALSE
      <4>1. Unshared(msg[t]) /\ Unshared(msg[u])
        BY <3>1 DEF Unshared
      <4> QED
        BY <2>2, <2>5, <3>1, <4>1 DEF HandlersOwn
    <3> QED
      BY <1>1, <1>2, <2>5, <3>1 DEF Alone, Unshared
  <2> QED
    BY <1>4, <2>6, <2>8, <2>9 DEF QInv, UserFilesNothing
<1> QED
  BY <1>5, <1>6

LEMMA UnlockQueue ==
  ASSUME TypeOK, QInv, NEW t \in Slots, Unlock(t)
  PROVE  QInv'
<1> DEFINE c == <<msg[t].cookie, 0>>
<1>1. msg[t] \in Packets /\ msg' = msg /\ pc[t] = "unlock" /\ pc' = [pc EXCEPT ![t] = "end"]
  BY DEF TypeOK, Unlock, Goes
<1>2. \A u \in Slots : Handling(u)' <=> Handling(u) /\ u # t
  BY <1>1 DEF TypeOK, Handling
<1>3. UNCHANGED <<role, garbled>>
  BY DEF Unlock
<1>4. PICK k \in cookie(msg[t]) : queue' = Released(t, k)
  BY DEF Unlock
<1>5. k \in Key /\ msg[t].ip # None /\ msg[t].ip \in Ips
  BY <1>1, <1>4, CookieIsKey, PacketTypes DEF TypeOK
<1>6. \A j \in Key : queue'[j] = IF j = k /\ queue[k] = msg[t].ip THEN None ELSE queue[j]
  BY <1>4, <1>5 DEF TypeOK, Released
<1>7. UserFilesNothing'
  BY <1>3, <1>6 DEF QInv, UserFilesNothing
<1>8. CASE garbled
  BY <1>3, <1>7, <1>8 DEF QInv
<1>9. CASE ~garbled
  <2>1. k = c
    BY <1>1, <1>4, <1>9, CookieIsKey DEF TypeOK
  <2>2. EntriesOwned
    BY <1>9 DEF QInv
  <2>3. EntriesOwned'
    <3>1. SUFFICES ASSUME NEW j \in Key, queue'[j] # None
                   PROVE  /\ j = <<j[1], 0>>
                          /\ \E u \in Slots : /\ Handling(u)' /\ msg[u].cookie = j[1]
                                             /\ msg[u].ip = queue'[j]
      BY <1>1 DEF EntriesOwned
    <3>2. queue'[j] = queue[j] /\ (j # k \/ queue[j] # msg[t].ip)
      BY <1>6, <3>1
    <3>3. PICK u \in Slots : Handling(u) /\ msg[u].cookie = j[1] /\ msg[u].ip = queue[j]
      BY <2>2, <3>1, <3>2 DEF EntriesOwned
    <3>4. j = <<j[1], 0>>
      BY <2>2, <3>1, <3>2 DEF EntriesOwned
    <3>5. u # t
      BY <2>1, <3>2, <3>3, <3>4
    <3> QED
      BY <1>2, <3>2, <3>3, <3>4, <3>5
  <2>4. ASSUME role = "UDP_NODE"
        PROVE  HandlersOwn' /\ Alone'
    <3>1. HandlersOwn /\ Alone
      BY <1>9, <2>4 DEF QInv
    <3>2. Alone'
      BY <1>1, <1>2, <3>1 DEF Alone, Unshared
    <3>3. SUFFICES ASSUME NEW u \in Slots, Handling(u), u # t, Unshared(msg[u])
                   PROVE  queue'[<<msg[u].cookie, 0>>] = msg[u].ip
      BY <1>1, <1>2, <3>2 DEF HandlersOwn, Unshared
    <3>4. msg[u] \in Packets /\ <<msg[u].cookie, 0>> \in Key
      BY <3>3, PacketTypes DEF TypeOK, Handling, Key
    <3>5. queue[<<msg[u].cookie, 0>>] = msg[u].ip
      BY <3>1, <3>3 DEF HandlersOwn
    <3>6. ~(msg[u].cookie = msg[t].cookie /\ msg[u].ip = msg[t].ip)
      BY <1>1, <3>1, <3>3 DEF Alone, Handling
    <3>7. <<msg[u].cookie, 0>> # k \/ queue[k] # msg[t].ip
      BY <2>1, <3>5, <3>6
    <3> QED
      BY <1>6, <3>4, <3>5, <3>7
  <2> QED
    BY <1>3, <1>7, <2>3, <2>4 DEF QInv
<1> QED
  BY <1>8, <1>9

LEMMA NextQueue == TypeOK /\ QInv /\ [Next]_vars => QInv'
<1> SUFFICES ASSUME TypeOK, QInv, [Next]_vars PROVE QInv'
  OBVIOUS
<1>1. ASSUME NEW t \in Slots, NEW p \in Packets, recv_thread(t, p)
      PROVE  QInv'
  BY <1>1, SameHandlers DEF recv_thread, Goes, Handling, TypeOK
<1>2. ASSUME NEW t \in Slots, Test(t) PROVE QInv'
  BY <1>2, SameHandlers DEF Test, Returns, Goes, Handling, TypeOK
<1>3. ASSUME NEW t \in Slots, Count(t) PROVE QInv'
  BY <1>3, SameHandlers DEF Count, Goes, Handling, TypeOK
<1>4. ASSUME NEW t \in Slots, Refuse(t) \/ Suppress(t) PROVE QInv'
  BY <1>4, SameHandlers DEF Refuse, Suppress, Goes, Handling, TypeOK
<1>5. ASSUME NEW t \in Slots, EnterUser(t) PROVE QInv'
  BY <1>5 DEF EnterUser, QInv, UserFilesNothing, EntriesOwned
<1>6. ASSUME NEW t \in Slots, Handle(t) PROVE QInv'
  <2>1. CASE role = "UDP_NODE"
    BY <1>6, <2>1, SameHandlers DEF Handle, AfterHandle, Goes, Handling, TypeOK
  <2>2. CASE role = "UDP_USER"
    BY <1>6, <2>2 DEF Handle, QInv, UserFilesNothing, EntriesOwned
  <2> QED
    BY <2>1, <2>2 DEF TypeOK
<1>7. ASSUME NEW t \in Slots, End(t) PROVE QInv'
  BY <1>7, SameHandlers DEF End, Returns, Goes, Handling, TypeOK
<1>8. CASE FatherChanges \/ Stall \/ Resume
  BY <1>8, SameHandlers DEF FatherChanges, Stall, Resume, Handling
<1>9. CASE UNCHANGED vars
  BY <1>9, SameHandlers DEF vars, Handling
<1> QED
  BY <1>1, <1>2, <1>3, <1>4, <1>5, <1>6, <1>7, <1>8, <1>9, LockQueue, UnlockQueue DEF Next, Step

(* For any number of threads and any datagrams, a node whose build reads   *)
(* cookies back never handles a datagram twice at once, unless two         *)
(* addresses use one cookie, ...                                           *)
THEOREM NeverTwiceAtOnce == Spec => []OneAtATime
<1>1. QInv => OneAtATime
  BY DEF QInv, Alone, OneAtATime
<1>2. CInv => TypeOK
  BY DEF CInv
<1> QED
  BY <1>1, <1>2, InitCounts, InitQueue, NextCounts, NextQueue, PTL DEF Spec

(* ... and never keeps an entry that nobody is going to remove, even then. *)
THEOREM QueueDoesNotLeak == Spec => []NoLockLeak
<1>1. QInv => NoLockLeak
  BY DEF QInv, EntriesOwned, NoLockLeak
<1>2. CInv => TypeOK
  BY DEF CInv
<1> QED
  BY <1>1, <1>2, InitCounts, InitQueue, NextCounts, NextQueue, PTL DEF Spec
=============================================================================
