------------------------------ MODULE Dispatch ------------------------------
(***************************************************************************)
(* How datagrams become handler threads.  recv_thread starts a thread per  *)
(* datagram (src/src/network.cpp); a thread is dropped when PACKLIM of     *)
(* them are counted (THREAD_START in src/include/spruce.hpp), and a node   *)
(* drops a datagram whose cookie and address another thread is handling    *)
(* (handler_queue in src/include/network.hpp), because requests are        *)
(* repeated until they are answered.  A user does not look.                *)
(*                                                                         *)
(* pack::cookie copies four bytes into an uninitialised size_t, so every   *)
(* call may return other upper bytes.  `garbled` tells whether it does in  *)
(* this build; the queue is then searched, filled and emptied under        *)
(* different keys.                                                         *)
(*                                                                         *)
(* What a handler does to the node is in the other modules.  Here it takes *)
(* one step, which waits while the check thread holds the mutex it needs:  *)
(* tunnels_handler::check connects, up to 15 s, under its mutex.           *)
(*                                                                         *)
(* Definitions ending in _Wrong are deliberate defects; each is put in the *)
(* place of the definition after it to see that a property notices.        *)
(***************************************************************************)
EXTENDS Naturals, FiniteSets

CONSTANTS
    Packets,        \* [cookie, ip, answer, slow]: the datagrams that may arrive
    None,           \* no packet, no address
    Slots,          \* threads that may be running together
    PACKLIM,        \* 200 in the code
    MaxArrivals     \* bound on datagrams

Cookies == {p.cookie : p \in Packets}
Ips == {p.ip : p \in Packets}

ASSUME DispatchAssumption ==
    /\ Packets \subseteq [cookie : Cookies, ip : Ips,
                          answer : BOOLEAN,    \* RES_FATHER
                          slow : BOOLEAN]      \* its handler takes the stalled mutex
    /\ None \notin Packets /\ None \notin Ips
    /\ IsFiniteSet(Slots)
    /\ PACKLIM \in Nat \ {0} /\ MaxArrivals \in Nat

VARIABLES
    role,       \* structs::role: what this process is
    garbled,    \* whether cookie() leaves garbage in the upper bytes
    pc,         \* what each thread does next
    msg,        \* the datagram it was started for
    threads,    \* structs::threads
    queue,      \* handler_queue::queue
    father,     \* structs::father.status
    stalled,    \* whether the check thread holds the mutex of the slow handlers
    arrivals,   \* datagrams so far
    raced       \* history: two threads passed the test of THREAD_START together

vars == <<role, garbled, pc, msg, threads, queue, father, stalled, arrivals, raced>>

(* What cookie() may return for a packet.                                  *)
Key == Cookies \X {0, 1}
cookie(p) == {p.cookie} \X (IF garbled THEN {0, 1} ELSE {0})

Counted == {"enter", "handle", "unlock", "end"}

TypeOK ==
    /\ role \in {"UDP_NODE", "UDP_USER"} /\ garbled \in BOOLEAN
    /\ pc \in [Slots -> {"idle", "test", "count"} \cup Counted]
    /\ msg \in [Slots -> Packets \cup {None}]
    /\ \A t \in Slots : msg[t] = None <=> pc[t] = "idle"
    /\ threads \in Nat
    /\ queue \in [Key -> Ips \cup {None}]
    /\ father \in BOOLEAN /\ stalled \in BOOLEAN
    /\ arrivals \in 0..MaxArrivals
    /\ raced \in BOOLEAN

Init ==
    /\ role \in {"UDP_NODE", "UDP_USER"}
    /\ garbled \in IF role = "UDP_NODE" THEN BOOLEAN ELSE {FALSE}
    /\ pc = [t \in Slots |-> "idle"]
    /\ msg = [t \in Slots |-> None]
    /\ threads = 0
    /\ queue = [k \in Key |-> None]
    /\ father = TRUE /\ stalled = FALSE
    /\ arrivals = 0 /\ raced = FALSE

Goes(t, from, to) == pc[t] = from /\ pc' = [pc EXCEPT ![t] = to]

(* The thread returns.                                                     *)
Returns(t, from) ==
    /\ Goes(t, from, "idle")
    /\ msg' = [msg EXCEPT ![t] = None]

(* recv_thread: a new thread for every correct datagram.                   *)
recv_thread(t, p) ==
    /\ Goes(t, "idle", "test")
    /\ arrivals < MaxArrivals /\ arrivals' = arrivals + 1
    /\ msg' = [msg EXCEPT ![t] = p]
    /\ UNCHANGED <<role, garbled, threads, queue, father, stalled, raced>>

(* THREAD_START: the test ...                                              *)
Full_Wrong == threads > PACKLIM
Full == threads >= PACKLIM

Test_Wrong(t) ==
    /\ IF Full THEN Returns(t, "test") /\ raced' = raced /\ threads' = threads - 1
       ELSE /\ Goes(t, "test", "count") /\ UNCHANGED <<msg, threads>>
            /\ raced' = (raced \/ \E u \in Slots : pc[u] = "count")
    /\ UNCHANGED <<role, garbled, queue, father, stalled, arrivals>>
Test(t) ==
    /\ IF Full THEN Returns(t, "test") /\ raced' = raced
       ELSE /\ Goes(t, "test", "count") /\ msg' = msg
            /\ raced' = (raced \/ \E u \in Slots : pc[u] = "count")
    /\ UNCHANGED <<role, garbled, threads, queue, father, stalled, arrivals>>

(* ... and the increment.                                                  *)
Count(t) ==
    /\ Goes(t, "count", "enter")
    /\ threads' = threads + 1
    /\ UNCHANGED <<role, garbled, msg, queue, father, stalled, arrivals, raced>>

(* handler::node without a father answers DOS and takes no lock.           *)
Refuses(t) == ~father /\ ~msg[t].answer

Refuse(t) ==
    /\ role = "UDP_NODE" /\ Goes(t, "enter", "end")
    /\ Refuses(t)
    /\ UNCHANGED <<role, garbled, msg, threads, queue, father, stalled, arrivals, raced>>

(* handler_queue::lock: a copy of what is being handled is dropped.  The   *)
(* insertion does not replace the entry of another address.                *)
Duplicate(t, k) == queue[k] = msg[t].ip

Recorded_Wrong(t, k) ==
    IF \A j \in Key : queue[j] = None THEN [queue EXCEPT ![k] = msg[t].ip] ELSE queue
Recorded(t, k) == IF queue[k] = None THEN [queue EXCEPT ![k] = msg[t].ip] ELSE queue

Suppress(t) ==
    /\ role = "UDP_NODE" /\ Goes(t, "enter", "end")
    /\ ~Refuses(t)
    /\ \E k \in cookie(msg[t]) : Duplicate(t, k)
    /\ UNCHANGED <<role, garbled, msg, threads, queue, father, stalled, arrivals, raced>>

Lock(t) ==
    /\ role = "UDP_NODE" /\ Goes(t, "enter", "handle")
    /\ ~Refuses(t)
    /\ \E k \in cookie(msg[t]) : ~Duplicate(t, k)
    /\ \E k \in cookie(msg[t]) : queue' = Recorded(t, k)
    /\ UNCHANGED <<role, garbled, msg, threads, father, stalled, arrivals, raced>>

(* handler::user has no queue.                                             *)
EnterUser(t) ==
    /\ role = "UDP_USER"
    /\ Goes(t, "enter", "handle")
    /\ UNCHANGED <<role, garbled, msg, threads, queue, father, stalled, arrivals, raced>>

AfterHandle_Wrong == IF role = "UDP_NODE" /\ father THEN "unlock" ELSE "end"
AfterHandle == IF role = "UDP_NODE" THEN "unlock" ELSE "end"

Handle(t) ==
    /\ Goes(t, "handle", AfterHandle)
    /\ stalled => ~msg[t].slow
    /\ UNCHANGED <<role, garbled, msg, threads, queue, father, stalled, arrivals, raced>>

(* handler_queue::unlock.                                                  *)
Released(t, k) == IF queue[k] = msg[t].ip THEN [queue EXCEPT ![k] = None] ELSE queue

Unlock(t) ==
    /\ Goes(t, "unlock", "end")
    /\ \E k \in cookie(msg[t]) : queue' = Released(t, k)
    /\ UNCHANGED <<role, garbled, msg, threads, father, stalled, arrivals, raced>>

(* THREAD_END                                                              *)
Left_Wrong(t) == IF \E k \in cookie(msg[t]) : Duplicate(t, k) THEN threads ELSE threads - 1
Left(t) == threads - 1

End(t) ==
    /\ Returns(t, "end")
    /\ threads' = Left(t)
    /\ UNCHANGED <<role, garbled, queue, father, stalled, arrivals, raced>>

(* The father is lost or adopted; the check thread enters and leaves a     *)
(* slow section.                                                           *)
FatherChanges ==
    /\ role = "UDP_NODE"    \* a user's father makes no difference here
    /\ father' = ~father
    /\ UNCHANGED <<role, garbled, pc, msg, threads, queue, stalled, arrivals, raced>>

Stall ==
    /\ ~stalled /\ stalled' = TRUE
    /\ UNCHANGED <<role, garbled, pc, msg, threads, queue, father, arrivals, raced>>

Resume ==
    /\ stalled /\ stalled' = FALSE
    /\ UNCHANGED <<role, garbled, pc, msg, threads, queue, father, arrivals, raced>>

Step(t) ==
    \/ Test(t) \/ Count(t) \/ Refuse(t) \/ Suppress(t) \/ Lock(t) \/ EnterUser(t)
    \/ Handle(t) \/ Unlock(t) \/ End(t)

Next ==
    \/ \E t \in Slots : Step(t) \/ \E p \in Packets : recv_thread(t, p)
    \/ FatherChanges \/ Stall \/ Resume

Spec == Init /\ [][Next]_vars

(* Threads run, and the mutex is free again and again for whoever waits    *)
(* for it: no more is known of a mutex than that a thread that keeps       *)
(* trying gets it.                                                         *)
FairSpec == Spec /\ \A t \in Slots : SF_vars(Step(t)) /\ WF_vars(Resume)

-----------------------------------------------------------------------------
(* Properties                                                              *)

Handling(t) == pc[t] \in {"handle", "unlock"}

(* Only this address uses the cookie of p.                                 *)
Unshared(p) == \A q \in Packets : q.cookie = p.cookie => q.ip = p.ip

(* A node never handles two copies of a datagram at the same time, if      *)
(* cookies are read back as they were written and no other address happens *)
(* to use the same four bytes.                                             *)
OneAtATime ==
    role = "UDP_NODE" /\ ~garbled =>
        \A t, u \in Slots :
            t # u /\ Handling(t) /\ Handling(u) /\ Unshared(msg[t]) =>
                ~(msg[u].cookie = msg[t].cookie /\ msg[u].ip = msg[t].ip)

(* Nothing is suppressed for ever: every entry of the queue belongs to a   *)
(* thread that is handling that cookie from that address, even when        *)
(* addresses share a cookie and one of them was let through unrecorded.    *)
NoLockLeak ==
    ~garbled =>
        \A k \in Key : queue[k] # None =>
            \E t \in Slots : Handling(t) /\ msg[t].cookie = k[1] /\ msg[t].ip = queue[k]

(* More threads than PACKLIM are counted only if two of them passed the    *)
(* test of THREAD_START before either was counted, and the count is that   *)
(* of the threads there are.                                               *)
LimitHolds ==
    /\ threads = Cardinality({t \in Slots : pc[t] \in Counted})
    /\ threads > PACKLIM => raced

(* However many datagrams were dropped, refused, suppressed or had to wait *)
(* for the check thread, the count returns to zero when no more arrive: a  *)
(* count that stayed up would make the peer deaf.                          *)
CountDrains == <>[](threads = 0)
=============================================================================
