------------------------------- MODULE Tasks -------------------------------
(***************************************************************************)
(* The outgoing queue of a peer (tasks_handler) and the thread that drains *)
(* it (udp_network::send_thread).                                          *)
(*                                                                         *)
(* Handler threads and the storage-check thread append tasks; an answer    *)
(* removes the request with its cookie; the send thread repeatedly selects *)
(* a task and transmits it.  A request (odd type) stays queued and is      *)
(* selected up to ATTEMPTS times; a response (even type) leaves the queue  *)
(* when it is selected; a ping answer overtakes everything.                *)
(*                                                                         *)
(* Time stamps are only ever compared with each other and with "600        *)
(* seconds ago", so the model keeps their order: `older` holds the pairs   *)
(* of tasks of which the first bears the earlier stamp, and `aged` the     *)
(* tasks whose stamp is more than 600 seconds old.                         *)
(***************************************************************************)
EXTENDS Integers, Sequences, FiniteSets, SequencesExt

CONSTANTS
    Ids,        \* identities of the tasks that can be alive at one time
    Cookies,    \* low four bytes of a cookie
    Handlers,   \* other threads that may be inside tasks_handler::add
    Sender,     \* send_thread, which adds REQ_ROLE itself
    ATTEMPTS    \* selections of a request before it is given up (3)

ASSUME TasksAssumption ==
    /\ ATTEMPTS \in Nat \ {0}
    /\ Sender \notin Handlers
    /\ "none" \notin Ids

Writers == Handlers \cup {Sender}

VARIABLES
    tasks,      \* structs::tasks: the vector, as a sequence of identities
    info,       \* what each identity stands for: type, cookie, attempts
    older,      \* <<a, b>>: udp_task.time of a is before that of b
    aged,       \* the tasks past the purge age
    adding,     \* the task a writer has stamped and not yet pushed
    loop,       \* where send_thread is in its loop
    hand,       \* its local copy of a task, selected and not yet sent
    crashed,    \* the process died in tasks_handler::check
    sends       \* history: datagrams sent for each identity

vars == <<tasks, info, older, aged, adding, loop, hand, crashed, sends>>

None == "none"

(* udp_type, as far as the queue tells types apart: a ping answer          *)
(* (NODE_RES_PING), another response, REQ_ROLE, another request.           *)
Types == {"PONG", "RES", "ROLE", "REQ"}
IsResponse(type) == type \in {"PONG", "RES"}

Queued == Range(tasks)
Stamped == Queued \cup (Range(adding) \ {None})
Older(a, b) == <<a, b>> \in older

(* Not given up: `attempts < 3` in exists, first and check.                *)
Live_Wrong(id) == info[id].attempts <= ATTEMPTS
Live(id) == info[id].attempts < ATTEMPTS

(* The condition of the purge, tasks.cpp:156-157.                          *)
Purgeable_Wrong(id) == id \in aged
Purgeable(id) == ~Live(id) /\ id \in aged

(* The stamps are in a linear order; what is aged is older than the rest.  *)
Ordered ==
    /\ older \subseteq Stamped \X Stamped
    /\ \A a, b \in Stamped : a # b <=> (Older(a, b) \/ Older(b, a))
    /\ \A a, b \in Stamped : ~(Older(a, b) /\ Older(b, a))
    /\ \A a, b, c \in Stamped : Older(a, b) /\ Older(b, c) => Older(a, c)
    /\ aged \subseteq Stamped
    /\ \A a \in Stamped, b \in aged : Older(a, b) => a \in aged

TypeOK ==
    /\ tasks \in Seq(Ids) /\ IsInjective(tasks)
    /\ info \in [Ids -> [type : Types, cookie : Cookies, attempts : 0..ATTEMPTS]]
    /\ Ordered
    /\ adding \in [Writers -> Ids \cup {None}]
    /\ loop \in {"role", "first", "send"}
    /\ hand \in Ids \cup {None} /\ (loop = "send" <=> hand # None)
    /\ crashed \in BOOLEAN
    /\ sends \in [Ids -> Nat]

Init ==
    /\ tasks = <<>> /\ older = {} /\ aged = {}
    /\ info \in [Ids -> {[type |-> "REQ", cookie |-> c, attempts |-> 0] : c \in Cookies}]
    /\ adding = [w \in Writers |-> None]
    /\ loop = "role" /\ hand = None /\ crashed = FALSE
    /\ sends = [id \in Ids |-> 0]

-----------------------------------------------------------------------------
(* Definitions ending in _Wrong are deliberate defects; each is put in the *)
(* place of the definition after it to see that a property notices.        *)

(* The stamp is a field of udp_task: an erased task takes it along.        *)
Forget(gone) ==
    /\ older' = {p \in older : p[1] \notin gone /\ p[2] \notin gone}
    /\ aged' = aged \ gone

(* tasks_handler::exists: a task of this type that is not given up.        *)
exists_Wrong(type) == \E id \in Queued : info[id].type = type /\ info[id].attempts = 0
exists(type) == \E id \in Queued : info[id].type = type /\ Live(id)

(* tasks_handler::add up to the mutex: the time stamp is taken before the  *)
(* lock.  REQ_ROLE is added by send_thread alone, once per turn of its     *)
(* loop, and only when exists(REQ_ROLE) is false (network.cpp:91).         *)
Stamp(w, id, type, c) ==
    /\ adding[w] = None
    /\ id \notin Stamped \cup {hand}
    /\ w = Sender => type = "ROLE" /\ ~exists("ROLE") /\ loop = "role"
    /\ w # Sender => type # "ROLE"
    /\ info' = [info EXCEPT ![id] = [type |-> type, cookie |-> c, attempts |-> 0]]
    /\ older' = older \cup (Stamped \X {id})
    /\ adding' = [adding EXCEPT ![w] = id]
    /\ sends' = [sends EXCEPT ![id] = 0]
    /\ UNCHANGED <<tasks, aged, loop, hand, crashed>>

(* ... and the push_back under the mutex.                                  *)
Push(w) ==
    /\ adding[w] # None
    /\ tasks' = Append(tasks, adding[w])
    /\ adding' = [adding EXCEPT ![w] = None]
    /\ loop' = IF w = Sender THEN "first" ELSE loop
    /\ UNCHANGED <<info, older, aged, hand, crashed, sends>>

(* The turn of the loop in which send_thread does not ask for a role: it   *)
(* has one, has no father to ask, or is asking already.                    *)
no_role_request ==
    /\ loop = "role" /\ adding[Sender] = None
    /\ loop' = "first"
    /\ UNCHANGED <<tasks, info, older, aged, adding, hand, crashed, sends>>

(* tasks_handler::rm_cookie.  Both cookies compared are eight-byte         *)
(* variables of which only four bytes were written (pack.cpp:87-90, 128):  *)
(* any task with these four bytes may be the first that compares equal.    *)
(* That none does is a step that changes nothing.                          *)
rm_cookie(c) ==
    \E i \in {j \in DOMAIN tasks : info[tasks[j]].cookie = c} :
        /\ tasks' = RemoveAt(tasks, i)
        /\ Forget({tasks[i]})
        /\ UNCHANGED <<info, adding, loop, hand, crashed, sends>>

-----------------------------------------------------------------------------
(* The scan of tasks_handler::first: the loop goes through the vector and  *)
(* keeps an index (`id` in the code; here 0 while nothing is selected, when*)
(* `one` is a copy of the head).  Given-up tasks and tasks younger than    *)
(* `one` are skipped; a ping answer is taken at once and ends the loop.    *)
Pong(i) == info[tasks[i]].type = "PONG" /\ Live(tasks[i])
Pongs == {i \in DOMAIN tasks : Pong(i)}

One(k) == tasks[IF k = 0 THEN 1 ELSE k]
Over(k) == k # 0 /\ Pong(k)
Takes_Wrong(k, i) == Pong(i) \/ (Live(tasks[i]) /\ ~Older(tasks[i], One(k)))
Takes(k, i) == Pong(i) \/ (Live(tasks[i]) /\ ~Older(One(k), tasks[i]))

Scan ==
    LET kept[i \in 0..Len(tasks)] ==
            IF i = 0 THEN 0
            ELSE IF ~Over(kept[i - 1]) /\ Takes(kept[i - 1], i) THEN i ELSE kept[i - 1]
    IN  kept[Len(tasks)]

(* What first() returns, and the task whose time and attempts its end      *)
(* updates: index 0, the head, when nothing was selected.                  *)
Selected == IF Scan = 0 THEN None ELSE tasks[Scan]
Touched == IF Scan = 0 THEN 1 ELSE Scan

(* tasks[id].time = now.                                                   *)
Restamp_Wrong(id) ==
    IF Selected = None THEN UNCHANGED <<older, aged>>
    ELSE /\ older' = {p \in older : id \notin {p[1], p[2]}} \cup ((Stamped \ {id}) \X {id})
         /\ aged' = aged \ {id}
Restamp(id) ==
    /\ older' = {p \in older : p[1] # id /\ p[2] # id} \cup ((Stamped \ {id}) \X {id})
    /\ aged' = aged \ {id}

(* tasks_handler::first, called by send_thread: the attempt is counted     *)
(* (and kept at ATTEMPTS once there), and a response leaves the queue as   *)
(* it is selected.  On an empty queue nothing happens.                     *)
first ==
    /\ loop = "first" /\ tasks # <<>>
    /\ info' = [info EXCEPT ![tasks[Touched]].attempts = IF @ < ATTEMPTS THEN @ + 1 ELSE @]
    /\ IF IsResponse(info[tasks[Touched]].type)
       THEN tasks' = RemoveAt(tasks, Touched) /\ Forget({tasks[Touched]})
       ELSE tasks' = tasks /\ Restamp(tasks[Touched])
    /\ hand' = Selected
    /\ loop' = IF Selected = None THEN "role" ELSE "send"
    /\ UNCHANGED <<adding, crashed, sends>>

first_empty ==
    /\ loop = "first" /\ tasks = <<>>
    /\ loop' = "role"
    /\ UNCHANGED <<tasks, info, older, aged, adding, hand, crashed, sends>>

(* udp_network::send_package: the copy goes out even if the task has been  *)
(* removed from the queue in the meantime.                                 *)
send_package ==
    /\ loop = "send"
    /\ sends' = [sends EXCEPT ![hand] = @ + 1]
    /\ hand' = None /\ loop' = "role"
    /\ UNCHANGED <<tasks, info, older, aged, adding, crashed>>

send_thread == no_role_request \/ first \/ first_empty \/ send_package

-----------------------------------------------------------------------------
(* The loop of tasks_handler::check.  It runs to the size the vector had   *)
(* before the first erase, over memory in which an erase moves the tail    *)
(* down and leaves the last slot as it was, so the last index can be read  *)
(* and erased again when it lies past the end (`past`).                    *)
PurgeRound_Wrong(s, i) ==
    IF ~Purgeable(s.mem[i]) THEN s
    ELSE [s EXCEPT !.mem = [j \in 1..Len(tasks) |-> s.mem[IF i <= j /\ j < s.len THEN j + 1 ELSE j]]]
PurgeRound(s, i) ==
    IF ~Purgeable(s.mem[i]) THEN s
    ELSE [mem  |-> [j \in 1..Len(tasks) |-> IF i <= j /\ j < s.len THEN s.mem[j + 1] ELSE s.mem[j]],
          len  |-> s.len - 1,
          past |-> s.past \/ i > s.len]

PurgeLoop ==
    LET after[i \in 0..Len(tasks)] ==
            IF i = 0 THEN [mem |-> tasks, len |-> Len(tasks), past |-> FALSE]
            ELSE PurgeRound(after[i - 1], i)
    IN  after[Len(tasks)]

(* tasks_handler::check.  Erasing past the end is undefined: the process   *)
(* dies (the move has a negative length), or the vector just gets shorter. *)
check ==
    /\ tasks # <<>>
    /\ \/ /\ tasks' = SubSeq(PurgeLoop.mem, 1, PurgeLoop.len)
          /\ Forget(Queued \ Range(tasks'))
          /\ crashed' = FALSE
       \/ /\ PurgeLoop.past
          /\ crashed' = TRUE
          /\ UNCHANGED <<tasks, older, aged>>
    /\ UNCHANGED <<info, adding, loop, hand, sends>>

(* 600 seconds have passed since the next oldest stamp.                    *)
Elapse ==
    /\ \E id \in Stamped \ aged :
          /\ \A o \in Stamped \ aged : ~Older(o, id)
          /\ aged' = aged \cup {id}
    /\ UNCHANGED <<tasks, info, older, adding, loop, hand, crashed, sends>>

Next ==
    /\ ~crashed
    /\ \/ \E w \in Writers, id \in Ids, type \in Types, c \in Cookies : Stamp(w, id, type, c)
       \/ \E w \in Writers : Push(w)
       \/ \E c \in Cookies : rm_cookie(c)
       \/ send_thread
       \/ check
       \/ Elapse

Spec == Init /\ [][Next]_vars

(* The send loop never blocks, and a thread inside add reaches its push.   *)
FairSpec ==
    /\ Spec
    /\ WF_vars(~crashed /\ send_thread)
    /\ \A w \in Writers : WF_vars(~crashed /\ Push(w))

-----------------------------------------------------------------------------
(* Properties                                                              *)

(* A request goes out at most ATTEMPTS times and a response at most once,  *)
(* although tasks keep being selected, re-stamped and purged, and the copy *)
(* being sent outlives its removal from the queue.                         *)
SendBudget ==
    \A id \in Ids : sends[id] <= IF IsResponse(info[id].type) THEN 1 ELSE ATTEMPTS

(* The scan, which starts from the head's stamp and skips given-up tasks,  *)
(* never lets a request or response overtake an older live one, and never  *)
(* passes over a ping answer: what first() must select is defined here     *)
(* without its scan.                                                       *)
OldestFirst ==
    [][\A id \in Queued :
          (loop = "first" /\ hand' = id /\ info[id].type # "PONG") =>
              \A o \in Queued : Live(o) => info[o].type # "PONG" /\ ~Older(o, id)]_vars

(* At most one REQ_ROLE is being retried at any time: exists() and add()   *)
(* are not atomic, but one thread calls both.                              *)
SingleRoleRequest ==
    Cardinality({id \in Stamped : info[id].type = "ROLE" /\ Live(id)}) <= 1

(* The purge loop erases while it iterates to a stale size.  Unless the    *)
(* last task of the vector is due together with another one (the slot it   *)
(* was in is then read again), the process survives, only due tasks go,    *)
(* and one that stays was skipped: the task before it was due as well.     *)
Due == {id \in Queued : ~Live(id) /\ id \in aged}

PurgeExact ==
    [][(check /\ (tasks[Len(tasks)] \in Due => Due = {tasks[Len(tasks)]})) =>
          /\ ~crashed'
          /\ Queued \ Due \subseteq Range(tasks') /\ Range(tasks') \subseteq Queued
          /\ \A i \in DOMAIN tasks :
                 tasks[i] \in Due \cap Range(tasks') => i > 1 /\ tasks[i - 1] \in Due]_vars

(* Once ping answers stop claiming every turn, every queued request gets   *)
(* all its attempts or is acknowledged: a given-up task at the head of the *)
(* vector, older than all others, cannot block them, because failing to    *)
(* select anything re-stamps it.                                           *)
EveryTaskServed ==
    (<>[](Pongs = {})) =>
        \A id \in Ids : (id \in Queued /\ Live(id)) ~> (id \notin Queued \/ ~Live(id) \/ crashed)
=============================================================================
