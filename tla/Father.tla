------------------------------- MODULE Father -------------------------------
(***************************************************************************)
(* How one peer finds, keeps and loses its father (its parent in the       *)
(* overlay), with every thread that takes part:                            *)
(*                                                                         *)
(*   - handler threads, one per packet, in father_router::response;        *)
(*   - send_thread, which declares a silent father lost (no_father);       *)
(*   - the storage-check thread in father_handler::check, which asks the   *)
(*     nearest known node for candidates and drops a father that is no     *)
(*     longer the nearest.                                                 *)
(*                                                                         *)
(* Each action is what a thread does between two points where another      *)
(* thread can intervene.  Clocks are kept as which of the thresholds of    *)
(* the code have been passed: `silent` for the 15 s of send_thread,        *)
(* `waited` for the 3 s and 200 s of father_handler::check.                *)
(*                                                                         *)
(* Definitions ending in _Wrong are deliberate defects; each is put in the *)
(* place of the definition after it to see that a property notices.        *)
(***************************************************************************)
EXTENDS HashSpace, FiniteSets

CONSTANTS
    me,         \* structs::keys.pub
    Others,     \* keys of the other peers
    NoHash,     \* no key at all
    Handlers,   \* handler threads
    NODE_LIMIT  \* entries structs::nodes may have (100)

ASSUME FatherAssumption ==
    /\ me \in Hash
    /\ Others \subseteq Hash \ {me}
    /\ NoHash \notin Hash
    /\ NODE_LIMIT \in Nat \ {0}

CONFIRM == 3        \* router/father.cpp:80

VARIABLES
    nodes,      \* structs::nodes, as a set of keys
    father,     \* structs::father: status and info.hash
    silent,     \* more than 15 s since father.info.ping
    waited,     \* how long since father_handler::ping
    asking,     \* the node with a REQ_FATHER that tasks.exists sees
    asked,      \* nodes a REQ_FATHER was transmitted to
    dad,        \* father_router::dad: the candidate
    attempts,   \* father_router::attempts, kept at CONFIRM once there
    handler,    \* handler threads: position, sender, nearest node
    sender,     \* position of send_thread
    checker,    \* position of the storage-check thread
    chosen,     \* its local `node`, first as nearest() starts it
    alive,      \* FALSE after exit(1)
    streak      \* history: last sender of RES_FATHER and its answers in a row

vars == <<nodes, father, silent, waited, asking, asked, dad, attempts,
          handler, sender, checker, chosen, alive, streak>>

Peer == Others \cup {me}
MaybePeer == Others \cup {NoHash}
Handler == [at : {"idle", "start", "head", "known", "decide", "list"},
            from : MaybePeer, near : MaybePeer]
At(p, h, n) == [at |-> p, from |-> h, near |-> n]

TypeOK ==
    /\ nodes \subseteq Others
    /\ father \in [status : BOOLEAN, hash : MaybePeer]
    /\ father.status => father.hash # NoHash
    /\ silent \in BOOLEAN
    /\ waited \in {"0s", "3s", "200s"}
    /\ asking \in MaybePeer /\ asked \subseteq Others
    /\ dad \in [status : BOOLEAN, hash : MaybePeer]
    /\ attempts \in 0..CONFIRM
    /\ handler \in [Handlers -> Handler]
    /\ sender \in {"loop", "late", "lost", "forgot"}
    /\ checker \in {"loop", "due", "head", "chosen", "forgot"}
    /\ chosen \in MaybePeer
    /\ alive \in BOOLEAN
    /\ streak \in [from : MaybePeer, len : 0..CONFIRM + 1]

Init ==
    /\ nodes \in (SUBSET Others) \ {{}}
    /\ father = [status |-> FALSE, hash |-> NoHash]
    /\ silent = TRUE /\ waited = "200s"
    /\ asking = NoHash /\ asked = {}
    /\ dad = [status |-> FALSE, hash |-> NoHash] /\ attempts = 0
    /\ handler = [t \in Handlers |-> At("idle", NoHash, NoHash)]
    /\ sender = "loop" /\ checker = "loop" /\ chosen = NoHash
    /\ alive = TRUE
    /\ streak = [from |-> NoHash, len |-> 0]

-----------------------------------------------------------------------------
(* nodes_handler::add: what structs::nodes can be afterwards.  A full list *)
(* loses its first entry, which has the smallest byte_sum.                 *)
LowestSum(S) == {h \in S : \A g \in S : byte_sum(h) <= byte_sum(g)}
NodesAdd_Wrong(S, h) == IF h \in S THEN {S} ELSE {S \cup {h}}
NodesAdd(S, h) ==
    IF h = me \/ h \in S THEN {S}
    ELSE IF Cardinality(S) >= NODE_LIMIT THEN {(S \ {g}) \cup {h} : g \in LowestSum(S)}
    ELSE {S \cup {h}}

(* nodes_handler::nearest begins with a read of structs::nodes[0] outside  *)
(* the mutex.  When the list is empty the slot keeps an erased entry.      *)
Heads == IF nodes = {} THEN Others ELSE LowestSum(nodes)

(* father_handler::mute is free: only father_handler::check holds it over  *)
(* a point where another thread can intervene.                             *)
father_mute_free_Wrong == TRUE
father_mute_free == checker # "forgot"

(* father_handler::set.                                                    *)
set(h) ==
    IF h = me \/ (father.status /\ cmp(me, h, father.hash) # 1)
    THEN UNCHANGED <<father, silent>>
    ELSE father' = [status |-> TRUE, hash |-> h] /\ silent' = FALSE

-----------------------------------------------------------------------------
(* Handler threads: father_router::response                                *)

(* recv_thread starts a handler for a RES_FATHER of a node that was asked. *)
(* A request is sent up to three times and answered twice each time, so    *)
(* answers repeat.                                                         *)
Receive(t, h) ==
    /\ handler[t].at = "idle"
    /\ h \in asked
    /\ handler' = [handler EXCEPT ![t] = At("start", h, NoHash)]
    /\ UNCHANGED <<nodes, father, silent, waited, asking, asked, dad, attempts,
                   sender, checker, chosen, alive, streak>>

(* node = storage::nodes.nearest(keys.pub): the head is read ...           *)
ResponseHead(t) ==
    /\ handler[t].at = "start"
    /\ \E n \in Heads : handler' = [handler EXCEPT ![t] = At("head", handler[t].from, n)]
    /\ UNCHANGED <<nodes, father, silent, waited, asking, asked, dad, attempts,
                   sender, checker, chosen, alive, streak>>

(* ... and the list is scanned under the mutex; the process ends when it   *)
(* is empty by then.  Then rm_cookie: whether it removes the outstanding   *)
(* request depends on which request is answered (and on two uninitialised  *)
(* cookies).                                                               *)
ResponseNearest(t) ==
    /\ handler[t].at = "head" /\ nodes # {}
    /\ \E n \in NearestFrom(me, handler[t].near, nodes) :
          handler' = [handler EXCEPT ![t] = At("known", handler[t].from, n)]
    /\ asking' \in {asking, IF handler[t].from = asking THEN NoHash ELSE asking}
    /\ UNCHANGED <<nodes, father, silent, waited, asked, dad, attempts,
                   sender, checker, chosen, alive, streak>>

(* storage::nodes.add(msg.hash(), ipp.ip).                                 *)
ResponseAddSender(t) ==
    /\ handler[t].at = "known"
    /\ nodes' \in NodesAdd(nodes, handler[t].from)
    /\ handler' = [handler EXCEPT ![t] = At("decide", handler[t].from, handler[t].near)]
    /\ UNCHANGED <<father, silent, waited, asking, asked, dad, attempts,
                   sender, checker, chosen, alive, streak>>

(* The section under father_router::mute.  A candidate is confirmed by     *)
(* answers of its own only, and adopted if this answer found it nearest.   *)
Confirmed_Wrong(h) == IF attempts < CONFIRM THEN attempts + 1 ELSE CONFIRM
Confirmed(h) ==
    IF dad.status /\ dad.hash = h
    THEN IF attempts < CONFIRM THEN attempts + 1 ELSE CONFIRM
    ELSE 0

ResponseDecide(t) ==
    LET h == handler[t].from
        adopt == Confirmed(h) >= CONFIRM /\ handler[t].near = h
    IN  /\ handler[t].at = "decide"
        /\ IF adopt
           THEN father_mute_free /\ set(h)
           ELSE UNCHANGED <<father, silent>>
        /\ dad' = [status |-> ~adopt, hash |-> h]
        /\ attempts' = IF adopt THEN 0 ELSE Confirmed(h)
        /\ streak' = [from |-> h,
                      len |-> IF streak.from # h THEN 1
                              ELSE IF streak.len <= CONFIRM THEN streak.len + 1 ELSE streak.len]
        /\ handler' = [handler EXCEPT ![t] = At("list", NoHash, NoHash)]
        /\ UNCHANGED <<nodes, waited, asking, asked, sender, checker, chosen, alive>>

(* The loop over res.list(): the answering node's clients that are nodes,  *)
(* possibly this peer itself, and its father, or nothing.  One key stands  *)
(* for the list, NodeSpeaks adds the others.                               *)
ResponseAddList(t) ==
    /\ handler[t].at = "list"
    /\ nodes' \in {nodes} \cup UNION {NodesAdd(nodes, h) : h \in Peer}
    /\ handler' = [handler EXCEPT ![t] = At("idle", NoHash, NoHash)]
    /\ UNCHANGED <<father, silent, waited, asking, asked, dad, attempts,
                   sender, checker, chosen, alive, streak>>

-----------------------------------------------------------------------------
(* Other packets: from_father refreshes father.info.ping when the sender   *)
(* is the father, and clients_handler::reg adds a node that speaks.        *)
FatherSpeaks ==
    /\ father.status
    /\ silent' = FALSE
    /\ UNCHANGED <<nodes, father, waited, asking, asked, dad, attempts,
                   handler, sender, checker, chosen, alive, streak>>

NodeSpeaks(h) ==
    /\ nodes' \in NodesAdd(nodes, h)
    /\ UNCHANGED <<father, silent, waited, asking, asked, dad, attempts,
                   handler, sender, checker, chosen, alive, streak>>

-----------------------------------------------------------------------------
(* send_thread                                                             *)

(* The test at the top of the loop, made without a lock: first how long    *)
(* the father has been silent, ...                                         *)
Late_Wrong == TRUE
Late == silent

SendLate ==
    /\ sender = "loop" /\ Late
    /\ sender' = "late"
    /\ UNCHANGED <<nodes, father, silent, waited, asking, asked, dad, attempts,
                   handler, checker, chosen, alive, streak>>

(* ... then whether there is one.                                          *)
SendLost ==
    /\ sender = "late"
    /\ sender' = IF father.status THEN "lost" ELSE "loop"
    /\ UNCHANGED <<nodes, father, silent, waited, asking, asked, dad, attempts,
                   handler, checker, chosen, alive, streak>>

(* no_father under father_handler::mute: forgets whoever is the father by  *)
(* now.                                                                    *)
SendForget ==
    /\ sender = "lost" /\ father_mute_free
    /\ nodes' = nodes \ {father.hash}
    /\ sender' = "forgot"
    /\ UNCHANGED <<father, silent, waited, asking, asked, dad, attempts,
                   handler, checker, chosen, alive, streak>>

(* ... and its assignment to father.status after the unlock.               *)
SendDrop ==
    /\ sender = "forgot"
    /\ father' = [father EXCEPT !.status = FALSE]
    /\ sender' = "loop"
    /\ UNCHANGED <<nodes, silent, waited, asking, asked, dad, attempts,
                   handler, checker, chosen, alive, streak>>

(* send_thread transmits the queued REQ_FATHER ...                         *)
SendRequest ==
    /\ asking # NoHash
    /\ asked' = asked \cup {asking}
    /\ UNCHANGED <<nodes, father, silent, waited, asking, dad, attempts,
                   handler, sender, checker, chosen, alive, streak>>

(* ... and after the third time tasks.exists no longer counts it.          *)
GiveUp ==
    /\ asking \in asked
    /\ asking' = NoHash
    /\ UNCHANGED <<nodes, father, silent, waited, asked, dad, attempts,
                   handler, sender, checker, chosen, alive, streak>>

-----------------------------------------------------------------------------
(* father_handler::check                                                   *)

(* The condition at its top, read without a lock.                          *)
Due_Wrong == asking = NoHash /\ father.status /\ waited = "200s"
Due ==
    /\ asking = NoHash
    /\ IF father.status THEN waited = "200s" ELSE waited # "0s"

CheckDue ==
    /\ checker = "loop" /\ Due
    /\ checker' = "due"
    /\ UNCHANGED <<nodes, father, silent, waited, asking, asked, dad, attempts,
                   handler, sender, chosen, alive, streak>>

(* storage::nodes.nearest(pub), in the same two steps.                     *)
CheckHead ==
    /\ checker = "due"
    /\ chosen' \in Heads
    /\ checker' = "head"
    /\ UNCHANGED <<nodes, father, silent, waited, asking, asked, dad, attempts,
                   handler, sender, alive, streak>>

CheckNearest ==
    /\ checker = "head" /\ nodes # {}
    /\ chosen' \in NearestFrom(me, chosen, nodes)
    /\ checker' = "chosen"
    /\ UNCHANGED <<nodes, father, silent, waited, asking, asked, dad, attempts,
                   handler, sender, alive, streak>>

(* The father is farther than the nearest node: first it is forgotten ...  *)
Overtaken_Wrong == father.status /\ chosen # father.hash /\ cmp(me, father.hash, chosen) = 1
Overtaken == father.status /\ cmp(me, father.hash, chosen) = 2

CheckForget ==
    /\ checker = "chosen" /\ Overtaken
    /\ nodes' = nodes \ {father.hash}
    /\ checker' = "forgot"
    /\ UNCHANGED <<father, silent, waited, asking, asked, dad, attempts,
                   handler, sender, chosen, alive, streak>>

(* ... then dropped, still under father_handler::mute; in any case the     *)
(* timer restarts and REQ_FATHER is queued for the nearest node.           *)
CheckAsk ==
    /\ checker = "forgot" \/ (checker = "chosen" /\ ~Overtaken)
    /\ father' = IF checker = "forgot" THEN [father EXCEPT !.status = FALSE] ELSE father
    /\ waited' = "0s"
    /\ asking' = chosen /\ chosen' = NoHash
    /\ checker' = "loop"
    /\ UNCHANGED <<nodes, silent, asked, dad, attempts,
                   handler, sender, alive, streak>>

-----------------------------------------------------------------------------
(* nodes_handler::nearest on an empty list: exit(1).                       *)
Exit ==
    /\ nodes = {}
    /\ checker = "head" \/ \E t \in Handlers : handler[t].at = "head"
    /\ alive' = FALSE
    /\ UNCHANGED <<nodes, father, silent, waited, asking, asked, dad, attempts,
                   handler, sender, checker, chosen, streak>>

(* Time: 15 s without a packet of the father; 3 s, then 200 s, since the   *)
(* last check.                                                             *)
Silence ==
    /\ ~silent /\ silent' = TRUE
    /\ UNCHANGED <<nodes, father, waited, asking, asked, dad, attempts,
                   handler, sender, checker, chosen, alive, streak>>

Wait ==
    /\ waited # "200s"
    /\ waited' = IF waited = "0s" THEN "3s" ELSE "200s"
    /\ UNCHANGED <<nodes, father, silent, asking, asked, dad, attempts,
                   handler, sender, checker, chosen, alive, streak>>

-----------------------------------------------------------------------------
Response(t) ==
    \/ ResponseHead(t) \/ ResponseNearest(t) \/ ResponseAddSender(t)
    \/ ResponseDecide(t) \/ ResponseAddList(t)

Check == CheckDue \/ CheckHead \/ CheckNearest \/ CheckForget \/ CheckAsk

Next ==
    /\ alive
    /\ \/ \E t \in Handlers, h \in Others : Receive(t, h)
       \/ \E t \in Handlers : Response(t)
       \/ FatherSpeaks \/ \E h \in Others : NodeSpeaks(h)
       \/ SendLate \/ SendLost \/ SendForget \/ SendDrop
       \/ SendRequest \/ GiveUp
       \/ Check
       \/ Exit \/ Silence \/ Wait

Spec == Init /\ [][Next]_vars

(* The check thread and send_thread loop for ever and time passes; nothing *)
(* is assumed of the network or of other peers.  A REQ_FATHER is           *)
(* transmitted and given up because Tasks!EveryTaskServed.                 *)
FairSpec ==
    /\ Spec
    /\ WF_vars(alive /\ Check) /\ WF_vars(alive /\ Exit) /\ WF_vars(alive /\ Wait)
    /\ WF_vars(alive /\ SendRequest) /\ WF_vars(alive /\ GiveUp)

-----------------------------------------------------------------------------
(* Properties                                                              *)

(* Whatever the handlers and the two other threads interleave, the rest of *)
(* the peer sees the father change as FatherSpec says: from none or from a *)
(* farther one, to a node that was asked, and back to none only for a      *)
(* nearer node or after a silence, once for every silence that is noticed. *)
Promise == INSTANCE FatherSpec
             WITH parent <- IF father.status THEN father.hash ELSE NoHash,
                  contacted <- asked,
                  quiet <- silent,
                  doubted <- sender # "loop"
KeepsPromise == Promise!Spec

(* A peer becomes the father only when the last CONFIRM + 1 answers that   *)
(* any handler decided on were all its own: the counter that handlers      *)
(* share is never carried over from another candidate.                     *)
AdoptionEarned ==
    [][(father'.status /\ (father.status => father'.hash # father.hash)) =>
          streak' = [from |-> father'.hash, len |-> CONFIRM + 1]]_vars

(* When the check thread drops a father, the node it chose before taking   *)
(* the mutex is strictly nearer than the father it drops, although the     *)
(* father may have changed since it chose.                                 *)
CheckDropsForNearer ==
    [][(father.status /\ ~father'.status /\ UNCHANGED sender) =>
          Closer(me, chosen, father.hash)]_vars

(* A peer without a father keeps asking for one, unless it has run out of  *)
(* nodes and exited.                                                       *)
OrphanAsks == ~father.status ~> (asking # NoHash \/ father.status \/ ~alive)

(* A father that is not the nearest known node does not last: the check    *)
(* thread notices, however often the father speaks and other nodes answer. *)
FartherFatherReplaced ==
    \A h \in Others :
        (father = [status |-> TRUE, hash |-> h] /\ \E n \in nodes : Closer(me, n, h))
            ~> (father # [status |-> TRUE, hash |-> h]
                \/ ~\E n \in nodes : Closer(me, n, h) \/ ~alive)
=============================================================================
