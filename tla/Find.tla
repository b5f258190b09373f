-------------------------------- MODULE Find --------------------------------
(***************************************************************************)
(* How a user finds the node behind which another user sits.               *)
(*                                                                         *)
(* The local interface starts a search: a route in state PROGRESS and a    *)
(* REQ_FIND to the father.  Every node passes the request to the neighbour *)
(* nearest to the wanted key; a node with no nearer neighbour passes it to *)
(* all its users.  The wanted user, the only one that can decrypt it,      *)
(* answers with a REQ_FIND of its own for the searcher, which carries the  *)
(* searcher's code and the answering user's father.                        *)
(*                                                                         *)
(* A request is a task that is transmitted up to ATTEMPTS times, until its *)
(* acknowledgement removes it.  The one that a node sends to a user is     *)
(* never removed: the user acknowledges with USER_RES_FIND, which the node *)
(* does not handle (handler.cpp:34-38).  Here `left` counts what is left.  *)
(*                                                                         *)
(* Users and nodes are as Join leaves them: `father` of a user and the     *)
(* neighbours `links` of a node (its father and the clients that are       *)
(* nodes) are given and may change.  A node without a father drops         *)
(* requests, which is a loss.                                              *)
(*                                                                         *)
(* Definitions ending in _Wrong are deliberate defects; each is put in the *)
(* place of the definition after it to see that a property notices.        *)
(***************************************************************************)
EXTENDS HashSpace, FiniteSets

CONSTANTS
    Users, Nodes,   \* peers, by their keys
    NoNode,
    None,           \* no key, no request
    Topologies,     \* fathers of the users and neighbours of the nodes at the start
    Searchers,      \* users whose interface is asked
    Handlers,       \* handler threads of all users
    ATTEMPTS,       \* transmissions of a request (3 in the code)
    Losses,         \* whether the network loses datagrams
    Timers,         \* whether the 15, 60 and 100 seconds of the code pass
    Garbled,        \* whether random_cookie leaves garbage in the upper bytes
    MaxSearches,    \* bound on searches
    MaxMoves        \* bound on changes of fathers and links

ASSUME FindAssumption ==
    /\ Users \subseteq Hash /\ Nodes \subseteq Hash
    /\ Users \cap Nodes = {} /\ NoNode \notin Nodes
    /\ Topologies \subseteq [father : [Users -> Nodes], links : [Nodes -> (SUBSET Nodes) \ {{}}]]
    /\ \A g \in Topologies, n \in Nodes : n \notin g.links[n]
    /\ Searchers \subseteq Users
    /\ ATTEMPTS \in Nat \ {0}
    /\ Losses \in BOOLEAN /\ Timers \in BOOLEAN /\ Garbled \in BOOLEAN
    /\ MaxSearches \in Nat /\ MaxMoves \in Nat

VARIABLES
    father,     \* structs::father of each user: info.hash if status
    links,      \* node clients and father of each node
    routes,     \* structs::routes of each user
    api,        \* the key whose route find_request has not found, per user
    handler,    \* the request a handler answers after routes.upd failed
    answered,   \* the user, and the searcher it still takes as found, of a handler
    reqs,       \* find_router::reqs of each node
    net,        \* REQ_FIND tasks and their datagrams
    searches,   \* searches so far: the code of the last one
    moves,      \* changes of fathers and links so far
    told        \* history: what users have answered

vars == <<father, links, routes, api, handler, answered, reqs, net, searches, moves, told>>

Peers == Users \cup Nodes
Code == 1..MaxSearches
Garbage == -1       \* a stored code that no packet carries

Message ==
    [to : Peers, from : Peers, who : Users, src : Users, code : Code, dad : Nodes,
     left : 1..ATTEMPTS,
     seen : SUBSET Nodes]     \* history: nodes it has passed

(* struct route.  A route that is not in the vector has status "NONE".     *)
Route ==
    [status : {"NONE", "PROGRESS", "FOUND", "NFOUND"}, code : Code \cup {0, Garbage},
     node : Nodes \cup {NoNode}, age : {"0s", "60s", "100s"}]
Fresh(status, code) == [status |-> status, code |-> code, node |-> NoNode, age |-> "0s"]
NoRoute == Fresh("NONE", 0)

TypeOK ==
    /\ father \in [Users -> Nodes \cup {NoNode}]
    /\ links \in [Nodes -> SUBSET Nodes]
    /\ routes \in [Users -> [Users -> Route]]
    /\ api \in [Users -> Users \cup {None}]
    /\ handler \in [Handlers -> Message \cup {None}]
    /\ answered \in [Handlers -> (Users \X Users) \cup {None}]
    /\ reqs \in [Nodes -> SUBSET (Peers \X Users)]
    /\ net \subseteq Message
    /\ searches \in 0..MaxSearches
    /\ moves \in 0..MaxMoves
    /\ told \subseteq [by : Users, to : Users, code : Code, node : Nodes \cup {NoNode}]

Init ==
    /\ \E g \in Topologies : father = g.father /\ links = g.links
    /\ routes = [u \in Users |-> [t \in Users |-> NoRoute]]
    /\ api = [u \in Users |-> None]
    /\ handler = [h \in Handlers |-> None]
    /\ answered = [h \in Handlers |-> None]
    /\ reqs = [n \in Nodes |-> {}]
    /\ net = {} /\ searches = 0 /\ moves = 0 /\ told = {}

-----------------------------------------------------------------------------
(* routes_handler                                                          *)

(* add: an entry of the last minute keeps its code and its node.           *)
add_Wrong(u, t, code, state) == routes' = [routes EXCEPT ![u][t] = Fresh(state, 0)]
add(u, t, code, state) ==
    LET old == routes[u][t]
    IN  routes' = [routes EXCEPT ![u][t] =
            IF old.status # "NONE" /\ old.age = "0s" THEN [old EXCEPT !.status = state]
            ELSE Fresh(state, code)]

(* upd, of an existing entry: an answer to another search means not found. *)
upd_Wrong(u, t, code, node) ==
    routes' = [routes EXCEPT ![u][t] = [@ EXCEPT !.age = "0s", !.status = "FOUND", !.node = node]]
upd(u, t, code, node) ==
    routes' = [routes EXCEPT ![u][t] =
        IF @.code # code THEN [@ EXCEPT !.age = "0s", !.status = "NFOUND"]
        ELSE [@ EXCEPT !.age = "0s", !.status = "FOUND", !.node = node]]

(* check, of one entry: a search ends after a minute, its result goes      *)
(* after another hundred seconds.                                          *)
Checked_Wrong(r) == IF r.age = "100s" /\ r.status # "PROGRESS" THEN NoRoute ELSE r
Checked(r) ==
    IF r.age = "0s" THEN r
    ELSE IF r.status = "PROGRESS" THEN [r EXCEPT !.status = "NFOUND", !.age = "0s"]
    ELSE IF r.age = "100s" THEN NoRoute ELSE r

check(u) ==
    /\ routes' = [routes EXCEPT ![u] = [t \in Users |-> Checked(@[t])]]
    /\ UNCHANGED <<father, links, api, handler, answered, reqs, net, searches, moves, told>>

(* Time since the last change of an entry.                                 *)
Age(u, t) ==
    /\ Timers /\ routes[u][t].status # "NONE" /\ routes[u][t].age # "100s"
    /\ routes' = [routes EXCEPT ![u][t].age = IF @ = "0s" THEN "60s" ELSE "100s"]
    /\ UNCHANGED <<father, links, api, handler, answered, reqs, net, searches, moves, told>>

-----------------------------------------------------------------------------
(* spruceapi::find_request                                                 *)

Request(from, to, who, code, dad) ==
    [to |-> to, from |-> from, who |-> who, src |-> from, code |-> code, dad |-> dad,
     left |-> ATTEMPTS, seen |-> {}]

(* Any known route is the answer.  If there is none ...                    *)
find_request(u, t) ==
    /\ api[u] = None /\ father[u] # NoNode
    /\ routes[u][t].status = "NONE"
    /\ searches < MaxSearches
    /\ api' = [api EXCEPT ![u] = t]
    /\ UNCHANGED <<father, links, routes, handler, answered, reqs, net, searches, moves, told>>

(* ... a search starts, under another acquisition of the lock.  The stored *)
(* code has eight bytes of which four were written, the sent one has four. *)
(* A father lost since the test leaves a packet without a father, for the  *)
(* former one: it counts as lost.                                          *)
find_start(u) ==
    /\ api[u] # None /\ searches < MaxSearches
    /\ LET code == searches + 1
       IN  /\ \E stored \in {code} \cup IF Garbled THEN {Garbage} ELSE {} :
                 add(u, api[u], stored, "PROGRESS")
           /\ net' = IF father[u] = NoNode THEN net
                     ELSE net \cup {Request(u, father[u], api[u], code, father[u])}
           /\ searches' = code
    /\ api' = [api EXCEPT ![u] = None]
    /\ UNCHANGED <<father, links, handler, answered, reqs, moves, told>>

-----------------------------------------------------------------------------
(* What remains of m when it has been delivered or lost once.  A node's    *)
(* acknowledgement may come before the next transmission.                  *)
Again_Wrong(m) == {[m EXCEPT !.left = @ - 1]}
Again(m) == IF m.left = 1 THEN {} ELSE {[m EXCEPT !.left = @ - 1]}
Rest(m) == IF m.to \in Nodes THEN {{}, Again(m)} ELSE {Again(m)}

(* find_router::request of a node.  allow: not the same wanted key from    *)
(* the same address within 15 s.                                           *)
allow(n, m) == <<m.from, m.who>> \notin reqs[n]

(* Whether the request goes on from n to its neighbour near.               *)
GoesOn_Wrong(n, near, m) == cmp(m.who, n, near) # 1
GoesOn(n, near, m) == cmp(m.who, n, near) = 2

Forwarded(m, n, p) ==
    [m EXCEPT !.to = p, !.from = n, !.left = ATTEMPTS, !.seen = @ \cup {n}]
packet_distribution(n, m) == {Forwarded(m, n, u) : u \in {v \in Users : father[v] = n}}

(* One step nearer, or to all users.                                       *)
Passed(n, near, m) ==
    IF GoesOn(n, near, m) THEN {Forwarded(m, n, near)} ELSE packet_distribution(n, m)

(* clients_handler::nearest: the scan starts from the father.              *)
near_client(n, who) == Nearest(who, links[n])

NodeRequest(n, m) ==
    /\ m.to = n
    /\ \E rest \in Rest(m) :
          IF allow(n, m)
          THEN /\ reqs' = [reqs EXCEPT ![n] = @ \cup {<<m.from, m.who>>}]
               /\ \E near \in near_client(n, m.who) :
                     net' = (net \ {m}) \cup rest \cup Passed(n, near, m)
          ELSE /\ net' = (net \ {m}) \cup rest
               /\ reqs' = reqs
    /\ UNCHANGED <<father, links, routes, api, handler, answered, searches, moves, told>>

allow_expires(n) ==
    /\ Timers
    /\ \E e \in reqs[n] : reqs' = [reqs EXCEPT ![n] = @ \ {e}]
    /\ UNCHANGED <<father, links, routes, api, handler, answered, net, searches, moves, told>>

(* find_processing of a user, for a request that its father sent and that  *)
(* it can decrypt: update the route, or ...                                *)
UserRequest(h, u, m) ==
    /\ m.to = u /\ handler[h] = None /\ answered[h] = None
    /\ \E rest \in Rest(m) : net' = (net \ {m}) \cup rest
    /\ IF m.from # father[u] \/ m.who # u THEN UNCHANGED <<routes, handler>>
       ELSE IF routes[u][m.src].status = "NONE"
            THEN handler' = [handler EXCEPT ![h] = m] /\ routes' = routes
            ELSE upd(u, m.src, m.code, m.dad) /\ handler' = handler
    /\ UNCHANGED <<father, links, api, answered, reqs, searches, moves, told>>

(* ... answer, and then take the searcher as found, under a lock of its    *)
(* own.  Without a father the father in the packet stays the searcher's    *)
(* (haship has no address).                                                *)
Answer(h) ==
    /\ handler[h] # None
    /\ LET m == handler[h]  u == m.to
       IN  /\ net' = net \cup {Request(u, m.from, m.src, m.code,
                                       IF father[u] = NoNode THEN m.dad ELSE father[u])}
           /\ told' = told \cup {[by |-> u, to |-> m.src, code |-> m.code, node |-> father[u]]}
           /\ answered' = [answered EXCEPT ![h] = <<u, m.src>>]
    /\ handler' = [handler EXCEPT ![h] = None]
    /\ UNCHANGED <<father, links, routes, api, reqs, searches, moves>>

AddSearcher(h) ==
    /\ answered[h] # None
    /\ add(answered[h][1], answered[h][2], 0, "FOUND")
    /\ answered' = [answered EXCEPT ![h] = None]
    /\ UNCHANGED <<father, links, api, handler, reqs, net, searches, moves, told>>

-----------------------------------------------------------------------------
(* The rest of the network                                                 *)

Lose ==
    /\ Losses
    /\ \E m \in net : net' = (net \ {m}) \cup Again(m)
    /\ UNCHANGED <<father, links, routes, api, handler, answered, reqs, searches, moves, told>>

(* A user loses its father or adopts one, a node's neighbours change.      *)
Move(u) ==
    /\ moves < MaxMoves /\ moves' = moves + 1
    /\ father' \in {[father EXCEPT ![u] = n] : n \in Nodes \cup {NoNode}}
    /\ UNCHANGED <<links, routes, api, handler, answered, reqs, net, searches, told>>

Relink(n) ==
    /\ moves < MaxMoves /\ moves' = moves + 1
    /\ \E S \in (SUBSET (Nodes \ {n})) \ {{}} : links' = [links EXCEPT ![n] = S]
    /\ UNCHANGED <<father, routes, api, handler, answered, reqs, net, searches, told>>

Deliver ==
    \E m \in net : \/ \E n \in Nodes : NodeRequest(n, m)
                   \/ \E h \in Handlers, u \in Users : UserRequest(h, u, m)

Next ==
    \/ \E u \in Searchers : find_start(u) \/ \E t \in Users : find_request(u, t)
    \/ Deliver
    \/ \E h \in Handlers : Answer(h) \/ AddSearcher(h)
    \/ \E u \in Users : check(u) \/ Move(u) \/ \E t \in Users : Age(u, t)
    \/ \E n \in Nodes : allow_expires(n) \/ Relink(n)
    \/ Lose

Spec == Init /\ [][Next]_vars

(* Handlers, the check thread and the interface make progress and time     *)
(* passes.  That requests are delivered is a promise of the network only   *)
(* without Losses.                                                         *)
FairSpec ==
    /\ Spec
    /\ WF_vars(Deliver)
    /\ \A h \in Handlers : WF_vars(Answer(h)) /\ WF_vars(AddSearcher(h))
    /\ \A u \in Users : /\ WF_vars(u \in Searchers /\ find_start(u)) /\ WF_vars(check(u))
                        /\ \A t \in Users : WF_vars(Age(u, t))

-----------------------------------------------------------------------------
(* Properties                                                              *)

(* No search comes back to a node it has passed, although each node        *)
(* decides alone, keys tie, links change under way and allow forgets after *)
(* 15 s.                                                                   *)
NoLoop == \A m \in net : m.to \notin m.seen

(* A route with an address was told by the wanted user in answer to this   *)
(* very search: not to an earlier one that timed out, and never taken from *)
(* the other user's own search.  (A user that has just lost its father     *)
(* sends the searcher's back; a user that searches for itself gets its own *)
(* request, and answers nobody.)                                           *)
FoundIsAnswered ==
    \A u, t \in Users :
        LET r == routes[u][t]
        IN  u # t /\ r.status = "FOUND" /\ r.node # NoNode =>
                \E a \in told : /\ a.by = t /\ a.to = u /\ a.code = r.code
                                /\ a.node \in {r.node, NoNode}

(* Every search ends, so a program that polls while the status is PROGRESS *)
(* (find.php) stops.                                                       *)
SearchEnds ==
    \A u, t \in Users : routes[u][t].status = "PROGRESS" ~> routes[u][t].status # "PROGRESS"

(* The father of p is the one node that has no neighbour nearer to p.      *)
Findable(p) ==
    \A n \in Nodes : n = father[p] <=> ~\E l \in links[n] : Closer(p, l, n)

(* If requests arrive and walks to both users end at their fathers, a      *)
(* search finds and stays found, whatever is repeated.                     *)
SearchFinds ==
    \A u, t \in Users :
        (routes[u][t].status = "PROGRESS" /\ Findable(u) /\ Findable(t))
            ~> [](routes[u][t].status = "FOUND")

(* src/find.php:9 reads status 1, NFOUND, as "user doesn't exist".         *)
NotFoundMeansAbsent ==
    \A u, t \in Users : routes[u][t].status = "NFOUND" => father[t] = NoNode
=============================================================================
