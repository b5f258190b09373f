----------------------------- MODULE FindProofs -----------------------------
(***************************************************************************)
(* What holds of Find for all users, nodes and links, any changes of       *)
(* fathers and links, lost and repeated requests, and garbled codes.       *)
(***************************************************************************)
EXTENDS Find, HashSpaceProofs

(* A request is nearer to the wanted key than every node it has passed.    *)
Nearing ==
    \A m \in net : m.to \in Nodes => \A v \in m.seen : Closer(m.who, m.to, v)

WInv == TypeOK /\ Nearing

(* What a message says of its sender was told in answer to the search with *)
(* this code, or nobody else has a search with this code.                  *)
Told(T, u, t, c, n) ==
    \E a \in T : a.by = t /\ a.to = u /\ a.code = c /\ a.node \in {n, NoNode}
Own(R, m) == \A u, t \in Users : R[u][t].code = m.code => u = m.src
Honest(m, R, T, s) == m.code <= s /\ (Told(T, m.who, m.src, m.code, m.dad) \/ Own(R, m))

NetIsHonest == \A m \in net : Honest(m, routes, told, searches)

(* Codes stored in routes have been used, and handlers answer requests.    *)
CodesAreOld == \A u, t \in Users : routes[u][t].code <= searches
HandlersAnswer ==
    \A h \in Handlers : handler[h] # None =>
        handler[h].to \in Users /\ handler[h].code <= searches

(* FoundIsAnswered of any route that has an address, whatever its status.  *)
AddressIsTold ==
    \A u, t \in Users :
        u # t /\ routes[u][t].node # NoNode => Told(told, u, t, routes[u][t].code, routes[u][t].node)

HInv == WInv /\ HandlersAnswer /\ NetIsHonest /\ CodesAreOld /\ AddressIsTold

-----------------------------------------------------------------------------
LEMMA AgainType ==
  ASSUME NEW m \in Message
  PROVE  Again(m) \subseteq Message
BY FindAssumption DEF Again, Message

LEMMA RestType ==
  ASSUME NEW m \in Message, NEW rest \in Rest(m)
  PROVE  rest \subseteq Message
BY AgainType DEF Rest

(* What remains of a message differs from it in `left` only.               *)
LEMMA AgainSame ==
  ASSUME NEW m \in Message, NEW k \in Again(m)
  PROVE  /\ k.to = m.to /\ k.from = m.from /\ k.who = m.who /\ k.src = m.src
         /\ k.code = m.code /\ k.dad = m.dad /\ k.seen = m.seen
BY DEF Again, Message

LEMMA RestSame ==
  ASSUME NEW m \in Message, NEW rest \in Rest(m), NEW k \in rest
  PROVE  /\ k.to = m.to /\ k.from = m.from /\ k.who = m.who /\ k.src = m.src
         /\ k.code = m.code /\ k.dad = m.dad /\ k.seen = m.seen
BY AgainSame DEF Rest

LEMMA PassedType ==
  ASSUME NEW m \in Message, NEW n \in Nodes, NEW near \in Nodes
  PROVE  /\ Passed(n, near, m) \subseteq Message
         /\ \A k \in Passed(n, near, m) :
               /\ k.who = m.who /\ k.src = m.src /\ k.code = m.code /\ k.dad = m.dad
               /\ k.seen = m.seen \cup {n}
               /\ k.to \in Users \/ (k.to = near /\ GoesOn(n, near, m))
<1> DEFINE to(p) == Forwarded(m, n, p)
<1>1. ASSUME NEW p \in Peers
      PROVE  /\ to(p) \in Message
             /\ to(p).to = p /\ to(p).who = m.who /\ to(p).src = m.src
             /\ to(p).code = m.code /\ to(p).dad = m.dad /\ to(p).seen = m.seen \cup {n}
  <2>1. n \in Peers /\ m.seen \cup {n} \in SUBSET Nodes /\ ATTEMPTS \in 1..ATTEMPTS
    BY FindAssumption DEF Message, Peers
  <2>2. to(p) \in Message
    BY <2>1 DEF Message, Forwarded
  <2>3. /\ to(p).to = p /\ to(p).who = m.who /\ to(p).src = m.src
        /\ to(p).code = m.code /\ to(p).dad = m.dad /\ to(p).seen = m.seen \cup {n}
    BY DEF Message, Forwarded
  <2> QED BY <2>2, <2>3
<1>2. ASSUME NEW k \in Passed(n, near, m)
      PROVE  \E p \in Peers : k = to(p) /\ (p \in Users \/ (p = near /\ GoesOn(n, near, m)))
  <2>1. CASE GoesOn(n, near, m)
    <3>1. Passed(n, near, m) = {to(near)}
      BY <2>1 DEF Passed
    <3> QED BY <1>2, <2>1, <3>1 DEF Peers
  <2>2. CASE ~GoesOn(n, near, m)
    <3>1. Passed(n, near, m) = {to(p) : p \in {v \in Users : father[v] = n}}
      BY <2>2 DEF Passed, packet_distribution
    <3> QED BY <1>2, <3>1 DEF Peers
  <2> QED BY <2>1, <2>2
<1> HIDE DEF to
<1> QED BY <1>1, <1>2

LEMMA RequestType ==
  ASSUME NEW u \in Users, NEW to \in Peers, NEW who \in Users, NEW c \in Code, NEW d \in Nodes
  PROVE  Request(u, to, who, c, d) \in Message
BY FindAssumption DEF Request, Message, Peers

LEMMA AddType ==
  ASSUME routes \in [Users -> [Users -> Route]], NEW u \in Users, NEW t \in Users,
         NEW c \in Code \cup {0, Garbage}, NEW s \in {"PROGRESS", "FOUND", "NFOUND"},
         add(u, t, c, s)
  PROVE  routes' \in [Users -> [Users -> Route]]
<1>1. routes[u][t] \in Route
  OBVIOUS
<1>2. [routes[u][t] EXCEPT !.status = s] \in Route
  BY <1>1 DEF Route
<1>3. Fresh(s, c) \in Route
  BY DEF Fresh, Route
<1>4. \E r \in Route : routes' = [routes EXCEPT ![u][t] = r]
  <2>1. CASE routes[u][t].status # "NONE" /\ routes[u][t].age = "0s"
    BY <1>2, <2>1 DEF add
  <2>2. CASE ~(routes[u][t].status # "NONE" /\ routes[u][t].age = "0s")
    BY <1>3, <2>2 DEF add
  <2> QED BY <2>1, <2>2
<1> QED BY <1>4

LEMMA UpdType ==
  ASSUME routes \in [Users -> [Users -> Route]], NEW u \in Users, NEW t \in Users,
         NEW c, NEW d \in Nodes, upd(u, t, c, d)
  PROVE  routes' \in [Users -> [Users -> Route]]
<1>1. routes[u][t] \in Route
  OBVIOUS
<1>2. [routes[u][t] EXCEPT !.age = "0s", !.status = "NFOUND"] \in Route
  BY <1>1 DEF Route
<1>3. [routes[u][t] EXCEPT !.age = "0s", !.status = "FOUND", !.node = d] \in Route
  BY <1>1 DEF Route
<1> QED BY <1>2, <1>3 DEF upd

LEMMA CheckedType ==
  ASSUME NEW r \in Route
  PROVE  /\ Checked(r) \in Route
         /\ Checked(r).code \in {r.code, 0} /\ Checked(r).node \in {r.node, NoNode}
         /\ Checked(r).node = NoNode \/ Checked(r).code = r.code
BY DEF Checked, Route, NoRoute, Fresh

-----------------------------------------------------------------------------
LEMMA InitWInv == Init => WInv
<1> SUFFICES ASSUME Init PROVE WInv
  OBVIOUS
<1>1. PICK g \in Topologies : father = g.father /\ links = g.links
  BY DEF Init
<1>2. father \in [Users -> Nodes \cup {NoNode}] /\ links \in [Nodes -> SUBSET Nodes]
  BY <1>1, FindAssumption
<1>3. NoRoute \in Route
  BY DEF NoRoute, Fresh, Route
<1> QED BY <1>2, <1>3, FindAssumption DEF Init, WInv, TypeOK, Nearing

LEMMA TypeStep == WInv /\ HandlersAnswer /\ [Next]_vars => TypeOK'
<1> SUFFICES ASSUME WInv, HandlersAnswer, [Next]_vars PROVE TypeOK'
  OBVIOUS
<1> USE FindAssumption DEF WInv, TypeOK
<1>1. ASSUME NEW u \in Users, NEW t \in Users, find_request(u, t) PROVE TypeOK'
  BY <1>1 DEF find_request
<1>2. ASSUME NEW u \in Users, find_start(u) PROVE TypeOK'
  <2>1. api[u] \in Users /\ searches + 1 \in Code
    BY <1>2 DEF find_start, Code
  <2>2. routes' \in [Users -> [Users -> Route]]
    BY <1>2, <2>1, AddType DEF find_start
  <2>3. net' \subseteq Message
    BY <1>2, <2>1, RequestType DEF find_start, Peers
  <2>4. searches' \in 0..MaxSearches
    BY <1>2, <2>1 DEF find_start, Code
  <2> QED BY <1>2, <2>2, <2>3, <2>4 DEF find_start
<1>3. ASSUME NEW m \in net, NEW n \in Nodes, NodeRequest(n, m) PROVE TypeOK'
  <2>1. PICK rest \in Rest(m) :
           \/ /\ reqs' = [reqs EXCEPT ![n] = @ \cup {<<m.from, m.who>>}]
              /\ \E near \in near_client(n, m.who) :
                    net' = (net \ {m}) \cup rest \cup Passed(n, near, m)
           \/ net' = (net \ {m}) \cup rest /\ reqs' = reqs
    BY <1>3 DEF NodeRequest
  <2>2. rest \subseteq Message
    BY RestType
  <2>3. near_client(n, m.who) \subseteq Nodes
    BY DEF near_client, Nearest
  <2>4. net' \subseteq Message
    BY <2>1, <2>2, <2>3, PassedType
  <2>5. <<m.from, m.who>> \in Peers \X Users
    BY DEF Message
  <2>6. reqs' \in [Nodes -> SUBSET (Peers \X Users)]
    BY <2>1, <2>5
  <2> QED BY <1>3, <2>4, <2>6 DEF NodeRequest
<1>4. ASSUME NEW m \in net, NEW h \in Handlers, NEW u \in Users, UserRequest(h, u, m)
      PROVE  TypeOK'
  <2>1. net' \subseteq Message
    BY <1>4, RestType DEF UserRequest
  <2>2. m.src \in Users /\ m.dad \in Nodes
    BY DEF Message
  <2>3. routes' \in [Users -> [Users -> Route]]
    BY <1>4, <2>2, UpdType DEF UserRequest
  <2>4. handler' \in [Handlers -> Message \cup {None}]
    BY <1>4 DEF UserRequest
  <2> QED BY <1>4, <2>1, <2>3, <2>4 DEF UserRequest
<1>5. ASSUME NEW h \in Handlers, Answer(h) PROVE TypeOK'
  <2> DEFINE m == handler[h]
             d == IF father[m.to] = NoNode THEN m.dad ELSE father[m.to]
  <2>1. m \in Message /\ m.to \in Users
    BY <1>5 DEF Answer, HandlersAnswer
  <2>2. m.from \in Peers /\ m.src \in Users /\ m.code \in Code /\ d \in Nodes
    BY <2>1 DEF Message
  <2>3. net' \subseteq Message
    BY <1>5, <2>1, <2>2, RequestType DEF Answer
  <2>4. answered' \in [Handlers -> (Users \X Users) \cup {None}]
    BY <1>5, <2>1, <2>2 DEF Answer
  <2>5. told' \subseteq [by : Users, to : Users, code : Code, node : Nodes \cup {NoNode}]
    BY <1>5, <2>1, <2>2 DEF Answer
  <2> QED BY <1>5, <2>3, <2>4, <2>5 DEF Answer
<1>13. ASSUME NEW h \in Handlers, AddSearcher(h) PROVE TypeOK'
  <2>1. answered[h] \in Users \X Users
    BY <1>13 DEF AddSearcher
  <2>2. answered[h][1] \in Users /\ answered[h][2] \in Users
    BY <2>1
  <2>3. routes' \in [Users -> [Users -> Route]]
    BY <1>13, <2>2, AddType DEF AddSearcher
  <2> QED BY <1>13, <2>3 DEF AddSearcher
<1>6. ASSUME NEW u \in Users, check(u) PROVE TypeOK'
  <2>1. \A t \in Users : Checked(routes[u][t]) \in Route
    BY CheckedType
  <2> QED BY <1>6, <2>1 DEF check
<1>7. ASSUME NEW u \in Users, NEW t \in Users, Age(u, t) PROVE TypeOK'
  <2>1. routes[u][t] \in Route
    OBVIOUS
  <2>2. \A a \in {"60s", "100s"} : [routes[u][t] EXCEPT !.age = a] \in Route
    BY <2>1 DEF Route
  <2> QED BY <1>7, <2>1, <2>2 DEF Age
<1>8. ASSUME NEW u \in Users, Move(u) PROVE TypeOK'
  BY <1>8 DEF Move
<1>9. ASSUME NEW n \in Nodes, Relink(n) PROVE TypeOK'
  BY <1>9 DEF Relink
<1>10. ASSUME NEW n \in Nodes, allow_expires(n) PROVE TypeOK'
  BY <1>10 DEF allow_expires
<1>11. ASSUME Lose PROVE TypeOK'
  BY <1>11, AgainType DEF Lose
<1>12. CASE UNCHANGED vars
  BY <1>12 DEF vars
<1> QED
  BY <1>1, <1>2, <1>3, <1>4, <1>5, <1>6, <1>7, <1>8, <1>9, <1>10, <1>11, <1>12, <1>13
  DEF Next, Deliver
-----------------------------------------------------------------------------
(* A message that says the same as another one, on its way elsewhere.      *)
Copy(k, j) == k.src = j.src /\ k.who = j.who /\ k.code = j.code /\ k.dad = j.dad

(* Nodes and the network say nothing new, and every hop is nearer.         *)
LEMMA NodeStep ==
  ASSUME WInv, NEW m \in net, NEW n \in Nodes, NodeRequest(n, m), NEW k \in net'
  PROVE  /\ \E j \in net : Copy(k, j)
         /\ k.to \in Nodes => \A v \in k.seen : Closer(k.who, k.to, v)
<1> USE FindAssumption DEF WInv, TypeOK
<1>s. m.to = n /\ m \in Message
  BY DEF NodeRequest
<1>1. PICK rest \in Rest(m) :
         \/ \E near \in near_client(n, m.who) :
               net' = (net \ {m}) \cup rest \cup Passed(n, near, m)
         \/ net' = (net \ {m}) \cup rest
  BY DEF NodeRequest
<1>2. CASE k \in net
  BY <1>2 DEF Copy, Nearing
<1>3. CASE k \in rest
  <2>1. /\ k.to = m.to /\ k.who = m.who /\ k.src = m.src
        /\ k.code = m.code /\ k.dad = m.dad /\ k.seen = m.seen
    BY <1>3, RestSame
  <2> QED BY <2>1 DEF Copy, Nearing
<1>4. ASSUME NEW near \in near_client(n, m.who), k \in Passed(n, near, m)
      PROVE  /\ \E j \in net : Copy(k, j)
             /\ k.to \in Nodes => \A v \in k.seen : Closer(k.who, k.to, v)
  <2>1. near \in Nodes
    BY DEF near_client, Nearest
  <2>2. /\ k.who = m.who /\ k.src = m.src /\ k.code = m.code /\ k.dad = m.dad
        /\ k.seen = m.seen \cup {n}
        /\ k.to \in Users \/ (k.to = near /\ GoesOn(n, near, m))
    BY <1>s, <1>4, <2>1, PassedType
  <2>3. Copy(k, m)
    BY <2>2 DEF Copy
  <2>4. ASSUME k.to \in Nodes, NEW v \in k.seen PROVE Closer(k.who, k.to, v)
    <3>1. k.to = near /\ GoesOn(n, near, m)
      BY <2>2, <2>4
    <3>2. m.who \in Hash /\ n \in Hash /\ near \in Hash
      BY <1>s, <2>1 DEF Message
    <3>3. Closer(m.who, near, n)
      BY <3>1, <3>2, CmpMirror DEF GoesOn
    <3>4. CASE v = n
      BY <2>2, <3>1, <3>3, <3>4
    <3>5. CASE v \in m.seen
      <4>1. v \in Hash
        BY <1>s, <3>5 DEF Message
      <4>2. Closer(m.who, n, v)
        BY <1>s, <3>5 DEF Nearing
      <4>3. Closer(m.who, near, v)
        BY <3>2, <3>3, <4>1, <4>2, CloserTransitive
      <4> QED BY <2>2, <3>1, <4>3
    <3> QED BY <2>2, <2>4, <3>4, <3>5
  <2> QED BY <2>3, <2>4
<1> QED BY <1>1, <1>2, <1>3, <1>4

(* So do the users' receipts and losses, which leave walks where they are. *)
LEMMA RestStep ==
  ASSUME WInv, NEW m \in net, NEW rest \in Rest(m) \cup {Again(m)},
         NEW k \in (net \ {m}) \cup rest
  PROVE  \E j \in net : Copy(k, j) /\ k.to = j.to /\ k.seen = j.seen
<1>1. m \in Message
  BY DEF WInv, TypeOK
<1>2. CASE k \in net
  BY <1>2 DEF Copy
<1>3. CASE k \in rest
  BY <1>1, <1>3, RestSame, AgainSame DEF Copy
<1> QED BY <1>2, <1>3

(* Deliveries and losses only copy messages.                               *)
LEMMA CopiesOnly ==
  ASSUME WInv, NEW k \in net',
         \/ Deliver
         \/ Lose
  PROVE  \E j \in net : Copy(k, j)
<1>1. ASSUME NEW m \in net, NEW n \in Nodes, NodeRequest(n, m)
      PROVE  \E j \in net : Copy(k, j)
  BY <1>1, NodeStep
<1>2. ASSUME NEW m \in net, NEW h \in Handlers, NEW u \in Users, UserRequest(h, u, m)
      PROVE  \E j \in net : Copy(k, j)
  BY <1>2, RestStep DEF UserRequest
<1>3. ASSUME Lose PROVE \E j \in net : Copy(k, j)
  BY <1>3, RestStep DEF Lose
<1> QED BY <1>1, <1>2, <1>3 DEF Deliver

LEMMA WStep == WInv /\ HandlersAnswer /\ [Next]_vars => WInv'
<1> SUFFICES ASSUME WInv, HandlersAnswer, [Next]_vars PROVE Nearing'
  BY TypeStep DEF WInv
<1> USE FindAssumption DEF WInv, Nearing
<1>1. ASSUME NEW u \in Users, find_start(u) PROVE Nearing'
  BY <1>1 DEF find_start, Request
<1>2. ASSUME NEW m \in net, NEW n \in Nodes, NodeRequest(n, m) PROVE Nearing'
  BY <1>2, NodeStep
<1>3. ASSUME NEW m \in net, NEW h \in Handlers, NEW u \in Users, UserRequest(h, u, m)
      PROVE  Nearing'
  BY <1>3, RestStep DEF UserRequest, Copy
<1>4. ASSUME NEW h \in Handlers, Answer(h) PROVE Nearing'
  BY <1>4 DEF Answer, Request
<1>5. ASSUME Lose PROVE Nearing'
  BY <1>5, RestStep DEF Lose, Copy
<1>6. ASSUME UNCHANGED net PROVE Nearing'
  BY <1>6
<1>7. ASSUME \/ \E u \in Users : check(u) \/ Move(u) \/ \E t \in Users : Age(u, t)
             \/ \E u, t \in Users : find_request(u, t)
             \/ \E h \in Handlers : AddSearcher(h)
             \/ \E n \in Nodes : allow_expires(n) \/ Relink(n)
             \/ UNCHANGED vars
      PROVE  UNCHANGED net
  BY <1>7 DEF check, Move, Age, find_request, AddSearcher, allow_expires, Relink, vars
<1> QED
  BY <1>1, <1>2, <1>3, <1>4, <1>5, <1>6, <1>7 DEF Next, Deliver

-----------------------------------------------------------------------------
(* What add, upd and check do to the code and the address of an entry.     *)
LEMMA AddKeeps ==
  ASSUME routes \in [Users -> [Users -> Route]], NEW u \in Users, NEW t \in Users,
         NEW c, NEW s, add(u, t, c, s), NEW v \in Users, NEW w \in Users
  PROVE  \/ routes'[v][w].code = routes[v][w].code /\ routes'[v][w].node = routes[v][w].node
         \/ v = u /\ w = t /\ routes'[v][w].code = c /\ routes'[v][w].node = NoNode
<1>1. routes[u][t] \in Route
  OBVIOUS
<1>2. CASE routes[u][t].status # "NONE" /\ routes[u][t].age = "0s"
  <2>1. routes' = [routes EXCEPT ![u][t] = [routes[u][t] EXCEPT !.status = s]]
    BY <1>2 DEF add
  <2>2. /\ [routes[u][t] EXCEPT !.status = s].code = routes[u][t].code
        /\ [routes[u][t] EXCEPT !.status = s].node = routes[u][t].node
    BY <1>1 DEF Route
  <2> QED BY <2>1, <2>2
<1>3. CASE ~(routes[u][t].status # "NONE" /\ routes[u][t].age = "0s")
  <2>1. routes' = [routes EXCEPT ![u][t] = Fresh(s, c)]
    BY <1>3 DEF add
  <2>2. Fresh(s, c).code = c /\ Fresh(s, c).node = NoNode
    BY DEF Fresh
  <2> QED BY <2>1, <2>2
<1> QED BY <1>2, <1>3

LEMMA UpdKeeps ==
  ASSUME routes \in [Users -> [Users -> Route]], NEW u \in Users, NEW t \in Users,
         NEW c, NEW d, upd(u, t, c, d), NEW v \in Users, NEW w \in Users
  PROVE  /\ routes'[v][w].code = routes[v][w].code
         /\ \/ routes'[v][w].node = routes[v][w].node
            \/ v = u /\ w = t /\ routes[v][w].code = c /\ routes'[v][w].node = d
<1>1. routes[u][t] \in Route
  OBVIOUS
<1>2. CASE routes[u][t].code # c
  <2> DEFINE r == [routes[u][t] EXCEPT !.age = "0s", !.status = "NFOUND"]
  <2>1. routes' = [routes EXCEPT ![u][t] = r]
    BY <1>2 DEF upd
  <2>2. r.code = routes[u][t].code /\ r.node = routes[u][t].node
    BY <1>1 DEF Route
  <2> QED BY <2>1, <2>2
<1>3. CASE routes[u][t].code = c
  <2> DEFINE r == [routes[u][t] EXCEPT !.age = "0s", !.status = "FOUND", !.node = d]
  <2>1. routes' = [routes EXCEPT ![u][t] = r]
    BY <1>3 DEF upd
  <2>2. r.code = routes[u][t].code /\ r.node = d
    BY <1>1 DEF Route
  <2> QED BY <1>3, <2>1, <2>2
<1> QED BY <1>2, <1>3

(* What is known of codes, answers and messages survives a step that adds  *)
(* answers, uses up codes and changes no code of a route to a message's.   *)
LEMMA HonestKeeps ==
  ASSUME HInv, NEW k, NEW j \in net, Copy(k, j), told \subseteq told',
         searches <= searches', searches' \in Nat,
         \A v, w \in Users : routes'[v][w].code \in {routes[v][w].code, 0, Garbage}
                                                  \cup {searches + 1}
  PROVE  Honest(k, routes', told', searches')
<1>s. searches \in Nat /\ j \in Message
  BY FindAssumption DEF HInv, WInv, TypeOK
<1>1. k.code = j.code /\ k.src = j.src /\ k.dad = j.dad /\ k.who = j.who
  BY DEF Copy
<1>2. k.code \in Nat \ {0} /\ k.code <= searches
  BY <1>s, <1>1, FindAssumption DEF Message, HInv, NetIsHonest, Honest, Code
<1>3. ASSUME Told(told, j.who, j.src, j.code, j.dad) PROVE Told(told', k.who, k.src, k.code, k.dad)
  BY <1>1, <1>3 DEF Told
<1>4. ASSUME Own(routes, j) PROVE Own(routes', k)
  <2>1. k.code # 0 /\ k.code # Garbage /\ k.code # searches + 1
    BY <1>s, <1>2 DEF Garbage
  <2>2. ASSUME NEW v \in Users, NEW w \in Users, routes'[v][w].code = k.code
        PROVE  routes[v][w].code = k.code
    BY <2>1, <2>2
  <2> QED BY <1>1, <1>4, <2>2 DEF Own
<1>5. k.code <= searches'
  BY <1>s, <1>2
<1> QED BY <1>3, <1>4, <1>5 DEF HInv, NetIsHonest, Honest

(* The same for whole states: net with copies and new messages, routes.    *)
LEMMA HonestNet ==
  ASSUME HInv, told \subseteq told', searches <= searches', searches' \in Nat,
         \A v, w \in Users : routes'[v][w].code \in {routes[v][w].code, 0, Garbage}
                                                  \cup {searches + 1},
         \A k \in net' : \/ Honest(k, routes', told', searches')
                         \/ \E j \in net : Copy(k, j)
  PROVE  NetIsHonest'
<1>1. ASSUME NEW k \in net' PROVE Honest(k, routes', told', searches')
  BY HonestKeeps
<1> QED BY <1>1 DEF NetIsHonest

LEMMA InitHInv == Init => HInv
<1> SUFFICES ASSUME Init PROVE HInv
  OBVIOUS
<1>1. WInv
  BY InitWInv
<1>2. HandlersAnswer /\ NetIsHonest
  BY DEF Init, HandlersAnswer, NetIsHonest
<1>3. CodesAreOld /\ AddressIsTold
  BY DEF Init, NoRoute, Fresh, CodesAreOld, AddressIsTold
<1> QED BY <1>1, <1>2, <1>3 DEF HInv

LEMMA HStep == HInv /\ [Next]_vars => HInv'
<1> SUFFICES ASSUME HInv, [Next]_vars
             PROVE  HandlersAnswer' /\ NetIsHonest' /\ CodesAreOld' /\ AddressIsTold'
  BY WStep DEF HInv
<1>s. /\ searches \in Nat /\ api \in [Users -> Users \cup {None}]
      /\ routes \in [Users -> [Users -> Route]]
      /\ handler \in [Handlers -> Message \cup {None}]
      /\ HandlersAnswer /\ NetIsHonest /\ CodesAreOld /\ AddressIsTold /\ WInv
  BY FindAssumption DEF HInv, WInv, TypeOK
<1>m. \A m \in net : /\ m \in Message /\ m.code \in Code /\ m.code <= searches
                      /\ m.src \in Users
  <2>1. net \subseteq Message
    BY <1>s DEF WInv, TypeOK
  <2> QED BY <1>s, <2>1 DEF Message, NetIsHonest, Honest
<1>c. \A u, t \in Users : /\ routes[u][t] \in Route
                            /\ routes[u][t].code \in Int /\ routes[u][t].code <= searches
  <2>1. ASSUME NEW r \in Route PROVE r.code \in Int
    BY FindAssumption DEF Route, Code, Garbage
  <2> QED BY <1>s, <2>1 DEF CodesAreOld
<1>1. ASSUME NEW u \in Users, find_start(u)
      PROVE  HandlersAnswer' /\ NetIsHonest' /\ CodesAreOld' /\ AddressIsTold'
  <2>1. /\ api[u] \in Users /\ searches' = searches + 1 /\ searches + 1 \in Nat
        /\ handler' = handler /\ told' = told /\ searches <= searches'
    BY <1>s, <1>1 DEF find_start
  <2>2. PICK c \in {searches + 1, Garbage} : add(u, api[u], c, "PROGRESS")
    BY <1>1 DEF find_start
  <2>3. ASSUME NEW v \in Users, NEW w \in Users
        PROVE  \/ /\ routes'[v][w].code = routes[v][w].code
                  /\ routes'[v][w].node = routes[v][w].node
               \/ v = u /\ routes'[v][w].code = c /\ routes'[v][w].node = NoNode
    BY <1>s, <2>1, <2>2, AddKeeps
  <2>4. HandlersAnswer'
    <3>1. ASSUME NEW h \in Handlers, handler[h] # None PROVE handler[h].code <= searches + 1
      <4>1. handler[h] \in Message /\ handler[h].code <= searches
        BY <1>s, <3>1 DEF HandlersAnswer
      <4>2. handler[h].code \in Nat
        BY <4>1, FindAssumption DEF Message, Code
      <4> QED BY <1>s, <4>1, <4>2
    <3> QED BY <1>s, <2>1, <3>1 DEF HandlersAnswer
  <2>5. CodesAreOld'
    <3>1. c \in Int /\ c <= searches + 1
      BY <1>s DEF Garbage
    <3>2. ASSUME NEW v \in Users, NEW w \in Users PROVE routes'[v][w].code <= searches + 1
      <4>1. CASE routes'[v][w].code = routes[v][w].code
        <5>1. routes[v][w].code \in Int /\ routes[v][w].code <= searches
          BY <1>c
        <5> QED BY <1>s, <4>1, <5>1
      <4>2. CASE routes'[v][w].code = c
        BY <3>1, <4>2
      <4> QED BY <2>3, <4>1, <4>2
    <3> QED BY <2>1, <3>2 DEF CodesAreOld
  <2>6. AddressIsTold'
    BY <1>s, <2>1, <2>3 DEF AddressIsTold
  <2>7. NetIsHonest'
    <3> DEFINE b == Request(u, father[u], api[u], searches + 1, father[u])
    <3>1. net' \subseteq net \cup {b}
      BY <1>1, <2>1 DEF find_start
    <3>2. b.code = searches + 1 /\ b.src = u
      BY DEF Request
    <3>3. Own(routes', b)
      <4>1. ASSUME NEW v \in Users, NEW w \in Users, routes'[v][w].code = searches + 1
            PROVE  v = u
        BY <1>s, <1>c, <2>3, <4>1
      <4> QED BY <3>2, <4>1 DEF Own
    <3>4. \A k \in net' : k = b \/ \E j \in net : Copy(k, j)
      BY <3>1 DEF Copy
    <3>5. Honest(b, routes', told', searches')
      BY <2>1, <3>2, <3>3 DEF Honest
    <3>6. \A v, w \in Users : routes'[v][w].code \in {routes[v][w].code, 0, Garbage}
                                                     \cup {searches + 1}
      BY <2>3
    <3> HIDE DEF b
    <3> QED BY <2>1, <3>4, <3>5, <3>6, HonestNet
  <2> QED BY <2>4, <2>5, <2>6, <2>7

(* A delivery or a loss that leaves the routes alone.                      *)
<1>2. ASSUME Deliver \/ Lose, UNCHANGED <<routes, told, searches>>, HandlersAnswer'
      PROVE  HandlersAnswer' /\ NetIsHonest' /\ CodesAreOld' /\ AddressIsTold'
  <2>1. NetIsHonest'
    <3>1. \A k \in net' : \E j \in net : Copy(k, j)
      BY <1>s, <1>2, CopiesOnly
    <3> QED BY <1>s, <1>2, <3>1, HonestNet
  <2> QED BY <1>s, <1>2, <2>1 DEF CodesAreOld, AddressIsTold
<1>3. ASSUME NEW m \in net, NEW h \in Handlers, NEW u \in Users, UserRequest(h, u, m)
      PROVE  HandlersAnswer' /\ NetIsHonest' /\ CodesAreOld' /\ AddressIsTold'
  <2>1. HandlersAnswer'
    BY <1>s, <1>m, <1>3 DEF UserRequest, HandlersAnswer
  <2>2. Deliver
    BY <1>3 DEF Deliver
  <2>3. CASE routes' = routes
    BY <1>2, <1>3, <2>1, <2>2, <2>3 DEF UserRequest
  <2>4. CASE routes' # routes
    <3>1. m.who = u /\ upd(u, m.src, m.code, m.dad) /\ told' = told /\ searches' = searches
      BY <1>3, <2>4 DEF UserRequest
    <3>2. ASSUME NEW v \in Users, NEW w \in Users
          PROVE  /\ routes'[v][w].code = routes[v][w].code
                 /\ \/ routes'[v][w].node = routes[v][w].node
                    \/ /\ v = u /\ w = m.src /\ routes[v][w].code = m.code
                       /\ routes'[v][w].node = m.dad
      BY <1>s, <1>m, <3>1, UpdKeeps
    <3>3. NetIsHonest'
      <4>1. \A k \in net' : \E j \in net : Copy(k, j)
        BY <1>s, <2>2, CopiesOnly
      <4> QED BY <1>s, <3>1, <3>2, <4>1, HonestNet
    <3>4. CodesAreOld'
      BY <1>s, <3>1, <3>2 DEF CodesAreOld
    <3>5. AddressIsTold'
      <4>1. ASSUME routes[u][m.src].code = m.code, u # m.src
            PROVE  Told(told, u, m.src, m.code, m.dad)
        <5>1. ~Own(routes, m)
          BY <1>m, <3>1, <4>1 DEF Own
        <5> QED BY <1>s, <3>1, <5>1 DEF NetIsHonest, Honest
      <4>2. ASSUME NEW v \in Users, NEW w \in Users, v # w, routes'[v][w].node # NoNode
            PROVE  Told(told, v, w, routes'[v][w].code, routes'[v][w].node)
        BY <1>s, <3>2, <4>1, <4>2 DEF AddressIsTold
      <4> QED BY <3>1, <4>2 DEF AddressIsTold
    <3> QED BY <2>1, <3>3, <3>4, <3>5
  <2> QED BY <2>3, <2>4
<1>4. ASSUME NEW h \in Handlers, Answer(h)
      PROVE  HandlersAnswer' /\ NetIsHonest' /\ CodesAreOld' /\ AddressIsTold'
  <2> DEFINE m == handler[h]
             d == IF father[m.to] = NoNode THEN m.dad ELSE father[m.to]
             b == Request(m.to, m.from, m.src, m.code, d)
             a == [by |-> m.to, to |-> m.src, code |-> m.code, node |-> father[m.to]]
  <2>1. /\ m \in Message /\ m.to \in Users /\ m.src \in Users
        /\ m.code <= searches
    BY <1>s, <1>4 DEF Answer, HandlersAnswer, Message
  <2>2. /\ net' = net \cup {b} /\ routes' = routes
        /\ told' = told \cup {a} /\ searches' = searches
        /\ handler' = [handler EXCEPT ![h] = None]
    BY <1>4 DEF Answer
  <2>4. HandlersAnswer'
    BY <1>s, <2>2 DEF HandlersAnswer
  <2>5. CodesAreOld'
    BY <1>s, <2>2 DEF CodesAreOld
  <2>6. AddressIsTold'
    <3> HIDE DEF a
    <3> QED BY <1>s, <2>2 DEF AddressIsTold, Told
  <2>7. NetIsHonest'
    <3>1. b.code = m.code /\ b.src = m.to /\ b.who = m.src /\ b.dad = d
      BY DEF Request
    <3>2. a.by = b.src /\ a.to = b.who /\ a.code = b.code /\ a.node \in {b.dad, NoNode}
      BY <3>1
    <3>3. Told(told', b.who, b.src, b.code, b.dad)
      <4> HIDE DEF a, b
      <4> QED BY <2>2, <3>2 DEF Told
    <3>4. Honest(b, routes', told', searches')
      <4> HIDE DEF a, b
      <4> QED BY <2>1, <2>2, <3>1, <3>3 DEF Honest
    <3>5. \A k \in net' : k = b \/ \E j \in net : Copy(k, j)
      BY <2>2 DEF Copy
    <3>6. /\ told \subseteq told' /\ searches <= searches' /\ searches' \in Nat
          /\ \A v, w \in Users : routes'[v][w].code \in {routes[v][w].code, 0, Garbage}
                                                       \cup {searches + 1}
      BY <1>s, <2>2
    <3> HIDE DEF a, b
    <3> QED BY <3>4, <3>5, <3>6, HonestNet
  <2> QED BY <2>4, <2>5, <2>6, <2>7
<1>12. ASSUME NEW h \in Handlers, AddSearcher(h)
       PROVE  HandlersAnswer' /\ NetIsHonest' /\ CodesAreOld' /\ AddressIsTold'
  <2>1. answered[h] \in Users \X Users
    BY <1>12 DEF AddSearcher, HInv, WInv, TypeOK
  <2>2. UNCHANGED <<handler, net, searches, told>>
    BY <1>12 DEF AddSearcher
  <2>3. ASSUME NEW v \in Users, NEW w \in Users
        PROVE  \/ /\ routes'[v][w].code = routes[v][w].code
                  /\ routes'[v][w].node = routes[v][w].node
               \/ routes'[v][w].code = 0 /\ routes'[v][w].node = NoNode
    BY <1>s, <1>12, <2>1, AddKeeps DEF AddSearcher
  <2>4. HandlersAnswer'
    BY <1>s, <2>2 DEF HandlersAnswer
  <2>5. CodesAreOld'
    BY <1>s, <1>c, <2>2, <2>3 DEF CodesAreOld
  <2>6. AddressIsTold'
    BY <1>s, <2>2, <2>3 DEF AddressIsTold
  <2>7. NetIsHonest'
    <3>1. \A k \in net' : \E j \in net : Copy(k, j)
      BY <2>2 DEF Copy
    <3> QED BY <1>s, <2>2, <2>3, <3>1, HonestNet
  <2> QED BY <2>4, <2>5, <2>6, <2>7
<1>5. ASSUME NEW u \in Users, check(u)
      PROVE  HandlersAnswer' /\ NetIsHonest' /\ CodesAreOld' /\ AddressIsTold'
  <2>1. UNCHANGED <<handler, net, searches, told>>
    BY <1>5 DEF check
  <2>2. ASSUME NEW v \in Users, NEW w \in Users
        PROVE  /\ routes'[v][w].code \in {routes[v][w].code, 0}
               /\ routes'[v][w].node \in {routes[v][w].node, NoNode}
               /\ routes'[v][w].node = NoNode \/ routes'[v][w].code = routes[v][w].code
    <3>1. routes[v][w] \in Route
      BY <1>c
    <3>2. routes'[v][w] \in {routes[v][w], Checked(routes[v][w])}
      BY <1>s, <1>5 DEF check
    <3> QED BY <3>1, <3>2, CheckedType DEF Route
  <2>3. HandlersAnswer'
    BY <1>s, <2>1 DEF HandlersAnswer
  <2>4. CodesAreOld'
    <3>1. ASSUME NEW v \in Users, NEW w \in Users PROVE routes'[v][w].code <= searches
      <4>1. routes'[v][w].code = routes[v][w].code \/ routes'[v][w].code = 0
        BY <2>2
      <4>2. routes[v][w].code <= searches /\ 0 <= searches
        BY <1>s, <1>c
      <4> QED BY <4>1, <4>2
    <3> QED BY <2>1, <3>1 DEF CodesAreOld
  <2>5. AddressIsTold'
    BY <1>s, <2>1, <2>2 DEF AddressIsTold
  <2>6. NetIsHonest'
    <3>1. \A k \in net' : \E j \in net : Copy(k, j)
      BY <2>1 DEF Copy
    <3> QED BY <1>s, <2>1, <2>2, <3>1, HonestNet
  <2> QED BY <2>3, <2>4, <2>5, <2>6
<1>6. ASSUME NEW u \in Users, NEW t \in Users, Age(u, t)
      PROVE  HandlersAnswer' /\ NetIsHonest' /\ CodesAreOld' /\ AddressIsTold'
  <2>1. UNCHANGED <<handler, net, searches, told>>
    BY <1>6 DEF Age
  <2>2. ASSUME NEW v \in Users, NEW w \in Users
        PROVE  /\ routes'[v][w].code = routes[v][w].code
               /\ routes'[v][w].node = routes[v][w].node
    <3>1. PICK g : routes' = [routes EXCEPT ![u][t] = [routes[u][t] EXCEPT !.age = g]]
      BY <1>6 DEF Age
    <3>2. /\ [routes[u][t] EXCEPT !.age = g].code = routes[u][t].code
          /\ [routes[u][t] EXCEPT !.age = g].node = routes[u][t].node
      <4>1. routes[u][t] \in Route
        BY <1>c
      <4> QED BY <4>1 DEF Route
    <3> QED BY <1>s, <3>1, <3>2
  <2>3. NetIsHonest'
    BY <1>s, <2>1, <2>2 DEF NetIsHonest, Honest, Own
  <2> QED BY <1>s, <2>1, <2>2, <2>3 DEF HandlersAnswer, CodesAreOld, AddressIsTold
<1>7. ASSUME UNCHANGED <<routes, handler, net, searches, told>>
      PROVE  HandlersAnswer' /\ NetIsHonest' /\ CodesAreOld' /\ AddressIsTold'
  BY <1>s, <1>7 DEF HandlersAnswer, NetIsHonest, CodesAreOld, AddressIsTold
<1>8. ASSUME \/ \E u \in Users : Move(u) \/ \E t \in Users : find_request(u, t)
             \/ \E n \in Nodes : allow_expires(n) \/ Relink(n)
             \/ UNCHANGED vars
      PROVE  UNCHANGED <<routes, handler, net, searches, told>>
  BY <1>8 DEF Move, find_request, allow_expires, Relink, vars
<1>9. ASSUME NEW m \in net, NEW n \in Nodes, NodeRequest(n, m)
      PROVE  HandlersAnswer' /\ NetIsHonest' /\ CodesAreOld' /\ AddressIsTold'
  <2>1. UNCHANGED <<routes, told, searches, handler>>
    BY <1>9 DEF NodeRequest
  <2>2. HandlersAnswer' /\ Deliver
    BY <1>s, <1>9, <2>1 DEF HandlersAnswer, Deliver
  <2> QED BY <1>2, <2>1, <2>2
<1>10. ASSUME Lose
       PROVE  HandlersAnswer' /\ NetIsHonest' /\ CodesAreOld' /\ AddressIsTold'
  <2>1. UNCHANGED <<routes, told, searches, handler>>
    BY <1>10 DEF Lose
  <2>2. HandlersAnswer'
    BY <1>s, <2>1 DEF HandlersAnswer
  <2> QED BY <1>2, <1>10, <2>1, <2>2
<1>11. Searchers \subseteq Users
  BY FindAssumption
<1> QED
  BY <1>1, <1>11, <1>12, <1>3, <1>4, <1>5, <1>6, <1>7, <1>8, <1>9, <1>10
  DEF Next, Deliver

-----------------------------------------------------------------------------
LEMMA HInvHolds == Spec => []HInv
<1> QED BY InitHInv, HStep, PTL DEF Spec

(* The model of a search keeps its types.                                  *)
THEOREM TypeCorrect == Spec => []TypeOK
<1>1. HInv => TypeOK
  BY DEF HInv, WInv
<1> QED BY <1>1, HInvHolds, PTL

(* find_router::request never sends a search back to a node it has passed, *)
(* for all keys, ties included, and however often fathers and clients of   *)
(* the nodes change while it is under way.                                 *)
THEOREM WalksNeverLoop == Spec => []NoLoop
<1>1. ASSUME HInv, NEW m \in net, m.to \in m.seen PROVE FALSE
  <2>1. m \in Message
    BY <1>1 DEF HInv, WInv, TypeOK
  <2>2. m.to \in Nodes /\ m.to \in Hash /\ m.who \in Hash
    BY <1>1, <2>1, FindAssumption DEF Message
  <2>3. Closer(m.who, m.to, m.to)
    BY <1>1, <2>2 DEF HInv, WInv, Nearing
  <2> QED BY <2>2, <2>3, CloserAsymmetric
<1>2. HInv => NoLoop
  BY <1>1 DEF NoLoop
<1> QED BY <1>2, HInvHolds, PTL

(* An address that routes_handler::upd stores was sent by the user that is *)
(* searched for, in answer to the search the entry belongs to.             *)
THEOREM AnswersAreGenuine == Spec => []FoundIsAnswered
<1>1. HInv => FoundIsAnswered
  BY DEF HInv, AddressIsTold, Told, FoundIsAnswered
<1> QED BY <1>1, HInvHolds, PTL

=============================================================================
