-------------------------------- MODULE Join --------------------------------
(***************************************************************************)
(* How peers form the overlay: a peer asks the nearest node it knows for   *)
(* fathers (REQ_FATHER), adopts one after enough answers (RES_FATHER),     *)
(* asks it for a role (REQ_ROLE, RES_ROLE) and then pings it, which makes  *)
(* it a client of its father and lets others learn of it.                  *)
(*                                                                         *)
(* One peer's threads are the subject of Father; here each handler and     *)
(* each turn of a loop is one step, and the peers and the datagrams        *)
(* between them interleave.  A datagram can be lost, delayed, overtaken    *)
(* and, with Duplicates, delivered again.                                  *)
(*                                                                         *)
(* A packet without effect at any receiver is left out: the DOS with which *)
(* a node without a father answers (network.cpp:49-52 ignores it), and     *)
(* RES_ROLE to a peer that has a role.  structs::nodes has its 100 entries *)
(* free.                                                                   *)
(*                                                                         *)
(* Definitions ending in _Wrong are deliberate defects; each is put in the *)
(* place of the definition after it to see that a property notices.        *)
(***************************************************************************)
EXTENDS HashSpace, FiniteSets

CONSTANTS
    Peers,      \* the peers, by their public keys
    Seeds,      \* peers that are already nodes with a father
    Users,      \* peers configured as users (database variable UDP_USER)
    Reachable,  \* peers whose packets come from UDP_PORT itself
    Bootstrap,  \* the `nodes` table each peer starts with
    NoPeer,
    Active,     \* peers whose own steps are modelled; the others answer
    Duplicates, \* whether the network repeats datagrams
    Losses,     \* whether it loses them
    Pings,      \* whether peers that have a role ping their father
    Stuck,      \* peers that know each other nearest (see StuckAssumption)
    CONFIRM,    \* attempts a candidate needs (3 in the code)
    ATTEMPTS,   \* transmissions of a request (3 in the code)
    MaxFaults,  \* bound on father timeouts and restarts
    MaxNet      \* datagrams the network holds before it drops new ones

ASSUME JoinAssumption ==
    /\ Peers \subseteq Hash
    /\ NoPeer \notin Peers
    /\ Seeds \subseteq Reachable \ Users
    /\ Users \subseteq Peers /\ Reachable \subseteq Peers
    /\ Bootstrap \in [Peers -> SUBSET Peers]
    /\ \A p \in Peers : Bootstrap[p] # {} /\ p \notin Bootstrap[p]
    /\ Active \subseteq Peers
    /\ CONFIRM \in Nat \ {0}
    /\ ATTEMPTS \in Nat \ {0}
    /\ Duplicates \in BOOLEAN /\ Losses \in BOOLEAN /\ Pings \in BOOLEAN
    /\ MaxFaults \in Nat /\ MaxNet \in Nat

(* Every node that a stuck peer could find nearest in its table is stuck   *)
(* too.  Without seeds, all peers are.                                     *)
ASSUME StuckAssumption ==
    /\ Stuck \subseteq Peers \ Seeds
    /\ \A p \in Stuck : Nearest(p, Bootstrap[p]) \subseteq Stuck

VARIABLES
    role,       \* structs::role of each peer
    nodes,      \* structs::nodes, as a set
    father,     \* structs::father: info.hash if status, else NoPeer
    dad,        \* father_router::dad if its status, else NoPeer
    attempts,   \* father_router::attempts, kept at CONFIRM once there
    asking,     \* whom the REQ_FATHER seen by tasks.exists goes to
    tries,      \* how often it was sent: udp_task.attempts
    clients,    \* structs::clients that are nodes
    exited,     \* exit(1) was called
    net,        \* datagrams under way
    faults,     \* father timeouts and restarts so far
    members     \* history: peers that have had the role of a node

vars == <<role, nodes, father, dad, attempts, asking, tries, clients, exited, net, faults, members>>

MaybePeer == Peers \cup {NoPeer}

(* main(): the role of a peer that starts.                                 *)
StartRole(p) == IF p \in Users THEN "USER" ELSE "NONE"

Message ==
    [type : {"REQ_FATHER", "REQ_ROLE", "NODE_PING", "USER_PING", "PONG"}, from : Peers, to : Peers]
      \cup [type : {"RES_FATHER"}, from : Peers, to : Peers, list : SUBSET Peers]
      \cup [type : {"RES_ROLE"}, from : Peers, to : Peers, role : {"NODE", "USER"}]

TypeOK ==
    /\ role \in [Peers -> {"NONE", "NODE", "USER"}]
    /\ nodes \in [Peers -> SUBSET Peers]
    /\ father \in [Peers -> MaybePeer]
    /\ dad \in [Peers -> MaybePeer]
    /\ attempts \in [Peers -> 0..CONFIRM]
    /\ asking \in [Peers -> MaybePeer]
    /\ tries \in [Peers -> 0..ATTEMPTS]
    /\ clients \in [Peers -> SUBSET Peers]
    /\ exited \in [Peers -> BOOLEAN]
    /\ net \subseteq Message
    /\ faults \in 0..MaxFaults
    /\ members \subseteq Peers
    /\ \A p \in Peers : p \notin nodes[p] /\ father[p] # p

Init ==
    /\ role = [p \in Peers |-> IF p \in Seeds THEN "NODE" ELSE StartRole(p)]
    /\ nodes = Bootstrap
    /\ father \in [Peers -> MaybePeer]
    /\ \A p \in Peers : IF p \in Seeds THEN father[p] \in Seeds \ {p} ELSE father[p] = NoPeer
    /\ dad = [p \in Peers |-> NoPeer]
    /\ attempts = [p \in Peers |-> 0]
    /\ asking = [p \in Peers |-> NoPeer]
    /\ tries = [p \in Peers |-> 0]
    /\ clients = [p \in Peers |-> {}]
    /\ exited = [p \in Peers |-> FALSE]
    /\ net = {} /\ faults = 0 /\ members = Seeds

-----------------------------------------------------------------------------
(* New datagrams are dropped when the network is full.                     *)
Transmit(base, out) ==
    net' = IF Cardinality(base \cup out) <= MaxNet THEN base \cup out ELSE base

Send(m) == Transmit(net, {m})

(* What is left of the network when m has been handled and `out` sent.     *)
Consume(m, out) ==
    \/ Transmit(net \ {m}, out)
    \/ Duplicates /\ Transmit(net, out)

(* nodes_handler::add, by a peer that is never its own node.               *)
NodesAdd_Wrong(p, S) == [nodes EXCEPT ![p] = @ \cup S]
NodesAdd(p, S) == [nodes EXCEPT ![p] = @ \cup (S \ {p})]

(* ... and by clients_handler::reg, which a node calls for every packet,   *)
(* if a node sent it that is not a client already.                         *)
Registers_Wrong(p, m) == role[p] = "NODE"
Registers(p, m) ==
    /\ role[p] = "NODE" /\ m.from \in Reachable
    /\ m.type \in {"NODE_PING", "PONG"}

NodesReg(p, m) ==
    IF Registers(p, m) /\ m.from \notin clients[p] THEN NodesAdd(p, {m.from}) ELSE nodes

(* father_handler::check: ask the nearest node, and first drop a father    *)
(* that is farther than it.                                                *)
Check(p) ==
    /\ ~exited[p] /\ asking[p] = NoPeer /\ nodes[p] # {}
    /\ \E near \in Nearest(p, nodes[p]) :
          /\ asking' = [asking EXCEPT ![p] = near]
          /\ tries' = [tries EXCEPT ![p] = 0]
          /\ IF father[p] # NoPeer /\ cmp(p, father[p], near) = 2
             THEN /\ nodes' = [nodes EXCEPT ![p] = @ \ {father[p]}]
                  /\ father' = [father EXCEPT ![p] = NoPeer]
             ELSE UNCHANGED <<nodes, father>>
    /\ UNCHANGED <<role, dad, attempts, clients, exited, net, faults, members>>

(* nearest() on an empty list, in the check or in a handler.               *)
Exit(p) ==
    /\ ~exited[p] /\ nodes[p] = {}
    /\ asking[p] = NoPeer \/ \E m \in net : m.type = "RES_FATHER" /\ m.to = p
    /\ exited' = [exited EXCEPT ![p] = TRUE]
    /\ UNCHANGED <<role, nodes, father, dad, attempts, asking, tries, clients, net, faults, members>>

(* send_thread transmits the queued REQ_FATHER; after its last attempt it  *)
(* no longer counts for tasks.exists.                                      *)
SendRequest(p) ==
    /\ ~exited[p] /\ asking[p] # NoPeer
    /\ Send([type |-> "REQ_FATHER", from |-> p, to |-> asking[p]])
    /\ tries' = [tries EXCEPT ![p] = @ + 1]
    /\ asking' = [asking EXCEPT ![p] = IF tries'[p] < ATTEMPTS THEN @ ELSE NoPeer]
    /\ UNCHANGED <<role, nodes, father, dad, attempts, clients, exited, faults, members>>

(* send_thread: REQ_ROLE while there is a father and no role, pings once   *)
(* there is a role.                                                        *)
SendToFather(p) ==
    /\ ~exited[p] /\ father[p] # NoPeer /\ (role[p] = "NONE" \/ Pings)
    /\ Send([type |-> CASE role[p] = "NONE" -> "REQ_ROLE"
                          [] role[p] = "NODE" -> "NODE_PING"
                          [] role[p] = "USER" -> "USER_PING",
             from |-> p, to |-> father[p]])
    /\ UNCHANGED <<role, nodes, father, dad, attempts, asking, tries, clients, exited, faults, members>>

(* send_thread: no packet of the father for 15 s (no_father).              *)
FatherLost(p) ==
    /\ ~exited[p] /\ father[p] # NoPeer /\ faults < MaxFaults
    /\ nodes' = [nodes EXCEPT ![p] = @ \ {father[p]}]
    /\ father' = [father EXCEPT ![p] = NoPeer]
    /\ faults' = faults + 1
    /\ UNCHANGED <<role, dad, attempts, asking, tries, clients, exited, net, members>>

(* The process ends and is started again: main() and nodes_handler::select *)
(* find the keys and the node table in the database, everything else is    *)
(* lost.  With an empty table it would exit at once.                       *)
Restart(p) ==
    /\ faults < MaxFaults /\ nodes[p] # {}
    /\ faults' = faults + 1
    /\ role' = [role EXCEPT ![p] = StartRole(p)]
    /\ father' = [father EXCEPT ![p] = NoPeer]
    /\ dad' = [dad EXCEPT ![p] = NoPeer]
    /\ attempts' = [attempts EXCEPT ![p] = 0]
    /\ asking' = [asking EXCEPT ![p] = NoPeer]
    /\ tries' = [tries EXCEPT ![p] = 0]
    /\ clients' = [clients EXCEPT ![p] = {}]
    /\ exited' = [exited EXCEPT ![p] = FALSE]
    /\ UNCHANGED <<nodes, net, members>>

(* clients_handler::check: no ping of a client for 8 s.                    *)
ClientLost(p) ==
    /\ ~exited[p]
    /\ \E q \in clients[p] : clients' = [clients EXCEPT ![p] = @ \ {q}]
    /\ UNCHANGED <<role, nodes, father, dad, attempts, asking, tries, exited, net, faults, members>>

-----------------------------------------------------------------------------
(* udp_network::handling, by type and by the receiver's role.              *)

(* A node answers nothing but RES_FATHER while it has no father            *)
(* (handler.cpp:11-15); other peers answer none of these requests.         *)
Answers_Wrong(p) == TRUE
Answers(p) == role[p] = "NODE" /\ father[p] # NoPeer

(* father_router::request: one packet with the clients that are nodes and  *)
(* the father, and one without a list.                                     *)
HandleReqFather(p, m) ==
    /\ m.type = "REQ_FATHER" /\ m.to = p /\ ~exited[p]
    /\ LET answer(l) == [type |-> "RES_FATHER", from |-> p, to |-> m.from, list |-> l]
       IN  Consume(m, IF Answers(p)
                      THEN {answer(clients[p] \cup ({father[p]} \cap Peers)), answer({})}
                      ELSE {})
    /\ UNCHANGED <<role, nodes, father, dad, attempts, asking, tries, clients, exited, faults, members>>

(* father_router::attempts after an answer of q.                           *)
Count_Wrong(p, q) == IF dad[p] = q THEN attempts[p] ELSE 0
Count(p, q) ==
    IF dad[p] # q THEN 0
    ELSE IF attempts[p] < CONFIRM THEN attempts[p] + 1 ELSE CONFIRM

(* father_router::response, in every role.                                 *)
HandleResFather(p, m) ==
    LET count == Count(p, m.from)
    IN  /\ m.type = "RES_FATHER" /\ m.to = p /\ ~exited[p] /\ nodes[p] # {}
        /\ \E near \in Nearest(p, nodes[p]) :
              LET adopt == count >= CONFIRM /\ near = m.from
              IN  /\ dad' = [dad EXCEPT ![p] = IF adopt THEN NoPeer ELSE m.from]
                  /\ attempts' = [attempts EXCEPT ![p] = IF adopt THEN 0 ELSE count]
                  /\ father' = [father EXCEPT ![p] =
                        IF adopt /\ m.from # p /\ (@ = NoPeer \/ cmp(p, m.from, @) = 1)
                        THEN m.from ELSE @]
        /\ asking' \in {asking, IF asking[p] = m.from THEN [asking EXCEPT ![p] = NoPeer] ELSE asking}
        /\ nodes' = NodesAdd(p, {m.from} \cup m.list)
        /\ Consume(m, {})
        /\ UNCHANGED <<role, tries, clients, exited, faults, members>>

(* handler::node, REQ_ROLE: the role follows from the port the packet came *)
(* from.                                                                   *)
HandleReqRole(p, m) ==
    /\ m.type = "REQ_ROLE" /\ m.to = p /\ ~exited[p]
    /\ Consume(m, IF Answers(p)
                  THEN {[type |-> "RES_ROLE", from |-> p, to |-> m.from,
                         role |-> IF m.from \in Reachable THEN "NODE" ELSE "USER"]}
                  ELSE {})
    /\ UNCHANGED <<role, nodes, father, dad, attempts, asking, tries, clients, exited, faults, members>>

HandleResRole(p, m) ==
    /\ m.type = "RES_ROLE" /\ m.to = p /\ ~exited[p]
    /\ role' = [role EXCEPT ![p] = IF @ = "NONE" THEN m.role ELSE @]
    /\ members' = IF role'[p] = "NODE" THEN members \cup {p} ELSE members
    /\ Consume(m, {})
    /\ UNCHANGED <<nodes, father, dad, attempts, asking, tries, clients, exited, faults>>

(* clients_handler::reg registers a node that pings, before the test for a *)
(* father; then the answer.                                                *)
HandlePing(p, m) ==
    /\ m.type \in {"NODE_PING", "USER_PING"} /\ m.to = p /\ ~exited[p]
    /\ nodes' = NodesReg(p, m)
    /\ clients' = IF Registers(p, m) THEN [clients EXCEPT ![p] = @ \cup {m.from}] ELSE clients
    /\ Consume(m, IF Answers(p) THEN {[type |-> "PONG", from |-> p, to |-> m.from]} ELSE {})
    /\ UNCHANGED <<role, father, dad, attempts, asking, tries, exited, faults, members>>

(* A ping answer keeps the father (see FatherLost) and makes a node        *)
(* register the sender.                                                    *)
HandlePong(p, m) ==
    /\ m.type = "PONG" /\ m.to = p /\ ~exited[p]
    /\ nodes' = NodesReg(p, m)
    /\ Consume(m, {})
    /\ UNCHANGED <<role, father, dad, attempts, asking, tries, clients, exited, faults, members>>

(* The network loses a datagram.                                           *)
Lose ==
    /\ Losses
    /\ \E m \in net : net' = net \ {m}
    /\ UNCHANGED <<role, nodes, father, dad, attempts, asking, tries, clients, exited, faults, members>>

Handle(p, m) ==
    \/ HandleReqFather(p, m) \/ HandleResFather(p, m)
    \/ HandleReqRole(p, m) \/ HandleResRole(p, m)
    \/ HandlePing(p, m) \/ HandlePong(p, m)

Step(p) ==
    \/ Check(p) \/ Exit(p) \/ SendRequest(p)
    \/ SendToFather(p) \/ FatherLost(p) \/ Restart(p)

Next ==
    \/ \E p \in Active : Step(p)
    \/ \E p \in Peers : ClientLost(p)
    \/ \E p \in Peers, m \in net : Handle(p, m)
    \/ Lose

Spec == Init /\ [][Next]_vars

(* The loops of the active peers run for ever.  That datagrams of each     *)
(* type reach their receiver is assumed, not a promise of UDP: the runs    *)
(* that use it have no losses, and room for all datagrams.                 *)
FairSpec ==
    /\ Spec
    /\ \A p \in Active : /\ WF_vars(Check(p)) /\ WF_vars(SendRequest(p))
                         /\ WF_vars(SendToFather(p))
    /\ \A p \in Peers : /\ WF_vars(\E m \in net : HandleReqFather(p, m))
                        /\ WF_vars(\E m \in net : HandleResFather(p, m))
                        /\ WF_vars(\E m \in net : HandleReqRole(p, m))
                        /\ WF_vars(\E m \in net : HandleResRole(p, m))

-----------------------------------------------------------------------------
(* Properties                                                              *)

(* Whatever is lost, repeated or restarted, a father, and every node a     *)
(* peer did not start with, is a peer that has had the role of a node: no  *)
(* packet makes a mere user, or a peer that never joined, one that others  *)
(* route through.                                                          *)
OnlyMembersServe ==
    \A p \in Peers : /\ father[p] # NoPeer => father[p] \in members
                     /\ nodes[p] \subseteq Bootstrap[p] \cup members
                     /\ clients[p] \subseteq members

(* Peers whose nearest known nodes are all among themselves stay outside,  *)
(* even if their tables list nodes of a working network: only a node with  *)
(* a father answers REQ_FATHER, and a peer asks nobody but the nearest.    *)
(* With no seeds this says that a network never starts.                    *)
StuckStayOut ==
    \A p \in Stuck : father[p] = NoPeer /\ role[p] = StartRole(p) /\ nodes[p] = Bootstrap[p]

(* A peer that is not stuck gets a father and then a role, provided its    *)
(* datagrams arrive: answers of other nodes and of earlier requests cannot *)
(* reset its count of confirmations for ever.                              *)
EveryoneJoins ==
    \A p \in Active \ Stuck : <>(father[p] # NoPeer /\ role[p] # "NONE")
=============================================================================
