------------------------------ MODULE Tunnels ------------------------------
(***************************************************************************)
(* The TCP tunnels of one process: structs::tunnels and tunnels_handler    *)
(* (src/src/storage/tunnels.cpp) with the ports they need, between the     *)
(* handler threads and the check thread.                                   *)
(*                                                                         *)
(* A user that is told of a message for it (REQ_MSG) creates a tunnel,     *)
(* picks a node that is not its father and names a port to it.  The check  *)
(* thread visits the tunnels under tunnels_handler::mute: once the node    *)
(* has named that port back (NODE_REQ_PORT; a user ignores RES_PORT) it    *)
(* connects; if the port has expired it tries another node; a tunnel that  *)
(* did not start in 20 s or whose relay has ended is erased and deleted.   *)
(* A node agrees on ports and has no tunnels: nothing calls node_create.   *)
(* All tunnels are those of a receiver (TCP_TARGET), for the same reason.  *)
(*                                                                         *)
(* The vector of tunnels is `tunnels`, followed in memory by `past`: the   *)
(* slots that erasing in the middle of a pass has left behind its end,     *)
(* which the pass still visits because it keeps the size it began with.    *)
(* Where it reads a deleted tunnel or erases past the end, nothing is      *)
(* known of what follows, and the model stops (down = "undefined"); so it  *)
(* may where find() copies through an iterator that a push has moved       *)
(* (down = "torn").                                                        *)
(*                                                                         *)
(* Definitions ending in _Wrong are deliberate defects; each is put in the *)
(* place of the definition after it to see that a property notices.        *)
(***************************************************************************)
EXTENDS Ports, HashSpace

CONSTANTS
    Authors,        \* users that send messages, by their keys
    Codes,          \* codes a message may carry
    NodeTable,      \* structs::nodes
    Fathers,        \* the fathers a user may adopt
    None,
    Ids,            \* tunnel objects alive together: a bound
    Handlers,
    MaxMessages     \* bound on packets

Nodes == ToSet(NodeTable)

(* old: since when 20 s have passed.                                       *)
Tunnel == [hash : Authors, code : Codes, node : Nodes,
           start : BOOLEAN, work : BOOLEAN, old : BOOLEAN]

ASSUME TunnelsAssumption ==
    /\ Authors \subseteq Hash /\ Codes \subseteq Nat /\ Fathers \subseteq Peers
    /\ NodeTable \in Seq(Peers) /\ Len(NodeTable) >= 3
    /\ \A i, j \in DOMAIN NodeTable : NodeTable[i] = NodeTable[j] => i = j
    /\ None \notin Peers /\ None \notin Ids /\ None \notin Tunnel
    /\ MaxMessages \in Nat

VARIABLES
    role,       \* structs::role: what this process is
    father,     \* structs::father.info
    ports,      \* structs::ports
    tun,        \* the tunnel objects
    tunnels,    \* structs::tunnels
    past,       \* what is left behind its end
    pass,       \* where the check thread is
    torn,       \* whether structs::ports was moved while find() copies
    handler,    \* what each handler thread does
    messages,   \* packets so far
    down        \* "no", or what ended the process

vars == <<role, father, ports, tun, tunnels, past, pass, torn, handler, messages, down>>

(* gone: tunnels this pass has erased; left: the node it has just given up *)
Pass == [step : {"ports", "lock", "visit", "find", "copy", "port_req", "connect", "rm_port", "judge"},
         i : Nat, size : Nat, port : Nat, gone : Nat, left : Nodes \cup {None}]
Idle == [step |-> "ports", i |-> 0, size |-> 0, port |-> 0, gone |-> 0, left |-> None]

TypeOK ==
    /\ role \in {"UDP_USER", "UDP_NODE"} /\ father \in Peers
    /\ ports \subseteq Entry
    /\ \A e, f \in ports : e.hash = f.hash => e = f
    /\ tun \in [Ids -> Tunnel \cup {None}]
    /\ tunnels \in Seq(Ids) /\ \A i \in DOMAIN tunnels : tun[tunnels[i]] # None
    /\ \A i, j \in DOMAIN tunnels : tunnels[i] = tunnels[j] => i = j
    /\ past \in Seq(Ids)
    /\ pass \in Pass /\ torn \in BOOLEAN
    /\ handler \in [Handlers -> [step : {"idle", "create", "insert", "port_req"},
                                 hash : Authors \cup {None}, code : Codes \cup {None},
                                 node : Nodes \cup {None}]]
    /\ messages \in 0..MaxMessages
    /\ down \in {"no", "undefined", "torn", "assert", "relay"}

(* Objects that are not in use: which one `new` answers is all the same.   *)
Unused == {t \in Ids : tun[t] = None}

Rest == [step |-> "idle", hash |-> None, code |-> None, node |-> None]

Init ==
    /\ role \in {"UDP_USER", "UDP_NODE"}
    /\ father = NodeTable[1]    \* a bound: others have to be adopted
    /\ ports = {} /\ tun = [t \in Ids |-> None]
    /\ tunnels = <<>> /\ past = <<>>
    /\ pass = Idle /\ torn = FALSE
    /\ handler = [h \in Handlers |-> Rest]
    /\ messages = 0 /\ down = "no"

(* tunnels_handler::mute is free: the check thread is not in a pass.       *)
Unlocked == pass.step \in {"ports", "lock"}

-----------------------------------------------------------------------------
(* Helpers                                                                 *)

(* nodes_handler::get_notdad: the first node, the next one if the first is *)
(* the father, and the next one if that is the node not wanted.            *)
get_notdad_Wrong(h) == NodeTable[IF NodeTable[1] = father THEN 2 ELSE 1]
get_notdad(h) ==
    LET i == IF NodeTable[1] = father THEN 2 ELSE 1
    IN  NodeTable[IF NodeTable[i] = h THEN i + 1 ELSE i]

(* std::lower_bound on the positions from `from` to the end, by halves:    *)
(* what it finds in a sequence that is not sorted depends on it.           *)
Half(range, Below) ==
    LET mid == range.first + range.len \div 2
    IN  IF range.len = 0 THEN range
        ELSE IF mid \in Below
             THEN [first |-> mid + 1, len |-> range.len - range.len \div 2 - 1]
             ELSE [first |-> range.first, len |-> range.len \div 2]

lower_bound(from, Below) ==
    LET halves[k \in 0..Len(tunnels)] ==
            IF k = 0 THEN [first |-> from, len |-> Len(tunnels) + 1 - from]
            ELSE Half(halves[k - 1], Below)
    IN  halves[Len(tunnels)].first

(* find_hash searches by byte sums a vector that user_create fills by the  *)
(* order of codes.                                                         *)
exists_u(h) ==
    LET sum(i) == byte_sum(tun[tunnels[i]].hash)
        found[from \in 1..(Len(tunnels) + 1)] ==
            LET i == lower_bound(from, {j \in DOMAIN tunnels : sum(j) < byte_sum(h)})
            IN  /\ i <= Len(tunnels) /\ sum(i) = byte_sum(h)
                /\ (tun[tunnels[i]].hash = h \/ found[i + 1])
    IN  found[1]

-----------------------------------------------------------------------------
(* Handler threads                                                         *)

Packet == down = "no" /\ messages < MaxMessages /\ messages' = messages + 1

(* A push moves entries under the reader of find().                        *)
Pushes(new) == torn' = (torn \/ (pass.step = "copy" /\ Cardinality(new) > Cardinality(ports)))

(* message_router::request of a user: an unknown author ...                *)
message_processing(h, a, c) ==
    /\ Packet /\ role = "UDP_USER" /\ Unlocked
    /\ handler[h].step = "idle"
    /\ Cardinality({g \in Handlers : handler[g].step \in {"create", "insert"}})
            < Cardinality(Unused)    \* the bound on tunnels
    /\ handler' = IF exists_u(a) THEN handler
                  ELSE [handler EXCEPT ![h] = [Rest EXCEPT !.step = "create", !.hash = a, !.code = c]]
    /\ UNCHANGED <<role, father, ports, tun, tunnels, past, pass, torn, down>>

(* ... gets a tunnel, to a node that is not the father at the time, ...    *)
choose_node(h) ==
    /\ down = "no" /\ handler[h].step = "create"
    /\ handler' = [handler EXCEPT ![h].step = "insert", ![h].node = get_notdad(None)]
    /\ UNCHANGED <<role, father, ports, tun, tunnels, past, pass, torn, messages, down>>

(* ... which is inserted under another acquisition of the mutex, ...       *)
user_create(h) ==
    /\ down = "no" /\ handler[h].step = "insert" /\ Unlocked
    /\ Unused # {}
    /\ LET t == CHOOSE t \in Unused : TRUE
       IN /\ tun' = [tun EXCEPT ![t] =
                         [hash |-> handler[h].hash, code |-> handler[h].code,
                          node |-> handler[h].node,
                          start |-> FALSE, work |-> FALSE, old |-> FALSE]]
          /\ tunnels' = InsertAt(tunnels,
                            lower_bound(1, {i \in DOMAIN tunnels :
                                               tun[tunnels[i]].code < byte_sum(handler[h].hash)}), t)
    /\ handler' = [handler EXCEPT ![h].step = "port_req"]
    /\ UNCHANGED <<role, father, ports, past, pass, torn, messages, down>>

(* ... and its node is told a port.                                        *)
port_req(h) ==
    /\ down = "no" /\ handler[h].step = "port_req"
    /\ ports' = try_reg(ports, handler[h].node)
    /\ Pushes(ports')
    /\ handler' = [handler EXCEPT ![h] = Rest]
    /\ UNCHANGED <<role, father, tun, tunnels, past, pass, messages, down>>

(* port_router::request: a peer names a port.                              *)
port_request(n, port) ==
    /\ Packet
    /\ ports' = reg(ports, port, n)
    /\ Pushes(ports')
    /\ UNCHANGED <<role, father, tun, tunnels, past, pass, handler, down>>

(* port_router::response, of a node: an accepted port is taken, a refused  *)
(* one replaced.  (The answer to a refusal is the received packet; the new *)
(* port is never told to anybody.)                                         *)
port_response(n, port, accepted) ==
    /\ Packet /\ role = "UDP_NODE"
    /\ ports' = IF accepted THEN reg(ports, port, n) ELSE try_reg(ports, n)
    /\ Pushes(ports')
    /\ UNCHANGED <<role, father, tun, tunnels, past, pass, handler, down>>

-----------------------------------------------------------------------------
(* The check thread                                                        *)

Slots == tunnels \o past

(* The object behind the slot the pass is at.                              *)
At == Slots[pass.i]

Step(from) == down = "no" /\ pass.step = from

Ends(cause) ==
    /\ down' = cause
    /\ UNCHANGED <<role, father, ports, tun, tunnels, past, pass, torn, handler, messages>>

PortsCheck ==
    /\ Step("ports")
    /\ ports' = check(ports)
    /\ pass' = [pass EXCEPT !.step = "lock"]
    /\ UNCHANGED <<role, father, tun, tunnels, past, torn, handler, messages, down>>

Begin ==
    /\ Step("lock")
    /\ pass' = IF tunnels = <<>> THEN Idle
               ELSE [Idle EXCEPT !.step = "visit", !.i = 1, !.size = Len(tunnels)]
    /\ UNCHANGED <<role, father, ports, tun, tunnels, past, torn, handler, messages, down>>

(* tunnels[i], without a test of i or of what the slot points to.          *)
Visit ==
    /\ Step("visit")
    /\ IF pass.i > Len(Slots) THEN Ends("undefined")
       ELSE IF tun[At] = None THEN Ends("undefined")
       ELSE /\ pass' = [pass EXCEPT !.step = IF tun[At].start THEN "judge" ELSE "find"]
            /\ UNCHANGED <<role, father, ports, tun, tunnels, past, torn, handler, messages, down>>

(* sync: no port means another node, ...                                   *)
Renew ==
    /\ Step("find") /\ Of(ports, tun[At].node) = {}
    /\ tun' = [tun EXCEPT ![At].node = get_notdad(@), ![At].old = FALSE]
    /\ pass' = [pass EXCEPT !.step = "port_req", !.left = tun[At].node]
    /\ UNCHANGED <<role, father, ports, tunnels, past, torn, handler, messages, down>>

RenewPort ==
    /\ Step("port_req")
    /\ ports' = try_reg(ports, tun[At].node)
    /\ pass' = [pass EXCEPT !.step = "judge", !.left = None]
    /\ UNCHANGED <<role, father, tun, tunnels, past, torn, handler, messages, down>>

FindPort ==
    /\ Step("find") /\ Of(ports, tun[At].node) # {}
    /\ pass' = [pass EXCEPT !.step = "copy"]
    /\ UNCHANGED <<role, father, ports, tun, tunnels, past, torn, handler, messages, down>>

(* tcp_tunnel::start, which works from before it connects.                 *)
Started(t) == [t EXCEPT !.start = TRUE, !.work = TRUE]

(* ... and a confirmed one is connected to: start() asserts that it never  *)
(* ran before.  find() copies the entry after its unlock: if entries were  *)
(* moved meanwhile, the copy may be any of them, ...                       *)
Copy ==
    /\ Step("copy")
    /\ \E e \in IF torn THEN ports ELSE Of(ports, tun[At].node) :
          IF ~e.confirm
          THEN /\ pass' = [pass EXCEPT !.step = "judge"]
               /\ UNCHANGED <<tun, down>>
          ELSE IF tun[At].start THEN down' = "assert" /\ UNCHANGED <<tun, pass>>
          ELSE /\ tun' = [tun EXCEPT ![At] = Started(@)]
               /\ pass' = [pass EXCEPT !.step = "connect", !.port = e.port]
               /\ down' = down
    /\ torn' = FALSE
    /\ UNCHANGED <<role, father, ports, tunnels, past, handler, messages>>

(* ... or, where the vector had to be allocated anew, anything.            *)
CopyFreed == Step("copy") /\ torn /\ Ends("torn")

(* connect_chain of a connector: a second connect() fails after a first    *)
(* that did not, so this returns within the timeouts of the socket, taken  *)
(* for a success either way.                                               *)
Returned_Wrong == ~tun[At].work
Returned == TRUE

Connected ==
    /\ Step("connect") /\ Returned
    /\ tun' = [tun EXCEPT ![At].old = FALSE]
    /\ pass' = [pass EXCEPT !.step = "rm_port"]
    /\ UNCHANGED <<role, father, ports, tunnels, past, torn, handler, messages, down>>

RemovePort ==
    /\ Step("rm_port")
    /\ ports' \in rm_port(ports, pass.port)
    /\ pass' = [pass EXCEPT !.step = "judge", !.port = 0]
    /\ UNCHANGED <<role, father, tun, tunnels, past, torn, handler, messages, down>>

(* What check deletes, after sync.                                         *)
Gone_Wrong(t) == ~t.start /\ t.old
Gone(t) == IF t.start THEN ~t.work ELSE t.old

(* The loop ends at the size read before it.                               *)
Further_Wrong == pass.i <= pass.size
Further == pass.i < pass.size

Go(gone) ==
    pass' = IF Further THEN [pass EXCEPT !.step = "visit", !.i = @ + 1, !.gone = @ + gone]
            ELSE Idle

Keep ==
    /\ Step("judge") /\ ~Gone(tun[At])
    /\ Go(0)
    /\ past' = IF Further THEN past ELSE <<>>
    /\ UNCHANGED <<role, father, ports, tun, tunnels, torn, handler, messages, down>>

(* erase and delete: the slot behind the new end keeps the last pointer.   *)
Erase ==
    /\ Step("judge") /\ Gone(tun[At]) /\ pass.i <= Len(tunnels)
    /\ tunnels' = RemoveAt(tunnels, pass.i)
    /\ past' = IF Further THEN <<Last(tunnels)>> \o past ELSE <<>>
    /\ tun' = [tun EXCEPT ![At] = None]
    /\ Go(1)
    /\ UNCHANGED <<role, father, ports, torn, handler, messages, down>>

(* erase() past the end of the vector.                                     *)
ErasePast == Step("judge") /\ Gone(tun[At]) /\ pass.i > Len(tunnels) /\ Ends("undefined")

-----------------------------------------------------------------------------
(* The relay and time                                                      *)

(* The peer closes the connection, or is gone: recv_thread ends, ...       *)
RelayEnds(t) ==
    /\ down = "no" /\ tun[t] # None /\ tun[t].work
    /\ tun' = [tun EXCEPT ![t].work = FALSE]
    /\ UNCHANGED <<role, father, ports, tunnels, past, pass, torn, handler, messages, down>>

(* ... or ends the process: it writes to a socket that is not connected,   *)
(* or takes the -1 of recv() for a length.                                 *)
RelayKills(t) ==
    /\ down = "no" /\ tun[t] # None /\ tun[t].work
    /\ Ends("relay")

PortAges ==
    /\ down = "no"
    /\ \E e \in ports : ~e.old /\ ports' = (ports \ {e}) \cup {[e EXCEPT !.old = TRUE]}
    /\ UNCHANGED <<role, father, tun, tunnels, past, pass, torn, handler, messages, down>>

(* check() reads the clock before it waits for the mutex.                  *)
TunnelAges(t) ==
    /\ down = "no" /\ Unlocked
    /\ tun[t] # None /\ ~tun[t].start /\ ~tun[t].old
    /\ tun' = [tun EXCEPT ![t].old = TRUE]
    /\ UNCHANGED <<role, father, ports, tunnels, past, pass, torn, handler, messages, down>>

(* An answer to REQ_FATHER makes another node the user's father (Father).  *)
Adopt ==
    /\ Packet /\ role = "UDP_USER"
    /\ father' \in Fathers \ {father}
    /\ UNCHANGED <<role, ports, tun, tunnels, past, pass, torn, handler, down>>

Check ==
    \/ PortsCheck \/ Begin \/ Visit \/ Renew \/ RenewPort \/ FindPort \/ Copy \/ CopyFreed
    \/ Connected \/ RemovePort \/ Keep \/ Erase \/ ErasePast

(* The ports a peer names (a bound): one too low, the first, and the one   *)
(* it has been named; and the first as req_port::port may read it, which   *)
(* copies four bytes into an uninitialised size_t.                         *)
Named(n) == {FIRST - 1, FIRST, FIRST + LAST + 1} \cup Used(Of(ports, n))

Next ==
    \/ \E h \in Handlers : choose_node(h) \/ user_create(h) \/ port_req(h)
    \/ \E h \in Handlers, a \in Authors, c \in Codes : message_processing(h, a, c)
    \/ \E n \in Nodes : \E port \in Named(n) :
           port_request(n, port) \/ \E b \in BOOLEAN : port_response(n, port, b)
    \/ Check
    \/ \E t \in Ids : RelayEnds(t) \/ RelayKills(t) \/ TunnelAges(t)
    \/ PortAges \/ Adopt

Spec == Init /\ [][Next]_vars

(* The check thread runs, and a handler that waits for a mutex again and   *)
(* again gets it.                                                          *)
FairSpec ==
    /\ Spec
    /\ WF_vars(Check)
    /\ \A h \in Handlers :
          /\ WF_vars(choose_node(h)) /\ SF_vars(user_create(h)) /\ WF_vars(port_req(h))

-----------------------------------------------------------------------------
(* Properties                                                              *)

(* No two peers have the same port number, however naming, accepting,      *)
(* replacing and expiry interleave: rm_port removes by the number, and two *)
(* tunnels would get each other's connections.                             *)
PortsDistinct == \A e, f \in ports : e.port = f.port => e = f

(* A pass over the tunnels reads and erases past the end of the vector     *)
(* only when it erases two of them: the slot an erasure leaves behind      *)
(* still holds the last tunnel, which is alive.  And no tunnel is started  *)
(* twice, though a pass may visit it twice (the assertion of start()).     *)
PassSafe ==
    /\ down = "undefined" => pass.gone + (IF pass.step = "judge" THEN 1 ELSE 0) >= 2
    /\ down # "assert"

(* A tunnel whose node did not answer in time goes on with another node.   *)
SyncMovesOn == pass.left # None => tun[At].node # pass.left

(* Every relay that has ended is collected (with its thread and sockets),  *)
(* although an erasure makes the pass skip a tunnel.                       *)
DeadGoes ==
    \A t \in Ids : (tun[t] # None /\ tun[t].start /\ ~tun[t].work) ~>
                       (down # "no" \/ tun[t] = None)

(* A handler that waits for the mutex of the tunnels gets it in the end,   *)
(* although the check thread connects under it.                            *)
HandlersReturn ==
    \A h \in Handlers : handler[h].step # "idle" ~> (down # "no" \/ handler[h].step = "idle")
=============================================================================
