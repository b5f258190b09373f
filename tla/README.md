# Spruce Network in TLA+

Spruce is a peer-to-peer overlay: every peer runs one process that speaks
encrypted UDP on port 2121 with other peers, chooses one of them as its *father*,
becomes a *node* (reachable, forwards packets) or a *user* (an end point), finds
other users by their public key and builds TCP tunnels to them. This directory
specifies the program's own logic in TLA+, checks it with TLC on small instances
and proves the central properties for all instances with TLAPS.

Paths below are relative to the repository: `src/src/...` and
`src/include/...` are the program's directories.

## 1. The system

### Threads and shared state

One process has these threads, and all of them share the vectors and structs of
`namespace structs` (`include/spruce.hpp:282`), each behind the mutex of its
`storage::*_handler`:

| thread | code | what it does |
|---|---|---|
| recv_thread | `network.cpp:133` | receives a datagram, starts a detached handler thread |
| handler threads (up to 200) | `network.cpp:18`, `handler.cpp` | one packet each: register the sender, dispatch by role and type |
| send_thread | `network.cpp:66` | father timeout, REQ_ROLE, transmits one queued task or a ping per turn |
| storage check | `spruce.cpp:86`, `storage.hpp:207` | `check()` of father, routes, ports, clients, tasks, nodes, tunnels, for ever |
| API (users only) | `spruce.cpp:7`, `api.cpp` | status and search requests of local programs |
| tunnel threads | `tcptunnel.cpp` | two per tunnel, relay bytes through one buffer |

### Components, their state, operations and correctness

| component | state | operations | what makes it correct |
|---|---|---|---|
| key metric | none | `cmp`, `byte_sum`, `nearest` scans | the same order from every side, ties harmless |
| outgoing queue | `structs::tasks` | add, rm_cookie, exists, first, check | bounded retransmission, oldest first, nothing starves, nothing live is purged |
| father | `structs::father`, `father_router::dad`, `attempts` | set, no_father, check, response, request | one father, earned, replaced only by nearer ones, never given up without cause |
| node table | `structs::nodes`, table `nodes` of the database | select, add, rm_hash, nearest, get_notdad | only members of the network are learned |
| clients | `structs::clients` | reg, check, nearest, veclist, users | only members become node clients |
| joining | `structs::role` of every peer | REQ/RES_FATHER, REQ/RES_ROLE, pings | every peer that can join does |
| search | `structs::routes`, `find_router::reqs` | API find_request, add, upd, check, allow, request | the walk ends, an answer is genuine, an existing user is found |
| ports | `structs::ports` | reg, try_reg, find, free, rm_port, check, router request/response | no port number is given twice |
| tunnels | `structs::tunnels` | user_create, find_hash, sync, check | a pass stays inside the vector, each tunnel starts once, a silent node is replaced, dead tunnels go |
| relay | `tcp_tunnel::buffer` | start, connect_chain, send_thread, recv_thread | it ends, and is collected |
| duplicate suppression | `handler_queue`, `structs::threads` | lock, unlock, THREAD_START, THREAD_END | one handler per packet, nothing suppressed for ever, the limit holds, the count drains |
| database | tables `settings`, `nodes` | get_var, set_var, nodes, add_node, rm_node | one identity for ever, table and vector agree, rows do not pile up |

### Interactions

A packet enters through `handling`, which resets the sender's attempts, registers
it as a client (nodes only) and calls the router of its type; routers read and
change several storages under several mutexes in turn, and answer by appending to
the task queue, never directly. The check thread makes requests the same way.
send_thread drains the queue. So every exchange between two peers is a chain
handler -> queue -> datagram -> handler, in which each link can be repeated (a
request is transmitted up to three times), overtaken or lost.

### What is hard

Interleavings of handler threads around state read before and used after a lock
(father, routes, ports); counters shared by all handlers; timers against late
answers; repeated and reordered answers; restarts; given-up tasks in the queue;
erasing while iterating. The list with lines is "hazards" in `PROJECT.json`.

## 2. Modules

| module | models | built on |
|---|---|---|
| `HashSpace` | `cmp`, `nearest`, `byte_sum` as operators | |
| `HashSpaceProofs` | the metric is a weak order, the scan of `nearest` is right; facts about loops and sequences for the other proofs | `HashSpace` |
| `Tasks` | the queue, its writers, send_thread, the purge | |
| `TasksProofs` | types, attempts, the role request, the order of selection, the purge | `Tasks`, `HashSpaceProofs` |
| `FatherSpec` | abstract: what the choice of a father promises | `HashSpace` |
| `Father` | one peer: handler threads, send_thread, check thread around the father | `HashSpace`, instance of `FatherSpec` |
| `FatherProofs` | types, earned adoption, justified drops, refinement | `Father`, `HashSpaceProofs` |
| `Join` | many peers and the datagrams between them | `HashSpace` |
| `JoinProofs` | types, members, stuck sets | `Join` |
| `Find` | searches for a user: interface, walk over the nodes, answer, route table | `HashSpace` |
| `FindProofs` | types, walks do not loop, answers are genuine | `Find`, `HashSpaceProofs` |
| `Store` | keys and node table: disk, memory, crashes, adding and removing threads | `HashSpace` |
| `StoreProofs` | one identity for ever, a bounded table, types and order of the vector, table and vector agree, `cmp` and `nearest` on the vector | `Store`, `HashSpaceProofs` |
| `Dispatch` | datagrams to handler threads: thread limit, duplicate suppression | |
| `DispatchProofs` | types, limit, one at a time, no leak | `Dispatch` |
| `Ports` | `ports_handler` as operators on a set of entries | |
| `Tunnels` | tunnels and ports of one process: handlers and the pass of the check thread | `Ports` |
| `TunnelsProofs` | types, no port number taken twice, a pass stays inside the vector, a silent node is left | `Tunnels`, `HashSpaceProofs` |
| `MC*` | instances for TLC | |

In modules that end some definitions with `_Wrong`, those are deliberate
defects: put in place of the definition that follows, each makes a property fail
(the pairs are "mutants" in `PROJECT.json`). They are no part of the specification.

### HashSpace
A key is a function from positions to bytes. `cmp` returns 1, 2 or 0 as the code.
`nearest` is the loop of `nodes_handler::nearest` over a vector, from a head that was read
before the mutex; `NearestFrom` is the set of results that it can have for some order of the
vector, and `Nearest` the same when the head is an entry of it. The other modules
use these two, and run `node_store` checks, on every vector that additions, removals
and restarts produce and for every known key as the head, that the loop answers a nearest key.

### Tasks
State: the vector (`tasks`), what a task is (`info`: type class, cookie, attempts),
which stamp is before which (`older`) and which are older than 600 s
(`aged`), the writer that has stamped but not pushed (`adding`, because `add`
reads the clock before it locks), send_thread's position and its copy of the
selected task (`loop`, `hand`). Actions are the operations of `tasks_handler`;
`first` contains the scan (`Scan`, round by round as the loop of the code), the
re-stamping and the removal of responses; `PurgeLoop` is the loop of `check`, round by round
(`PurgeRound`) up to the size it read first. `PurgeExact` says what a pass does with any
number of due tasks: due ones go, except one that stood right behind another, nothing else
goes, and nothing outside the vector is touched unless the last task is due together with
another one; then the slot it left is read again. Undefined
behaviour is a choice: cookies of which only four bytes are written make
`rm_cookie` remove any task with these bytes or none; erasing past the end of the
vector crashes or truncates.

### Father and FatherSpec
One peer, its threads at the granularity of their critical sections:
`ResponseHead`, `ResponseNearest`, `ResponseAddSender`, `ResponseDecide`,
`ResponseAddList` for each handler of RES_FATHER; `SendLate`, `SendLost` (two reads without
a lock), `SendForget`, `SendDrop` for the father timeout; `CheckDue`, `CheckHead`,
`CheckNearest`, `CheckForget`, `CheckAsk` for `father_handler::check`. Calls of
`nearest()` are two steps, because it reads the first entry before it takes the mutex:
`Heads` is what that read may find (a slot of an empty vector keeps an erased entry), and the
scan then starts from it (`NearestFrom`). The only mutex held across a point where others intervene
is `father_handler::mute` in the check (`father_mute_free`). Timers are the
Booleans and thresholds that the code compares with. `FatherSpec` is the promise
to the rest of the peer: the father is a node that was asked, and it is exchanged
only for a strictly nearer one; it is dropped only when another peer is nearer, or after
a silence that send_thread has noticed, one drop for each. (A drop may hit the successor
of the silent father, because `no_father` looks again: that is what the code does, and the
promise says that it happens once.) `KeepsPromise` is the refinement, with
`parent <- IF father.status THEN father.hash ELSE NoHash`, `contacted <- asked`,
`quiet <- silent` and `doubted <- sender # "loop"`.

### Join
Every peer's role, node table, father, candidate, outstanding REQ_FATHER and node
clients, and the datagrams under way. A handler is one step here (Father has its
interleavings). `Seeds` stand for a network that already runs: with this code no set of
freshly installed peers ever becomes one, because every peer starts as
UDP_NONE or UDP_USER and only a node with a father answers. This is
`StuckStayOut` with `Stuck = Peers`.
The node table is persistent (table and database change together); `Restart`
keeps it and loses everything else.

### Find
Users and nodes as Join leaves them: a user has a father (or none), a node has
neighbours, and both may change (`Move`, `Relink`). The interface looks a route up
(`find_request`) and, under a later lock, adds it and sends a REQ_FIND
(`find_start`); nodes pass it on (`NodeRequest`, with `allow`, `near_client` and
`packet_distribution`), the wanted user updates a route (`UserRequest`, `upd`) or
answers (`Answer`) and, again under a later lock, takes the searcher for found
(`AddSearcher`, `add`), and `check` ends searches. A user may search for itself, as
`api.cpp` lets it: its own request comes back and is taken for an answer. A
message is a task with the transmissions it has left; delivering it may leave it to be
repeated (`Rest`): between nodes an acknowledgement can stop that, at a user never.
Two history variables serve the properties: the nodes a message has passed
(`seen`) and what users have answered (`told`). Codes are numbered, so two
searches never draw the same one; `Garbled` lets the stored code differ from the
sent one, as `random_cookie` does when its upper bytes are not zero.

### Store
`phase` is where `main` is: reading the keys, the four statements that store a new
pair (each `set_var` deletes, then inserts), `select`, up. `Crash` takes everything
but `settings` and `rows`. `add` and `rm_hash` change the vector under the mutex and
leave what is still to be done to the table in `op`, one statement a step (`Delete`,
`add_node`); only the eviction of `add` reaches the table under the mutex. The vector
is a sequence kept by `vector_push` in the order of byte sums. A secret key is
represented by its public one. The rows carry the thread that wrote them, in place of
SQLite's row ids, because the insert makes nothing unique: two threads may each
write a row of one node, and both are kept. `mixed` is a history variable for
`StoreMatches`: the addresses at which two operations or two keys have met.
`OwnKeyShipped` is about the one key that must not be in the vector, because the scan of
`nearest` does not test the head: only the table that was shipped may hold it.

### Dispatch
`pc` of each thread follows `handling` and `handler::node`: the test and the increment
of `THREAD_START`, the refusal without a father (which takes no lock), `lock`, the
handler, `unlock`, `THREAD_END`. `cookie` is what `pack::cookie` may return; with
`garbled`, `lock` looks under one key, inserts under another and `unlock` looks under
a third. `stalled` is any mutex that a handler may have to wait for while the
check thread holds it for long, as it does in `tunnels_handler::check`.

### Ports and Tunnels
`Ports` gives each operation of `ports_handler` as a function on sets of entries;
`free` counts on past the last port, as the code does. `Tunnels` has the handlers
(`message_processing`, `choose_node`, `user_create`, `port_req`: the function `user_create`
takes several mutexes in turn, and the father may change meanwhile, `Adopt`) and the pass of the check thread, from `PortsCheck` over
`Visit`, the branches of `sync` (`Renew`, `RenewPort`, `FindPort`, `Copy`,
`Connected`, `RemovePort`) to `Keep` or `Erase`. `past` is what erasing leaves in
memory behind the end of the vector, which the pass still reads. `find` copies an entry
after its unlock; `torn` remembers that entries were moved meanwhile: `Copy` then
takes any entry, or, as the vector may have been allocated anew, nothing is known of what
follows and the model stops (`CopyFreed`, `down = "torn"`). `exists_u` is the binary search of the code over a vector that
is not in its order, so one author may get two tunnels. Where the code reads a deleted
tunnel or erases past the end, the model stops (`down = "undefined"`): that this happens
only when one pass erases two tunnels is `PassSafe`.
`connect_chain` leaves its loop on a failed call or after 15 s, so `Connected`
always follows. The call that fails is the first `connect()`, if nobody listens, or the
second, because the socket is connected by then: the relay that starts is connected or not, and
what `Tunnels` keeps of it is that it ends, or ends the process.

## 3. Runs

| run | instance | shows |
|---|---|---|
| `tasks` | 3 tasks, one cookie, one handler and send_thread, 2 attempts | a queued task and one being stamped, a given-up head against a live task, any of three due in one purge |
| `father_threads` | two keys on one side of the peer, without ties, 2 handlers, node limit 1 | all thread interleavings; eviction of the father by the limit (ties: the theorems) |
| `father_live` | the same keys, one handler, node limit 1 | an orphan keeps asking; a farther father goes, although each addition evicts the father or the nearer node |
| `join_safe` | 2 seeds, a newcomer, a stuck pair, losses, duplicates, one fault | who becomes father, client or learned; the pair stays out although it knows a seed |
| `join_live` | 2 seeds, a newcomer that learns of the nearer one late | a father and a role in the end |
| `find_walk` | one search of one user, 3 nodes with a tie, losses, timers, garbled codes, one change of father or link | no loops, genuine addresses, PROGRESS always ends |
| `find_cross` | 2 searches of 2 users, none for oneself (`AsksOthers`), 2 nodes, timers, garbled codes | late answers, and requests that meet a search, are never taken for its answer |
| `find_reach` | every linking of 3 nodes in which walks end at the fathers, 2 transmissions, 2 handlers | a search finds and stays found |
| `find_repeated` | one search, 2 transmissions | violation, see below |
| `node_store` | 3 starts, 2 adding threads and the dropping one, 3 nodes of which two share an address and two a byte sum, limit 2, keys of 2 bytes | identity, rows, agreement of vector and table; `cmp` and `nearest` on every vector |
| `dispatch` | 3 threads, limit 2, 3 datagrams, two addresses with one cookie, both roles | limit, duplicates, no leak, the count drains |
| `tunnels` | 2 authors, 2 tunnels, 3 nodes, 3 packets, ports 2 and 3 as the only ones, a father that may change | passes, ports, where a tunnel goes when its node was silent, dead tunnels, waiting handlers |

Bounds. `CONFIRM` has the code's value 3 in Father, whose runs are about it. Elsewhere it and
`ATTEMPTS` are 1 or 2, as larger values only repeat a step (2 is the least with a repetition,
and what `tasks` has; the theorem about attempts is for every value). `MaxNet` bounds the
datagrams under way (more are dropped: losses; 20 is never reached in
`join_live`), `MaxFaults` the father timeouts and restarts, `NODE_LIMIT` is 1 or 2
so that the table is full. Three tasks are the least with two due in one purge and one that
is not, before, between or behind them; the other properties of the queue relate two at most. With
one cookie any answer may be taken for that of any task. `MaxStarts` is 3: a first start that dies half
way, one that completes, and one that must come back as the same peer. Three threads
at a limit of 2 are the least that can pass it; `MaxArrivals` and `MaxMessages` bound the packets
(a fourth repeats what three can do). Two tunnels are the least with which a pass
erases one, skips the next and reads behind the end. Two ports for three nodes make
`free` run past the last one. The first node is the father at first, and another may be adopted (a packet too). A peer names a port that is too low, the first, the one it was
named, or one that an uninitialised read has made of it (`Named`). Deadlock is not
checked where a run has a bound or the process may end (`exit`).

Fairness. Loops of the program never block on anything but short critical sections, so
their steps are weakly fair (`FairSpec` of Tasks, Father, Join). Where a handler waits
for a mutex that the check thread takes again and again (Dispatch, Tunnels), its
step is strongly fair: a thread that keeps trying gets the mutex in the end, which
is what the scheduler gives and a `std::mutex` does not promise in writing. The pass of
the check thread is weakly fair. In Father nothing
is assumed of the network. In Join delivery is assumed for `EveryoneJoins` only,
in a run without losses: over UDP a peer may lose every datagram.
`EveryTaskServed` excludes runs in which ping answers arrive for ever, because
they overtake everything; the README of the code promises nothing else. In Find the
check thread, handlers and time are fair; `SearchEnds` needs no delivery, `SearchFinds` needs it.

What does not hold. `NotFoundMeansAbsent` is what `find.php:9` makes of status 1,
"user doesn't exist". Run `find_repeated` refutes it without losing a datagram: a node
repeats the last hop of a search because the user's acknowledgement, USER_RES_FIND, is
not handled, and the user takes the repetition for an answer with a wrong code. The
same happens to two users that search for each other at once; there the first
request that arrives sets the other's search to NFOUND (run `find_cross` has these searches,
and shows that such a request is at least never stored as an answer). `SearchFinds` is therefore
stated of the searcher, and its run lets only one user search, once. It also needs that
walks to both users end at their fathers (`Findable`): a walk stops at a node that has no
nearer neighbour, and nothing in `Join` makes that the father.

## 4. Proofs

`HashSpaceProofs`: the first differing position decides (`FirstDiffer`, by the
least element of a nonempty set of naturals); from it mirror symmetry,
transitivity and negative transitivity, for every key length. It also holds what
the proofs about the other components need of data. The loops of the code are recursive
functions over the rounds, of which TLA+ promises nothing until a function with these
rounds is shown to exist. `LoopExists` shows it for any number of rounds
and any rounds given as functions (`Runs`), and `UpTo` is induction over
the rounds, stated on membership of a set, so neither takes an
operator as parameter and both can be cited. `Without` says what an erase
or an insert in the middle of a vector does. With them `ScanIsMinimal`: the scan of `nearest` answers
a key that no candidate is nearer than, whatever head it starts from.

`TasksProofs`: `IInv` joins to the types (among them that the stamps are in a linear
order, of which the aged ones are the older part) that a task between stamp and
push is in one writer's hands only, and the role request in send_thread's
(`InHand`); that what has been sent, with the copy in send_thread's hand, is covered by
the attempts of a request, and that a response which is still queued has not been sent
(`Paid`); and that two live role requests are one (`OneAsks`). `ScanIs` and `PurgeOne`
are the invariants of the two loops over the vector, for any length of it: the first needs negative
transitivity of the stamps, the second keeps track of how far the vector has moved under the
counter: the rounds past the new end read the last slot again, which is safe as long as the task
in it is not due. `OldestFirst` and `PurgeExact` follow
from them for every step of the specification.

`FatherProofs`: the inductive invariant `IInv` joins to the types that a handler's
sender was asked (`SenderAsked`), that the check thread in its last two positions
has chosen a node (`HasChosen`), that the shared counter is backed by consecutive
answers of the candidate (`CountHonest`) and that between forgetting and dropping
the comparison still holds (`ComparisonHolds`, which needs that no handler sets
the father while the check holds the mutex). Adoption and drop properties follow
per action. The refinement maps `set` to Adopt, `SendRequest` to Contact, `FatherSpeaks` and
`Silence` to Speak and FallSilent, `SendLate` to Doubt, `SendDrop` to DropSilent, a `SendLost` that
finds no father to Dismiss, `CheckAsk` to DropFarther and everything else to stuttering.

`JoinProofs`: `MInv` adds to `OnlyMembersServe` that tables and datagrams name only
members or bootstrap nodes, `SInv` adds to `StuckStayOut` that stuck peers have only asked stuck
peers and that no RES packet is under way to them. Both are independent of loss,
duplication, `MaxNet` and the topology. The assumptions are those named in `Join`.

`FindProofs`: `WInv` adds to the types that a message is strictly nearer to the wanted key
than every node it has passed (`Nearing`; `NodeRequest` keeps it by
`CmpMirror` and `CloserTransitive`), from which `NoLoop` follows by asymmetry. `HInv` adds
who may hold which code: a message in the network either carries what was
told in answer to its code, or only its own sender has a route with that code (`NetIsHonest`), so
a request of the wanted user's own search can never pass `upd` as an answer.
Links and fathers change arbitrarily in both proofs, and nothing is assumed of delivery.

`DispatchProofs`: `CInv` says that `threads` is the number of threads between their
increment and their decrement (a bijection argument with the cardinality theorems),
and that without a race there is room for a thread that has passed the test. `QInv` says
which thread every entry of the queue belongs to, from which `NoLockLeak` and,
for a cookie nobody shares, `OneAtATime` follow. Slots, packets, limit and garbage are
arbitrary; garbled cookies are excluded where the property says so.

`StoreProofs`: `KeyInv` says that the settings never hold a secret key without the public
key it belongs to, because it is written last, and that a start which has passed a
statement finds what the statement wrote; `SameIdentity` follows. `RowInv` joins to `RowsBounded`
(which counts the row a thread is about to write, and so is nearly inductive) the shape
of the operations under way: a thread that is due to insert has erased the rows of its
address just before, and is the only one that writes rows of its own. `TypeInv` adds
to the types that no thread works while the process is down and that the thread that drops a
father never inserts; that `vector_push` keeps the order of the byte sums needs no more than that
the vector was in it (`PushIs`). `OwnInv` says that the peer's own key reaches vector and tables
only with the table that was shipped; it is `OwnKeyShipped`, and `ScanIsMinimal` gives `NearestIsMinimal`.
`MatchInv` sharpens `StoreMatches`: at an address where nothing has met, the vector has one
entry and at most one thread is at work, and that thread still has to do exactly what
the table differs by. The assumptions say of the shipped table that it is finite and has an
address once, of keys that there is no key `None`, and that the adding threads, the dropping
one and `Boot` are distinct.

`TunnelsProofs`: `Sound` says of the vector of ports that it is finite, with one entry
of a peer and one of a number, and is kept by every way a port is named, accepted, replaced
or removed. That `free` finds a number none has, even past the last port, is a pigeonhole
argument over the candidates. `IInv` adds what a handler remembers between its
critical sections (`HandlersKnow`) and where a pass is (`PassInv`): between the slots of
the vector and those that erasing has left behind its end it visits as many as it
found at its start, and the first slot behind the end still points to a tunnel. From that `PassSafe`: only a
second erasure of one pass can meet a slot without a tunnel. The node table is assumed
to have three distinct nodes at least, because `get_notdad` ends the process otherwise
(`nodes.cpp:182`); `SyncMovesOn` rests on it, for any father and however it changes. It says
no more than that the node that has just failed is not chosen again: two silent nodes may
alternate for ever.

Every invariant and every action property that a run checks is proved. Only
model-checked is every liveness property: `EveryTaskServed`, `OrphanAsks`,
`FartherFatherReplaced`, `EveryoneJoins`, `SearchEnds`, `SearchFinds`, `CountDrains`,
`DeadGoes`, `HandlersReturn`. Their proofs need ENABLED, which is beyond the prover.
That `lower_bound` finds the right place in a vector that is in order is not proved
either: `Store` states `vector_search` by its result, and `Tunnels` uses the halving
where the vector may be in no order.

## 5. Not modelled, and why

- The sending side of tunnels: `node_create`, `find_code`, `msg_request` and tunnels
  of role TCP_SENDER or TCP_BINDER exist in the source but nothing calls or creates them, and
  `src/src/router/tunnel.cpp` is disabled. With them goes the forwarding of REQ_MSG by nodes,
  since only `msg_request` writes that packet.
- The transfer of data in `tcptunnel.cpp`. A connector leaves `connect_chain` when
  `connect` fails, which a second call does on a socket that the first has connected, so its relay
  may have a connection; the bytes it passes on are left out, and `Tunnels` keeps that the relay
  ends or ends the process. The threads of the other roles are never started.
- `routes_handler::ping`, which renews the time of a route: only a handler of REQ_MSG calls it.
- Which of two cookies with the same four bytes was meant (`pack.cpp:87`): the models have
  both outcomes, and no property tells them apart. "hazards" names, with the reason, the other
  places where a model has what the code does and no property excludes it.
- The two sides of a port agreement together: `Tunnels` has one peer, whose partners
  name any port. A refused port is answered with the received packet
  (`src/src/router/port.cpp:42`), so the port chosen instead is told to nobody.
- `set_father`, `get_father`, `renew`, `rm_ip`, `ports_handler::exists`: no caller.
  `nodes_handler::check` returns at once, so the attempts of nodes have no reader.
- The capacity of RES_FATHER in bytes (`src/src/router/father.cpp:8`).
- Encryption and packet layout (libsodium, byte copying), the text of SQL, the accept
  loop of the API, printing. One address per peer is assumed in Join
  (clients are matched by address, `clients.cpp:18`). Packets of peers that are not
  nodes carry a temporary key (`pack.cpp:39`), so in Join the sender of a request is only
  a return address.
