------------------------------- MODULE Store -------------------------------
(***************************************************************************)
(* What a peer keeps on disk and what it keeps in memory of it: its key    *)
(* pair (table `settings`) and the nodes it knows (table `nodes`, vector   *)
(* structs::nodes).  src/src/spruce.cpp, src/src/storage/nodes.cpp,        *)
(* src/src/storage/database.cpp.                                           *)
(*                                                                         *)
(* Every statement of the database is committed on its own, and the        *)
(* process may die between any two of them: it is killed, an assertion     *)
(* fails, or nearest and get_notdad call exit().  While it is up, handler  *)
(* threads add nodes, and the threads that drop a father (send_thread and  *)
(* the check thread, one at a time under father_handler::mute) remove      *)
(* them: the vector under nodes_handler::mute, the table after the unlock. *)
(*                                                                         *)
(* ping and attempts of an entry have no reader (nodes_handler::check      *)
(* returns at once) and are left out.                                      *)
(*                                                                         *)
(* Definitions ending in _Wrong are deliberate defects; each is put in the *)
(* place of the definition after it to see that a property notices.        *)
(***************************************************************************)
EXTENDS HashSpace, FiniteSets

CONSTANTS
    Spoken,         \* the <<key, address>> pairs that packets may name
    OwnKeys,        \* what crypto_box_keypair may return: public keys
    None,           \* no key, no operation
    Handlers,       \* handler threads that add nodes
    Dropper,        \* the thread that drops a father
    Boot,           \* who wrote the rows of the first start
    FirstRows,      \* the <<key, address>> pairs of the table that is shipped
    NODE_LIMIT,     \* 100 in the code
    MaxStarts       \* bound on starts of the process

KnownKeys == {s[1] : s \in Spoken \cup FirstRows}
Ips == {s[2] : s \in Spoken \cup FirstRows}
Threads == Handlers \cup {Dropper}

(* What a thread still has to do to the table.                             *)
Op == [do : {"rm", "rm add", "add"}, hash : Hash, ip : Ips]

ASSUME StoreAssumption ==
    /\ Spoken \cup FirstRows \subseteq Hash \X Ips
    /\ \A s, t \in FirstRows : s[2] = t[2] => s = t
    /\ IsFiniteSet(FirstRows)
    /\ OwnKeys \subseteq Hash /\ None \notin Hash /\ None \notin Op
    /\ Dropper \notin Handlers /\ Boot \notin Handlers
    /\ NODE_LIMIT \in Nat \ {0} /\ MaxStarts \in Nat

VARIABLES
    settings,   \* table `settings`: [pub, sec], a secret key by its public one
    rows,       \* table `nodes`
    phase,      \* how far main() is
    keys,       \* structs::keys
    nodes,      \* structs::nodes
    op,         \* what each thread still has to do to the table
    starts,     \* starts so far
    identity,   \* history: the public key this peer was first up with
    mixed       \* history: addresses two operations or two keys met at

vars == <<settings, rows, phase, keys, nodes, op, starts, identity, mixed>>

(* A row, with the thread that wrote it in place of SQLite's row id.       *)
Row == [hash : Hash, ip : Ips, by : Handlers \cup {Boot}]
Entry == [hash : Hash, ip : Ips]
KeyPair == [pub : Hash \cup {None}, sec : Hash \cup {None}]
NoKeys == [pub |-> None, sec |-> None]

(* vector_search assumes that the vector is sorted by byte sums.           *)
Sorted(vec) == \A i, j \in DOMAIN vec : i < j => byte_sum(vec[i].hash) <= byte_sum(vec[j].hash)

TypeOK ==
    /\ settings \in KeyPair /\ keys \in KeyPair
    /\ rows \subseteq Row
    /\ phase \in {"off", "rm pub", "add pub", "rm sec", "add sec", "select", "up"}
    /\ nodes \in Seq(Entry) /\ Sorted(nodes)
    /\ op \in [Threads -> Op \cup {None}]
    /\ starts \in 0..MaxStarts
    /\ identity \in Hash \cup {None}
    /\ mixed \subseteq Ips

Init ==
    /\ settings = NoKeys /\ keys = NoKeys
    /\ rows = {[hash |-> s[1], ip |-> s[2], by |-> Boot] : s \in FirstRows}
    /\ phase = "off" /\ nodes = <<>>
    /\ op = [t \in Threads |-> None]
    /\ starts = 0 /\ identity = None /\ mixed = {}

-----------------------------------------------------------------------------
(* main                                                                    *)

get_var(name) == settings[name]

(* Whether main() takes the stored keys: the length tests.                 *)
Stored_Wrong(pub, sec) == pub # None \/ sec # None
Stored(pub, sec) == pub # None /\ sec # None

Start ==
    /\ phase = "off" /\ starts < MaxStarts
    /\ starts' = starts + 1
    /\ IF Stored(get_var("pub"), get_var("sec"))
       THEN keys' = [pub |-> get_var("pub"), sec |-> get_var("sec")] /\ phase' = "select"
       ELSE /\ \E k \in OwnKeys : keys' = [pub |-> k, sec |-> k]
            /\ phase' = "rm pub"
    /\ UNCHANGED <<settings, rows, nodes, op, identity, mixed>>

(* set_var twice, each of which deletes and then inserts.                  *)
rm_var(from, name, to) ==
    /\ phase = from /\ phase' = to
    /\ settings' = [settings EXCEPT ![name] = None]
    /\ UNCHANGED <<rows, keys, nodes, op, starts, identity, mixed>>

insert_var(from, name, to) ==
    /\ phase = from /\ phase' = to
    /\ settings' = [settings EXCEPT ![name] = keys[name]]
    /\ UNCHANGED <<rows, keys, nodes, op, starts, identity, mixed>>

set_vars ==
    \/ rm_var("rm pub", "pub", "add pub") \/ insert_var("add pub", "pub", "rm sec")
    \/ rm_var("rm sec", "sec", "add sec") \/ insert_var("add sec", "sec", "select")

Pair(r) == [hash |-> r.hash, ip |-> r.ip]

(* Addresses that have more than one row.                                  *)
Shared(S) == {r.ip : r \in {s \in S : \E t \in S \ {s} : t.ip = s.ip}}

(* db_handler::nodes: every row, in the order of the keys of a map, which  *)
(* are addresses of what was allocated for the rows.                       *)
db_nodes == SetToSeqs(rows)

(* nodes_handler::select: every row, equal byte sums in any order.  The    *)
(* process exits if there is none.                                         *)
select ==
    /\ phase = "select"
    /\ IF rows = {} THEN phase' = "off" /\ keys' = NoKeys /\ UNCHANGED <<nodes, mixed>>
       ELSE /\ \E s \in db_nodes :
                  Sorted(s) /\ nodes' = [i \in DOMAIN s |-> Pair(s[i])]
            /\ phase' = "up" /\ keys' = keys
            /\ mixed' = Shared(rows)
    /\ identity' = IF identity = None /\ phase' = "up" THEN keys.pub ELSE identity
    /\ UNCHANGED <<settings, rows, op, starts>>

(* The process dies: memory is gone.                                       *)
Crash ==
    /\ phase # "off"
    /\ phase' = "off" /\ keys' = NoKeys /\ nodes' = <<>>
    /\ op' = [t \in Threads |-> None]
    /\ mixed' = {}
    /\ UNCHANGED <<settings, rows, starts, identity>>

-----------------------------------------------------------------------------
(* The vector                                                              *)

Find(vec, h) == {i \in DOMAIN vec : vec[i].hash = h}

(* vector_push: before the first entry whose byte sum is not smaller.      *)
vector_push_Wrong(vec, e) == Append(vec, e)
vector_push(vec, e) ==
    InsertAt(vec, 1 + Cardinality({i \in DOMAIN vec : byte_sum(vec[i].hash) < byte_sum(e.hash)}), e)

(* History: whether an operation on address ip, begun by thread t, meets   *)
(* another one or another key there.                                       *)
Meets(t, ip, hash) ==
    \/ \E u \in Threads \ {t} : op[u] # None /\ op[u].ip = ip
    \/ \E i \in DOMAIN nodes : nodes[i].ip = ip /\ nodes[i].hash # hash

rm_node_Wrong(S, ip) == S
rm_node(S, ip) == {r \in S : r.ip # ip}

(* What add removes before it inserts: at the limit, the entry with the    *)
(* smallest byte sum.                                                      *)
Evicted(vec) == IF Len(vec) >= NODE_LIMIT THEN {vec[1]} ELSE {}

(* The rows that are left when the entries `gone` are evicted.             *)
Spared_Wrong(S, gone) == S
Spared(S, gone) == {r \in S : \A e \in gone : r \in rm_node(S, e.ip)}

(* The own key and known keys change nothing, whatever address they come   *)
(* with.                                                                   *)
Ignored_Wrong(hash) == Find(nodes, hash) # {}
Ignored(hash) == hash = keys.pub \/ Find(nodes, hash) # {}

(* nodes_handler::add under the mutex.                                     *)
add(t, hash, ip) ==
    /\ phase = "up" /\ op[t] = None
    /\ ~Ignored(hash)
    /\ LET gone == Evicted(nodes)
           rest == IF gone = {} THEN nodes ELSE Tail(nodes)
       IN  /\ rows' = Spared(rows, gone)
           /\ nodes' = vector_push(rest, [hash |-> hash, ip |-> ip])
           /\ mixed' = mixed \cup {i \in {ip} : Meets(t, ip, hash)}
                             \cup {e.ip : e \in {g \in gone : g.ip = ip \/ Meets(t, g.ip, g.hash)}}
    /\ op' = [op EXCEPT ![t] = [do |-> "rm add", hash |-> hash, ip |-> ip]]
    /\ UNCHANGED <<settings, phase, keys, starts, identity>>

(* nodes_handler::rm_hash under the mutex, for the father that is dropped. *)
rm_hash(t, hash) ==
    /\ phase = "up" /\ op[t] = None
    /\ Find(nodes, hash) # {}
    /\ LET i == CHOOSE j \in Find(nodes, hash) : \A k \in Find(nodes, hash) : j <= k
       IN  /\ nodes' = RemoveAt(nodes, i)
           /\ op' = [op EXCEPT ![t] = [do |-> "rm", hash |-> hash, ip |-> nodes[i].ip]]
           /\ mixed' = mixed \cup {j \in {nodes[i].ip} : Meets(t, j, hash)}
    /\ UNCHANGED <<settings, rows, phase, keys, starts, identity>>

(* After the unlock: the rows of the address go, in one statement, ...     *)
Delete(t) ==
    /\ op[t] # None /\ op[t].do # "add"
    /\ rows' = rm_node(rows, op[t].ip)
    /\ op' = [op EXCEPT ![t] = IF op[t].do = "rm" THEN None ELSE [op[t] EXCEPT !.do = "add"]]
    /\ UNCHANGED <<settings, phase, keys, nodes, starts, identity, mixed>>

(* ... and a new one is written, in another.                               *)
add_node(t) ==
    /\ op[t] # None /\ op[t].do = "add"
    /\ rows' = rows \cup {[hash |-> op[t].hash, ip |-> op[t].ip, by |-> t]}
    /\ op' = [op EXCEPT ![t] = None]
    /\ UNCHANGED <<settings, phase, keys, nodes, starts, identity, mixed>>

Next ==
    \/ Start \/ set_vars \/ select \/ Crash
    \/ \E t \in Handlers, s \in Spoken : add(t, s[1], s[2])
    \/ \E s \in Spoken : rm_hash(Dropper, s[1])
    \/ \E t \in Threads : Delete(t) \/ add_node(t)

Spec == Init /\ [][Next]_vars

-----------------------------------------------------------------------------
(* Properties                                                              *)

(* A peer that is up has a public and a secret key that belong together,   *)
(* and the same after every restart, wherever the first ones died between  *)
(* the four statements that store them: fathers and clients know it by its *)
(* key.                                                                    *)
SameIdentity ==
    phase = "up" => keys.pub # None /\ keys.sec = keys.pub /\ keys.pub = identity

(* The table grows by an insert that nothing makes unique, and rows come   *)
(* back into the vector at the next start.  However additions and removals *)
(* of a node interleave and whenever the process dies, an address has at   *)
(* most one row per handler thread (and, until its first change, the       *)
(* shipped one), counting the row a thread is about to write.              *)
RowsBounded ==
    /\ \A r, s \in rows : r.ip = s.ip /\ r.by = s.by => r = s
    /\ \A t \in Threads : op[t] # None /\ op[t].do = "add" =>
           ~\E r \in rows : r.ip = op[t].ip /\ r.by = t

(* Vector and table agree on every address at which no two operations or   *)
(* keys have met since the start, up to the operation under way: the node  *)
(* that a removal or an addition is about is the only difference.          *)
StoreMatches ==
    \A ip \in Ips \ mixed :
        LET known == {nodes[i].hash : i \in {j \in DOMAIN nodes : nodes[j].ip = ip}}
            kept == {r.hash : r \in {s \in rows : s.ip = ip}}
            busy == {t \in Threads : op[t] # None /\ op[t].ip = ip}
        IN  phase = "up" =>
                \/ busy = {} /\ kept = known
                \/ \E t \in busy : busy = {t} /\ kept \subseteq {op[t].hash}
                                   /\ known = IF op[t].do = "rm" THEN {} ELSE {op[t].hash}

(* cmp is used from both sides (== 1 in nearest and set, == 2 in           *)
(* father_handler::check) and in scans that keep the best so far: it must  *)
(* say the same from both sides, and a best of bests must be a best, ties  *)
(* included.                                                               *)
OrderIsConsistent ==
    \A main \in Hash : \A i, j, k \in DOMAIN nodes :
        LET a == nodes[i].hash  b == nodes[j].hash  c == nodes[k].hash
        IN  /\ cmp(main, a, b) = 1 <=> cmp(main, b, a) = 2
            /\ cmp(main, a, a) = 0
            /\ Closer(main, a, b) /\ Closer(main, b, c) => Closer(main, a, c)
            /\ Closer(main, a, c) => Closer(main, a, b) \/ Closer(main, b, c)

(* The scan of nodes_handler::nearest, over whatever vector additions,     *)
(* removals, evictions and restarts have left, returns a key that no       *)
(* candidate is nearer to `main` than.  It starts from a head that was     *)
(* read before the mutex was taken, and may be any known key by then.      *)
NearestIsMinimal ==
    phase = "up" =>
        LET vec == [i \in DOMAIN nodes |-> nodes[i].hash]
        IN  \A main \in Hash, head \in KnownKeys :
                nearest(main, keys.pub, head, vec)
                    \in Nearest(main, {head} \cup (ToSet(vec) \ {keys.pub}))

(* A peer is its own nearest node when its own key heads the vector, as    *)
(* nothing tests the head.  Only the table that it was shipped with can    *)
(* put the key there: not the packets of others, who name it once they     *)
(* know it, whatever is evicted, removed or read back at the next start.   *)
OwnKeyShipped ==
    phase = "up" /\ (\E i \in DOMAIN nodes : nodes[i].hash = keys.pub)
        => keys.pub \in {s[1] : s \in FirstRows}
=============================================================================
