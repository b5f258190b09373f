--------------------------- MODULE TunnelsProofs ---------------------------
(***************************************************************************)
(* What holds of the ports and the tunnels of a peer for any peers, any    *)
(* range of ports, any other programs that have bound some, and any number *)
(* of tunnels, threads and packets.                                        *)
(***************************************************************************)
EXTENDS Tunnels, HashSpaceProofs, FiniteSetTheorems, TLAPS

Shaped(e) == \E h, p, c, o :
    p \in Nat /\ e = [hash |-> h, port |-> p, confirm |-> c, old |-> o]

(* A vector of ports in which every operation finds and leaves one entry   *)
(* for a peer and one for a port.                                          *)
Sound(P) ==
    /\ IsFiniteSet(P)
    /\ \A e \in P : Shaped(e)
    /\ \A e, f \in P : e.hash = f.hash => e = f
    /\ \A e, f \in P : e.port = f.port => e = f

(* g makes Q of P: every entry becomes one of the same peer, and no two of *)
(* these have the same port.                                               *)
Renews(g, P, Q) ==
    /\ g \in [P -> Q] /\ Q = {g[e] : e \in P}
    /\ \A e \in P : Shaped(g[e]) /\ g[e].hash = e.hash
    /\ \A e, f \in P : g[e].port = g[f].port => e = f

-----------------------------------------------------------------------------
(* Arithmetic                                                              *)

LEMMA MultipleIsZero ==
  ASSUME NEW m \in Nat \ {0}, NEW k \in Nat
  PROVE  (k * m) % m = 0
OBVIOUS

LEMMA MultiplesDiffer ==
  ASSUME NEW m \in Nat \ {0}, NEW j \in Nat, NEW k \in Nat, j * m = k * m
  PROVE  j = k
OBVIOUS

LEMMA MultipleInRange ==
  ASSUME NEW m \in Nat \ {0}, NEW n \in Nat, NEW k \in 1..(n + 1)
  PROVE  k * m \in Nat /\ m <= k * m /\ k * m <= m + n * m
<1>1. k \in Nat /\ 1 <= k /\ k <= n + 1
  OBVIOUS
<1>2. 1 * m <= k * m /\ k * m <= (n + 1) * m
  BY <1>1
<1>3. (n + 1) * m = m + n * m /\ k * m \in Nat
  BY <1>1
<1> QED
  BY <1>2, <1>3

-----------------------------------------------------------------------------
(* Entries                                                                 *)

LEMMA ShapeKept ==
  ASSUME NEW e, Shaped(e), NEW q \in Nat, NEW b
  PROVE  /\ e.port \in Nat
         /\ LET f == [e EXCEPT !.port = q]
            IN  Shaped(f) /\ f.hash = e.hash /\ f.port = q
         /\ LET f == [e EXCEPT !.confirm = b]
            IN  Shaped(f) /\ f.hash = e.hash /\ f.port = e.port
         /\ LET f == [e EXCEPT !.old = b]
            IN  Shaped(f) /\ f.hash = e.hash /\ f.port = e.port
<1>1. PICK h, p, c, o : p \in Nat /\ e = [hash |-> h, port |-> p, confirm |-> c, old |-> o]
  BY DEF Shaped
<1>2. [e EXCEPT !.port = q] = [hash |-> h, port |-> q, confirm |-> c, old |-> o]
  BY <1>1
<1>3. [e EXCEPT !.confirm = b] = [hash |-> h, port |-> p, confirm |-> b, old |-> o]
  BY <1>1
<1>4. [e EXCEPT !.old = b] = [hash |-> h, port |-> p, confirm |-> c, old |-> b]
  BY <1>1
<1>5. ASSUME NEW q1 \in Nat, NEW c1, NEW o1
      PROVE  LET f == [hash |-> h, port |-> q1, confirm |-> c1, old |-> o1]
             IN  Shaped(f) /\ f.hash = e.hash /\ f.port = q1
  BY <1>1 DEF Shaped
<1>6. e.port = p
  BY <1>1
<1>7. LET f == [e EXCEPT !.port = q]
      IN  Shaped(f) /\ f.hash = e.hash /\ f.port = q
  BY <1>2, <1>5
<1>8. LET f == [e EXCEPT !.confirm = b]
      IN  Shaped(f) /\ f.hash = e.hash /\ f.port = e.port
  BY <1>1, <1>3, <1>5, <1>6
<1>9. LET f == [e EXCEPT !.old = b]
      IN  Shaped(f) /\ f.hash = e.hash /\ f.port = e.port
  BY <1>1, <1>4, <1>5, <1>6
<1> QED
  BY <1>1, <1>6, <1>7, <1>8, <1>9

LEMMA FreshShape ==
  ASSUME NEW h, NEW p \in Nat, NEW c
  PROVE  LET e == Fresh(h, p, c) IN Shaped(e) /\ e.hash = h /\ e.port = p
BY DEF Fresh, Shaped

LEMMA SubsetSound ==
  ASSUME NEW P, Sound(P), NEW Q \in SUBSET P
  PROVE  Sound(Q)
<1>1. IsFiniteSet(Q)
  BY FS_Subset DEF Sound
<1> QED
  BY <1>1 DEF Sound

(* A new entry for a peer and a port that have none.                       *)
LEMMA FreshSound ==
  ASSUME NEW P, Sound(P), NEW h, NEW p \in Nat, NEW c,
         Of(P, h) = {}, p \notin Used(P)
  PROVE  Sound(P \cup {Fresh(h, p, c)})
<1> DEFINE e == Fresh(h, p, c)
<1>1. Shaped(e) /\ e.hash = h /\ e.port = p
  BY FreshShape
<1>2. \A f \in P : f.hash # h /\ f.port # p
  BY DEF Of, Used
<1>3. IsFiniteSet(P \cup {e})
  BY FS_AddElement DEF Sound
<1> HIDE DEF e
<1>4. Sound(P \cup {e})
  BY <1>1, <1>2, <1>3 DEF Sound
<1> QED
  BY <1>4 DEF e

LEMMA RenewSound ==
  ASSUME NEW P, Sound(P), NEW g, NEW Q, Renews(g, P, Q)
  PROVE  Sound(Q)
<1>1. g \in Surjection(P, Q)
  BY DEF Renews, Surjection
<1>2. IsFiniteSet(Q)
  BY <1>1, FS_Surjection DEF Sound
<1>3. \A x \in Q : Shaped(x)
  BY DEF Renews
<1>4. ASSUME NEW x \in Q, NEW y \in Q, x.hash = y.hash \/ x.port = y.port
      PROVE  x = y
  <2>1. PICK e \in P, f \in P : x = g[e] /\ y = g[f]
    BY DEF Renews
  <2>2. e = f
    BY <1>4, <2>1 DEF Sound, Renews
  <2> QED
    BY <2>1, <2>2
<1> QED
  BY <1>2, <1>3, <1>4 DEF Sound

-----------------------------------------------------------------------------
(* The operations                                                          *)

(* free() ends, at a number that no entry has.                             *)
LEMMA FreeIsFree ==
  ASSUME NEW P, Sound(P)
  PROVE  free(P) \in Nat /\ free(P) \notin Used(P)
<1> DEFINE m == LAST + 1
           n == Cardinality(P)
           C == FIRST..(FIRST + LAST + 1 + n * m)
           Free == {p \in C : is_free(P, p)}
<1>1. m \in Nat \ {0} /\ n \in Nat /\ FIRST \in Nat /\ FIRST <= m
  BY PortsAssumption, FS_CardinalityType DEF Sound
<1>2. ASSUME NEW k \in 1..(n + 1) PROVE k * m \in C
  <2>1. k * m \in Nat /\ m <= k * m /\ k * m <= m + n * m
    BY <1>1, MultipleInRange
  <2>2. FIRST <= k * m /\ k * m <= FIRST + (m + n * m)
    BY <1>1, <2>1
  <2> QED
    BY <1>1, <2>1, <2>2, PortsAssumption
<1>3. ASSUME NEW k \in 1..(n + 1) PROVE sys_free(k * m)
  <2>1. (k * m) % m = 0
    BY <1>1, MultipleIsZero
  <2>2. 0 \notin Busy
    BY PortsAssumption
  <2> QED
    BY <2>1, <2>2 DEF sys_free
<1>4. Free # {}
  <2> SUFFICES ASSUME Free = {} PROVE FALSE
    OBVIOUS
  <2>1. \A k \in 1..(n + 1) : \E e \in P : e.port = k * m
    BY <1>2, <1>3 DEF is_free, Used
  <2> DEFINE g == [k \in 1..(n + 1) |-> CHOOSE e \in P : e.port = k * m]
  <2>2. \A k \in 1..(n + 1) : g[k] \in P /\ g[k].port = k * m
    BY <2>1
  <2>3. g \in [1..(n + 1) -> P]
    BY <2>2
  <2>4. IsFiniteSet(1..(n + 1)) /\ Cardinality(1..(n + 1)) = n + 1
    <3> HIDE DEF n
    <3>1. 1 \in Int /\ n + 1 \in Int /\ ~(1 > n + 1) /\ (n + 1) - 1 + 1 = n + 1
      BY <1>1
    <3> QED
      BY <3>1, FS_Interval
  <2> HIDE DEF g
  <2>5. PICK j, k \in 1..(n + 1) : j # k /\ g[j] = g[k]
    <3>1. IsFiniteSet(P) /\ Cardinality(P) < Cardinality(1..(n + 1))
      BY <1>1, <2>4 DEF Sound
    <3> DEFINE K == 1..(n + 1)
    <3>2. IsFiniteSet(K) /\ Cardinality(P) < Cardinality(K) /\ g \in [K -> P]
      BY <2>3, <2>4, <3>1
    <3> HIDE DEF K
    <3>3. \E x, y \in K : x # y /\ g[x] = g[y]
      BY <3>1, <3>2, FS_PigeonHole
    <3> QED
      BY <3>3 DEF K
  <2>6. j * m = k * m
    BY <2>2, <2>5
  <2> QED
    BY <1>1, <2>5, <2>6, MultiplesDiffer
<1>5. C \subseteq Nat
  BY <1>1
<1>6. PICK p \in Free : \A q \in Free : p <= q
  BY <1>4, <1>5, LeastElement
<1>7. free(P) \in C /\ is_free(P, free(P))
  BY <1>6 DEF free
<1> QED
  BY <1>5, <1>7 DEF is_free

LEMMA RegSound ==
  ASSUME NEW P, Sound(P), NEW h, NEW p \in Nat
  PROVE  Sound(reg(P, p, h))
<1>1. CASE ~Accepts(P, p, h)
  BY <1>1 DEF reg
<1>2. CASE Accepts(P, p, h) /\ Of(P, h) = {}
  BY <1>2, FreshSound DEF reg, Accepts, is_free
<1>3. CASE Accepts(P, p, h) /\ Of(P, h) # {}
  <2> DEFINE new(e) == [e EXCEPT !.confirm = (e.confirm \/ e.hash = h)]
             g == [e \in P |-> new(e)]
  <2>1. \A e \in P : g[e] = new(e)
    OBVIOUS
  <2>2. \A e \in P : Shaped(new(e)) /\ new(e).hash = e.hash /\ new(e).port = e.port
    BY ShapeKept DEF Sound
  <2>3. reg(P, p, h) = {g[e] : e \in P}
    BY <1>3, <2>1 DEF reg
  <2>4. g \in [P -> {g[e] : e \in P}]
    OBVIOUS
  <2> HIDE DEF g, new
  <2>5. \A e, f \in P : g[e].port = g[f].port => e = f
    BY <2>1, <2>2 DEF Sound
  <2>6. \A e \in P : Shaped(g[e]) /\ g[e].hash = e.hash
    BY <2>1, <2>2
  <2>7. Renews(g, P, reg(P, p, h))
    BY <2>3, <2>4, <2>5, <2>6 DEF Renews
  <2> QED
    BY <2>7, RenewSound
<1> QED
  BY <1>1, <1>2, <1>3

LEMMA TryRegSound ==
  ASSUME NEW P, Sound(P), NEW h
  PROVE  Sound(try_reg(P, h))
<1> DEFINE p == free(P)
<1>1. p \in Nat /\ p \notin Used(P)
  BY FreeIsFree
<1> HIDE DEF p
<1>2. CASE Of(P, h) = {}
  <2>1. try_reg(P, h) = P \cup {Fresh(h, p, FALSE)}
    BY <1>2 DEF try_reg, p
  <2>2. Sound(P \cup {Fresh(h, p, FALSE)})
    BY <1>1, <1>2, FreshSound
  <2> QED
    BY <2>1, <2>2
<1>3. CASE Of(P, h) # {}
  <2> DEFINE port(e) == IF e.hash = h THEN p ELSE e.port
             new(e) == [e EXCEPT !.port = port(e)]
             g == [e \in P |-> new(e)]
  <2>1. \A e \in P : g[e] = new(e)
    OBVIOUS
  <2>2. ASSUME NEW e \in P
        PROVE  Shaped(new(e)) /\ new(e).hash = e.hash /\ new(e).port = port(e)
    <3>1. port(e) \in Nat
      BY <1>1, ShapeKept DEF Sound
    <3> QED
      BY <3>1, ShapeKept DEF Sound
  <2>3. try_reg(P, h) = {g[e] : e \in P}
    BY <1>3, <2>1 DEF try_reg, p
  <2>4. g \in [P -> {g[e] : e \in P}]
    OBVIOUS
  <2> HIDE DEF g, new
  <2>5. ASSUME NEW e \in P, NEW f \in P, g[e].port = g[f].port PROVE e = f
    <3>1. port(e) = port(f)
      BY <2>1, <2>2, <2>5
    <3>2. e.port # p /\ f.port # p
      BY <1>1 DEF Used
    <3> QED
      BY <3>1, <3>2 DEF Sound
  <2>6. \A e \in P : Shaped(g[e]) /\ g[e].hash = e.hash
    BY <2>1, <2>2
  <2>7. Renews(g, P, try_reg(P, h))
    BY <2>3, <2>4, <2>5, <2>6 DEF Renews
  <2> QED
    BY <2>7, RenewSound
<1> QED
  BY <1>2, <1>3

(* An entry grows old.                                                     *)
LEMMA AgeSound ==
  ASSUME NEW P, Sound(P), NEW e \in P
  PROVE  Sound((P \ {e}) \cup {[e EXCEPT !.old = TRUE]})
<1> DEFINE f == [e EXCEPT !.old = TRUE]
<1>1. Shaped(f) /\ f.hash = e.hash /\ f.port = e.port
  BY ShapeKept DEF Sound
<1>2. IsFiniteSet((P \ {e}) \cup {f})
  BY FS_RemoveElement, FS_AddElement DEF Sound
<1> HIDE DEF f
<1>3. Sound((P \ {e}) \cup {f})
  BY <1>1, <1>2 DEF Sound
<1> QED
  BY <1>3 DEF f

-----------------------------------------------------------------------------
LEMMA InitPorts == Init => Sound(ports)
<1> SUFFICES ASSUME Init PROVE Sound({})
  BY DEF Init
<1> QED
  BY FS_EmptySet DEF Sound

LEMMA NamedIsPort ==
  ASSUME Sound(ports), NEW n, NEW p \in Named(n)
  PROVE  p \in Nat
<1>1. \A e \in ports : e.port \in Nat
  BY ShapeKept DEF Sound
<1> QED
  BY <1>1, PortsAssumption DEF Named, Used, Of

LEMMA NextPorts == Sound(ports) /\ [Next]_vars => Sound(ports')
<1> SUFFICES ASSUME Sound(ports), [Next]_vars PROVE Sound(ports')
  OBVIOUS
<1>1. CASE UNCHANGED ports
  BY <1>1
<1>2. ASSUME NEW h \in Handlers, choose_node(h) \/ user_create(h) PROVE Sound(ports')
  BY <1>1, <1>2 DEF choose_node, user_create
<1>3. ASSUME NEW h \in Handlers, port_req(h) PROVE Sound(ports')
  BY <1>3, TryRegSound DEF port_req
<1>4. ASSUME NEW h \in Handlers, NEW a \in Authors, NEW c \in Codes, message_processing(h, a, c)
      PROVE  Sound(ports')
  BY <1>1, <1>4 DEF message_processing
<1>5. ASSUME NEW n \in Nodes, NEW p \in Named(n), port_request(n, p)
      PROVE  Sound(ports')
  BY <1>5, NamedIsPort, RegSound DEF port_request
<1>6. ASSUME NEW n \in Nodes, NEW p \in Named(n), NEW b \in BOOLEAN, port_response(n, p, b)
      PROVE  Sound(ports')
  <2>1. p \in Nat
    BY NamedIsPort
  <2> QED
    BY <1>6, <2>1, RegSound, TryRegSound DEF port_response
<1>7. CASE PortsCheck
  <2>1. ports' \subseteq ports
    BY <1>7 DEF PortsCheck, check
  <2> QED
    BY <2>1, SubsetSound
<1>8. CASE RenewPort
  BY <1>8, TryRegSound DEF RenewPort
<1>9. CASE RemovePort
  <2>1. ports' \subseteq ports
    BY <1>9 DEF RemovePort, rm_port
  <2> QED
    BY <2>1, SubsetSound
<1>10. CASE Begin \/ Visit \/ Renew \/ FindPort \/ Copy \/ CopyFreed \/ Connected
             \/ Keep \/ Erase \/ ErasePast \/ Adopt
  BY <1>1, <1>10 DEF Begin, Visit, Renew, FindPort, Copy, CopyFreed, Connected, Keep, Erase,
                     ErasePast, Adopt, Ends
<1>11. ASSUME NEW t \in Ids, RelayEnds(t) \/ RelayKills(t) \/ TunnelAges(t)
       PROVE  Sound(ports')
  BY <1>1, <1>11 DEF RelayEnds, RelayKills, TunnelAges, Ends
<1>12. CASE PortAges
  BY <1>12, AgeSound DEF PortAges
<1>13. CASE UNCHANGED vars
  BY <1>1, <1>13 DEF vars
<1> QED
  BY <1>2, <1>3, <1>4, <1>5, <1>6, <1>7, <1>8, <1>9, <1>10, <1>11, <1>12, <1>13 DEF Next, Check

(* No two entries of structs::ports ever have the same number, however     *)
(* naming, accepting, replacing, removing and expiry interleave, and even  *)
(* where free() has run past the last port.                                *)
THEOREM NoPortTwice == Spec => []PortsDistinct
<1>1. Sound(ports) => PortsDistinct
  BY DEF Sound, PortsDistinct
<1>2. Sound(ports) /\ [Next]_vars => Sound(ports)'
  BY NextPorts
<1> QED
  BY <1>1, <1>2, InitPorts, PTL DEF Spec

-----------------------------------------------------------------------------
(* The tunnels                                                             *)

(* A thread that has been told of a message remembers whose it is, and a   *)
(* thread that has chosen a node for the tunnel remembers the node.        *)
HandlersKnow ==
    \A h \in Handlers :
        /\ handler[h].step \in {"create", "insert"} =>
               handler[h].hash \in Authors /\ handler[h].code \in Codes
        /\ handler[h].step \in {"insert", "port_req"} => handler[h].node \in Nodes

(* Where a pass is.  Between the slots of the vector and what erasing has  *)
(* left behind its end, it visits as many as it found at its start; what   *)
(* is behind the end is one slot for each tunnel erased, and the first of  *)
(* them still points to a tunnel.                                          *)
PassInv ==
    /\ Unlocked => past = <<>> /\ pass.gone = 0 /\ pass.left = None
    /\ ~Unlocked => /\ pass.i \in 1..pass.size
                    /\ pass.size = Len(tunnels) + Len(past)
                    /\ pass.gone = Len(past)
    /\ pass.step \notin {"ports", "lock", "visit"} => tun[At] # None
    /\ pass.step \in {"find", "copy"} => ~tun[At].start
    /\ Len(past) = 1 => tun[past[1]] # None
    /\ pass.left # None => pass.step = "port_req" /\ tun[At].node # pass.left

IInv == TypeOK /\ Sound(ports) /\ HandlersKnow /\ PassInv /\ PassSafe

(* The second and the third node are there for whoever the father and the  *)
(* node not wanted are.                                                    *)
LEMMA AnotherNode ==
  ASSUME NEW h
  PROVE  get_notdad(h) \in Nodes /\ get_notdad(h) # h
<1>1. Len(NodeTable) \in Nat /\ DOMAIN NodeTable = 1..Len(NodeTable)
  BY TunnelsAssumption
<1>2. {1, 2, 3} \subseteq DOMAIN NodeTable
  BY <1>1, TunnelsAssumption
<1>3. \A i \in {1, 2, 3} : NodeTable[i] \in Nodes
  BY <1>2 DEF Nodes, ToSet
<1> QED
  BY <1>2, <1>3, TunnelsAssumption DEF get_notdad

LEMMA NodesArePeers == Nodes \subseteq Peers
BY TunnelsAssumption, ElementOfSeq DEF Nodes, ToSet

LEMMA SlotsAre ==
  ASSUME TypeOK
  PROVE  /\ Slots \in Seq(Ids) /\ Len(Slots) = Len(tunnels) + Len(past)
         /\ \A i \in 1..(Len(tunnels) + Len(past)) :
               Slots[i] = IF i <= Len(tunnels) THEN tunnels[i] ELSE past[i - Len(tunnels)]
<1>1. tunnels \in Seq(Ids) /\ past \in Seq(Ids)
  BY DEF TypeOK
<1> QED
  BY <1>1, ConcatProperties DEF Slots

LEMMA AtIsId ==
  ASSUME TypeOK, PassInv, ~Unlocked
  PROVE  At \in Ids
<1>1. pass.i \in 1..Len(Slots) /\ Slots \in Seq(Ids)
  BY SlotsAre DEF PassInv
<1> QED
  BY <1>1, ElementOfSeq DEF At

(* What the search for a place to insert answers, in any order of the      *)
(* vector: a place in it or behind its end.                                *)
LEMMA LowerBound ==
  ASSUME TypeOK, NEW B
  PROVE  lower_bound(1, B) \in 1..(Len(tunnels) + 1)
<1> DEFINE n == Len(tunnels)
           V == {r \in [first : 1..(n + 1), len : 0..n] : r.first + r.len <= n + 1}
           start == [first |-> 1, len |-> n]
           step == [i \in 1..n |-> [r \in V |-> Half(r, B)]]
<1>1. n \in Nat
  BY DEF TypeOK
<1>2. start \in V
  BY <1>1
<1>3. ASSUME NEW r \in V PROVE Half(r, B) \in V
  <2> HIDE DEF n
  <2>1. /\ r.first \in 1..(n + 1) /\ r.len \in 0..n /\ r.first + r.len <= n + 1
        /\ r.len \div 2 \in Nat /\ (r.len # 0 => r.len \div 2 < r.len)
    BY <1>1
  <2>2. CASE r.len = 0
    BY <2>2 DEF Half
  <2>3. CASE r.len # 0
    <3> DEFINE mid == r.first + r.len \div 2
    <3>1. CASE mid \in B
      <4>1. Half(r, B) = [first |-> mid + 1, len |-> r.len - r.len \div 2 - 1]
        BY <2>3, <3>1 DEF Half
      <4> QED
        BY <1>1, <2>1, <2>3, <4>1
    <3>2. CASE mid \notin B
      <4>1. Half(r, B) = [first |-> r.first, len |-> r.len \div 2]
        BY <2>3, <3>2 DEF Half
      <4> QED
        BY <1>1, <2>1, <2>3, <4>1
    <3> QED
      BY <3>1, <3>2
  <2> QED
    BY <2>2, <2>3
<1>4. step \in [1..n -> [V -> V]]
  BY <1>3
<1>5. PICK f \in [0..n -> V] : f[0] = start /\ \A i \in 1..n : f[i] = step[i][f[i - 1]]
  <2> HIDE DEF V, start, step, n
  <2>1. Runs(V, start, n, step)
    BY <1>1, <1>2, <1>4, LoopExists
  <2> QED
    BY <2>1 DEF Runs
<1> DEFINE Loop(g) == g = [k \in 0..n |-> IF k = 0 THEN [first |-> 1, len |-> Len(tunnels) + 1 - 1]
                                          ELSE Half(g[k - 1], B)]
<1>6. Loop(f)
  <2>1. ASSUME NEW i \in 1..n PROVE f[i] = Half(f[i - 1], B)
    <3>1. i - 1 \in 0..n
      BY <1>1
    <3>2. f[i - 1] \in V /\ f[i] = step[i][f[i - 1]]
      BY <1>5, <3>1
    <3> QED
      BY <3>2
  <2>2. start = [first |-> 1, len |-> Len(tunnels) + 1 - 1]
    BY <1>1
  <2> HIDE DEF V, step, start
  <2> QED
    BY <1>1, <1>5, <2>1, <2>2
<1> DEFINE halves == CHOOSE g : Loop(g)
<1>7. Loop(halves)
  <2> HIDE DEF Loop
  <2> QED
    BY <1>6
<1>8. lower_bound(1, B) = halves[n].first
  BY DEF lower_bound
<1> HIDE DEF halves
<1>9. halves[0] = start /\ \A i \in 1..n : halves[i] = Half(halves[i - 1], B)
  <2>1. start = [first |-> 1, len |-> Len(tunnels) + 1 - 1] /\ 0 \in 0..n
    BY <1>1
  <2>2. \A i \in 1..n : i \in 0..n /\ i # 0
    BY <1>1
  <2> HIDE DEF V, step, start, n
  <2>3. halves = [k \in 0..n |-> IF k = 0 THEN [first |-> 1, len |-> Len(tunnels) + 1 - 1]
                                ELSE Half(halves[k - 1], B)]
    BY <1>7
  <2>4. halves[0] = start
    BY <2>1, <2>3
  <2>5. ASSUME NEW i \in 1..n PROVE halves[i] = Half(halves[i - 1], B)
    BY <2>2, <2>3, Zenon
  <2> QED
    BY <2>4, <2>5
<1> DEFINE Good == {i \in 0..n : halves[i] \in V}
<1>10. 0 \in Good
  BY <1>1, <1>2, <1>9
<1>11. \A i \in 1..n : i - 1 \in Good => i \in Good
  <2> HIDE DEF V
  <2> QED
    BY <1>1, <1>3, <1>9
<1>12. n \in Good
  <2> HIDE DEF Good
  <2>1. n \in 0..n
    BY <1>1
  <2> QED
    BY <1>1, <1>10, <1>11, <2>1, UpTo
<1> QED
  BY <1>1, <1>8, <1>12

-----------------------------------------------------------------------------
(* The entries stay entries                                                *)

LEMMA EntriesKept ==
  ASSUME NEW P \in SUBSET Entry, Sound(P), NEW h \in Peers, NEW p \in Nat
  PROVE  try_reg(P, h) \in SUBSET Entry /\ reg(P, p, h) \in SUBSET Entry
<1>1. free(P) \in Nat
  BY FreeIsFree
<1>2. \A q \in Nat, c \in BOOLEAN : Fresh(h, q, c) \in Entry
  BY DEF Fresh, Entry
<1>3. \A e \in P : [e EXCEPT !.port = IF e.hash = h THEN free(P) ELSE @] \in Entry
  BY <1>1 DEF Entry
<1>4. \A e \in P : [e EXCEPT !.confirm = (@ \/ e.hash = h)] \in Entry
  BY DEF Entry
<1>5. try_reg(P, h) \in SUBSET Entry
  <2> HIDE DEF Entry
  <2> QED
    BY <1>1, <1>2, <1>3 DEF try_reg
<1>6. reg(P, p, h) \in SUBSET Entry
  BY <1>2, <1>4 DEF reg
<1> QED
  BY <1>5, <1>6

LEMMA NextEntries == IInv /\ [Next]_vars => ports' \in SUBSET Entry
<1> SUFFICES ASSUME IInv, [Next]_vars PROVE ports' \in SUBSET Entry
  OBVIOUS
<1>0. ports \in SUBSET Entry /\ Sound(ports) /\ Nodes \subseteq Peers /\ 0 \in Nat
  BY NodesArePeers DEF IInv, TypeOK
<1>1. CASE UNCHANGED ports
  BY <1>0, <1>1
<1>2. ASSUME NEW h \in Handlers, choose_node(h) \/ user_create(h)
      PROVE  ports' \in SUBSET Entry
  BY <1>1, <1>2 DEF choose_node, user_create
<1>3. ASSUME NEW h \in Handlers, port_req(h) PROVE ports' \in SUBSET Entry
  <2>1. handler[h].node \in Peers
    BY <1>0, <1>3 DEF port_req, IInv, HandlersKnow
  <2> QED
    BY <1>0, <1>3, <2>1, EntriesKept DEF port_req
<1>4. ASSUME NEW h \in Handlers, NEW a \in Authors, NEW c \in Codes, message_processing(h, a, c)
      PROVE  ports' \in SUBSET Entry
  BY <1>1, <1>4 DEF message_processing
<1>5. ASSUME NEW n \in Nodes, NEW p \in Named(n), port_request(n, p)
      PROVE  ports' \in SUBSET Entry
  BY <1>0, <1>5, NamedIsPort, EntriesKept DEF port_request
<1>6. ASSUME NEW n \in Nodes, NEW p \in Named(n), NEW b \in BOOLEAN, port_response(n, p, b)
      PROVE  ports' \in SUBSET Entry
  <2>1. p \in Nat
    BY <1>0, NamedIsPort
  <2> QED
    BY <1>0, <1>6, <2>1, EntriesKept DEF port_response
<1>7. CASE PortsCheck
  BY <1>0, <1>7 DEF PortsCheck, check
<1>8. CASE RenewPort
  <2>1. ~Unlocked
    BY <1>8 DEF RenewPort, Step, Unlocked
  <2>2. At \in Ids /\ tun[At] # None
    BY <1>8, <2>1, AtIsId DEF IInv, PassInv, RenewPort, Step
  <2>3. tun[At].node \in Peers
    BY <1>0, <2>2 DEF IInv, TypeOK, Tunnel
  <2> QED
    BY <1>0, <1>8, <2>3, EntriesKept DEF RenewPort
<1>9. CASE RemovePort
  BY <1>0, <1>9 DEF RemovePort, rm_port
<1>10. CASE Begin \/ Visit \/ Renew \/ FindPort \/ Copy \/ CopyFreed \/ Connected
             \/ Keep \/ Erase \/ ErasePast \/ Adopt
  BY <1>1, <1>10 DEF Begin, Visit, Renew, FindPort, Copy, CopyFreed, Connected, Keep, Erase,
                     ErasePast, Adopt, Ends
<1>11. ASSUME NEW t \in Ids, RelayEnds(t) \/ RelayKills(t) \/ TunnelAges(t)
       PROVE  ports' \in SUBSET Entry
  BY <1>1, <1>11 DEF RelayEnds, RelayKills, TunnelAges, Ends
<1>12. CASE PortAges
  <2>1. PICK e \in ports : ports' = (ports \ {e}) \cup {[e EXCEPT !.old = TRUE]}
    BY <1>12 DEF PortAges
  <2>2. [e EXCEPT !.old = TRUE] \in Entry
    BY <1>0 DEF Entry
  <2> QED
    BY <1>0, <2>1, <2>2
<1>13. CASE UNCHANGED vars
  BY <1>1, <1>13 DEF vars
<1> QED
  BY <1>2, <1>3, <1>4, <1>5, <1>6, <1>7, <1>8, <1>9, <1>10, <1>11, <1>12, <1>13 DEF Next, Check

-----------------------------------------------------------------------------
(* The steps.  What they do to the ports is above.                         *)

PortsFine == ports' \in SUBSET Entry /\ Sound(ports')

LEMMA OnlyPortsMove ==
  ASSUME IInv, PortsFine, UNCHANGED <<role, tun, tunnels, past, pass, down>>,
         father' \in Peers, torn' \in BOOLEAN, messages' \in 0..MaxMessages,
         handler' \in [Handlers -> [step : {"idle", "create", "insert", "port_req"},
                                    hash : Authors \cup {None}, code : Codes \cup {None},
                                    node : Nodes \cup {None}]],
         HandlersKnow'
  PROVE  IInv'
<1>1. \A e, f \in ports' : e.hash = f.hash => e = f
  BY DEF PortsFine, Sound
<1>2. TypeOK'
  BY <1>1 DEF IInv, TypeOK, PortsFine
<1>3. PassInv' /\ PassSafe'
  BY DEF IInv, PassInv, PassSafe, Unlocked, At, Slots
<1> QED
  BY <1>2, <1>3 DEF IInv, PortsFine

LEMMA HandlersStep ==
  ASSUME IInv, PortsFine,
         \/ \E h \in Handlers : choose_node(h) \/ port_req(h)
         \/ \E h \in Handlers, a \in Authors, c \in Codes : message_processing(h, a, c)
         \/ \E n \in Nodes : \E port \in Named(n) :
                port_request(n, port) \/ \E b \in BOOLEAN : port_response(n, port, b)
         \/ PortAges \/ Adopt
  PROVE  IInv'
<1> DEFINE H == [step : {"idle", "create", "insert", "port_req"},
                 hash : Authors \cup {None}, code : Codes \cup {None}, node : Nodes \cup {None}]
<1>0. handler \in [Handlers -> H] /\ HandlersKnow /\ messages \in 0..MaxMessages /\ torn \in BOOLEAN
      /\ MaxMessages \in Nat /\ father \in Peers
  BY TunnelsAssumption DEF IInv, TypeOK
<1>1. ASSUME NEW h \in Handlers, port_req(h) PROVE IInv'
  <2>1. handler' \in [Handlers -> H] /\ HandlersKnow'
    BY <1>0, <1>1 DEF port_req, Rest, HandlersKnow
  <2>2. torn' \in BOOLEAN
    BY <1>0, <1>1 DEF port_req, Pushes
  <2> QED
    BY <1>0, <1>1, <2>1, <2>2, OnlyPortsMove DEF port_req
<1>2. ASSUME NEW h \in Handlers, NEW a \in Authors, NEW c \in Codes, message_processing(h, a, c)
      PROVE  IInv'
  <2>1. handler' \in [Handlers -> H] /\ HandlersKnow'
    <3>1. CASE handler' = handler
      BY <1>0, <3>1 DEF HandlersKnow
    <3>2. CASE handler' = [handler EXCEPT ![h] = [Rest EXCEPT !.step = "create", !.hash = a, !.code = c]]
      BY <1>0, <3>2 DEF HandlersKnow, Rest
    <3> QED
      BY <1>2, <3>1, <3>2 DEF message_processing
  <2>2. messages' \in 0..MaxMessages
    <3>1. Packet
      BY <1>2 DEF message_processing
    <3> QED
      BY <1>0, <3>1 DEF Packet
  <2> QED
    BY <1>0, <1>2, <2>1, <2>2, OnlyPortsMove DEF message_processing
<1>3. ASSUME NEW n \in Nodes, NEW p \in Named(n),
             port_request(n, p) \/ \E b \in BOOLEAN : port_response(n, p, b)
      PROVE  IInv'
  <2>1. messages' \in 0..MaxMessages
    BY <1>0, <1>3 DEF port_request, port_response, Packet
  <2>2. torn' \in BOOLEAN
    BY <1>0, <1>3 DEF port_request, port_response, Pushes
  <2>3. HandlersKnow'
    BY <1>0, <1>3 DEF HandlersKnow, port_request, port_response
  <2> QED
    BY <1>0, <1>3, <2>1, <2>2, <2>3, OnlyPortsMove DEF port_request, port_response
<1>4. CASE PortAges
  <2>1. HandlersKnow'
    BY <1>0, <1>4 DEF HandlersKnow, PortAges
  <2> QED
    BY <1>0, <1>4, <2>1, OnlyPortsMove DEF PortAges
<1>5. ASSUME NEW h \in Handlers, choose_node(h) PROVE IInv'
  <2>1. get_notdad(None) \in Nodes
    BY AnotherNode
  <2>2. handler' \in [Handlers -> H] /\ HandlersKnow'
    BY <1>0, <1>5, <2>1 DEF choose_node, HandlersKnow
  <2> QED
    BY <1>0, <1>5, <2>2, OnlyPortsMove DEF choose_node
<1>6. CASE Adopt
  <2>1. father' \in Peers /\ HandlersKnow'
    BY <1>0, <1>6, TunnelsAssumption DEF Adopt, HandlersKnow
  <2>2. messages' \in 0..MaxMessages
    BY <1>0, <1>6 DEF Adopt, Packet
  <2> QED
    BY <1>0, <1>6, <2>1, <2>2, OnlyPortsMove DEF Adopt
<1> QED
  BY <1>1, <1>2, <1>3, <1>4, <1>5, <1>6

LEMMA UserCreateStep ==
  ASSUME IInv, PortsFine, NEW h \in Handlers, user_create(h)
  PROVE  IInv'
<1> DEFINE n == Len(tunnels)
           r == [hash |-> handler[h].hash, code |-> handler[h].code, node |-> handler[h].node,
                 start |-> FALSE, work |-> FALSE, old |-> FALSE]
           B == {i \in DOMAIN tunnels : tun[tunnels[i]].code < byte_sum(handler[h].hash)}
           k == lower_bound(1, B)
<1>1. PICK t \in Ids : tun[t] = None /\ tun' = [tun EXCEPT ![t] = r]
                       /\ tunnels' = InsertAt(tunnels, k, t)
  <2> DEFINE new == CHOOSE t \in Unused : TRUE
  <2>1. Unused # {}
    BY DEF user_create
  <2>2. new \in Ids /\ tun[new] = None
    BY <2>1 DEF Unused
  <2>3. tun' = [tun EXCEPT ![new] = r] /\ tunnels' = InsertAt(tunnels, k, new)
    BY DEF user_create
  <2> HIDE DEF new
  <2> QED
    BY <2>2, <2>3
<1>2. k \in 1..(n + 1)
  BY LowerBound DEF IInv
<1>3. r \in Tunnel /\ r # None
  <2>1. /\ handler[h].hash \in Authors /\ handler[h].code \in Codes
        /\ handler[h].node \in Nodes
    BY DEF user_create, IInv, HandlersKnow
  <2>3. r \in Tunnel
    BY <2>1 DEF Tunnel
  <2> HIDE DEF r
  <2> QED
    BY <2>3, TunnelsAssumption
<1>4. tunnels \in Seq(Ids) /\ n \in Nat /\ DOMAIN tunnels = 1..n
  BY DEF IInv, TypeOK
<1>5. /\ \A i \in 1..n : tun[tunnels[i]] # None
      /\ \A i, j \in 1..n : tunnels[i] = tunnels[j] => i = j
      /\ tun \in [Ids -> Tunnel \cup {None}]
  BY <1>4 DEF IInv, TypeOK
<1>6. \A i \in 1..n : tunnels[i] # t
  BY <1>1, <1>5
<1> HIDE DEF k, r
<1>7. tunnels' \in Seq(Ids) /\ DOMAIN tunnels' = 1..Len(tunnels')
  <2>1. InsertAt(tunnels, k, t) \in Seq(Ids)
    BY <1>2, <1>4, InsertAtIs
  <2> QED
    BY <1>1, <2>1
<1>8. /\ \A i, j \in 1..Len(tunnels') : tunnels'[i] = tunnels'[j] => i = j
      /\ \A i \in 1..Len(tunnels') : tunnels'[i] = t \/ \E j \in 1..n : tunnels'[i] = tunnels[j]
  <2> DEFINE s == InsertAt(tunnels, k, t)
  <2>1. /\ \A i, j \in 1..Len(s) : s[i] = s[j] => i = j
        /\ \A i \in 1..Len(s) : s[i] = t \/ \E j \in 1..n : s[i] = tunnels[j]
    <3>1. /\ k \in 1..(Len(tunnels) + 1) /\ \A i \in 1..Len(tunnels) : tunnels[i] # t
          /\ \A i, j \in 1..Len(tunnels) : tunnels[i] = tunnels[j] => i = j
      BY <1>2, <1>5, <1>6
    <3>2. tunnels \in Seq(Ids) /\ t \in Ids
      BY <1>4
    <3> QED
      BY <3>1, <3>2, InsertDistinct
  <2> HIDE DEF s
  <2>2. tunnels' = s
    BY <1>1 DEF s
  <2> QED
    BY <2>1, <2>2
<1>9. tun' \in [Ids -> Tunnel \cup {None}] /\ tun'[t] # None
  BY <1>1, <1>3, <1>5
<1>10. \A i \in 1..n : tun'[tunnels[i]] # None
  BY <1>1, <1>3, <1>4, <1>5
<1>11. \A i \in DOMAIN tunnels' : tun'[tunnels'[i]] # None
  BY <1>7, <1>8, <1>9, <1>10
<1>12. \A e, f \in ports' : e.hash = f.hash => e = f
  BY DEF PortsFine, Sound
<1> DEFINE H == [step : {"idle", "create", "insert", "port_req"},
                 hash : Authors \cup {None}, code : Codes \cup {None}, node : Nodes \cup {None}]
<1>13. handler' \in [Handlers -> H] /\ HandlersKnow'
  <2>1. handler \in [Handlers -> H] /\ HandlersKnow
    BY DEF IInv, TypeOK
  <2>2. handler' = [handler EXCEPT ![h].step = "port_req"] /\ handler[h].step = "insert"
    BY DEF user_create
  <2> QED
    BY <2>1, <2>2 DEF HandlersKnow
<1>14. TypeOK'
  <2>1. UNCHANGED <<role, father, past, pass, torn, messages, down>>
    BY DEF user_create
  <2> QED
    BY <1>7, <1>8, <1>9, <1>11, <1>12, <1>13, <2>1 DEF IInv, TypeOK, PortsFine
<1>15. Unlocked /\ pass' = pass /\ past' = past /\ down' = down /\ Unlocked'
  BY DEF user_create, Unlocked
<1>16. PassInv' /\ PassSafe'
  <2>1. past = <<>> /\ pass.gone = 0 /\ pass.left = None /\ Len(past) = 0
    BY <1>15 DEF IInv, PassInv
  <2> QED
    BY <1>15, <2>1 DEF PassInv, PassSafe, IInv, Unlocked
<1> QED
  BY <1>13, <1>14, <1>16 DEF IInv, PortsFine

(* A step of the check thread that keeps tunnels and slots: only where it  *)
(* is changes, and perhaps the tunnel it is at.                            *)
LEMMA SameSlots ==
  ASSUME TypeOK, tunnels' = tunnels, past' = past, pass'.i = pass.i
  PROVE  At' = At
BY DEF At, Slots

(* ... which stays a tunnel.                                               *)
LEMMA TunnelChanges ==
  ASSUME IInv, NEW t \in Ids, tun[t] # None, NEW r \in Tunnel, tun' = [tun EXCEPT ![t] = r]
  PROVE  /\ tun' \in [Ids -> Tunnel \cup {None}] /\ tun'[t] = r /\ r # None
         /\ \A u \in Ids : tun[u] # None => tun'[u] # None
         /\ \A i \in DOMAIN tunnels : tun'[tunnels[i]] # None
<1>1. tun \in [Ids -> Tunnel \cup {None}] /\ r # None
  BY TunnelsAssumption DEF IInv, TypeOK
<1>2. \A i \in DOMAIN tunnels : tunnels[i] \in Ids /\ tun[tunnels[i]] # None
  BY DEF IInv, TypeOK
<1> QED
  BY <1>1, <1>2

(* A pass that goes on at the same slot, with another step.                *)
LEMMA SameVisit ==
  ASSUME IInv, PortsFine, ~Unlocked,
         UNCHANGED <<role, father, tunnels, past, handler, messages, down>>,
         pass' \in Pass, pass'.step \notin {"ports", "lock", "visit"},
         pass'.i = pass.i, pass'.size = pass.size, pass'.gone = pass.gone,
         torn' \in BOOLEAN, tun' \in [Ids -> Tunnel \cup {None}],
         \A u \in Ids : tun[u] # None => tun'[u] # None,
         tun'[At] # None,
         pass'.step \in {"find", "copy"} => ~tun'[At].start,
         pass'.left # None => pass'.step = "port_req" /\ tun'[At].node # pass'.left,
         down \notin {"undefined", "assert"}
  PROVE  IInv'
<1>1. At' = At
  BY SameSlots DEF IInv
<1>2. \A i \in DOMAIN tunnels : tun'[tunnels[i]] # None
  BY DEF IInv, TypeOK
<1>3. TypeOK'
  BY <1>2 DEF IInv, TypeOK, PortsFine, Sound
<1>4. ~Unlocked'
  BY DEF Unlocked
<1>5. ASSUME Len(past) = 1 PROVE tun'[past[1]] # None
  <2>1. past \in Seq(Ids) /\ 1 \in 1..Len(past)
    BY <1>5 DEF IInv, TypeOK
  <2>2. past[1] \in Ids
    BY <2>1, ElementOfSeq
  <2> QED
    BY <1>5, <2>2 DEF IInv, PassInv
<1>6. PassInv'
  BY <1>1, <1>4, <1>5 DEF IInv, PassInv
<1>7. PassSafe' /\ HandlersKnow'
  BY DEF PassSafe, HandlersKnow, IInv
<1> QED
  BY <1>3, <1>6, <1>7 DEF IInv, PortsFine

LEMMA Running ==
  ASSUME IInv
  PROVE  /\ pass \in Pass /\ torn \in BOOLEAN /\ tun \in [Ids -> Tunnel \cup {None}]
         /\ tunnels \in Seq(Ids) /\ Len(tunnels) \in Nat /\ (tunnels # <<>> => Len(tunnels) >= 1)
         /\ past \in Seq(Ids) /\ Len(past) \in Nat
         /\ \A i \in 1..Len(tunnels) : tun[tunnels[i]] # None
BY DEF IInv, TypeOK

(* A process that has ended changes no more.                               *)
LEMMA EndsStep ==
  ASSUME IInv, NEW cause \in {"undefined", "torn", "relay"}, Ends(cause),
         cause = "undefined" => pass.gone + (IF pass.step = "judge" THEN 1 ELSE 0) >= 2
  PROVE  IInv'
<1>1. TypeOK' /\ HandlersKnow'
  BY DEF IInv, TypeOK, HandlersKnow, Ends
<1>2. PassInv'
  BY DEF IInv, PassInv, Unlocked, At, Slots, Ends
<1>3. PassSafe'
  BY DEF IInv, PassSafe, Ends
<1> QED
  BY <1>1, <1>2, <1>3 DEF IInv, Ends

LEMMA BeginStep ==
  ASSUME IInv, PortsFine, PortsCheck \/ Begin
  PROVE  IInv'
<1>0. Unlocked /\ past = <<>> /\ pass.gone = 0 /\ pass.left = None /\ Len(past) = 0
  BY DEF IInv, PassInv, PortsCheck, Begin, Step, Unlocked
<1>1. CASE PortsCheck
  <2>1. pass' \in Pass /\ pass'.step = "lock" /\ pass'.gone = 0 /\ pass'.left = None
    BY <1>0, <1>1, Running DEF PortsCheck, Pass
  <2>2. TypeOK'
    BY <1>1, <2>1 DEF IInv, TypeOK, PortsCheck, PortsFine, Sound
  <2>3. PassInv' /\ PassSafe' /\ HandlersKnow'
    BY <1>0, <1>1, <2>1 DEF IInv, PassInv, PassSafe, Unlocked, HandlersKnow, PortsCheck, Step
  <2> QED
    BY <2>2, <2>3 DEF IInv, PortsFine
<1>2. CASE Begin
  <2>1. pass' \in Pass /\ pass'.gone = 0 /\ pass'.left = None
        /\ \/ pass'.step = "ports"
           \/ /\ pass'.step = "visit" /\ pass'.i = 1 /\ pass'.size = Len(tunnels)
              /\ Len(tunnels) >= 1
    BY <1>2, Running DEF Begin, Idle, Pass
  <2>2. TypeOK'
    BY <1>2, <2>1 DEF IInv, TypeOK, Begin, PortsFine, Sound
  <2>3. PassInv' /\ PassSafe' /\ HandlersKnow'
    BY <1>0, <1>2, <2>1, Running DEF IInv, PassInv, PassSafe, Unlocked, HandlersKnow, Begin, Step
  <2> QED
    BY <2>2, <2>3 DEF IInv, PortsFine
<1> QED
  BY <1>1, <1>2

LEMMA TwoBehind ==
  ASSUME NEW m \in Nat, NEW n \in Nat, NEW i \in 1..(m + n), i > m, n # 1
  PROVE  n >= 2
OBVIOUS

(* The pass reads a slot: what is behind the end is a tunnel unless two    *)
(* have been erased.                                                       *)
LEMMA VisitStep ==
  ASSUME IInv, PortsFine, Visit
  PROVE  IInv'
<1>0. ~Unlocked /\ down = "no" /\ pass.step = "visit" /\ pass.left = None
  BY DEF Visit, Step, Unlocked, IInv, PassInv
<1>1. /\ pass.i \in 1..pass.size /\ pass.size = Len(tunnels) + Len(past) /\ pass.gone = Len(past)
      /\ Len(Slots) = Len(tunnels) + Len(past)
      /\ At = IF pass.i <= Len(tunnels) THEN tunnels[pass.i] ELSE past[pass.i - Len(tunnels)]
  <2>1. pass.i \in 1..(Len(tunnels) + Len(past))
    BY <1>0 DEF IInv, PassInv
  <2> QED
    BY <1>0, <2>1, SlotsAre DEF At, IInv, PassInv
<1>2. CASE tun[At] = None
  <2>1. pass.i > Len(tunnels)
    BY <1>1, <1>2, Running
  <2>2. Len(past) # 1
    <3>1. Len(past) = 1 => pass.i - Len(tunnels) = 1
      BY <1>1, <2>1, Running
    <3>2. Len(past) = 1 => tun[past[1]] # None
      BY DEF IInv, PassInv
    <3> QED
      BY <1>1, <1>2, <2>1, <3>1, <3>2
  <2>3. Len(past) >= 2
    <3>1. Len(past) \in Nat /\ Len(tunnels) \in Nat
      BY Running
    <3>2. pass.i \in 1..(Len(tunnels) + Len(past))
      BY <1>1
    <3> QED
      BY <2>1, <2>2, <3>1, <3>2, TwoBehind
  <2>4. Ends("undefined")
    BY <1>2 DEF Visit
  <2> QED
    BY <1>0, <1>1, <2>3, <2>4, Running, EndsStep
<1>3. CASE tun[At] # None
  <2>1. /\ pass' = [pass EXCEPT !.step = IF tun[At].start THEN "judge" ELSE "find"]
        /\ UNCHANGED <<role, father, ports, tun, tunnels, past, torn, handler, messages, down>>
    BY <1>1, <1>3, Running DEF Visit
  <2>2. pass' \in Pass /\ pass'.i = pass.i /\ pass'.size = pass.size /\ pass'.gone = pass.gone
        /\ pass'.left = None
        /\ pass'.step = IF tun[At].start THEN "judge" ELSE "find"
    BY <1>0, <2>1, Running DEF Pass
  <2> QED
    BY <1>0, <1>3, <2>1, <2>2, Running, SameVisit
<1> QED
  BY <1>2, <1>3

(* What is known while the pass is at a tunnel.                            *)
LEMMA AtTunnel ==
  ASSUME IInv, pass.step \notin {"ports", "lock", "visit"}, down = "no"
  PROVE  /\ ~Unlocked /\ At \in Ids /\ tun[At] # None /\ tun[At] \in Tunnel
         /\ (pass.left # None => pass.step = "port_req")
         /\ pass \in Pass /\ down \notin {"undefined", "assert"}
<1>1. ~Unlocked
  BY DEF Unlocked
<1>2. At \in Ids /\ tun[At] # None
  BY <1>1, AtIsId DEF IInv, PassInv
<1> QED
  BY <1>1, <1>2, Running DEF IInv, PassInv

LEMMA SyncStep ==
  ASSUME IInv, PortsFine, Renew \/ RenewPort \/ FindPort
  PROVE  IInv'
<1>0. /\ ~Unlocked /\ At \in Ids /\ tun[At] # None /\ tun[At] \in Tunnel /\ pass \in Pass
      /\ pass.step \in {"find", "port_req"} /\ down \notin {"undefined", "assert"}
  BY AtTunnel DEF Renew, RenewPort, FindPort, Step
<1>1. CASE Renew
  <2> DEFINE r == [tun[At] EXCEPT !.node = get_notdad(@), !.old = FALSE]
  <2>1. r \in Tunnel /\ r.node # tun[At].node /\ r.start = tun[At].start
    BY <1>0, AnotherNode DEF Tunnel
  <2>2. tun' = [tun EXCEPT ![At] = r]
    BY <1>1 DEF Renew
  <2> HIDE DEF r
  <2>3. /\ tun' \in [Ids -> Tunnel \cup {None}] /\ tun'[At] = r /\ r # None
        /\ \A u \in Ids : tun[u] # None => tun'[u] # None
    BY <1>0, <2>1, <2>2, TunnelChanges
  <2>4. tun[At].node \in Nodes
    BY <1>0 DEF Tunnel
  <2>5. /\ pass' \in Pass /\ pass'.step = "port_req" /\ pass'.left = tun[At].node
        /\ pass'.i = pass.i /\ pass'.size = pass.size /\ pass'.gone = pass.gone
    BY <1>0, <1>1, <2>4 DEF Renew, Pass
  <2> QED
    BY <1>0, <1>1, <2>1, <2>3, <2>5, Running, SameVisit DEF Renew
<1>2. CASE RenewPort
  <2>1. /\ pass' \in Pass /\ pass'.step = "judge" /\ pass'.left = None
        /\ pass'.i = pass.i /\ pass'.size = pass.size /\ pass'.gone = pass.gone
    BY <1>0, <1>2 DEF RenewPort, Pass
  <2> QED
    BY <1>0, <1>2, <2>1, Running, SameVisit DEF RenewPort
<1>3. CASE FindPort
  <2>1. pass.left = None /\ ~tun[At].start
    BY <1>3 DEF FindPort, Step, IInv, PassInv
  <2>2. /\ pass' \in Pass /\ pass'.step = "copy" /\ pass'.left = None
        /\ pass'.i = pass.i /\ pass'.size = pass.size /\ pass'.gone = pass.gone
    BY <1>0, <1>3, <2>1 DEF FindPort, Pass
  <2> QED
    BY <1>0, <1>3, <2>1, <2>2, Running, SameVisit DEF FindPort
<1> QED
  BY <1>1, <1>2, <1>3

(* The tunnel that start() is called for never ran: the pass has read so,  *)
(* and nobody else starts tunnels.                                         *)
LEMMA CopyStep ==
  ASSUME IInv, PortsFine, Copy
  PROVE  IInv'
<1>0. /\ ~Unlocked /\ At \in Ids /\ tun[At] # None /\ tun[At] \in Tunnel /\ pass \in Pass
      /\ pass.left = None /\ ~tun[At].start /\ down \notin {"undefined", "assert"}
  BY AtTunnel DEF Copy, Step, IInv, PassInv
<1>1. PICK e \in ports :
          IF ~e.confirm
          THEN pass' = [pass EXCEPT !.step = "judge"] /\ UNCHANGED <<tun, down>>
          ELSE /\ tun' = [tun EXCEPT ![At] = Started(@)]
               /\ pass' = [pass EXCEPT !.step = "connect", !.port = e.port]
               /\ down' = down
  BY <1>0 DEF Copy, Of
<1>2. CASE ~e.confirm
  <2>1. /\ pass' \in Pass /\ pass'.step = "judge" /\ pass'.left = None
        /\ pass'.i = pass.i /\ pass'.size = pass.size /\ pass'.gone = pass.gone
    BY <1>0, <1>1, <1>2 DEF Pass
  <2> QED
    BY <1>0, <1>1, <1>2, <2>1, Running, SameVisit DEF Copy
<1>3. CASE e.confirm
  <2> DEFINE r == Started(tun[At])
  <2>1. r \in Tunnel
    BY <1>0 DEF Started, Tunnel
  <2> HIDE DEF r
  <2>2. tun' = [tun EXCEPT ![At] = r]
    BY <1>1, <1>3 DEF r
  <2>3. /\ tun' \in [Ids -> Tunnel \cup {None}] /\ tun'[At] # None
        /\ \A u \in Ids : tun[u] # None => tun'[u] # None
    BY <1>0, <2>1, <2>2, TunnelChanges
  <2>4. e.port \in Nat
    BY DEF IInv, TypeOK, Entry
  <2>5. /\ pass' \in Pass /\ pass'.step = "connect" /\ pass'.left = None
        /\ pass'.i = pass.i /\ pass'.size = pass.size /\ pass'.gone = pass.gone
    BY <1>0, <1>1, <1>3, <2>4 DEF Pass
  <2> QED
    BY <1>0, <1>1, <1>3, <2>3, <2>5, Running, SameVisit DEF Copy
<1> QED
  BY <1>2, <1>3

LEMMA ConnectStep ==
  ASSUME IInv, PortsFine, Connected \/ RemovePort
  PROVE  IInv'
<1>0. /\ ~Unlocked /\ At \in Ids /\ tun[At] # None /\ tun[At] \in Tunnel /\ pass \in Pass
      /\ pass.left = None /\ down \notin {"undefined", "assert"}
  BY AtTunnel DEF Connected, RemovePort, Step
<1>1. CASE Connected
  <2> DEFINE r == [tun[At] EXCEPT !.old = FALSE]
  <2>1. r \in Tunnel
    BY <1>0 DEF Tunnel
  <2>2. tun' = [tun EXCEPT ![At] = r]
    BY <1>1 DEF Connected
  <2> HIDE DEF r
  <2>3. /\ tun' \in [Ids -> Tunnel \cup {None}] /\ tun'[At] # None
        /\ \A u \in Ids : tun[u] # None => tun'[u] # None
    BY <1>0, <2>1, <2>2, TunnelChanges
  <2>4. /\ pass' \in Pass /\ pass'.step = "rm_port" /\ pass'.left = None
        /\ pass'.i = pass.i /\ pass'.size = pass.size /\ pass'.gone = pass.gone
    BY <1>0, <1>1 DEF Connected, Pass
  <2> QED
    BY <1>0, <1>1, <2>3, <2>4, Running, SameVisit DEF Connected
<1>2. CASE RemovePort
  <2>1. /\ pass' \in Pass /\ pass'.step = "judge" /\ pass'.left = None
        /\ pass'.i = pass.i /\ pass'.size = pass.size /\ pass'.gone = pass.gone
    BY <1>0, <1>2 DEF RemovePort, Pass
  <2> QED
    BY <1>0, <1>2, <2>1, Running, SameVisit DEF RemovePort
<1> QED
  BY <1>1, <1>2

(* The pass goes on to the next slot.                                      *)
LEMMA GoOn ==
  ASSUME pass \in Pass, Further, NEW n \in Nat, Go(n)
  PROVE  /\ pass' \in Pass /\ pass'.step = "visit" /\ pass'.left = pass.left
         /\ pass'.i = pass.i + 1 /\ pass'.size = pass.size /\ pass'.gone = pass.gone + n
<1>1. pass' = [pass EXCEPT !.step = "visit", !.i = pass.i + 1, !.gone = pass.gone + n]
  BY DEF Go
<1>2. pass.i + 1 \in Nat /\ pass.gone + n \in Nat
  BY DEF Pass
<1> DEFINE i == pass.i + 1  g == pass.gone + n
<1>3. pass' = [pass EXCEPT !.step = "visit", !.i = i, !.gone = g] /\ i \in Nat /\ g \in Nat
  BY <1>1, <1>2
<1> HIDE DEF i, g
<1>4. /\ pass' \in Pass /\ pass'.step = "visit" /\ pass'.left = pass.left
      /\ pass'.i = i /\ pass'.size = pass.size /\ pass'.gone = g
  BY <1>3 DEF Pass
<1> QED
  BY <1>4 DEF i, g

LEMMA KeepStep ==
  ASSUME IInv, PortsFine, Keep
  PROVE  IInv'
<1>0. /\ ~Unlocked /\ pass \in Pass /\ pass.left = None /\ down \notin {"undefined", "assert"}
      /\ pass.i \in 1..pass.size /\ pass.size = Len(tunnels) + Len(past) /\ pass.gone = Len(past)
  BY AtTunnel DEF Keep, Step, IInv, PassInv
<1>1. CASE Further
  <2>1. /\ pass' \in Pass /\ pass'.step = "visit" /\ pass'.left = None
        /\ pass'.i = pass.i + 1 /\ pass'.size = pass.size /\ pass'.gone = pass.gone
    <3>1. Go(0)
      BY DEF Keep
    <3> QED
      BY <1>0, <1>1, <3>1, GoOn
  <2>2. pass'.i \in 1..pass'.size
    BY <1>0, <1>1, <2>1, Running DEF Further
  <2>3. past' = past
    BY <1>1 DEF Keep
  <2>4. TypeOK' /\ HandlersKnow'
    BY <2>1, <2>3 DEF IInv, TypeOK, HandlersKnow, Keep
  <2>5. PassInv' /\ PassSafe'
    BY <1>0, <2>1, <2>2, <2>3 DEF IInv, PassInv, PassSafe, Unlocked, Keep
  <2> QED
    BY <2>4, <2>5 DEF IInv, PortsFine
<1>2. CASE ~Further
  <2>1. pass' = Idle /\ Idle \in Pass /\ past' = <<>> /\ <<>> \in Seq(Ids) /\ Len(<<>>) = 0
    BY <1>2, TunnelsAssumption DEF Keep, Go, Idle, Pass
  <2>2. TypeOK' /\ HandlersKnow'
    BY <2>1 DEF IInv, TypeOK, HandlersKnow, Keep
  <2>3. PassInv' /\ PassSafe'
    BY <1>0, <2>1 DEF IInv, PassInv, PassSafe, Unlocked, Keep, Idle
  <2> QED
    BY <2>2, <2>3 DEF IInv, PortsFine
<1> QED
  BY <1>1, <1>2

(* The tunnel leaves the vector: what is left has no other slot for it,    *)
(* and the slot behind the new end holds the last one, which is another    *)
(* tunnel if the pass goes on with it as the first behind the end.         *)
LEMMA EraseStep ==
  ASSUME IInv, PortsFine, Erase
  PROVE  IInv'
<1> DEFINE n == Len(tunnels)
<1>0. /\ ~Unlocked /\ pass \in Pass /\ pass.left = None /\ down = "no" /\ At \in Ids
      /\ pass.size = Len(tunnels) + Len(past) /\ pass.gone = Len(past)
  BY AtTunnel DEF Erase, Step, IInv, PassInv
<1>1. pass.i \in 1..Len(tunnels) /\ At = tunnels[pass.i]
  <2>1. pass.i \in 1..(Len(tunnels) + Len(past)) /\ pass.i <= Len(tunnels)
    BY <1>0 DEF Erase, IInv, PassInv
  <2> QED
    BY <2>1, Running, SlotsAre DEF At, IInv
<1>2. /\ tunnels \in Seq(Ids) /\ Len(tunnels) \in Nat
      /\ \A j, k \in 1..Len(tunnels) : tunnels[j] = tunnels[k] => j = k
      /\ \A j \in 1..Len(tunnels) : tunnels[j] \in Ids /\ tun[tunnels[j]] # None
      /\ tun \in [Ids -> Tunnel \cup {None}]
  BY DEF IInv, TypeOK
<1>3. /\ tun' = [tun EXCEPT ![At] = None] /\ tun' \in [Ids -> Tunnel \cup {None}]
      /\ \A t \in Ids : t # At => tun'[t] = tun[t]
  BY <1>0, <1>2 DEF Erase
<1>4. /\ tunnels' \in Seq(Ids) /\ Len(tunnels') = Len(tunnels) - 1
      /\ \A j, k \in 1..Len(tunnels') : tunnels'[j] = tunnels'[k] => j = k
      /\ \A j \in 1..Len(tunnels') :
            tunnels'[j] # At /\ \E k \in 1..Len(tunnels) : tunnels'[j] = tunnels[k]
  <2> DEFINE r == RemoveAt(tunnels, pass.i)
  <2>1. r \in Seq(Ids) /\ Len(r) = Len(tunnels) - 1
    BY <1>1, <1>2, RemoveAtIs
  <2>2. /\ \A j, k \in 1..Len(r) : r[j] = r[k] => j = k
        /\ \A j \in 1..Len(r) : r[j] # tunnels[pass.i] /\ \E k \in 1..Len(tunnels) : r[j] = tunnels[k]
    BY <1>1, <1>2, RemoveDistinct
  <2> HIDE DEF r
  <2>3. tunnels' = r
    BY DEF Erase, r
  <2> QED
    BY <1>1, <2>1, <2>2, <2>3
<1>5. DOMAIN tunnels' = 1..Len(tunnels')
  BY <1>4
<1>6. \A j \in DOMAIN tunnels' : tun'[tunnels'[j]] # None
  BY <1>2, <1>3, <1>4, <1>5
<1>7. UNCHANGED <<role, father, ports, torn, handler, messages, down>> /\ Go(1)
  BY DEF Erase
<1>8. CASE Further
  <2>1. /\ pass' \in Pass /\ pass'.step = "visit" /\ pass'.left = None
        /\ pass'.i = pass.i + 1 /\ pass'.size = pass.size /\ pass'.gone = pass.gone + 1
    BY <1>0, <1>7, <1>8, GoOn
  <2>2. past \in Seq(Ids) /\ Len(past) \in Nat
    BY Running
  <2>3. Last(tunnels) = tunnels[Len(tunnels)] /\ Len(tunnels) \in 1..Len(tunnels)
    BY <1>1, <1>2 DEF Last
  <2>4. /\ past' \in Seq(Ids) /\ Len(past') = Len(past) + 1 /\ past'[1] = Last(tunnels)
    <3> DEFINE l == Last(tunnels)
    <3>1. past' = <<l>> \o past
      BY <1>8 DEF Erase
    <3>2. l \in Ids
      BY <1>2, <2>3
    <3> HIDE DEF l
    <3>3. /\ <<l>> \o past \in Seq(Ids) /\ Len(<<l>> \o past) = Len(<<l>>) + Len(past)
          /\ \A j \in 1..(Len(<<l>>) + Len(past)) :
                (<<l>> \o past)[j] = IF j <= Len(<<l>>) THEN <<l>>[j] ELSE past[j - Len(<<l>>)]
      BY <2>2, <3>2, ConcatProperties
    <3>4. Len(<<l>>) = 1 /\ <<l>>[1] = l /\ 1 \in 1..(1 + Len(past))
      BY <2>2
    <3>5. past' \in Seq(Ids) /\ Len(past') = 1 + Len(past) /\ past'[1] = l
      BY <3>1, <3>3, <3>4
    <3> QED
      BY <2>2, <3>5 DEF l
  <2>5. pass'.i \in 1..pass'.size /\ pass'.size = Len(tunnels') + Len(past') /\ pass'.gone = Len(past')
    BY <1>0, <1>1, <1>2, <1>4, <1>8, <2>1, <2>2, <2>4 DEF Further
  <2>6. ASSUME Len(past') = 1 PROVE tun'[past'[1]] # None
    <3>1. pass.i < Len(tunnels)
      BY <1>0, <1>1, <1>2, <1>8, <2>2, <2>4, <2>6 DEF Further
    <3>2. tunnels[Len(tunnels)] # At
      BY <1>1, <1>2, <2>3, <3>1
    <3> QED
      BY <1>2, <1>3, <2>3, <2>4, <3>2
  <2>7. TypeOK' /\ HandlersKnow'
    BY <1>3, <1>4, <1>5, <1>6, <1>7, <2>1, <2>4 DEF IInv, TypeOK, HandlersKnow
  <2>8. PassInv' /\ PassSafe'
    BY <1>0, <1>7, <2>1, <2>5, <2>6 DEF PassInv, PassSafe, Unlocked
  <2> QED
    BY <2>7, <2>8 DEF IInv, PortsFine
<1>9. CASE ~Further
  <2>1. pass' = Idle /\ Idle \in Pass /\ past' = <<>> /\ <<>> \in Seq(Ids) /\ Len(<<>>) = 0
    BY <1>7, <1>9, TunnelsAssumption DEF Erase, Go, Idle, Pass
  <2>2. TypeOK' /\ HandlersKnow'
    BY <1>3, <1>4, <1>5, <1>6, <1>7, <2>1 DEF IInv, TypeOK, HandlersKnow
  <2>3. PassInv' /\ PassSafe'
    BY <1>0, <1>7, <2>1 DEF PassInv, PassSafe, Unlocked, Idle
  <2> QED
    BY <2>2, <2>3 DEF IInv, PortsFine
<1> QED
  BY <1>8, <1>9

(* Past the end of the vector there is one to erase only after another.    *)
LEMMA ErasePastStep ==
  ASSUME IInv, ErasePast
  PROVE  IInv'
<1>1. pass.step = "judge" /\ pass.i > Len(tunnels) /\ Ends("undefined")
  BY DEF ErasePast, Step
<1>2. pass.i \in 1..(Len(tunnels) + Len(past)) /\ pass.gone = Len(past)
  BY <1>1 DEF IInv, PassInv, Unlocked
<1>3. Len(tunnels) \in Nat /\ Len(past) \in Nat
  BY Running
<1>4. pass.gone + 1 >= 2
  BY <1>1, <1>2, <1>3
<1> QED
  BY <1>1, <1>4, EndsStep

(* Another thread or the clock changes a tunnel, but neither its node nor  *)
(* whether it has started.                                                 *)
LEMMA ElsewhereStep ==
  ASSUME IInv, PortsFine, NEW t \in Ids, RelayEnds(t) \/ TunnelAges(t)
  PROVE  IInv'
<1> DEFINE r == IF RelayEnds(t) THEN [tun[t] EXCEPT !.work = FALSE]
                ELSE [tun[t] EXCEPT !.old = TRUE]
<1>0. tun[t] # None /\ tun[t] \in Tunnel
  BY Running DEF RelayEnds, TunnelAges
<1>1. r \in Tunnel /\ r.node = tun[t].node /\ r.start = tun[t].start
  BY <1>0 DEF Tunnel
<1>2. /\ tun' = [tun EXCEPT ![t] = r]
      /\ UNCHANGED <<role, father, ports, tunnels, past, pass, torn, handler, messages, down>>
  BY DEF RelayEnds, TunnelAges
<1> HIDE DEF r
<1>3. /\ tun' \in [Ids -> Tunnel \cup {None}] /\ tun'[t] = r /\ r # None
      /\ \A u \in Ids : tun[u] # None => tun'[u] # None
      /\ \A i \in DOMAIN tunnels : tun'[tunnels[i]] # None
  BY <1>0, <1>1, <1>2, TunnelChanges
<1>4. TypeOK' /\ HandlersKnow' /\ PassSafe'
  BY <1>2, <1>3 DEF IInv, TypeOK, HandlersKnow, PassSafe
<1>5. At' = At /\ (Unlocked' <=> Unlocked)
  BY <1>2 DEF At, Slots, Unlocked
<1>6. \A u \in Ids : tun[u] # None => tun'[u].node = tun[u].node /\ tun'[u].start = tun[u].start
  BY <1>0, <1>1, <1>2, <1>3, Running
<1>7. ~Unlocked => At \in Ids
  BY AtIsId DEF IInv, PassInv
<1>8. Len(past) = 1 => past[1] \in Ids
  <2>1. Len(past) = 1 => 1 \in 1..Len(past)
    OBVIOUS
  <2> QED
    BY <2>1, Running, ElementOfSeq
<1>9. PassInv'
  <2>1. pass.step \notin {"ports", "lock", "visit"} => ~Unlocked
    BY DEF Unlocked
  <2>2. pass.left # None => pass.step = "port_req" /\ ~Unlocked
    BY DEF IInv, PassInv, Unlocked
  <2> QED
    BY <1>2, <1>3, <1>5, <1>6, <1>7, <1>8, <2>1, <2>2 DEF IInv, PassInv
<1> QED
  BY <1>2, <1>4, <1>9 DEF IInv, PortsFine

-----------------------------------------------------------------------------
LEMMA InitInv == Init => IInv
<1> SUFFICES ASSUME Init PROVE IInv
  OBVIOUS
<1>1. Sound(ports)
  BY InitPorts
<1>2. NodeTable[1] \in Peers
  BY TunnelsAssumption, ElementOfSeq
<1>3. TypeOK
  <2>1. Idle \in Pass
    BY DEF Idle, Pass
  <2>2. father \in Peers
    BY <1>2, TunnelsAssumption DEF Init
  <2>3. 0 \in 0..MaxMessages /\ <<>> \in Seq(Ids) /\ DOMAIN <<>> = {}
    BY TunnelsAssumption
  <2> QED
    BY <2>1, <2>2, <2>3 DEF Init, TypeOK, Rest
<1>4. HandlersKnow
  BY DEF Init, HandlersKnow, Rest
<1>5. PassInv /\ PassSafe
  BY DEF Init, PassInv, PassSafe, Unlocked, Idle
<1> QED
  BY <1>1, <1>3, <1>4, <1>5 DEF IInv

LEMMA NextInv == IInv /\ [Next]_vars => IInv'
<1> SUFFICES ASSUME IInv, [Next]_vars PROVE IInv'
  OBVIOUS
<1>1. PortsFine
  BY NextPorts, NextEntries DEF IInv, PortsFine
<1>2. ASSUME NEW h \in Handlers, user_create(h) PROVE IInv'
  BY <1>1, <1>2, UserCreateStep
<1>3. ASSUME \/ \E h \in Handlers : choose_node(h) \/ port_req(h)
             \/ \E h \in Handlers, a \in Authors, c \in Codes : message_processing(h, a, c)
             \/ \E n \in Nodes : \E port \in Named(n) :
                    port_request(n, port) \/ \E b \in BOOLEAN : port_response(n, port, b)
             \/ PortAges \/ Adopt
      PROVE  IInv'
  BY <1>1, <1>3, HandlersStep
<1>4. CASE PortsCheck \/ Begin
  BY <1>1, <1>4, BeginStep
<1>5. CASE Visit
  BY <1>1, <1>5, VisitStep
<1>6. CASE Renew \/ RenewPort \/ FindPort
  BY <1>1, <1>6, SyncStep
<1>7. CASE Copy
  BY <1>1, <1>7, CopyStep
<1>15. CASE CopyFreed
  BY <1>15, EndsStep DEF CopyFreed
<1>8. CASE Connected \/ RemovePort
  BY <1>1, <1>8, ConnectStep
<1>9. CASE Keep
  BY <1>1, <1>9, KeepStep
<1>10. CASE Erase
  BY <1>1, <1>10, EraseStep
<1>11. CASE ErasePast
  BY <1>11, ErasePastStep
<1>12. ASSUME NEW t \in Ids, RelayEnds(t) \/ TunnelAges(t) PROVE IInv'
  BY <1>1, <1>12, ElsewhereStep
<1>13. ASSUME NEW t \in Ids, RelayKills(t) PROVE IInv'
  BY <1>13, EndsStep DEF RelayKills
<1>14. CASE UNCHANGED vars
  <2>1. TypeOK' /\ HandlersKnow'
    BY <1>14 DEF IInv, TypeOK, HandlersKnow, vars
  <2>2. PassInv' /\ PassSafe'
    BY <1>14 DEF IInv, PassInv, PassSafe, Unlocked, At, Slots, vars
  <2> QED
    BY <1>1, <2>1, <2>2 DEF IInv, PortsFine
<1> QED
  BY <1>2, <1>3, <1>4, <1>5, <1>6, <1>7, <1>8, <1>9, <1>10, <1>11, <1>12, <1>13, <1>14, <1>15
     DEF Next, Check

THEOREM TunnelsInvariant == Spec => []IInv
<1>1. Init => IInv
  BY InitInv
<1>2. IInv /\ [Next]_vars => IInv'
  BY NextInv
<1> QED
  BY <1>1, <1>2, PTL DEF Spec

(* No two slots of the vector are of one tunnel, every slot is of one that *)
(* is alive, and every structure stays well formed, although the vector is *)
(* searched by halves in an order it is not sorted by and is erased from   *)
(* in the middle of a pass.                                                *)
THEOREM TypeCorrect == Spec => []TypeOK
<1>1. IInv => TypeOK
  BY DEF IInv
<1> QED
  BY <1>1, TunnelsInvariant, PTL

(* The check thread leaves the vector, or what lies behind its end, only   *)
(* in a pass that erases two tunnels; and tcp_tunnel::start never asserts: *)
(* between the look at `start` and the call nobody else starts the tunnel. *)
THEOREM PassIsSafe == Spec => []PassSafe
<1>1. IInv => PassSafe
  BY DEF IInv
<1> QED
  BY <1>1, TunnelsInvariant, PTL

(* get_notdad never answers the node that is given up, whoever the father  *)
(* is and however short the table (of three or more).                      *)
THEOREM SyncLeaves == Spec => []SyncMovesOn
<1>1. IInv => SyncMovesOn
  BY DEF IInv, PassInv, SyncMovesOn
<1> QED
  BY <1>1, TunnelsInvariant, PTL
=============================================================================
