------------------------------- MODULE Ports -------------------------------
(***************************************************************************)
(* The TCP ports a peer has agreed on, or is about to agree on, with other *)
(* peers: structs::ports and ports_handler (src/src/storage/ports.cpp).    *)
(*                                                                         *)
(* Each operation runs under ports_handler::mute and is given here as what *)
(* it makes of the vector, a set of entries: the vector is sorted by byte  *)
(* sums and never holds a peer twice, so its order does not show, except   *)
(* to find(), whose copy after the unlock is modelled in Tunnels.          *)
(*                                                                         *)
(* Definitions ending in _Wrong are deliberate defects; each is put in the *)
(* place of the definition after it to see that a property notices.        *)
(***************************************************************************)
EXTENDS Naturals, FiniteSets

CONSTANTS
    Peers,      \* the peers that may be in the vector, by their keys
    FIRST,      \* the first port that is used: 49160
    LAST,       \* the last port there is: 65535
    Busy        \* ports that other programs have bound (0 stands for any port)

ASSUME PortsAssumption ==
    /\ FIRST \in Nat \ {0} /\ LAST \in Nat /\ FIRST <= LAST
    /\ Busy \subseteq 1..LAST

(* old: since when 20 s have passed.                                       *)
Entry == [hash : Peers, port : Nat, confirm : BOOLEAN, old : BOOLEAN]
Fresh(h, port, confirm) == [hash |-> h, port |-> port, confirm |-> confirm, old |-> FALSE]

Of(ports, h) == {e \in ports : e.hash = h}
Used(ports) == {e.port : e \in ports}

(* sys_free: bind() gets 16 bits of the number.                            *)
sys_free(port) == port % (LAST + 1) \notin Busy

is_free_Wrong(ports, port) == sys_free(port)
is_free(ports, port) == port \notin Used(ports) /\ sys_free(port)

(* free: upwards from FIRST, without an end: past the last port it ends at *)
(* a number that bind() takes for 0, at the latest.                        *)
free(ports) ==
    LET candidates == FIRST..(FIRST + LAST + 1 + Cardinality(ports) * (LAST + 1))
    IN  CHOOSE p \in candidates :
            /\ is_free(ports, p)
            /\ \A q \in candidates : is_free(ports, q) => p <= q

(* reg: a port that the peer h named.                                      *)
Accepts(ports, port, h) ==
    /\ port >= FIRST
    /\ IF Of(ports, h) # {} THEN \E e \in Of(ports, h) : e.port = port
       ELSE is_free(ports, port)

reg(ports, port, h) ==
    IF ~Accepts(ports, port, h) THEN ports
    ELSE IF Of(ports, h) # {}
         THEN {[e EXCEPT !.confirm = (@ \/ e.hash = h)] : e \in ports}
         ELSE ports \cup {Fresh(h, port, TRUE)}

(* try_reg: a port to name to h.  An entry of h gets another port and      *)
(* keeps its time and whether its former port was confirmed.               *)
try_reg_Wrong(ports, h) == ports \cup {Fresh(h, free(ports), FALSE)}
try_reg(ports, h) ==
    LET port == free(ports)
    IN  IF Of(ports, h) # {}
        THEN {[e EXCEPT !.port = IF e.hash = h THEN port ELSE @] : e \in ports}
        ELSE ports \cup {Fresh(h, port, FALSE)}

(* rm_port removes one entry with this number, if there is one.            *)
rm_port(ports, port) ==
    IF port \in Used(ports) THEN {ports \ {e} : e \in {f \in ports : f.port = port}}
    ELSE {ports}

(* check: whatever became of them.                                         *)
check(ports) == {e \in ports : ~e.old}
=============================================================================
