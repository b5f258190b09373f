----------------------------- MODULE FatherSpec -----------------------------
(***************************************************************************)
(* What the choice of a father promises to the rest of a peer.  There is   *)
(* at most one father, it is one of the nodes this peer has asked, and it  *)
(* is only ever exchanged for a strictly nearer one.  Going back to a      *)
(* farther one takes a period without any, and that begins only when       *)
(* another peer is nearer, or when a father has been silent: one silence   *)
(* that was noticed costs one father, at worst the successor of the one    *)
(* that was silent.                                                        *)
(***************************************************************************)
EXTENDS HashSpace

CONSTANTS me, Others, NoHash

VARIABLES
    parent,     \* the father, or NoHash
    contacted,  \* nodes a REQ_FATHER was sent to
    quiet,      \* no packet of a father for 15 s
    doubted     \* a silence was noticed, and nothing has followed from it yet

Init == parent = NoHash /\ contacted = {} /\ quiet = TRUE /\ doubted = FALSE

Contact(h) ==
    /\ contacted' = contacted \cup {h}
    /\ UNCHANGED <<parent, quiet, doubted>>

Adopt(h) ==
    /\ h \in contacted
    /\ parent = NoHash \/ Closer(me, h, parent)
    /\ parent' = h /\ quiet' = FALSE
    /\ UNCHANGED <<contacted, doubted>>

(* The father speaks, or falls silent.                                     *)
Speak ==
    /\ parent # NoHash /\ quiet' = FALSE
    /\ UNCHANGED <<parent, contacted, doubted>>

FallSilent ==
    /\ quiet' = TRUE
    /\ UNCHANGED <<parent, contacted, doubted>>

(* A silence is noticed; it leads to a drop, or there was nobody to drop.  *)
Doubt ==
    /\ quiet /\ doubted' = TRUE
    /\ UNCHANGED <<parent, contacted, quiet>>

DropSilent ==
    /\ doubted /\ parent' = NoHash /\ doubted' = FALSE
    /\ UNCHANGED <<contacted, quiet>>

Dismiss ==
    /\ parent = NoHash /\ doubted' = FALSE
    /\ UNCHANGED <<parent, contacted, quiet>>

DropFarther ==
    /\ \E n \in Others : Closer(me, n, parent)
    /\ parent' = NoHash
    /\ UNCHANGED <<contacted, quiet, doubted>>

Next ==
    \/ \E h \in Others : Contact(h) \/ Adopt(h)
    \/ Speak \/ FallSilent
    \/ Doubt \/ DropSilent \/ Dismiss \/ DropFarther

Spec == Init /\ [][Next]_<<parent, contacted, quiet, doubted>>
=============================================================================
