------------------------------- MODULE MCJoin -------------------------------
(* Instances of Join for TLC: keys of one byte.                            *)
EXTENDS Join, TLC

K(n) == <<n>>
MCNoPeer == <<>>
None == {}

Seeds2 == {K(0), K(9)}

(* One newcomer, nearer to the seed that it does not know.                 *)
Newcomer == {K(3)}
LiveSeeds == {K(0), K(4)}
LivePeers == LiveSeeds \cup Newcomer
LiveTable == [p \in LivePeers |-> IF p \in Newcomer THEN {K(0)} ELSE LiveSeeds \ {p}]

(* One newcomer, and two peers that know a seed but are nearest to each    *)
(* other.                                                                  *)
Pair == {K(6), K(7)}
PairPeers == Seeds2 \cup Newcomer \cup Pair
PairActive == Newcomer \cup Pair
PairTable == [p \in PairPeers |-> IF p \in Pair THEN {K(0)} \cup (Pair \ {p})
                                 ELSE IF p \in Newcomer THEN {K(0)} ELSE Seeds2 \ {p}]
=============================================================================
