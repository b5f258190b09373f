----------------------------- MODULE MCTunnels -----------------------------
(* An instance of Tunnels for TLC: two authors, the one with the smaller   *)
(* byte sum may come first or last.                                        *)
EXTENDS Tunnels

CONSTANTS n1, n2, n3

MCAuthors == {<<5>>, <<6>>}
MCTable == <<n1, n2, n3>>
=============================================================================
