------------------------------ MODULE MCStore ------------------------------
(* An instance of Store for TLC: keys of two bytes, so that keys tie and   *)
(* byte sums are shared.                                                   *)
EXTENDS Store, TLC

A == <<0, 1>>     \* as near to <<1, x>> as C
B == <<1, 0>>     \* the byte sum of A
C == <<2, 1>>

(* Two keys share an address.  This peer's first key pair is new, or that  *)
(* of a node that others speak of, or that of the only row of the table.   *)
MCSpoken == {<<A, "a">>, <<B, "b">>, <<C, "b">>}
MCFirstRows == {<<A, "a">>}
MCOwnKeys == {<<1, 1>>, A, B}

Symmetry == Permutations(Handlers)
=============================================================================
