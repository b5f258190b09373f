------------------------------ MODULE MCFather ------------------------------
(* An instance of Father for TLC: keys of one byte, both on one side of    *)
(* `me`, so that no two tie (ties are covered by the theorems).            *)
EXTENDS Father, TLC

MCme == <<2>>
MCNear == {<<1>>, <<0>>}
MCNoHash == <<>>

Symmetry == Permutations(Handlers)
=============================================================================
