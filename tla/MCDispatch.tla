----------------------------- MODULE MCDispatch -----------------------------
(* An instance of Dispatch for TLC: two addresses share a cookie.          *)
EXTENDS Dispatch

P(c, a, answer, slow) == [cookie |-> c, ip |-> a, answer |-> answer, slow |-> slow]

MCPackets == {P(1, "a", FALSE, TRUE), P(1, "b", TRUE, FALSE), P(2, "a", FALSE, TRUE)}
=============================================================================
