------------------------------- MODULE MCFind -------------------------------
(* Instances of Find for TLC: keys of one byte.                            *)
EXTENDS Find, TLC

K(n) == <<n>>
MCNoNode == <<>>
A == K(2)
B == K(7)
UsersAB == {A, B}
OnlyA == {A}

(* Three nodes, of which two are equally near to B and neighbours.         *)
Near == K(1)
Tie1 == K(6)
Tie2 == K(8)
Nodes3 == {Near, Tie1, Tie2}
WalkTopology ==
    {[father |-> (A :> Near @@ B :> Tie1),
      links  |-> (Near :> {Tie2} @@ Tie1 :> {Near, Tie2} @@ Tie2 :> {Tie1})]}

(* Bound where two users search: none for oneself, which other runs have.  *)
AsksOthers == \A u \in Users : api[u] # u

(* Two nodes that know each other.                                         *)
Nodes2 == {Near, Tie1}
PairTopology ==
    {[father |-> (A :> Near @@ B :> Tie1), links |-> (Near :> {Tie1} @@ Tie1 :> {Near})]}

(* Three nodes linked in every way in which a node has no nearer neighbour *)
(* to a user exactly if it is the user's father (Findable).                *)
ReachNodes == {Near, K(4), K(8)}
ReachTopologies ==
    {g \in [father : [UsersAB -> ReachNodes], links : [ReachNodes -> (SUBSET ReachNodes) \ {{}}]] :
        \A n \in ReachNodes :
            /\ n \notin g.links[n]
            /\ \A p \in UsersAB :
                  n = g.father[p] <=> ~\E l \in g.links[n] : Closer(p, l, n)}
=============================================================================
