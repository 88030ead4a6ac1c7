------------------------------ MODULE MCReceive ------------------------------
(* Small instances of Receive: two tags and two objects.                   *)
EXTENDS Receive, TLC

CONSTANTS t1, t2, o1, o2, c1, c2, p1, p2

MCCommitOf == (o1 :> c1) @@ (o2 :> c2)

\* One historical revision item selects t1; t2 has none.
OneHistorical == (p1 :> t1)

\* A historical item selects t1, an active one selects t2.
OneOfEach == (p1 :> t1) @@ (p2 :> t2)

\* No Marketplace has selected the Plugin yet.
NoItems == [p \in {} |-> t1]

SessionSymmetry == Permutations(Sessions)
=============================================================================
