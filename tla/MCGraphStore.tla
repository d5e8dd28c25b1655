---------------------------- MODULE MCGraphStore ----------------------------
(***************************************************************************)
(* Instances of GraphStore for TLC: schemas, and the bounds of each run.    *)
(***************************************************************************)
EXTENDS GraphStore, TLC

CONSTANTS n1, n2, e1, e2, v1, User, Page, Knows, Likes, h1, h2, name, a, b

(* Two edge labels that share one hash.                                     *)
SameHash == (Knows :> h1) @@ (Likes :> h1)
NoHashes == [l \in EdgeLabels |-> h1]

NoDefaults == [label \in NodeLabels |-> EmptyTable]

UserName == {<<User, name>>}
PageName == {<<Page, name>>}
NoIndex == {}
AllLabels == NodeLabels
OnlyPages == {Page}

Items == Permutations(NodeIds) \cup Permutations(EdgeIds)
ItemsAndValues == Items \cup Permutations(Values)
=============================================================================
