---------------------------- MODULE MCHqlCompiler ----------------------------
(* Small instances of HqlCompiler for TLC. *)
EXTENDS HqlCompiler

CONSTANTS a, b, x, y

SmallEnds ==
    [e \in {"HasEmb", "About"} |->
        CASE e = "HasEmb" -> [from |-> "User", to |-> "Emb"]
          [] e = "About" -> [from |-> "Emb", to |-> "User"]]

Node(label, f) == [label |-> label, f |-> f]
Edge(label, from, to) == [label |-> label, from |-> from, to |-> to]

(* Two users who share a vector, which is about both of them, and a post: by *)
(* way of the edges every user and the vector are met more than once.  A     *)
(* lookup of a user by a finds none, by b one.                               *)
Social ==
    [nodes |-> [i \in {1, 2, 3} |->
                   CASE i = 1 -> Node("User", None)
                     [] i = 2 -> Node("User", b)
                     [] i = 3 -> Node("Post", a)],
     edges |-> [i \in {11, 12, 13, 14} |->
                   CASE i = 11 -> Edge("HasEmb", 1, 21)
                     [] i = 12 -> Edge("HasEmb", 2, 21)
                     [] i = 13 -> Edge("About", 21, 1)
                     [] i = 14 -> Edge("About", 21, 2)],
     vectors |-> [i \in {21} |-> [label |-> "Emb"]],
     next |-> 22]

(* Two users a lookup by a finds, one without a value, no post, and edge 11  *)
(* of the other label.                                                       *)
Sparse ==
    [nodes |-> [i \in {1, 2, 4} |-> Node("User", IF i = 4 THEN None ELSE a)],
     edges |-> [i \in {11, 12} |->
                   IF i = 11 THEN Edge("About", 21, 4)
                   ELSE Edge("HasEmb", 1, 21)],
     vectors |-> [i \in {21} |-> [label |-> "Emb"]],
     next |-> 22]

TwoGraphs == {Social, Sparse}

Renaming == Permutations({x, y})
(* Programs that meet a construct of gaps are not followed further. *)
Translated == gaps = {}
=============================================================================
