-------------------------- MODULE MCShortestPaths --------------------------
(***************************************************************************)
(* Instances of ShortestPaths: all small graphs over four items for each of *)
(* the algorithms, and smaller ones with items that are no nodes, unusable  *)
(* weights, two labels, and several sources.                                *)
(***************************************************************************)
EXTENDS ShortestPaths, TLC

CONSTANTS Road, Rail, h1, h2

Four == 1 .. 4
Hashes == (Road :> h1) @@ (Rail :> h2)

(* From 1 towards 4; no search looks at what leaves the target, and what     *)
(* enters the start only matters as a cycle.                                 *)
Pairs == {<<1, 2>>, <<1, 3>>, <<1, 4>>, <<2, 1>>, <<2, 3>>, <<2, 4>>, <<3, 2>>, <<3, 4>>}

Flat == [i \in Four |-> 0]
Estimates == {[Flat EXCEPT ![2] = x, ![3] = y] : x \in {0, 2}, y \in {0, 2}}
NoEstimate == {[Flat EXCEPT ![i] = Missing] : i \in Four}

Ask(algorithm, label, side, end, list) ==
    [algorithm |-> algorithm, label |-> label, side |-> side, end |-> end,
     sources |-> list]
ToGoal(algorithm) == Ask(algorithm, Road, "To", 4, <<1>>)
FromStart(algorithm) == Ask(algorithm, Road, "From", 1, <<4>>)

Family(queries, most, weights, labels) ==
    [queries |-> queries, pairs |-> Pairs, most |-> most, weights |-> weights,
     labels |-> labels, nodes |-> {Four}, estimates |-> {Flat}]

Hops == Family({ToGoal("BFS"), FromStart("BFS")}, 8, {1}, {Road})
Weighted == Family({ToGoal("Dijkstra")}, 4, {0, 1, 3}, {Road})
Guided ==
    [Family({ToGoal("AStar")}, 4, {0, 1, 2}, {Road}) EXCEPT !.estimates = Estimates]
(* The source yields nodes; the end of the step and what lies between need   *)
(* not be one.                                                              *)
NoNodes ==
    [Family({ToGoal("BFS"), ToGoal("Dijkstra"), ToGoal("AStar")}, 3, {1}, {Road})
        EXCEPT !.nodes = {{1, 2, 4}, {1, 2, 3}}]
NoStart ==
    [Family({FromStart("BFS"), FromStart("Dijkstra"), FromStart("AStar")}, 2, {1}, {Road})
        EXCEPT !.nodes = {{2, 3, 4}}]
BadWeights ==
    Family({ToGoal("Dijkstra")}, 2, {1, 0 - 1, Missing, Unreadable}, {Road})
BadEstimates ==
    [Family({ToGoal("AStar")}, 2, {1}, {Road}) EXCEPT !.estimates = NoEstimate]
Labelled ==
    Family({ToGoal("BFS"), Ask("BFS", NoLabel, "To", 4, <<1>>),
            ToGoal("Dijkstra")}, 3, {1}, {Road, Rail})
Several ==
    Family({Ask("BFS", Road, "To", 4, <<2, 4>>), Ask("Dijkstra", Road, "To", 4, <<1, 4>>)},
           3, {1}, {Road})

Small ==
    {Hops, Weighted, Guided, NoNodes, NoStart, BadWeights, BadEstimates, Labelled, Several}
=============================================================================
