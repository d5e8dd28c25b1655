--------------------------- MODULE ShortestPaths ---------------------------
(***************************************************************************)
(* The shortest-path steps of a traversal: ShortestPathIterator of          *)
(* traversal_core/ops/util/paths.rs, which runs one search for each node    *)
(* its source yields, and the generated query, which collects the paths.    *)
(*                                                                         *)
(* A query reads one snapshot.  An action is one round of a loop of the     *)
(* code: the pop of an entry, one adjacency entry of the popped item, one   *)
(* step back along the parents.  Weights and estimates are numbers, sums    *)
(* are exact.                                                              *)
(***************************************************************************)
EXTENDS Integers, FiniteSets, Sequences, LmdbTables

CONSTANTS
    Ids,            \* numbers: the heaps break ties by the greater id
    LabelHash,      \* hash_label of each edge label
    NoLabel,        \* a step without a type argument
    Missing,        \* a property that is absent
    Unreadable,     \* a weight that is a number of another type than F64
    Families        \* families of queries and of snapshots they read

Labels == DOMAIN LabelHash
Weights == Int \cup {Missing, Unreadable}
Query == [algorithm : {"BFS", "Dijkstra", "AStar"}, label : Labels \cup {NoLabel},
          side : {"From", "To"}, end : Ids, sources : Seq(Ids)]

ASSUME IdAssumption == Ids \subseteq Nat /\ IsFiniteSet(Ids)
ASSUME ValueAssumption == Missing \notin Int /\ Unreadable \notin Int
ASSUME FamilyAssumption ==
    \A f \in Families :
        /\ f.queries \subseteq Query
        /\ f.nodes \subseteq SUBSET Ids
        /\ f.pairs \subseteq Ids \X Ids
        /\ f.labels \subseteq Labels
        /\ f.weights \subseteq Weights
        /\ f.estimates \subseteq [Ids -> Int \cup {Missing}]

VARIABLES
    query,      \* algorithm, label, side, end and sources of the step
    snapshot,   \* nodes, edges and the estimate property of the nodes
    sources,    \* nodes the source has still to yield
    phase,      \* what the iterator does
    from, to,   \* ends of the search
    queue,      \* VecDeque of the breadth-first search
    heap,       \* BinaryHeap of the other two
    best,       \* distances or g_scores; visited, to which the number of
                \* edges behind an item is added as a history
    parent,     \* id -> the edge it was reached by
    here,       \* the entry popped last
    scan,       \* adjacency entries of here that are still to come
    walk, path, \* reconstruct_path: the current id, the edges behind it
    paths,      \* what collect() has so far
    error       \* the Err that ended the query

search == <<from, to, queue, heap, best, parent, here, scan>>
pathsVars == <<query, snapshot, sources, phase, search, walk, path, paths, error>>

Entry(i, g, f) == [id |-> i, g |-> g, f |-> f]

(* Any snapshot of the family: at most f.most of its pairs of items are      *)
(* joined by an edge each.                                                  *)
PathsInit ==
    /\ \E f \in Families :
          /\ query \in f.queries
          /\ \E N \in f.nodes, h \in f.estimates,
                P \in {Q \in SUBSET f.pairs : Cardinality(Q) <= f.most} :
                \E c \in [P -> f.labels \X f.weights] :
                    snapshot =
                        [nodes |-> N, estimate |-> h,
                         edges |-> {[from |-> p[1], to |-> p[2],
                                     label |-> c[p][1], weight |-> c[p][2]] : p \in P}]
    /\ sources = query.sources
    /\ phase = "next"
    /\ from = query.end
    /\ to = query.end
    /\ queue = <<>>
    /\ heap = {}
    /\ best = EmptyTable
    /\ parent = EmptyTable
    /\ here = Entry(query.end, 0, 0)
    /\ scan = {}
    /\ walk = query.end
    /\ path = <<>>
    /\ paths = <<>>
    /\ error = "none"

(* The generated query ends in collect::<Result<Vec<_>, _>>()?, which stops   *)
(* at the first Err.                                                        *)
Fail(why) ==
    /\ phase' = "failed"
    /\ error' = why
    /\ UNCHANGED <<walk, path, paths>>

(* A panic aborts the process.                                               *)
Panic(why) ==
    /\ phase' = "down"
    /\ error' = why
    /\ UNCHANGED <<walk, path, paths>>

Rebuild(t) ==
    /\ phase' = "rebuild"
    /\ walk' = t
    /\ path' = <<>>
    /\ UNCHANGED <<paths, error>>

GoOn ==
    /\ phase' = "search"
    /\ UNCHANGED <<walk, path, paths, error>>

-----------------------------------------------------------------------------
(* ShortestPathIterator::next: To(id) searches from the yielded node, From   *)
(* (id) towards it.                                                          *)

Start == IF query.side = "From" THEN query.end ELSE Head(sources)
Goal == IF query.side = "From" THEN Head(sources) ELSE query.end

Begin(algorithm) ==
    /\ phase = "next"
    /\ sources # <<>>
    /\ query.algorithm = algorithm
    /\ sources' = Tail(sources)
    /\ from' = Start
    /\ to' = Goal
    /\ best' = Put(EmptyTable, Start, 0)
    /\ parent' = EmptyTable
    /\ scan' = {}
    /\ UNCHANGED <<query, snapshot, here>>

StartBfs ==
    /\ Begin("BFS")
    /\ queue' = <<Start>>
    /\ heap' = {}
    /\ IF Start = Goal THEN Rebuild(Goal) ELSE GoOn

StartDijkstra ==
    /\ Begin("Dijkstra")
    /\ heap' = {Entry(Start, 0, 0)}
    /\ queue' = <<>>
    /\ GoOn

(* property_heuristic.                                                       *)
Estimate(i) == snapshot.estimate[i]

StartAStar ==
    /\ Begin("AStar")
    /\ queue' = <<>>
    /\ \/ /\ Start \in snapshot.nodes
          /\ Estimate(Start) # Missing
          /\ heap' = {Entry(Start, 0, Estimate(Start))}
          /\ GoOn
       \/ /\ Start \notin snapshot.nodes
          /\ heap' = {}
          /\ Fail("node")
       \/ /\ Start \in snapshot.nodes
          /\ Estimate(Start) = Missing
          /\ heap' = {}
          /\ Fail("estimate")

Finish ==
    /\ phase = "next"
    /\ sources = <<>>
    /\ phase' = "done"
    /\ UNCHANGED <<query, snapshot, sources, search, walk, path, paths, error>>

-----------------------------------------------------------------------------
(* Pops.                                                                     *)

(* The prefix scan compares the hash of the label, not the label.            *)
OutEdges(i) ==
    {e \in snapshot.edges :
        /\ e.from = i
        /\ query.label = NoLabel \/ LabelHash[e.label] = LabelHash[query.label]}

Expand(x) ==
    /\ here' = x
    /\ scan' = OutEdges(x.id)
    /\ GoOn

(* Ord of DijkstraState and AStarState.                                      *)
Before(x, y) == x.f < y.f \/ (x.f = y.f /\ x.id > y.id)
Top == CHOOSE x \in heap : \A y \in heap \ {x} : Before(x, y)

Searching == phase = "search" /\ scan = {}

PopQueue ==
    /\ Searching
    /\ queue # <<>>
    /\ queue' = Tail(queue)
    /\ Expand(Entry(Head(queue), best[Head(queue)], 0))
    /\ UNCHANGED <<query, snapshot, sources, from, to, heap, best, parent>>

Stale(x) == x.g > best[x.id]

(* dijkstra_shortest_path looks whether an entry is stale and then whether   *)
(* it is the target, astar_shortest_path the other way round.                *)
Arrives(x) == x.id = to /\ (query.algorithm = "AStar" \/ ~Stale(x))

PopHeap ==
    /\ Searching
    /\ heap # {}
    /\ heap' = heap \ {Top}
    /\ \/ /\ Arrives(Top)
          /\ Rebuild(to)
          /\ UNCHANGED <<here, scan>>
       \/ /\ ~Arrives(Top)
          /\ Stale(Top)
          /\ GoOn
          /\ UNCHANGED <<here, scan>>
       \/ /\ ~Arrives(Top)
          /\ ~Stale(Top)
          /\ Expand(Top)
    /\ UNCHANGED <<query, snapshot, sources, from, to, queue, best, parent>>

Exhausted ==
    /\ Searching
    /\ queue = <<>>
    /\ heap = {}
    /\ Fail("not found")
    /\ UNCHANGED <<query, snapshot, sources, search>>

-----------------------------------------------------------------------------
(* One adjacency entry of the popped item.  Their order is that of the edge  *)
(* identifiers, which no property of the graph determines.                   *)

Visit(e) ==
    /\ phase = "search"
    /\ query.algorithm = "BFS"
    /\ scan' = scan \ {e}
    /\ \/ /\ e.to \in DOMAIN best
          /\ GoOn
          /\ UNCHANGED <<best, parent, queue>>
       \/ /\ e.to \notin DOMAIN best
          /\ best' = Put(best, e.to, here.g + 1)
          /\ parent' = Put(parent, e.to, e)
          /\ IF e.to = to
             THEN Rebuild(to) /\ UNCHANGED queue
             ELSE queue' = Append(queue, e.to) /\ GoOn
    /\ UNCHANGED <<query, snapshot, sources, from, to, heap, here>>

(* Mutants: an id keeps the first distance found; an equal one replaces it.  *)
ImprovesFirst(i, g) == i \notin DOMAIN best
ImprovesEqual(i, g) == i \in DOMAIN best => g <= best[i]

Improves(i, g) == i \in DOMAIN best => g < best[i]

NodesThere(e) == {here.id, e.to} \subseteq snapshot.nodes

(* get_property(..).ok_or(..)?.as_f64() of the generated closure.            *)
Unweighed(e) ==
    \/ e.weight = Missing /\ Fail("weight")
    \/ e.weight = Unreadable /\ Panic("weight")

Relax(e) ==
    LET g == here.g + e.weight
        h == IF query.algorithm = "AStar" THEN Estimate(e.to) ELSE 0
    IN  \/ /\ e.weight < 0
           /\ Fail("weight")
           /\ UNCHANGED <<best, parent, heap>>
        \/ /\ e.weight >= 0
           /\ ~Improves(e.to, g)
           /\ GoOn
           /\ UNCHANGED <<best, parent, heap>>
        \/ /\ e.weight >= 0
           /\ Improves(e.to, g)
           /\ h = Missing
           /\ Fail("estimate")
           /\ UNCHANGED <<best, parent, heap>>
        \/ /\ e.weight >= 0
           /\ Improves(e.to, g)
           /\ h # Missing
           /\ best' = Put(best, e.to, g)
           /\ parent' = Put(parent, e.to, e)
           /\ heap' = heap \cup {Entry(e.to, g, g + h)}
           /\ GoOn

Weigh(e) ==
    /\ phase = "search"
    /\ query.algorithm # "BFS"
    /\ scan' = scan \ {e}
    /\ \/ /\ ~NodesThere(e)
          /\ Fail("node")
          /\ UNCHANGED <<best, parent, heap>>
       \/ /\ NodesThere(e)
          /\ Unweighed(e)
          /\ UNCHANGED <<best, parent, heap>>
       \/ /\ NodesThere(e)
          /\ e.weight \notin {Missing, Unreadable}
          /\ Relax(e)
    /\ UNCHANGED <<query, snapshot, sources, from, to, queue, here>>

-----------------------------------------------------------------------------
(* reconstruct_path looks every node up before its parent, which it indexes  *)
(* without a check: an id without a parent would be a panic.                 *)

StepBack ==
    /\ phase = "rebuild"
    /\ walk # from
    /\ \/ walk \notin snapshot.nodes /\ Fail("node")
       \/ /\ walk \in snapshot.nodes
          /\ path' = <<parent[walk]>> \o path
          /\ walk' = parent[walk].from
          /\ UNCHANGED <<phase, paths, error>>
    /\ UNCHANGED <<query, snapshot, sources, search>>

YieldPath ==
    /\ phase = "rebuild"
    /\ walk = from
    /\ \/ /\ from \in snapshot.nodes
          /\ paths' = Append(paths, [from |-> from, to |-> to, edges |-> path])
          /\ phase' = "next"
          /\ UNCHANGED <<walk, path, error>>
       \/ /\ from \notin snapshot.nodes
          /\ Fail("node")
    /\ UNCHANGED <<query, snapshot, sources, search>>

-----------------------------------------------------------------------------
PathsNext ==
    \/ StartBfs
    \/ StartDijkstra
    \/ StartAStar
    \/ PopQueue
    \/ PopHeap
    \/ Exhausted
    \/ \E e \in scan : Visit(e) \/ Weigh(e)
    \/ StepBack
    \/ YieldPath
    \/ Finish

PathsSpec == PathsInit /\ [][PathsNext]_pathsVars

(* A query runs on a worker thread, which goes on until the handler returns. *)
FairPathsSpec == PathsSpec /\ WF_pathsVars(PathsNext)

-----------------------------------------------------------------------------
(* What the step promises, in terms of the snapshot: walks over edges of the *)
(* label, and the sums of their weights.                                     *)

Followed == {e \in snapshot.edges : query.label \in {NoLabel, e.label}}

Cost(e) == IF query.algorithm = "BFS" THEN 1 ELSE e.weight

(* The items of every set that holds s and the ends of the edges from it.    *)
ReachedFrom(s) ==
    {i \in Ids : \A I \in SUBSET Ids :
        s \in I /\ (\A e \in Followed : e.from \in I => e.to \in I) => i \in I}

Arcs == {[from |-> e.from, to |-> e.to, cost |-> Cost(e)] : e \in Followed}

(* The costs of the walks from s to each item along the arcs A, by the       *)
(* number of arcs; none has to be longer than a simple path.                 *)
OneMore(A, C) ==
    [i \in Ids |-> C[i] \cup UNION {{c + a.cost : c \in C[a.from]} :
                                        a \in {b \in A : b.to = i}}]

CostsWithin(A, s) ==
    LET C[k \in 0 .. Cardinality(Ids)] ==
            IF k = 0 THEN [i \in Ids |-> IF i = s THEN {0} ELSE {}]
            ELSE OneMore(A, C[k - 1])
    IN  C

WalkCosts(s) == CostsWithin(Arcs, s)[Cardinality(Ids)]

Leaving(I) == {e \in Followed : e.from \in I}

(* No weight the search can meet is negative or none at all, and no estimate *)
(* exceeds the cost of getting there, nor is that of the target below it.    *)
Weighable(s, t) ==
    \/ query.algorithm = "BFS"
    \/ /\ \A e \in Leaving(ReachedFrom(s)) :
             e.weight \notin {Missing, Unreadable} /\ e.weight >= 0
       /\ query.algorithm = "AStar" =>
          /\ snapshot.estimate[t] \in Nat
          /\ \A i \in ReachedFrom(s) :
                /\ snapshot.estimate[i] # Missing
                /\ \A c \in WalkCosts(i)[t] : snapshot.estimate[i] <= c

Total(costs) ==
    LET Sum[k \in 0 .. Len(costs)] == IF k = 0 THEN 0 ELSE Sum[k - 1] + costs[k]
    IN  Sum[Len(costs)]

PathCost(p) == Total([k \in 1 .. Len(p) |-> Cost(p[k])])

IsPath(p) ==
    /\ \A k \in DOMAIN p.edges : p.edges[k] \in Followed
    /\ p.from \in snapshot.nodes
    /\ \A k \in DOMAIN p.edges : p.edges[k].to \in snapshot.nodes
    /\ \A k \in DOMAIN p.edges :
          p.edges[k].from = IF k = 1 THEN p.from ELSE p.edges[k - 1].to
    /\ p.to = IF p.edges = <<>> THEN p.from ELSE p.edges[Len(p.edges)].to

(* Every path collected joins its ends, and is the cheapest one where the    *)
(* weights are not negative and, for A*, the estimates admissible.  An       *)
(* estimate may be inconsistent: A* then expands an item more than once.     *)
(* "Not found" means that there is no way, and any other failure that an     *)
(* item within reach is no node or lacks a usable value.  reconstruct_path   *)
(* meets the start before an id without a parent, and ends: it collects an   *)
(* edge at most once.                                                       *)
AnswerRight ==
    /\ \A p \in {paths[k] : k \in DOMAIN paths} :
          /\ IsPath(p)
          /\ Weighable(p.from, p.to) =>
                \A c \in WalkCosts(p.from)[p.to] : PathCost(p.edges) <= c
    /\ error = "not found" => to \notin ReachedFrom(from)
    /\ error = "node" => ~(ReachedFrom(from) \subseteq snapshot.nodes)
    /\ error \in {"weight", "estimate"} => ~Weighable(from, to)
    /\ phase = "rebuild" /\ walk \in snapshot.nodes \ {from} => walk \in DOMAIN parent

(* The search ends, also around cycles that cost nothing.                    *)
SearchEnds == <>(phase \in {"done", "failed", "down"})
=============================================================================
