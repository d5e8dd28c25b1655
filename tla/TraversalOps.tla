---------------------------- MODULE TraversalOps ----------------------------
(* The operators a compiled query is made of: the sources, the steps and the *)
(* mutations of sparrow_engine/traversal_core/ops, as functions of the graph *)
(* a transaction sees.  An iterator is the sequence of the items it yields.  *)
(* An item is the copy of a record that TraversalValue holds: it keeps the   *)
(* property f the record had when it was read.  A record that cannot be read *)
(* is an item too, the Err of the iterator.                                  *)
(*                                                                           *)
(* A graph g has                                                             *)
(*   g.nodes    id -> [label, f]          f is None when the node lacks it   *)
(*   g.edges    id -> [label, from, to]                                      *)
(*   g.vectors  id -> [label]                                                *)
(*   g.next     the next id to be given, where one may be                    *)
(* with ids in ascending order of creation, as the version 6 UUIDs are.      *)
EXTENDS Integers, Sequences, FiniteSets, SequencesExt

CONSTANT None                           \* an absent property

ASSUME NoneAssumption == None \notin Int

Item(kind, id, label, f, from, to) ==
    [kind |-> kind, id |-> id, label |-> label, f |-> f, from |-> from,
     to |-> to]

ErrItem == Item("error", 0, None, None, 0, 0)

NodeItem(g, i) ==
    IF i \in DOMAIN g.nodes
    THEN Item("node", i, g.nodes[i].label, g.nodes[i].f, 0, 0)
    ELSE ErrItem

EdgeItem(g, i) ==
    IF i \in DOMAIN g.edges
    THEN Item("edge", i, g.edges[i].label, None, g.edges[i].from,
              g.edges[i].to)
    ELSE ErrItem

VectorItem(g, i) ==
    IF i \in DOMAIN g.vectors
    THEN Item("vector", i, g.vectors[i].label, None, 0, 0)
    ELSE ErrItem

(* What Read gives for each number of a set, in ascending order; for a set   *)
(* of ids that is the order of a cursor over their table.  Written without   *)
(* a sort or a recursion, so that theorems can be proved of it.              *)
InOrder(S, Read(_)) ==
    LET At(p) == CHOOSE i \in S : Cardinality({j \in S : j < i}) = p - 1
    IN  [p \in 1 .. Cardinality(S) |-> Read(At(p))]

(* Iterator::filter.                                                         *)
Passing(items, Test(_)) ==
    InOrder({k \in DOMAIN items : Test(items[k])}, LAMBDA k : items[k])

Readable(items) == Passing(items, LAMBDA it : it.kind # "error")

(* filter_map(..).flatten() over the items of an iterator.                   *)
FlatMap(items, Op(_)) ==
    FlattenSeq([k \in DOMAIN items |-> Op(items[k])])

-----------------------------------------------------------------------------
(* Sources.                                                                  *)

NFromType(g, label) ==
    InOrder({i \in DOMAIN g.nodes : g.nodes[i].label = label},
            LAMBDA i : NodeItem(g, i))

NFromIndex(g, label, v) ==
    InOrder({i \in DOMAIN g.nodes : g.nodes[i] = [label |-> label, f |-> v]},
            LAMBDA i : NodeItem(g, i))

(* The label a query asks for is not passed to n_from_id.                    *)
NFromID(g, i) == <<NodeItem(g, i)>>

EFromID(g, i) == <<EdgeItem(g, i)>>

VFromID(g, i) == <<VectorItem(g, i)>>

EFromType(g, label) ==
    InOrder({i \in DOMAIN g.edges : g.edges[i].label = label},
            LAMBDA i : EdgeItem(g, i))

VFromType(g, label) ==
    InOrder({i \in DOMAIN g.vectors : g.vectors[i].label = label},
            LAMBDA i : VectorItem(g, i))

-----------------------------------------------------------------------------
(* Steps.                                                                    *)

Outgoing(g, i, label) ==
    {e \in DOMAIN g.edges : g.edges[e].label = label /\ g.edges[e].from = i}

Incoming(g, i, label) ==
    {e \in DOMAIN g.edges : g.edges[e].label = label /\ g.edges[e].to = i}

End(g, i, hop) == IF hop = "node" THEN NodeItem(g, i) ELSE VectorItem(g, i)

(* out_node and out_vec: what the edges of each item lead to, with           *)
(* repetitions; an end that cannot be read is skipped.                       *)
Out(g, items, label, hop) ==
    FlatMap(items, LAMBDA it :
        Readable(InOrder(Outgoing(g, it.id, label),
                         LAMBDA e : End(g, g.edges[e].to, hop))))

In(g, items, label, hop) ==
    FlatMap(items, LAMBDA it :
        Readable(InOrder(Incoming(g, it.id, label),
                         LAMBDA e : End(g, g.edges[e].from, hop))))

OutE(g, items, label) ==
    FlatMap(items, LAMBDA it :
        InOrder(Outgoing(g, it.id, label), LAMBDA e : EdgeItem(g, e)))

InE(g, items, label) ==
    FlatMap(items, LAMBDA it :
        InOrder(Incoming(g, it.id, label), LAMBDA e : EdgeItem(g, e)))

Edges(items) == Passing(items, LAMBDA it : it.kind = "edge")

(* from_n, from_v: whatever is not an edge is passed over.                   *)
From(g, items, hop) ==
    LET es == Edges(items) IN [k \in DOMAIN es |-> End(g, es[k].from, hop)]

(* to_n, to_v: unlike from_v, to_v passes over a vector that is not there.   *)
To(g, items, hop) ==
    LET es == Edges(items)
        ends == [k \in DOMAIN es |-> End(g, es[k].to, hop)]
    IN  IF hop = "vector" THEN Readable(ends) ELSE ends

(* filter_ref: an item that is an Err does not pass.                         *)
FilterRef(items, Test(_)) ==
    Passing(items, LAMBDA it : it.kind # "error" /\ Test(it))

(* range: the items from position start up to, not including, end.           *)
Range_(items, start, end) ==
    SubSeq(items, start + 1, IF end < Len(items) THEN end ELSE Len(items))

(* order_by_asc, order_by_desc: sorted_by is stable; what lacks the property *)
(* comes last in either order.                                               *)
Sooner(u, v, order) ==
    CASE u # None /\ v # None -> IF order = "asc" THEN u < v ELSE v < u
      [] OTHER -> u # None /\ v = None

OrderBy(items, order) ==
    LET Goes(j, k) == \/ Sooner(items[j].f, items[k].f, order)
                      \/ j < k /\ ~Sooner(items[k].f, items[j].f, order)
        At(p) == CHOOSE k \in DOMAIN items :
                     Cardinality({j \in DOMAIN items : Goes(j, k)}) = p - 1
    IN  [p \in DOMAIN items |-> items[At(p)]]

(* Exist::exists looks for an item that is not an Err.                       *)
Exists(items) == Readable(items) # <<>>

(* The items of each value of f, the absent value included: aggregate_by     *)
(* keeps them, group_by only counts them.                                    *)
WithValue(items, v) == {k \in DOMAIN items : items[k].f = v}

AggregateBy(items) ==
    [v \in {items[k].f : k \in DOMAIN items} |->
        [values |-> {items[k] : k \in WithValue(items, v)},
         count |-> Cardinality(WithValue(items, v))]]

GroupBy(items) ==
    [v \in {items[k].f : k \in DOMAIN items} |->
        [values |-> {}, count |-> Cardinality(WithValue(items, v))]]

-----------------------------------------------------------------------------
(* Mutations: the graph after, and the items the iterator yields.            *)

PutNodes(g, S, Record(_)) ==
    [g EXCEPT !.nodes = [i \in DOMAIN g.nodes \cup S |->
                            IF i \in S THEN Record(i) ELSE g.nodes[i]]]

(* update: every item is written back as its copy with the new value,        *)
(* whether or not the record is still there.                                 *)
Update(g, items, v) ==
    LET nodes == {k \in DOMAIN items : items[k].kind = "node"}
        LabelOf(i) == items[CHOOSE k \in nodes : items[k].id = i].label
    IN  [graph |-> PutNodes(g, {items[k].id : k \in nodes},
                            LAMBDA i : [label |-> LabelOf(i), f |-> v]),
         items |-> [k \in DOMAIN items |->
                       IF k \in nodes THEN [items[k] EXCEPT !.f = v]
                       ELSE ErrItem]]

(* v6_uuid: an id above all that were ever given.                            *)
FreshId(g) == g.next

(* upsert_n_with_defaults: a node is created only when there is no item at   *)
(* all; otherwise the first is updated, unless nothing would change, and the *)
(* others are left alone.                                                    *)
UpsertN(g, items, label, v) ==
    CASE items = <<>> ->
            LET i == FreshId(g)
            IN  [graph |-> [PutNodes(g, {i}, LAMBDA j : [label |-> label, f |-> v])
                               EXCEPT !.next = i + 1],
                 items |-> <<Item("node", i, label, v, 0, 0)>>]
      [] items # <<>> /\ Head(items).f = v ->
            [graph |-> g, items |-> <<Head(items)>>]
      [] OTHER -> Update(g, <<Head(items)>>, v)

WithoutEdges(g, S) ==
    [g EXCEPT !.edges = [e \in DOMAIN g.edges \ S |-> g.edges[e]]]

Touching(g, i) ==
    {e \in DOMAIN g.edges : i \in {g.edges[e].from, g.edges[e].to}}

WithoutNode(g, i) ==
    [WithoutEdges(g, Touching(g, i)) EXCEPT
        !.nodes = [j \in DOMAIN g.nodes \ {i} |-> g.nodes[j]]]

WithoutVector(g, i) ==
    [WithoutEdges(g, Touching(g, i)) EXCEPT
        !.vectors = [j \in DOMAIN g.vectors \ {i} |-> g.vectors[j]]]

(* One item of drop_traversal.  drop_node and drop_edge fail when the record *)
(* is gone, drop_vector does not.                                            *)
DropItem(acc, it) ==
    CASE ~acc.ok -> acc
      [] acc.ok /\ it.kind = "node" ->
            [ok |-> it.id \in DOMAIN acc.graph.nodes,
             graph |-> WithoutNode(acc.graph, it.id)]
      [] acc.ok /\ it.kind = "edge" ->
            [ok |-> it.id \in DOMAIN acc.graph.edges,
             graph |-> WithoutEdges(acc.graph, {it.id})]
      [] acc.ok /\ it.kind = "vector" ->
            [ok |-> TRUE, graph |-> WithoutVector(acc.graph, it.id)]

NothingDropped(g) == [ok |-> TRUE, graph |-> g]

(* drop_traversal: item by item, up to the first failure.                    *)
DropTraversal(g, items) ==
    LET rs == Readable(items)
        Upto[n \in 0 .. Len(rs)] ==
            IF n = 0 THEN NothingDropped(g) ELSE DropItem(Upto[n - 1], rs[n])
    IN  Upto[Len(rs)]
=============================================================================
