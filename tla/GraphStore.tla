---------------------------- MODULE GraphStore ----------------------------
(***************************************************************************)
(* The graph store of sparrow_engine: the record tables nodes_db and        *)
(* edges_db, the two adjacency tables, the secondary indices and the        *)
(* full-text documents, and the operations of traversal_core that write     *)
(* them inside one LMDB write transaction.                                  *)
(*                                                                          *)
(* LMDB admits one write transaction at a time, so the state is one working *)
(* copy (the variables named after the tables) and the contents of the last *)
(* commit, which is what every read transaction sees.  The client of the    *)
(* module is a compiled query: it begins a write transaction, runs          *)
(* statements, and commits at its end; the first statement that fails makes *)
(* it return early, which drops the transaction.                            *)
(***************************************************************************)
EXTENDS Naturals, FiniteSets, LmdbTables

CONSTANTS
    NodeIds, EdgeIds, VectorIds,     \* v6 UUIDs that may be generated
    NodeLabels, EdgeLabels,          \* type names of the schema
    Hashes, LabelHash,               \* hash_label: four bytes per label
    Fields, Values,                  \* property names and their values
    NoProps,                         \* Node::properties = None
    UniqueIndices, PlainIndices,     \* declared <<label, field>> pairs
    Excluded,                        \* bm25_exclude_labels
    Defaults,                        \* schema DEFAULTs of each node label
    MaySkip,                         \* POST /settings toggles the BM25 pause
    FreshFields,                     \* UPDATE may set a field a node lacks
    MissingEnds,                     \* AddE may name an id already dropped
    MaxHeld                          \* variables a query may read twice

Ids == NodeIds \cup VectorIds
Indices == UniqueIndices \cup PlainIndices
PropMaps == Tables(Fields, Values)
Node == [label : NodeLabels, props : PropMaps \cup {NoProps}]
Edge == [label : EdgeLabels, from : Ids, to : Ids]
Copy == [id : NodeIds, val : Node] \cup [id : EdgeIds, val : Edge]

(* The key of an adjacency entry is <<endpoint, label hash>>, its value     *)
(* <<edge id, other endpoint>>.                                             *)
Adjacency == Ids \X Hashes \X EdgeIds \X Ids

ASSUME DisjointIds ==
    /\ NodeIds \cap EdgeIds = {}
    /\ NodeIds \cap VectorIds = {}
    /\ EdgeIds \cap VectorIds = {}
ASSUME SchemaAssumption ==
    /\ LabelHash \in [EdgeLabels -> Hashes]
    /\ UniqueIndices \subseteq NodeLabels \X Fields
    /\ PlainIndices \subseteq NodeLabels \X Fields
    /\ UniqueIndices \cap PlainIndices = {}
    /\ Excluded \subseteq NodeLabels
    /\ Defaults \in [NodeLabels -> PropMaps]
    /\ NoProps \notin PropMaps
ASSUME UsageAssumption ==
    /\ MaySkip \in BOOLEAN
    /\ FreshFields \in BOOLEAN
    /\ MissingEnds \in BOOLEAN
    /\ MaxHeld \in Nat

VARIABLES
    nodes,       \* nodes_db: node id -> record
    edges,       \* edges_db: edge id -> record
    out_edges,   \* out_edges_db, the DUP_SORT set of <<from, hash, edge, to>>
    in_edges,    \* in_edges_db, the DUP_SORT set of <<to, hash, edge, from>>
    secondary,   \* secondary_indices: index -> set of <<value, node id>>
    docs,        \* BM25: node id -> the properties its document was built from
    vectors,     \* ids the HNSW index holds data for
    deferred,    \* history: nodes written while BM25 was paused
    skip,        \* skip_bm25_writes, an atomic outside every transaction
    txn,         \* the write transaction: "none", "open" or "failed"
    held,        \* node and edge copies in the variables of the query
    issued,      \* ids generated so far; v6_uuid never repeats one
    committed    \* what the last commit made durable

tables == <<nodes, edges, out_edges, in_edges, secondary, docs, vectors,
            deferred>>
vars == <<tables, skip, txn, held, issued, committed>>

Contents ==
    [nodes |-> nodes, edges |-> edges, out_edges |-> out_edges,
     in_edges |-> in_edges, secondary |-> secondary, docs |-> docs,
     vectors |-> vectors, deferred |-> deferred]

-----------------------------------------------------------------------------
(* Traversal results.  A statement works on a copy of a stored record: one  *)
(* it has just read, or one an earlier statement left in a variable.        *)

Current ==
    {[id |-> n, val |-> nodes[n]] : n \in DOMAIN nodes} \cup
    {[id |-> e, val |-> edges[e]] : e \in DOMAIN edges}

Copies == Current \cup held
NodeCopies == {c \in Copies : c.id \in NodeIds}
EdgeCopies == {c \in Copies : c.id \in EdgeIds}

(* An endpoint given as a parameter of a query is any id its client knows;  *)
(* add_edge takes should_check and does not use it.                         *)
Ends == IF MissingEnds THEN issued \cap Ids
                       ELSE DOMAIN nodes \cup vectors

-----------------------------------------------------------------------------
(* Secondary indices.  A UNIQUE INDEX is a table without DUP_SORT, so a put *)
(* replaces the owner of the value and a delete removes it whoever it is.   *)

IndexPut(ix, s, v, n) ==
    (IF ix \in UniqueIndices THEN WithoutKey(s, v) ELSE s) \cup {<<v, n>>}

(* Mutant: delete instead of delete_one_duplicate on a DUP_SORT table.      *)
IndexDeleteKey(ix, s, v, n) == WithoutKey(s, v)

IndexDelete(ix, s, v, n) ==
    IF ix \in UniqueIndices THEN WithoutKey(s, v) ELSE s \ {<<v, n>>}

IndexedFields(T) == {f \in Fields : <<T, f>> \in Indices}

(* NO_OVERWRITE, and the explicit lookup of add_n, refuse a taken value.    *)
Taken(T, f, v) == <<T, f>> \in UniqueIndices /\ HasKey(secondary[<<T, f>>], v)

(* Every index of label T with a field in F, changed by Change(index, set). *)
Reindex(T, F, Change(_, _)) ==
    [ix \in Indices |->
        IF ix[1] = T /\ ix[2] \in F THEN Change(ix, secondary[ix])
                                    ELSE secondary[ix]]

-----------------------------------------------------------------------------
(* BM25 documents.  A label on the exclude list has none; while the pause   *)
(* flag is set the write is left for a later rebuild.                       *)

WriteDoc(n, T, p) ==
    \/ /\ T \in Excluded
       /\ UNCHANGED <<docs, deferred>>
    \/ /\ T \notin Excluded
       /\ skip
       /\ deferred' = deferred \cup {n}
       /\ UNCHANGED docs
    \/ /\ T \notin Excluded
       /\ ~skip
       /\ docs' = IF p = NoProps THEN docs ELSE Put(docs, n, p)
       /\ deferred' = IF p = NoProps THEN deferred ELSE deferred \ {n}

DeleteDoc(n, T) ==
    \/ /\ T \in Excluded
       /\ UNCHANGED <<docs, deferred>>
    \/ /\ T \notin Excluded
       /\ skip
       /\ deferred' = deferred \cup {n}
       /\ UNCHANGED docs
    \/ /\ T \notin Excluded
       /\ ~skip
       /\ docs' = Delete(docs, n)
       /\ deferred' = deferred \ {n}

-----------------------------------------------------------------------------
(* Nodes.                                                                   *)

(* add_n writes the node, then an entry for every listed index whose field  *)
(* is present, then the document.  A taken unique value sets the result to  *)
(* DuplicateKey and the loop goes on.                                       *)
InsertNode(n, T, p, listed) ==
    LET present == listed \cap DOMAIN p
        taken == {f \in present : Taken(T, f, p[f])}
    IN  /\ nodes' = Put(nodes, n, [label |-> T, props |-> p])
        /\ secondary' = Reindex(T, present \ taken,
                            LAMBDA ix, s : IndexPut(ix, s, p[ix[2]], n))
        /\ WriteDoc(n, T, p)
        /\ issued' = issued \cup {n}
        /\ txn' = IF taken = {} THEN "open" ELSE "failed"
        /\ UNCHANGED <<edges, out_edges, in_edges, vectors, skip, held,
                       committed>>

(* AddN<T>({...}): given fields over the defaults, every indexed field      *)
(* listed.                                                                  *)
AddN(n, T, q) ==
    /\ txn = "open"
    /\ n \notin issued
    /\ InsertNode(n, T, Overlay(Defaults[T], q), IndexedFields(T))

(* AddN<T> without a field list: the defaults alone, and the compiler lists *)
(* no index.                                                                *)
AddBareN(n, T) ==
    /\ txn = "open"
    /\ n \notin issued
    /\ InsertNode(n, T, Defaults[T], {})

(* Mutant: the lookup uses the old value.                                   *)
UpdateConflictOld(c, q) ==
    /\ c.val.props # NoProps
    /\ \E f \in DOMAIN q \cap DOMAIN c.val.props :
          /\ <<c.val.label, f>> \in UniqueIndices
          /\ c.val.props[f] # q[f]
          /\ \E e \in secondary[<<c.val.label, f>>] :
                e[1] = c.val.props[f] /\ e[2] # c.id

(* update, phase 1: an UPDATE that would take another node's unique value.  *)
(* Only fields the old record has are checked.                              *)
UpdateConflict(c, q) ==
    /\ c.val.props # NoProps
    /\ \E f \in DOMAIN q \cap DOMAIN c.val.props :
          /\ <<c.val.label, f>> \in UniqueIndices
          /\ c.val.props[f] # q[f]
          /\ \E e \in secondary[<<c.val.label, f>>] :
                e[1] = q[f] /\ e[2] # c.id

(* Mutant: the old entry is not deleted.                                    *)
UpdateIndicesKeep(c, q) ==
    LET old == c.val.props
        F == IF old = NoProps THEN DOMAIN q ELSE DOMAIN q \cap DOMAIN old
    IN  secondary' = Reindex(c.val.label, F,
                         LAMBDA ix, s : IndexPut(ix, s, q[ix[2]], c.id))

(* update, phase 2: the entries of the fields the old record has move from  *)
(* the old value to the new one; a record without properties only gains     *)
(* entries.                                                                 *)
UpdateIndices(c, q) ==
    LET old == c.val.props
    IN  secondary' =
          IF old = NoProps
          THEN Reindex(c.val.label, DOMAIN q,
                 LAMBDA ix, s : IndexPut(ix, s, q[ix[2]], c.id))
          ELSE Reindex(c.val.label, DOMAIN q \cap DOMAIN old,
                 LAMBDA ix, s :
                   IndexPut(ix, IndexDelete(ix, s, old[ix[2]], c.id),
                            q[ix[2]], c.id))

(* Mutant: the document is built from the given fields, not the merge.      *)
WriteNodeGiven(c, q) ==
    LET old == c.val.props
        new == [label |-> c.val.label,
                props |-> IF old = NoProps THEN q ELSE Overlay(old, q)]
    IN  /\ nodes' = Put(nodes, c.id, new)
        /\ WriteDoc(c.id, c.val.label, q)

(* The merged record and its document, for UPDATE and UpsertN alike.        *)
WriteNode(c, q) ==
    LET old == c.val.props
        new == [label |-> c.val.label,
                props |-> IF old = NoProps THEN q ELSE Overlay(old, q)]
    IN  /\ nodes' = Put(nodes, c.id, new)
        /\ WriteDoc(c.id, c.val.label, new.props)

(* A query that only updates fields its nodes already have.                 *)
Applicable(c, q) ==
    FreshFields \/ (c.val.props # NoProps /\ DOMAIN q \subseteq DOMAIN c.val.props)

UpdateN(c, q) ==
    /\ txn = "open"
    /\ Applicable(c, q)
    /\ ~UpdateConflict(c, q)
    /\ UpdateIndices(c, q)
    /\ WriteNode(c, q)
    /\ UNCHANGED <<edges, out_edges, in_edges, vectors, skip, txn, held,
                   issued, committed>>

(* The generated handler looks at the first result of an UPDATE statement   *)
(* (collect_to_obj): a conflict on its first item fails the query, one on a *)
(* later item is dropped and the query goes on.                             *)
UpdateRefused(c, q) ==
    /\ txn = "open"
    /\ Applicable(c, q)
    /\ UpdateConflict(c, q)
    /\ txn' \in {"open", "failed"}
    /\ UNCHANGED <<tables, skip, held, issued, committed>>

(* upsert_n on an existing node: the indexed fields whose value changes or  *)
(* appears.                                                                 *)
Touched(c, q) ==
    {f \in DOMAIN q \cap IndexedFields(c.val.label) :
        c.val.props # NoProps /\ f \in DOMAIN c.val.props
            => c.val.props[f] # q[f]}

NothingToDo(c, q) ==
    IF c.val.props = NoProps
    THEN DOMAIN q = {}
    ELSE \A f \in DOMAIN q : f \in DOMAIN c.val.props /\ c.val.props[f] = q[f]

(* The old entry goes before the new one is put with NO_OVERWRITE.          *)
Moved(c, q, ix, s) ==
    LET old == c.val.props
        v == q[ix[2]]
    IN  IF old # NoProps /\ ix[2] \in DOMAIN old
        THEN IndexPut(ix, IndexDelete(ix, s, old[ix[2]], c.id), v, c.id)
        ELSE IndexPut(ix, s, v, c.id)

UpsertExisting(c, q) ==
    LET T == c.val.label
        taken == {f \in Touched(c, q) : Taken(T, f, q[f])}
    IN  /\ txn = "open"
        /\ ~NothingToDo(c, q)
        /\ \/ /\ taken = {}
              /\ secondary' = Reindex(T, Touched(c, q),
                                      LAMBDA ix, s : Moved(c, q, ix, s))
              /\ WriteNode(c, q)
              /\ UNCHANGED txn
           \/ (* The first taken value ends the loop: the fields before it *)
              (* are done and its own old entry is put back.               *)
              /\ taken # {}
              /\ \E done \in SUBSET (Touched(c, q) \ taken) :
                    secondary' = Reindex(T, done,
                                         LAMBDA ix, s : Moved(c, q, ix, s))
              /\ txn' = "failed"
              /\ UNCHANGED <<nodes, docs, deferred>>
        /\ UNCHANGED <<edges, out_edges, in_edges, vectors, skip, held,
                       issued, committed>>

(* upsert_n with nothing found: the node, its entries until the first taken *)
(* value, then the document.                                                *)
UpsertNewN(n, T, q) ==
    LET p == Overlay(Defaults[T], q)
        present == DOMAIN p \cap IndexedFields(T)
        taken == {f \in present : Taken(T, f, p[f])}
        props == IF DOMAIN p = {} THEN NoProps ELSE p
        Entry(ix, s) == IndexPut(ix, s, p[ix[2]], n)
    IN  /\ txn = "open"
        /\ n \notin issued
        /\ issued' = issued \cup {n}
        /\ nodes' = Put(nodes, n, [label |-> T, props |-> props])
        /\ \/ /\ taken = {}
              /\ secondary' = Reindex(T, present, Entry)
              /\ WriteDoc(n, T, props)
              /\ UNCHANGED txn
           \/ /\ taken # {}
              /\ \E done \in SUBSET (present \ taken) :
                    secondary' = Reindex(T, done, Entry)
              /\ txn' = "failed"
              /\ UNCHANGED <<docs, deferred>>
        /\ UNCHANGED <<edges, out_edges, in_edges, vectors, skip, held,
                       committed>>

-----------------------------------------------------------------------------
(* Edges.                                                                   *)

(* Mutant: the edge id half of the entry is compared.                       *)
BetweenById(l, f, t) ==
    {a \in out_edges : a[1] = f /\ a[2] = LabelHash[l] /\ a[3] = t}

Between(l, f, t) ==
    {a \in out_edges : a[1] = f /\ a[2] = LabelHash[l] /\ a[4] = t}

WriteEdge(e, l, f, t) ==
    /\ edges' = Put(edges, e, [label |-> l, from |-> f, to |-> t])
    /\ out_edges' = out_edges \cup {<<f, LabelHash[l], e, t>>}
    /\ in_edges' = in_edges \cup {<<t, LabelHash[l], e, f>>}
    /\ issued' = issued \cup {e}

EdgesOnly ==
    UNCHANGED <<nodes, secondary, docs, vectors, deferred, skip, held,
                committed>>

AddE(e, l, f, t) ==
    /\ txn = "open"
    /\ e \notin issued
    /\ \/ /\ Between(l, f, t) = {}
          /\ WriteEdge(e, l, f, t)
          /\ UNCHANGED txn
       \/ /\ Between(l, f, t) # {}
          /\ txn' = "failed"
          /\ UNCHANGED <<edges, out_edges, in_edges, issued>>
    /\ EdgesOnly

(* upsert_e: the edge found under the same hash is written back with merged *)
(* properties; properties of edges are not modelled.                        *)
UpsertE(e, l, f, t) ==
    /\ txn = "open"
    /\ \/ /\ Between(l, f, t) = {}
          /\ e \notin issued
          /\ WriteEdge(e, l, f, t)
          /\ UNCHANGED txn
       \/ \E a \in Between(l, f, t) :
             /\ txn' = IF a[3] \in DOMAIN edges THEN "open" ELSE "failed"
             /\ UNCHANGED <<edges, out_edges, in_edges, issued>>
    /\ EdgesOnly

(* UPDATE on an edge writes the copy's record back under its id, whether or *)
(* not the table still has it.                                              *)
UpdateE(c) ==
    /\ txn = "open"
    /\ edges' = Put(edges, c.id, c.val)
    /\ UNCHANGED <<out_edges, in_edges, txn, issued>>
    /\ EdgesOnly

-----------------------------------------------------------------------------
(* Dropping.  Prefix scans of the two adjacency tables collect the edges of *)
(* an item; their records go, then the item's own keys, then the mirror     *)
(* entry of each edge under the other endpoint.                             *)

Outgoing(i) == {a \in out_edges : a[1] = i}
Incoming(i) == {a \in in_edges : a[1] = i}
Mirrored(a) == <<a[4], a[2], a[3], a[1]>>

DetachEdges(i) ==
    LET gone == {a[3] : a \in Outgoing(i) \cup Incoming(i)}
    IN  /\ edges' = Restrict(edges, DOMAIN edges \ gone)
        /\ out_edges' = (out_edges \ Outgoing(i))
                            \ {Mirrored(a) : a \in Incoming(i)}
        /\ in_edges' = (in_edges \ Incoming(i))
                            \ {Mirrored(a) : a \in Outgoing(i)}

(* Drop on a node a traversal reached, possibly more than once: when the    *)
(* record is already gone drop_node fails after detaching the edges.        *)
DropNode(n) ==
    /\ txn = "open"
    /\ DetachEdges(n)
    /\ \/ /\ n \in DOMAIN nodes
          /\ LET node == nodes[n]
             IN  /\ secondary' =
                      IF node.props = NoProps THEN secondary
                      ELSE Reindex(node.label, DOMAIN node.props,
                             LAMBDA ix, s :
                               IndexDelete(ix, s, node.props[ix[2]], n))
                 /\ DeleteDoc(n, node.label)
          /\ nodes' = Delete(nodes, n)
          /\ UNCHANGED txn
       \/ /\ n \notin DOMAIN nodes
          /\ txn' = "failed"
          /\ UNCHANGED <<nodes, secondary, docs, deferred>>
    /\ UNCHANGED <<vectors, skip, held, issued, committed>>

(* Mutant: the in_edges entry is looked up under the source.                *)
DropEdgeSource(e) ==
    /\ txn = "open"
    /\ e \in DOMAIN edges
    /\ LET r == edges[e]
           h == LabelHash[r.label]
       IN  /\ out_edges' = out_edges \ {<<r.from, h, e, r.to>>}
           /\ in_edges' = in_edges \ {<<r.from, h, e, r.to>>}
    /\ edges' = Delete(edges, e)
    /\ UNCHANGED <<txn, issued>>
    /\ EdgesOnly

DropEdge(e) ==
    /\ txn = "open"
    /\ \/ /\ e \in DOMAIN edges
          /\ LET r == edges[e]
                 h == LabelHash[r.label]
             IN  /\ out_edges' = out_edges \ {<<r.from, h, e, r.to>>}
                 /\ in_edges' = in_edges \ {<<r.to, h, e, r.from>>}
          /\ edges' = Delete(edges, e)
          /\ UNCHANGED txn
       \/ /\ e \notin DOMAIN edges
          /\ txn' = "failed"
          /\ UNCHANGED <<edges, out_edges, in_edges>>
    /\ UNCHANGED issued
    /\ EdgesOnly

(* AddV: the vector's data and properties under a new id.                   *)
InsertV(v) ==
    /\ txn = "open"
    /\ v \notin issued
    /\ vectors' = vectors \cup {v}
    /\ issued' = issued \cup {v}
    /\ UNCHANGED <<nodes, edges, out_edges, in_edges, secondary, docs,
                   deferred, skip, txn, held, committed>>

(* Mutant: the vector goes without its edges.                               *)
DropVectorAlone(v) ==
    /\ txn = "open"
    /\ vectors' = vectors \ {v}
    /\ UNCHANGED <<nodes, edges, out_edges, in_edges, secondary, docs,
                   deferred, skip, txn, held, issued, committed>>

(* drop_vector: no check that the vector is there.                          *)
DropVector(v) ==
    /\ txn = "open"
    /\ DetachEdges(v)
    /\ vectors' = vectors \ {v}
    /\ UNCHANGED <<nodes, secondary, docs, deferred, skip, txn, held, issued,
                   committed>>

-----------------------------------------------------------------------------
(* Transactions.                                                            *)

Begin ==
    /\ txn = "none"
    /\ txn' = "open"
    /\ UNCHANGED <<tables, skip, held, issued, committed>>

(* A statement keeps a traversal result in a variable of the query.         *)
Bind(c) ==
    /\ txn = "open"
    /\ Cardinality(held) < MaxHeld
    /\ held' = held \cup {c}
    /\ UNCHANGED <<tables, skip, txn, issued, committed>>

Commit ==
    /\ txn = "open"
    /\ txn' = "none"
    /\ held' = {}
    /\ committed' = Contents
    /\ UNCHANGED <<tables, skip, issued>>

(* The handler returns an error and drops the transaction, or the process   *)
(* dies and the store is opened again: LMDB shows the last commit.          *)
Abort ==
    /\ txn \in {"open", "failed"}
    /\ txn' = "none"
    /\ held' = {}
    /\ nodes' = committed.nodes
    /\ edges' = committed.edges
    /\ out_edges' = committed.out_edges
    /\ in_edges' = committed.in_edges
    /\ secondary' = committed.secondary
    /\ docs' = committed.docs
    /\ vectors' = committed.vectors
    /\ deferred' = committed.deferred
    /\ UNCHANGED <<skip, issued, committed>>

(* POST /settings stores the flag; a transaction may be open.               *)
SetSkip ==
    /\ MaySkip
    /\ skip' = ~skip
    /\ UNCHANGED <<tables, txn, held, issued, committed>>

-----------------------------------------------------------------------------
Init ==
    /\ nodes = EmptyTable
    /\ edges = EmptyTable
    /\ out_edges = {}
    /\ in_edges = {}
    /\ secondary = [ix \in Indices |-> {}]
    /\ docs = EmptyTable
    /\ vectors = {}
    /\ deferred = {}
    /\ skip = FALSE
    /\ txn = "none"
    /\ held = {}
    /\ issued = {}
    /\ committed = Contents

NodeStatement ==
    \/ \E n \in NodeIds, T \in NodeLabels, q \in PropMaps : AddN(n, T, q)
    \/ \E n \in NodeIds, T \in NodeLabels : AddBareN(n, T)
    \/ \E n \in NodeIds, T \in NodeLabels, q \in PropMaps : UpsertNewN(n, T, q)
    \/ \E c \in NodeCopies, q \in PropMaps : UpdateN(c, q)
    \/ \E c \in NodeCopies, q \in PropMaps : UpdateRefused(c, q)
    \/ \E c \in NodeCopies, q \in PropMaps : UpsertExisting(c, q)
    \/ \E n \in issued \cap NodeIds : DropNode(n)

EdgeStatement ==
    \/ \E e \in EdgeIds, l \in EdgeLabels, f, t \in Ends : AddE(e, l, f, t)
    \/ \E e \in EdgeIds, l \in EdgeLabels, f, t \in Ends : UpsertE(e, l, f, t)
    \/ \E c \in EdgeCopies : UpdateE(c)
    \/ \E e \in issued \cap EdgeIds : DropEdge(e)
    \/ \E v \in VectorIds : InsertV(v)
    \/ \E v \in issued \cap VectorIds : DropVector(v)

Next ==
    \/ NodeStatement
    \/ EdgeStatement
    \/ Begin
    \/ \E c \in Copies : Bind(c)
    \/ Commit
    \/ Abort
    \/ SetSkip

Spec == Init /\ [][Next]_vars

-----------------------------------------------------------------------------
(* Properties.  Each relation is stated of a set of tables, so that it can   *)
(* be required both of the last commit, which every reader sees, and of the  *)
(* working copy, which the next statement of the transaction reads.          *)

TablesOf(K, V, t) == DOMAIN t \subseteq K /\ \A k \in DOMAIN t : t[k] \in V

ContentsOK(c) ==
    /\ TablesOf(NodeIds, Node, c.nodes)
    /\ TablesOf(EdgeIds, Edge, c.edges)
    /\ c.out_edges \subseteq Adjacency
    /\ c.in_edges \subseteq Adjacency
    /\ c.secondary \in [Indices -> SUBSET (Values \X NodeIds)]
    /\ TablesOf(NodeIds, PropMaps, c.docs)
    /\ c.vectors \subseteq VectorIds
    /\ c.deferred \subseteq NodeIds

(* Every table holds keys and values of its own kind.                       *)
TypeOK ==
    /\ ContentsOK(Contents)
    /\ ContentsOK(committed)
    /\ skip \in BOOLEAN
    /\ txn \in {"none", "open", "failed"}
    /\ held \subseteq Copy
    /\ issued \subseteq NodeIds \cup EdgeIds \cup VectorIds

(* A relation that must hold for readers, and inside the transaction as     *)
(* long as no statement has failed.                                         *)
Holds(R(_)) == R(committed) /\ (txn # "failed" => R(Contents))

(* The two adjacency tables mirror each other entry by entry, and every      *)
(* entry belongs to a stored edge with those endpoints under that hash.      *)
(* drop_node, drop_edge and drop_vector delete the same edge from three      *)
(* tables by three differently built keys; one key built wrongly leaves an   *)
(* entry whose edge is gone, and every traversal through it fails with       *)
(* EdgeNotFound.                                                             *)
Mirroring(E, out, in) ==
    /\ \A a \in out : Mirrored(a) \in in
    /\ \A a \in in : Mirrored(a) \in out
    /\ \A a \in out :
          /\ a[3] \in DOMAIN E
          /\ a[1] = E[a[3]].from
          /\ a[2] = LabelHash[E[a[3]].label]
          /\ a[4] = E[a[3]].to

AdjacencyMirrored ==
    /\ Mirroring(edges, out_edges, in_edges)
    /\ Mirroring(committed.edges, committed.out_edges, committed.in_edges)

(* Dropping a node or a vector takes every edge at either end with it, so    *)
(* the endpoints of a stored edge are stored.                                *)
Attached(c) ==
    \A e \in DOMAIN c.edges :
        {c.edges[e].from, c.edges[e].to} \subseteq DOMAIN c.nodes \cup c.vectors
NoDanglingEdge == Holds(Attached)

(* add_edge and upsert_e never store a second edge from one endpoint to      *)
(* another under one label, also when edges were dropped in between.         *)
SingleEdges(c) ==
    \A e, d \in DOMAIN c.edges : c.edges[e] = c.edges[d] => e = d
OneEdgePerPair == Holds(SingleEdges)

Valued(N, ix, v, n) ==
    /\ n \in DOMAIN N
    /\ N[n].label = ix[1]
    /\ N[n].props # NoProps
    /\ ix[2] \in DOMAIN N[n].props
    /\ N[n].props[ix[2]] = v

(* An index lookup never returns a node that is gone or whose field has      *)
(* another value: every statement that changes a value moves its entry.      *)
IndexedValuesHold(c) ==
    \A ix \in Indices : \A x \in c.secondary[ix] :
        Valued(c.nodes, ix, x[1], x[2])
IndexSound == Holds(IndexedValuesHold)

(* An index lookup returns every node whose field has the value.             *)
ValuesIndexed(c) ==
    \A ix \in Indices, n \in DOMAIN c.nodes, v \in Values :
        Valued(c.nodes, ix, v, n) => <<v, n>> \in c.secondary[ix]
IndexComplete == Holds(ValuesIndexed)

(* No two nodes of a type share the value of a field declared UNIQUE INDEX,  *)
(* whichever of AddN, UpsertN and UPDATE wrote them.                         *)
ValuesUnique(c) ==
    \A ix \in UniqueIndices, v \in Values, n, m \in DOMAIN c.nodes :
        Valued(c.nodes, ix, v, n) /\ Valued(c.nodes, ix, v, m) => n = m
UniqueValues == Holds(ValuesUnique)

(* Outside the nodes written while the BM25 pause was set, the full-text     *)
(* index holds a document for exactly the stored nodes of an included label  *)
(* that have properties, built from their current properties.  A document    *)
(* that outlives its node is a ghost search result; one built from older     *)
(* properties is a wrong one.                                                *)
DocumentsCurrent(c) ==
    \A n \in NodeIds \ c.deferred :
        /\ n \in DOMAIN c.docs <=>
              /\ n \in DOMAIN c.nodes
              /\ c.nodes[n].label \notin Excluded
              /\ c.nodes[n].props # NoProps
        /\ n \in DOMAIN c.docs => c.docs[n] = c.nodes[n].props
DocsFresh == Holds(DocumentsCurrent)

=============================================================================
