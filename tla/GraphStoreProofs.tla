------------------------- MODULE GraphStoreProofs -------------------------
(***************************************************************************)
(* Theorems about GraphStore, for every schema, every set of identifiers    *)
(* and every bound: the tables stay well typed, and the two adjacency       *)
(* tables mirror each other and the edges.  For queries whose statements    *)
(* each read the records they write (MaxHeld = 0): a stored edge has its    *)
(* entries in the adjacency tables, no two edges of one label join the same *)
(* ends, and, when queries name only ends that are stored, no edge dangles; *)
(* a lookup by an index returns only nodes that have the value and, when an *)
(* UPDATE sets only fields its node has and no default is indexed, all of   *)
(* them, of which a unique index has one.                                   *)
(***************************************************************************)
EXTENDS GraphStore, FiniteSetTheorems, TLAPS

-----------------------------------------------------------------------------
(* Tables.                                                                  *)

(* Storing a well-typed record keeps a table well typed, and changes no     *)
(* other key.                                                               *)
LEMMA PutTable ==
    ASSUME NEW K, NEW V, NEW t, TablesOf(K, V, t), NEW k \in K, NEW v \in V
    PROVE  TablesOf(K, V, Put(t, k, v))
BY DEF TablesOf, Put

(* Restricting a table keeps it well typed.                                 *)
LEMMA RestrictTable ==
    ASSUME NEW K, NEW V, NEW t, TablesOf(K, V, t), NEW S
    PROVE  TablesOf(K, V, Restrict(t, DOMAIN t \ S))
BY DEF TablesOf, Restrict

LEMMA DeleteTable ==
    ASSUME NEW K, NEW V, NEW t, TablesOf(K, V, t), NEW k
    PROVE  TablesOf(K, V, Delete(t, k))
BY RestrictTable DEF Delete

(* Merging property maps gives a property map over both sets of fields.     *)
LEMMA OverlayProps ==
    ASSUME NEW p \in PropMaps, NEW q \in PropMaps
    PROVE  /\ Overlay(p, q) \in PropMaps
           /\ DOMAIN Overlay(p, q) = DOMAIN p \cup DOMAIN q
           /\ DOMAIN Overlay(p, q) \subseteq Fields
<1>1. /\ DOMAIN p \subseteq Fields
      /\ DOMAIN q \subseteq Fields
      /\ \A f \in DOMAIN p : p[f] \in Values
      /\ \A f \in DOMAIN q : q[f] \in Values
    BY DEF PropMaps, Tables
<1>2. Overlay(p, q) \in [DOMAIN p \cup DOMAIN q -> Values]
    BY <1>1 DEF Overlay
<1>. QED
    BY <1>1, <1>2 DEF PropMaps, Tables

LEMMA PropValues ==
    ASSUME NEW p \in PropMaps
    PROVE  /\ DOMAIN p \subseteq Fields
           /\ \A f \in DOMAIN p : p[f] \in Values
           /\ p # NoProps
BY SchemaAssumption DEF PropMaps, Tables

-----------------------------------------------------------------------------
(* Indices and documents.                                                   *)

IndexContents == [Indices -> SUBSET (Values \X NodeIds)]

LEMMA IndexPutType ==
    ASSUME NEW ix, NEW s \in SUBSET (Values \X NodeIds), NEW v \in Values,
           NEW n \in NodeIds
    PROVE  /\ IndexPut(ix, s, v, n) \in SUBSET (Values \X NodeIds)
           /\ IndexPut(ix, IndexDelete(ix, s, v, n), v, n) \in SUBSET (Values \X NodeIds)
BY DEF IndexPut, IndexDelete, WithoutKey

LEMMA IndexDeleteType ==
    ASSUME NEW ix, NEW s \in SUBSET (Values \X NodeIds), NEW v, NEW n
    PROVE  IndexDelete(ix, s, v, n) \in SUBSET (Values \X NodeIds)
BY DEF IndexDelete, WithoutKey

LEMMA WriteDocType ==
    ASSUME TablesOf(NodeIds, PropMaps, docs), deferred \subseteq NodeIds,
           NEW n \in NodeIds, NEW T, NEW p \in PropMaps \cup {NoProps},
           WriteDoc(n, T, p)
    PROVE  /\ TablesOf(NodeIds, PropMaps, docs')
           /\ deferred' \subseteq NodeIds
BY PutTable DEF WriteDoc

LEMMA DeleteDocType ==
    ASSUME TablesOf(NodeIds, PropMaps, docs), deferred \subseteq NodeIds,
           NEW n \in NodeIds, NEW T, DeleteDoc(n, T)
    PROVE  /\ TablesOf(NodeIds, PropMaps, docs')
           /\ deferred' \subseteq NodeIds
BY DeleteTable DEF DeleteDoc

LEMMA InsertNodeType ==
    ASSUME TypeOK, NEW n \in NodeIds, NEW T \in NodeLabels,
           NEW p \in PropMaps, NEW listed, InsertNode(n, T, p, listed)
    PROVE  TypeOK'
<1>1. /\ nodes' = Put(nodes, n, [label |-> T, props |-> p])
      /\ WriteDoc(n, T, p)
      /\ issued' = issued \cup {n}
      /\ txn' \in {"open", "failed"}
      /\ UNCHANGED <<edges, out_edges, in_edges, vectors, skip, held, committed>>
    BY DEF InsertNode, Reindex
<1>2. TablesOf(NodeIds, Node, nodes')
    BY <1>1, PutTable DEF TypeOK, ContentsOK, Contents, Node
<1>3. secondary' \in IndexContents
    BY ZenonT(60), PropValues, IndexPutType DEF InsertNode, Reindex, IndexContents, TypeOK, ContentsOK, Contents
<1>4. /\ TablesOf(NodeIds, PropMaps, docs')
      /\ deferred' \subseteq NodeIds
    BY <1>1, WriteDocType DEF TypeOK, ContentsOK, Contents
<1>. QED
    BY <1>1, <1>2, <1>3, <1>4 DEF TypeOK, ContentsOK, Contents, IndexContents

LEMMA CopyTypes ==
    ASSUME TypeOK
    PROVE  /\ \A c \in NodeCopies : c.id \in NodeIds /\ c.val \in Node
           /\ \A c \in EdgeCopies : c.id \in EdgeIds /\ c.val \in Edge
           /\ \A c \in Copies : c \in Copy
<1>1. \A c \in Current : /\ c \in Copy
                         /\ c.id \in NodeIds => c.val \in Node
                         /\ c.id \in EdgeIds => c.val \in Edge
    BY DisjointIds DEF Current, Copy, TypeOK, ContentsOK, Contents, TablesOf
<1>2. \A c \in held : /\ c \in Copy
                      /\ c.id \in NodeIds => c.val \in Node
                      /\ c.id \in EdgeIds => c.val \in Edge
    BY DisjointIds DEF Copy, TypeOK
<1>. QED
    BY <1>1, <1>2 DEF Copies, NodeCopies, EdgeCopies

-----------------------------------------------------------------------------
(* Type correctness, one lemma per statement.                               *)

LEMMA UpdateIndicesType ==
    ASSUME TypeOK, NEW c \in NodeCopies, NEW q \in PropMaps,
           UpdateIndices(c, q)
    PROVE  secondary' \in IndexContents
<1>1. /\ c.id \in NodeIds
      /\ c.val.props \in PropMaps \cup {NoProps}
    BY CopyTypes DEF Node
<1>2. secondary \in IndexContents
    BY DEF TypeOK, ContentsOK, Contents, IndexContents
<1>3. CASE c.val.props = NoProps
    BY ZenonT(60), <1>1, <1>2, <1>3, PropValues, IndexPutType
       DEF UpdateIndices, Reindex, IndexContents
<1>4. CASE c.val.props # NoProps
  <2>. DEFINE old == c.val.props
              Entry(ix) == IndexPut(ix, IndexDelete(ix, secondary[ix], old[ix[2]], c.id),
                                    q[ix[2]], c.id)
  <2>1. \A f \in DOMAIN q : q[f] \in Values
      BY PropValues
  <2>2. \A ix \in Indices : ix[2] \in DOMAIN q =>
           Entry(ix) \in SUBSET (Values \X NodeIds)
    <3>. SUFFICES ASSUME NEW ix \in Indices, ix[2] \in DOMAIN q
                  PROVE  Entry(ix) \in SUBSET (Values \X NodeIds)
        OBVIOUS
    <3>1. IndexDelete(ix, secondary[ix], old[ix[2]], c.id) \in SUBSET (Values \X NodeIds)
        BY <1>2, IndexDeleteType DEF IndexContents
    <3>. QED
        BY <1>1, <2>1, <3>1, IndexPutType
  <2>3. secondary' = [ix \in Indices |->
                        IF ix[1] = c.val.label /\ ix[2] \in DOMAIN q \cap DOMAIN old
                        THEN Entry(ix) ELSE secondary[ix]]
      BY <1>4 DEF UpdateIndices, Reindex
  <2>. HIDE DEF Entry
  <2>. QED
      BY <1>2, <2>2, <2>3 DEF IndexContents
<1>. QED
    BY <1>3, <1>4

LEMMA MovedType ==
    ASSUME TypeOK, NEW c \in NodeCopies, NEW q \in PropMaps,
           NEW F \in SUBSET (DOMAIN q),
           secondary' = Reindex(c.val.label, F, LAMBDA ix, s : Moved(c, q, ix, s))
    PROVE  secondary' \in IndexContents
<1>1. /\ c.id \in NodeIds
      /\ c.val.props \in PropMaps \cup {NoProps}
    BY CopyTypes DEF Node
<1>2. secondary \in IndexContents
    BY DEF TypeOK, ContentsOK, Contents, IndexContents
<1>3. \A ix \in Indices : ix[2] \in F =>
         Moved(c, q, ix, secondary[ix]) \in SUBSET (Values \X NodeIds)
    BY <1>1, <1>2, PropValues, IndexPutType, IndexDeleteType
       DEF Moved, IndexContents
<1>. QED
    BY <1>2, <1>3 DEF Reindex, IndexContents

LEMMA WriteNodeType ==
    ASSUME TypeOK, NEW c \in NodeCopies, NEW q \in PropMaps, WriteNode(c, q)
    PROVE  /\ TablesOf(NodeIds, Node, nodes')
           /\ TablesOf(NodeIds, PropMaps, docs')
           /\ deferred' \subseteq NodeIds
<1>. DEFINE p == IF c.val.props = NoProps THEN q ELSE Overlay(c.val.props, q)
<1>1. /\ c.id \in NodeIds
      /\ c.val.label \in NodeLabels
      /\ c.val.props \in PropMaps \cup {NoProps}
    BY CopyTypes DEF Node
<1>2. p \in PropMaps
    BY <1>1, OverlayProps
<1>3. /\ nodes' = Put(nodes, c.id, [label |-> c.val.label, props |-> p])
      /\ WriteDoc(c.id, c.val.label, p)
    BY DEF WriteNode
<1>4. [label |-> c.val.label, props |-> p] \in Node
    BY <1>1, <1>2 DEF Node
<1>. QED
    BY <1>1, <1>2, <1>3, <1>4, PutTable, WriteDocType DEF TypeOK, ContentsOK, Contents

LEMMA DetachEdgesType ==
    ASSUME TypeOK, NEW i, DetachEdges(i)
    PROVE  /\ TablesOf(EdgeIds, Edge, edges')
           /\ out_edges' \subseteq Adjacency
           /\ in_edges' \subseteq Adjacency
BY RestrictTable DEF DetachEdges, TypeOK, ContentsOK, Contents

LEMMA WriteEdgeType ==
    ASSUME TypeOK, NEW e \in EdgeIds, NEW l \in EdgeLabels,
           NEW f \in Ids, NEW t \in Ids, WriteEdge(e, l, f, t)
    PROVE  /\ TablesOf(EdgeIds, Edge, edges')
           /\ out_edges' \subseteq Adjacency
           /\ in_edges' \subseteq Adjacency
           /\ issued' \subseteq NodeIds \cup EdgeIds \cup VectorIds
<1>1. [label |-> l, from |-> f, to |-> t] \in Edge
    BY DEF Edge
<1>2. LabelHash[l] \in Hashes
    BY SchemaAssumption
<1>. QED
    BY <1>1, <1>2, PutTable DEF WriteEdge, Adjacency, TypeOK, ContentsOK, Contents

LEMMA EndsType ==
    ASSUME TypeOK
    PROVE  Ends \subseteq Ids
BY DEF Ends, Ids, TypeOK, ContentsOK, Contents, TablesOf

LEMMA NodeStatementType ==
    ASSUME TypeOK, NodeStatement
    PROVE  TypeOK'
<1>1. ASSUME NEW n \in NodeIds, NEW T \in NodeLabels, NEW q \in PropMaps,
             AddN(n, T, q)
      PROVE  TypeOK'
    BY <1>1, OverlayProps, InsertNodeType, SchemaAssumption DEF AddN
<1>2. ASSUME NEW n \in NodeIds, NEW T \in NodeLabels, AddBareN(n, T)
      PROVE  TypeOK'
    BY <1>2, InsertNodeType, SchemaAssumption DEF AddBareN
<1>3. ASSUME NEW n \in NodeIds, NEW T \in NodeLabels, NEW q \in PropMaps,
             UpsertNewN(n, T, q)
      PROVE  TypeOK'
  <2>. DEFINE p == Overlay(Defaults[T], q)
              props == IF DOMAIN p = {} THEN NoProps ELSE p
  <2>1. p \in PropMaps
      BY OverlayProps, SchemaAssumption
  <2>2. [label |-> T, props |-> props] \in Node
      BY <2>1 DEF Node
  <2>3. PICK F \in SUBSET DOMAIN p :
           secondary' = Reindex(T, F, LAMBDA ix, s : IndexPut(ix, s, p[ix[2]], n))
      BY <1>3 DEF UpsertNewN, Reindex
  <2>4. secondary \in IndexContents
      BY DEF TypeOK, ContentsOK, Contents, IndexContents
  <2>5. secondary' \in IndexContents
      BY ZenonT(60), <2>1, <2>3, <2>4, PropValues, IndexPutType DEF Reindex, IndexContents
  <2>6. /\ nodes' = Put(nodes, n, [label |-> T, props |-> props])
        /\ issued' = issued \cup {n}
        /\ txn' \in {txn, "failed"}
        /\ WriteDoc(n, T, props) \/ UNCHANGED <<docs, deferred>>
        /\ UNCHANGED <<edges, out_edges, in_edges, vectors, skip, held, committed>>
      BY <1>3 DEF UpsertNewN, Reindex
  <2>7. TablesOf(NodeIds, Node, nodes')
      BY <2>2, <2>6, PutTable DEF TypeOK, ContentsOK, Contents
  <2>8. /\ TablesOf(NodeIds, PropMaps, docs')
        /\ deferred' \subseteq NodeIds
      BY <2>1, <2>6, WriteDocType DEF TypeOK, ContentsOK, Contents
  <2>. QED
      BY <2>5, <2>6, <2>7, <2>8 DEF TypeOK, ContentsOK, Contents, IndexContents
<1>4. ASSUME NEW c \in NodeCopies, NEW q \in PropMaps, UpdateN(c, q)
      PROVE  TypeOK'
  <2>1. /\ UpdateIndices(c, q)
        /\ WriteNode(c, q)
        /\ UNCHANGED <<edges, out_edges, in_edges, vectors, skip, txn, held,
                       issued, committed>>
      BY <1>4 DEF UpdateN
  <2>. QED
      BY <2>1, UpdateIndicesType, WriteNodeType
         DEF TypeOK, ContentsOK, Contents, IndexContents
<1>5. ASSUME NEW c \in NodeCopies, NEW q \in PropMaps, UpdateRefused(c, q)
      PROVE  TypeOK'
    BY <1>5 DEF UpdateRefused, tables, TypeOK, ContentsOK, Contents
<1>6. ASSUME NEW c \in NodeCopies, NEW q \in PropMaps, UpsertExisting(c, q)
      PROVE  TypeOK'
  <2>1. PICK F \in SUBSET DOMAIN q :
           secondary' = Reindex(c.val.label, F, LAMBDA ix, s : Moved(c, q, ix, s))
      BY <1>6 DEF UpsertExisting, Touched, Reindex
  <2>2. /\ WriteNode(c, q) \/ UNCHANGED <<nodes, docs, deferred>>
        /\ txn' \in {txn, "failed"}
        /\ UNCHANGED <<edges, out_edges, in_edges, vectors, skip, held, issued,
                       committed>>
      BY <1>6 DEF UpsertExisting, Reindex
  <2>3. secondary' \in IndexContents
      BY <2>1, MovedType
  <2>. QED
      BY <2>2, <2>3, WriteNodeType DEF TypeOK, ContentsOK, Contents, IndexContents
<1>7. ASSUME NEW n \in issued \cap NodeIds, DropNode(n)
      PROVE  TypeOK'
  <2>1. /\ DetachEdges(n)
        /\ UNCHANGED <<vectors, skip, held, issued, committed>>
        /\ txn' \in {txn, "failed"}
      BY <1>7 DEF DropNode, Reindex
  <2>2. CASE n \notin DOMAIN nodes
      BY <1>7, <2>1, <2>2, DetachEdgesType DEF DropNode, TypeOK, ContentsOK, Contents
  <2>3. CASE n \in DOMAIN nodes
    <3>1. secondary' \in IndexContents
        BY <1>7, <2>3, IndexDeleteType
           DEF DropNode, Reindex, IndexContents, TypeOK, ContentsOK, Contents
    <3>2. /\ nodes' = Delete(nodes, n)
          /\ DeleteDoc(n, nodes[n].label)
        BY <1>7, <2>3 DEF DropNode, Reindex
    <3>3. TablesOf(NodeIds, Node, nodes')
        BY <3>2, DeleteTable DEF TypeOK, ContentsOK, Contents
    <3>4. /\ TablesOf(NodeIds, PropMaps, docs')
          /\ deferred' \subseteq NodeIds
        BY <3>2, DeleteDocType DEF TypeOK, ContentsOK, Contents
    <3>. QED
        BY <2>1, <3>1, <3>3, <3>4, DetachEdgesType
           DEF TypeOK, ContentsOK, Contents, IndexContents
  <2>. QED
      BY <2>2, <2>3
<1>. QED
    BY <1>1, <1>2, <1>3, <1>4, <1>5, <1>6, <1>7 DEF NodeStatement

LEMMA EdgeStatementType ==
    ASSUME TypeOK, EdgeStatement
    PROVE  TypeOK'
<1>1. ASSUME NEW e \in EdgeIds, NEW l \in EdgeLabels, NEW f \in Ends,
             NEW t \in Ends, AddE(e, l, f, t) \/ UpsertE(e, l, f, t)
      PROVE  TypeOK'
  <2>1. /\ UNCHANGED <<nodes, secondary, docs, vectors, deferred, skip, held,
                       committed>>
        /\ txn' \in {txn, "open", "failed"}
        /\ \/ WriteEdge(e, l, f, t)
           \/ UNCHANGED <<edges, out_edges, in_edges, issued>>
      BY <1>1 DEF AddE, UpsertE, EdgesOnly
  <2>. QED
      BY <2>1, EndsType, WriteEdgeType DEF TypeOK, ContentsOK, Contents
<1>2. ASSUME NEW c \in EdgeCopies, UpdateE(c)
      PROVE  TypeOK'
    BY <1>2, CopyTypes, PutTable DEF UpdateE, EdgesOnly, TypeOK, ContentsOK, Contents
<1>3. ASSUME NEW e \in issued \cap EdgeIds, DropEdge(e)
      PROVE  TypeOK'
  <2>1. /\ TablesOf(EdgeIds, Edge, edges')
        /\ out_edges' \subseteq out_edges
        /\ in_edges' \subseteq in_edges
        /\ txn' \in {txn, "failed"}
      BY <1>3, DeleteTable DEF DropEdge, TypeOK, ContentsOK, Contents
  <2>. QED
      BY <1>3, <2>1 DEF DropEdge, EdgesOnly, TypeOK, ContentsOK, Contents
<1>4. ASSUME NEW v \in VectorIds, InsertV(v)
      PROVE  TypeOK'
    BY <1>4 DEF InsertV, TypeOK, ContentsOK, Contents
<1>5. ASSUME NEW v \in issued \cap VectorIds, DropVector(v)
      PROVE  TypeOK'
    BY <1>5, DetachEdgesType DEF DropVector, TypeOK, ContentsOK, Contents
<1>. QED
    BY <1>1, <1>2, <1>3, <1>4, <1>5 DEF EdgeStatement

LEMMA InitType == Init => TypeOK
<1>. SUFFICES ASSUME Init PROVE TypeOK
    OBVIOUS
<1>1. ContentsOK(Contents)
    BY DEF Init, ContentsOK, Contents, TablesOf, EmptyTable
<1>. QED
    BY <1>1 DEF Init, TypeOK

LEMMA NextType == TypeOK /\ [Next]_vars => TypeOK'
<1>. SUFFICES ASSUME TypeOK, [Next]_vars PROVE TypeOK'
    OBVIOUS
<1>1. CASE NodeStatement
    BY <1>1, NodeStatementType
<1>2. CASE EdgeStatement
    BY <1>2, EdgeStatementType
<1>3. CASE Begin
    BY <1>3 DEF Begin, tables, TypeOK, ContentsOK, Contents
<1>4. CASE \E c \in Copies : Bind(c)
    BY <1>4, CopyTypes DEF Bind, tables, TypeOK, ContentsOK, Contents
<1>5. CASE Commit
    BY <1>5 DEF Commit, tables, TypeOK, ContentsOK, Contents
<1>6. CASE Abort
    BY <1>6 DEF Abort, TypeOK, ContentsOK, Contents
<1>7. CASE SetSkip
    BY <1>7 DEF SetSkip, tables, TypeOK, ContentsOK, Contents
<1>8. CASE UNCHANGED vars
    BY <1>8 DEF vars, tables, TypeOK, ContentsOK, Contents
<1>. QED
    BY <1>1, <1>2, <1>3, <1>4, <1>5, <1>6, <1>7, <1>8 DEF Next

(* Every table only ever holds keys and values of its own kind: a node       *)
(* record never sits in edges_db, an adjacency entry never names something   *)
(* that is not an edge, an index entry never names something that is not a   *)
(* node.                                                                     *)
THEOREM TypeCorrect == Spec => []TypeOK
BY InitType, NextType, PTL DEF Spec

-----------------------------------------------------------------------------
(* Adjacency.  A statement may write back an edge record that it read        *)
(* earlier, so the mirror relation alone is not inductive: every copy a      *)
(* query holds must agree with the stored record of its edge and with every  *)
(* other copy, and must be of an edge that was really issued.                *)

CopiesAgree ==
    /\ \A c \in held : c.id \in EdgeIds =>
          /\ c.id \in issued
          /\ c.id \in DOMAIN edges => edges[c.id] = c.val
    /\ \A c, d \in held : c.id \in EdgeIds /\ c.id = d.id => c.val = d.val

EdgesIssued ==
    /\ DOMAIN edges \subseteq issued
    /\ DOMAIN committed.edges \subseteq issued

AdjacencyInv == AdjacencyMirrored /\ CopiesAgree /\ EdgesIssued

(* A step that leaves the three tables and the held copies alone.            *)
LEMMA AdjacencyFrame ==
    ASSUME AdjacencyInv,
           UNCHANGED <<edges, out_edges, in_edges, held, committed>>,
           issued \subseteq issued'
    PROVE  AdjacencyInv'
BY DEF AdjacencyInv, AdjacencyMirrored, Mirroring, CopiesAgree, EdgesIssued

(* Storing an edge under a fresh identifier.                                 *)
LEMMA WriteEdgeMirrors ==
    ASSUME AdjacencyInv, NEW e, e \notin issued, NEW l, NEW f, NEW t,
           WriteEdge(e, l, f, t), UNCHANGED <<held, committed>>
    PROVE  AdjacencyInv'
<1>1. /\ DOMAIN edges' = DOMAIN edges \cup {e}
      /\ edges'[e] = [label |-> l, from |-> f, to |-> t]
      /\ \A d \in DOMAIN edges : d # e /\ edges'[d] = edges[d]
    BY DEF WriteEdge, Put, AdjacencyInv, EdgesIssued
<1>2. \A a \in out_edges : a[3] # e
    BY DEF AdjacencyInv, AdjacencyMirrored, Mirroring, EdgesIssued
<1>3. Mirroring(edges', out_edges', in_edges')
  <2>1. \A a \in out_edges' : Mirrored(a) \in in_edges'
    <3>1. Mirrored(<<f, LabelHash[l], e, t>>) = <<t, LabelHash[l], e, f>>
        BY DEF Mirrored
    <3>. QED
        BY <3>1 DEF WriteEdge, AdjacencyInv, AdjacencyMirrored, Mirroring
  <2>2. \A a \in in_edges' : Mirrored(a) \in out_edges'
    <3>1. Mirrored(<<t, LabelHash[l], e, f>>) = <<f, LabelHash[l], e, t>>
        BY DEF Mirrored
    <3>. QED
        BY <3>1 DEF WriteEdge, AdjacencyInv, AdjacencyMirrored, Mirroring
  <2>3. ASSUME NEW a \in out_edges'
        PROVE  /\ a[3] \in DOMAIN edges'
               /\ a[1] = edges'[a[3]].from
               /\ a[2] = LabelHash[edges'[a[3]].label]
               /\ a[4] = edges'[a[3]].to
    <3>1. CASE a \in out_edges
        BY <1>1, <3>1 DEF AdjacencyInv, AdjacencyMirrored, Mirroring
    <3>2. CASE a = <<f, LabelHash[l], e, t>>
        BY <1>1, <3>2
    <3>. QED
        BY <3>1, <3>2 DEF WriteEdge
  <2>. QED
      BY <2>1, <2>2, <2>3 DEF Mirroring
<1>4. CopiesAgree'
    BY <1>1 DEF WriteEdge, AdjacencyInv, CopiesAgree
<1>5. EdgesIssued'
    BY <1>1 DEF WriteEdge, AdjacencyInv, EdgesIssued
<1>. QED
    BY <1>3, <1>4, <1>5 DEF AdjacencyInv, AdjacencyMirrored

(* An entry of an item's edge touches the item at one of its two ends, so    *)
(* removing both lists of entries and their mirrors removes every entry of   *)
(* every edge whose record goes.                                             *)
LEMMA DetachMirrors ==
    ASSUME TypeOK, AdjacencyInv, NEW i, DetachEdges(i),
           UNCHANGED <<held, committed, issued>>
    PROVE  AdjacencyInv'
<1>. DEFINE gone == {a[3] : a \in Outgoing(i) \cup Incoming(i)}
<1>1. /\ DOMAIN edges' = DOMAIN edges \ gone
      /\ \A d \in DOMAIN edges' : edges'[d] = edges[d]
      /\ out_edges' = (out_edges \ Outgoing(i)) \ {Mirrored(a) : a \in Incoming(i)}
      /\ in_edges' = (in_edges \ Incoming(i)) \ {Mirrored(a) : a \in Outgoing(i)}
    BY DEF DetachEdges, Restrict
<1>2. /\ out_edges \subseteq Adjacency
      /\ in_edges \subseteq Adjacency
    BY DEF TypeOK, ContentsOK, Contents
<1>3. \A a \in Adjacency : Mirrored(Mirrored(a)) = a
    BY DEF Adjacency, Mirrored
<1>4. /\ \A a \in out_edges : Mirrored(a) \in in_edges
      /\ \A a \in in_edges : Mirrored(a) \in out_edges
      /\ \A a \in out_edges :
            /\ a[3] \in DOMAIN edges
            /\ a[1] = edges[a[3]].from
            /\ a[2] = LabelHash[edges[a[3]].label]
            /\ a[4] = edges[a[3]].to
    BY DEF AdjacencyInv, AdjacencyMirrored, Mirroring
<1>5. \A a \in out_edges' : a \in out_edges /\ a[1] # i /\ a[4] # i
  <2>. SUFFICES ASSUME NEW a \in out_edges', a[4] = i PROVE FALSE
      BY <1>1 DEF Outgoing
  <2>1. /\ a \in out_edges
        /\ a \in Adjacency
      BY <1>1, <1>2
  <2>2. /\ Mirrored(a) \in in_edges
        /\ Mirrored(a)[1] = i
      BY <1>4, <2>1 DEF Mirrored
  <2>3. /\ Mirrored(a) \in Incoming(i)
        /\ Mirrored(Mirrored(a)) = a
      BY <1>3, <2>1, <2>2 DEF Incoming
  <2>. QED
      BY <1>1, <2>3
<1>6. \A a \in in_edges' : a \in in_edges /\ a[1] # i /\ a[4] # i
  <2>. SUFFICES ASSUME NEW a \in in_edges', a[4] = i PROVE FALSE
      BY <1>1 DEF Incoming
  <2>1. /\ a \in in_edges
        /\ a \in Adjacency
      BY <1>1, <1>2
  <2>2. /\ Mirrored(a) \in out_edges
        /\ Mirrored(a)[1] = i
      BY <1>4, <2>1 DEF Mirrored
  <2>3. /\ Mirrored(a) \in Outgoing(i)
        /\ Mirrored(Mirrored(a)) = a
      BY <1>3, <2>1, <2>2 DEF Outgoing
  <2>. QED
      BY <1>1, <2>3
<1>7. \A a \in out_edges' : Mirrored(a) \in in_edges'
  <2>. SUFFICES ASSUME NEW a \in out_edges' PROVE Mirrored(a) \in in_edges'
      OBVIOUS
  <2>1. Mirrored(a) \in in_edges
      BY <1>4, <1>5
  <2>2. Mirrored(a) \notin Incoming(i)
      BY <1>5 DEF Incoming, Mirrored
  <2>3. \A b \in Outgoing(i) : Mirrored(b) # Mirrored(a)
      BY <1>5 DEF Outgoing, Mirrored
  <2>. QED
      BY <1>1, <2>1, <2>2, <2>3
<1>8. \A a \in in_edges' : Mirrored(a) \in out_edges'
  <2>. SUFFICES ASSUME NEW a \in in_edges' PROVE Mirrored(a) \in out_edges'
      OBVIOUS
  <2>1. Mirrored(a) \in out_edges
      BY <1>4, <1>6
  <2>2. Mirrored(a) \notin Outgoing(i)
      BY <1>6 DEF Outgoing, Mirrored
  <2>3. \A b \in Incoming(i) : Mirrored(b) # Mirrored(a)
      BY <1>6 DEF Incoming, Mirrored
  <2>. QED
      BY <1>1, <2>1, <2>2, <2>3
<1>9. \A a \in out_edges' : a[3] \in DOMAIN edges'
  <2>. SUFFICES ASSUME NEW a \in out_edges' PROVE a[3] \notin gone
      BY <1>1, <1>4, <1>5
  <2>1. /\ edges[a[3]].from # i
        /\ edges[a[3]].to # i
      BY <1>4, <1>5
  <2>2. \A b \in Outgoing(i) : edges[b[3]].from = i
      BY <1>4 DEF Outgoing
  <2>3. \A b \in Incoming(i) : edges[b[3]].to = i
    <3>. SUFFICES ASSUME NEW b \in Incoming(i) PROVE edges[b[3]].to = i
        OBVIOUS
    <3>1. /\ b \in Adjacency
          /\ b[1] = i
          /\ Mirrored(b) \in out_edges
        BY <1>2, <1>4 DEF Incoming
    <3>2. /\ Mirrored(b)[3] = b[3]
          /\ Mirrored(b)[4] = i
        BY <3>1 DEF Mirrored
    <3>. QED
        BY <1>4, <3>1, <3>2
  <2>. QED
      BY <2>1, <2>2, <2>3
<1>10. Mirroring(edges', out_edges', in_edges')
    BY <1>1, <1>4, <1>5, <1>7, <1>8, <1>9 DEF Mirroring
<1>11. CopiesAgree' /\ EdgesIssued'
    BY <1>1 DEF AdjacencyInv, CopiesAgree, EdgesIssued
<1>. QED
    BY <1>10, <1>11 DEF AdjacencyInv, AdjacencyMirrored

(* Dropping one edge: by the invariant its two entries are the ones built    *)
(* from its record.                                                          *)
LEMMA DropEdgeMirrors ==
    ASSUME TypeOK, AdjacencyInv, NEW e, DropEdge(e)
    PROVE  AdjacencyInv'
<1>0. UNCHANGED <<held, committed, issued>>
    BY DEF DropEdge, EdgesOnly
<1>1. CASE e \notin DOMAIN edges
    BY <1>0, <1>1, AdjacencyFrame DEF DropEdge
<1>2. CASE e \in DOMAIN edges
  <2>. DEFINE r == edges[e]
              out == <<r.from, LabelHash[r.label], e, r.to>>
              in == <<r.to, LabelHash[r.label], e, r.from>>
  <2>1. /\ out_edges' = out_edges \ {out}
        /\ in_edges' = in_edges \ {in}
        /\ DOMAIN edges' = DOMAIN edges \ {e}
        /\ \A d \in DOMAIN edges' : edges'[d] = edges[d]
      BY <1>2 DEF DropEdge, Delete, Restrict
  <2>2. /\ Mirrored(out) = in
        /\ Mirrored(in) = out
      BY DEF Mirrored
  <2>3. \A a \in Adjacency : Mirrored(Mirrored(a)) = a
      BY DEF Adjacency, Mirrored
  <2>4. /\ out_edges \subseteq Adjacency
        /\ in_edges \subseteq Adjacency
      BY DEF TypeOK, ContentsOK, Contents
  <2>5. \A a \in out_edges : a[3] = e => a = out
      BY <2>4 DEF Adjacency, AdjacencyInv, AdjacencyMirrored, Mirroring
  <2>6. /\ \A a \in out_edges' : Mirrored(a) \in in_edges'
        /\ \A a \in in_edges' : Mirrored(a) \in out_edges'
    <3>. HIDE DEF out, in
    <3>. QED
        BY <2>1, <2>2, <2>3, <2>4 DEF AdjacencyInv, AdjacencyMirrored, Mirroring
  <2>7. \A a \in out_edges' : a[3] # e
      BY <2>1, <2>5
  <2>8. Mirroring(edges', out_edges', in_edges')
      BY <2>1, <2>6, <2>7 DEF AdjacencyInv, AdjacencyMirrored, Mirroring
  <2>. QED
      BY <1>0, <2>1, <2>8
         DEF AdjacencyInv, AdjacencyMirrored, CopiesAgree, EdgesIssued
<1>. QED
    BY <1>1, <1>2

(* Writing back an edge copy: the record under its identifier, if there is   *)
(* one, is the same record.                                                  *)
LEMMA UpdateEdgeMirrors ==
    ASSUME TypeOK, AdjacencyInv, NEW c \in EdgeCopies, UpdateE(c)
    PROVE  AdjacencyInv'
<1>1. /\ c.id \in issued
      /\ c.id \in DOMAIN edges => edges[c.id] = c.val
      /\ \A d \in held : c.id = d.id => c.val = d.val
  <2>1. CASE c \in held
      BY <2>1 DEF EdgeCopies, AdjacencyInv, CopiesAgree
  <2>2. CASE c \in Current
    <3>1. /\ c.id \in DOMAIN edges
          /\ c.val = edges[c.id]
        BY <2>2, DisjointIds
           DEF EdgeCopies, Current, TypeOK, ContentsOK, Contents, TablesOf
    <3>. QED
        BY <3>1 DEF EdgeCopies, AdjacencyInv, CopiesAgree, EdgesIssued
  <2>. QED
      BY <2>1, <2>2 DEF EdgeCopies, Copies
<1>2. /\ DOMAIN edges' = DOMAIN edges \cup {c.id}
      /\ edges'[c.id] = c.val
      /\ \A d \in DOMAIN edges : edges'[d] = edges[d]
    BY <1>1 DEF UpdateE, Put
<1>3. UNCHANGED <<out_edges, in_edges, held, committed, issued>>
    BY DEF UpdateE, EdgesOnly
<1>4. Mirroring(edges', out_edges', in_edges')
    BY <1>2, <1>3 DEF AdjacencyInv, AdjacencyMirrored, Mirroring
<1>5. CopiesAgree'
    BY <1>1, <1>2, <1>3 DEF AdjacencyInv, CopiesAgree
<1>. QED
    BY <1>1, <1>2, <1>3, <1>4, <1>5 DEF AdjacencyInv, AdjacencyMirrored, EdgesIssued

LEMMA NodeStatementFrame ==
    ASSUME NodeStatement, \A n : ~DropNode(n)
    PROVE  /\ UNCHANGED <<edges, out_edges, in_edges, held, committed>>
           /\ issued \subseteq issued'
<1>1. ASSUME NEW n, NEW T, NEW p, NEW F, InsertNode(n, T, p, F)
      PROVE  /\ UNCHANGED <<edges, out_edges, in_edges, held, committed>>
             /\ issued \subseteq issued'
    BY <1>1 DEF InsertNode, Reindex
<1>2. ASSUME NEW c, NEW q, UpdateN(c, q) \/ UpdateRefused(c, q)
      PROVE  /\ UNCHANGED <<edges, out_edges, in_edges, held, committed>>
             /\ issued \subseteq issued'
    BY <1>2 DEF UpdateN, UpdateRefused, tables
<1>3. ASSUME NEW c, NEW q, UpsertExisting(c, q)
      PROVE  /\ UNCHANGED <<edges, out_edges, in_edges, held, committed>>
             /\ issued \subseteq issued'
    BY <1>3 DEF UpsertExisting, Reindex
<1>4. ASSUME NEW n, NEW T, NEW q, UpsertNewN(n, T, q)
      PROVE  /\ UNCHANGED <<edges, out_edges, in_edges, held, committed>>
             /\ issued \subseteq issued'
    BY <1>4 DEF UpsertNewN, Reindex
<1>. QED
    BY <1>1, <1>2, <1>3, <1>4 DEF NodeStatement, AddN, AddBareN

LEMMA NextMirrors == TypeOK /\ AdjacencyInv /\ [Next]_vars => AdjacencyInv'
<1>. SUFFICES ASSUME TypeOK, AdjacencyInv, [Next]_vars PROVE AdjacencyInv'
    OBVIOUS
<1>1. ASSUME NEW n, DropNode(n) PROVE AdjacencyInv'
    BY <1>1, DetachMirrors DEF DropNode
<1>2. CASE NodeStatement /\ \A n : ~DropNode(n)
    BY <1>2, NodeStatementFrame, AdjacencyFrame
<1>3. CASE EdgeStatement
  <2>1. ASSUME NEW e, NEW l, NEW f, NEW t, AddE(e, l, f, t) \/ UpsertE(e, l, f, t)
        PROVE  AdjacencyInv'
    <3>1. UNCHANGED <<held, committed>>
        BY <2>1 DEF AddE, UpsertE, EdgesOnly
    <3>2. \/ e \notin issued /\ WriteEdge(e, l, f, t)
          \/ UNCHANGED <<edges, out_edges, in_edges, issued>>
        BY <2>1 DEF AddE, UpsertE
    <3>. QED
        BY <3>1, <3>2, WriteEdgeMirrors, AdjacencyFrame
  <2>2. ASSUME NEW v, InsertV(v) PROVE AdjacencyInv'
      BY <2>2, AdjacencyFrame DEF InsertV
  <2>3. ASSUME NEW v, DropVector(v) PROVE AdjacencyInv'
      BY <2>3, DetachMirrors DEF DropVector
  <2>. QED
      BY <1>3, <2>1, <2>2, <2>3, DropEdgeMirrors, UpdateEdgeMirrors DEF EdgeStatement
<1>4. CASE Begin
    BY <1>4, AdjacencyFrame DEF Begin, tables
<1>5. ASSUME NEW c \in Copies, Bind(c) PROVE AdjacencyInv'
  <2>1. c.id \in EdgeIds =>
           /\ c.id \in issued
           /\ c.id \in DOMAIN edges => edges[c.id] = c.val
           /\ \A d \in held : c.id = d.id => c.val = d.val
    <3>1. CASE c \in held
        BY <3>1 DEF AdjacencyInv, CopiesAgree
    <3>2. CASE c \in Current
        BY <3>2, DisjointIds
           DEF Current, TypeOK, ContentsOK, Contents, TablesOf, AdjacencyInv,
               CopiesAgree, EdgesIssued
    <3>. QED
        BY <3>1, <3>2 DEF Copies
  <2>2. /\ held' = held \cup {c}
        /\ UNCHANGED <<edges, out_edges, in_edges, committed, issued>>
      BY <1>5 DEF Bind, tables
  <2>. QED
      BY <2>1, <2>2
         DEF AdjacencyInv, AdjacencyMirrored, Mirroring, CopiesAgree, EdgesIssued
<1>6. CASE Commit
    BY <1>6 DEF Commit, tables, Contents, AdjacencyInv, AdjacencyMirrored, Mirroring,
                CopiesAgree, EdgesIssued
<1>7. CASE Abort
    BY <1>7 DEF Abort, AdjacencyInv, AdjacencyMirrored, Mirroring, CopiesAgree,
                EdgesIssued
<1>8. CASE SetSkip
    BY <1>8, AdjacencyFrame DEF SetSkip, tables
<1>9. CASE UNCHANGED vars
    BY <1>9, AdjacencyFrame DEF vars, tables
<1>. QED
    BY <1>1, <1>2, <1>3, <1>4, <1>5, <1>6, <1>7, <1>8, <1>9 DEF Next

(* Whatever sequence of statements, aborted transactions and stale copies,   *)
(* for every schema and also where two labels share a hash: the adjacency    *)
(* tables of a commit and of a running transaction mirror each other, and    *)
(* each entry has its edge.                                                  *)
THEOREM AdjacencyHolds == Spec => []AdjacencyMirrored
<1>1. Init => AdjacencyInv
    BY DEF Init, Contents, EmptyTable, AdjacencyInv, AdjacencyMirrored, Mirroring,
           CopiesAgree, EdgesIssued
<1>2. AdjacencyInv => AdjacencyMirrored
    BY DEF AdjacencyInv
<1>. QED
    BY <1>1, <1>2, TypeCorrect, NextMirrors, PTL DEF Spec

-----------------------------------------------------------------------------
(* Documents.  A write to an excluded label leaves the index alone, so a     *)
(* copy must carry the label its record has; and a new node must not find a  *)
(* document under its identifier.                                            *)

LabelsAgree ==
    /\ \A c \in held : c.id \in NodeIds =>
          /\ c.id \in issued
          /\ c.id \in DOMAIN nodes => nodes[c.id].label = c.val.label
    /\ \A c, d \in held : c.id \in NodeIds /\ c.id = d.id =>
          c.val.label = d.val.label

NodesIssued(c) == DOMAIN c.nodes \cup DOMAIN c.docs \subseteq issued

DocsInv ==
    /\ DocumentsCurrent(committed)
    /\ NodesIssued(committed)
    /\ txn # "failed" =>
          DocumentsCurrent(Contents) /\ NodesIssued(Contents) /\ LabelsAgree

LEMMA StoreDoc ==
    ASSUME DocumentsCurrent(Contents), NEW n \in NodeIds, NEW T, NEW p,
           nodes' = Put(nodes, n, [label |-> T, props |-> p]),
           WriteDoc(n, T, p),
           n \in DOMAIN nodes => nodes[n].label = T,
           p = NoProps => n \notin DOMAIN nodes
    PROVE  DocumentsCurrent(Contents)'
<1>1. /\ DOMAIN nodes' = DOMAIN nodes \cup {n}
      /\ nodes'[n].label = T
      /\ nodes'[n].props = p
      /\ \A m \in DOMAIN nodes : m # n => nodes'[m] = nodes[m]
    BY DEF Put
<1>2. ASSUME NEW m \in NodeIds \ deferred', m # n
      PROVE  /\ m \in DOMAIN docs' <=> m \in DOMAIN docs
             /\ m \in DOMAIN docs => docs'[m] = docs[m]
             /\ m \notin deferred
    BY <1>2 DEF WriteDoc, Put
<1>3. ASSUME NEW m \in NodeIds \ deferred', m # n
      PROVE  /\ m \in DOMAIN docs' <=>
                   /\ m \in DOMAIN nodes'
                   /\ nodes'[m].label \notin Excluded
                   /\ nodes'[m].props # NoProps
             /\ m \in DOMAIN docs' => docs'[m] = nodes'[m].props
    BY <1>1, <1>2, <1>3 DEF DocumentsCurrent, Contents
<1>4. ASSUME n \notin deferred'
      PROVE  /\ n \in DOMAIN docs' <=> T \notin Excluded /\ p # NoProps
             /\ n \in DOMAIN docs' => docs'[n] = p
  <2>1. CASE T \in Excluded
      BY <1>4, <2>1 DEF WriteDoc, DocumentsCurrent, Contents
  <2>2. CASE T \notin Excluded /\ skip
      BY <1>4, <2>2 DEF WriteDoc
  <2>3. CASE T \notin Excluded /\ ~skip /\ p = NoProps
      BY <1>4, <2>3 DEF WriteDoc, DocumentsCurrent, Contents
  <2>4. CASE T \notin Excluded /\ ~skip /\ p # NoProps
      BY <1>4, <2>4 DEF WriteDoc, Put
  <2>. QED
      BY <2>1, <2>2, <2>3, <2>4
<1>. QED
    BY <1>1, <1>3, <1>4 DEF DocumentsCurrent, Contents

LEMMA RemoveDoc ==
    ASSUME DocumentsCurrent(Contents), NEW n \in NodeIds, n \in DOMAIN nodes,
           nodes' = Delete(nodes, n), DeleteDoc(n, nodes[n].label)
    PROVE  DocumentsCurrent(Contents)'
<1>1. /\ DOMAIN nodes' = DOMAIN nodes \ {n}
      /\ \A m \in DOMAIN nodes' : nodes'[m] = nodes[m]
    BY DEF Delete, Restrict
<1>2. /\ \A m \in NodeIds : m # n /\ m \notin deferred' =>
            /\ m \in DOMAIN docs' <=> m \in DOMAIN docs
            /\ m \in DOMAIN docs => docs'[m] = docs[m]
            /\ m \notin deferred
      /\ n \notin deferred' => n \notin DOMAIN docs'
    BY DEF DeleteDoc, Delete, Restrict, DocumentsCurrent, Contents
<1>. QED
    BY <1>1, <1>2 DEF DocumentsCurrent, Contents

(* A statement that stores a node record.                                    *)
LEMMA StoreNodeDocs ==
    ASSUME DocsInv, txn # "failed", NEW n \in NodeIds, NEW T, NEW p,
           nodes' = Put(nodes, n, [label |-> T, props |-> p]),
           WriteDoc(n, T, p),
           n \in DOMAIN nodes => nodes[n].label = T,
           p = NoProps => n \notin DOMAIN nodes,
           \A c \in held : c.id = n => c.val.label = T,
           issued' = issued \cup {n},
           UNCHANGED <<held, committed>>
    PROVE  DocsInv'
<1>1. DocumentsCurrent(Contents)'
    BY StoreDoc DEF DocsInv
<1>2. NodesIssued(Contents)'
    BY DEF NodesIssued, Contents, Put, WriteDoc, DocsInv
<1>3. LabelsAgree'
    BY DEF LabelsAgree, DocsInv, Put
<1>4. /\ DocumentsCurrent(committed)'
      /\ NodesIssued(committed)'
    BY DEF DocsInv, DocumentsCurrent, NodesIssued
<1>. QED
    BY <1>1, <1>2, <1>3, <1>4 DEF DocsInv

(* A step that leaves nodes and documents alone, or that fails the           *)
(* transaction.                                                              *)
LEMMA DocsFrame ==
    ASSUME DocsInv, UNCHANGED committed, issued \subseteq issued',
           \/ txn' = "failed"
           \/ txn # "failed" /\ UNCHANGED <<nodes, docs, deferred, held>>
    PROVE  DocsInv'
BY DEF DocsInv, DocumentsCurrent, NodesIssued, LabelsAgree, Contents

(* What LabelsAgree gives for a copy a statement works on.                   *)
LEMMA CopyLabel ==
    ASSUME TypeOK, DocsInv, txn # "failed", NEW c \in NodeCopies
    PROVE  /\ c.id \in issued
           /\ c.id \in DOMAIN nodes => nodes[c.id].label = c.val.label
           /\ \A d \in held : d.id = c.id => d.val.label = c.val.label
<1>1. CASE c \in held
    BY <1>1 DEF NodeCopies, DocsInv, LabelsAgree
<1>2. CASE c \in Current
  <2>1. /\ c.id \in DOMAIN nodes
        /\ c.val = nodes[c.id]
      BY <1>2, DisjointIds
         DEF NodeCopies, Current, TypeOK, ContentsOK, Contents, TablesOf
  <2>. QED
      BY <2>1 DEF NodeCopies, DocsInv, LabelsAgree, NodesIssued, Contents
<1>. QED
    BY <1>1, <1>2 DEF NodeCopies, Copies

LEMMA WriteNodeDocs ==
    ASSUME TypeOK, DocsInv, txn # "failed", NEW c \in NodeCopies,
           NEW q \in PropMaps, WriteNode(c, q), UNCHANGED <<held, committed, issued>>
    PROVE  DocsInv'
<1>. DEFINE p == IF c.val.props = NoProps THEN q ELSE Overlay(c.val.props, q)
<1>1. /\ c.id \in NodeIds
      /\ c.val.props \in PropMaps \cup {NoProps}
    BY CopyTypes DEF Node
<1>2. p # NoProps
    BY <1>1, OverlayProps, PropValues
<1>3. /\ nodes' = Put(nodes, c.id, [label |-> c.val.label, props |-> p])
      /\ WriteDoc(c.id, c.val.label, p)
    BY DEF WriteNode
<1>4. issued' = issued \cup {c.id}
    BY CopyLabel
<1>. HIDE DEF p
<1>. QED
    BY <1>1, <1>2, <1>3, <1>4, CopyLabel, StoreNodeDocs

LEMMA NodeStatementDocs ==
    ASSUME TypeOK, DocsInv, NodeStatement
    PROVE  DocsInv'
<1>1. ASSUME NEW n \in NodeIds, NEW T \in NodeLabels, NEW p \in PropMaps, NEW F,
             txn = "open", n \notin issued, InsertNode(n, T, p, F)
      PROVE  DocsInv'
  <2>1. /\ nodes' = Put(nodes, n, [label |-> T, props |-> p])
        /\ WriteDoc(n, T, p)
        /\ issued' = issued \cup {n}
        /\ UNCHANGED <<held, committed>>
      BY <1>1 DEF InsertNode, Reindex
  <2>2. /\ n \notin DOMAIN nodes
        /\ \A c \in held : c.id # n
      BY <1>1 DEF DocsInv, NodesIssued, LabelsAgree, Contents
  <2>. QED
      BY <1>1, <2>1, <2>2, PropValues, StoreNodeDocs
<1>2. ASSUME NEW n \in NodeIds, NEW T \in NodeLabels, NEW q \in PropMaps,
             UpsertNewN(n, T, q)
      PROVE  DocsInv'
  <2>. DEFINE p == Overlay(Defaults[T], q)
              props == IF DOMAIN p = {} THEN NoProps ELSE p
  <2>1. /\ nodes' = Put(nodes, n, [label |-> T, props |-> props])
        /\ txn = "open"
        /\ n \notin issued
        /\ WriteDoc(n, T, props) \/ txn' = "failed"
        /\ issued' = issued \cup {n}
        /\ UNCHANGED <<held, committed>>
      BY <1>2 DEF UpsertNewN, Reindex
  <2>2. /\ n \notin DOMAIN nodes
        /\ \A c \in held : c.id # n
      BY <2>1 DEF DocsInv, NodesIssued, LabelsAgree, Contents
  <2>. HIDE DEF props
  <2>. QED
      BY <2>1, <2>2, StoreNodeDocs, DocsFrame
<1>3. ASSUME NEW c \in NodeCopies, NEW q \in PropMaps, UpdateN(c, q)
      PROVE  DocsInv'
  <2>1. txn = "open" /\ WriteNode(c, q) /\ UNCHANGED <<held, committed, issued>>
      BY <1>3 DEF UpdateN
  <2>. QED
      BY <2>1, WriteNodeDocs
<1>4. ASSUME NEW c \in NodeCopies, NEW q \in PropMaps, UpdateRefused(c, q)
      PROVE  DocsInv'
    BY <1>4, DocsFrame DEF UpdateRefused, tables
<1>5. ASSUME NEW c \in NodeCopies, NEW q \in PropMaps, UpsertExisting(c, q)
      PROVE  DocsInv'
  <2>1. /\ txn = "open"
        /\ WriteNode(c, q) \/ txn' = "failed"
        /\ UNCHANGED <<held, committed, issued>>
      BY <1>5 DEF UpsertExisting, Reindex
  <2>. QED
      BY <2>1, WriteNodeDocs, DocsFrame
<1>6. ASSUME NEW n \in issued \cap NodeIds, DropNode(n)
      PROVE  DocsInv'
  <2>1. /\ txn = "open"
        /\ UNCHANGED <<held, committed, issued>>
        /\ n \notin DOMAIN nodes => txn' = "failed"
      BY <1>6 DEF DropNode, Reindex
  <2>2. CASE n \in DOMAIN nodes
    <3>1. nodes' = Delete(nodes, n) /\ DeleteDoc(n, nodes[n].label)
        BY <1>6, <2>2 DEF DropNode, Reindex
    <3>2. DocumentsCurrent(Contents)'
        BY <2>1, <2>2, <3>1, RemoveDoc DEF DocsInv
    <3>3. /\ NodesIssued(Contents)'
          /\ LabelsAgree'
        BY <2>1, <3>1
           DEF Delete, Restrict, DeleteDoc, DocsInv, NodesIssued, LabelsAgree, Contents
    <3>. QED
        BY <2>1, <3>2, <3>3 DEF DocsInv, DocumentsCurrent, NodesIssued
  <2>. QED
      BY <2>1, <2>2, DocsFrame
<1>. QED
    BY <1>1, <1>2, <1>3, <1>4, <1>5, <1>6, OverlayProps, SchemaAssumption
       DEF NodeStatement, AddN, AddBareN

LEMMA NextDocs == TypeOK /\ DocsInv /\ [Next]_vars => DocsInv'
<1>. SUFFICES ASSUME TypeOK, DocsInv, [Next]_vars PROVE DocsInv'
    OBVIOUS
<1>1. CASE NodeStatement
    BY <1>1, NodeStatementDocs
<1>2. CASE EdgeStatement
  <2>1. /\ txn = "open"
        /\ UNCHANGED <<nodes, docs, deferred, held, committed>>
        /\ issued \subseteq issued'
      BY ZenonT(60), <1>2 DEF EdgeStatement, AddE, UpsertE, UpdateE, DropEdge, InsertV,
                  DropVector, WriteEdge, EdgesOnly
  <2>. QED
      BY <2>1, DocsFrame
<1>3. CASE Begin
    BY <1>3, DocsFrame DEF Begin, tables
<1>4. ASSUME NEW c \in Copies, Bind(c) PROVE DocsInv'
  <2>1. c.id \in NodeIds =>
           /\ c.id \in issued
           /\ c.id \in DOMAIN nodes => nodes[c.id].label = c.val.label
           /\ \A d \in held : d.id = c.id => d.val.label = c.val.label
      BY <1>4, CopyLabel DEF NodeCopies, Bind
  <2>2. /\ txn = "open"
        /\ held' = held \cup {c}
        /\ UNCHANGED <<nodes, docs, deferred, committed, issued, txn>>
      BY <1>4 DEF Bind, tables
  <2>. QED
      BY <2>1, <2>2
         DEF DocsInv, DocumentsCurrent, NodesIssued, LabelsAgree, Contents
<1>5. CASE Commit
    BY <1>5 DEF Commit, tables, DocsInv, DocumentsCurrent, NodesIssued, LabelsAgree,
                Contents
<1>6. CASE Abort
    BY <1>6 DEF Abort, DocsInv, DocumentsCurrent, NodesIssued, LabelsAgree, Contents
<1>7. CASE SetSkip
    BY <1>7, DocsFrame DEF SetSkip, tables
<1>8. CASE UNCHANGED vars
    BY <1>8, DocsFrame DEF vars, tables
<1>. QED
    BY <1>1, <1>2, <1>3, <1>4, <1>5, <1>6, <1>7, <1>8 DEF Next

(* Full-text search never returns a ghost: for every schema, also with       *)
(* stale copies and the pause flag toggled inside transactions, the          *)
(* documents outside the deferred nodes are those of the stored nodes.       *)
THEOREM DocsHold == Spec => []DocsFresh
<1>1. Init => DocsInv
    BY DEF Init, Contents, EmptyTable, DocsInv, DocumentsCurrent, NodesIssued,
           LabelsAgree
<1>2. DocsInv => DocsFresh
    BY DEF DocsInv, DocsFresh, Holds
<1>. QED
    BY <1>1, <1>2, TypeCorrect, NextDocs, PTL DEF Spec

-----------------------------------------------------------------------------
(* Edges, when no record is written back (MaxHeld = 0).                     *)

(* AdjacencyMirrored says that an entry has its edge; that an edge has its   *)
(* entry is what the duplicate check and the drops rely on.                  *)
Entry(E, e) == <<E[e].from, LabelHash[E[e].label], e, E[e].to>>

Reachable(c) == \A e \in DOMAIN c.edges : Entry(c.edges, e) \in c.out_edges

EdgesSound(c) == Reachable(c) /\ SingleEdges(c)

EdgeInv == held = {} /\ EdgesSound(Contents) /\ EdgesSound(committed)

(* The inductive invariant with what it rests on.                            *)
StoreInv == TypeOK /\ AdjacencyInv /\ EdgeInv

-----------------------------------------------------------------------------
(* What a step does to the edges.                                            *)

(* The records are the same; a statement may have written one back.          *)
SameEdges ==
    /\ DOMAIN edges' = DOMAIN edges
    /\ \A e \in DOMAIN edges : edges'[e] = edges[e]
    /\ out_edges' = out_edges

LEMMA NothingHeld ==
    ASSUME MaxHeld = 0, held = {}, [Next]_vars
    PROVE  held' = {}
<1>1. \A c : ~Bind(c)
    BY FS_EmptySet DEF Bind
<1>2. ASSUME NodeStatement PROVE held' = held
    BY <1>2, NodeStatementFrame DEF DropNode, Reindex
<1>3. ASSUME EdgeStatement PROVE held' = held
    BY <1>3 DEF EdgeStatement, AddE, UpsertE, UpdateE, DropEdge, InsertV,
                DropVector, EdgesOnly
<1>. QED
    BY <1>1, <1>2, <1>3 DEF Next, Begin, Commit, Abort, SetSkip, vars

(* An edge copy is a stored record, so that writing it back changes nothing. *)
LEMMA WrittenBack ==
    ASSUME TypeOK, held = {}, NEW c \in EdgeCopies, UpdateE(c)
    PROVE  SameEdges
<1>1. c.id \in DOMAIN edges /\ c.val = edges[c.id]
    BY DisjointIds
       DEF EdgeCopies, Copies, Current, TypeOK, ContentsOK, Contents, TablesOf
<1>. QED
    BY <1>1 DEF UpdateE, Put, SameEdges

LEMMA SameEdgesSound ==
    ASSUME EdgesSound(Contents), SameEdges
    PROVE  EdgesSound(Contents)'
BY DEF SameEdges, EdgesSound, Reachable, SingleEdges, Entry, Contents

(* add_edge and upsert_e look for an entry before they write: an edge with   *)
(* the same ends and label would have one.                                   *)
LEMMA WrittenEdgeSound ==
    ASSUME AdjacencyInv, EdgesSound(Contents), NEW e, NEW l, NEW f, NEW t,
           e \notin issued, Between(l, f, t) = {}, WriteEdge(e, l, f, t)
    PROVE  EdgesSound(Contents)'
<1>1. /\ e \notin DOMAIN edges
      /\ DOMAIN edges' = DOMAIN edges \cup {e}
      /\ edges'[e] = [label |-> l, from |-> f, to |-> t]
      /\ \A d \in DOMAIN edges : edges'[d] = edges[d]
      /\ out_edges' = out_edges \cup {<<f, LabelHash[l], e, t>>}
    BY DEF WriteEdge, Put, AdjacencyInv, EdgesIssued
<1>2. Reachable(Contents)'
    BY <1>1 DEF EdgesSound, Reachable, Entry, Contents
<1>3. \A d \in DOMAIN edges : edges[d] # edges'[e]
  <2>. SUFFICES ASSUME NEW d \in DOMAIN edges, edges[d] = edges'[e] PROVE FALSE
      OBVIOUS
  <2>1. <<f, LabelHash[l], d, t>> \in out_edges
      BY <1>1 DEF EdgesSound, Reachable, Entry, Contents
  <2>. QED
      BY <2>1 DEF Between
<1>4. SingleEdges(Contents)'
    BY <1>1, <1>3 DEF EdgesSound, SingleEdges, Contents
<1>. QED
    BY <1>2, <1>4 DEF EdgesSound

(* Dropping an item takes the edges whose entries it meets, which are the    *)
(* edges of the item: each keeps its entry or goes.                          *)
LEMMA DetachedSound ==
    ASSUME TypeOK, AdjacencyInv, EdgesSound(Contents), NEW i, DetachEdges(i)
    PROVE  /\ EdgesSound(Contents)'
           /\ \A e \in DOMAIN edges' : /\ e \in DOMAIN edges
                                       /\ edges'[e] = edges[e]
                                       /\ edges[e].from # i
                                       /\ edges[e].to # i
<1>. DEFINE gone == {a[3] : a \in Outgoing(i) \cup Incoming(i)}
<1>1. /\ DOMAIN edges' = DOMAIN edges \ gone
      /\ \A e \in DOMAIN edges' : edges'[e] = edges[e]
      /\ out_edges' = (out_edges \ Outgoing(i)) \ {Mirrored(a) : a \in Incoming(i)}
    BY DEF DetachEdges, Restrict
<1>2. ASSUME NEW e \in DOMAIN edges'
      PROVE  /\ Entry(edges, e) \in out_edges'
             /\ edges[e].from # i
             /\ edges[e].to # i
  <2>. DEFINE a == Entry(edges, e)
  <2>1. /\ a \in out_edges
        /\ a[3] = e
        /\ e \notin gone
      BY <1>1 DEF EdgesSound, Reachable, Entry, Contents
  <2>2. a \notin Outgoing(i)
      BY <2>1
  <2>3. /\ Mirrored(a) \in in_edges
        /\ Mirrored(a)[3] = e
        /\ Mirrored(a)[1] = edges[e].to
      BY <2>1 DEF Mirrored, Entry, AdjacencyInv, AdjacencyMirrored, Mirroring
  <2>4. Mirrored(a) \notin Incoming(i)
      BY <2>1, <2>3
  <2>5. \A b \in Incoming(i) : Mirrored(b) # a
    <3>. SUFFICES ASSUME NEW b \in Incoming(i), Mirrored(b) = a PROVE FALSE
        OBVIOUS
    <3>1. b[3] = e
        BY <2>1 DEF Mirrored
    <3>. QED
        BY <2>1, <3>1
  <2>6. /\ edges[e].from # i
        /\ edges[e].to # i
      BY <2>1, <2>2, <2>3, <2>4 DEF Outgoing, Incoming, Entry
  <2>. QED
      BY <1>1, <2>1, <2>2, <2>5, <2>6
<1>3. Reachable(Contents)'
    BY <1>1, <1>2 DEF Reachable, Entry, Contents
<1>4. SingleEdges(Contents)'
    BY <1>1 DEF EdgesSound, SingleEdges, Contents
<1>. QED
    BY <1>1, <1>2, <1>3, <1>4 DEF EdgesSound

LEMMA DroppedEdgeSound ==
    ASSUME EdgesSound(Contents), NEW e, DropEdge(e)
    PROVE  /\ EdgesSound(Contents)'
           /\ \A d \in DOMAIN edges' : d \in DOMAIN edges /\ edges'[d] = edges[d]
<1>1. CASE e \notin DOMAIN edges
    BY <1>1 DEF DropEdge, EdgesSound, Reachable, SingleEdges, Entry, Contents
<1>2. CASE e \in DOMAIN edges
  <2>1. /\ DOMAIN edges' = DOMAIN edges \ {e}
        /\ \A d \in DOMAIN edges' : edges'[d] = edges[d]
        /\ out_edges' = out_edges \ {Entry(edges, e)}
      BY <1>2 DEF DropEdge, Delete, Restrict, Entry
  <2>2. \A d \in DOMAIN edges' : Entry(edges, d) # Entry(edges, e)
      BY <2>1 DEF Entry
  <2>. QED
      BY <2>1, <2>2 DEF EdgesSound, Reachable, SingleEdges, Entry, Contents
<1>. QED
    BY <1>1, <1>2

-----------------------------------------------------------------------------
(* The steps.                                                                *)

LEMMA CommittedKept ==
    ASSUME EdgesSound(committed), UNCHANGED committed
    PROVE  EdgesSound(committed)'
BY DEF EdgesSound, Reachable, SingleEdges, Entry

LEMMA NextEdges ==
    ASSUME MaxHeld = 0, StoreInv, [Next]_vars
    PROVE  StoreInv'
<1>1. TypeOK' /\ AdjacencyInv' /\ held' = {}
    BY NextType, NextMirrors, NothingHeld DEF StoreInv, EdgeInv
<1>2. EdgesSound(Contents)' /\ EdgesSound(committed)'
  <2>1. ASSUME SameEdges, UNCHANGED committed
        PROVE  EdgesSound(Contents)' /\ EdgesSound(committed)'
      BY <2>1, SameEdgesSound, CommittedKept DEF StoreInv, EdgeInv
  <2>2. ASSUME NEW n, DropNode(n)
        PROVE  EdgesSound(Contents)' /\ EdgesSound(committed)'
      BY <2>2, DetachedSound, CommittedKept
         DEF DropNode, Reindex, StoreInv, EdgeInv
  <2>3. CASE NodeStatement /\ \A n : ~DropNode(n)
      BY <2>1, <2>3, NodeStatementFrame DEF SameEdges
  <2>4. ASSUME NEW e, NEW l, NEW f, NEW t, AddE(e, l, f, t) \/ UpsertE(e, l, f, t)
        PROVE  EdgesSound(Contents)' /\ EdgesSound(committed)'
    <3>1. UNCHANGED committed
        BY <2>4 DEF AddE, UpsertE, EdgesOnly
    <3>2. CASE Between(l, f, t) = {}
        BY <2>4, <3>1, <3>2, WrittenEdgeSound, CommittedKept
           DEF AddE, UpsertE, StoreInv, EdgeInv
    <3>3. CASE Between(l, f, t) # {}
        BY <2>1, <2>4, <3>1, <3>3 DEF AddE, UpsertE, SameEdges
    <3>. QED
        BY <3>2, <3>3
  <2>5. ASSUME NEW c \in EdgeCopies, UpdateE(c)
        PROVE  EdgesSound(Contents)' /\ EdgesSound(committed)'
      BY <2>1, <2>5, WrittenBack DEF UpdateE, EdgesOnly, StoreInv, EdgeInv
  <2>6. ASSUME NEW e, DropEdge(e)
        PROVE  EdgesSound(Contents)' /\ EdgesSound(committed)'
      BY <2>6, DroppedEdgeSound, CommittedKept DEF DropEdge, EdgesOnly, StoreInv, EdgeInv
  <2>7. ASSUME NEW v, InsertV(v)
        PROVE  EdgesSound(Contents)' /\ EdgesSound(committed)'
      BY <2>1, <2>7 DEF InsertV, SameEdges
  <2>8. ASSUME NEW v, DropVector(v)
        PROVE  EdgesSound(Contents)' /\ EdgesSound(committed)'
      BY <2>8, DetachedSound, CommittedKept DEF DropVector, StoreInv, EdgeInv
  <2>9. CASE EdgeStatement
      BY <2>4, <2>5, <2>6, <2>7, <2>8, <2>9 DEF EdgeStatement
  <2>10. CASE Commit
    <3>1. SameEdges /\ committed' = Contents
        BY <2>10 DEF Commit, tables, SameEdges
    <3>. QED
        BY <3>1, SameEdgesSound
           DEF StoreInv, EdgeInv, EdgesSound, Reachable, SingleEdges, Entry
  <2>11. CASE Abort
      BY <2>11 DEF Abort, StoreInv, EdgeInv, EdgesSound, Reachable, SingleEdges, Entry,
                   Contents
  <2>12. CASE Begin \/ SetSkip \/ (\E c \in Copies : Bind(c)) \/ UNCHANGED vars
      BY <2>1, <2>12 DEF Begin, SetSkip, Bind, vars, tables, SameEdges
  <2>. QED
      BY <2>2, <2>3, <2>9, <2>10, <2>11, <2>12 DEF Next
<1>. QED
    BY <1>1, <1>2 DEF StoreInv, EdgeInv

LEMMA InitEdges == Init => StoreInv
<1>. SUFFICES ASSUME Init PROVE StoreInv
    OBVIOUS
<1>1. AdjacencyInv
    BY DEF Init, Contents, EmptyTable, AdjacencyInv, AdjacencyMirrored, Mirroring,
           CopiesAgree, EdgesIssued
<1>2. EdgesSound(Contents) /\ EdgesSound(committed)
    BY DEF Init, Contents, EmptyTable, EdgesSound, Reachable, SingleEdges
<1>. QED
    BY <1>1, <1>2, InitType DEF StoreInv, EdgeInv, Init

(* The duplicate check reads adjacency entries and not records: whatever was *)
(* dropped, aborted and inserted again, for every schema and also where two  *)
(* labels share a hash, add_edge and upsert_e store at most one edge of a    *)
(* label from one end to another.                                            *)
THEOREM OneEdgeHolds ==
    ASSUME MaxHeld = 0
    PROVE  Spec => []OneEdgePerPair
<1>1. StoreInv /\ [Next]_vars => StoreInv'
    BY NextEdges
<1>2. StoreInv => OneEdgePerPair
    BY DEF StoreInv, EdgeInv, EdgesSound, OneEdgePerPair, Holds
<1>. QED
    BY <1>1, <1>2, InitEdges, PTL DEF Spec

-----------------------------------------------------------------------------
(* Ends.                                                                     *)

AttachedInv == Attached(Contents) /\ Attached(committed)

(* A step after which every edge was there before, and its ends still are.   *)
LEMMA EndsKept ==
    ASSUME AttachedInv, UNCHANGED committed,
           \A e \in DOMAIN edges' :
              /\ e \in DOMAIN edges
              /\ edges'[e] = edges[e]
              /\ {edges[e].from, edges[e].to} \cap (DOMAIN nodes \cup vectors)
                    \subseteq DOMAIN nodes' \cup vectors'
    PROVE  AttachedInv'
BY DEF AttachedInv, Attached, Contents

(* Only a drop takes a node away.                                            *)
LEMMA NodesGrow ==
    ASSUME NodeStatement, \A n : ~DropNode(n)
    PROVE  DOMAIN nodes \subseteq DOMAIN nodes' /\ UNCHANGED vectors
<1>1. ASSUME NEW n, NEW T, NEW p, NEW F, InsertNode(n, T, p, F)
      PROVE  DOMAIN nodes \subseteq DOMAIN nodes' /\ UNCHANGED vectors
    BY <1>1 DEF InsertNode, Reindex, Put
<1>2. ASSUME NEW c, NEW q, UpdateN(c, q) \/ UpdateRefused(c, q)
      PROVE  DOMAIN nodes \subseteq DOMAIN nodes' /\ UNCHANGED vectors
    BY <1>2 DEF UpdateN, UpdateRefused, WriteNode, Put, tables
<1>3. ASSUME NEW c, NEW q, UpsertExisting(c, q)
      PROVE  DOMAIN nodes \subseteq DOMAIN nodes' /\ UNCHANGED vectors
    BY <1>3 DEF UpsertExisting, Reindex, WriteNode, Put
<1>4. ASSUME NEW n, NEW T, NEW q, UpsertNewN(n, T, q)
      PROVE  DOMAIN nodes \subseteq DOMAIN nodes' /\ UNCHANGED vectors
    BY <1>4 DEF UpsertNewN, Reindex, Put
<1>. QED
    BY <1>1, <1>2, <1>3, <1>4 DEF NodeStatement, AddN, AddBareN

LEMMA NextAttached ==
    ASSUME MaxHeld = 0, ~MissingEnds, StoreInv, AttachedInv, [Next]_vars
    PROVE  AttachedInv'
<1>1. ASSUME SameEdges, UNCHANGED committed,
             DOMAIN nodes \cup vectors \subseteq DOMAIN nodes' \cup vectors'
      PROVE  AttachedInv'
    BY <1>1, EndsKept DEF SameEdges
<1>2. ASSUME NEW n, DropNode(n) PROVE AttachedInv'
  <2>1. /\ DOMAIN nodes \ {n} \subseteq DOMAIN nodes'
        /\ UNCHANGED <<vectors, committed>>
      BY <1>2 DEF DropNode, Reindex, Delete, Restrict
  <2>. QED
      BY <1>2, <2>1, DetachedSound, EndsKept
         DEF DropNode, Reindex, StoreInv, EdgeInv
<1>3. CASE NodeStatement /\ \A n : ~DropNode(n)
  <2>1. DOMAIN nodes \subseteq DOMAIN nodes' /\ UNCHANGED vectors
      BY <1>3, NodesGrow
  <2>. QED
      BY <1>1, <1>3, <2>1, NodeStatementFrame DEF SameEdges
<1>4. ASSUME NEW e, NEW l, NEW f \in Ends, NEW t \in Ends,
             AddE(e, l, f, t) \/ UpsertE(e, l, f, t)
      PROVE  AttachedInv'
  <2>1. UNCHANGED <<nodes, vectors, committed>>
      BY <1>4 DEF AddE, UpsertE, EdgesOnly
  <2>2. CASE UNCHANGED <<edges, out_edges>>
      BY <1>1, <2>1, <2>2 DEF SameEdges
  <2>3. CASE e \notin issued /\ WriteEdge(e, l, f, t)
    <3>1. /\ DOMAIN edges' = DOMAIN edges \cup {e}
          /\ edges'[e] = [label |-> l, from |-> f, to |-> t]
          /\ \A d \in DOMAIN edges : d # e => edges'[d] = edges[d]
        BY <2>3 DEF WriteEdge, Put
    <3>. QED
        BY <2>1, <3>1 DEF AttachedInv, Attached, Contents, Ends
  <2>. QED
      BY <1>4, <2>2, <2>3 DEF AddE, UpsertE
<1>5. ASSUME NEW c \in EdgeCopies, UpdateE(c) PROVE AttachedInv'
    BY <1>1, <1>5, WrittenBack DEF UpdateE, EdgesOnly, StoreInv, EdgeInv
<1>6. ASSUME NEW e, DropEdge(e) PROVE AttachedInv'
    BY <1>6, DroppedEdgeSound, EndsKept DEF DropEdge, EdgesOnly, StoreInv, EdgeInv
<1>7. ASSUME NEW v, InsertV(v) PROVE AttachedInv'
    BY <1>1, <1>7 DEF InsertV, SameEdges
<1>8. ASSUME NEW v, DropVector(v) PROVE AttachedInv'
    BY <1>8, DetachedSound, EndsKept DEF DropVector, StoreInv, EdgeInv
<1>9. CASE EdgeStatement
    BY <1>4, <1>5, <1>6, <1>7, <1>8, <1>9 DEF EdgeStatement
<1>10. CASE Commit
    BY <1>10 DEF Commit, tables, AttachedInv, Attached, Contents
<1>11. CASE Abort
    BY <1>11 DEF Abort, AttachedInv, Attached, Contents
<1>12. CASE Begin \/ SetSkip \/ (\E c \in Copies : Bind(c)) \/ UNCHANGED vars
    BY <1>1, <1>12 DEF Begin, SetSkip, Bind, vars, tables, SameEdges
<1>. QED
    BY <1>2, <1>3, <1>9, <1>10, <1>11, <1>12 DEF Next

(* A drop of a node or a vector takes every edge at either end with it,      *)
(* after any sequence of inserts, drops and aborts and also for an edge from *)
(* an item to itself, provided that queries name only ends that are stored:  *)
(* add_edge does not look them up.                                           *)
THEOREM NoDanglingHolds ==
    ASSUME MaxHeld = 0, ~MissingEnds
    PROVE  Spec => []NoDanglingEdge
<1>1. Init => StoreInv /\ AttachedInv
    BY InitEdges DEF Init, Contents, EmptyTable, AttachedInv, Attached
<1>2. StoreInv /\ AttachedInv /\ [Next]_vars => (StoreInv /\ AttachedInv)'
    BY NextEdges, NextAttached
<1>3. AttachedInv => NoDanglingEdge
    BY DEF AttachedInv, NoDanglingEdge, Holds
<1>. QED
    BY <1>1, <1>2, <1>3, PTL DEF Spec

-----------------------------------------------------------------------------
(* Secondary indices, when no record is written back (MaxHeld = 0).          *)

(* A table without DUP_SORT has one owner per value.                         *)
OneOwner(c) ==
    \A ix \in UniqueIndices : \A x, y \in c.secondary[ix] :
        x[1] = y[1] => x[2] = y[2]

EntriesComplete(c) == ValuesIndexed(c) /\ OneOwner(c)

(* The field f of the stored node n, and what storing v in it does to the    *)
(* index: the entry of the old value goes, the entry of v comes.             *)
Had(n, f) ==
    /\ n \in DOMAIN nodes
    /\ nodes[n].props # NoProps
    /\ f \in DOMAIN nodes[n].props

Moves(ix, n, v) ==
    IndexPut(ix, IF Had(n, ix[2])
                 THEN IndexDelete(ix, secondary[ix], nodes[n].props[ix[2]], n)
                 ELSE secondary[ix], v, n)

(* A statement stores a node of label T with properties p and moves the      *)
(* entries of the fields F.                                                  *)
Stores(n, T, p, F) ==
    /\ nodes' = Put(nodes, n, [label |-> T, props |-> p])
    /\ n \in DOMAIN nodes => nodes[n].label = T
    /\ \A ix \in Indices :
          secondary'[ix] = IF ix[1] = T /\ ix[2] \in F
                           THEN Moves(ix, n, p[ix[2]]) ELSE secondary[ix]
    /\ \A ix \in Indices :
          ix[1] = T /\ ix[2] \in F => p # NoProps /\ ix[2] \in DOMAIN p
    /\ \A ix \in Indices :
          ix[1] = T /\ ix[2] \notin F /\ Had(n, ix[2]) =>
             /\ p # NoProps
             /\ ix[2] \in DOMAIN p
             /\ p[ix[2]] = nodes[n].props[ix[2]]

(* No field is given without moving its entry, and no unique value is taken  *)
(* from another node.                                                        *)
Minds(n, T, p, F) ==
    /\ \A ix \in Indices :
          ix[1] = T /\ p # NoProps /\ ix[2] \in DOMAIN p \ F =>
             Had(n, ix[2]) /\ nodes[n].props[ix[2]] = p[ix[2]]
    /\ \A ix \in UniqueIndices : ix[1] = T /\ ix[2] \in F =>
          \A x \in secondary[ix] : x[1] = p[ix[2]] => x[2] = n

-----------------------------------------------------------------------------
(* Stored nodes.                                                             *)

LEMMA StoreSound ==
    ASSUME TypeOK, IndexedValuesHold(Contents), NEW n, NEW T, NEW p, NEW F,
           Stores(n, T, p, F)
    PROVE  IndexedValuesHold(Contents)'
<1>1. /\ n \in DOMAIN nodes'
      /\ nodes'[n].label = T
      /\ nodes'[n].props = p
      /\ \A m \in DOMAIN nodes : m # n => m \in DOMAIN nodes' /\ nodes'[m] = nodes[m]
    BY DEF Stores, Put
<1>2. ASSUME NEW ix \in Indices, NEW x \in secondary[ix],
             x[2] = n => ~(ix[1] = T /\ ix[2] \in F)
      PROVE  Valued(nodes', ix, x[1], x[2])
    BY <1>1, <1>2 DEF Stores, IndexedValuesHold, Valued, Had, Contents
<1>3. ASSUME NEW ix \in Indices, NEW x \in secondary'[ix], ix[1] = T, ix[2] \in F
      PROVE  \/ x \in secondary[ix] /\ x[2] # n
             \/ x = <<p[ix[2]], n>>
  <2>1. secondary'[ix] = Moves(ix, n, p[ix[2]])
      BY <1>3 DEF Stores
  <2>2. x \in secondary[ix] \/ x = <<p[ix[2]], n>>
      BY <2>1 DEF Moves, IndexPut, IndexDelete, WithoutKey
  <2>3. ASSUME x \in secondary[ix], x[2] = n, x # <<p[ix[2]], n>> PROVE FALSE
    <3>1. Valued(nodes, ix, x[1], n)
        BY <2>3 DEF IndexedValuesHold, Contents
    <3>2. Had(n, ix[2]) /\ x[1] = nodes[n].props[ix[2]]
        BY <3>1 DEF Valued, Had
    <3>3. x = <<x[1], n>>
        BY <2>3 DEF TypeOK, ContentsOK, Contents
    <3>4. x \in IndexDelete(ix, secondary[ix], nodes[n].props[ix[2]], n)
        BY <2>1, <2>3, <3>2 DEF Moves, IndexPut, WithoutKey
    <3>. QED
        BY <3>2, <3>3, <3>4 DEF IndexDelete, WithoutKey
  <2>. QED
      BY <2>2, <2>3
<1>4. ASSUME NEW ix \in Indices, NEW x \in secondary'[ix]
      PROVE  Valued(nodes', ix, x[1], x[2])
  <2>1. CASE ix[1] = T /\ ix[2] \in F
    <3>1. CASE x = <<p[ix[2]], n>>
        BY <1>1, <2>1, <3>1 DEF Stores, Valued
    <3>. QED
        BY <1>2, <1>3, <2>1, <3>1
  <2>2. CASE ~(ix[1] = T /\ ix[2] \in F)
      BY <1>2, <2>2 DEF Stores
  <2>. QED
      BY <2>1, <2>2
<1>. QED
    BY <1>4 DEF IndexedValuesHold, Contents

LEMMA StoreComplete ==
    ASSUME TypeOK, EntriesComplete(Contents), NEW n, NEW T, NEW p, NEW F,
           Stores(n, T, p, F), Minds(n, T, p, F)
    PROVE  EntriesComplete(Contents)'
<1>1. /\ DOMAIN nodes' = DOMAIN nodes \cup {n}
      /\ nodes'[n].label = T
      /\ nodes'[n].props = p
      /\ \A m \in DOMAIN nodes : m # n => nodes'[m] = nodes[m]
    BY DEF Stores, Put
<1>2. UniqueIndices \subseteq Indices
    BY DEF Indices
<1>3. ASSUME NEW ix \in Indices, NEW x \in secondary[ix], x[2] # n
      PROVE  x \in secondary'[ix]
  <2>1. CASE ~(ix[1] = T /\ ix[2] \in F)
      BY <2>1 DEF Stores
  <2>2. CASE ix[1] = T /\ ix[2] \in F /\ ix \notin UniqueIndices
    <3>1. x = <<x[1], x[2]>>
        BY DEF TypeOK, ContentsOK, Contents
    <3>2. \A v : x # <<v, n>>
        BY <1>3, <3>1
    <3>. QED
        BY <2>2, <3>2 DEF Stores, Moves, IndexPut, IndexDelete
  <2>3. CASE ix[1] = T /\ ix[2] \in F /\ ix \in UniqueIndices
    <3>1. x[1] # p[ix[2]]
        BY <1>3, <2>3 DEF Minds
    <3>2. ASSUME Had(n, ix[2]) PROVE x[1] # nodes[n].props[ix[2]]
      <4>. DEFINE v == nodes[n].props[ix[2]]
      <4>1. Valued(nodes, ix, v, n)
          BY <2>3, <3>2 DEF Had, Valued, Stores
      <4>2. v \in Values
          BY <3>2, PropValues DEF Had, TypeOK, ContentsOK, Contents, TablesOf, Node
      <4>3. <<v, n>> \in secondary[ix]
          BY <3>2, <4>1, <4>2 DEF EntriesComplete, ValuesIndexed, Contents, Had
      <4>. QED
          BY <1>3, <2>3, <4>3 DEF EntriesComplete, OneOwner, Contents
    <3>. QED
        BY <2>3, <3>1, <3>2 DEF Stores, Moves, IndexPut, IndexDelete, WithoutKey
  <2>. QED
      BY <2>1, <2>2, <2>3
<1>4. ASSUME NEW ix \in Indices, NEW m \in DOMAIN nodes', NEW v \in Values,
             Valued(nodes', ix, v, m)
      PROVE  <<v, m>> \in secondary'[ix]
  <2>1. CASE m # n
    <3>1. m \in DOMAIN nodes /\ Valued(nodes, ix, v, m)
        BY <1>1, <1>4, <2>1 DEF Valued
    <3>. QED
        BY <1>3, <2>1, <3>1 DEF EntriesComplete, ValuesIndexed, Contents
  <2>2. CASE m = n /\ ix[2] \in F
      BY <1>1, <1>4, <2>2 DEF Stores, Valued, Moves, IndexPut
  <2>3. CASE m = n /\ ix[2] \notin F
    <3>1. Had(n, ix[2]) /\ nodes[n].props[ix[2]] = v /\ ix[1] = T
        BY <1>1, <1>4, <2>3 DEF Minds, Valued
    <3>2. Valued(nodes, ix, v, n) /\ n \in DOMAIN nodes
        BY <3>1 DEF Stores, Valued, Had
    <3>. QED
        BY <2>3, <3>2 DEF Stores, EntriesComplete, ValuesIndexed, Contents
  <2>. QED
      BY <2>1, <2>2, <2>3
<1>5. ASSUME NEW ix \in UniqueIndices, NEW x \in secondary'[ix],
             NEW y \in secondary'[ix], x[1] = y[1]
      PROVE  x[2] = y[2]
  <2>1. ix \in Indices
      BY <1>2
  <2>2. CASE ~(ix[1] = T /\ ix[2] \in F)
      BY <1>5, <2>1, <2>2 DEF Stores, EntriesComplete, OneOwner, Contents
  <2>3. CASE ix[1] = T /\ ix[2] \in F
    <3>. DEFINE w == p[ix[2]]
    <3>1. secondary'[ix] = Moves(ix, n, w)
        BY <2>1, <2>3 DEF Stores
    <3>2. \A z \in secondary'[ix] : \/ z \in secondary[ix] /\ z[1] # w
                                    \/ z = <<w, n>>
        BY <1>5, <3>1 DEF Moves, IndexPut, IndexDelete, WithoutKey
    <3>. QED
        BY <1>5, <3>2 DEF EntriesComplete, OneOwner, Contents
  <2>. QED
      BY <2>2, <2>3
<1>. QED
    BY <1>4, <1>5 DEF EntriesComplete, ValuesIndexed, OneOwner, Contents

-----------------------------------------------------------------------------
(* The statements that store a node.  No copy is held, so the one a          *)
(* statement works on is the stored record.                                  *)

LEMMA StoredCopy ==
    ASSUME TypeOK, held = {}, NEW c \in NodeCopies
    PROVE  /\ c.id \in DOMAIN nodes
           /\ c.val = nodes[c.id]
           /\ c.val.props \in PropMaps \cup {NoProps}
<1>1. /\ c.id \in DOMAIN nodes
      /\ c.val = nodes[c.id]
    BY DisjointIds
       DEF NodeCopies, Copies, Current, TypeOK, ContentsOK, Contents, TablesOf
<1>. QED
    BY <1>1, CopyTypes DEF Node

LEMMA IndexPairs ==
    /\ \A ix \in Indices : ix = <<ix[1], ix[2]>> /\ ix[2] \in IndexedFields(ix[1])
    /\ UniqueIndices \subseteq Indices
BY SchemaAssumption DEF Indices, IndexedFields

(* A field without an entry is one no default gives.                         *)
NoIndexedDefaults ==
    \A T \in NodeLabels : DOMAIN Defaults[T] \cap IndexedFields(T) = {}

LEMMA InsertStores ==
    ASSUME DocsInv, NEW n, NEW T, NEW p \in PropMaps, NEW listed,
           txn = "open", n \notin issued, InsertNode(n, T, p, listed),
           txn' # "failed"
    PROVE  /\ Stores(n, T, p, listed \cap DOMAIN p)
           /\ \/ listed = IndexedFields(T)
              \/ DOMAIN p \cap IndexedFields(T) = {}
              => Minds(n, T, p, listed \cap DOMAIN p)
<1>. DEFINE present == listed \cap DOMAIN p
<1>1. n \notin DOMAIN nodes
    BY DEF DocsInv, NodesIssued, Contents
<1>2. {f \in present : Taken(T, f, p[f])} = {}
    BY DEF InsertNode, Reindex
<1>3. /\ nodes' = Put(nodes, n, [label |-> T, props |-> p])
      /\ \A ix \in Indices :
            secondary'[ix] = IF ix[1] = T /\ ix[2] \in present
                             THEN IndexPut(ix, secondary[ix], p[ix[2]], n)
                             ELSE secondary[ix]
    BY <1>2 DEF InsertNode, Reindex
<1>4. Stores(n, T, p, present)
    BY <1>1, <1>3, PropValues DEF Stores, Moves, Had
<1>5. \A ix \in UniqueIndices : ix[1] = T /\ ix[2] \in present =>
         \A x \in secondary[ix] : x[1] # p[ix[2]]
    BY <1>2, IndexPairs DEF Taken, HasKey
<1>. QED
    BY <1>4, <1>5, IndexPairs DEF Minds

LEMMA UpsertNewStores ==
    ASSUME DocsInv, NEW n, NEW T \in NodeLabels, NEW q \in PropMaps,
           UpsertNewN(n, T, q), txn' # "failed"
    PROVE  \E p, F : Stores(n, T, p, F) /\ Minds(n, T, p, F)
<1>. DEFINE p == Overlay(Defaults[T], q)
            props == IF DOMAIN p = {} THEN NoProps ELSE p
            present == DOMAIN p \cap IndexedFields(T)
<1>1. n \notin DOMAIN nodes
    BY DEF UpsertNewN, Reindex, DocsInv, NodesIssued, Contents
<1>2. /\ {f \in present : Taken(T, f, p[f])} = {}
      /\ nodes' = Put(nodes, n, [label |-> T, props |-> props])
      /\ \A ix \in Indices :
            secondary'[ix] = IF ix[1] = T /\ ix[2] \in present
                             THEN IndexPut(ix, secondary[ix], p[ix[2]], n)
                             ELSE secondary[ix]
    BY DEF UpsertNewN, Reindex
<1>3. /\ p \in PropMaps
      /\ p # NoProps
    BY OverlayProps, PropValues, SchemaAssumption
<1>4. /\ present # {} => props = p
      /\ props # NoProps => props = p
    OBVIOUS
<1>. HIDE DEF p, props
<1>5. Stores(n, T, props, present)
    BY <1>1, <1>2, <1>3, <1>4 DEF Stores, Moves, Had
<1>6. \A ix \in UniqueIndices : ix[1] = T /\ ix[2] \in present =>
         \A x \in secondary[ix] : x[1] # props[ix[2]]
    BY <1>2, <1>4, IndexPairs DEF Taken, HasKey
<1>7. Minds(n, T, props, present)
    BY <1>4, <1>6, IndexPairs DEF Minds
<1>. QED
    BY <1>5, <1>7

LEMMA UpdateStores ==
    ASSUME TypeOK, held = {}, NEW c \in NodeCopies, NEW q \in PropMaps,
           UpdateN(c, q)
    PROVE  \E p, F :
              /\ Stores(c.id, c.val.label, p, F)
              /\ ~FreshFields /\ EntriesComplete(Contents)
                    => Minds(c.id, c.val.label, p, F)
<1>. DEFINE old == c.val.props
            n == c.id
            T == c.val.label
            p == IF old = NoProps THEN q ELSE Overlay(old, q)
            F == IF old = NoProps THEN DOMAIN q ELSE DOMAIN q \cap DOMAIN old
<1>1. /\ n \in DOMAIN nodes
      /\ nodes[n].label = T
      /\ nodes[n].props = old
      /\ old \in PropMaps \cup {NoProps}
    BY StoredCopy
<1>2. /\ p # NoProps
      /\ DOMAIN p = IF old = NoProps THEN DOMAIN q ELSE DOMAIN old \cup DOMAIN q
      /\ \A f \in DOMAIN q : p[f] = q[f]
      /\ old # NoProps => \A f \in DOMAIN old \ DOMAIN q : p[f] = old[f]
      /\ F \subseteq DOMAIN q
    BY <1>1, OverlayProps, PropValues DEF Overlay
<1>3. /\ nodes' = Put(nodes, n, [label |-> T, props |-> p])
      /\ ~UpdateConflict(c, q)
      /\ Applicable(c, q)
    BY DEF UpdateN, WriteNode
<1>4. \A ix \in Indices :
         secondary'[ix] =
            IF ix[1] = T /\ ix[2] \in F
            THEN IndexPut(ix, IF old = NoProps THEN secondary[ix]
                              ELSE IndexDelete(ix, secondary[ix], old[ix[2]], n),
                          q[ix[2]], n)
            ELSE secondary[ix]
    BY DEF UpdateN, UpdateIndices, Reindex
<1>5. Stores(n, T, p, F)
  <2>1. ASSUME NEW ix \in Indices
        PROVE  secondary'[ix] = IF ix[1] = T /\ ix[2] \in F
                                THEN Moves(ix, n, p[ix[2]]) ELSE secondary[ix]
      BY <1>1, <1>2, <1>4 DEF Moves, Had
  <2>2. ASSUME NEW f, f \in F PROVE p # NoProps /\ f \in DOMAIN p
      BY <1>2, <2>2
  <2>3. ASSUME NEW f, f \notin F, Had(n, f)
        PROVE  p # NoProps /\ f \in DOMAIN p /\ p[f] = nodes[n].props[f]
      BY <1>1, <1>2, <2>3 DEF Had
  <2>. HIDE DEF p, F
  <2>. QED
      BY <1>1, <1>3, <2>1, <2>2, <2>3 DEF Stores
<1>6. ASSUME ~FreshFields, EntriesComplete(Contents) PROVE Minds(n, T, p, F)
  <2>1. /\ old # NoProps
        /\ DOMAIN q \subseteq DOMAIN old
        /\ F = DOMAIN q
      BY <1>3, <1>6 DEF Applicable
  <2>2. ASSUME NEW f, f \in DOMAIN p \ F
        PROVE  Had(n, f) /\ nodes[n].props[f] = p[f]
      BY <1>1, <1>2, <2>1, <2>2 DEF Had
  <2>3. ASSUME NEW ix \in UniqueIndices, ix[1] = T, ix[2] \in F,
               NEW x \in secondary[ix], x[1] = p[ix[2]]
        PROVE  x[2] = n
    <3>1. x[1] = q[ix[2]] /\ ix = <<T, ix[2]>> /\ ix \in Indices
        BY <1>2, <2>3, IndexPairs
    <3>2. CASE old[ix[2]] # q[ix[2]]
        BY <1>3, <2>1, <2>3, <3>1, <3>2 DEF UpdateConflict
    <3>3. CASE old[ix[2]] = q[ix[2]]
      <4>1. Valued(nodes, ix, q[ix[2]], n)
          BY <1>1, <2>1, <2>3, <3>3 DEF Valued
      <4>2. q[ix[2]] \in Values
          BY <2>1, <2>3, PropValues
      <4>3. <<q[ix[2]], n>> \in secondary[ix]
          BY <1>1, <1>6, <3>1, <4>1, <4>2 DEF EntriesComplete, ValuesIndexed, Contents
      <4>. QED
          BY <1>6, <2>3, <3>1, <4>3 DEF EntriesComplete, OneOwner, Contents
    <3>. QED
        BY <3>2, <3>3
  <2>. HIDE DEF p, F
  <2>. QED
      BY <2>2, <2>3 DEF Minds
<1>. QED
    BY <1>5, <1>6

LEMMA UpsertStores ==
    ASSUME TypeOK, held = {}, NEW c \in NodeCopies, NEW q \in PropMaps,
           UpsertExisting(c, q), txn' # "failed"
    PROVE  \E p, F : /\ Stores(c.id, c.val.label, p, F)
                     /\ Minds(c.id, c.val.label, p, F)
<1>. DEFINE old == c.val.props
            n == c.id
            T == c.val.label
            p == IF old = NoProps THEN q ELSE Overlay(old, q)
            F == Touched(c, q)
<1>1. /\ n \in DOMAIN nodes
      /\ nodes[n].label = T
      /\ nodes[n].props = old
      /\ old \in PropMaps \cup {NoProps}
    BY StoredCopy
<1>2. /\ p # NoProps
      /\ DOMAIN p = IF old = NoProps THEN DOMAIN q ELSE DOMAIN old \cup DOMAIN q
      /\ \A f \in DOMAIN q : p[f] = q[f]
      /\ old # NoProps => \A f \in DOMAIN old \ DOMAIN q : p[f] = old[f]
    BY <1>1, OverlayProps, PropValues DEF Overlay
<1>3. /\ nodes' = Put(nodes, n, [label |-> T, props |-> p])
      /\ {f \in F : Taken(T, f, q[f])} = {}
      /\ \A ix \in Indices :
            secondary'[ix] = IF ix[1] = T /\ ix[2] \in F
                             THEN Moved(c, q, ix, secondary[ix]) ELSE secondary[ix]
    BY DEF UpsertExisting, Reindex, WriteNode
<1>4. /\ F \subseteq DOMAIN q
      /\ \A f \in (DOMAIN q \cap IndexedFields(T)) \ F :
            old # NoProps /\ f \in DOMAIN old /\ old[f] = q[f]
    BY DEF Touched
<1>. HIDE DEF F
<1>5. ASSUME NEW ix \in Indices, ix[1] = T, ix[2] \in F
      PROVE  /\ Moved(c, q, ix, secondary[ix]) = Moves(ix, n, p[ix[2]])
             /\ ix[2] \in DOMAIN p
    BY <1>1, <1>2, <1>4, <1>5 DEF Moved, Moves, Had
<1>6. ASSUME NEW ix \in Indices, ix[1] = T, ix[2] \notin F
      PROVE  /\ Had(n, ix[2]) => ix[2] \in DOMAIN p /\ p[ix[2]] = nodes[n].props[ix[2]]
             /\ ix[2] \in DOMAIN p => Had(n, ix[2])
  <2>1. ix[2] \in DOMAIN q => /\ old # NoProps
                              /\ ix[2] \in DOMAIN old
                              /\ old[ix[2]] = q[ix[2]]
      BY <1>4, <1>6, IndexPairs
  <2>. HIDE DEF p
  <2>. QED
      BY <1>1, <1>2, <2>1 DEF Had
<1>7. ASSUME NEW ix \in UniqueIndices, ix[1] = T, ix[2] \in F, NEW x \in secondary[ix]
      PROVE  x[1] # p[ix[2]]
    BY <1>2, <1>3, <1>4, <1>7, IndexPairs DEF Taken, HasKey
<1>. HIDE DEF p
<1>8. Stores(n, T, p, F)
    BY <1>1, <1>2, <1>3, <1>5, <1>6 DEF Stores
<1>9. Minds(n, T, p, F)
    BY <1>6, <1>7 DEF Minds
<1>. QED
    BY <1>8, <1>9

(* Every statement but a drop stores one node or changes neither the nodes   *)
(* nor the indices.                                                          *)
LEMMA StatementStores ==
    ASSUME StoreInv, DocsInv, NodeStatement, \A n : ~DropNode(n), txn' # "failed"
    PROVE  \/ UNCHANGED <<nodes, secondary>>
           \/ \E n, T, p, F :
                 /\ Stores(n, T, p, F)
                 /\ ~FreshFields /\ NoIndexedDefaults /\ EntriesComplete(Contents)
                       => Minds(n, T, p, F)
<1>1. TypeOK /\ held = {}
    BY DEF StoreInv, EdgeInv
<1>2. ASSUME NEW n, NEW T \in NodeLabels, NEW q \in PropMaps, AddN(n, T, q)
      PROVE  \E p, F : Stores(n, T, p, F) /\ Minds(n, T, p, F)
  <2>1. Overlay(Defaults[T], q) \in PropMaps
      BY OverlayProps, SchemaAssumption
  <2>. QED
      BY <1>2, <2>1, InsertStores DEF AddN
<1>3. ASSUME NEW n, NEW T \in NodeLabels, AddBareN(n, T)
      PROVE  \E p, F : Stores(n, T, p, F) /\ (NoIndexedDefaults => Minds(n, T, p, F))
  <2>1. Defaults[T] \in PropMaps
      BY SchemaAssumption
  <2>. QED
      BY <1>3, <2>1, InsertStores DEF AddBareN, NoIndexedDefaults
<1>4. ASSUME NEW c, NEW q, UpdateRefused(c, q) PROVE UNCHANGED <<nodes, secondary>>
    BY <1>4 DEF UpdateRefused, tables
<1>. QED
    BY <1>1, <1>2, <1>3, <1>4, UpsertNewStores, UpdateStores, UpsertStores
       DEF NodeStatement

-----------------------------------------------------------------------------
(* Drops.                                                                    *)

LEMMA DropFields ==
    ASSUME TypeOK, NEW n, DropNode(n), txn' # "failed"
    PROVE  /\ DOMAIN nodes' = DOMAIN nodes \ {n}
           /\ \A m \in DOMAIN nodes' : nodes'[m] = nodes[m]
           /\ \A ix \in Indices :
                 secondary'[ix] =
                    IF nodes[n].label = ix[1] /\ Had(n, ix[2])
                    THEN IndexDelete(ix, secondary[ix], nodes[n].props[ix[2]], n)
                    ELSE secondary[ix]
<1>1. /\ n \in DOMAIN nodes
      /\ nodes' = Delete(nodes, n)
      /\ secondary' = IF nodes[n].props = NoProps THEN secondary
                      ELSE [ix \in Indices |->
                              IF ix[1] = nodes[n].label /\ ix[2] \in DOMAIN nodes[n].props
                              THEN IndexDelete(ix, secondary[ix], nodes[n].props[ix[2]], n)
                              ELSE secondary[ix]]
    BY DEF DropNode, Reindex
<1>2. /\ DOMAIN nodes' = DOMAIN nodes \ {n}
      /\ \A m \in DOMAIN nodes' : nodes'[m] = nodes[m]
    BY <1>1 DEF Delete, Restrict
<1>. QED
    BY <1>1, <1>2 DEF Had

LEMMA DropSound ==
    ASSUME TypeOK, IndexedValuesHold(Contents), NEW n, DropNode(n), txn' # "failed"
    PROVE  IndexedValuesHold(Contents)'
<1>1. ASSUME NEW ix \in Indices, NEW x \in secondary'[ix]
      PROVE  Valued(nodes', ix, x[1], x[2])
  <2>1. x \in secondary[ix]
      BY <1>1, DropFields DEF IndexDelete, WithoutKey
  <2>2. Valued(nodes, ix, x[1], x[2])
      BY <2>1 DEF IndexedValuesHold, Contents
  <2>3. x = <<x[1], x[2]>>
      BY <2>1 DEF TypeOK, ContentsOK, Contents
  <2>4. x[2] # n
    <3>. SUFFICES ASSUME x[2] = n PROVE FALSE
        OBVIOUS
    <3>1. nodes[n].label = ix[1] /\ Had(n, ix[2]) /\ nodes[n].props[ix[2]] = x[1]
        BY <2>2 DEF Valued, Had
    <3>2. x \in IndexDelete(ix, secondary[ix], x[1], n)
        BY <1>1, <3>1, DropFields
    <3>. QED
        BY <2>3, <3>2 DEF IndexDelete, WithoutKey
  <2>. QED
      BY <2>2, <2>4, DropFields DEF Valued
<1>. QED
    BY <1>1 DEF IndexedValuesHold, Contents

LEMMA DropComplete ==
    ASSUME TypeOK, EntriesComplete(Contents), NEW n, DropNode(n), txn' # "failed"
    PROVE  EntriesComplete(Contents)'
<1>1. ASSUME NEW ix \in Indices, NEW m \in DOMAIN nodes', NEW v \in Values,
             Valued(nodes', ix, v, m)
      PROVE  <<v, m>> \in secondary'[ix]
  <2>1. m \in DOMAIN nodes /\ m # n /\ Valued(nodes, ix, v, m)
      BY <1>1, DropFields DEF Valued
  <2>2. <<v, m>> \in secondary[ix]
      BY <2>1 DEF EntriesComplete, ValuesIndexed, Contents
  <2>3. CASE ~(nodes[n].label = ix[1] /\ Had(n, ix[2]))
      BY <2>2, <2>3, DropFields
  <2>4. CASE nodes[n].label = ix[1] /\ Had(n, ix[2])
    <3>. DEFINE w == nodes[n].props[ix[2]]
    <3>1. Valued(nodes, ix, w, n) /\ n \in DOMAIN nodes
        BY <2>4 DEF Had, Valued
    <3>2. w \in Values
        BY <2>4, PropValues DEF Had, TypeOK, ContentsOK, Contents, TablesOf, Node
    <3>3. <<w, n>> \in secondary[ix]
        BY <3>1, <3>2 DEF EntriesComplete, ValuesIndexed, Contents
    <3>4. ix \in UniqueIndices => v # w
        BY <2>1, <2>2, <3>3 DEF EntriesComplete, OneOwner, Contents
    <3>5. secondary'[ix] = IndexDelete(ix, secondary[ix], w, n)
        BY <2>4, DropFields
    <3>. QED
        BY <2>1, <2>2, <3>4, <3>5 DEF IndexDelete, WithoutKey
  <2>. QED
      BY <2>3, <2>4
<1>2. ASSUME NEW ix \in UniqueIndices, NEW x \in secondary'[ix],
             NEW y \in secondary'[ix], x[1] = y[1]
      PROVE  x[2] = y[2]
  <2>1. x \in secondary[ix] /\ y \in secondary[ix]
      BY <1>2, IndexPairs, DropFields DEF IndexDelete, WithoutKey
  <2>. QED
      BY <1>2, <2>1 DEF EntriesComplete, OneOwner, Contents
<1>. QED
    BY <1>1, <1>2 DEF EntriesComplete, ValuesIndexed, OneOwner, Contents

-----------------------------------------------------------------------------
(* The steps.                                                                *)

BaseInv == StoreInv /\ DocsInv

EntriesInv ==
    EntriesComplete(committed) /\ (txn # "failed" => EntriesComplete(Contents))

LEMMA BaseHolds ==
    ASSUME MaxHeld = 0
    PROVE  /\ Init => BaseInv
           /\ BaseInv /\ [Next]_vars => BaseInv'
<1>1. Init => DocsInv
    BY DEF Init, Contents, EmptyTable, DocsInv, DocumentsCurrent, NodesIssued,
           LabelsAgree
<1>. QED
    BY <1>1, InitEdges, NextEdges, NextDocs DEF BaseInv, StoreInv

(* The steps that leave nodes and indices alone.                             *)
LEMMA OtherSteps ==
    ASSUME TypeOK, [Next]_vars, ~NodeStatement
    PROVE  \/ Commit
           \/ Abort
           \/ /\ UNCHANGED <<nodes, secondary, committed>>
              /\ txn = "failed" => txn' = "failed"
<1>1. CASE EdgeStatement
    BY <1>1 DEF EdgeStatement, AddE, UpsertE, UpdateE, DropEdge, InsertV,
                DropVector, EdgesOnly
<1>. QED
    BY <1>1 DEF Next, Begin, Bind, SetSkip, vars, tables

LEMMA StatementsCommitNothing ==
    ASSUME NodeStatement
    PROVE  txn = "open" /\ UNCHANGED committed
<1>1. ASSUME NEW n, DropNode(n) PROVE txn = "open" /\ UNCHANGED committed
    BY <1>1 DEF DropNode, Reindex
<1>2. txn = "open"
    BY ZenonT(60) DEF NodeStatement, AddN, AddBareN, UpsertNewN, UpdateN, UpdateRefused,
           UpsertExisting, DropNode, Reindex
<1>. QED
    BY <1>1, <1>2, NodeStatementFrame

LEMMA NextSound ==
    ASSUME BaseInv, IndexSound, [Next]_vars
    PROVE  IndexSound'
<1>1. TypeOK
    BY DEF BaseInv, StoreInv
<1>2. CASE NodeStatement
  <2>1. /\ txn = "open"
        /\ UNCHANGED committed
        /\ IndexedValuesHold(Contents)
      BY <1>2, StatementsCommitNothing DEF IndexSound, Holds
  <2>2. IndexedValuesHold(committed)'
      BY <2>1 DEF IndexSound, Holds, IndexedValuesHold, Valued
  <2>3. ASSUME txn' # "failed" PROVE IndexedValuesHold(Contents)'
    <3>1. CASE \E n : DropNode(n)
        BY <1>1, <2>1, <2>3, <3>1, DropSound
    <3>2. CASE UNCHANGED <<nodes, secondary>>
        BY <2>1, <3>2 DEF IndexedValuesHold, Valued, Contents
    <3>3. CASE \E n, T, p, F : Stores(n, T, p, F)
        BY <1>1, <2>1, <3>3, StoreSound
    <3>. QED
        BY <1>2, <2>3, <3>1, <3>2, <3>3, StatementStores DEF BaseInv
  <2>. QED
      BY <2>2, <2>3 DEF IndexSound, Holds
<1>3. CASE Commit
    BY <1>3 DEF Commit, tables, IndexSound, Holds, IndexedValuesHold, Valued, Contents
<1>4. CASE Abort
    BY <1>4 DEF Abort, IndexSound, Holds, IndexedValuesHold, Valued, Contents
<1>5. CASE UNCHANGED <<nodes, secondary, committed>> /\ (txn = "failed" => txn' = "failed")
    BY <1>5 DEF IndexSound, Holds, IndexedValuesHold, Valued, Contents
<1>. QED
    BY <1>1, <1>2, <1>3, <1>4, <1>5, OtherSteps

LEMMA NextComplete ==
    ASSUME ~FreshFields, NoIndexedDefaults, BaseInv, EntriesInv, [Next]_vars
    PROVE  EntriesInv'
<1>1. TypeOK
    BY DEF BaseInv, StoreInv
<1>2. CASE NodeStatement
  <2>1. /\ txn = "open"
        /\ UNCHANGED committed
        /\ EntriesComplete(Contents)
      BY <1>2, StatementsCommitNothing DEF EntriesInv
  <2>2. EntriesComplete(committed)'
      BY <2>1 DEF EntriesInv, EntriesComplete, ValuesIndexed, OneOwner, Valued
  <2>3. ASSUME txn' # "failed" PROVE EntriesComplete(Contents)'
    <3>1. CASE \E n : DropNode(n)
        BY <1>1, <2>1, <2>3, <3>1, DropComplete
    <3>2. CASE UNCHANGED <<nodes, secondary>>
        BY <2>1, <3>2 DEF EntriesComplete, ValuesIndexed, OneOwner, Valued, Contents
    <3>3. CASE \E n, T, p, F : Stores(n, T, p, F) /\ Minds(n, T, p, F)
        BY <1>1, <2>1, <3>3, StoreComplete
    <3>. QED
        BY <1>2, <2>1, <2>3, <3>1, <3>2, <3>3, StatementStores DEF BaseInv
  <2>. QED
      BY <2>2, <2>3 DEF EntriesInv
<1>3. CASE Commit
    BY <1>3 DEF Commit, tables, EntriesInv, EntriesComplete, ValuesIndexed, OneOwner,
                Valued, Contents
<1>4. CASE Abort
    BY <1>4 DEF Abort, EntriesInv, EntriesComplete, ValuesIndexed, OneOwner, Valued,
                Contents
<1>5. CASE UNCHANGED <<nodes, secondary, committed>> /\ (txn = "failed" => txn' = "failed")
    BY <1>5 DEF EntriesInv, EntriesComplete, ValuesIndexed, OneOwner, Valued, Contents
<1>. QED
    BY <1>1, <1>2, <1>3, <1>4, <1>5, OtherSteps

LEMMA CompleteUnique ==
    ASSUME NEW c, ContentsOK(c), EntriesComplete(c)
    PROVE  ValuesUnique(c)
<1>. SUFFICES ASSUME NEW ix \in UniqueIndices, NEW v \in Values,
                     NEW n \in DOMAIN c.nodes, NEW m \in DOMAIN c.nodes,
                     Valued(c.nodes, ix, v, n), Valued(c.nodes, ix, v, m)
              PROVE  n = m
    BY DEF ValuesUnique
<1>1. <<v, n>> \in c.secondary[ix] /\ <<v, m>> \in c.secondary[ix]
    BY IndexPairs DEF EntriesComplete, ValuesIndexed
<1>. QED
    BY <1>1 DEF EntriesComplete, OneOwner

-----------------------------------------------------------------------------
(* Each writing statement moves an index entry by a delete and a put built   *)
(* in a different place: whatever runs, a lookup never meets a node that is  *)
(* gone or has another value, also where an UPDATE sets fields its node      *)
(* lacks, on a unique index and on one with duplicates.                      *)
THEOREM IndexSoundHolds ==
    ASSUME MaxHeld = 0
    PROVE  Spec => []IndexSound
<1>1. Init => IndexSound
    BY DEF Init, Contents, IndexSound, Holds, IndexedValuesHold
<1>2. BaseInv /\ IndexSound /\ [Next]_vars => (BaseInv /\ IndexSound)'
    BY BaseHolds, NextSound
<1>. QED
    BY <1>1, <1>2, BaseHolds, PTL DEF Spec

(* A lookup misses no node, provided that no UPDATE sets a field its node    *)
(* lacks and no indexed field has a default: without either, entries are     *)
(* missing.  The strengthening is OneOwner: a delete on a unique index takes *)
(* the entry of the value whoever owns it.                                   *)
THEOREM EntriesHold ==
    ASSUME MaxHeld = 0, ~FreshFields, NoIndexedDefaults
    PROVE  Spec => [](IndexComplete /\ UniqueValues)
<1>1. Init => EntriesInv
    BY DEF Init, Contents, EmptyTable, EntriesInv, EntriesComplete, ValuesIndexed,
           OneOwner, Indices
<1>2. BaseInv /\ EntriesInv /\ [Next]_vars => (BaseInv /\ EntriesInv)'
    BY BaseHolds, NextComplete
<1>3. BaseInv /\ EntriesInv => IndexComplete /\ UniqueValues
    BY CompleteUnique
       DEF BaseInv, StoreInv, TypeOK, EntriesInv, EntriesComplete, IndexComplete,
           UniqueValues, Holds
<1>. QED
    BY <1>1, <1>2, <1>3, BaseHolds, PTL DEF Spec

(* A lookup by an indexed field returns every node that has the value.       *)
THEOREM IndexCompleteHolds ==
    ASSUME MaxHeld = 0, ~FreshFields, NoIndexedDefaults
    PROVE  Spec => []IndexComplete
BY EntriesHold, PTL

(* No two nodes share a value of a unique field, though the three statements *)
(* that may take one check it in three ways: a complete index with one owner *)
(* per value leaves no second node.                                          *)
THEOREM UniqueHolds ==
    ASSUME MaxHeld = 0, ~FreshFields, NoIndexedDefaults
    PROVE  Spec => []UniqueValues
BY EntriesHold, PTL
=============================================================================
