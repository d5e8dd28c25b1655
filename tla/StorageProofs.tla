---------------------------- MODULE StorageProofs ----------------------------
(***************************************************************************)
(* Theorems about StorageStartup, for every store, byte order and batch    *)
(* size, and any number of kills and failed starts; and about VectorIndex, *)
(* for every number of vectors, every distance and every m.                *)
(***************************************************************************)
EXTENDS StorageStartup, VectorIndex, FiniteSetTheorems, WellFoundedInduction, TLAPS

-----------------------------------------------------------------------------
(* Numbers.  The library states induction for operators, which the provers  *)
(* cannot instantiate; that < is well founded gives the same facts.         *)

(* A nonempty set of natural numbers has a least element.                   *)
LEMMA LeastNumber ==
    ASSUME NEW S \in SUBSET Nat, S # {}
    PROVE  \E n \in S : \A m \in S : n <= m
<1> DEFINE R == {p \in Nat \X Nat : p[1] < p[2]}
<1>1. IsWellFoundedOn(R, Nat)
    BY NatLessThanWellFounded DEF OpToRel
<1> HIDE DEF R
<1>2. PICK n \in S : \A m \in S : <<m, n>> \notin R
    BY <1>1, WFMin
<1>3. \A m \in S : ~ (m < n)
    BY <1>2 DEF R
<1> QED
    BY <1>3

-----------------------------------------------------------------------------
(* Chunks of a table.                                                       *)

LEMMA ChunksOf ==
    ASSUME NEW S, NEW chunk \in Chunks(S)
    PROVE  chunk \subseteq S
BY DEF Chunks, kSubset

(* The level that RepairLevels copies is one of the chunk.                 *)
LEMMA HighestLevel ==
    ASSUME NEW chunk \in SUBSET Keys, NEW k \in chunk
    PROVE  LET High(c) == c[1] = k[1] /\ \A d \in chunk : d[1] = k[1] => d[2] <= c[2]
           IN  (CHOOSE c \in chunk : High(c)) \in chunk
<1> DEFINE High(c) == c[1] = k[1] /\ \A d \in chunk : d[1] = k[1] => d[2] <= c[2]
           S == {l \in 0..MaxLevel : <<k[1], l>> \in chunk}
<1>1. S \in SUBSET Nat /\ S # {}
    BY VectorAssumption DEF Keys
<1> DEFINE D == {MaxLevel - l : l \in S}
<1>2. D \in SUBSET Nat /\ D # {}
    <2>1. \A l \in S : MaxLevel - l \in Nat
        BY VectorAssumption
    <2> HIDE DEF S
    <2> QED
        BY <1>1, <2>1
<1>3. PICK n \in D : \A m \in D : n <= m
    <2> HIDE DEF D
    <2> QED
        BY <1>2, LeastNumber
<1>4. PICK l \in S : \A m \in S : m <= l
    <2>1. PICK l \in S : n = MaxLevel - l
        BY <1>3
    <2>2. \A m \in S : MaxLevel - l <= MaxLevel - m
        BY <1>3, <2>1
    <2> QED
        BY <2>1, <2>2, VectorAssumption
<1>5. \A d \in chunk : d[1] = k[1] => d[2] \in S
    BY DEF Keys
<1>6. High(<<k[1], l>>) /\ <<k[1], l>> \in chunk
    BY <1>4, <1>5
<1> QED
    BY <1>6

-----------------------------------------------------------------------------
(* Types.                                                                  *)

(* What the scans collect. TypeOK needs it: an indexed chunk holds nodes.    *)
TodoOK ==
    /\ pc = "vectors" => todo \subseteq KeysIn(vec)
    /\ pc = "props"   => todo \subseteq KeysIn(props)
    /\ pc = "repair"  => todo \subseteq Keys \intersect KeysIn(vec)
    /\ pc = "orphans" => todo \subseteq edges
    /\ pc = "index"   => todo \subseteq nodes

LEMMA InitType == Init => TypeOK /\ TodoOK
<1> SUFFICES ASSUME Init PROVE TypeOK /\ TodoOK
    OBVIOUS
<1>1. meta \in Metadata /\ Source \in {"big", "little"}
    BY InitialAssumption DEF Init, Metadata, Source
<1>2. vec \in [Keys \union {EntryPoint} -> {"absent", "big", "little", "ids", "garbage"}]
    BY <1>1 DEF Init
<1>3. props \in [Vectors -> {"absent", "old", "new"}]
    BY DEF Init
<1>4. docs \subseteq nodes /\ nodes \subseteq Nodes /\ edges \subseteq Vectors \X (0..MaxLevel) \X Vectors
    BY InitialAssumption DEF Init, Wanted
<1>5. version \in 0..BM25_SCHEMA_VERSION /\ crashes \in 0..MaxCrashes
    BY StartupAssumption DEF Init, BM25_SCHEMA_VERSION
<1> QED
    BY <1>1, <1>2, <1>3, <1>4, <1>5 DEF Init, TypeOK, TodoOK

(* RepairLevels gives an absent level 0 the value of a key of the chunk and *)
(* takes no value away.                                                     *)
LEMMA LevelsCopied ==
    ASSUME TypeOK, TodoOK, NEW chunk \in Chunks(todo), RepairLevels(chunk)
    PROVE  /\ vec' \in [Keys \union {EntryPoint} -> {"absent", "big", "little", "ids", "garbage"}]
           /\ \A k \in DOMAIN vec : vec'[k] = vec[k] \/ \E c \in chunk : vec'[k] = vec[c]
           /\ KeysIn(vec) \subseteq KeysIn(vec')
<1> USE DEF TypeOK
<1>1. chunk \subseteq Keys \intersect KeysIn(vec)
    BY ChunksOf DEF RepairLevels, TodoOK
<1> DEFINE High(k, c) == c[1] = k[1] /\ \A d \in chunk : d[1] = k[1] => d[2] <= c[2]
<1>2. \A c \in chunk : vec[c] \in {"big", "little", "ids", "garbage"}
    BY <1>1 DEF KeysIn
<1>3. \A k \in DOMAIN vec : (\E c \in chunk : c[1] = k[1]) => (CHOOSE c \in chunk : High(k, c)) \in chunk
    <2> SUFFICES ASSUME NEW k \in DOMAIN vec, NEW c \in chunk, c[1] = k[1]
                 PROVE  (CHOOSE d \in chunk : High(k, d)) \in chunk
        OBVIOUS
    <2>1. (CHOOSE d \in chunk : High(c, d)) \in chunk
        BY <1>1, HighestLevel
    <2> QED
        BY <2>1
<1>4. \A k \in DOMAIN vec : vec'[k] = vec[k] \/ \E c \in chunk : vec'[k] = vec[c]
    BY <1>3 DEF RepairLevels
<1>5. vec' \in [Keys \union {EntryPoint} -> {"absent", "big", "little", "ids", "garbage"}]
    BY <1>2, <1>3 DEF RepairLevels
<1>6. KeysIn(vec) \subseteq KeysIn(vec')
    BY <1>2, <1>4, <1>5 DEF KeysIn
<1> QED
    BY <1>4, <1>5, <1>6

LEMMA NextType == TypeOK /\ TodoOK /\ [Next]_vars => (TypeOK /\ TodoOK)'
<1> SUFFICES ASSUME TypeOK, TodoOK, [Next]_vars PROVE (TypeOK /\ TodoOK)'
    OBVIOUS
<1> USE DEF TypeOK, TodoOK, vectorTables, textTables, Phase
<1>1. CASE Start
    BY ZenonT(60), <1>1 DEF Start, KeysIn, Missing, Keys
<1>2. ASSUME NEW chunk \in Chunks(todo), ConvertVectors(chunk) PROVE (TypeOK /\ TodoOK)'
    BY <1>2, ChunksOf DEF ConvertVectors, Converted, Swapped, Other, KeysIn
<1>3. CASE AfterVectors
    BY <1>3 DEF AfterVectors, KeysIn
<1>4. ASSUME NEW chunk \in Chunks(todo), ConvertProps(chunk) PROVE (TypeOK /\ TodoOK)'
    BY <1>4, ChunksOf DEF ConvertProps, KeysIn
<1>5. CASE SaveMetadata
    BY <1>5, StartupAssumption DEF SaveMetadata, Metadata, Missing, Keys, KeysIn
<1>6. ASSUME NEW chunk \in Chunks(todo), RepairLevels(chunk) PROVE (TypeOK /\ TodoOK)'
    <2>1. /\ vec' \in [Keys \union {EntryPoint} -> {"absent", "big", "little", "ids", "garbage"}]
          /\ KeysIn(vec) \subseteq KeysIn(vec')
        BY <1>6, LevelsCopied
    <2>2. /\ UNCHANGED <<meta, props, edges, nodes, docs, version, missed, skip, pc, crashes>>
          /\ todo' = todo \ chunk /\ pc = "repair"
        BY <1>6 DEF RepairLevels
    <2> QED
        BY <2>1, <2>2
<1>7. CASE AfterRepair
    BY <1>7 DEF AfterRepair, Orphans
<1>8. ASSUME NEW chunk \in Chunks(todo), RemoveOrphans(chunk) PROVE (TypeOK /\ TodoOK)'
    BY <1>8, ChunksOf DEF RemoveOrphans
<1>9. CASE ClearIndex
    <2>1. docs' \subseteq nodes /\ version' \in {0, version} /\ missed' \in BOOLEAN
        BY <1>9 DEF ClearIndex
    <2>2. (pc' = "schema" /\ todo' = {}) \/ (pc' = "index" /\ todo' = nodes)
        BY <1>9 DEF ClearIndex
    <2>3. UNCHANGED <<meta, vec, props, edges, nodes, skip, crashes>>
        BY <1>9 DEF ClearIndex
    <2> QED
        BY <2>1, <2>2, <2>3 DEF BM25_SCHEMA_VERSION
<1>10. ASSUME NEW chunk \in Chunks(todo), IndexChunk(chunk) PROVE (TypeOK /\ TodoOK)'
    BY <1>10, ChunksOf DEF IndexChunk
<1>11. CASE StampIndex
    BY <1>11 DEF StampIndex, BM25_SCHEMA_VERSION
<1>12. CASE RunSchemaMigrations
    BY <1>12 DEF RunSchemaMigrations, Metadata
<1>13. CASE SetSkip
    BY <1>13 DEF SetSkip
<1>14. CASE Restart
    BY <1>14 DEF Restart
<1>15. CASE Crash
    BY <1>15, StartupAssumption DEF Crash
<1>16. ASSUME NEW n \in Nodes, AddNode(n) PROVE (TypeOK /\ TodoOK)'
    BY <1>16 DEF AddNode
<1>17. CASE UNCHANGED vars
    BY <1>17 DEF vars
<1> QED
    BY <1>1, <1>2, <1>3, <1>4, <1>5, <1>6, <1>7, <1>8, <1>9, <1>10, <1>11, <1>12, <1>13, <1>14,
       <1>15, <1>16, <1>17
    DEF Next, Startup

(* Every variable keeps a value of its kind.                               *)
THEOREM TypeCorrect == Spec => []TypeOK
BY InitType, NextType, PTL DEF Spec

-----------------------------------------------------------------------------
(* The HNSW tables.  While levels are repaired, the ids left hold every key *)
(* whose vector has no level 0; from then on there is none. What is left of *)
(* the orphans are exactly the edges with a lost end, and later none.       *)

RepairInv ==
    /\ pc = "repair" => Missing \subseteq todo
    /\ pc \in {"orphans", "index", "schema", "serving"} => Missing = {}
    /\ pc = "orphans" => todo = Orphans
    /\ pc \in {"index", "schema", "serving"} => Orphans = {}

LEMMA NextRepair == TypeOK /\ TodoOK /\ RepairInv /\ [Next]_vars => RepairInv'
<1> SUFFICES ASSUME TypeOK, TodoOK, RepairInv, [Next]_vars PROVE RepairInv'
    OBVIOUS
<1> USE DEF RepairInv, vectorTables, textTables, Phase
<1>1. ASSUME UNCHANGED vec PROVE Missing' = Missing /\ (UNCHANGED edges => Orphans' = Orphans)
    BY <1>1 DEF Missing, Orphans, KeysIn, Has
<1>2. CASE Start
    BY <1>1, <1>2 DEF Start
<1>3. ASSUME NEW chunk \in Chunks(todo), ConvertVectors(chunk) \/ ConvertProps(chunk) PROVE RepairInv'
    BY <1>3 DEF ConvertVectors, ConvertProps
<1>4. CASE AfterVectors
    BY <1>4 DEF AfterVectors
<1>5. CASE SaveMetadata
    BY <1>1, <1>5 DEF SaveMetadata
<1>6. ASSUME NEW chunk \in Chunks(todo), RepairLevels(chunk) PROVE RepairInv'
    <2>1. chunk \subseteq KeysIn(vec) /\ chunk \subseteq Keys
        BY <1>6, ChunksOf DEF RepairLevels, TodoOK
    <2>2. pc = "repair" /\ pc' = "repair" /\ todo' = todo \ chunk
        BY <1>6 DEF RepairLevels
    <2>3. \A v : Has(v, 0) => Has(v, 0)'
        BY <1>6, LevelsCopied DEF Has
    <2>4. \A k \in DOMAIN vec : k[2] > 0 => vec'[k] = vec[k]
        BY <1>6 DEF RepairLevels, TypeOK
    <2>5. \A c \in chunk : Has(c[1], 0)'
        <3> SUFFICES ASSUME NEW c \in chunk PROVE <<c[1], 0>> \in KeysIn(vec')
            BY DEF Has
        <3> DEFINE k == <<c[1], 0>>
        <3>1. k \in Keys /\ k # EntryPoint
            BY <2>1, VectorAssumption DEF Keys, EntryPoint
        <3>2. (CHOOSE d \in chunk : d[1] = c[1] /\ \A e \in chunk : e[1] = c[1] => e[2] <= d[2]) \in chunk
            BY <2>1, HighestLevel
        <3>3. vec'[k] \in {vec[d] : d \in chunk} /\ k \in DOMAIN vec'
            BY ZenonT(60), <1>6, <3>1, <3>2 DEF RepairLevels, TypeOK
        <3> QED
            BY <2>1, <3>3 DEF KeysIn
    <2>6. ASSUME NEW k \in Missing' PROVE k \in todo \ chunk
        <3>1. k \in KeysIn(vec') /\ k[2] > 0 /\ ~ Has(k[1], 0)'
            BY <2>6 DEF Missing
        <3>2. k \in KeysIn(vec)
            BY <2>4, <3>1, <1>6 DEF KeysIn, RepairLevels
        <3> QED
            BY <2>2, <2>3, <2>5, <3>1, <3>2 DEF Missing
    <2> QED
        BY <2>2, <2>6
<1>7. CASE AfterRepair
    BY <1>1, <1>7 DEF AfterRepair
<1>8. ASSUME NEW chunk \in Chunks(todo), RemoveOrphans(chunk) PROVE RepairInv'
    <2>1. UNCHANGED vec /\ edges' = edges \ chunk /\ todo' = todo \ chunk /\ pc = "orphans" /\ pc' = "orphans"
        BY <1>8 DEF RemoveOrphans
    <2> QED
        BY <2>1 DEF Missing, Orphans, KeysIn, Has
<1>9. CASE ClearIndex
    BY <1>1, <1>9 DEF ClearIndex
<1>10. ASSUME NEW chunk \in Chunks(todo), IndexChunk(chunk) PROVE RepairInv'
    BY <1>1, <1>10 DEF IndexChunk
<1>11. CASE StampIndex \/ RunSchemaMigrations \/ SetSkip
    BY <1>1, <1>11 DEF StampIndex, RunSchemaMigrations, SetSkip
<1>12. CASE Restart \/ Crash
    BY <1>12 DEF Restart, Crash
<1>13. ASSUME NEW n \in Nodes, AddNode(n) PROVE RepairInv'
    BY <1>1, <1>13 DEF AddNode
<1>14. CASE UNCHANGED vars
    BY <1>1, <1>14 DEF vars
<1> QED
    BY <1>2, <1>3, <1>4, <1>5, <1>6, <1>7, <1>8, <1>9, <1>10, <1>11, <1>12, <1>13, <1>14
    DEF Next, Startup

(* A server that serves finds every vector at level 0 and follows no edge   *)
(* from or to a vector that is not there, however its starts were cut.      *)
THEOREM RepairedHolds == Spec => []Repaired
<1>1. Init => TypeOK /\ TodoOK /\ RepairInv
    BY InitType DEF Init, RepairInv
<1>2. TypeOK /\ TodoOK /\ RepairInv /\ [Next]_vars => (TypeOK /\ TodoOK /\ RepairInv)'
    BY NextType, NextRepair
<1>3. TypeOK /\ RepairInv => Repaired
    <2> SUFFICES ASSUME TypeOK, RepairInv, pc = "serving",
                        NEW k \in KeysIn(vec), k # EntryPoint
                 PROVE  Has(k[1], 0) /\ \A e \in edges : Has(e[1], 0) /\ Has(e[3], 0)
        BY DEF Repaired, RepairInv, Orphans
    <2>1. k \in Keys
        BY DEF TypeOK, KeysIn
    <2> QED
        BY <2>1, VectorAssumption DEF RepairInv, Missing, Orphans, Keys, Has
<1> QED
    BY <1>1, <1>2, <1>3, PTL DEF Spec

(* An edge that a start removes has an end without a vector at any level.   *)
THEOREM RemovalHolds == Spec => OnlyOrphansRemoved
<1>1. Init => TypeOK /\ TodoOK /\ RepairInv
    BY InitType DEF Init, RepairInv
<1>2. TypeOK /\ TodoOK /\ RepairInv /\ [Next]_vars => (TypeOK /\ TodoOK /\ RepairInv)'
    BY NextType, NextRepair
<1>3. TypeOK /\ RepairInv /\ [Next]_vars =>
          \A e \in edges \ edges' : \E v \in {e[1], e[3]} : \A l \in 0..MaxLevel : ~ Has(v, l)
    <2> SUFFICES ASSUME TypeOK, RepairInv, [Next]_vars, NEW e \in edges, e \notin edges'
                 PROVE  \E v \in {e[1], e[3]} : \A l \in 0..MaxLevel : ~ Has(v, l)
        OBVIOUS
    <2>1. PICK chunk \in Chunks(todo) : RemoveOrphans(chunk)
        BY DEF Next, Startup, Start, ConvertVectors, AfterVectors, ConvertProps, SaveMetadata,
               RepairLevels, AfterRepair, ClearIndex, IndexChunk, StampIndex, RunSchemaMigrations,
               AddNode, SetSkip, Restart, Crash, vars, vectorTables, textTables
    <2>2. e \in Orphans /\ Missing = {}
        BY <2>1, ChunksOf DEF RemoveOrphans, RepairInv
    <2>3. PICK v \in {e[1], e[3]} : ~ Has(v, 0)
        BY <2>2 DEF Orphans
    <2>4. \A l \in 0..MaxLevel : ~ Has(v, l)
        BY <2>2, <2>3, VectorAssumption DEF Missing, Has
    <2> QED
        BY <2>4
<1> QED
    BY <1>1, <1>2, <1>3, PTL DEF Spec, OnlyOrphansRemoved

-----------------------------------------------------------------------------
(* The full-text index.  While it is rebuilt its version is cleared, and    *)
(* what it holds together with the nodes still to be indexed is everything. *)

IndexInv ==
    /\ IndexComplete
    /\ pc = "index" => version = 0 /\ ~ missed /\ Wanted = docs \union (todo \ Excluded)

LEMMA NextIndex == TypeOK /\ TodoOK /\ IndexInv /\ [Next]_vars => IndexInv'
<1> SUFFICES ASSUME TypeOK, TodoOK, IndexInv, [Next]_vars PROVE IndexInv'
    OBVIOUS
<1> USE DEF IndexInv, IndexComplete, Wanted, Phase, BM25_SCHEMA_VERSION
<1>1. CASE UNCHANGED textTables /\ pc' # "index"
    BY <1>1 DEF textTables
<1>2. CASE ClearIndex
    BY <1>2 DEF ClearIndex
<1>3. ASSUME NEW chunk \in Chunks(todo), IndexChunk(chunk) PROVE IndexInv'
    BY <1>3, ChunksOf DEF IndexChunk
<1>4. CASE StampIndex
    BY <1>4 DEF StampIndex
<1>5. ASSUME NEW n \in Nodes, AddNode(n) PROVE IndexInv'
    BY <1>5 DEF AddNode
<1>6. CASE UNCHANGED vars
    BY <1>6 DEF vars, textTables
<1> QED
    BY <1>1, <1>2, <1>3, <1>4, <1>5, <1>6
    DEF Next, Startup, Start, ConvertVectors, AfterVectors, ConvertProps, SaveMetadata, RepairLevels,
        AfterRepair, RemoveOrphans, RunSchemaMigrations, SetSkip, Restart, Crash

(* An index that carries the current version is complete but for documents  *)
(* left out on purpose, wherever its rebuilds were cut or failed.           *)
THEOREM IndexHolds == Spec => []IndexComplete
<1>1. Init => TypeOK /\ TodoOK /\ IndexInv
    BY InitType DEF Init, IndexInv, IndexComplete
<1>2. TypeOK /\ TodoOK /\ IndexInv /\ [Next]_vars => (TypeOK /\ TodoOK /\ IndexInv)'
    BY NextType, NextIndex
<1>3. IndexInv => IndexComplete
    BY DEF IndexInv
<1> QED
    BY <1>1, <1>2, <1>3, PTL DEF Spec

-----------------------------------------------------------------------------
(* Byte order.  During a conversion what is still to do is in the byte      *)
(* order the metadata declares and the rest in the native one; outside of   *)
(* it everything is in the declared order.  This needs that no conversion   *)
(* is killed: the ids still to do are not in the store.                     *)

Order(k) ==
    IF pc \in {"props", "save"} \/ (pc = "vectors" /\ k \notin todo) THEN Native ELSE Source

Format(v) ==
    IF meta.tag = "none" /\ (pc = "props" => v \in todo) THEN "old" ELSE "new"

ConversionInv ==
    /\ vec[EntryPoint] = "ids"
    /\ \A k \in Keys : vec[k] \in {"absent", Order(k)}
    /\ \A v \in Vectors : props[v] \in {"absent", Format(v)}
    /\ pc = "props" => meta.tag = "none"
    /\ pc = "save" => meta.tag # "none"
    /\ pc \in {"repair", "orphans", "index", "schema", "serving"} => NativeMeta

LEMMA EntryPointIsNoKey == EntryPoint \notin Keys
BY VectorAssumption DEF Keys, EntryPoint

LEMMA InitConversion == Init => ConversionInv
<1> SUFFICES ASSUME Init PROVE ConversionInv
    OBVIOUS
<1>1. \A k \in Keys : Order(k) = Source
    BY DEF Init, Order
<1>2. \A v \in Vectors : Format(v) = IF meta.tag = "none" THEN "old" ELSE "new"
    BY DEF Init, Format
<1> QED
    BY <1>1, <1>2, EntryPointIsNoKey DEF Init, ConversionInv

(* Steps that leave the vector tables alone and end outside a conversion.   *)
LEMMA ConversionFrame ==
    ASSUME ConversionInv, UNCHANGED <<vec, props>>,
           pc \notin {"vectors", "props", "save"}, pc' \notin {"vectors", "props", "save"},
           meta'.endian = meta.endian, meta'.tag = "none" <=> meta.tag = "none",
           pc' \in {"repair", "orphans", "index", "schema", "serving"} => NativeMeta
    PROVE  ConversionInv'
BY DEF ConversionInv, Order, Format, Source, NativeMeta

LEMMA NextConversion ==
    ASSUME ~ KillsConversion
    PROVE  TypeOK /\ TodoOK /\ ConversionInv /\ [Next]_vars => ConversionInv'
<1> SUFFICES ASSUME TypeOK, TodoOK, ConversionInv, [Next]_vars PROVE ConversionInv'
    OBVIOUS
<1> USE DEF Phase, vectorTables, textTables
<1>1. CASE Start
    <2>1. CASE NativeMeta
        BY <1>1, <2>1, ConversionFrame DEF Start
    <2>2. CASE ~ NativeMeta
        <3>1. \A k \in Keys : vec[k] # "absent" => k \in todo'
            BY <1>1, <2>2 DEF Start, KeysIn, TypeOK
        <3> QED
            BY <1>1, <2>2, <3>1 DEF Start, ConversionInv, Order, Format, Source
    <2> QED
        BY <2>1, <2>2
<1>2. ASSUME NEW chunk \in Chunks(todo), ConvertVectors(chunk) PROVE ConversionInv'
    <2>1. pc = "vectors" /\ pc' = "vectors" /\ todo' = todo \ chunk /\ UNCHANGED <<meta, props>>
        BY <1>2 DEF ConvertVectors
    <2>2. chunk \subseteq todo
        BY ChunksOf
    <2>3. vec'[EntryPoint] = "ids"
        BY <1>2 DEF ConvertVectors, ConversionInv, TypeOK
    <2>4. ASSUME NEW k \in Keys PROVE vec'[k] \in {"absent", Order(k)'}
        <3>1. CASE k \in chunk
            <4>1. vec'[k] = Converted(vec[k], Source)
                BY <1>2, <2>4, <3>1, EntryPointIsNoKey DEF ConvertVectors, TypeOK
            <4>2. vec[k] \in {"absent", Source}
                BY <2>1, <2>2, <2>4, <3>1 DEF ConversionInv, Order
            <4>3. Source \in {"big", "little"} /\ Native \in {"big", "little"}
                BY StartupAssumption DEF Source, TypeOK, Metadata
            <4>4. Converted(vec[k], Source) \in {"absent", Native}
                BY <4>2, <4>3 DEF Converted, Swapped, Other
            <4> QED
                BY <2>1, <3>1, <4>1, <4>4 DEF Order
        <3>2. CASE k \notin chunk
            BY <1>2, <2>1, <2>4, <3>2 DEF ConvertVectors, ConversionInv, Order, Source, TypeOK
        <3> QED
            BY <3>1, <3>2
    <2> QED
        BY <2>1, <2>3, <2>4 DEF ConversionInv, Format
<1>3. CASE AfterVectors
    <2>1. \A k \in Keys : Order(k) = Native /\ Order(k)' = Native
        BY <1>3 DEF AfterVectors, Order
    <2>2. \A v \in Vectors : props[v] # "absent" => Format(v)' = Format(v)
        BY <1>3 DEF AfterVectors, Format, KeysIn, TypeOK
    <2> QED
        BY <1>3, <2>1, <2>2 DEF AfterVectors, ConversionInv
<1>4. ASSUME NEW chunk \in Chunks(todo), ConvertProps(chunk) PROVE ConversionInv'
    <2>1. pc = "props" /\ meta.tag = "none" /\ UNCHANGED <<meta, vec>> /\ chunk \subseteq todo
        BY <1>4, ChunksOf DEF ConvertProps, ConversionInv
    <2>2. todo \subseteq Vectors /\ \A v \in todo : props[v] = "old"
        BY <2>1 DEF TodoOK, TypeOK, KeysIn, ConversionInv, Format
    <2>3. pc' = pc /\ todo' = todo \ chunk
        BY <1>4, <2>1, <2>2 DEF ConvertProps
    <2>4. props' = [v \in Vectors |-> IF v \in chunk THEN "new" ELSE props[v]]
        BY <1>4, <2>1, <2>2 DEF ConvertProps
    <2>5. \A k \in Keys : Order(k) = Native /\ Order(k)' = Native
        BY <2>1, <2>3 DEF Order
    <2>6. ASSUME NEW v \in Vectors PROVE props'[v] \in {"absent", Format(v)'}
        BY <2>1, <2>3, <2>4, <2>6 DEF Format, ConversionInv
    <2> QED
        BY <2>1, <2>3, <2>5, <2>6 DEF ConversionInv
<1>5. CASE SaveMetadata
    <2>1. \A k \in Keys : Order(k) = Native /\ Order(k)' = Native
        BY <1>5 DEF SaveMetadata, Order, Source
    <2>2. \A v \in Vectors : Format(v) = "new" /\ Format(v)' = "new"
        BY <1>5 DEF SaveMetadata, Format, ConversionInv
    <2>3. NativeMeta'
        BY <1>5 DEF SaveMetadata, NativeMeta
    <2> QED
        BY <1>5, <2>1, <2>2, <2>3 DEF SaveMetadata, ConversionInv
<1>6. ASSUME NEW chunk \in Chunks(todo), RepairLevels(chunk) PROVE ConversionInv'
    <2>1. pc = "repair" /\ pc' = "repair" /\ UNCHANGED <<meta, props>> /\ chunk \subseteq Keys
        BY <1>6, ChunksOf DEF RepairLevels, TodoOK
    <2>2. vec'[EntryPoint] = "ids"
        BY <1>6 DEF RepairLevels, ConversionInv, TypeOK
    <2>3. \A k \in Keys : vec'[k] = vec[k] \/ \E c \in chunk : vec'[k] = vec[c]
        BY <1>6, LevelsCopied DEF TypeOK
    <2>4. \A k \in Keys : vec'[k] \in {"absent", Source}
        BY <2>1, <2>3 DEF ConversionInv, Order
    <2> QED
        BY <2>1, <2>2, <2>4 DEF ConversionInv, Order, Source, Format, NativeMeta
<1>7. CASE AfterRepair
    BY <1>7, ConversionFrame DEF AfterRepair, ConversionInv
<1>8. ASSUME NEW chunk \in Chunks(todo), RemoveOrphans(chunk) PROVE ConversionInv'
    BY <1>8, ConversionFrame DEF RemoveOrphans, ConversionInv
<1>9. CASE ClearIndex
    BY <1>9, ConversionFrame DEF ClearIndex, ConversionInv
<1>10. ASSUME NEW chunk \in Chunks(todo), IndexChunk(chunk) PROVE ConversionInv'
    BY <1>10, ConversionFrame DEF IndexChunk, ConversionInv
<1>11. CASE StampIndex \/ SetSkip \/ Restart
    BY <1>11, ConversionFrame DEF StampIndex, SetSkip, Restart, ConversionInv
<1>12. CASE RunSchemaMigrations
    <2>1. meta'.endian = meta.endian /\ (meta'.tag = "none" <=> meta.tag = "none") /\ NativeMeta
        BY <1>12 DEF RunSchemaMigrations, ConversionInv, NativeMeta, TypeOK, Metadata
    <2> QED
        BY <1>12, <2>1, ConversionFrame DEF RunSchemaMigrations
<1>13. CASE Crash
    BY <1>13, ConversionFrame DEF Crash
<1>14. ASSUME NEW n \in Nodes, AddNode(n) PROVE ConversionInv'
    BY <1>14, ConversionFrame DEF AddNode, ConversionInv
<1>15. CASE UNCHANGED vars
    BY <1>15 DEF vars, ConversionInv, Order, Source, Format, NativeMeta
<1> QED
    BY <1>1, <1>2, <1>3, <1>4, <1>5, <1>6, <1>7, <1>8, <1>9, <1>10, <1>11, <1>12, <1>13, <1>14, <1>15
    DEF Next, Startup

(* If no kill cuts a conversion, a server that serves reads every vector in *)
(* the order it is stored in, whatever metadata and byte order the store    *)
(* had, and its entry points were never taken for vectors.                  *)
THEOREM ConversionHolds ==
    ASSUME ~ KillsConversion
    PROVE  Spec => []VectorsReadable
<1>1. Init => TypeOK /\ TodoOK /\ ConversionInv
    BY InitType, InitConversion
<1>2. TypeOK /\ TodoOK /\ ConversionInv /\ [Next]_vars => (TypeOK /\ TodoOK /\ ConversionInv)'
    BY NextType, NextConversion
<1>3. ConversionInv => VectorsReadable
    BY DEF ConversionInv, VectorsReadable, Order, Source, Format, NativeMeta
<1> QED
    BY <1>1, <1>2, <1>3, PTL DEF Spec

-----------------------------------------------------------------------------
(* The tables and the links.                                                *)

VectorRecords == [label : Labels, point : Points, deleted : BOOLEAN]

VectorTable(vs) ==
    /\ DOMAIN vs \subseteq Nat /\ IsFiniteSet(DOMAIN vs)
    /\ vs \in [DOMAIN vs -> VectorRecords]

(* No vector is linked to itself, and no two present ones of two labels.     *)
LinksOK(vs, es) ==
    /\ es \subseteq Nat \X Nat
    /\ \A d \in es :
          /\ d[1] # d[2]
          /\ d[1] \in DOMAIN vs /\ d[2] \in DOMAIN vs =>
                vs[d[1]].label = vs[d[2]].label

(* No link leads from or to a vector that is not there.                      *)
Clean(vs, es) == \A d \in es : d[1] \in DOMAIN vs /\ d[2] \in DOMAIN vs

(* The links of a label have their reverses.                                 *)
Mutual(vs, es, l) ==
    \A d \in es : d[1] \in HeldBy(vs, l) =>
        d[2] \in DOMAIN vs /\ <<d[2], d[1]>> \in es

Few(vs, l) == Cardinality(HeldBy(vs, l)) <= config.m + 1

(* No vectors of the label are cut off from the others.                      *)
Connected(vs, es, l) ==
    \A S \in SUBSET HeldBy(vs, l) :
        S # {} /\ (\A c \in S : Neighbors(es, c) \subseteq S) => S = HeldBy(vs, l)

(* Only links of the label l differ in the two.                              *)
Within(vs, es, l, es2) ==
    /\ es2 \ es \subseteq HeldBy(vs, l) \X HeldBy(vs, l)
    /\ \A d \in es \ es2 : d[1] \in HeldBy(vs, l)

-----------------------------------------------------------------------------
(* The inductive invariant.                                                  *)

VectorsTypeOK ==
    /\ config \in Configs
    /\ VectorTable(vectors)
    /\ next_id \in Nat
    /\ \A i \in DOMAIN vectors : i < next_id
    /\ \A d \in links : d[1] < next_id /\ d[2] < next_id
    /\ DOMAIN entry \subseteq Labels
    /\ pending \subseteq DOMAIN saved
    /\ VectorTable(saved)
    /\ \A i \in DOMAIN saved : i < next_id

RebuildOK ==
    /\ pending \cap DOMAIN vectors = {}
    /\ \A i \in pending : ~saved[i].deleted
    /\ pending # {} => Clean(vectors, links)

CrowdOK ==
    /\ Crowd(vectors) \subseteq crowded
    /\ \A l \in Labels \ crowded : Mutual(vectors, links, l)

ReachOK ==
    /\ \A l \in Labels \ (crowded \cup severed) : Connected(vectors, links, l)
    /\ pending # {} => \A l : HeldBy(vectors, l) # {} => l \in DOMAIN entry

VectorsInv ==
    /\ VectorsTypeOK /\ LinksOK(vectors, links) /\ RebuildOK
    /\ EntryAlive /\ CrowdOK /\ ReachOK

-----------------------------------------------------------------------------
(* The order by distance.                                                    *)

(* Vectors are ordered by distance and, at one distance, by id.              *)
LEMMA AheadOrder ==
    ASSUME NEW vs, VectorTable(vs), NEW p \in Points,
           NEW i \in DOMAIN vs, NEW j \in DOMAIN vs, NEW k \in DOMAIN vs
    PROVE  /\ ~Ahead(vs, p, i, i)
           /\ i = j \/ Ahead(vs, p, i, j) \/ Ahead(vs, p, j, i)
           /\ Ahead(vs, p, i, j) /\ Ahead(vs, p, j, k) => Ahead(vs, p, i, k)
<1>1. /\ DistanceTo(vs, p, i) \in Nat /\ DistanceTo(vs, p, j) \in Nat
      /\ DistanceTo(vs, p, k) \in Nat /\ i \in Nat /\ j \in Nat /\ k \in Nat
    BY ConfigAssumption DEF VectorTable, VectorRecords, DistanceTo
<1> QED
    BY <1>1 DEF Ahead, Closer

(* The vectors of a set have the ranks below its size, one each.             *)
LEMMA RankOnto ==
    ASSUME NEW vs, VectorTable(vs), NEW p \in Points,
           NEW S \in SUBSET DOMAIN vs
    PROVE  /\ IsFiniteSet(S)
           /\ \A n \in 0 .. Cardinality(S) - 1 :
                 \E i \in S : Rank(vs, p, S, i) = n
           /\ \A i \in S : /\ Rank(vs, p, S, i) \in Nat
                           /\ Rank(vs, p, S, i) < Cardinality(S)
<1> DEFINE Before(i) == {j \in S : Ahead(vs, p, j, i)}
           n == Cardinality(S)
           f == [i \in S |-> Cardinality(Before(i))]
<1>1. IsFiniteSet(S) /\ n \in Nat
    BY FS_Subset, FS_CardinalityType DEF VectorTable
<1>2. \A i \in S : IsFiniteSet(Before(i)) /\ Cardinality(Before(i)) \in Nat
    <2> SUFFICES ASSUME NEW i \in S
                 PROVE  IsFiniteSet(Before(i)) /\ Cardinality(Before(i)) \in Nat
        OBVIOUS
    <2>1. Before(i) \in SUBSET S
        OBVIOUS
    <2> HIDE DEF Before
    <2> QED
        BY <1>1, <2>1, FS_Subset, FS_CardinalityType
<1>3. \A i, j \in S : Ahead(vs, p, i, j) => Cardinality(Before(i)) < Cardinality(Before(j))
    <2> SUFFICES ASSUME NEW i \in S, NEW j \in S, Ahead(vs, p, i, j)
                 PROVE  Cardinality(Before(i)) < Cardinality(Before(j))
        OBVIOUS
    <2>1. Before(i) \in SUBSET Before(j)
        BY AheadOrder
    <2>2. i \in Before(j) /\ i \notin Before(i)
        BY AheadOrder
    <2> HIDE DEF Before
    <2>3. /\ Cardinality(Before(i)) <= Cardinality(Before(j))
          /\ Cardinality(Before(i)) # Cardinality(Before(j))
        BY <1>2, <2>1, <2>2, FS_Subset
    <2> QED
        BY <1>2, <2>3
<1>4. \A i \in S : Cardinality(Before(i)) < n
    <2> SUFFICES ASSUME NEW i \in S PROVE Cardinality(Before(i)) < n
        OBVIOUS
    <2>1. Before(i) \in SUBSET S /\ i \notin Before(i)
        BY AheadOrder
    <2> HIDE DEF Before
    <2>2. Cardinality(Before(i)) <= n /\ Cardinality(Before(i)) # n
        BY <1>1, <2>1, FS_Subset
    <2> QED
        BY <1>1, <1>2, <2>2
<1>5. f \in Injection(S, 0 .. n - 1)
    <2>1. f \in [S -> 0 .. n - 1]
        <3> HIDE DEF Before, n
        <3> QED
            BY <1>1, <1>2, <1>4
    <2>2. \A i, j \in S : i # j => f[i] # f[j]
        <3> SUFFICES ASSUME NEW i \in S, NEW j \in S, i # j PROVE f[i] # f[j]
            OBVIOUS
        <3>1. Ahead(vs, p, i, j) \/ Ahead(vs, p, j, i)
            BY AheadOrder
        <3> HIDE DEF Before
        <3> QED
            BY <1>2, <1>3, <3>1
    <2> HIDE DEF f, Before, n
    <2> QED
        BY <2>1, <2>2 DEF Injection, IsInjective
<1>6. IsFiniteSet(0 .. n - 1) /\ Cardinality(0 .. n - 1) = n
    <2> HIDE DEF n
    <2> QED
        BY <1>1, FS_Interval
<1>7. f \in Surjection(S, 0 .. n - 1)
    <2> HIDE DEF f
    <2> QED
        BY <1>5, <1>6, FS_Injection
<1>8. \A k \in 0 .. n - 1 : \E i \in S : f[i] = k
    <2> HIDE DEF f, n
    <2> QED
        BY <1>7 DEF Surjection
<1> QED
    BY <1>1, <1>2, <1>4, <1>8 DEF Rank

(* The n closest of a set: all of it if there are no more, and never none.   *)
LEMMA ClosestFacts ==
    ASSUME NEW vs, VectorTable(vs), NEW p \in Points,
           NEW S \in SUBSET DOMAIN vs, NEW n \in Nat
    PROVE  /\ Closest(vs, p, S, n) \subseteq S
           /\ S # {} /\ n # 0 => Closest(vs, p, S, n) # {}
           /\ Cardinality(S) <= n => Closest(vs, p, S, n) = S
<1>1. Closest(vs, p, S, n) \subseteq S
    BY DEF Closest
<1>2. IsFiniteSet(S) /\ Cardinality(S) \in Nat
    BY RankOnto, FS_CardinalityType
<1>3. ASSUME S # {}, n # 0 PROVE Closest(vs, p, S, n) # {}
    <2>1. Cardinality(S) # 0
        BY <1>2, <1>3, FS_EmptySet
    <2>2. 0 \in 0 .. Cardinality(S) - 1
        BY <1>2, <2>1
    <2>3. PICK i \in S : Rank(vs, p, S, i) = 0
        BY <2>2, RankOnto
    <2> QED
        BY <1>3, <2>3 DEF Closest
<1>4. ASSUME Cardinality(S) <= n PROVE S \subseteq Closest(vs, p, S, n)
    <2>1. \A i \in S : Rank(vs, p, S, i) < n
        BY <1>2, <1>4, RankOnto
    <2> QED
        BY <2>1 DEF Closest
<1> QED
    BY <1>1, <1>3, <1>4

(* A set in the order of its distances is a sequence of its vectors.         *)
LEMMA InOrderIn ==
    ASSUME NEW vs, VectorTable(vs), NEW p \in Points,
           NEW S \in SUBSET DOMAIN vs
    PROVE  InOrder(vs, p, S) \in Seq(S) /\ (S # {} => InOrder(vs, p, S) # << >>)
<1> DEFINE n == Cardinality(S)
<1>1. n \in Nat /\ IsFiniteSet(S)
    BY RankOnto, FS_CardinalityType
<1>2. \A k \in 1 .. n : (CHOOSE i \in S : Rank(vs, p, S, i) = k - 1) \in S
    <2> SUFFICES ASSUME NEW k \in 1 .. n
                 PROVE  \E i \in S : Rank(vs, p, S, i) = k - 1
        OBVIOUS
    <2>1. k - 1 \in 0 .. n - 1
        BY <1>1
    <2> QED
        BY <2>1, RankOnto
<1>3. InOrder(vs, p, S) \in [1 .. n -> S]
    BY <1>2 DEF InOrder
<1>4. S # {} => n # 0
    BY <1>1, FS_EmptySet
<1> HIDE DEF n
<1>5. InOrder(vs, p, S) \in Seq(S) /\ Len(InOrder(vs, p, S)) = n
    BY <1>1, <1>3
<1> QED
    BY <1>1, <1>4, <1>5

(* A nonempty set of vectors has one that no other is closer than.           *)
LEMMA Nearest ==
    ASSUME NEW vs, VectorTable(vs), NEW p \in Points,
           NEW S \in SUBSET DOMAIN vs, S # {}
    PROVE  (CHOOSE i \in S : \A j \in S : ~Closer(vs, p, j, i)) \in S
<1> DEFINE D == {DistanceTo(vs, p, i) : i \in S}
<1>1. \A i \in S : DistanceTo(vs, p, i) \in Nat
    BY ConfigAssumption DEF VectorTable, VectorRecords, DistanceTo
<1>2. D \in SUBSET Nat /\ D # {}
    BY <1>1
<1>3. PICK n \in D : \A m \in D : n <= m
    <2> HIDE DEF D
    <2> QED
        BY <1>2, LeastNumber
<1>4. PICK i \in S : n = DistanceTo(vs, p, i)
    BY <1>3
<1>5. \A j \in S : ~Closer(vs, p, j, i)
    <2> SUFFICES ASSUME NEW j \in S PROVE ~Closer(vs, p, j, i)
        OBVIOUS
    <2>1. n <= DistanceTo(vs, p, j)
        BY <1>3
    <2> QED
        BY <1>1, <1>4, <2>1 DEF Closer
<1> QED
    BY <1>4, <1>5

-----------------------------------------------------------------------------
(* A search stays within the vectors of the label it starts from.            *)

SearchStates(H) == [cands : SUBSET H, found : SUBSET H, seen : SUBSET Nat,
                    ok : BOOLEAN]

LEMMA HeldByIn ==
    ASSUME NEW vs, VectorTable(vs), NEW l
    PROVE  HeldBy(vs, l) \subseteq DOMAIN vs /\ HeldBy(vs, l) \subseteq Nat
           /\ IsFiniteSet(HeldBy(vs, l))
<1>1. HeldBy(vs, l) \subseteq DOMAIN vs
    BY DEF HeldBy
<1> QED
    BY <1>1, FS_Subset DEF VectorTable

(* The neighbours of a vector that are there have its label.                 *)
LEMMA NeighborsIn ==
    ASSUME NEW vs, NEW es, LinksOK(vs, es), NEW l, NEW i \in HeldBy(vs, l)
    PROVE  /\ Neighbors(es, i) \subseteq Nat
           /\ Neighbors(es, i) \cap DOMAIN vs \subseteq HeldBy(vs, l)
           /\ i \notin Neighbors(es, i)
           /\ Clean(vs, es) => ~Dangles(vs, es, i)
           /\ ~Dangles(vs, es, i) => Neighbors(es, i) \subseteq HeldBy(vs, l)
BY DEF Neighbors, LinksOK, HeldBy, Clean, Dangles

(* A set of vectors that no link leaves, but for ones that lead nowhere.     *)
Closed(vs, es, H) ==
    /\ H \subseteq DOMAIN vs
    /\ \A c \in H : Neighbors(es, c) \cap DOMAIN vs \subseteq H

LEMMA RoundIn ==
    ASSUME NEW vs, VectorTable(vs), NEW es, NEW H, Closed(vs, es, H),
           NEW p \in Points, NEW ef \in Nat \ {0}, NEW s \in SearchStates(H),
           s.cands # {}, s.found # {}
    PROVE  /\ Round(vs, es, p, ef, s) \in SearchStates(H)
           /\ Round(vs, es, p, ef, s).found # {}
           /\ (\A c \in H : ~Dangles(vs, es, c)) /\ s.ok => Round(vs, es, p, ef, s).ok
<1> DEFINE c == CHOOSE i \in s.cands : \A j \in s.cands : ~Closer(vs, p, j, i)
           best == CHOOSE i \in s.found : \A j \in s.found : ~Closer(vs, p, j, i)
           full == Cardinality(s.found) >= ef
           new == Neighbors(es, c) \ s.seen
           accepted == {j \in new : full => Closer(vs, p, j, best)}
           Stopped == full /\ Closer(vs, p, best, c)
           ended == [s EXCEPT !.cands = {}]
           failed == [s EXCEPT !.cands = {}, !.ok = FALSE]
           next == [s EXCEPT !.cands = (@ \ {c}) \cup accepted,
                             !.found = Closest(vs, p, @ \cup accepted, ef),
                             !.seen = @ \cup new]
<1>1. /\ s.cands \in SUBSET H /\ s.found \in SUBSET H /\ s.seen \in SUBSET Nat /\ s.ok \in BOOLEAN
      /\ H \in SUBSET DOMAIN vs /\ DOMAIN vs \in SUBSET Nat
    BY DEF SearchStates, Closed, VectorTable
<1>2. c \in s.cands /\ c \in H
    BY <1>1, Nearest
<1> HIDE DEF c
<1>3. Round(vs, es, p, ef, s) = CASE Stopped -> ended
                                  [] ~Stopped /\ Dangles(vs, es, c) -> failed
                                  [] OTHER -> next
    BY DEF Round, c
<1>4. ended \in SearchStates(H) /\ ended.ok = s.ok /\ ended.found = s.found
    BY DEF SearchStates
<1>5. failed \in SearchStates(H) /\ failed.found = s.found
    <2> DEFINE no == FALSE
    <2>1. no \in BOOLEAN
        OBVIOUS
    <2> HIDE DEF no
    <2>2. /\ [s EXCEPT !.cands = {}, !.ok = no] \in SearchStates(H)
          /\ [s EXCEPT !.cands = {}, !.ok = no].found = s.found
        BY <2>1 DEF SearchStates
    <2> QED
        BY <2>2 DEF no
<1>6. ASSUME ~Dangles(vs, es, c)
      PROVE  next \in SearchStates(H) /\ next.ok = s.ok /\ next.found # {}
    <2>1. accepted \in SUBSET H /\ new \in SUBSET Nat
        <3>1. Neighbors(es, c) \subseteq H /\ Neighbors(es, c) \subseteq Nat
            BY <1>1, <1>2, <1>6 DEF Closed, Dangles
        <3> QED
            BY <3>1
    <2> HIDE DEF accepted, new
    <2>2. s.found \cup accepted \in SUBSET DOMAIN vs /\ s.found \cup accepted # {}
        BY <1>1, <2>1
    <2>3. /\ Closest(vs, p, s.found \cup accepted, ef) \in SUBSET H
          /\ Closest(vs, p, s.found \cup accepted, ef) # {}
        BY <1>1, <2>1, <2>2, ClosestFacts
    <2> QED
        BY <1>1, <2>1, <2>3 DEF SearchStates
<1> HIDE DEF Stopped, ended, failed, next
<1>8. CASE Stopped
    BY <1>3, <1>4, <1>8
<1>9. CASE ~Stopped /\ Dangles(vs, es, c)
    <2>1. Round(vs, es, p, ef, s) = failed
        BY <1>3, <1>9
    <2> QED
        BY <1>2, <1>5, <1>9, <2>1
<1>10. CASE ~Stopped /\ ~Dangles(vs, es, c)
    <2>1. Round(vs, es, p, ef, s) = next
        BY <1>3, <1>10
    <2> QED
        BY <1>6, <1>10, <2>1
<1> QED
    BY <1>8, <1>9, <1>10

(* A round of a search that is never full: what was found is what was seen,  *)
(* and the k vectors whose links were followed lead to nothing else.         *)
Unlimited(es, H, start, k, s) ==
    /\ s \in SearchStates(H) /\ s.ok
    /\ s.seen = s.found /\ start \in s.found /\ s.cands \subseteq s.found
    /\ \A c \in s.found \ s.cands : Neighbors(es, c) \subseteq s.found
    /\ s.cands = {} \/ Cardinality(s.found \ s.cands) >= k

(* While no more than ef vectors can be met, a round accepts all it meets.   *)
LEMMA RoundUnlimited ==
    ASSUME NEW vs, VectorTable(vs), NEW es, NEW H, Closed(vs, es, H),
           \A c \in H : ~Dangles(vs, es, c), NEW start,
           NEW p \in Points, NEW ef \in Nat, Cardinality(H) <= ef,
           NEW k \in Nat, NEW s, Unlimited(es, H, start, k, s), s.cands # {}
    PROVE  Unlimited(es, H, start, k + 1, Round(vs, es, p, ef, s))
<1> DEFINE c == CHOOSE i \in s.cands : \A j \in s.cands : ~Closer(vs, p, j, i)
           best == CHOOSE i \in s.found : \A j \in s.found : ~Closer(vs, p, j, i)
           full == Cardinality(s.found) >= ef
           new == Neighbors(es, c) \ s.seen
           accepted == {j \in new : full => Closer(vs, p, j, best)}
           Stopped == full /\ Closer(vs, p, best, c)
           ended == [s EXCEPT !.cands = {}]
           next == [s EXCEPT !.cands = (@ \ {c}) \cup accepted,
                             !.found = Closest(vs, p, @ \cup accepted, ef),
                             !.seen = @ \cup new]
           done == s.found \ s.cands
<1>1. /\ s \in SearchStates(H) /\ s.ok /\ s.seen = s.found /\ start \in s.found
      /\ s.cands \subseteq s.found /\ s.found \in SUBSET H
      /\ \A x \in done : Neighbors(es, x) \subseteq s.found
      /\ Cardinality(done) >= k
      /\ H \in SUBSET DOMAIN vs /\ DOMAIN vs \in SUBSET Nat
    BY DEF Unlimited, SearchStates, Closed, VectorTable
<1>2. c \in s.cands /\ c \in H
    <2>1. s.cands \in SUBSET DOMAIN vs
        BY <1>1
    <2> QED
        BY <1>1, <2>1, Nearest
<1>3. \A x \in H : Neighbors(es, x) \subseteq H
    BY DEF Closed, Dangles
<1>4. /\ IsFiniteSet(H) /\ Cardinality(H) \in Nat
      /\ IsFiniteSet(s.found) /\ Cardinality(s.found) \in Nat
      /\ IsFiniteSet(done) /\ Cardinality(done) \in Nat
    <2>1. IsFiniteSet(H)
        BY <1>1, FS_Subset DEF VectorTable
    <2>2. done \in SUBSET H
        BY <1>1
    <2> HIDE DEF done
    <2> QED
        BY <1>1, <2>1, <2>2, FS_Subset, FS_CardinalityType
<1>5. full => s.found = H
    <2>1. full => Cardinality(H) = Cardinality(s.found)
        <3>1. Cardinality(s.found) <= Cardinality(H)
            BY <1>1, <1>4, FS_Subset
        <3> QED
            BY <1>4, <3>1
    <2> QED
        BY <1>1, <1>4, <2>1, FS_Subset
<1> HIDE DEF c
<1>6. Round(vs, es, p, ef, s) = IF Stopped THEN ended ELSE next
    BY <1>2 DEF Round, c
<1>7. CASE Stopped
    <2>1. ended \in SearchStates(H) /\ ended.ok = s.ok /\ ended.found = s.found
          /\ ended.seen = s.seen /\ ended.cands = {}
        BY <1>1 DEF SearchStates
    <2>2. s.found = H
        BY <1>5, <1>7
    <2> HIDE DEF ended, Stopped
    <2> QED
        BY <1>1, <1>3, <1>6, <1>7, <2>1, <2>2 DEF Unlimited
<1>8. CASE ~Stopped
    <2>1. accepted = new /\ new \in SUBSET H
        BY <1>1, <1>2, <1>3, <1>5
    <2>2. new \cap s.found = {} /\ c \notin new /\ Neighbors(es, c) \subseteq s.found \cup new
        BY <1>1, <1>2
    <2> HIDE DEF accepted, new
    <2>3. Closest(vs, p, s.found \cup accepted, ef) = s.found \cup new
        <3>1. s.found \cup new \in SUBSET H
            BY <1>1, <2>1
        <3>2. Cardinality(s.found \cup new) <= Cardinality(H) /\ Cardinality(s.found \cup new) \in Nat
            BY <1>4, <3>1, FS_Subset, FS_CardinalityType
        <3>3. Cardinality(s.found \cup new) <= ef
            BY <1>4, <3>2
        <3>4. s.found \cup new \in SUBSET DOMAIN vs
            BY <1>1, <3>1
        <3> QED
            BY <2>1, <3>3, <3>4, ClosestFacts
    <2>4. /\ next \in SearchStates(H) /\ next.ok = s.ok /\ next.found = s.found \cup new
          /\ next.seen = s.found \cup new /\ next.cands = (s.cands \ {c}) \cup new
        BY <1>1, <2>1, <2>3 DEF SearchStates
    <2>5. next.found \ next.cands = done \cup {c} /\ c \notin done
        BY <1>1, <1>2, <2>2, <2>4
    <2>6. Cardinality(next.found \ next.cands) >= k + 1
        <3> HIDE DEF done, next
        <3>1. Cardinality(done \cup {c}) = Cardinality(done) + 1
            BY <1>4, <2>5, FS_AddElement
        <3>2. Cardinality(next.found \ next.cands) = Cardinality(done) + 1
            BY <2>5, <3>1
        <3>3. Cardinality(done) >= k /\ Cardinality(done) \in Nat
            BY <1>1, <1>4
        <3> QED
            BY <3>2, <3>3
    <2>7. \A x \in next.found \ next.cands : Neighbors(es, x) \subseteq next.found
        BY <1>1, <2>2, <2>4, <2>5
    <2>8. Round(vs, es, p, ef, s) = next
        BY <1>6, <1>8
    <2> HIDE DEF next
    <2> QED
        BY <1>1, <2>4, <2>6, <2>7, <2>8 DEF Unlimited
<1> QED
    BY <1>7, <1>8

(* The rounds of a search, up to each of them.                               *)
Rounds(vs, es, p, start, ef, n, f) ==
    f = [m \in 0 .. n |->
            IF m = 0
            THEN [cands |-> {start}, found |-> {start}, seen |-> {start},
                  ok |-> TRUE]
            ELSE IF f[m - 1].cands = {} THEN f[m - 1]
                 ELSE Round(vs, es, p, ef, f[m - 1])]

LEMMA RoundsExist ==
    ASSUME NEW vs, NEW es, NEW p, NEW start, NEW ef, NEW n \in Nat
    PROVE  \E f : Rounds(vs, es, p, start, ef, n, f)
<1> DEFINE Bad == {m \in Nat : ~ \E f : Rounds(vs, es, p, start, ef, m, f)}
           first == [cands |-> {start}, found |-> {start}, seen |-> {start},
                     ok |-> TRUE]
           Then(s) == IF s.cands = {} THEN s ELSE Round(vs, es, p, ef, s)
<1>1. ASSUME Bad # {} PROVE FALSE
    <2>1. PICK m \in Bad : \A k \in Bad : m <= k
        <3>1. Bad \in SUBSET Nat
            OBVIOUS
        <3> HIDE DEF Bad
        <3> QED
            BY <1>1, <3>1, LeastNumber
    <2>2. m \in Nat /\ ~ \E f : Rounds(vs, es, p, start, ef, m, f)
        BY <2>1
    <2>3. m # 0
        <3> DEFINE z == [i \in 0 .. 0 |-> first]
        <3>1. Rounds(vs, es, p, start, ef, 0, z)
            <4> HIDE DEF first
            <4>1. z = [i \in 0 .. 0 |-> IF i = 0 THEN first ELSE Then(z[i - 1])]
                OBVIOUS
            <4> HIDE DEF z
            <4> QED
                BY <4>1 DEF Rounds, first
        <3> QED
            BY <2>2, <3>1
    <2>4. m - 1 \in Nat /\ ~ (m <= m - 1)
        BY <2>2, <2>3
    <2>5. m - 1 \notin Bad
        <3> HIDE DEF Bad
        <3> QED
            BY <2>1, <2>4
    <2>6. PICK f : Rounds(vs, es, p, start, ef, m - 1, f)
        BY <2>4, <2>5
    <2>7. f = [i \in 0 .. m - 1 |-> IF i = 0 THEN first ELSE Then(f[i - 1])]
        BY <2>6 DEF Rounds
    <2> DEFINE h == [i \in 0 .. m |-> IF i = 0 THEN first ELSE Then(f[i - 1])]
    <2> HIDE DEF first, Then
    <2>8. ASSUME NEW i \in 0 .. m - 1 PROVE h[i] = f[i]
        BY <2>2, <2>7
    <2>9. ASSUME NEW i \in 0 .. m, i # 0 PROVE h[i - 1] = f[i - 1]
        <3>1. i - 1 \in 0 .. m - 1
            BY <2>2, <2>9
        <3> HIDE DEF h
        <3> QED
            BY <3>1, <2>8
    <2>10. h = [i \in 0 .. m |-> IF i = 0 THEN first ELSE Then(h[i - 1])]
        BY <2>9
    <2>11. Rounds(vs, es, p, start, ef, m, h)
        <3> HIDE DEF h
        <3> QED
            BY <2>10 DEF Rounds, first, Then
    <2> QED
        BY <2>2, <2>11
<1> QED
    BY <1>1

(* A search stays in a set of vectors that links do not leave, and takes all *)
(* that can be reached if there are no more than ef of them.                 *)
LEMMA SearchIn ==
    ASSUME NEW vs, VectorTable(vs), NEW es, NEW H, Closed(vs, es, H),
           NEW p \in Points, NEW start \in H, NEW ef \in Nat \ {0}
    PROVE  LET s == SearchLevel(vs, es, p, start, ef) IN
           /\ s.found \in SUBSET H /\ s.found # {}
           /\ (\A c \in H : ~Dangles(vs, es, c)) =>
                /\ s.ok
                /\ Cardinality(H) <= ef =>
                      /\ start \in s.found
                      /\ \A c \in s.found : Neighbors(es, c) \subseteq s.found
<1> DEFINE n == Cardinality(DOMAIN vs)
           F == CHOOSE f : Rounds(vs, es, p, start, ef, n, f)
           first == [cands |-> {start}, found |-> {start}, seen |-> {start},
                     ok |-> TRUE]
           Whole == \A c \in H : ~Dangles(vs, es, c)
           Fine(m, s) == /\ s \in SearchStates(H) /\ s.found # {}
                         /\ Whole => s.ok
                         /\ Whole /\ Cardinality(H) <= ef => Unlimited(es, H, start, m, s)
<1>1. n \in Nat /\ H \in SUBSET DOMAIN vs /\ IsFiniteSet(H) /\ Cardinality(H) \in Nat /\ Cardinality(H) <= n
    <2>1. IsFiniteSet(DOMAIN vs) /\ H \in SUBSET DOMAIN vs
        BY DEF VectorTable, Closed
    <2> QED
        BY <2>1, FS_Subset, FS_CardinalityType
<1>2. Rounds(vs, es, p, start, ef, n, F)
    <2> HIDE DEF n
    <2> QED
        BY <1>1, RoundsExist
<1>3. SearchLevel(vs, es, p, start, ef) = F[n]
    BY DEF SearchLevel, Rounds
<1> HIDE DEF F
<1>4. Fine(0, first)
    <2>1. {start} \in SUBSET H /\ {start} \in SUBSET Nat
        BY <1>1 DEF VectorTable
    <2>2. first \in SearchStates(H) /\ first.found # {} /\ first.found = {start}
          /\ first.seen = {start} /\ first.cands = {start}
        BY <2>1 DEF SearchStates
    <2>3. first.ok
        OBVIOUS
    <2> HIDE DEF first
    <2>4. first.found \ first.cands = {} /\ Cardinality({}) = 0
        BY <2>2, FS_EmptySet
    <2>5. Unlimited(es, H, start, 0, first)
        BY <2>2, <2>3, <2>4 DEF Unlimited
    <2> QED
        BY <2>2, <2>3, <2>5
<1>5. \A m \in 0 .. n : F[m] = IF m = 0 THEN first ELSE IF F[m - 1].cands = {} THEN F[m - 1]
                             ELSE Round(vs, es, p, ef, F[m - 1])
    BY <1>2 DEF Rounds
<1>6. ASSUME NEW m \in Nat, NEW s, Fine(m, s), s.cands # {} PROVE Fine(m + 1, Round(vs, es, p, ef, s))
    <2> HIDE DEF n, first
    <2>1. /\ Round(vs, es, p, ef, s) \in SearchStates(H)
          /\ Round(vs, es, p, ef, s).found # {}
          /\ Whole => Round(vs, es, p, ef, s).ok
        BY <1>6, RoundIn
    <2>2. ASSUME Whole, Cardinality(H) <= ef PROVE Unlimited(es, H, start, m + 1, Round(vs, es, p, ef, s))
        BY <1>6, <2>2, RoundUnlimited
    <2> QED
        BY <2>1, <2>2
<1>7. ASSUME NEW m \in Nat, NEW s, Fine(m, s), s.cands = {} PROVE Fine(m + 1, s)
    BY <1>7 DEF Unlimited
<1> HIDE DEF Fine, first, n
<1> DEFINE Bad == {m \in 0 .. n : ~Fine(m, F[m])}
<1>8. ASSUME Bad # {} PROVE FALSE
    <2>1. PICK m \in Bad : \A k \in Bad : m <= k
        <3>1. Bad \in SUBSET Nat
            BY <1>1
        <3> HIDE DEF Bad
        <3> QED
            BY <1>8, <3>1, LeastNumber
    <2>2. m \in 0 .. n /\ ~Fine(m, F[m])
        BY <2>1
    <2>3. m # 0
        BY <1>4, <1>5, <2>2
    <2>4. m - 1 \in 0 .. n /\ ~ (m <= m - 1) /\ m - 1 \in Nat /\ (m - 1) + 1 = m
        BY <1>1, <2>2, <2>3
    <2>5. Fine(m - 1, F[m - 1])
        <3>1. m - 1 \notin Bad
            <4> HIDE DEF Bad
            <4> QED
                BY <2>1, <2>4
        <3> QED
            BY <2>4, <3>1
    <2>6. F[m] = IF F[m - 1].cands = {} THEN F[m - 1] ELSE Round(vs, es, p, ef, F[m - 1])
        BY <1>5, <2>2, <2>3
    <2>7. Fine((m - 1) + 1, F[m])
        BY <1>6, <1>7, <2>4, <2>5, <2>6
    <2> QED
        BY <2>2, <2>4, <2>7
<1>9. Fine(n, F[n])
    BY <1>1, <1>8
<1>10. /\ F[n] \in SearchStates(H) /\ F[n].found # {} /\ (Whole => F[n].ok)
       /\ Whole /\ Cardinality(H) <= ef => Unlimited(es, H, start, n, F[n])
    BY <1>9 DEF Fine
<1>11. ASSUME Whole, Cardinality(H) <= ef
       PROVE  start \in F[n].found /\ \A c \in F[n].found : Neighbors(es, c) \subseteq F[n].found
    <2> DEFINE done == F[n].found \ F[n].cands
    <2>1. /\ start \in F[n].found /\ F[n].cands \subseteq F[n].found /\ F[n].found \subseteq H
          /\ \A c \in done : Neighbors(es, c) \subseteq F[n].found
          /\ F[n].cands = {} \/ Cardinality(done) >= n
        BY <1>10, <1>11 DEF Unlimited, SearchStates
    <2>2. F[n].cands = {}
        <3> SUFFICES ASSUME Cardinality(done) >= n PROVE F[n].cands = {}
            BY <2>1
        <3>1. done \in SUBSET H
            BY <2>1
        <3>2. Cardinality(done) \in Nat /\ Cardinality(done) <= Cardinality(H)
            <4> HIDE DEF done
            <4> QED
                BY <1>1, <3>1, FS_Subset, FS_CardinalityType
        <3>3. Cardinality(H) = Cardinality(done)
            BY <1>1, <3>2
        <3>4. H = done
            <4> HIDE DEF done
            <4> QED
                BY <1>1, <3>1, <3>3, FS_Subset
        <3> QED
            BY <2>1, <3>4
    <2> QED
        BY <2>1, <2>2
<1>12. F[n].found \in SUBSET H
    BY <1>10 DEF SearchStates
<1> QED
    BY <1>3, <1>10, <1>11, <1>12

-----------------------------------------------------------------------------
(* The neighbours that are selected.                                         *)

(* The sequences of a sequence one after the other: FlattenSeq is a          *)
(* recursive function on the positions, which exists up to each of them.     *)
Joined(s, n, f) ==
    f = [i \in 1 .. n |-> IF i = 1 THEN s[i] ELSE f[i - 1] \o s[i]]

LEMMA JoinedExists ==
    ASSUME NEW s, NEW n \in Nat
    PROVE  \E f : Joined(s, n, f)
<1> DEFINE Bad == {m \in Nat : ~ \E f : Joined(s, m, f)}
<1>1. ASSUME Bad # {} PROVE FALSE
    <2>1. PICK m \in Bad : \A k \in Bad : m <= k
        <3>1. Bad \in SUBSET Nat
            OBVIOUS
        <3> HIDE DEF Bad
        <3> QED
            BY <1>1, <3>1, LeastNumber
    <2>2. m \in Nat /\ ~ \E f : Joined(s, m, f)
        BY <2>1
    <2>3. m # 0
        <3> DEFINE z == [i \in 1 .. 0 |-> 0]
        <3>1. Joined(s, 0, z)
            BY DEF Joined
        <3> QED
            BY <2>2, <3>1
    <2>4. m - 1 \in Nat /\ ~ (m <= m - 1)
        BY <2>2, <2>3
    <2>5. m - 1 \notin Bad
        <3> HIDE DEF Bad
        <3> QED
            BY <2>1, <2>4
    <2>6. PICK f : Joined(s, m - 1, f)
        BY <2>4, <2>5
    <2> DEFINE h == [i \in 1 .. m |-> IF i = 1 THEN s[i] ELSE f[i - 1] \o s[i]]
    <2>7. ASSUME NEW i \in 1 .. m - 1 PROVE h[i] = f[i]
        <3>1. f[i] = IF i = 1 THEN s[i] ELSE f[i - 1] \o s[i]
            BY <2>6 DEF Joined
        <3> QED
            BY <2>2, <3>1
    <2>8. ASSUME NEW i \in 1 .. m, i # 1 PROVE h[i - 1] = f[i - 1]
        <3>1. i - 1 \in 1 .. m - 1
            BY <2>2, <2>8
        <3> HIDE DEF h
        <3> QED
            BY <3>1, <2>7
    <2>9. Joined(s, m, h)
        <3>1. h = [i \in 1 .. m |-> IF i = 1 THEN s[i] ELSE h[i - 1] \o s[i]]
            BY <2>8
        <3> HIDE DEF h
        <3> QED
            BY <3>1 DEF Joined
    <2> QED
        BY <2>2, <2>9
<1> QED
    BY <1>1

LEMMA FlattenedIn ==
    ASSUME NEW S, NEW s \in Seq(Seq(S))
    PROVE  /\ FlattenSeq(s) \in Seq(S)
           /\ s # << >> /\ (\A k \in DOMAIN s : s[k] # << >>) => FlattenSeq(s) # << >>
<1> DEFINE Whole == \A k \in DOMAIN s : s[k] # << >>
           Fine(f) == f \in Seq(S) /\ (Whole => f # << >>)
           n == Len(s)
           F == CHOOSE f : Joined(s, n, f)
<1>1. n \in Nat /\ \A k \in 1 .. n : s[k] \in Seq(S) /\ Fine(s[k])
    OBVIOUS
<1>2. CASE n = 0
    <2>1. FlattenSeq(s) = s
        BY <1>2 DEF FlattenSeq
    <2>2. s = << >>
        BY <1>2
    <2> QED
        BY <2>1, <2>2
<1>3. CASE n # 0
    <2>1. Joined(s, n, F)
        BY <1>1, JoinedExists
    <2>2. FlattenSeq(s) = F[n]
        BY <1>3 DEF FlattenSeq, Joined
    <2> HIDE DEF F
    <2> DEFINE Bad == {i \in 1 .. n : ~Fine(F[i])}
    <2>3. ASSUME Bad # {} PROVE FALSE
        <3>1. PICK i \in Bad : \A j \in Bad : i <= j
            <4>1. Bad \in SUBSET Nat
                OBVIOUS
            <4> HIDE DEF Bad
            <4> QED
                BY <2>3, <4>1, LeastNumber
        <3>2. i \in 1 .. n /\ ~Fine(F[i])
            BY <3>1
        <3>3. F[i] = IF i = 1 THEN s[i] ELSE F[i - 1] \o s[i]
            BY <2>1, <3>2 DEF Joined
        <3>4. i # 1
            BY <1>1, <3>2, <3>3
        <3>5. i - 1 \in 1 .. n /\ ~ (i <= i - 1)
            BY <1>1, <3>2, <3>4
        <3>6. i - 1 \notin Bad
            <4> HIDE DEF Bad
            <4> QED
                BY <3>1, <3>5
        <3>7. Fine(F[i - 1])
            BY <3>5, <3>6
        <3>8. s[i] \in Seq(S)
            BY <1>1, <3>2
        <3>9. F[i] = F[i - 1] \o s[i]
            BY <3>3, <3>4
        <3>10. F[i] \in Seq(S) /\ (F[i - 1] # << >> => F[i] # << >>)
            BY <3>7, <3>8, <3>9
        <3> QED
            BY <3>2, <3>7, <3>10
    <2>4. n \in 1 .. n
        BY <1>1, <1>3
    <2> QED
        BY <2>2, <2>3, <2>4
<1> QED
    BY <1>2, <1>3

LEMMA PrefixIn ==
    ASSUME NEW S, NEW s \in Seq(S), NEW m \in Nat
    PROVE  /\ SubSeq(s, 1, Min({m, Len(s)})) \in Seq(S)
           /\ m # 0 /\ s # << >> => SubSeq(s, 1, Min({m, Len(s)})) # << >>
<1> DEFINE k == Min({m, Len(s)})
<1>1. k \in Nat /\ k <= Len(s) /\ (m # 0 /\ s # << >> => k # 0)
    <2>1. Len(s) \in Nat
        OBVIOUS
    <2>2. \E x \in {m, Len(s)} : \A y \in {m, Len(s)} : x <= y
        BY <2>1
    <2>3. k \in {m, Len(s)} /\ \A y \in {m, Len(s)} : k <= y
        BY <2>2 DEF Min
    <2> QED
        BY <2>1, <2>3
<1> HIDE DEF k
<1>2. SubSeq(s, 1, k) \in Seq(S) /\ (k # 0 => SubSeq(s, 1, k) # << >>)
    BY <1>1
<1> QED
    BY <1>1, <1>2 DEF k

LEMMA SelectForNewIn ==
    ASSUME NEW vs, VectorTable(vs), NEW es, NEW H, Closed(vs, es, H),
           NEW p \in Points, NEW cands \in SUBSET H, cands # {},
           \A c \in cands : ~Dangles(vs, es, c), config \in Configs
    PROVE  SelectForNew(vs, es, p, cands) \in Seq(H) \ {<< >>}
<1> DEFINE around == UNION {Neighbors(es, c) : c \in cands}
           Times(j) == IF j \in around \cap cands THEN <<j, j>> ELSE <<j>>
           order == InOrder(vs, p, around \cup cands)
           lists == [n \in DOMAIN order |-> Times(order[n])]
<1>1. around \cup cands \in SUBSET H /\ H \in SUBSET DOMAIN vs
    <2>1. \A c \in cands : Neighbors(es, c) \subseteq H
        BY DEF Closed, Dangles
    <2> QED
        BY <2>1 DEF Closed
<1>2. order \in Seq(H) /\ order # << >>
    <2>1. around \cup cands \in SUBSET DOMAIN vs /\ around \cup cands # {}
        BY <1>1
    <2>2. order \in Seq(around \cup cands) /\ order # << >>
        BY <2>1, InOrderIn
    <2> HIDE DEF order
    <2> QED
        BY <1>1, <2>2
<1>3. lists \in Seq(Seq(H)) /\ lists # << >> /\ \A k \in DOMAIN lists : lists[k] # << >>
    <2> HIDE DEF order, around
    <2>1. Len(order) \in Nat /\ DOMAIN order = 1 .. Len(order) /\ Len(order) # 0
        BY <1>2
    <2>2. \A n \in DOMAIN order : Times(order[n]) \in Seq(H) /\ Times(order[n]) # << >>
        BY <1>2
    <2> HIDE DEF Times
    <2>3. lists \in [1 .. Len(order) -> Seq(H)] /\ \A k \in DOMAIN lists : lists[k] # << >>
        BY <2>1, <2>2
    <2> HIDE DEF lists
    <2>4. lists \in Seq(Seq(H)) /\ Len(lists) = Len(order)
        BY <2>1, <2>3
    <2> QED
        BY <2>1, <2>3, <2>4
<1>4. FlattenSeq(lists) \in Seq(H) /\ FlattenSeq(lists) # << >>
    <2> HIDE DEF lists
    <2> QED
        BY <1>3, FlattenedIn
<1>5. config.m \in Nat \ {0}
    BY ConfigAssumption
<1>6. SelectForNew(vs, es, p, cands) = SubSeq(FlattenSeq(lists), 1, Min({config.m, Len(FlattenSeq(lists))}))
    BY DEF SelectForNew
<1> HIDE DEF lists
<1> QED
    BY <1>4, <1>5, <1>6, PrefixIn

(* A sequence of as many different members as a finite set has holds all.    *)
LEMMA SeqsCover ==
    ASSUME NEW S, IsFiniteSet(S), NEW f \in SetToSeqs(S)
    PROVE  f \in Seq(S) /\ S \subseteq ToSet(f)
<1> DEFINE n == Cardinality(S)
<1>1. n \in Nat
    BY FS_CardinalityType
<1>2. f \in [1 .. n -> S] /\ \A i, j \in 1 .. n : i # j => f[i] # f[j]
    BY DEF SetToSeqs
<1> HIDE DEF n
<1>3. f \in Injection(1 .. n, S)
    BY <1>2 DEF Injection, IsInjective
<1>4. Cardinality(1 .. n) = n
    BY <1>1, FS_Interval
<1>5. f \in Surjection(1 .. n, S)
    BY <1>3, <1>4, FS_Injection DEF n
<1>6. \A x \in S : \E i \in 1 .. n : f[i] = x
    BY <1>5 DEF Surjection
<1> QED
    BY <1>1, <1>2, <1>6 DEF ToSet

LEMMA SelectionsIn ==
    ASSUME NEW vs, VectorTable(vs), NEW es, LinksOK(vs, es), NEW l,
           NEW p \in Points, NEW e \in HeldBy(vs, l), config \in Configs,
           \A c \in {e} \cup Neighbors(es, e) : c \in DOMAIN vs /\ ~Dangles(vs, es, c),
           NEW ns \in Selections(vs, es, p, e)
    PROVE  /\ ns \in Seq(HeldBy(vs, l))
           /\ Cardinality(Neighbors(es, e)) <= config.m =>
                 Neighbors(es, e) \subseteq ToSet(ns)
<1> DEFINE H == HeldBy(vs, l)
           conns == Neighbors(es, e)
           around == UNION {Neighbors(es, c) : c \in conns}
           left == config.m - Cardinality(conns)
           kept == IF left <= 0 THEN kSubset(config.m, conns) ELSE {conns}
           near == Closest(vs, p, around, left)
           rest == InOrder(vs, p, near)
<1>1. conns \in SUBSET H /\ IsFiniteSet(conns) /\ Cardinality(conns) \in Nat
    <2>1. conns \in SUBSET H
        BY NeighborsIn
    <2> QED
        BY <2>1, HeldByIn, FS_Subset, FS_CardinalityType
<1>2. around \in SUBSET H
    <2>1. \A c \in conns : Neighbors(es, c) \subseteq H
        BY <1>1, NeighborsIn
    <2> QED
        BY <2>1
<1>3. rest \in Seq(H)
    <2>1. near \in SUBSET H /\ near \in SUBSET DOMAIN vs
        BY <1>2, HeldByIn DEF Closest
    <2>2. rest \in Seq(near)
        BY <2>1, InOrderIn
    <2> HIDE DEF near, rest, H
    <2> QED
        BY <2>1, <2>2
<1>4. PICK S \in kept : \E first \in SetToSeqs(S) : ns = first \o rest
    BY DEF Selections
<1>5. PICK first \in SetToSeqs(S) : ns = first \o rest
    BY <1>4
<1>6. config.m \in Nat
    BY ConfigAssumption
<1>7. S \in SUBSET conns /\ (Cardinality(conns) <= config.m => S = conns)
    <2>1. CASE left <= 0
        <3>1. S \in SUBSET conns /\ Cardinality(S) = config.m
            BY <1>4, <2>1 DEF kSubset
        <3>2. Cardinality(conns) <= config.m => Cardinality(S) = Cardinality(conns)
            BY <1>1, <1>6, <2>1, <3>1
        <3> HIDE DEF conns
        <3> QED
            BY <1>1, <3>1, <3>2, FS_Subset
    <2>2. CASE ~(left <= 0)
        BY <1>4, <2>2
    <2> QED
        BY <2>1, <2>2
<1>8. first \in Seq(S) /\ S \subseteq ToSet(first)
    <2>1. IsFiniteSet(S)
        BY <1>1, <1>7, FS_Subset
    <2> QED
        BY <2>1, SeqsCover
<1> HIDE DEF conns, rest, H, kept
<1>9. first \in Seq(H)
    BY <1>1, <1>7, <1>8
<1>10. ns \in Seq(H)
    BY <1>3, <1>5, <1>9
<1>11. ToSet(first) \subseteq ToSet(ns)
    <2>1. \A i \in DOMAIN first : i \in DOMAIN ns /\ ns[i] = first[i]
        BY <1>3, <1>5, <1>9
    <2> QED
        BY <2>1 DEF ToSet
<1> QED
    BY <1>7, <1>8, <1>10, <1>11 DEF conns, H

-----------------------------------------------------------------------------
(* What linking a vector of the label l does to the links.                   *)

Outcomes == [ok : BOOLEAN, links : SUBSET (Nat \X Nat)]

(* The outcome o of linking vectors of the label l, from the links es on.    *)
Sound(vs, es, l, o) ==
    /\ o \in Outcomes
    /\ o.ok => /\ LinksOK(vs, o.links)
               /\ Within(vs, es, l, o.links)
               /\ Few(vs, l) /\ Mutual(vs, es, l) =>
                     Mutual(vs, o.links, l) /\ es \subseteq o.links
    /\ Clean(vs, es) => o.ok /\ Clean(vs, o.links)

LEMMA LinkedOutcome ==
    ASSUME NEW es \in SUBSET (Nat \X Nat)
    PROVE  /\ Linked(es) \in Outcomes /\ Linked(es).ok /\ Linked(es).links = es
           /\ Failed \in Outcomes /\ ~Failed.ok
<1> DEFINE yes == TRUE
           no == FALSE
<1>1. yes \in BOOLEAN /\ no \in BOOLEAN
    OBVIOUS
<1> HIDE DEF yes, no
<1>2. /\ [ok |-> yes, links |-> es] \in Outcomes
      /\ [ok |-> yes, links |-> es].ok = yes /\ [ok |-> yes, links |-> es].links = es
      /\ [ok |-> no, links |-> {}] \in Outcomes /\ [ok |-> no, links |-> {}].ok = no
    BY <1>1 DEF Outcomes
<1>3. /\ Linked(es) = [ok |-> yes, links |-> es] /\ yes
      /\ Failed = [ok |-> no, links |-> {}] /\ ~no
    BY DEF Linked, Failed, yes, no
<1> QED
    BY <1>2, <1>3

LEMMA SoundSelf ==
    ASSUME NEW vs, NEW es, LinksOK(vs, es), NEW l
    PROVE  Sound(vs, es, l, Linked(es))
<1>1. Linked(es) \in Outcomes /\ Linked(es).ok /\ Linked(es).links = es
    BY LinkedOutcome DEF LinksOK
<1> QED
    BY <1>1 DEF Sound, Within

(* One linking after another.                                                *)
LEMMA SoundThen ==
    ASSUME NEW vs, NEW es, NEW l, NEW o, Sound(vs, es, l, o), o.ok,
           NEW o2, Sound(vs, o.links, l, o2)
    PROVE  Sound(vs, es, l, o2)
<1>1. o2.ok => Within(vs, es, l, o2.links)
    BY DEF Sound, Within
<1> QED
    BY <1>1 DEF Sound

(* The links of a vector are no more than m while the label is small.        *)
LEMMA Degree ==
    ASSUME NEW vs, VectorTable(vs), NEW es, LinksOK(vs, es), NEW l,
           NEW x \in HeldBy(vs, l), Few(vs, l), Mutual(vs, es, l),
           config \in Configs
    PROVE  /\ Cardinality(Neighbors(es, x)) \in Nat
           /\ Cardinality(Neighbors(es, x)) <= config.m
<1> DEFINE H == HeldBy(vs, l)
<1>1. IsFiniteSet(H) /\ Cardinality(H) \in Nat
    BY HeldByIn, FS_CardinalityType
<1>2. Neighbors(es, x) \in SUBSET (H \ {x})
    <2>1. \A y \in Neighbors(es, x) : y \in DOMAIN vs
        BY DEF Neighbors, Mutual
    <2> QED
        BY <2>1, NeighborsIn
<1>3. IsFiniteSet(H \ {x}) /\ Cardinality(H \ {x}) = Cardinality(H) - 1
    <2> HIDE DEF H
    <2> QED
        BY <1>1, FS_RemoveElement DEF H
<1>4. /\ IsFiniteSet(Neighbors(es, x))
      /\ Cardinality(Neighbors(es, x)) <= Cardinality(H \ {x})
    <2> HIDE DEF H
    <2> QED
        BY <1>2, <1>3, FS_Subset
<1>5. Cardinality(Neighbors(es, x)) \in Nat
    BY <1>4, FS_CardinalityType
<1>6. config.m \in Nat
    BY ConfigAssumption
<1> QED
    BY <1>1, <1>3, <1>4, <1>5, <1>6 DEF Few

(* Pruning takes both directions, and nothing of a small label.              *)
LEMMA PruneSound ==
    ASSUME NEW vs, VectorTable(vs), NEW es, LinksOK(vs, es), NEW l,
           NEW x \in HeldBy(vs, l), config \in Configs
    PROVE  Sound(vs, es, l, PruneIfOverDegree(vs, es, x))
<1> DEFINE H == HeldBy(vs, l)
           scored == Neighbors(es, x) \cap DOMAIN vs
           far == scored \ Closest(vs, vs[x].point, scored, m_max_0)
           both == {<<x, z>> : z \in far} \cup {<<z, x>> : z \in far}
           over == Cardinality(Neighbors(es, x)) > m_max_0
           short == Cardinality(scored) < m_max_0
           result == PruneIfOverDegree(vs, es, x)
<1>1. result = CASE ~over -> Linked(es)
                 [] over /\ short -> Failed
                 [] OTHER -> Linked(es \ both)
    BY DEF PruneIfOverDegree
<1>2. m_max_0 \in Nat /\ config.m \in Nat /\ config.m <= m_max_0
    BY ConfigAssumption DEF m_max_0
<1>3. CASE ~over
    <2>1. result = Linked(es)
        BY <1>1, <1>3
    <2> QED
        BY <2>1, SoundSelf
<1>4. CASE over /\ short
    <2>1. result = Failed
        BY <1>1, <1>4
    <2>2. ~Clean(vs, es)
        <3> SUFFICES ASSUME Clean(vs, es) PROVE FALSE
            OBVIOUS
        <3>1. Neighbors(es, x) \subseteq DOMAIN vs
            BY DEF Clean, Neighbors
        <3>2. scored = Neighbors(es, x)
            BY <3>1
        <3>3. Cardinality(scored) \in Nat
            <4>1. scored \in SUBSET DOMAIN vs
                OBVIOUS
            <4> HIDE DEF scored
            <4> QED
                BY <4>1, FS_Subset, FS_CardinalityType DEF VectorTable
        <3> HIDE DEF scored
        <3> QED
            BY <1>2, <1>4, <3>2, <3>3
    <2>3. Failed \in Outcomes /\ ~Failed.ok
        BY LinkedOutcome
    <2> HIDE DEF result
    <2> QED
        BY <2>1, <2>2, <2>3 DEF Sound, result
<1>5. CASE over /\ ~short
    <2>1. result = Linked(es \ both)
        BY <1>1, <1>5
    <2>2. Linked(es \ both) \in Outcomes /\ Linked(es \ both).ok /\ Linked(es \ both).links = es \ both
        <3>1. es \ both \in SUBSET (Nat \X Nat)
            BY DEF LinksOK
        <3> HIDE DEF both
        <3> QED
            BY <3>1, LinkedOutcome
    <2>3. far \subseteq H
        BY NeighborsIn
    <2>4. \A d \in both : d[1] \in H
        BY <2>3
    <2>5. ~(Few(vs, l) /\ Mutual(vs, es, l))
        <3> SUFFICES ASSUME Few(vs, l), Mutual(vs, es, l) PROVE FALSE
            OBVIOUS
        <3>1. /\ Cardinality(Neighbors(es, x)) \in Nat
              /\ Cardinality(Neighbors(es, x)) <= config.m
            BY Degree
        <3> QED
            BY <1>2, <1>5, <3>1
    <2> HIDE DEF both, H, result
    <2>6. LinksOK(vs, es \ both) /\ Within(vs, es, l, es \ both)
        BY <2>4 DEF LinksOK, Within, H
    <2>7. Clean(vs, es) => Clean(vs, es \ both)
        BY DEF Clean
    <2> QED
        BY <2>1, <2>2, <2>5, <2>6, <2>7 DEF Sound, result
<1> QED
    BY <1>3, <1>4, <1>5

(* One turn of the loop of set_neighbours: linked in both directions.        *)
LEMMA LinkBothSound ==
    ASSUME NEW vs, VectorTable(vs), NEW es, NEW l, config \in Configs,
           NEW o, Sound(vs, es, l, o),
           NEW i \in HeldBy(vs, l), NEW x \in HeldBy(vs, l)
    PROVE  /\ Sound(vs, es, l, LinkBoth(vs, o, i, x))
           /\ Few(vs, l) /\ Mutual(vs, es, l) /\ LinkBoth(vs, o, i, x).ok =>
                /\ o.ok /\ o.links \subseteq LinkBoth(vs, o, i, x).links
                /\ x = i \/ {<<i, x>>, <<x, i>>} \subseteq LinkBoth(vs, o, i, x).links
<1> DEFINE more == o.links \cup {<<i, x>>, <<x, i>>}
<1>1. CASE x = i \/ ~o.ok
    <2>1. LinkBoth(vs, o, i, x) = o
        BY <1>1 DEF LinkBoth
    <2> QED
        BY <1>1, <2>1
<1>2. CASE ~(x = i \/ ~o.ok)
    <2>1. LinkBoth(vs, o, i, x) = PruneIfOverDegree(vs, more, x)
        BY <1>2 DEF LinkBoth
    <2>2. LinksOK(vs, o.links)
        BY <1>2 DEF Sound
    <2>3. i \in Nat /\ x \in Nat /\ i \in DOMAIN vs /\ x \in DOMAIN vs /\ vs[i].label = l /\ vs[x].label = l
        BY HeldByIn DEF HeldBy
    <2>4. LinksOK(vs, more)
        BY <1>2, <2>2, <2>3 DEF LinksOK
    <2>5. Linked(more) \in Outcomes /\ Linked(more).ok /\ Linked(more).links = more
        BY <2>4, LinkedOutcome DEF LinksOK
    <2>6. Within(vs, o.links, l, more)
        BY DEF Within
    <2>7. Mutual(vs, o.links, l) => Mutual(vs, more, l)
        <3> SUFFICES ASSUME Mutual(vs, o.links, l), NEW d \in more, d[1] \in HeldBy(vs, l)
                     PROVE  d[2] \in DOMAIN vs /\ <<d[2], d[1]>> \in more
            BY DEF Mutual
        <3>1. CASE d \in o.links
            BY <3>1 DEF Mutual
        <3>2. CASE d = <<i, x>> \/ d = <<x, i>>
            BY <2>3, <3>2
        <3> QED
            BY <3>1, <3>2
    <2>8. Clean(vs, o.links) => Clean(vs, more)
        BY <2>3 DEF Clean
    <2>15. o.links \subseteq more
        OBVIOUS
    <2> HIDE DEF more
    <2>9. Sound(vs, o.links, l, Linked(more))
        BY <2>4, <2>5, <2>6, <2>7, <2>8, <2>15 DEF Sound
    <2>10. Sound(vs, more, l, PruneIfOverDegree(vs, more, x))
        BY <2>4, PruneSound
    <2>11. Sound(vs, o.links, l, PruneIfOverDegree(vs, more, x))
        BY <2>5, <2>9, <2>10, SoundThen
    <2>12. Sound(vs, es, l, LinkBoth(vs, o, i, x))
        BY <1>2, <2>1, <2>11, SoundThen
    <2>13. Few(vs, l) /\ Mutual(vs, es, l) => Mutual(vs, more, l)
        BY <1>2, <2>7 DEF Sound
    <2>14. Few(vs, l) /\ Mutual(vs, es, l) /\ LinkBoth(vs, o, i, x).ok =>
               more \subseteq LinkBoth(vs, o, i, x).links
        BY <2>1, <2>10, <2>13 DEF Sound
    <2> QED
        BY <1>2, <2>12, <2>14 DEF more
<1> QED
    BY <1>1, <1>2

-----------------------------------------------------------------------------
(* set_neighbours, one link after another.                                   *)
Linking(vs, es, i, ns, n, f) ==
    f = [k \in 0 .. n |-> IF k = 0 THEN Linked(es) ELSE LinkBoth(vs, f[k - 1], i, ns[k])]

LEMMA LinkingExists ==
    ASSUME NEW vs, NEW es, NEW i, NEW ns, NEW n \in Nat
    PROVE  \E f : Linking(vs, es, i, ns, n, f)
<1> DEFINE Bad == {m \in Nat : ~ \E f : Linking(vs, es, i, ns, m, f)}
<1>1. ASSUME Bad # {} PROVE FALSE
    <2>1. PICK m \in Bad : \A k \in Bad : m <= k
        <3>1. Bad \in SUBSET Nat
            OBVIOUS
        <3> HIDE DEF Bad
        <3> QED
            BY <1>1, <3>1, LeastNumber
    <2>2. m \in Nat /\ ~ \E f : Linking(vs, es, i, ns, m, f)
        BY <2>1
    <2>3. m # 0
        <3> DEFINE z == [k \in 0 .. 0 |-> Linked(es)]
        <3>1. z = [k \in 0 .. 0 |-> IF k = 0 THEN Linked(es) ELSE LinkBoth(vs, z[k - 1], i, ns[k])]
            OBVIOUS
        <3> HIDE DEF z
        <3>2. Linking(vs, es, i, ns, 0, z)
            BY <3>1 DEF Linking
        <3> QED
            BY <2>2, <3>2
    <2>4. m - 1 \in Nat /\ ~ (m <= m - 1)
        BY <2>2, <2>3
    <2>5. m - 1 \notin Bad
        <3> HIDE DEF Bad
        <3> QED
            BY <2>1, <2>4
    <2>6. PICK f : Linking(vs, es, i, ns, m - 1, f)
        BY <2>4, <2>5
    <2>7. f = [k \in 0 .. m - 1 |-> IF k = 0 THEN Linked(es) ELSE LinkBoth(vs, f[k - 1], i, ns[k])]
        BY <2>6 DEF Linking
    <2> DEFINE h == [k \in 0 .. m |-> IF k = 0 THEN Linked(es) ELSE LinkBoth(vs, f[k - 1], i, ns[k])]
    <2>8. ASSUME NEW k \in 0 .. m - 1 PROVE h[k] = f[k]
        BY <2>2, <2>7
    <2>9. ASSUME NEW k \in 0 .. m, k # 0 PROVE h[k - 1] = f[k - 1]
        <3>1. k - 1 \in 0 .. m - 1
            BY <2>2, <2>9
        <3> HIDE DEF h
        <3> QED
            BY <3>1, <2>8
    <2>10. h = [k \in 0 .. m |-> IF k = 0 THEN Linked(es) ELSE LinkBoth(vs, h[k - 1], i, ns[k])]
        BY <2>9
    <2>11. Linking(vs, es, i, ns, m, h)
        <3> HIDE DEF h
        <3> QED
            BY <2>10 DEF Linking
    <2> QED
        BY <2>2, <2>11
<1> QED
    BY <1>1

(* All of the loop, and the old links that go: with all neighbours among the *)
(* new ones, none does.                                                      *)
LEMMA SetNeighboursSound ==
    ASSUME NEW vs, VectorTable(vs), NEW es, LinksOK(vs, es), NEW l, config \in Configs,
           NEW i \in HeldBy(vs, l), NEW ns \in Seq(HeldBy(vs, l)),
           Few(vs, l) /\ Mutual(vs, es, l) => Neighbors(es, i) \subseteq ToSet(ns)
    PROVE  /\ Sound(vs, es, l, SetNeighbours(vs, es, i, ns))
           /\ Few(vs, l) /\ Mutual(vs, es, l) /\ SetNeighbours(vs, es, i, ns).ok =>
                \A x \in ToSet(ns) \ {i} :
                    {<<i, x>>, <<x, i>>} \subseteq SetNeighbours(vs, es, i, ns).links
<1> DEFINE n == Len(ns)
           F == CHOOSE f : Linking(vs, es, i, ns, n, f)
           gone == {<<i, x>> : x \in Neighbors(es, i) \ ToSet(ns)}
           o == F[n]
           result == [o EXCEPT !.links = @ \ gone]
<1>1. n \in Nat /\ \A k \in 1 .. n : ns[k] \in HeldBy(vs, l)
    OBVIOUS
<1>2. Linking(vs, es, i, ns, n, F)
    BY <1>1, LinkingExists
<1>3. SetNeighbours(vs, es, i, ns) = result
    BY DEF SetNeighbours, Linking
<1> HIDE DEF F
<1>4. \A k \in 0 .. n : F[k] = IF k = 0 THEN Linked(es) ELSE LinkBoth(vs, F[k - 1], i, ns[k])
    BY <1>2 DEF Linking
<1> DEFINE Both(k, f) == \A j \in 1 .. k :
                              ns[j] = i \/ {<<i, ns[j]>>, <<ns[j], i>>} \subseteq f.links
           Fine(k, f) == /\ Sound(vs, es, l, f)
                         /\ Few(vs, l) /\ Mutual(vs, es, l) /\ f.ok => Both(k, f)
           Bad == {k \in 0 .. n : ~Fine(k, F[k])}
<1>5. ASSUME Bad # {} PROVE FALSE
    <2>1. PICK m \in Bad : \A k \in Bad : m <= k
        <3>1. Bad \in SUBSET Nat
            BY <1>1
        <3> HIDE DEF Bad
        <3> QED
            BY <1>5, <3>1, LeastNumber
    <2>2. m \in 0 .. n /\ ~Fine(m, F[m])
        BY <2>1
    <2>3. m # 0
        <3>1. F[0] = Linked(es)
            BY <1>1, <1>4
        <3>2. Sound(vs, es, l, F[0])
            BY <3>1, SoundSelf
        <3>3. Fine(0, F[0])
            BY <3>2
        <3> HIDE DEF Fine
        <3> QED
            BY <2>2, <3>3
    <2>4. m - 1 \in 0 .. n /\ ~ (m <= m - 1) /\ m \in 1 .. n
        BY <1>1, <2>2, <2>3
    <2>5. Fine(m - 1, F[m - 1])
        <3>1. m - 1 \notin Bad
            <4> HIDE DEF Bad
            <4> QED
                BY <2>1, <2>4
        <3> QED
            BY <2>4, <3>1
    <2>6. F[m] = LinkBoth(vs, F[m - 1], i, ns[m])
        BY <1>4, <2>2, <2>3
    <2>7. /\ Sound(vs, es, l, F[m])
          /\ Few(vs, l) /\ Mutual(vs, es, l) /\ F[m].ok =>
                /\ F[m - 1].ok /\ F[m - 1].links \subseteq F[m].links
                /\ ns[m] = i \/ {<<i, ns[m]>>, <<ns[m], i>>} \subseteq F[m].links
        <3>1. Sound(vs, es, l, F[m - 1]) /\ ns[m] \in HeldBy(vs, l)
            BY <1>1, <2>4, <2>5
        <3> HIDE DEF Fine, Bad, Both
        <3>2. /\ Sound(vs, es, l, LinkBoth(vs, F[m - 1], i, ns[m]))
              /\ Few(vs, l) /\ Mutual(vs, es, l) /\ LinkBoth(vs, F[m - 1], i, ns[m]).ok =>
                    /\ F[m - 1].ok /\ F[m - 1].links \subseteq LinkBoth(vs, F[m - 1], i, ns[m]).links
                    /\ ns[m] = i \/ {<<i, ns[m]>>, <<ns[m], i>>}
                                        \subseteq LinkBoth(vs, F[m - 1], i, ns[m]).links
            BY <3>1, LinkBothSound
        <3> QED
            BY <2>6, <3>2
    <2>8. ASSUME Few(vs, l), Mutual(vs, es, l), F[m].ok PROVE Both(m, F[m])
        <3>1. Both(m - 1, F[m - 1])
            BY <2>5, <2>7, <2>8
        <3>2. F[m - 1].links \subseteq F[m].links
            BY <2>7, <2>8
        <3>3. ASSUME NEW j \in 1 .. m
              PROVE  ns[j] = i \/ {<<i, ns[j]>>, <<ns[j], i>>} \subseteq F[m].links
            <4>1. CASE j = m
                BY <2>7, <2>8, <4>1
            <4>2. CASE j # m
                <5>1. j \in 1 .. m - 1
                    BY <2>4, <4>2
                <5> QED
                    BY <3>1, <3>2, <5>1
            <4> QED
                BY <4>1, <4>2
        <3> QED
            BY <3>3
    <2>9. Fine(m, F[m])
        BY <2>7, <2>8
    <2> HIDE DEF Fine
    <2> QED
        BY <2>2, <2>9
<1>6. Sound(vs, es, l, o) /\ (Few(vs, l) /\ Mutual(vs, es, l) /\ o.ok => Both(n, o))
    <2>1. n \in 0 .. n
        BY <1>1
    <2>2. Fine(n, F[n])
        <3> HIDE DEF Fine
        <3> QED
            BY <1>5, <2>1
    <2> QED
        BY <2>2
<1> HIDE DEF o, gone
<1>7. result \in Outcomes /\ result.ok = o.ok /\ result.links = o.links \ gone
    BY <1>6 DEF Sound, Outcomes
<1> HIDE DEF result
<1>8. o.ok => LinksOK(vs, result.links)
    BY <1>6, <1>7 DEF Sound, LinksOK
<1>9. o.ok => Within(vs, es, l, result.links)
    BY <1>6, <1>7 DEF Sound, Within, gone
<1>10. Few(vs, l) /\ Mutual(vs, es, l) => gone = {}
    BY DEF gone
<1>11. o.ok /\ Few(vs, l) /\ Mutual(vs, es, l) =>
          Mutual(vs, result.links, l) /\ es \subseteq result.links /\ result.links = o.links
    <2>1. gone = {} => result.links = o.links
        BY <1>7
    <2> QED
        BY <1>6, <1>10, <2>1 DEF Sound
<1>12. Clean(vs, es) => o.ok /\ Clean(vs, result.links)
    BY <1>6, <1>7 DEF Sound, Clean
<1>13. Sound(vs, es, l, result)
    BY <1>7, <1>8, <1>9, <1>11, <1>12 DEF Sound
<1>14. Few(vs, l) /\ Mutual(vs, es, l) /\ result.ok =>
           \A x \in ToSet(ns) \ {i} : {<<i, x>>, <<x, i>>} \subseteq result.links
    <2>1. \A x \in ToSet(ns) : \E j \in 1 .. n : ns[j] = x
        BY DEF ToSet
    <2> QED
        BY <1>6, <1>7, <1>11, <2>1
<1> QED
    BY <1>3, <1>13, <1>14

(* A neighbour linked again keeps its links, if its label is small.          *)
LEMMA RelinkSound ==
    ASSUME NEW vs, VectorTable(vs), NEW es, NEW l, config \in Configs,
           NEW o, Sound(vs, es, l, o), NEW p \in Points, NEW e \in HeldBy(vs, l),
           NEW o2 \in Relink(vs, p, o, e)
    PROVE  /\ Sound(vs, es, l, o2)
           /\ Few(vs, l) /\ Mutual(vs, es, l) /\ o2.ok => o.ok /\ o.links \subseteq o2.links
<1> DEFINE Broken == \E c \in {e} \cup Neighbors(o.links, e) :
                         c \notin DOMAIN vs \/ Dangles(vs, o.links, c)
           relinked == {SetNeighbours(vs, o.links, e, ns) :
                           ns \in Selections(vs, o.links, p, e)}
<1>1. Relink(vs, p, o, e) = CASE ~o.ok -> {o}
                              [] o.ok /\ Broken -> {Failed}
                              [] OTHER -> relinked
    BY DEF Relink
<1>2. e \in DOMAIN vs
    BY HeldByIn
<1>3. CASE ~o.ok
    <2>1. o2 = o
        BY <1>1, <1>3
    <2> QED
        BY <2>1
<1>4. CASE o.ok /\ Broken
    <2>1. o2 = Failed
        BY <1>1, <1>4
    <2>2. ~Clean(vs, o.links)
        <3> SUFFICES ASSUME Clean(vs, o.links) PROVE ~Broken
            BY <1>4
        <3> SUFFICES ASSUME NEW c \in {e} \cup Neighbors(o.links, e)
                     PROVE  c \in DOMAIN vs /\ ~Dangles(vs, o.links, c)
            OBVIOUS
        <3> QED
            BY <1>2 DEF Clean, Neighbors, Dangles
    <2>3. ~Clean(vs, es)
        BY <2>2 DEF Sound
    <2>4. Failed \in Outcomes /\ ~Failed.ok
        BY LinkedOutcome
    <2> QED
        BY <2>1, <2>3, <2>4 DEF Sound
<1>5. CASE o.ok /\ ~Broken
    <2>1. o2 \in relinked
        BY <1>1, <1>5
    <2>2. PICK ns \in Selections(vs, o.links, p, e) : o2 = SetNeighbours(vs, o.links, e, ns)
        BY <2>1
    <2>3. LinksOK(vs, o.links)
        BY <1>5 DEF Sound
    <2>4. \A c \in {e} \cup Neighbors(o.links, e) : c \in DOMAIN vs /\ ~Dangles(vs, o.links, c)
        BY <1>5
    <2>5. /\ ns \in Seq(HeldBy(vs, l))
          /\ Cardinality(Neighbors(o.links, e)) <= config.m =>
                Neighbors(o.links, e) \subseteq ToSet(ns)
        BY <2>3, <2>4, SelectionsIn
    <2>6. Few(vs, l) /\ Mutual(vs, o.links, l) => Neighbors(o.links, e) \subseteq ToSet(ns)
        BY <2>3, <2>5, Degree
    <2>7. Sound(vs, o.links, l, o2)
        BY <2>2, <2>3, <2>5, <2>6, SetNeighboursSound
    <2>8. Sound(vs, es, l, o2)
        BY <1>5, <2>7, SoundThen
    <2>9. Few(vs, l) /\ Mutual(vs, es, l) /\ o2.ok => o.links \subseteq o2.links
        BY <1>5, <2>7 DEF Sound
    <2> QED
        BY <1>5, <2>8, <2>9
<1> QED
    BY <1>3, <1>4, <1>5

(* The neighbours of a new vector, linked again one after another.           *)
Relinking(vs, es, p, i, ns, n, f) ==
    f = [k \in 0 .. n |->
            IF k = 0 THEN {SetNeighbours(vs, es, i, ns)}
            ELSE UNION {Relink(vs, p, o, ns[k]) : o \in f[k - 1]}]

LEMMA RelinkingExists ==
    ASSUME NEW vs, NEW es, NEW p, NEW i, NEW ns, NEW n \in Nat
    PROVE  \E f : Relinking(vs, es, p, i, ns, n, f)
<1> DEFINE Bad == {m \in Nat : ~ \E f : Relinking(vs, es, p, i, ns, m, f)}
           first == {SetNeighbours(vs, es, i, ns)}
           Then(S, k) == UNION {Relink(vs, p, o, ns[k]) : o \in S}
<1>1. ASSUME Bad # {} PROVE FALSE
    <2>1. PICK m \in Bad : \A k \in Bad : m <= k
        <3>1. Bad \in SUBSET Nat
            OBVIOUS
        <3> HIDE DEF Bad
        <3> QED
            BY <1>1, <3>1, LeastNumber
    <2>2. m \in Nat /\ ~ \E f : Relinking(vs, es, p, i, ns, m, f)
        BY <2>1
    <2>3. m # 0
        <3> DEFINE z == [k \in 0 .. 0 |-> first]
        <3>1. z = [k \in 0 .. 0 |-> IF k = 0 THEN first ELSE Then(z[k - 1], k)]
            <4> HIDE DEF first, Then
            <4> QED
                OBVIOUS
        <3> HIDE DEF z
        <3>2. Relinking(vs, es, p, i, ns, 0, z)
            BY <3>1 DEF Relinking
        <3> QED
            BY <2>2, <3>2
    <2>4. m - 1 \in Nat /\ ~ (m <= m - 1)
        BY <2>2, <2>3
    <2>5. m - 1 \notin Bad
        <3> HIDE DEF Bad
        <3> QED
            BY <2>1, <2>4
    <2>6. PICK f : Relinking(vs, es, p, i, ns, m - 1, f)
        BY <2>4, <2>5
    <2>7. f = [k \in 0 .. m - 1 |-> IF k = 0 THEN first ELSE Then(f[k - 1], k)]
        BY <2>6 DEF Relinking
    <2> DEFINE h == [k \in 0 .. m |-> IF k = 0 THEN first ELSE Then(f[k - 1], k)]
    <2> HIDE DEF first, Then
    <2>8. ASSUME NEW k \in 0 .. m - 1 PROVE h[k] = f[k]
        BY <2>2, <2>7
    <2>9. ASSUME NEW k \in 0 .. m, k # 0 PROVE h[k - 1] = f[k - 1]
        <3>1. k - 1 \in 0 .. m - 1
            BY <2>2, <2>9
        <3> HIDE DEF h
        <3> QED
            BY <3>1, <2>8
    <2>10. h = [k \in 0 .. m |-> IF k = 0 THEN first ELSE Then(h[k - 1], k)]
        BY <2>9
    <2>11. Relinking(vs, es, p, i, ns, m, h)
        <3> HIDE DEF h
        <3> QED
            BY <2>10 DEF Relinking, first, Then
    <2> QED
        BY <2>2, <2>11
<1> QED
    BY <1>1

Untouched(es, i) == \A d \in es : d[1] # i /\ d[2] # i

(* The vector i is linked, both ways, to another of its label.               *)
Attached(vs, es, l, i) ==
    \E x \in HeldBy(vs, l) \ {i} : {<<i, x>>, <<x, i>>} \subseteq es

(* What an insert makes of the links, from the entry point of its label on.  *)
LEMMA LinkOutcomesSound ==
    ASSUME NEW vs, VectorTable(vs), NEW es, LinksOK(vs, es), NEW l, config \in Configs,
           NEW i \in HeldBy(vs, l), Untouched(es, i),
           NEW start \in HeldBy(vs, l), start # i, NEW o \in LinkOutcomes(vs, es, i, start)
    PROVE  /\ Sound(vs, es, l, o)
           /\ Few(vs, l) /\ Mutual(vs, es, l) /\ o.ok => Attached(vs, o.links, l, i)
<1> DEFINE p == vs[i].point
           s == SearchLevel(vs, es, p, start, config.ef_construct)
           ns == SelectForNew(vs, es, p, s.found)
           n == Len(ns)
           F == CHOOSE f : Relinking(vs, es, p, i, ns, n, f)
           Broken == ~s.ok \/ \E c \in s.found : Dangles(vs, es, c)
           H == HeldBy(vs, l) \ {i}
           Small == Few(vs, l) /\ Mutual(vs, es, l)
           Fine(x) == /\ Sound(vs, es, l, x)
                      /\ Small /\ x.ok => {<<i, ns[1]>>, <<ns[1], i>>} \subseteq x.links
<1>1. p \in Points /\ i \in DOMAIN vs /\ config.ef_construct \in Nat \ {0}
    BY HeldByIn, ConfigAssumption DEF VectorTable, VectorRecords
<1>2. LinkOutcomes(vs, es, i, start) = IF Broken THEN {Failed} ELSE F[n]
    BY DEF LinkOutcomes, Relinking
<1>3. Closed(vs, es, H) /\ start \in H /\ Neighbors(es, i) = {}
    <2>1. \A c \in H : Neighbors(es, c) \cap DOMAIN vs \subseteq HeldBy(vs, l)
        BY NeighborsIn
    <2>2. \A c \in H : i \notin Neighbors(es, c)
        BY DEF Untouched, Neighbors
    <2>3. H \subseteq DOMAIN vs
        BY HeldByIn
    <2>4. Neighbors(es, i) = {}
        BY DEF Untouched, Neighbors
    <2> QED
        BY <2>1, <2>2, <2>3, <2>4 DEF Closed
<1>4. Clean(vs, es) => \A c \in H : ~Dangles(vs, es, c)
    BY NeighborsIn
<1>5. s.found \in SUBSET H /\ s.found # {} /\ (Clean(vs, es) => s.ok)
    <2> HIDE DEF H, p
    <2> QED
        BY <1>1, <1>3, <1>4, SearchIn
<1>6. CASE Broken
    <2>1. ~Clean(vs, es)
        BY <1>4, <1>5, <1>6
    <2>2. o = Failed
        BY <1>2, <1>6
    <2>3. Failed \in Outcomes /\ ~Failed.ok
        BY LinkedOutcome
    <2> QED
        BY <2>1, <2>2, <2>3 DEF Sound
<1>7. CASE ~Broken
    <2>1. ns \in Seq(H) /\ ns # << >>
        <3>1. \A c \in s.found : ~Dangles(vs, es, c)
            BY <1>7
        <3> HIDE DEF H, p, s
        <3> QED
            BY <1>1, <1>3, <1>5, <3>1, SelectForNewIn DEF s
    <2>2. n \in Nat /\ (\A k \in 1 .. n : ns[k] \in H) /\ 1 \in 1 .. n
        <3> HIDE DEF ns, H
        <3>1. Len(ns) # 0 /\ Len(ns) \in Nat
            BY <2>1
        <3> QED
            BY <2>1, <3>1
    <2>3. Relinking(vs, es, p, i, ns, n, F)
        <3> HIDE DEF ns, p, n
        <3> QED
            BY <2>2, RelinkingExists
    <2>4. o \in F[n]
        BY <1>2, <1>7
    <2>5. ns \in Seq(HeldBy(vs, l)) /\ ns[1] \in ToSet(ns) \ {i}
        <3> HIDE DEF ns
        <3> QED
            BY <2>1, <2>2 DEF ToSet
    <2> HIDE DEF F, ns
    <2>6. \A k \in 0 .. n : F[k] = IF k = 0 THEN {SetNeighbours(vs, es, i, ns)}
                                 ELSE UNION {Relink(vs, p, x, ns[k]) : x \in F[k - 1]}
        BY <2>3 DEF Relinking
    <2> DEFINE Bad == {k \in 0 .. n : ~ \A x \in F[k] : Fine(x)}
    <2>7. ASSUME Bad # {} PROVE FALSE
        <3>1. PICK m \in Bad : \A k \in Bad : m <= k
            <4>1. Bad \in SUBSET Nat
                BY <2>2
            <4> HIDE DEF Bad
            <4> QED
                BY <2>7, <4>1, LeastNumber
        <3>2. m \in 0 .. n /\ ~ \A x \in F[m] : Fine(x)
            BY <3>1
        <3>3. m # 0
            <4>1. Fine(SetNeighbours(vs, es, i, ns))
                BY <1>3, <2>5, SetNeighboursSound
            <4> HIDE DEF Fine
            <4> QED
                BY <2>6, <3>2, <4>1
        <3>4. m - 1 \in 0 .. n /\ ~ (m <= m - 1) /\ m \in 1 .. n
            BY <2>2, <3>2, <3>3
        <3>5. \A x \in F[m - 1] : Fine(x)
            <4>1. m - 1 \notin Bad
                <5> HIDE DEF Bad
                <5> QED
                    BY <3>1, <3>4
            <4> HIDE DEF Fine
            <4> QED
                BY <3>4, <4>1
        <3>6. F[m] = UNION {Relink(vs, p, x, ns[m]) : x \in F[m - 1]}
            BY <2>6, <3>2, <3>3
        <3>7. ASSUME NEW x \in F[m - 1], NEW x2 \in Relink(vs, p, x, ns[m])
              PROVE  Fine(x2)
            <4>1. Fine(x) /\ ns[m] \in HeldBy(vs, l)
                BY <2>2, <3>4, <3>5
            <4>2. /\ Sound(vs, es, l, x2)
                  /\ Small /\ x2.ok => x.ok /\ x.links \subseteq x2.links
                BY <1>1, <4>1, RelinkSound
            <4> QED
                BY <4>1, <4>2
        <3> HIDE DEF Fine
        <3> QED
            BY <3>2, <3>6, <3>7
    <2>8. n \in 0 .. n
        BY <2>2
    <2>9. Fine(o)
        <3> HIDE DEF Fine
        <3> QED
            BY <2>4, <2>7, <2>8
    <2> QED
        BY <2>2, <2>9 DEF Attached
<1> QED
    BY <1>6, <1>7

-----------------------------------------------------------------------------
(* A vector that is added to the tables.                                     *)

LEMMA OverlayFacts ==
    ASSUME NEW f, NEW i, NEW v
    PROVE  /\ DOMAIN Overlay(f, i, v) = DOMAIN f \cup {i}
           /\ Overlay(f, i, v)[i] = v
           /\ \A j \in DOMAIN f : j # i => Overlay(f, i, v)[j] = f[j]
BY DEF Overlay

LEMMA OverlayTable ==
    ASSUME NEW vs, VectorTable(vs), NEW i \in Nat, i \notin DOMAIN vs,
           NEW v \in VectorRecords, NEW es, LinksOK(vs, es),
           Untouched(es, i),
           NEW new, new = Overlay(vs, i, v)
    PROVE  /\ VectorTable(new)
           /\ LinksOK(new, es)
           /\ Neighbors(es, i) = {}
           /\ Clean(vs, es) => Clean(new, es)
           /\ \A l : Mutual(vs, es, l) => Mutual(new, es, l)
           /\ \A l : LiveIn(vs, l) \subseteq LiveIn(new, l)
           /\ i \in HeldBy(new, v.label) /\ new[i] = v
           /\ DOMAIN new = DOMAIN vs \cup {i}
<1>1. /\ DOMAIN new = DOMAIN vs \cup {i} /\ new[i] = v
      /\ \A j \in DOMAIN vs : new[j] = vs[j]
    BY DEF Overlay
<1>2. new \in [DOMAIN new -> VectorRecords]
    <2>1. new = [j \in DOMAIN new |-> new[j]]
        BY DEF Overlay
    <2>2. \A j \in DOMAIN new : new[j] \in VectorRecords
        BY <1>1 DEF VectorTable
    <2> QED
        BY <2>1, <2>2
<1>3. IsFiniteSet(DOMAIN new) /\ DOMAIN new \subseteq Nat
    BY <1>1, FS_AddElement DEF VectorTable
<1>4. VectorTable(new)
    BY <1>2, <1>3 DEF VectorTable
<1>5. LinksOK(new, es) /\ Neighbors(es, i) = {}
    BY <1>1 DEF LinksOK, Neighbors, Untouched
<1>6. Clean(vs, es) => Clean(new, es)
    BY <1>1 DEF Clean
<1>7. \A l : \A j : j # i => (j \in HeldBy(new, l) <=> j \in HeldBy(vs, l))
    BY <1>1 DEF HeldBy
<1>8. \A l : Mutual(vs, es, l) => Mutual(new, es, l)
    BY <1>1, <1>7 DEF Mutual, Untouched
<1>9. \A l : LiveIn(vs, l) \subseteq LiveIn(new, l)
    BY <1>1 DEF LiveIn, HeldBy
<1>10. i \in HeldBy(new, v.label)
    BY <1>1 DEF HeldBy
<1> QED
    BY <1>1, <1>4, <1>5, <1>6, <1>8, <1>9, <1>10

LEMMA NewRecord ==
    ASSUME NEW label \in Labels, NEW p \in Points
    PROVE  LET v == [label |-> label, point |-> p, deleted |-> FALSE] IN
           v \in VectorRecords /\ v.label = label /\ ~v.deleted
<1> DEFINE no == FALSE
<1>1. no \in BOOLEAN /\ ~no
    OBVIOUS
<1> HIDE DEF no
<1>2. LET v == [label |-> label, point |-> p, deleted |-> no] IN
      v \in VectorRecords /\ v.label = label /\ v.deleted = no
    BY <1>1 DEF VectorRecords
<1> QED
    BY <1>1, <1>2 DEF no

(* Linking vectors of one label does not disturb the links of another.       *)
LEMMA OtherLabels ==
    ASSUME NEW vs, NEW es, LinksOK(vs, es), NEW l, NEW other, other # l,
           NEW es2, Within(vs, es, l, es2), Mutual(vs, es, other)
    PROVE  Mutual(vs, es2, other)
<1> SUFFICES ASSUME NEW d \in es2, d[1] \in HeldBy(vs, other)
             PROVE  d[2] \in DOMAIN vs /\ <<d[2], d[1]>> \in es2
    BY DEF Mutual
<1>1. \A i \in HeldBy(vs, other) : i \notin HeldBy(vs, l) /\ i \in DOMAIN vs /\ vs[i].label = other
    BY DEF HeldBy
<1>2. d \in es
    BY <1>1 DEF Within
<1>3. d[2] \in DOMAIN vs /\ <<d[2], d[1]>> \in es
    BY <1>2 DEF Mutual
<1>4. vs[d[1]].label = vs[d[2]].label
    BY <1>1, <1>2, <1>3 DEF LinksOK
<1>5. d[2] \in HeldBy(vs, other)
    BY <1>1, <1>3, <1>4 DEF HeldBy
<1>6. <<d[2], d[1]>>[1] = d[2]
    OBVIOUS
<1>7. <<d[2], d[1]>> \in es2
    BY <1>1, <1>3, <1>5, <1>6 DEF Within
<1> QED
    BY <1>3, <1>7

LEMMA ConnectedAlone ==
    ASSUME NEW vs, NEW es, NEW l, NEW i, HeldBy(vs, l) \subseteq {i}
    PROVE  Connected(vs, es, l)
BY DEF Connected

LEMMA ConnectedSame ==
    ASSUME NEW vs, NEW es, NEW l, Connected(vs, es, l), NEW vs2, NEW es2,
           HeldBy(vs2, l) = HeldBy(vs, l),
           \A d \in (es \ es2) \cup (es2 \ es) : d[1] \notin HeldBy(vs, l)
    PROVE  Connected(vs2, es2, l)
<1>1. \A c \in HeldBy(vs, l) : Neighbors(es2, c) = Neighbors(es, c)
    BY DEF Neighbors
<1> QED
    BY <1>1 DEF Connected

(* A new vector that is linked both ways to one of the others.               *)
LEMMA ConnectedThen ==
    ASSUME NEW vs, NEW es, NEW l, Connected(vs, es, l), NEW i, i \notin HeldBy(vs, l),
           Untouched(es, i), NEW vs2, HeldBy(vs2, l) = HeldBy(vs, l) \cup {i},
           NEW es2, es \subseteq es2, NEW x \in HeldBy(vs, l),
           {<<i, x>>, <<x, i>>} \subseteq es2
    PROVE  Connected(vs2, es2, l)
<1> SUFFICES ASSUME NEW S \in SUBSET HeldBy(vs2, l), S # {},
                    \A c \in S : Neighbors(es2, c) \subseteq S
             PROVE  S = HeldBy(vs2, l)
    BY DEF Connected
<1> DEFINE T == S \ {i}
<1>1. x \in Neighbors(es2, i) /\ i \in Neighbors(es2, x)
    <2>1. <<i, x>>[1] = i /\ <<i, x>>[2] = x /\ <<x, i>>[1] = x /\ <<x, i>>[2] = i
        OBVIOUS
    <2>2. <<i, x>> \in es2 /\ <<x, i>> \in es2
        OBVIOUS
    <2> QED
        BY <2>1, <2>2 DEF Neighbors
<1>2. T # {}
    <2>1. CASE i \in S
        <3>1. x \in S
            BY <1>1, <2>1
        <3> QED
            BY <3>1
    <2>2. CASE i \notin S
        BY <2>2
    <2> QED
        BY <2>1, <2>2
<1>3. \A c \in T : Neighbors(es, c) \subseteq T
    <2>1. \A c \in T : Neighbors(es, c) \subseteq Neighbors(es2, c)
        BY DEF Neighbors
    <2>2. \A c \in T : i \notin Neighbors(es, c)
        BY DEF Neighbors, Untouched
    <2> QED
        BY <2>1, <2>2
<1>4. T \in SUBSET HeldBy(vs, l)
    OBVIOUS
<1>5. T = HeldBy(vs, l)
    <2> HIDE DEF T
    <2> QED
        BY <1>2, <1>3, <1>4 DEF Connected
<1>6. x \in S /\ i \in S
    BY <1>1, <1>5
<1> QED
    BY <1>5, <1>6

(* Insert and Reinsert: the vector i is new, and no link touches it.         *)
LEMMA PutSafe ==
    ASSUME VectorsInv, NEW label \in Labels, NEW p \in Points,
           NEW i \in Nat, i \notin DOMAIN vectors,
           Untouched(links, i),
           Put(i, label, p), config' = config, severed \subseteq severed',
           label \in DOMAIN entry \/ HeldBy(vectors, label) = {} \/ label \in severed'
    PROVE  /\ VectorTable(vectors') /\ DOMAIN vectors' = DOMAIN vectors \cup {i}
           /\ LinksOK(vectors', links')
           /\ \A d \in links' : \/ d \in links
                                \/ d[1] \in DOMAIN vectors' /\ d[2] \in DOMAIN vectors'
           /\ DOMAIN entry' = DOMAIN entry \cup {label}
           /\ \A l : l # label => HeldBy(vectors', l) = HeldBy(vectors, l)
           /\ \A l \in Labels \ (crowded' \cup severed') : Connected(vectors', links', l)
           /\ EntryAlive' /\ CrowdOK'
           /\ Clean(vectors, links) => Clean(vectors', links')
<1> DEFINE v == [label |-> label, point |-> p, deleted |-> FALSE]
           vs == Overlay(vectors, i, v)
<1>1. v \in VectorRecords /\ v.label = label /\ ~v.deleted
    BY NewRecord
<1> HIDE DEF v
<1>2. config \in Configs /\ VectorTable(vectors) /\ LinksOK(vectors, links)
    BY DEF VectorsInv, VectorsTypeOK
<1>3. /\ DOMAIN vs = DOMAIN vectors \cup {i} /\ vs[i] = v
      /\ VectorTable(vs) /\ LinksOK(vs, links) /\ Neighbors(links, i) = {}
      /\ Clean(vectors, links) => Clean(vs, links)
      /\ \A l : Mutual(vectors, links, l) => Mutual(vs, links, l)
      /\ \A l : LiveIn(vectors, l) \subseteq LiveIn(vs, l)
      /\ i \in HeldBy(vs, label)
    <2>1. /\ VectorTable(vs) /\ LinksOK(vs, links) /\ Neighbors(links, i) = {}
          /\ Clean(vectors, links) => Clean(vs, links)
          /\ \A l : Mutual(vectors, links, l) => Mutual(vs, links, l)
          /\ \A l : LiveIn(vectors, l) \subseteq LiveIn(vs, l)
          /\ i \in HeldBy(vs, v.label) /\ vs[i] = v
          /\ DOMAIN vs = DOMAIN vectors \cup {i}
        <3>1. vs = Overlay(vectors, i, v)
            OBVIOUS
        <3> HIDE DEF vs
        <3> QED
            BY <1>1, <1>2, <3>1, OverlayTable, SMTT(60)
    <2> HIDE DEF vs
    <2> QED
        BY <1>1, <2>1
<1> HIDE DEF vs
<1>4. i \in LiveIn(vs, label)
    BY <1>1, <1>3 DEF LiveIn
<1>5. vectors' = vs /\ crowded' = crowded \cup Crowd(vs)
    BY DEF Put, vs, v
<1>6. \A l \in DOMAIN entry : l \in Labels /\ entry[l] \in LiveIn(vs, l)
    BY <1>3 DEF VectorsInv, VectorsTypeOK, EntryAlive
<1>7. \/ label \notin DOMAIN entry /\ entry' = Overlay(entry, label, i) /\ links' = links
      \/ /\ label \in DOMAIN entry
         /\ \E o \in LinkOutcomes(vs, links, i, entry[label]) : o.ok /\ links' = o.links
         /\ entry' \in {entry, Overlay(entry, label, i)}
    <2>1. label \in DOMAIN entry => entry[label] \in DOMAIN vs
        BY <1>6 DEF LiveIn, HeldBy
    <2>2. IF label \notin DOMAIN entry \/ entry[label] \notin DOMAIN vs
          THEN entry' = Overlay(entry, label, i) /\ links' = links
          ELSE /\ \E o \in LinkOutcomes(vs, links, i, entry[label]) : o.ok /\ links' = o.links
               /\ entry' \in {entry, Overlay(entry, label, i)}
        BY DEF Put, EntryKey, vs, v
    <2> QED
        BY <2>1, <2>2
<1>8. entry' = entry \/ entry' = Overlay(entry, label, i)
    BY <1>7
<1>9. \A l \in DOMAIN entry' : l \in Labels /\ entry'[l] \in LiveIn(vs, l)
    <2>1. CASE entry' = entry
        BY <1>6, <2>1
    <2>2. CASE entry' = Overlay(entry, label, i)
        <3>1. /\ DOMAIN entry' = DOMAIN entry \cup {label} /\ entry'[label] = i
              /\ \A l \in DOMAIN entry : l # label => entry'[l] = entry[l]
            BY <2>2 DEF Overlay
        <3> QED
            BY <1>4, <1>6, <3>1
    <2> QED
        BY <1>8, <2>1, <2>2
<1>10. EntryAlive'
    BY <1>5, <1>9 DEF EntryAlive
<1>11. \A l \in Labels \ crowded : Mutual(vs, links, l)
    BY <1>3 DEF VectorsInv, CrowdOK
<1>12. \A l \in Labels \ crowded' : Few(vs, l) /\ l \notin crowded
    <2> SUFFICES ASSUME NEW l \in Labels \ crowded' PROVE Few(vs, l) /\ l \notin crowded
        OBVIOUS
    <2>1. l \notin crowded /\ l \notin Crowd(vs)
        BY <1>5
    <2>2. ~(Cardinality(HeldBy(vs, l)) > config.m + 1)
        BY <2>1 DEF Crowd
    <2>3. Cardinality(HeldBy(vs, l)) \in Nat /\ config.m \in Nat
        BY <1>2, <1>3, HeldByIn, FS_CardinalityType, ConfigAssumption
    <2> QED
        BY <2>1, <2>2, <2>3 DEF Few
<1>16. /\ HeldBy(vs, label) = HeldBy(vectors, label) \cup {i} /\ i \notin HeldBy(vectors, label)
       /\ \A l : l # label => HeldBy(vs, l) = HeldBy(vectors, l)
       /\ \A l \in Labels \ (crowded \cup severed') : Connected(vectors, links, l)
    <2>1. \A j \in DOMAIN vectors : vs[j] = vectors[j]
        BY DEF vs, Overlay
    <2>2. i \notin HeldBy(vectors, label)
        BY DEF HeldBy
    <2>3. \A l \in Labels \ (crowded \cup severed') : Connected(vectors, links, l)
        BY DEF VectorsInv, ReachOK
    <2>4. \A l : \A j : j \in HeldBy(vs, l) <=> j \in HeldBy(vectors, l) \/ (j = i /\ l = label)
        BY <1>1, <1>3, <2>1 DEF HeldBy
    <2>5. ASSUME NEW l, l # label PROVE HeldBy(vs, l) = HeldBy(vectors, l)
        <3>1. \A j : j \in HeldBy(vs, l) <=> j \in HeldBy(vectors, l)
            BY <2>4, <2>5
        <3> QED
            BY <3>1
    <2>6. HeldBy(vs, label) = HeldBy(vectors, label) \cup {i}
        BY <2>4
    <2> QED
        BY <2>2, <2>3, <2>5, <2>6
<1>13. (Crowd(vectors) \subseteq crowded)'
    BY <1>5 DEF Crowd
<1>14. /\ LinksOK(vs, links')
       /\ \A d \in links' : d \in links \/ (d[1] \in DOMAIN vs /\ d[2] \in DOMAIN vs)
       /\ \A l \in Labels \ crowded' : Mutual(vs, links', l)
       /\ Clean(vectors, links) => Clean(vs, links')
       /\ \A l \in Labels \ (crowded' \cup severed') : Connected(vs, links', l)
    <2>1. CASE label \notin DOMAIN entry /\ links' = links
        <3>1. ASSUME NEW l \in Labels \ (crowded' \cup severed') PROVE Connected(vs, links', l)
            <4>1. CASE l # label
                <5>1. HeldBy(vs, l) = HeldBy(vectors, l) /\ Connected(vectors, links, l)
                    BY <1>12, <1>16, <3>1, <4>1
                <5> QED
                    BY <2>1, <5>1, ConnectedSame
            <4>2. CASE l = label
                <5>1. HeldBy(vs, l) \subseteq {i}
                    BY <1>16, <2>1, <3>1, <4>2
                <5> QED
                    BY <5>1, ConnectedAlone
            <4> QED
                BY <4>1, <4>2
        <3> QED
            BY <1>3, <1>11, <1>12, <2>1, <3>1
    <2>2. ASSUME label \in DOMAIN entry,
                 NEW o \in LinkOutcomes(vs, links, i, entry[label]), o.ok, links' = o.links
          PROVE  /\ LinksOK(vs, links')
                 /\ \A d \in links' : d \in links \/ (d[1] \in DOMAIN vs /\ d[2] \in DOMAIN vs)
                 /\ \A l \in Labels \ crowded' : Mutual(vs, links', l)
                 /\ Clean(vectors, links) => Clean(vs, links')
                 /\ \A l \in Labels \ (crowded' \cup severed') : Connected(vs, links', l)
        <3>1. entry[label] \in HeldBy(vs, label)
            BY <1>6, <2>2 DEF LiveIn
        <3>2. /\ Sound(vs, links, label, o)
              /\ Few(vs, label) /\ Mutual(vs, links, label) => Attached(vs, links', label, i)
            <4>1. entry[label] # i
                BY <2>2 DEF VectorsInv, EntryAlive, LiveIn, HeldBy
            <4> QED
                <5>1. config \in Configs /\ VectorTable(vs) /\ LinksOK(vs, links) /\ i \in HeldBy(vs, label)
                    BY <1>2, <1>3
                <5>2. /\ Sound(vs, links, label, o)
                      /\ Few(vs, label) /\ Mutual(vs, links, label) /\ o.ok =>
                            Attached(vs, o.links, label, i)
                    BY <3>1, <4>1, <5>1, LinkOutcomesSound
                <5> QED
                    BY <2>2, <5>2
        <3>3. LinksOK(vs, links') /\ Within(vs, links, label, links')
            BY <2>2, <3>2 DEF Sound
        <3>4. \A d \in links' : d \in links \/ (d[1] \in DOMAIN vs /\ d[2] \in DOMAIN vs)
            BY <1>3, <3>3, HeldByIn DEF Within
        <3>5. Clean(vectors, links) => Clean(vs, links')
            BY <1>3, <2>2, <3>2 DEF Sound
        <3>6. ASSUME NEW l \in Labels \ crowded' PROVE Mutual(vs, links', l)
            <4>1. Few(vs, l) /\ Mutual(vs, links, l)
                BY <1>11, <1>12
            <4>2. CASE l = label
                BY <2>2, <3>2, <4>1, <4>2 DEF Sound
            <4>3. CASE l # label
                BY <1>3, <3>3, <4>1, <4>3, OtherLabels
            <4> QED
                BY <4>2, <4>3
        <3>7. ASSUME NEW l \in Labels \ (crowded' \cup severed') PROVE Connected(vs, links', l)
            <4>1. l \in Labels \ crowded' /\ Few(vs, l) /\ Mutual(vs, links, l) /\ Connected(vectors, links, l)
                BY <1>11, <1>12, <1>16, <3>7
            <4>2. CASE l # label
                <5>1. HeldBy(vs, l) = HeldBy(vectors, l)
                    BY <1>16, <4>2
                <5>2. \A j \in HeldBy(vs, l) : j \notin HeldBy(vs, label)
                    BY <4>2 DEF HeldBy
                <5>3. \A d \in (links \ links') \cup (links' \ links) : d[1] \notin HeldBy(vectors, l)
                    BY <3>3, <5>1, <5>2 DEF Within
                <5> QED
                    BY <4>1, <5>1, <5>3, ConnectedSame
            <4>3. CASE l = label
                <5>1. HeldBy(vs, l) = HeldBy(vectors, l) \cup {i} /\ i \notin HeldBy(vectors, l)
                    BY <1>16, <4>3
                <5>2. PICK x \in HeldBy(vs, l) \ {i} : {<<i, x>>, <<x, i>>} \subseteq links'
                    BY <3>2, <4>1, <4>3 DEF Attached
                <5>3. x \in HeldBy(vectors, l)
                    BY <5>1, <5>2
                <5>4. links \subseteq links'
                    BY <2>2, <3>2, <4>1, <4>3 DEF Sound
                <5> QED
                    BY <4>1, <5>1, <5>2, <5>3, <5>4, ConnectedThen
            <4> QED
                BY <4>2, <4>3
        <3> QED
            BY <3>3, <3>4, <3>5, <3>6, <3>7
    <2> QED
        BY <1>7, <2>1, <2>2
<1>15. CrowdOK'
    BY <1>5, <1>13, <1>14 DEF CrowdOK
<1>17. DOMAIN entry' = DOMAIN entry \cup {label}
    BY <1>7 DEF Overlay
<1> QED
    BY <1>3, <1>5, <1>10, <1>14, <1>15, <1>16, <1>17

-----------------------------------------------------------------------------
(* The invariant holds at first and after every operation.                   *)

LEMMA EmptyTable ==
    ASSUME config \in Configs
    PROVE  /\ VectorTable(None) /\ DOMAIN None = {}
           /\ Crowd(None) = {}
           /\ \A l : HeldBy(None, l) = {} /\ Mutual(None, {}, l) /\ Connected(None, {}, l)
           /\ LinksOK(None, {})
<1>1. DOMAIN None = {}
    BY DEF None
<1>2. VectorTable(None)
    <2>1. None \in [{} -> VectorRecords]
        BY DEF None
    <2> QED
        BY <1>1, <2>1, FS_EmptySet DEF VectorTable
<1>3. \A l : HeldBy(None, l) = {}
    BY <1>1 DEF HeldBy
<1>4. Crowd(None) = {}
    <2>1. config.m \in Nat /\ Cardinality({}) = 0
        BY ConfigAssumption, FS_EmptySet
    <2> QED
        BY <1>3, <2>1 DEF Crowd
<1> QED
    BY <1>1, <1>2, <1>3, <1>4 DEF Mutual, LinksOK, Connected

LEMMA VectorsInvInit == VectorsInit => VectorsInv
<1> SUFFICES ASSUME VectorsInit PROVE VectorsInv
    OBVIOUS
<1>1. /\ config \in Configs /\ vectors = None /\ links = {} /\ entry = None
      /\ next_id = 1 /\ pending = {} /\ saved = None /\ crowded = {}
    BY DEF VectorsInit
<1>2. /\ VectorTable(None) /\ DOMAIN None = {} /\ Crowd(None) = {}
      /\ \A l : Mutual(None, {}, l) /\ Connected(None, {}, l)
      /\ LinksOK(None, {})
    BY <1>1, EmptyTable
<1>3. VectorsTypeOK
    BY <1>1, <1>2 DEF VectorsTypeOK
<1>4. RebuildOK /\ EntryAlive /\ CrowdOK /\ ReachOK /\ LinksOK(vectors, links)
    BY <1>1, <1>2 DEF RebuildOK, EntryAlive, CrowdOK, ReachOK
<1> QED
    BY <1>3, <1>4 DEF VectorsInv

(* The vector that a rebuild inserts next.                                   *)
LEMMA FirstPending ==
    ASSUME VectorsInv, pending # {}
    PROVE  LET i == Min(pending) IN
           /\ i \in pending /\ i \in Nat /\ i \notin DOMAIN vectors /\ i < next_id
           /\ saved[i] \in VectorRecords /\ ~saved[i].deleted
           /\ Untouched(links, i)
<1> DEFINE i == Min(pending)
<1>1. /\ pending \subseteq DOMAIN saved /\ VectorTable(saved)
      /\ pending \cap DOMAIN vectors = {} /\ Clean(vectors, links)
      /\ \A j \in pending : ~saved[j].deleted
      /\ \A j \in DOMAIN saved : j < next_id
    BY DEF VectorsInv, VectorsTypeOK, RebuildOK
<1>2. pending \in SUBSET Nat
    BY <1>1 DEF VectorTable
<1>3. \E n \in pending : \A m \in pending : n <= m
    BY <1>2, LeastNumber
<1>4. i \in pending
    BY <1>3 DEF Min
<1> HIDE DEF i
<1>5. Untouched(links, i)
    BY <1>1, <1>4 DEF Untouched, Clean
<1> QED
    BY <1>1, <1>2, <1>4, <1>5 DEF VectorTable, i

LEMMA InsertInv == VectorsInv /\ Insert => VectorsInv'
<1> SUFFICES ASSUME VectorsInv, Insert PROVE VectorsInv'
    OBVIOUS
<1>1. /\ VectorsTypeOK /\ LinksOK(vectors, links) /\ pending = {}
    BY DEF VectorsInv, Insert, Idle
<1> DEFINE Cut(l) == IF EntryKey(l) \notin DOMAIN entry /\ HeldBy(vectors, l) # {}
                     THEN severed \cup {l} ELSE severed
<1>2. PICK label \in Labels :
          \E p \in PointsOf[label] : Put(next_id, label, p) /\ severed' = Cut(label)
    BY DEF Insert
<1>3. PICK p \in PointsOf[label] : Put(next_id, label, p) /\ severed' = Cut(label)
    BY <1>2
<1>13. /\ severed \subseteq severed'
       /\ label \in DOMAIN entry \/ HeldBy(vectors, label) = {} \/ label \in severed'
    BY <1>3 DEF EntryKey
<1>4. /\ next_id' = next_id + 1 /\ config' = config /\ pending' = pending /\ saved' = saved
    BY DEF Insert
<1>5. p \in Points
    BY <1>3 DEF Points
<1>6. next_id \in Nat /\ next_id \notin DOMAIN vectors /\ Untouched(links, next_id)
    <2>1. next_id \in Nat /\ \A i \in Nat : i < next_id => i # next_id
        BY <1>1 DEF VectorsTypeOK
    <2>2. next_id \notin DOMAIN vectors
        BY <1>1, <2>1 DEF VectorsTypeOK, VectorTable
    <2>3. \A d \in links : d[1] \in Nat /\ d[2] \in Nat
        BY <1>1 DEF LinksOK
    <2>4. Untouched(links, next_id)
        BY <1>1, <2>1, <2>3 DEF Untouched, VectorsTypeOK
    <2> QED
        BY <2>1, <2>2, <2>4
<1>7. /\ VectorTable(vectors') /\ DOMAIN vectors' = DOMAIN vectors \cup {next_id}
      /\ LinksOK(vectors', links')
      /\ \A d \in links' : d \in links \/ (d[1] \in DOMAIN vectors' /\ d[2] \in DOMAIN vectors')
      /\ DOMAIN entry' = DOMAIN entry \cup {label}
      /\ \A l \in Labels \ (crowded' \cup severed') : Connected(vectors', links', l)
      /\ EntryAlive' /\ CrowdOK'
    BY <1>3, <1>4, <1>5, <1>6, <1>13, PutSafe
<1>8. \A i \in DOMAIN vectors' : i < next_id'
    BY <1>1, <1>4, <1>7 DEF VectorsTypeOK, VectorTable
<1>9. \A d \in links' : d[1] < next_id' /\ d[2] < next_id'
    <2> SUFFICES ASSUME NEW d \in links' PROVE d[1] < next_id' /\ d[2] < next_id'
        OBVIOUS
    <2>1. d[1] \in Nat /\ d[2] \in Nat
        BY <1>7 DEF LinksOK
    <2>2. CASE d \in links
        BY <1>1, <1>4, <2>1, <2>2 DEF VectorsTypeOK
    <2>3. CASE d[1] \in DOMAIN vectors' /\ d[2] \in DOMAIN vectors'
        BY <1>8, <2>3
    <2> QED
        BY <1>7, <2>2, <2>3
<1>10. \A i \in DOMAIN saved : i < next_id'
    <2>1. \A i \in DOMAIN saved : i \in Nat /\ i < next_id
        BY <1>1 DEF VectorsTypeOK, VectorTable
    <2> QED
        BY <1>4, <1>6, <2>1
<1>11. VectorsTypeOK'
    BY <1>1, <1>4, <1>6, <1>7, <1>8, <1>9, <1>10 DEF VectorsTypeOK
<1>12. RebuildOK'
    BY <1>1, <1>4 DEF RebuildOK
<1>14. ReachOK'
    BY <1>1, <1>4, <1>7 DEF ReachOK
<1> QED
    BY <1>7, <1>11, <1>12, <1>14 DEF VectorsInv

LEMMA ReinsertInv == VectorsInv /\ Reinsert => VectorsInv'
<1> SUFFICES ASSUME VectorsInv, Reinsert PROVE VectorsInv'
    OBVIOUS
<1> DEFINE i == Min(pending)
           label == saved[i].label
           p == saved[i].point
<1>1. /\ VectorsTypeOK /\ RebuildOK /\ pending # {} /\ Clean(vectors, links)
    BY DEF VectorsInv, RebuildOK, Reinsert, Idle
<1>2. /\ Put(i, label, p) /\ pending' = pending \ {i}
      /\ saved' = IF pending = {i} THEN None ELSE saved
      /\ config' = config /\ next_id' = next_id /\ severed' = severed
    BY DEF Reinsert
<1>3. /\ i \in pending /\ i \in Nat /\ i \notin DOMAIN vectors /\ i < next_id
      /\ saved[i] \in VectorRecords /\ Untouched(links, i)
    BY <1>1, FirstPending
<1>4. label \in Labels /\ p \in Points
    BY <1>3 DEF VectorRecords
<1> HIDE DEF i, label, p
<1>12. /\ \A l : HeldBy(vectors, l) # {} => l \in DOMAIN entry
       /\ severed \subseteq severed'
       /\ label \in DOMAIN entry \/ HeldBy(vectors, label) = {} \/ label \in severed'
    BY <1>1, <1>2 DEF VectorsInv, ReachOK
<1>5. /\ VectorTable(vectors') /\ DOMAIN vectors' = DOMAIN vectors \cup {i}
      /\ LinksOK(vectors', links')
      /\ \A d \in links' : d \in links \/ (d[1] \in DOMAIN vectors' /\ d[2] \in DOMAIN vectors')
      /\ DOMAIN entry' = DOMAIN entry \cup {label}
      /\ \A l : l # label => HeldBy(vectors', l) = HeldBy(vectors, l)
      /\ \A l \in Labels \ (crowded' \cup severed') : Connected(vectors', links', l)
      /\ EntryAlive' /\ CrowdOK'
      /\ Clean(vectors', links')
    BY <1>1, <1>2, <1>3, <1>4, <1>12, PutSafe
<1>6. \A j \in DOMAIN vectors' : j < next_id'
    BY <1>1, <1>2, <1>3, <1>5 DEF VectorsTypeOK
<1>7. \A d \in links' : d[1] < next_id' /\ d[2] < next_id'
    BY <1>5, <1>6 DEF Clean
<1>8. VectorTable(None) /\ DOMAIN None = {}
    BY <1>1, EmptyTable DEF VectorsTypeOK
<1>9. /\ pending' \subseteq DOMAIN saved' /\ VectorTable(saved')
      /\ \A j \in DOMAIN saved' : j < next_id'
      /\ \A j \in pending' : ~saved'[j].deleted
    <2>1. CASE pending = {i}
        BY <1>2, <1>8, <2>1
    <2>2. CASE pending # {i}
        BY <1>1, <1>2, <2>2 DEF VectorsTypeOK, RebuildOK
    <2> QED
        BY <2>1, <2>2
<1>10. VectorsTypeOK'
    BY <1>1, <1>2, <1>4, <1>5, <1>6, <1>7, <1>9 DEF VectorsTypeOK
<1>11. RebuildOK'
    BY <1>1, <1>2, <1>5, <1>9 DEF RebuildOK
<1>13. \A l : HeldBy(vectors', l) # {} => l \in DOMAIN entry'
    BY <1>5, <1>12
<1>14. ReachOK'
    BY <1>5, <1>13 DEF ReachOK
<1> QED
    BY <1>5, <1>10, <1>11, <1>14 DEF VectorsInv

LEMMA RebuildStartInv == VectorsInv /\ RebuildStart => VectorsInv'
<1> SUFFICES ASSUME VectorsInv, RebuildStart PROVE VectorsInv'
    OBVIOUS
<1>1. /\ pending' = Live(vectors)
      /\ saved' = IF Live(vectors) = {} THEN None ELSE vectors
      /\ vectors' = None /\ links' = {} /\ entry' = None /\ crowded' = {}
      /\ config' = config /\ next_id' = next_id
    BY DEF RebuildStart
<1>2. VectorsTypeOK
    BY DEF VectorsInv
<1>3. /\ VectorTable(None) /\ DOMAIN None = {} /\ Crowd(None) = {}
      /\ \A l : HeldBy(None, l) = {} /\ Mutual(None, {}, l) /\ Connected(None, {}, l)
      /\ LinksOK(None, {})
    BY <1>2, EmptyTable DEF VectorsTypeOK
<1>4. /\ pending' \subseteq DOMAIN saved' /\ VectorTable(saved')
      /\ \A j \in DOMAIN saved' : j < next_id
      /\ \A j \in pending' : ~saved'[j].deleted
    BY <1>1, <1>2, <1>3 DEF VectorsTypeOK, Live
<1>5. VectorsTypeOK'
    BY <1>1, <1>2, <1>3, <1>4 DEF VectorsTypeOK
<1>6. RebuildOK' /\ EntryAlive' /\ LinksOK(vectors', links')
    BY <1>1, <1>3, <1>4 DEF RebuildOK, EntryAlive, Clean
<1>7. CrowdOK'
    <2>1. Crowd(vectors)' = {}
        BY <1>1, <1>3 DEF Crowd
    <2>2. \A l : Mutual(vectors', links', l)
        BY <1>1, <1>3
    <2> QED
        BY <2>1, <2>2 DEF CrowdOK
<1>8. ReachOK'
    BY <1>1, <1>3 DEF ReachOK
<1> QED
    BY <1>5, <1>6, <1>7, <1>8 DEF VectorsInv

LEMMA SoftDeleteInv == VectorsInv /\ SoftDelete => VectorsInv'
<1> SUFFICES ASSUME VectorsInv, SoftDelete PROVE VectorsInv'
    OBVIOUS
<1>1. /\ VectorsTypeOK /\ LinksOK(vectors, links) /\ EntryAlive /\ CrowdOK
      /\ VectorTable(vectors)
    BY DEF VectorsInv, VectorsTypeOK
<1>2. PICK i \in Live(vectors) :
          /\ vectors' = [vectors EXCEPT ![i].deleted = TRUE]
          /\ entry' = EntryAfter(EntryKey(vectors[i].label), i)
    BY DEF SoftDelete
<1>3. /\ config' = config /\ links' = links /\ next_id' = next_id /\ pending = {}
      /\ pending' = pending /\ saved' = saved /\ crowded' = crowded
      /\ severed' = severed
    BY DEF SoftDelete, Idle
<1> DEFINE label == vectors[i].label
<1>4. i \in DOMAIN vectors /\ i \in HeldBy(vectors, label) /\ vectors[i] \in VectorRecords
    BY <1>1 DEF Live, HeldBy, VectorTable
<1>5. /\ DOMAIN vectors' = DOMAIN vectors
      /\ \A j \in DOMAIN vectors :
            /\ vectors'[j].label = vectors[j].label /\ vectors'[j] \in VectorRecords
            /\ j # i => vectors'[j] = vectors[j]
    <2> DEFINE yes == TRUE
    <2>1. yes \in BOOLEAN /\ vectors' = [vectors EXCEPT ![i].deleted = yes]
        BY <1>2
    <2> HIDE DEF yes
    <2>2. /\ vectors'[i] = [vectors[i] EXCEPT !.deleted = yes]
          /\ DOMAIN vectors' = DOMAIN vectors
          /\ \A j \in DOMAIN vectors : j # i => vectors'[j] = vectors[j]
        BY <1>4, <2>1
    <2>3. vectors'[i].label = vectors[i].label /\ vectors'[i] \in VectorRecords
        BY <1>4, <2>1, <2>2 DEF VectorRecords
    <2>4. \A j \in DOMAIN vectors : vectors[j] \in VectorRecords
        BY <1>1 DEF VectorTable
    <2> QED
        BY <2>2, <2>3, <2>4
<1>6. VectorTable(vectors')
    <2>1. vectors' = [j \in DOMAIN vectors' |-> vectors'[j]]
        BY <1>2, <1>5
    <2>2. vectors' \in [DOMAIN vectors' -> VectorRecords]
        BY <1>5, <2>1
    <2> QED
        BY <1>1, <1>5, <2>2 DEF VectorTable
<1>7. \A l : HeldBy(vectors', l) = HeldBy(vectors, l)
    BY <1>5 DEF HeldBy
<1>8. LinksOK(vectors', links')
    BY <1>1, <1>3, <1>5 DEF LinksOK
<1>9. CrowdOK'
    <2>1. Crowd(vectors)' = Crowd(vectors)
        BY <1>3, <1>7 DEF Crowd
    <2>2. \A l : Mutual(vectors, links, l) => Mutual(vectors', links', l)
        BY <1>3, <1>5, <1>7 DEF Mutual
    <2> QED
        BY <1>1, <1>3, <2>1, <2>2 DEF CrowdOK
<1>10. \A l : \A j \in LiveIn(vectors, l) : j # i => j \in LiveIn(vectors', l)
    BY <1>5, <1>7 DEF LiveIn, HeldBy
<1>11. \A l \in DOMAIN entry : l \in Labels /\ entry[l] \in LiveIn(vectors, l)
    BY <1>1 DEF EntryAlive, VectorsTypeOK
<1>12. \A l \in DOMAIN entry : entry[l] = i => l = label
    BY <1>4, <1>11 DEF LiveIn, HeldBy
<1>13. \A l \in DOMAIN entry' : l \in Labels /\ entry'[l] \in LiveIn(vectors', l)
    <2> DEFINE heirs == (Neighbors(links, i) \cap Live(vectors)) \ {i}
    <2>1. entry' = CASE label \notin DOMAIN entry -> entry
                     [] label \in DOMAIN entry /\ entry[label] # i -> entry
                     [] OTHER -> IF heirs = {} THEN Without(entry, {label})
                                 ELSE Overlay(entry, label, Min(heirs))
        BY <1>2 DEF EntryAfter, EntryKey
    <2>2. CASE label \notin DOMAIN entry \/ entry[label] # i
        <3>1. entry' = entry
            BY <2>1, <2>2
        <3>2. \A l \in DOMAIN entry : entry[l] # i
            BY <1>12, <2>2
        <3> QED
            BY <1>10, <1>11, <3>1, <3>2
    <2>3. CASE label \in DOMAIN entry /\ entry[label] = i /\ heirs = {}
        <3>1. entry' = Without(entry, {label})
            BY <2>1, <2>3
        <3>2. \A l \in DOMAIN entry' : l \in DOMAIN entry /\ l # label /\ entry'[l] = entry[l]
            BY <3>1 DEF Without
        <3> QED
            BY <1>10, <1>11, <1>12, <3>2
    <2>4. CASE label \in DOMAIN entry /\ entry[label] = i /\ heirs # {}
        <3>1. entry' = Overlay(entry, label, Min(heirs))
            BY <2>1, <2>4
        <3>2. heirs \in SUBSET Nat
            BY <1>1 DEF Live, VectorTable
        <3>3. \E n \in heirs : \A m \in heirs : n <= m
            BY <2>4, <3>2, LeastNumber
        <3>4. Min(heirs) \in heirs
            BY <3>3 DEF Min
        <3>5. Min(heirs) \in LiveIn(vectors, label) /\ Min(heirs) # i
            <4>1. Neighbors(links, i) \cap DOMAIN vectors \subseteq HeldBy(vectors, label)
                BY <1>1, <1>4, NeighborsIn
            <4> QED
                BY <3>4, <4>1 DEF Live, LiveIn
        <3>6. /\ DOMAIN entry' = DOMAIN entry /\ entry'[label] = Min(heirs)
              /\ \A l \in DOMAIN entry : l # label => entry'[l] = entry[l]
            BY <2>4, <3>1 DEF Overlay
        <3> QED
            BY <1>10, <1>11, <1>12, <3>5, <3>6
    <2> QED
        BY <2>2, <2>3, <2>4
<1>14. EntryAlive'
    BY <1>13 DEF EntryAlive
<1>15. VectorsTypeOK'
    BY <1>1, <1>3, <1>5, <1>6, <1>13 DEF VectorsTypeOK
<1>16. RebuildOK'
    BY <1>3 DEF RebuildOK
<1>17. ReachOK'
    <2>1. \A l : Connected(vectors, links, l) => Connected(vectors', links', l)
        BY <1>3, <1>7 DEF Connected
    <2> QED
        BY <1>3, <2>1 DEF VectorsInv, ReachOK
<1> QED
    BY <1>8, <1>9, <1>14, <1>15, <1>16, <1>17 DEF VectorsInv

LEMMA HardDeleteInv == VectorsInv /\ HardDelete => VectorsInv'
<1> SUFFICES ASSUME VectorsInv, HardDelete PROVE VectorsInv'
    OBVIOUS
<1>1. /\ VectorsTypeOK /\ LinksOK(vectors, links) /\ EntryAlive /\ CrowdOK
      /\ VectorTable(vectors)
    BY DEF VectorsInv, VectorsTypeOK
<1>2. PICK i \in DOMAIN vectors :
          /\ vectors' = Without(vectors, {i})
          /\ links' = links \ EdgesOf(links, i)
          /\ entry' = EntryWithout(i, EntryKey(vectors[i].label))
          /\ severed' = severed \cup {vectors[i].label}
    BY DEF HardDelete
<1>3. /\ config' = config /\ next_id' = next_id /\ pending = {}
      /\ pending' = pending /\ saved' = saved /\ crowded' = crowded
    BY DEF HardDelete, Idle
<1> DEFINE label == vectors[i].label
<1>4. /\ DOMAIN vectors' = DOMAIN vectors \ {i}
      /\ \A j \in DOMAIN vectors' : vectors'[j] = vectors[j]
    BY <1>2 DEF Without
<1>5. VectorTable(vectors')
    <2>1. vectors' = [j \in DOMAIN vectors' |-> vectors'[j]]
        BY <1>2 DEF Without
    <2>2. \A j \in DOMAIN vectors' : vectors'[j] \in VectorRecords
        BY <1>1, <1>4 DEF VectorTable
    <2>3. vectors' \in [DOMAIN vectors' -> VectorRecords]
        BY <2>1, <2>2
    <2>4. IsFiniteSet(DOMAIN vectors')
        BY <1>1, <1>4, FS_RemoveElement DEF VectorTable
    <2> QED
        BY <1>1, <1>4, <2>3, <2>4 DEF VectorTable
<1>6. \A l : HeldBy(vectors', l) = HeldBy(vectors, l) \ {i}
    BY <1>4 DEF HeldBy
<1>7. links' \subseteq links /\ LinksOK(vectors', links')
    BY <1>1, <1>2, <1>4 DEF LinksOK
<1>8. Crowd(vectors)' \subseteq crowded'
    <2> SUFFICES ASSUME NEW l \in Crowd(vectors)' PROVE l \in Crowd(vectors)
        BY <1>1, <1>3 DEF CrowdOK
    <2>1. l \in Labels /\ Cardinality(HeldBy(vectors', l)) > config.m + 1
        BY <1>3 DEF Crowd
    <2>2. IsFiniteSet(HeldBy(vectors, l))
        BY <1>1, HeldByIn
    <2>3. HeldBy(vectors', l) \in SUBSET HeldBy(vectors, l)
        BY <1>6
    <2>4. /\ Cardinality(HeldBy(vectors', l)) <= Cardinality(HeldBy(vectors, l))
          /\ Cardinality(HeldBy(vectors', l)) \in Nat /\ Cardinality(HeldBy(vectors, l)) \in Nat
        BY <2>2, <2>3, FS_Subset, FS_CardinalityType
    <2>5. config.m \in Nat
        BY <1>1, ConfigAssumption DEF VectorsTypeOK
    <2> QED
        BY <2>1, <2>4, <2>5 DEF Crowd
<1>9. \A d \in links : d \in EdgesOf(links, i) <=> d[1] = i \/ (d[2] = i /\ <<i, d[1]>> \in links)
    <2> SUFFICES ASSUME NEW d \in links
                 PROVE  d \in EdgesOf(links, i) <=> d[1] = i \/ (d[2] = i /\ <<i, d[1]>> \in links)
        OBVIOUS
    <2>1. d = <<d[1], d[2]>>
        BY <1>1 DEF LinksOK
    <2>2. \A c \in links : c = <<c[1], c[2]>>
        BY <1>1 DEF LinksOK
    <2> QED
        BY <2>1, <2>2 DEF EdgesOf
<1>10. ASSUME NEW l \in Labels \ crowded' PROVE Mutual(vectors', links', l)
    <2>1. Mutual(vectors, links, l)
        BY <1>1, <1>3, <1>10 DEF CrowdOK
    <2> SUFFICES ASSUME NEW d \in links', d[1] \in HeldBy(vectors', l)
                 PROVE  d[2] \in DOMAIN vectors' /\ <<d[2], d[1]>> \in links'
        BY DEF Mutual
    <2>2. d \in links /\ d[1] # i /\ d[1] \in HeldBy(vectors, l)
        BY <1>6, <1>7
    <2>3. d[2] \in DOMAIN vectors /\ <<d[2], d[1]>> \in links
        BY <2>1, <2>2 DEF Mutual
    <2>4. d[2] # i
        BY <1>2, <1>9, <2>2, <2>3
    <2>5. <<d[2], d[1]>> \notin EdgesOf(links, i)
        <3>1. <<d[2], d[1]>>[1] = d[2] /\ <<d[2], d[1]>>[2] = d[1]
            OBVIOUS
        <3> QED
            BY <1>9, <2>2, <2>3, <2>4, <3>1
    <2> QED
        BY <1>2, <1>4, <2>3, <2>4, <2>5
<1>11. CrowdOK'
    BY <1>8, <1>10 DEF CrowdOK
<1>12. \A l \in DOMAIN entry : l \in Labels /\ entry[l] \in LiveIn(vectors, l)
    BY <1>1 DEF EntryAlive, VectorsTypeOK
<1>13. \A l \in DOMAIN entry : entry[l] = i => l = label
    BY <1>12 DEF LiveIn, HeldBy
<1>14. \A l \in DOMAIN entry' : l \in DOMAIN entry /\ entry'[l] = entry[l] /\ entry'[l] # i
    <2>1. entry' = IF label \in DOMAIN entry /\ entry[label] = i
                   THEN Without(entry, {label}) ELSE entry
        BY <1>2 DEF EntryWithout, EntryKey
    <2>2. CASE label \in DOMAIN entry /\ entry[label] = i
        BY <1>13, <2>1, <2>2 DEF Without
    <2>3. CASE ~(label \in DOMAIN entry /\ entry[label] = i)
        BY <1>13, <2>1, <2>3
    <2> QED
        BY <2>2, <2>3
<1>15. \A l : \A j \in LiveIn(vectors, l) : j # i => j \in LiveIn(vectors', l)
    BY <1>4, <1>6 DEF LiveIn, HeldBy
<1>16. EntryAlive' /\ DOMAIN entry' \subseteq Labels
    BY <1>12, <1>14, <1>15 DEF EntryAlive
<1>17. VectorsTypeOK'
    BY <1>1, <1>3, <1>4, <1>5, <1>7, <1>16 DEF VectorsTypeOK
<1>18. RebuildOK'
    BY <1>3 DEF RebuildOK
<1>19. ASSUME NEW l \in Labels \ (crowded' \cup severed')
       PROVE  Connected(vectors', links', l)
    <2>1. l # label /\ l \in Labels \ (crowded \cup severed)
        BY <1>2, <1>3, <1>19
    <2>2. HeldBy(vectors', l) = HeldBy(vectors, l)
        BY <1>6, <2>1 DEF HeldBy
    <2>3. \A d \in links : d[1] \in HeldBy(vectors, l) => d \in links'
        <3> SUFFICES ASSUME NEW d \in links, d[1] \in HeldBy(vectors, l)
                     PROVE  d \notin EdgesOf(links, i)
            BY <1>2
        <3>1. d[1] \in DOMAIN vectors /\ vectors[d[1]].label = l
            BY DEF HeldBy
        <3>2. d[1] # i /\ d[2] # i
            BY <1>1, <2>1, <3>1 DEF LinksOK
        <3> QED
            BY <1>9, <3>2
    <2>4. \A d \in (links \ links') \cup (links' \ links) : d[1] \notin HeldBy(vectors, l)
        BY <1>7, <2>3
    <2>5. Connected(vectors, links, l)
        BY <2>1 DEF VectorsInv, ReachOK
    <2> QED
        BY <2>2, <2>4, <2>5, ConnectedSame
<1>20. ReachOK'
    BY <1>3, <1>19 DEF ReachOK
<1> QED
    BY <1>7, <1>11, <1>16, <1>17, <1>18, <1>20 DEF VectorsInv

LEMMA VectorsInvNext == VectorsInv /\ [VectorsNext]_vectorsVars => VectorsInv'
<1> SUFFICES ASSUME VectorsInv, [VectorsNext]_vectorsVars PROVE VectorsInv'
    OBVIOUS
<1>1. CASE Insert
    BY <1>1, InsertInv
<1>2. CASE SoftDelete
    BY <1>2, SoftDeleteInv
<1>3. CASE HardDelete
    BY <1>3, HardDeleteInv
<1>4. CASE RebuildStart
    BY <1>4, RebuildStartInv
<1>5. CASE Reinsert
    BY <1>5, ReinsertInv
<1>6. CASE UNCHANGED vectorsVars
    BY <1>6 DEF vectorsVars, VectorsInv, VectorsTypeOK, RebuildOK, EntryAlive, CrowdOK,
                ReachOK, Crowd, LiveIn
<1> QED
    BY <1>1, <1>2, <1>3, <1>4, <1>5, <1>6 DEF VectorsNext

(* The invariant the next theorems rest on: the tables are well formed, no   *)
(* link joins two labels, a label's links have their reverses until it is    *)
(* crowded, and a rebuild meets no link that leads nowhere.                  *)
THEOREM VectorsInvariant == VectorsSpec => []VectorsInv
<1> QED
    BY VectorsInvInit, VectorsInvNext, PTL DEF VectorsSpec

(* Whatever is inserted, deleted in either way and rebuilt, a search of a    *)
(* label starts from a live vector of it: delete hands the record over only  *)
(* along a link, and links join vectors of one label.                        *)
THEOREM EntriesAlive == VectorsSpec => []EntryAlive
<1>1. VectorsInv => EntryAlive
    BY DEF VectorsInv
<1> QED
    BY <1>1, VectorsInvariant, PTL

(* For any number of vectors, m and distances: while a label has not held    *)
(* more than m + 1 vectors no pruning, no relinking and no delete leaves a   *)
(* link of it without its reverse or without its vector.                     *)
THEOREM LinksHaveReverses == VectorsSpec => []SymmetricWhileSmall
<1>1. VectorsInv => SymmetricWhileSmall
    BY DEF VectorsInv, CrowdOK, SymmetricWhileSmall, Mutual
<1> QED
    BY <1>1, VectorsInvariant, PTL

(* No insert of a rebuild fails: the searches, the relinking and the pruning *)
(* find the data of every vector they reach, whatever the links had been.    *)
THEOREM RebuildsSucceed == VectorsSpec => []RebuildSucceeds
<1>1. VectorsInv => RebuildSucceeds
    <2> SUFFICES ASSUME VectorsInv, pending # {},
                        saved[Min(pending)].label \in DOMAIN entry,
                        NEW o \in LinkOutcomes(Overlay(vectors, Min(pending), saved[Min(pending)]), links,
                                               Min(pending), entry[saved[Min(pending)].label])
                 PROVE  o.ok
        BY DEF RebuildSucceeds
    <2> DEFINE i == Min(pending)
               v == saved[i]
               vs == Overlay(vectors, i, v)
    <2>1. /\ VectorTable(vectors) /\ config \in Configs /\ LinksOK(vectors, links)
          /\ Clean(vectors, links) /\ EntryAlive
        BY DEF VectorsInv, VectorsTypeOK, RebuildOK
    <2>2. i \in Nat /\ i \notin DOMAIN vectors /\ v \in VectorRecords /\ Untouched(links, i)
        BY FirstPending
    <2>3. o \in LinkOutcomes(vs, links, i, entry[v.label]) /\ v.label \in DOMAIN entry
        OBVIOUS
    <2>4. vs = Overlay(vectors, i, v)
        OBVIOUS
    <2> HIDE DEF i, v, vs
    <2>5. /\ VectorTable(vs) /\ LinksOK(vs, links) /\ Neighbors(links, i) = {}
          /\ Clean(vs, links) /\ i \in HeldBy(vs, v.label)
          /\ \A l : LiveIn(vectors, l) \subseteq LiveIn(vs, l)
        <3>1. /\ VectorTable(vs) /\ LinksOK(vs, links) /\ Neighbors(links, i) = {}
              /\ Clean(vectors, links) => Clean(vs, links)
              /\ \A l : Mutual(vectors, links, l) => Mutual(vs, links, l)
              /\ \A l : LiveIn(vectors, l) \subseteq LiveIn(vs, l)
              /\ i \in HeldBy(vs, v.label) /\ vs[i] = v
              /\ DOMAIN vs = DOMAIN vectors \cup {i}
            BY <2>1, <2>2, <2>4, OverlayTable
        <3> QED
            BY <2>1, <3>1
    <2>6. entry[v.label] \in HeldBy(vs, v.label) /\ entry[v.label] # i
        BY <2>1, <2>2, <2>3, <2>5 DEF EntryAlive, LiveIn, HeldBy
    <2>7. Sound(vs, links, v.label, o)
        BY <2>1, <2>2, <2>3, <2>5, <2>6, LinkOutcomesSound
    <2> QED
        BY <2>5, <2>7 DEF Sound
<1> QED
    BY <1>1, VectorsInvariant, PTL

(* The search results are not limited by ef before m + 1 of them are there.  *)
EfCovers == \A c \in Configs : c.m < c.ef

(* With EfCovers, which the defaults m = 16 and ef = 512 satisfy: as long as *)
(* a label has held no more than m + 1 vectors and none was hard deleted, a  *)
(* search from its entry point finds every live vector of it, and no other,  *)
(* whatever was inserted, soft deleted and rebuilt before.                   *)
THEOREM AllFound ==
    ASSUME EfCovers
    PROVE  VectorsSpec => []AllFoundWhileSmall
<1>1. VectorsInv => AllFoundWhileSmall
    <2> SUFFICES ASSUME VectorsInv, NEW label \in Labels \ (crowded \cup severed),
                        NEW p \in PointsOf[label], label \in DOMAIN entry
                 PROVE  Search(label, p, config.ef).ok /\
                        Search(label, p, config.ef).found = LiveIn(vectors, label)
        BY DEF AllFoundWhileSmall
    <2> DEFINE H == HeldBy(vectors, label)
               s == SearchLevel(vectors, links, p, entry[label], config.ef)
               live == {i \in s.found : ~vectors[i].deleted /\ vectors[i].label = label}
    <2>1. /\ VectorTable(vectors) /\ config \in Configs /\ LinksOK(vectors, links)
          /\ EntryAlive /\ Mutual(vectors, links, label) /\ Connected(vectors, links, label)
          /\ label \notin Crowd(vectors)
        BY DEF VectorsInv, VectorsTypeOK, CrowdOK, ReachOK
    <2>2. p \in Points
        BY DEF Points
    <2>3. entry[label] \in H
        BY <2>1 DEF EntryAlive, LiveIn
    <2>4. config.m \in Nat /\ config.ef \in Nat \ {0} /\ config.m < config.ef
        BY <2>1, ConfigAssumption DEF EfCovers
    <2>5. H \in SUBSET DOMAIN vectors /\ IsFiniteSet(H) /\ Cardinality(H) \in Nat
        BY <2>1, HeldByIn, FS_CardinalityType
    <2>6. Cardinality(H) <= config.ef
        <3>1. ~(Cardinality(H) > config.m + 1)
            BY <2>1 DEF Crowd
        <3> HIDE DEF H
        <3> QED
            BY <2>4, <2>5, <3>1
    <2>7. Closed(vectors, links, H) /\ \A c \in H : ~Dangles(vectors, links, c)
        <3>1. \A c \in H : Neighbors(links, c) \subseteq DOMAIN vectors
            BY <2>1 DEF Mutual, Neighbors
        <3>2. \A c \in H : Neighbors(links, c) \cap DOMAIN vectors \subseteq H
            BY <2>1, NeighborsIn
        <3> HIDE DEF H
        <3> QED
            BY <2>5, <3>1, <3>2 DEF Closed, Dangles
    <2>8. /\ s.found \in SUBSET H /\ s.found # {} /\ s.ok
          /\ \A c \in s.found : Neighbors(links, c) \subseteq s.found
        <3> HIDE DEF H
        <3> QED
            BY <2>1, <2>2, <2>3, <2>4, <2>6, <2>7, SearchIn
    <2>9. s.found = H
        BY <2>1, <2>8 DEF Connected
    <2>10. live = LiveIn(vectors, label)
        <3> HIDE DEF s
        <3> QED
            BY <2>9 DEF LiveIn, HeldBy
    <2>11. Closest(vectors, p, live, config.ef) = live
        <3>1. live \in SUBSET H
            BY <2>10 DEF LiveIn
        <3> HIDE DEF live, H
        <3>2. Cardinality(live) \in Nat /\ Cardinality(live) <= Cardinality(H)
            BY <2>5, <3>1, FS_Subset, FS_CardinalityType
        <3>3. live \in SUBSET DOMAIN vectors /\ Cardinality(live) <= config.ef
            BY <2>4, <2>5, <2>6, <3>1, <3>2
        <3> QED
            BY <2>1, <2>2, <2>4, <3>3, ClosestFacts
    <2>12. Search(label, p, config.ef) = [ok |-> s.ok, found |-> Closest(vectors, p, live, config.ef)]
        BY DEF Search
    <2> HIDE DEF s, live
    <2>13. Search(label, p, config.ef).ok = s.ok /\ Search(label, p, config.ef).found = live
        BY <2>11, <2>12
    <2> QED
        BY <2>8, <2>10, <2>13
<1> QED
    BY <1>1, VectorsInvariant, PTL
=============================================================================
