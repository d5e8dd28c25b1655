---------------------------- MODULE StorageStartup ----------------------------
(***************************************************************************)
(* migrate(): what a starting server does to the store before it serves.   *)
(* Vectors and vector properties of an old store are converted, the HNSW   *)
(* tables are repaired, the full-text index is rebuilt when its format is  *)
(* old, and the schema version is saved.  Each phase scans with a read     *)
(* transaction and then writes in chunks, one transaction each; the        *)
(* process may be killed between any two of them.                          *)
(*                                                                         *)
(* The schema migrations of the last phase are in SchemaMigration.         *)
(***************************************************************************)
EXTENDS Integers, FiniteSets, FiniteSetsExt

CONSTANTS
    Vectors,         \* ids of vectors, positive
    MaxLevel,        \* highest HNSW level
    Nodes,           \* ids of nodes
    Excluded,        \* nodes of a label that is not to be indexed
    Unindexable,     \* nodes with a term longer than a key of the store may be
    Native,          \* "big" or "little"
    Migrates,        \* whether the binary has schema migrations
    BatchSize,       \* items per transaction; 1024, 128 and 64 in the code
    MaxCrashes,      \* bound on the number of crashes
    KillsConversion, \* whether the process may be killed during a conversion
    InitialVectors,  \* contents vectors_db may have at first
    InitialEdges,    \* contents the HNSW edge table may have at first
    InitialMeta      \* metadata the store may have at first

ASSUME VectorAssumption == Vectors \subseteq Nat \ {0} /\ IsFiniteSet(Vectors) /\ MaxLevel \in Nat
ASSUME NodeAssumption   == IsFiniteSet(Nodes) /\ Excluded \subseteq Nodes /\ Unindexable \subseteq Nodes
ASSUME StartupAssumption == /\ Native \in {"big", "little"} /\ Migrates \in BOOLEAN
                            /\ BatchSize \in Nat \ {0} /\ MaxCrashes \in Nat
                            /\ KillsConversion \in BOOLEAN

Keys       == Vectors \X (0..MaxLevel)
EntryPoint == <<0, 0>>            \* the keys that name the entry points
Metadata   == [tag : {"none", "vectors", "schema"}, endian : {"big", "little"}]
BM25_SCHEMA_VERSION == 2

ASSUME InitialAssumption == /\ InitialVectors \subseteq SUBSET Keys
                            /\ InitialEdges \subseteq SUBSET (Vectors \X (0..MaxLevel) \X Vectors)
                            /\ InitialMeta \subseteq Metadata

VARIABLES
    meta,      \* metadata_db: the tag and the endianness it declares
    vec,       \* vectors_db: the byte order of each value, and the entry point
    props,     \* vector_properties_db: the format of each record
    edges,     \* the HNSW edge table
    nodes,     \* nodes_db
    docs,      \* the nodes the full-text index holds
    version,   \* the version of the full-text index, 0 when there is none
    missed,    \* ghost: a node was stored without its document since the last clear
    skip,      \* skip_bm25_writes
    pc,        \* where the server is
    todo,      \* what the scan of the phase collected and is not yet written
    crashes    \* number of crashes so far

vectorTables == <<vec, props, edges>>
textTables   == <<nodes, docs, version, missed>>
vars == <<meta, vectorTables, textTables, skip, pc, todo, crashes>>

-----------------------------------------------------------------------------
Other(e)   == IF e = "big" THEN "little" ELSE "big"
Swapped(x) == CASE x = "ids" -> "garbage" [] x \in {"big", "little"} -> Other(x) [] OTHER -> x

\* A value read in one byte order and written in the native one.
Converted(x, source) == IF source = Native THEN x ELSE Swapped(x)

KeysIn(table)   == {k \in DOMAIN table : table[k] # "absent"}
Has(v, level)   == <<v, level>> \in KeysIn(vec)
Chunks(S)       == kSubset(IF Cardinality(S) < BatchSize THEN Cardinality(S) ELSE BatchSize, S)
Wanted          == nodes \ Excluded
NativeMeta      == meta.tag # "none" /\ meta.endian = Native
Source          == IF meta.tag = "none" THEN "big" ELSE meta.endian

Missing == {k \in KeysIn(vec) : k[2] > 0 /\ ~ Has(k[1], 0)}
\* Mutant: only the source of an edge is looked up.
SourceOrphans == {e \in edges : ~ Has(e[1], 0)}

Orphans == {e \in edges : ~ Has(e[1], 0) \/ ~ Has(e[3], 0)}

-----------------------------------------------------------------------------
Init ==
    /\ meta  \in InitialMeta
    /\ \E S \in InitialVectors :
           vec = [k \in Keys \union {EntryPoint} |->
                     IF k = EntryPoint THEN "ids" ELSE IF k \in S THEN Source ELSE "absent"]
    /\ props = [v \in Vectors |-> IF \E l \in 0..MaxLevel : Has(v, l)
                                  THEN IF meta.tag = "none" THEN "old" ELSE "new"
                                  ELSE "absent"]
    /\ edges \in InitialEdges
    /\ nodes \in SUBSET (Nodes \ Unindexable)
    /\ version \in {0, 1, BM25_SCHEMA_VERSION}
    /\ docs  = IF version = BM25_SCHEMA_VERSION THEN Wanted ELSE {}
    /\ missed = FALSE /\ skip = FALSE
    /\ pc = "down" /\ todo = {} /\ crashes = 0

\* A phase begins with the set its scan collects.
Phase(name, S) == pc' = name /\ todo' = S

\* The process starts with the flag of its environment and reads the metadata.
Start ==
    /\ pc = "down"
    /\ skip' \in BOOLEAN
    /\ IF NativeMeta THEN Phase("repair", Missing) ELSE Phase("vectors", KeysIn(vec))
    /\ UNCHANGED <<meta, vectorTables, textTables, crashes>>

\* Mutant: the entry points are converted like the vectors.
ConvertEverything(chunk) ==
    /\ pc = "vectors" /\ chunk # {}
    /\ vec' = [k \in DOMAIN vec |-> IF k \in chunk THEN Converted(vec[k], Source) ELSE vec[k]]
    /\ todo' = todo \ chunk
    /\ UNCHANGED <<meta, props, edges, textTables, skip, pc, crashes>>

\* A chunk of vectors is converted; the entry points are left alone.
ConvertVectors(chunk) ==
    /\ pc = "vectors" /\ chunk # {}
    /\ vec' = [k \in DOMAIN vec |-> IF k \in chunk \ {EntryPoint} THEN Converted(vec[k], Source) ELSE vec[k]]
    /\ todo' = todo \ chunk
    /\ UNCHANGED <<meta, props, edges, textTables, skip, pc, crashes>>

\* Only a store without metadata has vector properties of the old format.
AfterVectors ==
    /\ pc = "vectors" /\ todo = {}
    /\ IF meta.tag = "none" THEN Phase("props", KeysIn(props)) ELSE Phase("save", {})
    /\ UNCHANGED <<meta, vectorTables, textTables, skip, crashes>>

\* A chunk of properties is converted; a record that is not of the old format
\* cannot be read, and the start fails.
ConvertProps(chunk) ==
    /\ pc = "props" /\ chunk # {}
    /\ IF \A v \in chunk : props[v] = "old"
       THEN /\ props' = [v \in Vectors |-> IF v \in chunk THEN "new" ELSE props[v]]
            /\ todo' = todo \ chunk
            /\ UNCHANGED pc
       ELSE Phase("failed", {}) /\ UNCHANGED props
    /\ UNCHANGED <<meta, vec, edges, textTables, skip, crashes>>

SaveMetadata ==
    /\ \/ pc = "props" /\ todo = {}
       \/ pc = "save"
    /\ meta' = [tag |-> "vectors", endian |-> Native]
    /\ Phase("repair", Missing)
    /\ UNCHANGED <<vectorTables, textTables, skip, crashes>>

\* verify_vectors_and_repair: a vector without its level 0 gets a copy of
\* the value at the level that was found.
RepairLevels(chunk) ==
    /\ pc = "repair" /\ chunk # {}
    /\ vec' = [k \in DOMAIN vec |->
                  IF k # EntryPoint /\ k[2] = 0 /\ \E c \in chunk : c[1] = k[1]
                  THEN vec[CHOOSE c \in chunk : c[1] = k[1] /\ \A d \in chunk : d[1] = k[1] => d[2] <= c[2]]
                  ELSE vec[k]]
    /\ todo' = todo \ chunk
    /\ UNCHANGED <<meta, props, edges, textTables, skip, pc, crashes>>

\* Mutant: the orphans are looked for while levels are still to be repaired.
AfterFirstRepair ==
    /\ pc = "repair"
    /\ Phase("orphans", Orphans)
    /\ UNCHANGED <<meta, vectorTables, textTables, skip, crashes>>

AfterRepair ==
    /\ pc = "repair" /\ todo = {}
    /\ Phase("orphans", Orphans)
    /\ UNCHANGED <<meta, vectorTables, textTables, skip, crashes>>

\* remove_orphaned_vector_edges
RemoveOrphans(chunk) ==
    /\ pc = "orphans" /\ chunk # {}
    /\ edges' = edges \ chunk
    /\ todo'  = todo \ chunk
    /\ UNCHANGED <<meta, vec, props, textTables, skip, pc, crashes>>

\* Mutant: the version is written when the index is cleared.
ClearAndStamp ==
    /\ pc = "orphans" /\ todo = {}
    /\ IF skip \/ version = BM25_SCHEMA_VERSION
       THEN Phase("schema", {}) /\ UNCHANGED <<docs, version, missed>>
       ELSE /\ docs' = {} /\ version' = BM25_SCHEMA_VERSION /\ missed' = FALSE
            /\ Phase("index", nodes)
    /\ UNCHANGED <<meta, vectorTables, nodes, skip, crashes>>

\* migrate_bm25: nothing with the flag set or the index up to date, else the
\* index is cleared, its version included, and every node is to be indexed.
ClearIndex ==
    /\ pc = "orphans" /\ todo = {}
    /\ IF skip \/ version = BM25_SCHEMA_VERSION
       THEN Phase("schema", {}) /\ UNCHANGED <<docs, version, missed>>
       ELSE /\ docs' = {} /\ version' = 0 /\ missed' = FALSE
            /\ Phase("index", nodes)
    /\ UNCHANGED <<meta, vectorTables, nodes, skip, crashes>>

\* Mutant: a chunk that cannot be indexed is tried again.
IndexRetry(chunk) ==
    /\ pc = "index" /\ chunk # {}
    /\ chunk \intersect (Unindexable \ Excluded) = {}
    /\ docs' = docs \union (chunk \ Excluded) /\ todo' = todo \ chunk
    /\ UNCHANGED <<meta, vectorTables, nodes, version, missed, skip, pc, crashes>>

\* A chunk of nodes is indexed; a node that cannot be indexed ends the start.
IndexChunk(chunk) ==
    /\ pc = "index" /\ chunk # {}
    /\ IF chunk \intersect (Unindexable \ Excluded) = {}
       THEN docs' = docs \union (chunk \ Excluded) /\ todo' = todo \ chunk /\ UNCHANGED pc
       ELSE Phase("failed", {}) /\ UNCHANGED docs
    /\ UNCHANGED <<meta, vectorTables, nodes, version, missed, skip, crashes>>

StampIndex ==
    /\ pc = "index" /\ todo = {}
    /\ version' = BM25_SCHEMA_VERSION
    /\ Phase("schema", {})
    /\ UNCHANGED <<meta, vectorTables, nodes, docs, missed, skip, crashes>>

\* run_schema_migrations ends with the metadata; see SchemaMigration.
RunSchemaMigrations ==
    /\ pc = "schema"
    /\ meta' = IF Migrates THEN [meta EXCEPT !.tag = "schema"] ELSE meta
    /\ Phase("serving", {})
    /\ UNCHANGED <<vectorTables, textTables, skip, crashes>>

Startup ==
    \/ Start \/ AfterVectors \/ SaveMetadata \/ AfterRepair
    \/ ClearIndex \/ StampIndex \/ RunSchemaMigrations
    \/ \E chunk \in Chunks(todo) :
          \/ ConvertVectors(chunk) \/ ConvertProps(chunk)
          \/ RepairLevels(chunk) \/ RemoveOrphans(chunk) \/ IndexChunk(chunk)

-----------------------------------------------------------------------------
(* The server, its operators and its accidents.                            *)

\* add_n: with the flag set the document is left out; without it, a document
\* that cannot be written fails the query.
AddNode(n) ==
    /\ pc = "serving" /\ n \in Nodes \ nodes
    /\ skip \/ n \notin Unindexable \ Excluded
    /\ nodes' = nodes \union {n}
    /\ docs'   = IF skip \/ n \in Excluded THEN docs ELSE docs \union {n}
    /\ missed' = (missed \/ (skip /\ n \notin Excluded))
    /\ UNCHANGED <<meta, vectorTables, version, skip, pc, todo, crashes>>

\* POST /settings
SetSkip ==
    /\ pc = "serving"
    /\ skip' = ~ skip
    /\ UNCHANGED <<meta, vectorTables, textTables, pc, todo, crashes>>

\* The container is started again after a failed start or an orderly stop.
Restart ==
    /\ pc \in {"serving", "failed"}
    /\ pc' = "down"
    /\ UNCHANGED <<meta, vectorTables, textTables, skip, todo, crashes>>

\* The process is killed during the start.
Crash ==
    /\ pc \notin {"down", "serving", "failed"} /\ crashes < MaxCrashes
    /\ pc \in {"vectors", "props", "save"} => KillsConversion
    /\ crashes' = crashes + 1
    /\ Phase("down", {})
    /\ UNCHANGED <<meta, vectorTables, textTables, skip>>

Next == Startup \/ SetSkip \/ Restart \/ Crash \/ \E n \in Nodes : AddNode(n)

Spec     == Init /\ [][Next]_vars
FairSpec == Spec /\ WF_vars(Startup)

-----------------------------------------------------------------------------
(* Properties.                                                             *)

\* Every variable has a value of its kind.
TypeOK ==
    /\ meta \in Metadata
    /\ vec \in [Keys \union {EntryPoint} -> {"absent", "big", "little", "ids", "garbage"}]
    /\ props \in [Vectors -> {"absent", "old", "new"}]
    /\ edges \subseteq Vectors \X (0..MaxLevel) \X Vectors
    /\ docs \subseteq nodes /\ nodes \subseteq Nodes
    /\ version \in 0..BM25_SCHEMA_VERSION
    /\ missed \in BOOLEAN /\ skip \in BOOLEAN
    /\ pc \in {"down", "vectors", "props", "save", "repair", "orphans", "index", "schema",
               "serving", "failed"}
    /\ todo # {} => pc \in {"vectors", "props", "repair", "orphans", "index"}
    /\ crashes \in 0..MaxCrashes

\* A server that serves walks a sound HNSW graph: every vector it can reach at
\* a level is found at level 0, and no edge comes from or leads to one that is not.
Repaired ==
    pc = "serving" => /\ \A k \in KeysIn(vec) : k # EntryPoint => Has(k[1], 0)
                      /\ \A e \in edges : Has(e[1], 0) /\ Has(e[3], 0)

\* An index of the current version holds every node that is to be indexed,
\* wherever earlier rebuilds were interrupted, but for nodes stored while the
\* flag was set.
IndexComplete == version = BM25_SCHEMA_VERSION /\ ~ missed => docs = Wanted

\* Startup removes an edge only if one of its ends has no vector at any level:
\* the levels are repaired before the orphans are looked for.
OnlyOrphansRemoved ==
    [][\A e \in edges \ edges' : \E v \in {e[1], e[3]} : \A l \in 0..MaxLevel : ~ Has(v, l)]_vars

\* A start ends: the server serves or reports an error.
StartupSettles == pc = "down" ~> pc \in {"serving", "failed"}

\* A server that serves reads every vector in the byte order it was written in,
\* and its entry points are ids.
VectorsReadable ==
    pc = "serving" => /\ \A k \in Keys : vec[k] \in {"absent", Native}
                      /\ vec[EntryPoint] = "ids"
                      /\ \A v \in Vectors : props[v] # "old"
=============================================================================
