--------------------------- MODULE SchemaMigration ---------------------------
(***************************************************************************)
(* HQL schema migrations: the runner that a starting server executes over  *)
(* the nodes and the edges, its log, and what the server that follows does *)
(* with versions.  Nothing else runs while the runner does; it may be      *)
(* killed between any two of its transactions and is then started again.   *)
(*                                                                         *)
(* Properties of an item are abstracted to the format they are in: the     *)
(* schema version of the item's own label, or Mixed once a function was    *)
(* applied to properties it was not written for.  A function that panics   *)
(* on such properties is a Crash.                                          *)
(***************************************************************************)
EXTENDS Integers, FiniteSets, Sequences

CONSTANTS
    Labels,          \* labels of nodes and of edges
    Items,           \* ids, ordered as the keys of the store
    LabelOf,         \* the label of each item
    EdgeLabels,      \* the labels that are edge labels
    Releases,        \* the transitions compiled into each successive binary
    Initial,         \* the items stored before the first release starts
    BatchSize,       \* items per write transaction, 1024 in the code
    MaxCrashes       \* bound on the number of crashes

Transition == [label : Labels, from : Nat \ {0}]

ASSUME ItemsAssumption     == Items \subseteq Nat /\ IsFiniteSet(Items) /\ Initial \subseteq Items
ASSUME LabelAssumption     == LabelOf \in [Items -> Labels] /\ EdgeLabels \subseteq Labels
ASSUME ReleasesAssumption  == /\ Releases \in Seq(SUBSET Transition) /\ Releases # <<>>
                              /\ \A r \in DOMAIN Releases : IsFiniteSet(Releases[r])
ASSUME BoundsAssumption    == BatchSize \in Nat \ {0} /\ MaxCrashes \in Nat

Record == [version : Nat, fields : Nat, applied : Seq(Transition)]
Absent == [version |-> 0, fields |-> 0, applied |-> <<>>]
Mixed  == 0

VARIABLES
    db,        \* nodes_db and edges_db: the committed record of each item
    log,       \* migrations_db: the status recorded for each transition
    schema,    \* the schema version in the metadata, 0 when there is none
    release,   \* the binary that is installed
    pc,        \* where the server is
    queue,     \* labels whose chain is still to be processed
    chain,     \* transitions of the current label that are still to be processed
    ids,       \* ids collected by the scan and not yet rewritten
    crashes    \* number of crashes so far

disk   == <<db, log, schema>>
memory == <<pc, queue, chain, ids>>
vars   == <<db, log, schema, release, pc, queue, chain, ids, crashes>>

-----------------------------------------------------------------------------
(* The transitions of the running binary.                                  *)

Compiled      == Releases[release]
ChainOf(l)    == {t \in Compiled : t.label = l}
Gap           == \E l \in Labels : \E t \in ChainOf(l) :
                    /\ \E u \in ChainOf(l) : u.from > t.from
                    /\ ~ \E u \in ChainOf(l) : u.from = t.from + 1
First(ts)     == CHOOSE t \in ts : \A u \in ts : t.from <= u.from
Largest(S)    == CHOOSE n \in S : \A m \in S : m <= n
Highest       == Largest({t.from + 1 : t \in Compiled})

\* The format the queries of the binary are compiled against.
Expected(l)   == IF ChainOf(l) = {} THEN 1 ELSE Largest({t.from + 1 : t \in ChainOf(l)})

\* The function of a transition, applied to the properties of an item of label
\* l, and the version it leads to.
Migrated(rec, l, t) ==
    [version |-> t.from + 1,
     fields  |-> IF l = t.label /\ rec.fields = t.from THEN t.from + 1 ELSE Mixed,
     applied |-> Append(rec.applied, t)]

-----------------------------------------------------------------------------
(* The version table of the running server.  The container fills it with   *)
(* and_modify on an entry of an empty map, which never inserts: the table  *)
(* has no label, whatever was compiled in.                                 *)

TableLabels  == {}
GetLatest(l) == IF l \in TableLabels THEN Expected(l) ELSE 1

\* What get_node and get_edge return for a stored record.
Upgraded(rec, l) ==
    IF l \notin TableLabels \/ rec.version >= GetLatest(l) THEN rec
    ELSE [rec EXCEPT !.version = GetLatest(l),
                     !.fields  = IF @ = rec.version THEN GetLatest(l) ELSE Mixed]

Stored         == {i \in Items : db[i] # Absent}
IsEdge(i)      == LabelOf[i] \in EdgeLabels
AtVersion(v)   == {i \in Stored : db[i].version = v}
Chunk          == {i \in ids : Cardinality({j \in ids : j < i}) < BatchSize}

-----------------------------------------------------------------------------
(* The runner.                                                             *)

Init ==
    /\ db      = [i \in Items |-> IF i \in Initial THEN [version |-> 1, fields |-> 1, applied |-> <<>>]
                                                   ELSE Absent]
    /\ log     = [t \in UNION {Releases[r] : r \in DOMAIN Releases} |-> "absent"]
    /\ schema  = 0
    /\ release = 1
    /\ pc      = "down"
    /\ queue   = {} /\ chain = {} /\ ids = {}
    /\ crashes = 0

\* A server starts: nothing to do without transitions, an error when a chain has a gap.
Start ==
    /\ pc = "down"
    /\ pc' = IF Compiled = {} THEN "serving" ELSE IF Gap THEN "refused" ELSE "chain"
    /\ queue' = IF pc' = "chain" THEN {t.label : t \in Compiled} ELSE {}
    /\ UNCHANGED <<disk, release, chain, ids, crashes>>

\* The next label, in the arbitrary order of a hash map.
NextLabel(l) ==
    /\ pc = "chain" /\ chain = {} /\ l \in queue
    /\ queue' = queue \ {l}
    /\ chain' = ChainOf(l)
    /\ UNCHANGED <<disk, release, pc, ids, crashes>>

\* A transition whose record is Complete is skipped.
SkipComplete ==
    /\ pc = "chain" /\ chain # {} /\ log[First(chain)] = "complete"
    /\ chain' = chain \ {First(chain)}
    /\ UNCHANGED <<disk, release, pc, queue, ids, crashes>>

\* Mutant: Only a transition without a record is run: an interrupted one is not resumed.
MarkAbsentOnly ==
    /\ pc = "chain" /\ chain # {} /\ log[First(chain)] = "absent"
    /\ log' = [log EXCEPT ![First(chain)] = "in_progress"]
    /\ pc'  = "nodes"
    /\ ids' = {i \in AtVersion(First(chain).from) : ~ IsEdge(i)}
    /\ UNCHANGED <<db, schema, release, queue, chain, crashes>>

\* Otherwise it is marked InProgress, and the ids of the nodes at its version
\* are collected, whatever their label.
MarkInProgress ==
    /\ pc = "chain" /\ chain # {} /\ log[First(chain)] # "complete"
    /\ log' = [log EXCEPT ![First(chain)] = "in_progress"]
    /\ pc'  = "nodes"
    /\ ids' = {i \in AtVersion(First(chain).from) : ~ IsEdge(i)}
    /\ UNCHANGED <<db, schema, release, queue, chain, crashes>>

\* Mutant: The properties of a chunk are committed without the new version.
RewriteWithoutVersion ==
    /\ pc \in {"nodes", "edges"} /\ ids # {}
    /\ db' = [i \in Items |->
                 IF i \in Chunk
                 THEN [Migrated(db[i], LabelOf[i], First(chain)) EXCEPT !.version = db[i].version]
                 ELSE db[i]]
    /\ ids' = ids \ Chunk
    /\ UNCHANGED <<log, schema, release, pc, queue, chain, crashes>>

\* One chunk of the collected ids is rewritten and committed.
RewriteChunk ==
    /\ pc \in {"nodes", "edges"} /\ ids # {}
    /\ LET t == First(chain) IN
       db' = [i \in Items |->
                 IF i \in Chunk /\ db[i].version = t.from
                 THEN Migrated(db[i], LabelOf[i], t)
                 ELSE db[i]]
    /\ ids' = ids \ Chunk
    /\ UNCHANGED <<log, schema, release, pc, queue, chain, crashes>>

\* Mutant: Only full chunks of nodes are rewritten.
ScanEdgesEarly ==
    /\ pc = "nodes" /\ Cardinality(ids) < BatchSize
    /\ pc'  = "edges"
    /\ ids' = {i \in AtVersion(First(chain).from) : IsEdge(i)}
    /\ UNCHANGED <<disk, release, queue, chain, crashes>>

\* After the nodes, the edges.
ScanEdges ==
    /\ pc = "nodes" /\ ids = {}
    /\ pc'  = "edges"
    /\ ids' = {i \in AtVersion(First(chain).from) : IsEdge(i)}
    /\ UNCHANGED <<disk, release, queue, chain, crashes>>

MarkComplete ==
    /\ pc = "edges" /\ ids = {}
    /\ log'   = [log EXCEPT ![First(chain)] = "complete"]
    /\ chain' = chain \ {First(chain)}
    /\ pc'    = "chain"
    /\ UNCHANGED <<db, schema, release, queue, ids, crashes>>

\* Every chain is done: the schema version is saved and the server starts to serve.
SaveSchemaVersion ==
    /\ pc = "chain" /\ chain = {} /\ queue = {}
    /\ schema' = Highest
    /\ pc'     = "serving"
    /\ UNCHANGED <<db, log, release, queue, chain, ids, crashes>>

Runner == \/ Start
          \/ \E l \in Labels : NextLabel(l)
          \/ SkipComplete \/ MarkInProgress \/ RewriteChunk
          \/ ScanEdges \/ MarkComplete \/ SaveSchemaVersion

-----------------------------------------------------------------------------
(* The server, its operators and its accidents.                            *)

\* A query creates an item with the properties its release declares: add_n
\* and upsert_n write version 1, add_e and upsert_e the version of the table.
Create(i) ==
    /\ pc = "serving" /\ i \notin Stored
    /\ db' = [db EXCEPT ![i] = [version |-> IF IsEdge(i) THEN GetLatest(LabelOf[i]) ELSE 1,
                                fields  |-> Expected(LabelOf[i]), applied |-> <<>>]]
    /\ UNCHANGED <<log, schema, release, memory, crashes>>

\* An UPDATE of an item read by its id: properties of the release's schema
\* are merged into what was read, and version and properties are written back.
Update(i) ==
    /\ pc = "serving" /\ i \in Stored
    /\ LET read == Upgraded(db[i], LabelOf[i]) IN
       db' = [db EXCEPT ![i] = [read EXCEPT !.fields = IF @ = Expected(LabelOf[i]) THEN @ ELSE Mixed]]
    /\ UNCHANGED <<log, schema, release, memory, crashes>>

\* The process is killed: what is in memory is lost, what is committed stays.
Crash ==
    /\ pc \notin {"down", "refused"} /\ crashes < MaxCrashes
    /\ crashes' = crashes + 1
    /\ pc' = "down" /\ queue' = {} /\ chain' = {} /\ ids' = {}
    /\ UNCHANGED <<disk, release>>

\* The server is stopped and the next release is installed.
Deploy ==
    /\ pc \in {"serving", "refused"} /\ release < Len(Releases)
    /\ release' = release + 1
    /\ pc' = "down"
    /\ UNCHANGED <<disk, queue, chain, ids, crashes>>

Next == Runner \/ Crash \/ Deploy \/ \E i \in Items : Create(i) \/ Update(i)

Spec     == Init /\ [][Next]_vars
FairSpec == Spec /\ WF_vars(Runner)

-----------------------------------------------------------------------------
(* Properties.                                                             *)

\* Every variable has a value of its kind.
TypeOK ==
    /\ db \in [Items -> Record]
    /\ log \in [UNION {Releases[r] : r \in DOMAIN Releases} -> {"absent", "in_progress", "complete"}]
    /\ schema \in Nat /\ release \in DOMAIN Releases
    /\ pc \in {"down", "refused", "chain", "nodes", "edges", "serving"}
    /\ queue \subseteq Labels /\ chain \subseteq Compiled /\ ids \subseteq Items
    /\ pc \in {"nodes", "edges"} => chain # {}
    /\ crashes \in 0..MaxCrashes

\* However often the runner is killed and started again, the functions applied
\* to an item are consecutive steps, from version 1 to the version it is stored
\* with: none twice, none left out, and never a version without its function.
StepsInOrder ==
    \A i \in Stored :
        /\ db[i].version = Len(db[i].applied) + 1
        /\ \A k \in DOMAIN db[i].applied : db[i].applied[k].from = k

\* A transition is recorded as Complete only when no node and no edge is left
\* at the version it starts from, the last, partial chunk included.
CompleteWhenDone ==
    [][\A t \in DOMAIN log : log[t] # "complete" /\ log'[t] = "complete" => AtVersion(t.from) = {}]_vars

\* A binary whose chains have a gap changes nothing of the database: no chain
\* is applied before the chains of all labels were found contiguous.
GapHaltsFirst == [][Gap /\ pc # "serving" => UNCHANGED disk]_vars

\* A server that starts with contiguous chains serves in the end, unless it is
\* killed again and again.
StartupEnds == pc = "down" /\ ~ Gap ~> pc = "serving"
=============================================================================
