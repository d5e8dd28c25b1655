# SparrowDB in TLA+

Specifications of SparrowDB, a graph and vector database on LMDB, translated
from the Rust sources under `src/`. TLC checks them on small instances; TLAPS
proves some of their properties for every value of the constants. Paths below
are relative to `src/crates/sparrow-core/src/` unless they start with `crates/`
or `docs/`.

    tlc -workers 2 -config GraphStore_statements.cfg MCGraphStore.tla
    tlapm GraphStoreProofs.tla          (and the other *Proofs modules)

`PROJECT.json` maps every definition to the lines it models, and lists the runs,
the mutant each property must catch and the hazards of the code.

## 1. The system

A query of the HQL language is compiled to a Rust handler, and the handlers are
linked into a server, the container. An HTTP task hands a request to a thread;
the thread runs the handler in an LMDB transaction over the tables of one
environment. What each part keeps and what makes it correct:

| Component | State | Operations | Correct when | Module |
|---|---|---|---|---|
| graph store (`sparrow_engine/storage_core`, `traversal_core/ops`) | node and edge records, two adjacency tables, secondary indices, a full-text document per node | AddN, AddE, AddV, UPDATE, UpsertN, UpsertE, DROP, commit, abort | adjacency mirrors the records, no edge without its ends, indices agree with properties, unique fields are unique, documents are current | `GraphStore` |
| worker pool, router (`sparrow_gateway/worker_pool`, `router`) | request, write and continuation channels; what each thread holds; LMDB's writer mutex | submit, receive, spawn, continue, commit, reply, disconnect | nothing lost or done twice, writes one at a time in order, everyone answered | `WorkerPool`, `RequestService` |
| schema migrations (`schema_migration.rs`, `migration_log.rs`, `version_info.rs`) | a version per record, a log entry per transition | run a chain in batches, create and update records between releases | every function applied once and in order across kills; Complete means complete | `SchemaMigration` |
| storage start-up (`storage_migration.rs`) | metadata, byte order of vectors, format of vector properties, HNSW tables, version of the full-text index | convert, repair, remove orphans, rebuild, stamp | a server that serves has a readable, repaired and complete store | `StorageStartup` |
| full-text index (`bm25/lmdb_bm25.rs`) | postings, reverse entries, lengths, frequencies, totals | insert, update, delete, search, online rebuild | the five tables agree; documents follow the nodes | `TextIndex` |
| vector index (`vector_core/lmdb`) | vectors, neighbour links, an entry point per label | insert, search, soft and hard delete, rebuild | entry point live and of its label, links symmetric, a search finds what is there, a rebuild repairs | `VectorIndex` |
| MCP sessions (`sparrow_gateway/mcp`) | query chain, position, cached results of each session | tool steps, next, collect, searches, reset, generated handlers | next pages through the results of the chain; the server stays up | `McpSession` |
| run-time evaluator, v1 compatibility (`runtime_eval`, `v1_compat`) | none of their own; they write the graph store | four mutations; old endpoints | maintain what compiled queries maintain | the drop, in `TextIndex`; the rest not yet |
| read traversals (`traversal_core/ops`) | none (one snapshot) | sources, steps, filters, groups | as the query says | `TraversalOps` |
| shortest paths (`ops/util/paths.rs`) | none (one read snapshot); queue or heap, distances, parents of a search | one search per node of the source, BFS, Dijkstra or A* | a cheapest path, or the reason why there is none | `ShortestPaths` |
| rerankers | none | pure functions on scores | — | out of scope |
| gateway start, settings, tokens, compaction | thread counts, flags, token records | start, patch, issue, revoke | legal thread counts; atomic patches; last admin | not yet |
| agent memory (`crates/sparrow-memory`) | nodes and edges of threads, runs, findings, questions | open a thread, start a run, record, raise, answer, complete, interrupt, recall | what a call acknowledged is found and counted, open questions are carried over, also among other agents and after a kill | `AgentMemory` |
| HQL compiler (`sparrowc`) | scope, type so far, generated traversal, is_mut | validate and generate a step or a statement | the generated code does what the query says, on the right kind of transaction | `HqlCompiler` |
| embedding providers | none | HTTP calls | — | as an environment that may answer, fail or stay silent |
| memory monitor, metrics, CLI, Studio, Chef, SDKs, benchmarks | — | I/O, user interface | — | out of scope |

How they interact: the HTTP task sends to the pool's request channel or, for a
route marked as a write, to the channel of the single writer thread. A handler
that needs an embedding returns `IoNeeded`: a tokio task calls the provider and
sends the rest of the query back as a closure. Handlers share the environment,
whose writer mutex serialises write transactions, and `skip_bm25_writes`, an
atomic that `POST /settings` may change in the middle of a transaction. Start-up
and schema migrations run alone, before anything is served.

An agent's session
is shared by the pool's workers, which take its lock twice per call and read the
graph in between.

What is hard: every statement spreads one fact over up to four tables by keys
built in several places; a query may hold a stale copy of a record; the pool has
no select and relies on worker parity; start-up and migrations are sequences of
transactions that may be cut anywhere; the rebuild of the full-text index runs
among the writes it must not lose; the compiler decides in one place what the
generated text relies on in another. `PROJECT.json` lists these hazards by
line; those no property covers, or not fully, carry a note.

## 2. The modules

`LmdbTables` — LMDB tables as partial functions (`Put`, `Delete`, `Overlay`,
...) and duplicate-sorted tables as sets of pairs.

`GraphStore` — one write transaction and the committed tables. LMDB admits one
writer, so the state is a working copy plus `committed`, which readers see. A
compiled query is `Begin`, any statements, then `Commit`, or `Abort` after an
error or a kill. Each statement is one action: `AddN`/`AddBareN` (`add_n.rs`),
`UpdateN`/`UpdateRefused`/`UpdateE` (`update.rs`), `UpsertExisting`/`UpsertNewN`/
`UpsertE` (`upsert.rs`), `AddE` (`add_e.rs`), `DropNode`/`DropEdge`/`DropVector`
(`drop.rs`, `storage_core/mod.rs`), `InsertV`. `held` is the set of record copies
that the variables of the query still hold (`Bind`). Adjacency entries carry the
real key, endpoint and hash of the label, and the real value, so colliding hashes
and self-loops are covered. `deferred` is a history variable: nodes written
while full-text writes were paused.

`RequestService` and `WorkerPool` — the promise to clients (accepted requests
are performed once; writes in order of acceptance), and the threads and channels
that implement it. A bounded flume channel and the senders that await room are
one sequence; `Disconnect` drops the HTTP task at any await. `Poll` and `Receive`
are the two receives of a pool worker, swapped by parity. The writer's
per-request continuation channel closes when the last sender is dropped
(`ChannelClosed`), which is how it learns that a write is over.

`SchemaMigration` — successive releases of a binary with compiled-in
transitions, the runner with its log and chunks, kills, and what creations,
updates and reads do with versions. Properties are abstracted to the format they
are in; `applied` records the functions a record went through.

`StorageStartup` — the phases of `migrate()`: `Start`, `ConvertVectors`,
`ConvertProps`, `SaveMetadata`, `RepairLevels`, `RemoveOrphans`, `ClearIndex`,
`IndexChunk`, `StampIndex`, `RunSchemaMigrations`, one action per transaction;
then a serving server that stores nodes and toggles the pause.

`TextIndex` — the five tables of the full-text index and the nodes they are
about. `InsertDoc`, `UpdateDoc` and `DeleteDoc` start a walk over the sorted terms
of the old and the new document; `RemovePosting`, `AddPosting`, `KeepPosting` and
`ReplacePosting` are its steps, `EndWalk` writes reverse entries, length and
totals. A term LMDB refuses (`LongTerms`, `WideTerms`) ends the walk with what it
wrote still in the transaction. `AddNode`, `UpdateNode`, `DropNode` are the
statements that walk; `DropNodeOnly` is the run-time evaluator's; the rebuild is
`StartRebuild`/`Start`, `ClearIndex`, `OpenChunk`, `IndexNode`, `CloseChunk`,
`EndRebuild`. `bypassed`, `spoiled` and `partial` are history: nodes written past
the index, nodes whose failed document was committed in part, an index cleared
and not yet filled.

`TraversalOps` — sources, steps, filters, groups and the writes they feed as
functions from a graph and the items of an iterator to the items it yields, Err
included. `HqlCompiler` and `McpSession` are built on it.

`HqlCompiler` — a behaviour compiles a query step by step (`Start*`, `Step*`,
`Assignment`, `DropStatement`), deploys it on a graph and runs it (`Execute`).
Beside the generated traversal goes the query as written, whose meaning
(`MeaningOf`) is the abstract specification: the same pipeline with nothing
rewritten, merged or left out, where FIRST means one item and a lookup by id an
item of its label. `gaps` collects the constructs whose translation is known to
differ (section 3).

`McpSession` — sessions, pool workers between the two locks of a handler, a graph
that commits change. `InitConnection`, `ToolCall`, `NextCall`, `CollectCall`,
`SearchCall`, `reset` and `QueryCall` take the first lock, `Execute` reads the
graph, `*Return` take the second. `down` is the abort of a panic. `book` is what a
session's agent was given.

`VectorIndex` — the vectors, the links of the search graph and the entry points.
`Insert` is one transaction: `SearchLevel` walks from the label's entry point,
`SelectForNew` chooses the neighbours, `SetNeighbours` (`LinkBoth` for each) and
`PruneIfOverDegree` link them and `Relink` links each of them again. `SoftDelete`, `HardDelete` and a
rebuild (`RebuildStart`, `Reinsert`) follow the functions of their names. A vector
is read back with level 0, so everything happens on level 0 and the random level
only decides whether a new vector becomes the entry point. Distances are a
function of points of which no two are equal, so heaps order as they do; links
that a heap holds without distance come in any order. `crowded` and `severed` are
history: labels that held more than m + 1 vectors, and that lost one.

`AgentMemory` — the store of the memory library and the agents that share it. An
action is one LMDB transaction, so a call is a chain of them: `StartRun`,
`WriteRun`, `ListRuns`, `ReadRun`, `Follow`, `PartOf`, `ListQuestions`,
`ReadQuestion`, `Carry` are `RunHandle::create`; the first actions of the other
calls have the functions' names. `call` is what an agent's call does next and
what it has read so far; `Fail` ends it with an error and leaves the handle, `Kill`
loses the handles too. Only `ReadRun` goes on after a failed read, without the run it
could not read (`unwrap_or_default`, `run.rs:43`). `acked` and `overlapped` are observers: the edges of
findings and questions whose call returned, and the titles that two calls looked
for at once; `due` and `was` record what there was when a call began.

`ShortestPaths` — one query with a shortest-path step over one snapshot. `StartBfs`,
`StartDijkstra`, `StartAStar` begin the search for the next node of the source,
`PopQueue` and `PopHeap` take the next entry (a binary heap ordered by `Before`),
`Visit` and `Weigh` deal with one adjacency entry of the popped item, in any order;
`StepBack` and `YieldPath` are `reconstruct_path`. The specification they are checked
against is a definition on the graph alone, the costs of all walks (`WalkCosts`).
The `visited` set of the breadth-first search carries the number of edges behind each
item as a history (`best`).

`MC*` modules hold the schemas and the finite sets of the runs.
Definitions commented as mutants are variants of an action with one plausible
bug; no specification uses them.

## 3. The runs

| Run | Instance | Shows |
|---|---|---|
| `graph_statements` | 2 nodes of 2 types, a unique index on one and a plain one on the other, 2 values, 1 vector, 2 edges, 2 labels with one hash | `NoDanglingEdge`, `OneEdgePerPair`, `IndexSound`, `IndexComplete`, `UniqueValues` |
| `graph_stale` | 2 nodes of 2 types, one excluded from full-text search, 1 edge, one held copy, dropped endpoints, the pause toggled | `AdjacencyMirrored`, `DocsFresh` |
| `pool_safety` | 2 workers, 4 clients, channels of 1 | `NothingLost`, refinement of `RequestService` |
| `pool_liveness` | 2 workers, 4 clients, one of them a `/v1/query` read, channels of 1 | `EveryoneAnswered`, `ReadsProceed` |
| `schema_crash` | 5 items, 3 labels, 4 releases, 2 kills, chunks of 2 | `StepsInOrder`, `CompleteWhenDone`, `StartupEnds` |
| `startup_phases` | 2 vectors on 2 levels, 3 nodes, every initial metadata and table content, 1 kill, chunks of 1 | `Repaired`, `IndexComplete`, `VectorsReadable`, `OnlyOrphansRemoved`, `StartupSettles` |
| `text_index` | 2 nodes, 5 documents over 4 terms (2 of them refused), chunks of 1, one write among the rebuild's transactions, 1 kill | `TablesAgree`, `SearchSucceeds`, `TotalsMatch`, `IndexFollowsNodes`, `PartialIsUnstamped` |
| `hql_meaning` | 2 node labels, a vector label, 2 edge labels, 2 values, ids of a node and an edge, 4 sources and steps in 2 statements, 2 graphs | `TypeSound`, `MeaningKept`, `ReadersDoNotWrite` |
| `mcp_pages` | 1 session, 2 workers, 11 tools, chains of 2, a cache of 3, graphs with 3 and 4 users | `PagesInOrder`, `AbortNeedsOverlap` |
| `vector_index` | 5 points of one label, 1 of another; m at 1 with 5 vectors, at 2 with 4; 2 deletes | `EntryAlive`, `SymmetricWhileSmall`, `AllFoundWhileSmall`, `RebuildSucceeds` |
| `memory_calls` | 2 agents, 1 title, 1 entity, 5 nodes, recalls of 1 summary and 1 finding, 1 kill or failed transaction | `FollowsAcyclic`, `QuestionsCarried`, `AcknowledgedKept`, `RecallSound`, `DuplicateNeedsOverlap` |
| `paths_answers` | 4 items, every graph of up to 4 edges (8 for BFS) over 8 pairs, weights 0 to 3, estimates 0 and 2, items that are no nodes, unusable weights and estimates, 2 labels, 2 sources | `AnswerRight`, `SearchEnds` |

The type invariants (`TypeOK`) and `GapHaltsFirst` of `SchemaMigration` are proved
(section 5), so no run repeats them.

Why the bounds suffice. A third node adds nothing that a key built wrongly
needs: an entry names two endpoints, self-loops and a vector as an endpoint are
included, and two edges give parallel ones, also under colliding labels. Uniqueness is a relation of two nodes and two values. Workers differ only
by parity, so two are one of each kind; a channel of one makes waiting for room
as common as it can be, and the state of a client slot is reset after each
answer, so a slot stands for an unbounded sequence of requests. Chunks smaller
than what is scanned give full, partial and empty last chunks; two kills let a
resumed migration be cut again. In `text_index` two documents share a term, one
repeats a term and two cannot be stored, so every step of the walk, every error
and both outcomes of a merge occur; four terms put a common, a changed, a new and
an old term into one update. In `hql_meaning` the graphs have cycles, several
edges to one item, shared and absent values and an empty label, so that a
dropped, repeated or reordered step shows; four steps are the shortest queries in
which a variable is bound, refined and written through. Queries that meet a
construct of `gaps` are not followed further (`Translated`). In `mcp_pages` two
workers make every overlap of two calls, and the cache is shorter than one result
and as long as another. In `vector_index` m at 1 makes a vector lose links to
`m_max_0` with five vectors, m at 2 lets the links of a vector be completed by those
of its neighbours; two deletes leave dangling links, hand the entry point over and
lose it; a vector of another label has an entry point of its own. The real m is 5
to 48; the instance scales it down together with the number of vectors. In
`memory_calls` five nodes are a thread, two runs of it, or two threads, and a
finding, a question, a summary or two of them: enough for two runs started at once,
one of which carries what the other raises, and for a question answered by one agent
while the other recalls. A recall returns 1 of each where the code returns 3
summaries and 20 findings, so that the second one already drives the first out.
In `paths_answers` four items and four edges give a detour that is cheaper than
the direct way, two ways of equal cost, a cycle through the start that costs nothing,
and an item that A* must expand twice because an estimate is inconsistent.
`MaxCrashes` and `MaxFaults` bound kills, and an identifier, once issued, is not issued again (`v6_uuid`),
which bounds inserts. Deadlock is
checked everywhere but in `SchemaMigration`, where a start that is refused by the
last release really stops, in `HqlCompiler`, where a query that has run is over,
in `McpSession`, where the process may have aborted, in `ShortestPaths`, where a
query ends, and in `AgentMemory`, where
a call waits for an identifier when the bound is reached.

Disagreements between the code and what the repository says of it, met while
modelling, which no run states:

* A transition selects the items of its version whatever their label
  (`schema_migration.rs:157`), where `docs/HQL.md:1907` says of migrations "They map
  old type definitions to new ones, with field-level transformations.": with two
  labels at one version the function of whichever the hash map yields first
  rewrites the items of both, and the transition of the other finds none left. TLC
  finds it in `SchemaMigration` with two transitions of one release, as an item with
  a function of another label in `applied`.
* An UPDATE of a unique field the node lacked is not checked (`update.rs:129`), where
  `docs/HQL.md:260` says that UNIQUE INDEX enforces uniqueness; with `FreshFields =
  TRUE` TLC finds two nodes that share a value.
* `/hnsw-integrity` calls one-way links a corruption (`builtin/diagnostics.rs:158`)
  and `count_asymmetric_edges` says that a healthy graph has none
  (`vector_core.rs:713`). Inserts alone make them once a label has more than m + 1
  vectors, and the new vector may then be reached from no other (`vector_core.rs:1231`):
  with the threshold of `crowded` raised by one, TLC finds both after three inserts.
* A hard delete leaves one-way links to the vector behind (`vector_core.rs:1355`), and
  a search or an insert that meets one fails until the index is rebuilt. A soft
  delete of the entry point without a live neighbour removes the record
  (`vector_core.rs:1313`), though other vectors live on; the next insert becomes an
  entry point without links. The slice of `prune_if_over_degree` panics when too few
  neighbours have data (`vector_core.rs:341`).
* `/v1/query` reads open a write transaction on a pool worker
  (`v1_compat/mod.rs:320`), where `worker_pool/mod.rs:89` says that writes go to
  the writer thread. The worker waits for the writer mutex, and requests queue up
  behind it (section 4).
* The container's version table stays empty and creations write version 1, so that
  nodes created after a migration stay in an old format
  (`crates/sparrow-container/src/main.rs:99`).
* A kill during the conversion of vectors makes the next start convert some of them
  twice (`storage_migration.rs:175` and `:282`).
* The rebuild logs "failed to index node, skipping" (`bm25_rebuild.rs:103`), but the
  postings the failed document wrote are committed, and a search that meets one
  fails (`spoiled`). It writes no version stamp, so the next start rebuilds again.
  A node written between its reading and its chunk gets an older document or none
  (`bypassed`).
* HQL (each of these is a member of `gaps`, and each alone breaks `MeaningKept` or
  `TypeSound`): an equality filter after an edge step becomes the source of the
  whole traversal (`rewritten`; `docs/HQL.md:1044` says that WHERE can appear at any
  point of a chain); AND drops the negation of an EXISTS (`negation`); AGGREGATE_BY
  and GROUP_BY replace the step before them whether or not it is COUNT
  (`swallowed`; `docs/HQL.md:1227`); UPDATE and UpsertN on a variable print no steps
  in between (`unprinted`); UpsertN repeats the index lookup a variable came from
  (`reread`), which differs when the first statement changed it or it finds
  several; an edge's end typed single but collected as a vector (`single`);
  DROP forgets FIRST (`first`); a lookup by id ignores the label (`label`); ToV
  passes over a vector dropped since the edge was read, where every other end of an
  edge answers with an error (`gone`, `to_v.rs:30`); a DROP that meets an item twice
  fails (`twice`).
* A variable bound to an index lookup is collected by `collect_to_obj()?` before the
  UpsertN that inlines the lookup, so that the first insert still fails
  (`traversal_validation.rs:2290`). An index lookup that is not unique binds the
  first node. AddE in the middle of a traversal generates nothing
  (`traversal_validation.rs:2990`). GROUP_BY joins its keys with "_", so that two
  groups may become one (`group_by.rs:42`).
* `mcp.rs:96` says that requests reach a connection serially; the pool serves two
  calls of a session on two workers (`worker_pool/mod.rs:382`), and the unwrap of
  `next` then aborts the process (`panic = "abort"` in both profiles of
  `Cargo.toml`). A generated MCP query removes its session and puts it back only
  when it succeeds; one that embeds always fails. A search among the steps of a
  chain makes every later execution fail until `reset`. `search_keyword` moves the
  position and stores no results (`mcp.rs:934`), so that next goes on in the
  results before it.

* `get_or_create` scans in one transaction and writes in another
  (`crates/sparrow-memory/src/thread.rs:57`): two calls at once make two threads of
  one title, and every later call takes the one with the lower id. An answer given
  while its question is still being raised leaves the question in the status index
  for good, and so does a kill before the removal, where `run.rs:135` says that
  callers do not see resolved questions as open. The summary is written before the
  status: a kill in between leaves a summary, which recalls return, of a run that is
  not completed and that no run follows; `types.rs:117` says summaries of completed
  runs. A run whose status cannot be read is passed over (`run.rs:43`), so that the new
  one may follow an older run than the most recent completed one of `run.rs:38`. A finding cut off before its PRODUCED edge is recalled and never counted.
  The README of the crate uses `create_thread` and `add_finding`, which do not exist.
* Edges may lead to vectors. Dijkstra and A* fail with NodeNotFound as soon as an item
  they expand has such an edge (`paths.rs:538`), whether or not a path needs it; BFS
  may choose a path through a vector and then fail to reconstruct it although another
  path of nodes exists (`paths.rs:406`). A* yields the target as soon as it is popped
  (`paths.rs:617`): where the target's own estimate is negative, though that is
  admissible, TLC finds a path that is not a cheapest one, so `Weighable` demands an
  estimate of the target that is a number and not negative. One source without a path fails the whole
  query, since the generated text collects with `?`. A negative weight is noticed only
  if its edge is met.
* The check that a weight property exists and is numeric
  (`sparrowc/analyzer/methods/graph_step_validation.rs:435`) is of a variant,
  `WeightExpression::Property`, that the parser never makes
  (`sparrowc/parser/graph_step_parse_methods.rs:640`). A weight of another type than F64
  panics when it is read (`protocol/value.rs:2560`), which ends the server.

Preconditions. The passing runs exclude, by named constants, behaviour of the
code under which a property does not hold:

* `FreshFields = FALSE` (`graph_statements`): an UPDATE that sets an indexed field
  which the node lacks leaves no index entry (`update.rs:174`), so neither
  `IndexComplete` nor `UniqueValues` holds without it. `graph_stale` allows such
  updates.
* `Defaults <- NoDefaults`: `AddN<T>` without a field list stores the defaults of
  the schema and lists no index (`sparrowc/analyzer/methods/infer_expr_type.rs:396`),
  so indexed fields with defaults would be neither checked nor entered.
* `MaxHeld = 0` (`graph_statements`): `update` deletes the entry of the value in the
  copy it was given (`update.rs:178`); through a copy older than the last update
  the current entry survives.
* `MissingEnds = FALSE` (`graph_statements`): `add_edge` does not look its ends up,
  so an id of a dropped item makes a dangling edge. `graph_stale` allows it.
* `KillsConversion = FALSE` (`startup_phases`): see the conversion of vectors above.
* A node with a term longer than a key of LMDB, stored while the pause was set,
  makes every later start without the pause fail (`storage_migration.rs:161`);
  the model has it (`Unindexable`), and `StartupSettles` counts a reported error
  as settled.
* `bypassed` and `spoiled` nodes (`text_index`): see the rebuild above. An UPDATE of
  several nodes whose later document fails, the error swallowed by
  `collect_to_obj` (`update.rs:249`), is not modelled.
* `gaps = {}` (`hql_meaning`). FOR, objects, ORDER, and RANGE, COUNT and FIRST after
  COUNT or a grouping are not followed.
* `PagesInOrder` holds of sessions no two calls of which overlapped, without a
  search and without a commit between a tool call and the first next.

## 4. Fairness

`WorkerPool!FairSpec` assumes weak fairness of each thread and of the end of a
future that has sent its closure: operating-system threads and tokio tasks that
are ready run. Weak fairness is enough for all but one of their steps, because a
thread with work stays enabled until it moves, and flume hands messages to blocked
receivers. The exception is `Begin`: LMDB's writer mutex is taken and given back by
others while a thread waits for it, and no part of the code makes it fair. That it is
not kept from a waiting thread for ever (`MutexFairness`, strong fairness of `Begin`)
is therefore not assumed of the system but is an antecedent of both properties. So is,
for `EveryoneAnswered`, that the embedding provider answers, since its client
has no timeout. In `pool_liveness` workers and the writer contend for the mutex: a
`/v1/query` read opens a write transaction on a worker. Without `MutexFairness` TLC
finds that the worker waits for ever while the writer, always busy, takes the mutex again
and again, and that a text search which needs no mutex then starves as well: the even
worker waits for the mutex and the odd one blocks on continuations.
Nothing is promised of writes behind a provider that stays silent: the writer waits
for it.

`SchemaMigration` and `StorageStartup` assume weak fairness of the start-up
sequence only, a single thread with nothing to wait for, and `ShortestPaths` that
of the worker thread that runs the query. Kills, deployments,
restarts and queries have no fairness, and `TextIndex`, `HqlCompiler`,
`McpSession`, `VectorIndex` and `AgentMemory` have safety properties only; kills are bounded,
which the liveness properties need, since a process killed for ever never serves.

## 5. Proofs

`GraphStoreProofs` proves of `GraphStore!Spec`, for all constants that satisfy
`DisjointIds`, `SchemaAssumption` and `UsageAssumption` (any schema, any hash
function, any number of ids, held copies and missing ends allowed):

* `TypeCorrect`, `[]TypeOK`. `TypeOK` is inductive. It includes the types of
  `committed` and `held`, which `Abort` and the update of a copy bring back.
* `AdjacencyHolds`, `[]AdjacencyMirrored`. The property is not inductive: a copy
  of an edge written back by `UpdateE` must agree with the entries of an edge that
  is still there, and an insert must not reuse an id that an entry or a copy
  names. `AdjacencyInv` adds both: edge ids in use are issued, and all copies of
  one edge agree with its record on label and ends.
* `DocsHold`, `[]DocsFresh`. `DocsInv` adds that a stored record and a held copy
  of one id have one label, on which the exclude list is decided, and that ids in
  use are issued, so that a new node has no document.

Five more invariants need preconditions (section 3 says what the code does without
them). All five assume `MaxHeld = 0`: `held` stays empty, so a statement works on
the stored record.

* `OneEdgeHolds`, `[]OneEdgePerPair`. The duplicate check reads entries, so the
  strengthening is that every stored edge has its entry; `AdjacencyMirrored` is the
  other direction.
* `NoDanglingHolds`, `[]NoDanglingEdge`, with `~MissingEnds`. `DetachedSound` shows
  from the same strengthening that a drop meets every edge of the item.
* `IndexSoundHolds`, `[]IndexSound`, inductive with `DocsInv`, which gives a new
  node an identifier no stored node has.
* `IndexCompleteHolds` and `UniqueHolds`, with `~FreshFields` and no default for an
  indexed field. A delete on a unique index takes the entry whoever owns it, and
  `update` looks for another owner only among the entries; so `IndexComplete` is
  inductive only with `OneOwner` (a unique index has one owner per value), and the
  two give `UniqueValues`. Insert, UPDATE and both upserts are shown to be of one
  form, `Stores` and `Minds`, about which there is one lemma for each invariant.

Each proof has one step per action (`NextType`, `NextMirrors`, `NextDocs`,
`NextEdges`, ...); the operators on tables (`Put`, `Restrict`, `Delete`, `Overlay`) and
the parts shared by statements (`InsertNode`, `WriteNode`, `DetachEdges`,
`WriteEdge`) have lemmas of their own.

`SchemaMigrationProofs` proves of `SchemaMigration!Spec`, for every list of
releases (gaps, several labels and hash-map orders included), every batch size
and any number of kills:

* `TypeCorrect`, `[]TypeOK`, with `RunnerState`: a runner that runs has
  transitions to run and no gap, and one that does not has an empty queue. Without
  it `First` could be asked of an empty chain.
* `StepsHold`, `[]StepsInOrder`. Inductive with `TypeOK`, because a chunk looks
  at the version of an item again in the transaction that rewrites it, and writes
  version and properties together.
* `CompletionHolds`, `CompleteWhenDone`. `ScanCovers` is the strengthening: during the
  passes over nodes and over edges every item still at the old version is in the
  scan's list. It rests on nothing being created while the runner runs.
* `GapHolds`, `GapHaltsFirst`, from `RunnerState`.

`StorageProofs` proves of `StorageStartup!Spec`, for every set of vectors,
levels, nodes and initial contents that `InitialAssumption` types:

* `TypeCorrect`, `[]TypeOK`, with `TodoOK`: what a phase has still to do is part of
  the table it scanned.
* `RepairedHolds`, `[]Repaired`, and `RemovalHolds`, `OnlyOrphansRemoved`. `RepairInv`
  says that the missing levels are in the list while levels are repaired, that the
  list is exactly the orphans while edges are removed, and that later there are
  none of either.
* `IndexHolds`, `[]IndexComplete`. `IndexInv` adds that a rebuild in progress has
  version 0 and that documents and remaining nodes make up all that is wanted.
* `ConversionHolds`, `[]VectorsReadable`, assuming `~ KillsConversion`. `ConversionInv`
  gives every key the byte order it must have at its place in the conversion:
  native when it is done, the declared one when it is in the list. The list is
  in memory only, so the invariant fails with a kill.

`StorageProofs` also proves of `VectorIndex!VectorsSpec`, for every number of vectors,
labels, distances, m and ef, the inductive invariant `VectorsInv` (`VectorsInvariant`;
TLC checked it on the states of `vector_index` before) and from it the four properties of
that run. It joins tables and links, and says more than they do:

* `LinksOK`: no link joins two labels. `EntriesAlive`, `[]EntryAlive`, rests on it: the
  heir of an entry point is a neighbour, and must be of the label.
* `CrowdOK`: a label never crowded has the reverse of each link (`Mutual`).
  `LinksHaveReverses`, `[]SymmetricWhileSmall`, is part of it. What keeps it is a count:
  with at most m + 1 vectors of a label a vector has at most m neighbours, so
  `Selections` leaves none of them out and `PruneIfOverDegree`, at 2m, takes none.
* `RebuildOK`: during a rebuild both ends of every link are there (`Clean`), so no
  search, relinking or pruning meets a vector without data: `RebuildsSucceed`,
  `[]RebuildSucceeds`, whatever the links were before.
* `ReachOK`: no vectors of a small label that lost none are cut off from the others
  (`Connected`): a new one is linked both ways to one that was there. `AllFound`,
  `[]AllFoundWhileSmall`, needs besides that the closest `ef` results do not end the
  search before all are found, its hypothesis `EfCovers`: m < ef. The defaults are 16
  and 512; the ranges `HNSWConfig::new` clamps to would also allow an ef of 10 with an
  m of 48, where a search keeps to its 10 results and does not return more live vectors. Vectors
  at one distance are ordered by their ids; the code leaves their order to the heap.
* The lemmas `SearchIn`, `SetNeighboursSound`, `LinkOutcomesSound` are about the
  loops of `search_level`, `set_neighbours` and `insert`, which the module writes as
  recursive functions; each is an induction by least counterexample.

`HqlCompilerProofs` proves `ReadersNeverWrite`, `[]ReadersDoNotWrite`, of
`HqlCompiler!Spec`, for every schema, set of graphs, and number of steps and
statements. The strengthening says of the query under compilation that `is_mut`
tells whether one of its statements, or the traversal being compiled, writes, and
of a run that the compiled statements do not change and that a query without
writes has left the graph as it was.

It also proves `TypesAreSound`, `[]TypeSound`: a query the analyzer accepts binds each
variable to what the analyzer says of it. Its invariant `TInv` speaks of queries that met
none of `gaps`:

* `Described(g, nl, vl)`: every id of a graph has one label for good (`nl`, `vl`), because
  `v6_uuid` gives no id twice (`g.next`); edges lead where the schema says. Each write
  keeps it (`UpdateDescribed`, `UpsertDescribed`, `DropDescribed`).
* `Typed(nl, vl, kind, label, items)`: the items of an iterator are of a kind and a label,
  or errors. An item in a variable may be a stale copy of a record that was changed or
  dropped since: only its id and label are relied on.
* `GenOK`, `QueryOK`: in every described graph, with variables as typed so far, the
  traversal under construction yields items of `cur_ty`, at most one where it is
  collected as one; and each compiled statement binds what `scope` says. What one more
  step adds is a lemma about its operator of `TraversalOps`.
* `RunOK`: the variables bound so far conform, and the graph is described.

And `MeaningIsKept`, `[]MeaningKept`: unless it met one of `gaps`, a statement that runs
does what its text means. The text is read by `MeaningOf`, step by step and without the
analyzer's rewritings; the proof compares it with `RunStatement` of the generated code.
Its invariant `MInv` rests on the two above and says of a query without gaps:

* `Whole` graphs: an edge has both its ends, and a record the fields of its table. Only
  then does the index lookup a filter was folded into find what the filter keeps, and
  DROP, item by item, leave what `DropAll` leaves. Every write keeps a graph whole
  (`UpdateWhole`, `UpsertWhole`, `DropMeans`).
* `Same(sc, w, c)`: on every whole graph and for every content of the variables that the
  scope `sc` allows, the generated traversal `c` yields what the source text `w` means.
  One more step keeps it if it is generated as it is meant (`StepMeans`, one lemma for
  each operator of `TraversalOps`). The rewritings need more: that filters change places
  (`Commutes`, for a lookup folded into the source after other filters), and that the
  traversal so far is one item exactly where it is typed so (`OpenMeans`, for the way to
  collect).
* `QueryMeans`: each compiled statement, in the scope it was compiled in, does on such
  graphs what it means (`LetMeans`, `DropMeans`).
* `FindsAgain`, in `RunMeans`: while no statement has written, a lookup that the code
  generator put in the place of a variable finds again what the variable holds. This is what
  `reread` breaks.

The proof assumes of `Graphs` that records have exactly the fields of their table and that
no id is both a node's and a vector's (`v6_uuid` gives ids to both). `MInv`
quantifies over every graph, which TLC cannot enumerate: TLC checks `MeaningKept` and
the invariants before it, and the proofs of `MInvStep` what lies between.

`TraversalProofs` proves of `McpSession!Spec`, for any number of sessions and
workers, any tools and graphs:

* `SerialAgentsNeverAbort`, `[]AbortNeedsOverlap`. The inductive invariant has `Known`
  (a call under way is of a session that was created), `Alone` (a session no two calls
  of which overlapped has at most one call under way) and `CacheKept` (the session of
  such a hit still has its cache).
* `SerialAgentsPageInOrder`, `[]PagesInOrder`. `PagesInv` adds what is known before
  there is a cache: the position is after the first page, which is the head of what the
  chain yields on the graph the tool call saw (`FirstRight`); and of a call between its
  two locks, that what it has read of its session is still so (`CallRight`).

  That a result is a finite sequence, whatever the chain, is a fact about the operators
  of `TraversalOps`: about `FlattenSeq` (`FlattenedList`), about `FoldLeft`, a recursive
  function on the subsets of the positions of a chain (`FoldedExists`, `ChainResult`),
  and about each step (`StepList`). They are argued by least counterexamples, as the sums
  of the full-text index are. `GraphAssumption` says that graphs are finite and none is
  the value that stands for nothing, `ResultAssumption` that no result is.

`TraversalProofs` also proves of `ShortestPaths!PathsSpec`, for every finite set of
items, every snapshot with any weights and estimates, and every query of the three
algorithms:

* `AnswersHold`, `[]AnswerRight`, with `NoCollision`: no two labels share a hash,
  since the scan follows the edges of a colliding label as well. The invariant is `PathsInv`. `Tree` says that a search knows an item at no less than the
  distance of its parent and the cost of the edge from there; the parent may have come
  nearer since. An item is `Scanned` when every edge from it leads no further than is
  known. The two frontiers say which items may not be: `QueueOK`, those in the queue,
  whose distances are in order and differ by one at most; `HeapOK`, those with an entry
  of their distance in the heap. `Cheapest` says that nothing is nearer than what the
  reconstruction starts from, `PathOK` that its edges cost no more than that.

  Why the first arrival is a cheapest one: a walk to the target passes an item that is
  known at no more than the walk costs so far and is not scanned (`WalkWaits`). That item
  is in the frontier, behind the entry popped: by the order of the queue, or because its
  estimate does not exceed the rest of the walk (`WalkPromised`). Estimates need not be
  consistent: nothing says that an item is expanded once.

  `WalkCosts` and `PathCost` are recursive functions on numbers. `CostsRecursion` and
  `TotalIsSum` show that functions with these recursions exist, `AllNumbers` stands for
  induction. The walks have at most as many edges as there are items, which is enough
  where no weight is negative.

`WorkerPoolProofs` proves of `WorkerPool!Spec`, for any numbers of requests and
workers, any room in the channels and any mix of routes:

* `HalvesApart`, `[](TypeOK /\ OneWrite)`. The types split the pool: a request of a
  write route is only ever in the writer's channels, hand and futures, and all of
  these but the queue hold the one request the writer works on.
* `NoRequestLost`, `[]NothingLost`. `Placed` is the strengthening: a request is
  queued, held, pending or returned exactly while its client waits or is gone, only
  one of these at a time, and in one place. Channels are sequences without
  repetition, which each lemma about an end of a channel carries along.
* `PoolImplementsService`: every step of the pool is a step of `RequestService` or
  stutters under the mapping `Phase`, `Order`. `Order` is the request the writer has
  begun (`Underway`) followed by those in its channel (`Accepted`); an accepted request
  that a sender still holds back is none of them, so the moment of acceptance is the
  move into the room, and it is the writer's steps alone that shift `Order`.

`TextIndexProofs` proves of `TextIndex!Spec`, for all nodes, terms, documents, sizes
of chunks and of queries, numbers of kills and of intruding requests:

* `TypeCorrect`, `[]TypeOK`. `Control` is part of it: an error leaves its transaction
  open and ends its walk, and a walk is under way in a transaction only.
* `SearchNeverBroken`, `[]SearchSucceeds`, from `DocsInv`. Between two steps of a
  walk the postings of its document are neither the old nor the new one; `Halfway`
  says what they are, the old counts of the terms the walk has yet to leave and the
  new ones of those it has reached. Every saved copy has the invariant too, so that
  a rollback restores it.
* `TablesStayTogether`, `[]TablesAgree`, from `DocsInv` and `FreqInv`: the frequency
  of a term is the number of its postings, also in the middle of a walk.
* `TotalsRight`, `[]TotalsMatch`. `TotalsInv` leaves out the document of a walk that
  inserts one, whose length is written before the totals are.
* `IndexTracksNodes`, `[]IndexFollowsNodes`. `FollowInv` says that a walk will make of
  its document what its node says, that a rebuild between two chunks still has every
  node the index lacks in its list (`Awaits`), and both of the copy a kill restores.
* `NoHalfRebuildStamped`, `[]PartialIsUnstamped`, inductive with its form for the copy.

A length is a sum over the terms of a document, written with a fold of the
community modules. The theorems about recursive definitions take an operator, which
no prover here can instantiate; `LeastNumber` and `SmallestSet` (a nonempty family of
finite sets has a smallest member) give the existence and uniqueness of the sum
instead, `SumRemove` that its order does not matter, and the lemmas `Length*` what
adding, changing and deleting a term does to it. What one step changes is stated once,
in `StepKinds`, from which frequencies, totals and nodes are argued. `NoneAssumption`
says that the value that stands for no transaction is not one.

`AgentMemoryProofs` proves of `AgentMemory!Spec`, for any agents, titles, entities and
limits of a recall, and any number of kills and failed transactions:

* `TypeCorrect`, `[](TypeOK /\ Ids)`. Every other proof rests on `Ids`: `Fresh` (an id
  about to be written is new and its caller's own), `Refers` (an id that a call or a
  handle holds is of the kind of node it is taken for), `Owned` (a run is filled by one
  agent, and by none once its end has begun).
* `NothingForgotten`, the action property `[][Kept]_vars`: no node, edge or entry
  goes, a resolved question stays resolved and an ended run ended.
* `DuplicatesOverlap`, `[]DuplicateNeedsOverlap`: two calls that are about to write one
  title have overlapped, and so have a call and a thread written under its eyes.
* `OpenQuestionsCarried`, `[]QuestionsCarried`. `DueInv` says of a start under way that
  each question it owes is carried over, still on its list, or resolved. That the list
  is complete when it is read is `IndexedInv`.
* `AcknowledgedFound`, `[]AcknowledgedKept`. The counts of a summary are true when it is
  written because of `Owned`: nobody adds to a run whose end has begun.
* `NoRunFollowsItself`, `[]FollowsAcyclic`. `ChainInv`: only a run that has ended is
  followed, and one is written before it follows.
* `RecallAnswers`, `[]RecallSound`. `RecallPart` relates what a recall has listed so far
  to what there was when it began, part by part.

Lemmas about least and largest elements of sets of numbers stand in the modules that
need them (the first transition of a chain, the highest level of a vector).

Every safety property of the runs is proved. Only model-checked is liveness: `EveryoneAnswered`,
`ReadsProceed`, `StartupEnds`, `StartupSettles` and `SearchEnds`. Liveness and `ENABLED` are
beyond the prover, as is induction over data: what a recursion or fold computes is proved
only where, as for the sums, the chains and the loops of the vector index, a least
counterexample can be stated without one.

## 6. What is abstracted

Values, names and messages are members of small sets. Scores, distances and, but for
the weights of `ShortestPaths`, the properties of edges are left out. In `GraphStore` and `StorageStartup` a document
is the properties it was built from (`TextIndex` has its tables); a vector in
`GraphStore` is an id that has data. `StorageStartup` does track vectors by level and
byte order. `AgentMemory` leaves out claims, question texts and priorities, joins
parallel edges of one label and ends (a question answered twice by one finding) into
one, and gives each agent one thread and one run handle at a time; `count_distinct`,
`findings_for_entity` and `threads`, which only read, are left out. Weights and
estimates of `ShortestPaths` are exact numbers: rounding, NaN and infinity are left
out, as are the items of a source that are no nodes, which pass through. Serialisation
errors, a full disk and a full LMDB map are not modelled; a statement fails for
the reasons the code tests for, and `Abort` covers any other failure, since the
transaction is dropped in both cases. The release profile aborts on a panic, so a
panic is a kill. Threads are never joined at shutdown, so a stop is a kill, too.
A uniqueness conflict on a later item of one UPDATE is dropped by
`collect_to_obj`; the model has both outcomes (`UpdateRefused`) and no property
about what the caller is told.

## 7. Not modelled, and the plan

Written and checked, in the order of the plan: `GraphStore`, `WorkerPool` over
`RequestService`, `SchemaMigration`, `StorageStartup`, `TextIndex`, `McpSession`,
`TraversalOps`, `HqlCompiler`, `VectorIndex`, `AgentMemory` and `ShortestPaths`. Still
to do:

1. Vectors created by `add_n_with_vectors` and `upsert_v`, which join `VectorIndex` to
   `GraphStore`; a changed m between two starts.
2. The other mutations of the run-time evaluator and of v1 compatibility.
3. FOR, objects, creation and searches in `HqlCompiler`.
4. `GatewayStartup` (thread counts), tokens, settings.

Out of scope: rerankers and scores (floating point), serialisation and values
(data conversion), SDKs, command-line tool, Studio, Chef and benchmarks (clients
and user interface), embedding providers (an environment that may answer, fail or
stay silent), metrics and memory monitor (nothing depends on them).
