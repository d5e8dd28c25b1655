------------------------------ MODULE TextIndex ------------------------------
(***************************************************************************)
(* The full-text index of sparrow_engine/bm25: postings, document           *)
(* frequencies, reverse entries, document lengths and collection totals,    *)
(* the statements that keep them in step with the nodes, and the rebuild    *)
(* that clears and refills them, on request or when a server starts.        *)
(*                                                                          *)
(* A document is what is left of a node after tokenising: how often each    *)
(* term occurs.  Terms are numbers, in the order of their bytes.  An insert,*)
(* an update and a delete of a document are one walk over the sorted terms  *)
(* of what is indexed (old) and of what shall be (new); a step of the walk  *)
(* writes one posting, so a walk that fails half way leaves what it wrote   *)
(* in the transaction.                                                      *)
(***************************************************************************)
EXTENDS Integers, FiniteSets, FiniteSetsExt, LmdbTables

CONSTANTS
    Nodes,            \* ids, in the order of nodes_db
    Terms,            \* tokens of more than two bytes
    LongTerms,        \* too long for a key of the inverted index
    WideTerms,        \* fit a key, and not an entry of the reverse index
    Documents,        \* term counts a node may have
    NoProps,          \* Node::properties = None
    None,             \* no transaction, no walk
    Excluded,         \* nodes whose label is in bm25_exclude_labels
    ChunkSize,        \* nodes per transaction of a rebuild
    CompatWrites,     \* v1 requests that write from a reader thread while
                      \* the rebuild runs
    RuntimeDrops,     \* DROP through the run-time evaluator
    MaxStatements,    \* of a query
    MaxCrashes

Counts == Nat \ {0}
IsTable(f, K, V) == DOMAIN f \subseteq K /\ f \in [DOMAIN f -> V]
Contents == Documents \cup {NoProps}
NoMeta == [docs |-> 0, sum |-> 0]

ASSUME TermAssumption ==
    /\ Nodes \subseteq Nat /\ IsFiniteSet(Nodes)
    /\ Terms \subseteq Nat /\ IsFiniteSet(Terms)
    /\ LongTerms \subseteq Terms /\ WideTerms \subseteq Terms
    /\ \A c \in Documents : IsTable(c, Terms, Counts)
    /\ NoProps \notin Documents
ASSUME JobAssumption ==
    /\ Excluded \subseteq Nodes
    /\ ChunkSize \in Nat \ {0} /\ MaxStatements \in Nat \ {0}
    /\ MaxCrashes \in Nat
    /\ CompatWrites \in Nat /\ RuntimeDrops \in BOOLEAN

VARIABLES
    nodes,      \* nodes_db: id -> content
    post,       \* inverted_index_db, the DUP_SORT set of <<term, id, count>>
    df,         \* term_frequencies_db: term -> number of documents
    rev,        \* reverse_index_db: id -> its terms and counts
    lens,       \* doc_lengths_db: id -> number of tokens
    meta,       \* BM25Metadata, the average length as a sum
    stamped,    \* the version key holds BM25_SCHEMA_VERSION
    issued,     \* ids given out
    saved,      \* contents before the open transaction, or None
    walk,       \* the document operation under way, or None
    failed,     \* the open transaction met an error
    skip,       \* skip_bm25_writes
    up,         \* the server answers requests
    job,        \* "none", or the rebuild under way: its phase
    todo,       \* nodes the rebuild has read and not yet indexed
    room,       \* nodes or statements the open transaction still takes
    crashes,
    intruded,   \* v1 requests so far that wrote during a rebuild
    bypassed,   \* history: written past the index
    spoiled,    \* history: indexed in part, the error only logged
    partial     \* history: cleared and not yet filled

tables == <<nodes, post, df, rev, lens, meta, stamped>>
history == <<bypassed, spoiled, partial>>
vars == <<tables, issued, saved, walk, failed, skip, up, job, todo, room,
          crashes, intruded, history>>

Copy == [nodes |-> nodes, post |-> post, df |-> df, rev |-> rev,
         lens |-> lens, meta |-> meta, stamped |-> stamped,
         bypassed |-> bypassed, spoiled |-> spoiled, partial |-> partial]

(* Every copy and every walk is one of these records; None is not.         *)
TermCounts == Tables(Terms, Counts)

Copies ==
    [nodes : Tables(Nodes, Contents), post : SUBSET (Terms \X Nodes \X Counts),
     df : Tables(Terms, Counts), rev : Tables(Nodes, TermCounts),
     lens : Tables(Nodes, Nat), meta : [docs : Nat, sum : Int],
     stamped : BOOLEAN, bypassed : SUBSET Nodes, spoiled : SUBSET Nodes,
     partial : BOOLEAN]

Walks ==
    [doc : Nodes, old : TermCounts, new : TermCounts, target : TermCounts,
     fresh : BOOLEAN, gone : BOOLEAN, lenient : BOOLEAN, length : Nat, was : Nat]

ASSUME NoneAssumption == None \notin Copies /\ None \notin Walks

Restore(c) ==
    /\ nodes' = c.nodes /\ post' = c.post /\ df' = c.df /\ rev' = c.rev
    /\ lens' = c.lens /\ meta' = c.meta /\ stamped' = c.stamped
    /\ bypassed' = c.bypassed /\ spoiled' = c.spoiled
    /\ partial' = c.partial

(* What a read transaction sees.                                            *)
Visible == IF saved = None THEN Copy ELSE saved

-----------------------------------------------------------------------------
(* Documents *)

Length(c) == MapThenSumSet(LAMBDA t : c[t], DOMAIN c)

(* classify_doc_presence *)
Presence(d, l, r) ==
    CASE d \notin DOMAIN l /\ d \notin DOMAIN r -> "absent"
      [] d \in DOMAIN l /\ d \notin DOMAIN r /\ l[d] = 0 -> "empty"
      [] d \in DOMAIN l /\ d \in DOMAIN r /\ l[d] > 0 -> "indexed"
      [] OTHER -> "broken"

Indexed(d) == IF d \in DOMAIN rev THEN rev[d] ELSE EmptyTable

Skips(d) == skip \/ d \in Excluded
Bypasses(d) == skip /\ d \notin Excluded

(* A walk: fresh for a new document, gone for one that is deleted; lenient  *)
(* if its caller logs an error and goes on.                                 *)
Walk(d, old, new, fresh, gone, lenient) ==
    [doc |-> d, old |-> old, new |-> new, target |-> new, fresh |-> fresh,
     gone |-> gone, lenient |-> lenient, length |-> Length(new),
     was |-> IF d \in DOMAIN lens THEN lens[d] ELSE 0]

Fail(d, lenient) ==
    /\ walk' = None
    /\ failed' = ~lenient
    /\ spoiled' = IF lenient THEN spoiled \cup {d} ELSE spoiled

(* insert_doc, insert_doc_for_node; the length is written first             *)
InsertDoc(d, c, lenient) ==
    \/ /\ Presence(d, lens, rev) = "absent"
       /\ lens' = Put(lens, d, Length(c))
       /\ walk' = Walk(d, EmptyTable, c, TRUE, FALSE, lenient)
       /\ UNCHANGED <<failed, spoiled>>
    \/ /\ Presence(d, lens, rev) # "absent"
       /\ walk' = None
       /\ failed' = ~lenient
       /\ UNCHANGED <<lens, spoiled>>

(* update_doc, update_doc_for_node *)
UpdateDoc(d, c, lenient) ==
    \/ /\ Presence(d, lens, rev) = "absent"
       /\ InsertDoc(d, c, lenient)
    \/ /\ Presence(d, lens, rev) \in {"empty", "indexed"}
       /\ walk' = IF Indexed(d) = c THEN None
                  ELSE Walk(d, Indexed(d), c, FALSE, FALSE, lenient)
       /\ UNCHANGED <<lens, failed, spoiled>>
    \/ /\ Presence(d, lens, rev) = "broken"
       /\ Fail(d, lenient)
       /\ UNCHANGED lens

(* delete_doc *)
DeleteDoc(d, lenient) ==
    \/ /\ Presence(d, lens, rev) = "absent"
       /\ UNCHANGED <<walk, failed, spoiled>>
    \/ /\ Presence(d, lens, rev) \in {"empty", "indexed"}
       /\ walk' = Walk(d, Indexed(d), EmptyTable, FALSE, TRUE, lenient)
       /\ UNCHANGED <<failed, spoiled>>
    \/ /\ Presence(d, lens, rev) = "broken"
       /\ Fail(d, lenient)

(* insert_posting and delete_posting, as relations between the table pairs  *)
(* before and after.                                                        *)
WithPosting(d, t, n, p, f) ==
    [post |-> p \cup {<<t, d, n>>},
     df |-> Put(f, t, IF t \in DOMAIN f THEN f[t] + 1 ELSE 1)]

(* Mutant: the frequency of a term is not lowered.                          *)
WithoutPostingOnly(d, t, n, p, f) == [post |-> p \ {<<t, d, n>>}, df |-> f]

WithoutPosting(d, t, n, p, f) ==
    [post |-> p \ {<<t, d, n>>},
     df |-> IF f[t] <= 1 THEN Delete(f, t) ELSE Put(f, t, f[t] - 1)]

Removable(d, t, n) == <<t, d, n>> \in post /\ t \in DOMAIN df

(* The merge takes the smallest term that is left on either side.           *)
Pending(w) == DOMAIN w.old \cup DOMAIN w.new
NextTerm(w, t) == t \in Pending(w) /\ \A u \in Pending(w) : t <= u

OnlyOld(w, t) == t \in DOMAIN w.old \ DOMAIN w.new
OnlyNew(w, t) == t \in DOMAIN w.new \ DOMAIN w.old
Changed(w, t) ==
    t \in DOMAIN w.old \cap DOMAIN w.new /\ w.old[t] # w.new[t]

Advance(t) ==
    walk' = [walk EXCEPT !.old = Delete(@, t), !.new = Delete(@, t)]

aside == <<nodes, rev, lens, meta, stamped, issued, saved, skip, up, job,
           todo, room, crashes, intruded, bypassed, partial>>

RemovePosting ==
    /\ walk # None
    /\ \E t \in Pending(walk) :
       /\ NextTerm(walk, t) /\ OnlyOld(walk, t)
       /\ Removable(walk.doc, t, walk.old[t])
       /\ LET x == WithoutPosting(walk.doc, t, walk.old[t], post, df) IN
          post' = x.post /\ df' = x.df
       /\ Advance(t)
    /\ UNCHANGED <<failed, spoiled, aside>>

AddPosting ==
    /\ walk # None
    /\ \E t \in Pending(walk) :
       /\ NextTerm(walk, t) /\ OnlyNew(walk, t)
       /\ t \notin LongTerms
       /\ LET x == WithPosting(walk.doc, t, walk.new[t], post, df) IN
          post' = x.post /\ df' = x.df
       /\ Advance(t)
    /\ UNCHANGED <<failed, spoiled, aside>>

KeepPosting ==
    /\ walk # None
    /\ \E t \in Pending(walk) :
       /\ NextTerm(walk, t)
       /\ t \in DOMAIN walk.old /\ t \in DOMAIN walk.new
       /\ walk.old[t] = walk.new[t]
       /\ Advance(t)
    /\ UNCHANGED <<post, df, failed, spoiled, aside>>

(* Mutant: a term of both documents keeps its old posting.                  *)
IgnorePosting ==
    /\ walk # None
    /\ \E t \in Pending(walk) :
       NextTerm(walk, t) /\ Changed(walk, t) /\ Advance(t)
    /\ UNCHANGED <<post, df, failed, spoiled, aside>>

ReplacePosting ==
    /\ walk # None
    /\ \E t \in Pending(walk) :
       /\ NextTerm(walk, t) /\ Changed(walk, t)
       /\ Removable(walk.doc, t, walk.old[t])
       /\ LET x == WithoutPosting(walk.doc, t, walk.old[t], post, df)
              y == WithPosting(walk.doc, t, walk.new[t], x.post, x.df)
          IN post' = y.post /\ df' = y.df
       /\ Advance(t)
    /\ UNCHANGED <<failed, spoiled, aside>>

(* A posting that is missing, or a term LMDB refuses as a key.              *)
PostingFails ==
    /\ walk # None
    /\ \E t \in Pending(walk) :
       /\ NextTerm(walk, t)
       /\ \/ /\ OnlyOld(walk, t) \/ Changed(walk, t)
             /\ ~Removable(walk.doc, t, walk.old[t])
          \/ OnlyNew(walk, t) /\ t \in LongTerms
    /\ Fail(walk.doc, walk.lenient)
    /\ UNCHANGED <<post, df, aside>>

-----------------------------------------------------------------------------
(* The end of a walk: reverse entries, length and collection totals.        *)

(* Mutant: the totals forget that a document has changed its length.        *)
RecordedOnce(w) ==
    CASE w.fresh -> [docs |-> meta.docs + 1, sum |-> meta.sum + w.length]
      [] w.gone  -> [docs |-> meta.docs - 1,
                     sum |-> IF meta.docs > 1 THEN meta.sum - w.was ELSE 0]
      [] OTHER   -> meta

(* record_insert, record_update, record_delete; missing totals are zero.    *)
Recorded(w) ==
    CASE w.fresh -> [docs |-> meta.docs + 1, sum |-> meta.sum + w.length]
      [] w.gone  -> [docs |-> meta.docs - 1,
                     sum |-> IF meta.docs > 1 THEN meta.sum - w.was ELSE 0]
      [] OTHER   -> [meta EXCEPT !.sum = @ - w.was + w.length]

Records(w) == w.fresh \/ w.gone \/ w.was # w.length

Recordable(w) == Records(w) => w.fresh \/ meta.docs > 0

(* The entries replace_reverse_entries has put when it returns.             *)
Stored(c) ==
    IF DOMAIN c \cap WideTerms = {} THEN c
    ELSE Restrict(c, {t \in DOMAIN c : t < Min(DOMAIN c \cap WideTerms)})

StoreReverse(w) ==
    rev' = IF DOMAIN Stored(w.target) = {} THEN Delete(rev, w.doc)
           ELSE Put(rev, w.doc, Stored(w.target))

Finishing == walk # None /\ Pending(walk) = {}

(* Mutant: a document that became empty keeps its old length.               *)
EndWalkKeepingLength ==
    /\ Finishing
    /\ StoreReverse(walk)
    /\ Stored(walk.target) = walk.target
    /\ lens' = IF walk.gone THEN Delete(lens, walk.doc) ELSE lens
    /\ Recordable(walk)
    /\ meta' = IF Records(walk) THEN Recorded(walk) ELSE meta
    /\ walk' = None
    /\ UNCHANGED <<nodes, post, df, stamped, issued, saved, failed, skip, up,
                   job, todo, room, crashes, intruded, bypassed, spoiled,
                   partial>>

EndWalk ==
    /\ Finishing
    /\ StoreReverse(walk)
    /\ Stored(walk.target) = walk.target
    /\ lens' = IF walk.gone THEN Delete(lens, walk.doc)
               ELSE Put(lens, walk.doc, walk.length)
    /\ \/ /\ Recordable(walk)
          /\ meta' = IF Records(walk) THEN Recorded(walk) ELSE meta
          /\ walk' = None
          /\ UNCHANGED <<failed, spoiled>>
       \/ /\ ~Recordable(walk)
          /\ Fail(walk.doc, walk.lenient)
          /\ UNCHANGED meta
    /\ UNCHANGED <<nodes, post, df, stamped, issued, saved, skip, up, job,
                   todo, room, crashes, intruded, bypassed, partial>>

ReverseFails ==
    /\ Finishing
    /\ Stored(walk.target) # walk.target
    /\ StoreReverse(walk)
    /\ Fail(walk.doc, walk.lenient)
    /\ UNCHANGED <<nodes, post, df, lens, meta, stamped, issued, saved, skip,
                   up, job, todo, room, crashes, intruded, bypassed, partial>>

-----------------------------------------------------------------------------
(* Statements.  The writer thread runs one query or the rebuild at a time;  *)
(* a v1 request may write from another thread between the transactions of   *)
(* the rebuild, which LMDB lets in whenever none is open.                   *)

Begin ==
    /\ up
    /\ saved = None
    /\ \/ job = "none" /\ UNCHANGED intruded
       \/ /\ job # "none" /\ intruded < CompatWrites
          /\ intruded' = intruded + 1
    /\ saved' = Copy
    /\ failed' = FALSE
    /\ room' = MaxStatements
    /\ UNCHANGED <<tables, issued, walk, skip, up, job, todo, crashes,
                   history>>

InChunk == job = "chunk"
Ready == saved # None /\ ~failed /\ walk = None /\ ~InChunk

Commit ==
    /\ Ready
    /\ saved' = None
    /\ room' = 0
    /\ UNCHANGED <<tables, issued, walk, failed, skip, up, job, todo, crashes,
                   intruded, history>>

Abort ==
    /\ saved # None /\ ~InChunk
    /\ failed \/ walk = None
    /\ Restore(saved)
    /\ saved' = None
    /\ walk' = None
    /\ failed' = FALSE
    /\ room' = 0
    /\ UNCHANGED <<issued, skip, up, job, todo, crashes, intruded>>

(* add_n; upsert_n when nothing was found                                   *)
AddNode ==
    /\ Ready /\ room > 0
    /\ room' = room - 1
    /\ \E d \in Nodes \ issued, c \in Contents :
       /\ nodes' = Put(nodes, d, c)
       /\ issued' = issued \cup {d}
       /\ \/ /\ ~Skips(d) /\ c # NoProps
             /\ InsertDoc(d, c, FALSE)
             /\ UNCHANGED bypassed
          \/ /\ Skips(d) \/ c = NoProps
             /\ bypassed' = IF Bypasses(d) /\ c # NoProps
                            THEN bypassed \cup {d} ELSE bypassed
             /\ UNCHANGED <<lens, walk, failed, spoiled>>
    /\ UNCHANGED <<post, df, rev, meta, stamped, saved, skip, up, job, todo,
                   crashes, intruded, partial>>

(* update, upsert_n of a node that exists                                   *)
UpdateNode ==
    /\ Ready /\ room > 0
    /\ room' = room - 1
    /\ \E d \in DOMAIN nodes, c \in Documents :
       /\ nodes' = Put(nodes, d, c)
       /\ \/ /\ ~Skips(d)
             /\ UpdateDoc(d, c, FALSE)
             /\ bypassed' = bypassed \ {d}
          \/ /\ Skips(d)
             /\ bypassed' = IF Bypasses(d) THEN bypassed \cup {d} ELSE bypassed
             /\ UNCHANGED <<lens, walk, failed, spoiled>>
    /\ UNCHANGED <<post, df, rev, meta, stamped, issued, saved, skip, up, job,
                   todo, crashes, intruded, partial>>

(* Mutant: a dropped node keeps its document.                               *)
DropWithoutDoc ==
    /\ Ready /\ room > 0
    /\ room' = room - 1
    /\ \E d \in DOMAIN nodes :
       /\ nodes' = Delete(nodes, d)
       /\ bypassed' = IF Bypasses(d) THEN bypassed \cup {d} ELSE bypassed
    /\ UNCHANGED <<post, df, rev, lens, meta, stamped, issued, saved, walk,
                   failed, skip, up, job, todo, crashes, intruded, spoiled,
                   partial>>

(* drop_traversal, and the v1 DropNodes step, which only logs an error of   *)
(* delete_doc and keeps the node dropped.                                   *)
DropNode ==
    /\ Ready /\ room > 0
    /\ room' = room - 1
    /\ \E d \in DOMAIN nodes, lenient \in {FALSE, CompatWrites > 0} :
       /\ nodes' = Delete(nodes, d)
       /\ \/ /\ ~Skips(d)
             /\ DeleteDoc(d, lenient)
             /\ bypassed' = bypassed \ {d}
          \/ /\ Skips(d)
             /\ bypassed' = IF Bypasses(d) THEN bypassed \cup {d} ELSE bypassed
             /\ UNCHANGED <<walk, failed, spoiled>>
    /\ UNCHANGED <<post, df, rev, lens, meta, stamped, issued, saved, skip,
                   up, job, todo, crashes, intruded, partial>>

(* execute_runtime_drop of the run-time evaluator: the node only            *)
DropNodeOnly ==
    /\ RuntimeDrops
    /\ Ready /\ room > 0
    /\ room' = room - 1
    /\ \E d \in DOMAIN nodes :
       /\ nodes' = Delete(nodes, d)
       /\ bypassed' = bypassed \cup {d}
    /\ UNCHANGED <<post, df, rev, lens, meta, stamped, issued, saved, walk,
                   failed, skip, up, job, todo, crashes, intruded, spoiled,
                   partial>>

(* The flag is read when a statement starts, not while a walk goes on.      *)
SetSkip ==
    /\ up /\ walk = None /\ ~failed
    /\ skip' = ~skip
    /\ UNCHANGED <<tables, issued, saved, walk, failed, up, job, todo, room,
                   crashes, intruded, history>>

-----------------------------------------------------------------------------
(* The rebuild.  On request it runs as a write handler and refuses to start *)
(* while the flag is set; a server that starts runs it unless the flag is   *)
(* set or the version is current.  The nodes are read in one transaction,   *)
(* the index is cleared in the next, and every chunk has its own.           *)

StartRebuild ==
    /\ up /\ ~skip
    /\ saved = None /\ job = "none"
    /\ job' = "clear"
    /\ todo' = nodes
    /\ UNCHANGED <<tables, issued, saved, walk, failed, skip, up, room,
                   crashes, intruded, history>>

Start ==
    /\ ~up /\ job = "none"
    /\ \E paused \in BOOLEAN :
       /\ skip' = paused
       /\ \/ /\ paused \/ stamped
             /\ up' = TRUE
             /\ UNCHANGED <<job, todo>>
          \/ /\ ~paused /\ ~stamped
             /\ job' = "clear"
             /\ todo' = nodes
             /\ UNCHANGED up
    /\ UNCHANGED <<tables, issued, saved, walk, failed, room, crashes,
                   intruded, history>>

Stale(d) == d \in DOMAIN todo => d \notin DOMAIN nodes \/ nodes[d] # todo[d]

(* Mutant: clear_all spares the version key.                                *)
ClearTables ==
    /\ job = "clear" /\ saved = None /\ job' = "gap"
    /\ post' = {} /\ df' = EmptyTable /\ rev' = EmptyTable
    /\ lens' = EmptyTable /\ meta' = NoMeta
    /\ partial' = TRUE /\ spoiled' = {}
    /\ bypassed' = {d \in issued : Stale(d)}
    /\ UNCHANGED <<nodes, stamped, issued, saved, walk, failed, skip, up,
                   todo, room, crashes, intruded>>

(* clear_all: the metadata table holds the version key too.                 *)
ClearIndex ==
    /\ job = "clear" /\ saved = None
    /\ post' = {} /\ df' = EmptyTable /\ rev' = EmptyTable
    /\ lens' = EmptyTable /\ meta' = NoMeta /\ stamped' = FALSE
    /\ partial' = TRUE /\ spoiled' = {}
    /\ bypassed' = {d \in issued : Stale(d)}
    /\ job' = "gap"
    /\ UNCHANGED <<nodes, issued, saved, walk, failed, skip, up, todo, room,
                   crashes, intruded>>

OpenChunk ==
    /\ job = "gap" /\ saved = None /\ DOMAIN todo # {}
    /\ saved' = Copy
    /\ failed' = FALSE
    /\ job' = "chunk"
    /\ room' = ChunkSize
    /\ UNCHANGED <<tables, issued, walk, skip, up, todo, crashes, intruded,
                   history>>

(* insert_doc_for_node on the copy read before the index was cleared; a     *)
(* document written since is left alone.                                    *)
IndexNode ==
    /\ InChunk /\ walk = None /\ ~failed /\ room > 0
    /\ DOMAIN todo # {}
    /\ LET d == Min(DOMAIN todo) IN
       /\ \/ /\ d \notin Excluded /\ todo[d] # NoProps
             /\ InsertDoc(d, todo[d], up)
             /\ bypassed' = IF Stale(d) /\ walk' # None
                            THEN bypassed \cup {d} ELSE bypassed
          \/ /\ d \in Excluded \/ todo[d] = NoProps
             /\ UNCHANGED <<lens, walk, failed, spoiled, bypassed>>
       /\ todo' = Delete(todo, d)
    /\ room' = room - 1
    /\ UNCHANGED <<nodes, post, df, rev, meta, stamped, issued, saved, skip,
                   up, job, crashes, intruded, partial>>

CloseChunk ==
    /\ InChunk /\ walk = None /\ ~failed
    /\ room = 0 \/ DOMAIN todo = {}
    /\ saved' = None
    /\ job' = "gap"
    /\ room' = 0
    /\ UNCHANGED <<tables, issued, walk, failed, skip, up, todo, crashes,
                   intruded, history>>

(* A start writes the version and opens the server; a request does neither. *)
EndRebuild ==
    /\ job = "gap" /\ saved = None /\ DOMAIN todo = {}
    /\ job' = "none"
    /\ partial' = FALSE
    /\ stamped' = (stamped \/ ~up)
    /\ up' = TRUE
    /\ UNCHANGED <<nodes, post, df, rev, lens, meta, issued, saved, walk,
                   failed, skip, todo, room, crashes, intruded, bypassed,
                   spoiled>>

(* A node a start cannot index ends the start.                              *)
StartFails ==
    /\ InChunk /\ failed
    /\ Restore(saved)
    /\ saved' = None /\ walk' = None /\ failed' = FALSE
    /\ job' = "none" /\ room' = 0 /\ todo' = EmptyTable
    /\ UNCHANGED <<issued, skip, up, crashes, intruded>>

(* Killed, or stopped with the log of a rebuild half written.               *)
Crash ==
    /\ up \/ job # "none"
    /\ crashes < MaxCrashes
    /\ Restore(Visible)
    /\ saved' = None /\ walk' = None /\ failed' = FALSE
    /\ up' = FALSE /\ job' = "none" /\ room' = 0 /\ todo' = EmptyTable
    /\ skip' = FALSE
    /\ crashes' = crashes + 1
    /\ UNCHANGED <<issued, intruded>>

Init ==
    /\ nodes = EmptyTable /\ post = {} /\ df = EmptyTable /\ rev = EmptyTable
    /\ lens = EmptyTable /\ meta = NoMeta /\ stamped = TRUE
    /\ issued = {} /\ saved = None /\ walk = None /\ failed = FALSE
    /\ skip = FALSE /\ up = TRUE /\ job = "none" /\ todo = EmptyTable
    /\ room = 0 /\ crashes = 0 /\ intruded = 0
    /\ bypassed = {} /\ spoiled = {} /\ partial = FALSE

Next ==
    \/ Begin \/ Commit \/ Abort
    \/ AddNode \/ UpdateNode \/ DropNode \/ DropNodeOnly \/ SetSkip
    \/ RemovePosting \/ AddPosting \/ KeepPosting \/ ReplacePosting
    \/ PostingFails \/ EndWalk \/ ReverseFails
    \/ StartRebuild \/ Start \/ ClearIndex \/ OpenChunk \/ IndexNode
    \/ CloseChunk \/ EndRebuild \/ StartFails \/ Crash

Spec == Init /\ [][Next]_vars

-----------------------------------------------------------------------------
Settled == walk = None /\ ~failed

(* Between two operations the postings of a document are its reverse        *)
(* entries, its length is their sum, and the frequency of a term counts the *)
(* documents that have it: what the next update or delete of the document   *)
(* relies on (lmdb_bm25.rs 518-574, 668-752).                               *)
TablesAgree ==
    Settled =>
      /\ \A d \in Nodes \ spoiled :
         /\ {<<p[1], p[3]>> : p \in {q \in post : q[2] = d}} =
            {<<t, Indexed(d)[t]>> : t \in DOMAIN Indexed(d)}
         /\ d \in DOMAIN lens => lens[d] = Length(Indexed(d))
      /\ spoiled = {} => \A t \in Terms :
            (IF t \in DOMAIN df THEN df[t] ELSE 0) =
            Cardinality({p \in post : p[1] = t})

(* A search finds, for every posting it meets, the document it belongs to;  *)
(* one that is not fully there fails the whole search (575-590, 900-915).   *)
SearchSucceeds ==
    \A p \in Visible.post :
        p[2] \notin Visible.spoiled =>
            Presence(p[2], Visible.lens, Visible.rev) = "indexed"

(* The totals behind every score count the documents and their tokens,      *)
(* through inserts, updates, deletes and rebuilds (592-644).                *)
TotalsMatch ==
    Settled /\ spoiled = {} =>
      /\ meta.docs = Cardinality(DOMAIN lens)
      /\ meta.sum = MapThenSumSet(LAMBDA d : lens[d], DOMAIN lens)

(* A document that is there says what the properties of its node say, and   *)
(* outside a rebuild every node has one: unless the write went past the     *)
(* index, or a rebuild failed on the node or worked from an older copy.     *)
IndexFollowsNodes ==
    Settled => \A d \in Nodes \ (bypassed \cup spoiled \cup Excluded) :
      /\ d \in DOMAIN lens =>
            d \in DOMAIN nodes /\ Indexed(d) = nodes[d]
      /\ d \in DOMAIN nodes /\ nodes[d] # NoProps /\ ~partial =>
            d \in DOMAIN lens

(* An index that a rebuild has cleared and not filled again is not taken    *)
(* for a current one by the next start.                                     *)
PartialIsUnstamped == Visible.partial => ~Visible.stamped
=============================================================================
