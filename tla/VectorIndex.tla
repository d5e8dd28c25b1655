----------------------------- MODULE VectorIndex -----------------------------
(***************************************************************************)
(* The vector index, vector_core/lmdb/vector_core.rs: the vectors, the      *)
(* directed links of the search graph and an entry point for each label.    *)
(*                                                                          *)
(* A vector read back from its bytes has level 0 (from_raw_vector_data), so *)
(* the entry point always has, every link is made on level 0 and the random *)
(* level of a new vector only decides whether it becomes the entry point.   *)
(*                                                                          *)
(* Each operation is a write transaction of its own; one that meets an      *)
(* error is aborted and changes nothing.  A rebuild is one transaction too: *)
(* its steps are told apart, and nothing else happens between them.         *)
(***************************************************************************)
EXTENDS Integers, FiniteSets, Sequences, FiniteSetsExt, SequencesExt

CONSTANTS
    Labels,
    PointsOf,        \* label -> what the data of its vectors may be
    Dist,            \* the distance of two points; only its order matters
    Configs,         \* the HNSWConfigs a store may have
    MaxVectors,      \* config -> bound on the vectors ever inserted
    MaxDeletions     \* bound on the vectors ever deleted

Points == UNION {PointsOf[label] : label \in Labels}

ASSUME ConfigAssumption ==
    /\ Configs \subseteq [m : Nat \ {0}, ef_construct : Nat \ {0},
                          ef : Nat \ {0}]
    /\ MaxVectors \in [Configs -> Nat] /\ MaxDeletions \in Nat
    /\ Dist \in [Points -> [Points -> Nat]]

VARIABLES
    config,      \* what the store was opened with
    vectors,     \* id -> [label, point, deleted], the two tables of a vector
    links,       \* the links <<from, to>>, hnsw_out_nodes
    entry,       \* label -> id, the entry-point records
    next_id,     \* v6_uuid: ids ascend with time
    deletions,   \* counts the deletes, for the bound only
    pending,     \* vectors a rebuild has still to insert again
    saved,       \* the vectors when that rebuild began
    crowded,     \* history: labels that held more than m + 1 vectors
    severed      \* history: labels that lost a vector, or their entry point

vectorsVars == <<config, vectors, links, entry, next_id, deletions, pending, saved,
          crowded, severed>>

m_max_0 == 2 * config.m

None == [i \in {} |-> 0]     \* the empty table

-----------------------------------------------------------------------------
(* Reading the graph.  vs and es are the tables a transaction sees.          *)

Neighbors(es, i) == {edge[2] : edge \in {d \in es : d[1] = i}}

(* get_neighbors fails when a neighbour has no data.                         *)
Dangles(vs, es, i) == ~(Neighbors(es, i) \subseteq DOMAIN vs)

DistanceTo(vs, p, i) == Dist[vs[i].point][p]
Closer(vs, p, i, j) == DistanceTo(vs, p, i) < DistanceTo(vs, p, j)

(* By distance; equal ones, which no instance has, by the ids.               *)
Ahead(vs, p, i, j) == Closer(vs, p, i, j) \/ (~Closer(vs, p, j, i) /\ i < j)
Rank(vs, p, S, i) == Cardinality({j \in S : Ahead(vs, p, j, i)})

(* take_inord: the n of S that are closest to p.                             *)
Closest(vs, p, S, n) == {i \in S : Rank(vs, p, S, i) < n}

InOrder(vs, p, S) ==
    [k \in 1..Cardinality(S) |-> CHOOSE i \in S : Rank(vs, p, S, i) = k - 1]

(* One round of the loop of search_level: the closest candidate is taken.    *)
(* HVector's order is the reverse of its distance, so that get_max, which    *)
(* limits the search once ef results are there, is the best result.          *)
Round(vs, es, p, ef, s) ==
    LET c == CHOOSE i \in s.cands : \A j \in s.cands : ~Closer(vs, p, j, i)
        best == CHOOSE i \in s.found : \A j \in s.found : ~Closer(vs, p, j, i)
        full == Cardinality(s.found) >= ef
        new == Neighbors(es, c) \ s.seen
        accepted == {j \in new : full => Closer(vs, p, j, best)}
    IN  CASE full /\ Closer(vs, p, best, c) -> [s EXCEPT !.cands = {}]
          [] ~(full /\ Closer(vs, p, best, c)) /\ Dangles(vs, es, c) ->
                [s EXCEPT !.cands = {}, !.ok = FALSE]
          [] OTHER ->
                [s EXCEPT !.cands = (@ \ {c}) \cup accepted,
                          !.found = Closest(vs, p, @ \cup accepted, ef),
                          !.seen = @ \cup new]

SearchLevel(vs, es, p, start, ef) ==
    LET Run[n \in 0..Cardinality(DOMAIN vs)] ==
            IF n = 0
            THEN [cands |-> {start}, found |-> {start}, seen |-> {start},
                  ok |-> TRUE]
            ELSE LET s == Run[n - 1]
                 IN  IF s.cands = {} THEN s ELSE Round(vs, es, p, ef, s)
    IN  Run[Cardinality(DOMAIN vs)]

(* search: the k closest of the level that are live and of the label.        *)
Search(label, p, k) ==
    IF label \notin DOMAIN entry THEN [ok |-> FALSE, found |-> {}]
    ELSE LET s == SearchLevel(vectors, links, p, entry[label], config.ef)
             live == {i \in s.found : /\ ~vectors[i].deleted
                                      /\ vectors[i].label = label}
         IN  [ok |-> s.ok, found |-> Closest(vectors, p, live, k)]

-----------------------------------------------------------------------------
(* Linking a vector.  An outcome is the links a transaction has made so far, *)
(* or the error or panic that aborts it.                                     *)

Linked(es) == [ok |-> TRUE, links |-> es]
Failed == [ok |-> FALSE, links |-> {}]

(* prune_if_over_degree: both directions of the farthest links are deleted.  *)
(* The neighbours without data are not among the scored ones, and the slice  *)
(* panics when too few are left.                                             *)
PruneIfOverDegree(vs, es, x) ==
    LET scored == Neighbors(es, x) \cap DOMAIN vs
        far == scored \ Closest(vs, vs[x].point, scored, m_max_0)
        both == {<<x, z>> : z \in far} \cup {<<z, x>> : z \in far}
        over == Cardinality(Neighbors(es, x)) > m_max_0
    IN  CASE ~over -> Linked(es)
          [] over /\ Cardinality(scored) < m_max_0 -> Failed
          [] OTHER -> Linked(es \ both)

SetNeighboursOneWay(vs, es, i, ns) ==
    Linked({d \in es : d[1] # i} \cup {<<i, x>> : x \in ToSet(ns) \ {i}})

LinkBoth(vs, o, i, x) ==
    IF x = i \/ ~o.ok THEN o
    ELSE PruneIfOverDegree(vs, o.links \cup {<<i, x>>, <<x, i>>}, x)

(* set_neighbours: both directions for each of ns, in this order; the old    *)
(* links of i that are not among them go, and their reverses stay.           *)
SetNeighbours(vs, es, i, ns) ==
    LET Run[k \in 0..Len(ns)] ==
            IF k = 0 THEN Linked(es) ELSE LinkBoth(vs, Run[k - 1], i, ns[k])
        gone == {<<i, x>> : x \in Neighbors(es, i) \ ToSet(ns)}
    IN  [Run[Len(ns)] EXCEPT !.links = @ \ gone]

(* select_neighbors with the candidates of a search: their neighbours are   *)
(* added, and one that is both is there twice.                               *)
SelectForNew(vs, es, p, cands) ==
    LET around == UNION {Neighbors(es, c) : c \in cands}
        Times(j) == IF j \in around \cap cands THEN <<j, j>> ELSE <<j>>
        order == InOrder(vs, p, around \cup cands)
        all == FlattenSeq([n \in DOMAIN order |-> Times(order[n])])
    IN  SubSeq(all, 1, Min({config.m, Len(all)}))

(* select_neighbors for the links of a vector e that is already there.  They *)
(* come without a distance, which sorts before every distance and in no      *)
(* order of their own; places that are left go to their neighbours, by their *)
(* distance to the new vector.                                               *)
Selections(vs, es, p, e) ==
    LET conns == Neighbors(es, e)
        around == UNION {Neighbors(es, c) : c \in conns}
        left == config.m - Cardinality(conns)
        kept == IF left <= 0 THEN kSubset(config.m, conns) ELSE {conns}
        rest == InOrder(vs, p, Closest(vs, p, around, left))
    IN  UNION {{first \o rest : first \in SetToSeqs(S)} : S \in kept}

(* The neighbours of the new vector are linked again one after another.      *)
Relink(vs, p, o, e) ==
    CASE ~o.ok -> {o}
      [] o.ok /\ \E c \in {e} \cup Neighbors(o.links, e) :
                     c \notin DOMAIN vs \/ Dangles(vs, o.links, c) -> {Failed}
      [] OTHER -> {SetNeighbours(vs, o.links, e, ns) :
                      ns \in Selections(vs, o.links, p, e)}

(* The rest of insert, from the entry point on.  vs has the new vector i.    *)
LinkOutcomes(vs, es, i, start) ==
    LET p == vs[i].point
        s == SearchLevel(vs, es, p, start, config.ef_construct)
        ns == SelectForNew(vs, es, p, s.found)
        Run[k \in 0..Len(ns)] ==
            IF k = 0 THEN {SetNeighbours(vs, es, i, ns)}
            ELSE UNION {Relink(vs, p, o, ns[k]) : o \in Run[k - 1]}
    IN  IF ~s.ok \/ \E c \in s.found : Dangles(vs, es, c) THEN {Failed}
        ELSE Run[Len(ns)]

-----------------------------------------------------------------------------
(* Operations.                                                               *)

(* entry_point_key_for_label.                                                *)
EntryKey(label) == label

Overlay(f, i, v) == [j \in DOMAIN f \cup {i} |-> IF j = i THEN v ELSE f[j]]
Without(f, S) == [j \in DOMAIN f \ S |-> f[j]]

HeldBy(vs, label) == {i \in DOMAIN vs : vs[i].label = label}
LiveIn(vs, label) == {i \in HeldBy(vs, label) : ~vs[i].deleted}
Live(vs) == {i \in DOMAIN vs : ~vs[i].deleted}

Crowd(vs) == {l \in Labels : Cardinality(HeldBy(vs, l)) > config.m + 1}

(* insert and insert_with_id, once the id is known: with no entry point the  *)
(* vector becomes it and is linked to nothing; otherwise it becomes it when  *)
(* its random level is above 0.                                              *)
Put(i, label, p) ==
    LET vs == Overlay(vectors, i,
                      [label |-> label, point |-> p, deleted |-> FALSE])
        key == EntryKey(label)
    IN  /\ vectors' = vs
        /\ crowded' = crowded \cup Crowd(vs)
        /\ IF key \notin DOMAIN entry \/ entry[key] \notin DOMAIN vs
           THEN /\ entry' = Overlay(entry, key, i)
                /\ UNCHANGED links
           ELSE /\ \E o \in LinkOutcomes(vs, links, i, entry[key]) :
                       o.ok /\ links' = o.links
                /\ entry' \in {entry, Overlay(entry, key, i)}

Idle == pending = {}

Insert ==
    /\ Idle /\ next_id <= MaxVectors[config]
    /\ \E label \in Labels :
       \E p \in PointsOf[label] \
                {vectors[i].point : i \in HeldBy(vectors, label)} :
          /\ Put(next_id, label, p)
          /\ severed' = IF EntryKey(label) \notin DOMAIN entry /\
                           HeldBy(vectors, label) # {}
                        THEN severed \cup {label} ELSE severed
    /\ next_id' = next_id + 1
    /\ UNCHANGED <<config, deletions, pending, saved>>

EntryAfterIgnored(label, i) == entry

(* delete hands the entry point over to the live neighbour of lowest id.     *)
EntryAfter(label, i) ==
    LET heirs == (Neighbors(links, i) \cap Live(vectors)) \ {i} IN
    CASE label \notin DOMAIN entry -> entry
      [] label \in DOMAIN entry /\ entry[label] # i -> entry
      [] OTHER -> IF heirs = {} THEN Without(entry, {label})
                  ELSE Overlay(entry, label, Min(heirs))

CountDeletion == deletions < MaxDeletions /\ deletions' = deletions + 1

SoftDelete ==
    /\ Idle /\ CountDeletion
    /\ \E i \in Live(vectors) :
        LET label == vectors[i].label IN
        /\ vectors' = [vectors EXCEPT ![i].deleted = TRUE]
        /\ entry' = EntryAfter(EntryKey(label), i)
    /\ UNCHANGED <<config, links, next_id, pending, saved, crowded, severed>>

EdgesOfForward(es, i) == {d \in es : d[1] = i}

(* The links from a vector and the reverse of each.                          *)
EdgesOf(es, i) ==
    LET forward == {d \in es : d[1] = i}
    IN  forward \cup {<<d[2], d[1]>> : d \in forward}

EntryWithoutKept(i, label) == entry

EntryWithout(i, label) ==
    IF label \in DOMAIN entry /\ entry[label] = i
    THEN Without(entry, {label}) ELSE entry

HardDelete ==
    /\ Idle /\ CountDeletion
    /\ \E i \in DOMAIN vectors :
        LET label == vectors[i].label IN
        /\ vectors' = Without(vectors, {i})
        /\ links' = links \ EdgesOf(links, i)
        /\ entry' = EntryWithout(i, EntryKey(label))
        /\ severed' = severed \cup {label}
    /\ UNCHANGED <<config, next_id, pending, saved, crowded>>

RebuildStartKeepsLinks ==
    /\ Idle
    /\ pending' = Live(vectors)
    /\ saved' = IF Live(vectors) = {} THEN None ELSE vectors
    /\ vectors' = None /\ entry' = None
    /\ crowded' = {} /\ severed' = {}
    /\ UNCHANGED <<config, links, next_id, deletions>>

(* rebuild: the live vectors are collected, the tables cleared and the live  *)
(* vectors inserted again in the order of their ids.                         *)
RebuildStart ==
    /\ Idle
    /\ pending' = Live(vectors)
    /\ saved' = IF Live(vectors) = {} THEN None ELSE vectors
    /\ vectors' = None /\ links' = {} /\ entry' = None
    /\ crowded' = {} /\ severed' = {}
    /\ UNCHANGED <<config, next_id, deletions>>

Reinsert ==
    /\ ~Idle
    /\ LET i == Min(pending) IN
        /\ Put(i, saved[i].label, saved[i].point)
        /\ pending' = pending \ {i}
        /\ saved' = IF pending = {i} THEN None ELSE saved
    /\ UNCHANGED <<config, next_id, deletions, severed>>

-----------------------------------------------------------------------------
VectorsInit ==
    /\ config \in Configs
    /\ vectors = None /\ links = {} /\ entry = None
    /\ next_id = 1 /\ deletions = 0
    /\ pending = {} /\ saved = None
    /\ crowded = {} /\ severed = {}

VectorsNext == Insert \/ SoftDelete \/ HardDelete \/ RebuildStart \/ Reinsert

VectorsSpec == VectorsInit /\ [][VectorsNext]_vectorsVars

-----------------------------------------------------------------------------
(* Properties.                                                               *)

(* Where a search of a label starts is a vector of that label that is not    *)
(* deleted, whatever was deleted and handed over before (delete and          *)
(* hard_delete both repair the record).                                      *)
EntryAlive ==
    \A label \in DOMAIN entry : entry[label] \in LiveIn(vectors, label)

(* hnsw-integrity: every link has its reverse, and leads to a vector that is *)
(* there even after hard deletes.  It is so of a label until it has held     *)
(* more than m + 1 vectors; then a vector that is linked again gives up      *)
(* links of which the reverse stays.                                         *)
SymmetricWhileSmall ==
    \A label \in Labels \ crowded :
        \A d \in {e \in links : e[1] \in HeldBy(vectors, label)} :
            d[2] \in DOMAIN vectors /\ <<d[2], d[1]>> \in links

(* A search finds every live vector of the label, and nothing else, as long  *)
(* as the label has an entry point, has held no more than m + 1 vectors and  *)
(* has lost none since the last rebuild: soft deletes do not cut the graph.  *)
AllFoundWhileSmall ==
    \A label \in Labels \ (crowded \cup severed) : \A p \in PointsOf[label] :
        LiveIn(vectors, label) # {} /\ label \in DOMAIN entry =>
            LET r == Search(label, p, config.ef)
            IN  r.ok /\ r.found = LiveIn(vectors, label)

(* A rebuild meets no error, whatever links the deletes before it left       *)
(* dangling: it is what hard_delete's warning tells its caller to run.       *)
RebuildSucceeds ==
    pending # {} =>
        LET i == Min(pending)
            v == saved[i]
        IN  v.label \in DOMAIN entry =>
                \A o \in LinkOutcomes(Overlay(vectors, i, v), links, i,
                                      entry[v.label]) : o.ok
=============================================================================
