----------------------- MODULE SchemaMigrationProofs -----------------------
(***************************************************************************)
(* Theorems about SchemaMigration, for every set of labels and items, every *)
(* sequence of releases, every batch size and any number of kills.          *)
(***************************************************************************)
EXTENDS SchemaMigration, FiniteSetTheorems, WellFoundedInduction, TLAPS

-----------------------------------------------------------------------------
(* Numbers.  The library states induction for operators, which the provers  *)
(* cannot instantiate; that < is well founded gives the same facts.         *)

(* A nonempty set of natural numbers has a least element.                   *)
LEMMA LeastNumber ==
    ASSUME NEW S \in SUBSET Nat, S # {}
    PROVE  \E n \in S : \A m \in S : n <= m
<1> DEFINE R == {p \in Nat \X Nat : p[1] < p[2]}
<1>1. IsWellFoundedOn(R, Nat)
    BY NatLessThanWellFounded DEF OpToRel
<1> HIDE DEF R
<1>2. PICK n \in S : \A m \in S : <<m, n>> \notin R
    BY <1>1, WFMin
<1>3. \A m \in S : ~ (m < n)
    BY <1>2 DEF R
<1> QED
    BY <1>3

(* A finite one has a largest element: the one with the fewest above it.    *)
Above(S, m) == {k \in S : k > m}

LEMMA FewerAbove ==
    ASSUME NEW S \in SUBSET Nat, IsFiniteSet(S), NEW m \in S, NEW x \in S, x > m
    PROVE  /\ Cardinality(Above(S, x)) < Cardinality(Above(S, m))
           /\ Cardinality(Above(S, m)) \in Nat
<1>1. Above(S, x) \subseteq Above(S, m) \ {x}
    <2>1. ASSUME NEW k \in S, k > x PROVE k > m /\ k # x
        <3>1. k \in Nat /\ x \in Nat /\ m \in Nat
            OBVIOUS
        <3> QED
            BY <2>1, <3>1
    <2> QED
        BY <2>1 DEF Above
<1>2. x \in Above(S, m)
    BY DEF Above
<1>3. IsFiniteSet(Above(S, m))
    BY FS_Subset DEF Above
<1>4. Above(S, x) \subseteq Above(S, m) /\ Above(S, x) # Above(S, m)
    BY <1>1, <1>2
<1>5. /\ IsFiniteSet(Above(S, x))
      /\ Cardinality(Above(S, x)) <= Cardinality(Above(S, m))
      /\ Cardinality(Above(S, x)) # Cardinality(Above(S, m))
    BY <1>3, <1>4, FS_Subset
<1>6. Cardinality(Above(S, x)) \in Nat /\ Cardinality(Above(S, m)) \in Nat
    BY <1>3, <1>5, FS_CardinalityType
<1> QED
    BY <1>5, <1>6

LEMMA LargestNumber ==
    ASSUME NEW S \in SUBSET Nat, IsFiniteSet(S), S # {}
    PROVE  \E n \in S : \A m \in S : m <= n
<1> DEFINE Counts == {Cardinality(Above(S, m)) : m \in S}
<1>1. Counts \in SUBSET Nat /\ Counts # {}
    <2>1. ASSUME NEW m \in S PROVE Cardinality(Above(S, m)) \in Nat
        <3>1. Above(S, m) \subseteq S
            BY DEF Above
        <3>2. IsFiniteSet(Above(S, m))
            BY <3>1, FS_Subset
        <3> QED
            BY <3>2, FS_CardinalityType
    <2> QED
        BY <2>1
<1>2. PICK c \in Counts : \A k \in Counts : c <= k
    <2> HIDE DEF Counts
    <2> QED
        BY <1>1, LeastNumber
<1>3. PICK n \in S : c = Cardinality(Above(S, n))
    BY <1>2
<1>4. ASSUME NEW m \in S, m > n PROVE FALSE
    <2>1. /\ Cardinality(Above(S, m)) < Cardinality(Above(S, n))
          /\ Cardinality(Above(S, n)) \in Nat
        BY <1>4, FewerAbove
    <2>2. Cardinality(Above(S, n)) <= Cardinality(Above(S, m))
        BY <1>2, <1>3
    <2>3. Cardinality(Above(S, m)) \in Nat
        BY <1>1
    <2> QED
        BY <2>1, <2>2, <2>3
<1> QED
    BY <1>4

-----------------------------------------------------------------------------
(* Transitions.                                                             *)

LEMMA CompiledType ==
    ASSUME TypeOK
    PROVE  Compiled \in SUBSET Transition /\ IsFiniteSet(Compiled)
BY ReleasesAssumption DEF TypeOK, Compiled

(* The first transition of a chain is one of the chain.                     *)
LEMMA FirstOfChain ==
    ASSUME NEW ts \in SUBSET Transition, ts # {}
    PROVE  First(ts) \in ts
<1> DEFINE F == {t.from : t \in ts}
<1>1. F \in SUBSET Nat /\ F # {}
    BY DEF Transition
<1>2. PICK n \in F : \A m \in F : n <= m
    <2> HIDE DEF F
    <2> QED
        BY <1>1, LeastNumber
<1>3. \E t \in ts : \A u \in ts : t.from <= u.from
    BY <1>2
<1> QED
    BY <1>3 DEF First

(* The highest version that compiled transitions lead to is a number.       *)
LEMMA HighestType ==
    ASSUME TypeOK, NEW ts \in SUBSET Compiled, ts # {}
    PROVE  Largest({t.from + 1 : t \in ts}) \in Nat
<1> DEFINE V == {t.from + 1 : t \in ts}
           f == [t \in ts |-> t.from + 1]
<1>1. V \in SUBSET Nat /\ V # {}
    BY CompiledType DEF Transition
<1>2. IsFiniteSet(ts)
    BY CompiledType, FS_Subset
<1>3. f \in Surjection(ts, V)
    BY DEF Surjection
<1>4. IsFiniteSet(V)
    <2> HIDE DEF V, f
    <2> QED
        BY <1>2, <1>3, FS_Surjection
<1>5. Largest(V) \in V
    <2> HIDE DEF V
    <2> QED
        BY <1>1, <1>4, LargestNumber DEF Largest
<1> QED
    BY <1>1, <1>5

(* What a query writes: the format of a release is a number.                *)
LEMMA ExpectedType ==
    ASSUME TypeOK, NEW l
    PROVE  Expected(l) \in Nat
<1>1. ChainOf(l) \in SUBSET Compiled
    BY DEF ChainOf
<1>2. ChainOf(l) # {} => Largest({t.from + 1 : t \in ChainOf(l)}) \in Nat
    BY <1>1, HighestType
<1> QED
    BY <1>2 DEF Expected

-----------------------------------------------------------------------------
(* Types.  TypeOK needs to know that what the runner has in memory is empty *)
(* when it does not run, since the next release has other transitions, and  *)
(* that it runs only when there are transitions, without a gap.             *)

Running == pc \in {"chain", "nodes", "edges"}

RunnerState ==
    /\ ~ Running => queue = {} /\ chain = {}
    /\ pc \notin {"nodes", "edges"} => ids = {}
    /\ Running => Compiled # {}
    /\ Running \/ pc = "serving" => ~ Gap

LEMMA InitType == Init => TypeOK /\ RunnerState
<1> SUFFICES ASSUME Init PROVE TypeOK /\ RunnerState
    OBVIOUS
<1>1. 1 \in DOMAIN Releases
    BY ReleasesAssumption
<1>2. db \in [Items -> Record]
    BY DEF Init, Absent, Record
<1> QED
    BY <1>1, <1>2, BoundsAssumption DEF Init, TypeOK, RunnerState, Running

(* The record that a chunk writes for an item.                              *)
LEMMA MigratedType ==
    ASSUME NEW rec \in Record, NEW l, NEW t \in Transition
    PROVE  Migrated(rec, l, t) \in Record
<1>1. Append(rec.applied, t) \in Seq(Transition)
    BY DEF Record
<1> QED
    BY <1>1 DEF Migrated, Mixed, Transition, Record

(* Every action keeps the variables typed and the runner consistent.        *)
LEMMA NextType == TypeOK /\ RunnerState /\ [Next]_vars => (TypeOK /\ RunnerState)'
<1> SUFFICES ASSUME TypeOK, RunnerState, [Next]_vars
             PROVE  (TypeOK /\ RunnerState)'
    OBVIOUS
<1> USE DEF TypeOK, RunnerState, Running, disk, memory
<1>1. CASE Start
    <2>1. (Running' \/ pc' = "serving") => ~ Gap
        BY <1>1 DEF Start, Gap, ChainOf
    <2>2. Compiled' = Compiled /\ (Gap' <=> Gap)
        BY <1>1 DEF Start, Gap, ChainOf, Compiled
    <2>3. {t.label : t \in Compiled} \subseteq Labels
        BY CompiledType DEF Transition
    <2> QED
        BY <1>1, <2>1, <2>2, <2>3 DEF Start
<1>2. ASSUME NEW l \in Labels, NextLabel(l) PROVE (TypeOK /\ RunnerState)'
    BY <1>2 DEF NextLabel, ChainOf, Gap, Compiled
<1>3. CASE SkipComplete
    BY <1>3 DEF SkipComplete, ChainOf, Gap, Compiled
<1>4. CASE MarkInProgress
    BY ZenonT(60), <1>4 DEF MarkInProgress, ChainOf, Gap, Compiled, AtVersion, Stored
<1>5. CASE RewriteChunk
    <2>1. First(chain) \in Transition
        BY <1>5, CompiledType, FirstOfChain DEF RewriteChunk
    <2>2. \A i \in Items : Migrated(db[i], LabelOf[i], First(chain)) \in Record
        BY <2>1, MigratedType
    <2>3. db' \in [Items -> Record]
        BY <1>5, <2>2 DEF RewriteChunk
    <2> QED
        BY <1>5, <2>3 DEF RewriteChunk, ChainOf, Gap, Compiled
<1>6. CASE ScanEdges
    BY <1>6 DEF ScanEdges, ChainOf, Gap, Compiled, AtVersion, Stored
<1>7. CASE MarkComplete
    BY <1>7 DEF MarkComplete, ChainOf, Gap, Compiled
<1>8. CASE SaveSchemaVersion
    <2>1. schema' \in Nat
        BY <1>8, HighestType DEF SaveSchemaVersion, Highest
    <2> QED
        BY <1>8, <2>1 DEF SaveSchemaVersion, ChainOf, Gap, Compiled
<1>9. CASE Crash
    BY <1>9, BoundsAssumption DEF Crash, ChainOf, Gap, Compiled
<1>10. CASE Deploy
    <2>1. release' \in DOMAIN Releases
        BY <1>10, ReleasesAssumption DEF Deploy
    <2> QED
        BY <1>10, <2>1 DEF Deploy
<1>11. ASSUME NEW i \in Items, Create(i) PROVE (TypeOK /\ RunnerState)'
    <2>1. db' \in [Items -> Record]
        BY <1>11, ExpectedType DEF Create, Record, GetLatest, TableLabels
    <2> QED
        BY <1>11, <2>1 DEF Create, ChainOf, Gap, Compiled
<1>12. ASSUME NEW i \in Items, Update(i) PROVE (TypeOK /\ RunnerState)'
    <2>1. db' \in [Items -> Record]
        BY <1>12 DEF Update, Upgraded, Record, TableLabels, Mixed
    <2> QED
        BY <1>12, <2>1 DEF Update, ChainOf, Gap, Compiled
<1>13. CASE UNCHANGED vars
    BY <1>13 DEF vars, ChainOf, Gap, Compiled
<1> QED
    BY <1>1, <1>2, <1>3, <1>4, <1>5, <1>6, <1>7, <1>8, <1>9, <1>10, <1>11, <1>12, <1>13
    DEF Next, Runner

(* Every variable keeps a value of its kind, for every sequence of releases *)
(* and any number of kills.                                                 *)
THEOREM TypeCorrect == Spec => []TypeOK
BY InitType, NextType, PTL DEF Spec

-----------------------------------------------------------------------------
(* Order of the functions.  An item is rewritten only if its version is the *)
(* one the transition starts from, and gets the next one in the same write. *)

LEMMA InitSteps == Init => StepsInOrder
BY DEF Init, StepsInOrder, Stored, Absent

LEMMA NextSteps == TypeOK /\ RunnerState /\ StepsInOrder /\ [Next]_vars => StepsInOrder'
<1> SUFFICES ASSUME TypeOK, RunnerState, StepsInOrder, [Next]_vars
             PROVE  StepsInOrder'
    OBVIOUS
<1> DEFINE InOrder(rec) == /\ rec.version = Len(rec.applied) + 1
                           /\ \A k \in DOMAIN rec.applied : rec.applied[k].from = k
<1>1. SUFFICES \A i \in Items : db'[i] # Absent => InOrder(db'[i])
    BY DEF StepsInOrder, Stored
<1>2. CASE UNCHANGED db
    BY <1>2 DEF StepsInOrder, Stored
<1>3. CASE RewriteChunk
    <2> SUFFICES ASSUME NEW i \in Items, i \in Chunk, db[i].version = First(chain).from
                 PROVE  InOrder(Migrated(db[i], LabelOf[i], First(chain)))
        BY <1>3 DEF RewriteChunk, StepsInOrder, Stored
    <2> DEFINE t == First(chain)
               new == Append(db[i].applied, t)
    <2>1. t \in Transition
        BY <1>3, CompiledType, FirstOfChain DEF RewriteChunk, TypeOK
    <2>2. db[i] \in Record /\ db[i] # Absent
        BY <2>1 DEF TypeOK, Absent, Transition
    <2>3. InOrder(db[i])
        BY <2>2 DEF StepsInOrder, Stored
    <2>4. t.from = Len(db[i].applied) + 1
        BY <2>3
    <2> HIDE DEF t
    <2>5. PICK s \in Seq(Transition) : s = db[i].applied
        BY <2>2 DEF Record
    <2>6. DOMAIN s = 1..Len(s) /\ DOMAIN Append(s, t) = 1..(Len(s) + 1)
        BY <2>1, <2>5
    <2>7. \A k \in 1..(Len(s) + 1) : Append(s, t)[k].from = k
        <3> TAKE k \in 1..(Len(s) + 1)
        <3>1. CASE k = Len(s) + 1
            BY <2>1, <2>4, <2>5, <3>1
        <3>2. CASE k \in 1..Len(s)
            BY <2>1, <2>3, <2>5, <2>6, <3>2
        <3> QED
            BY <3>1, <3>2
    <2>8. Len(new) = t.from /\ \A k \in DOMAIN new : new[k].from = k
        BY <2>1, <2>4, <2>5, <2>6, <2>7
    <2> QED
        BY <2>1, <2>8 DEF Migrated, t, Transition
<1>4. ASSUME NEW i \in Items, Create(i) PROVE \A j \in Items : db'[j] # Absent => InOrder(db'[j])
    BY <1>4 DEF Create, GetLatest, TableLabels, StepsInOrder, Stored, TypeOK
<1>5. ASSUME NEW i \in Items, Update(i) PROVE \A j \in Items : db'[j] # Absent => InOrder(db'[j])
    <2>1. \A j \in Items : db'[j].version = db[j].version /\ db'[j].applied = db[j].applied
        BY <1>5 DEF Update, Upgraded, TableLabels, TypeOK, Record
    <2>2. \A j \in Items : db'[j] # Absent => db[j] # Absent
        BY <1>5 DEF Update, Stored, TypeOK
    <2> QED
        BY <2>1, <2>2 DEF StepsInOrder, Stored
<1> QED
    BY <1>2, <1>3, <1>4, <1>5
    DEF Next, Runner, Start, NextLabel, SkipComplete, MarkInProgress, ScanEdges, MarkComplete,
        SaveSchemaVersion, Crash, Deploy, disk, vars

(* However often the runner is killed and resumed, the functions applied to *)
(* an item are consecutive steps from version 1 to its version.             *)
THEOREM StepsHold == Spec => []StepsInOrder
<1>1. Init => TypeOK /\ RunnerState /\ StepsInOrder
    BY InitType, InitSteps
<1>2. TypeOK /\ RunnerState /\ StepsInOrder /\ [Next]_vars => (TypeOK /\ RunnerState /\ StepsInOrder)'
    BY NextType, NextSteps
<1> QED
    BY <1>1, <1>2, PTL DEF Spec

-----------------------------------------------------------------------------
(* Completion.  While the nodes of a transition are rewritten, the ids left *)
(* hold every node at its version; while the edges are, no node is left and *)
(* they hold every edge.                                                    *)

ScanCovers ==
    /\ pc = "nodes" => \A i \in AtVersion(First(chain).from) : IsEdge(i) \/ i \in ids
    /\ pc = "edges" => \A i \in AtVersion(First(chain).from) : i \in ids

LEMMA NextScan == TypeOK /\ RunnerState /\ ScanCovers /\ [Next]_vars => ScanCovers'
<1> SUFFICES ASSUME TypeOK, RunnerState, ScanCovers, [Next]_vars
             PROVE  ScanCovers'
    OBVIOUS
<1> USE DEF ScanCovers, AtVersion, Stored, IsEdge
<1>1. CASE MarkInProgress
    BY <1>1 DEF MarkInProgress, First
<1>2. CASE RewriteChunk
    <2>1. First(chain) \in Transition
        BY <1>2, CompiledType, FirstOfChain DEF RewriteChunk, TypeOK
    <2>2. \A i \in Chunk : db'[i].version # First(chain).from
        BY <1>2, <2>1 DEF RewriteChunk, Migrated, Transition, Chunk, TypeOK
    <2>3. \A i \in Items \ Chunk : db'[i] = db[i]
        BY <1>2 DEF RewriteChunk
    <2> QED
        BY <1>2, <2>2, <2>3 DEF RewriteChunk, First
<1>3. CASE ScanEdges
    BY <1>3 DEF ScanEdges, disk, First
<1>4. CASE pc' \notin {"nodes", "edges"}
    BY <1>4
<1>5. CASE UNCHANGED vars
    BY <1>5 DEF vars, First
<1> QED
    BY <1>1, <1>2, <1>3, <1>4, <1>5
    DEF Next, Runner, Start, NextLabel, SkipComplete, MarkComplete, SaveSchemaVersion, Crash,
        Deploy, Create, Update, memory, disk

LEMMA StepCompletes ==
    TypeOK /\ ScanCovers /\ [Next]_vars =>
        \A t \in DOMAIN log : log[t] # "complete" /\ log'[t] = "complete" => AtVersion(t.from) = {}
<1> SUFFICES ASSUME TypeOK, ScanCovers, [Next]_vars,
                    NEW t \in DOMAIN log, log[t] # "complete", log'[t] = "complete"
             PROVE  AtVersion(t.from) = {}
    OBVIOUS
<1>1. MarkComplete
    BY DEF Next, Runner, Start, NextLabel, SkipComplete, MarkInProgress, RewriteChunk, ScanEdges,
           SaveSchemaVersion, Crash, Deploy, Create, Update, disk, vars, TypeOK
<1>2. t = First(chain) /\ pc = "edges" /\ ids = {}
    BY <1>1 DEF MarkComplete, TypeOK
<1> QED
    BY <1>2 DEF ScanCovers

(* Complete is recorded only when neither a node nor an edge is left at the *)
(* version the transition starts from.                                      *)
THEOREM CompletionHolds == Spec => CompleteWhenDone
<1>1. Init => TypeOK /\ RunnerState /\ ScanCovers
    BY InitType DEF Init, ScanCovers
<1>2. TypeOK /\ RunnerState /\ ScanCovers /\ [Next]_vars => (TypeOK /\ RunnerState /\ ScanCovers)'
    BY NextType, NextScan
<1> QED
    BY <1>1, <1>2, StepCompletes, PTL DEF Spec, CompleteWhenDone

-----------------------------------------------------------------------------
(* Gaps.  The transitions of a binary do not change while it runs, and a    *)
(* runner with a gap in them never leaves its start.                        *)

LEMMA GapStep == RunnerState /\ [Next]_vars => (Gap /\ pc # "serving" => UNCHANGED disk)
BY DEF RunnerState, Running, Next, Runner, Start, NextLabel, SkipComplete, MarkInProgress,
       RewriteChunk, ScanEdges, MarkComplete, SaveSchemaVersion, Crash, Deploy, Create, Update,
       disk, vars

(* A binary with a gap in a chain writes nothing, whichever label has it    *)
(* and in whatever order the labels are taken.                              *)
THEOREM GapHolds == Spec => GapHaltsFirst
<1>1. Init => TypeOK /\ RunnerState
    BY InitType
<1>2. TypeOK /\ RunnerState /\ [Next]_vars => (TypeOK /\ RunnerState)'
    BY NextType
<1> QED
    BY <1>1, <1>2, GapStep, PTL DEF Spec, GapHaltsFirst
=============================================================================
