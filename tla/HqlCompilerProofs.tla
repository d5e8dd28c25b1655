-------------------------- MODULE HqlCompilerProofs --------------------------
(***************************************************************************)
(* A compiled query that was given a read transaction leaves the graph as  *)
(* it was, its variables hold what the analyzer typed them as, and it      *)
(* computes what its text means unless it met a construct in gaps: for     *)
(* every schema, every graph and queries of any length.                    *)
(***************************************************************************)
EXTENDS HqlCompiler, FiniteSetTheorems, SequenceTheorems, FunctionTheorems,
        WellFoundedInduction, TLAPS

Collects == {"ToVec", "ToObj", "No", "Try"}

(* A generated traversal under construction.                               *)
GenShape ==
    /\ gen.collect \in Collects
    /\ phase # "compile" => cur_ty = NoType
    /\ cur_ty = NoType => gen.write = NoWrite

(* The compiled statements.                                                *)
QueryShape ==
    /\ \E S : query \in Seq(S)
    /\ \A k \in DOMAIN query : /\ query[k].kind \in {"let", "drop"}
                               /\ query[k].gen.collect \in Collects

(* The analyzer's flag tells whether the statements so far, the one under  *)
(* construction included, write.                                           *)
FlagAgrees ==
    is_mut = \/ \E k \in DOMAIN query : Writes(query[k])
             \/ gen.write # NoWrite

RunShape ==
    /\ phase \in {"compile", "run", "committed", "failed"}
    /\ phase = "compile" => pos = 0 /\ db = stored
    /\ phase = "run" => pos \in Nat /\ pos < Len(query)
    /\ ~is_mut => db = stored

IInv == GenShape /\ QueryShape /\ FlagAgrees /\ RunShape

-----------------------------------------------------------------------------
(* A statement that does not write yields the graph it was given.          *)
LEMMA ReadsLeaveGraph ==
    ASSUME NEW g, NEW vs, NEW s,
           s.kind \in {"let", "drop"}, s.gen.collect \in Collects, ~Writes(s)
    PROVE  RunStatement(g, vs, s).graph = g
<1>1. s.kind = "let" /\ s.gen.write.op = "None"
    BY DEF Writes, NoWrite
<1>2. RunStatement(g, vs, s) = RunTraversal(g, vs, s.gen)
    BY <1>1 DEF RunStatement
<1>3. \E v : RunTraversal(g, vs, s.gen) = Outcome(g, v)
    BY <1>1 DEF RunTraversal, Collects
<1> QED
    BY <1>2, <1>3 DEF Outcome

(* Nothing is compiled yet, so nothing writes.                              *)
LEMMA InitIInv == Init => IInv
<1> SUFFICES ASSUME Init PROVE IInv
    OBVIOUS
<1>2. GenShape
    BY DEF Init, GenShape, NothingGenerated, Traversal, Collects
<1>3. QueryShape
    <2>1. query \in Seq({})
        BY DEF Init
    <2> QED
        BY <2>1 DEF Init, QueryShape
<1>4. FlagAgrees
    <2>1. is_mut = FALSE /\ DOMAIN query = {}
        BY DEF Init
    <2>2. gen.write = NoWrite
        BY DEF Init, NothingGenerated, Traversal
    <2> QED
        BY <2>1, <2>2 DEF FlagAgrees
<1>5. RunShape
    BY DEF Init, RunShape
<1> QED
    BY <1>2, <1>3, <1>4, <1>5 DEF IInv

-----------------------------------------------------------------------------
(* What every step of the analyzer keeps.                                  *)
Analysing ==
    /\ phase = "compile"
    /\ UNCHANGED <<query, running>>
    /\ cur_ty' # NoType
    /\ gen'.collect \in Collects

(* A step of the analyzer that marks the query as writing whenever the      *)
(* traversal under construction does.                                       *)
LEMMA AnalysisKeeps ==
    ASSUME IInv, Analysing,
           is_mut' = (is_mut \/ gen'.write # NoWrite),
           gen.write # NoWrite => gen'.write # NoWrite
    PROVE  IInv'
<1>1. GenShape'
    BY DEF Analysing, GenShape, running
<1>2. QueryShape'
    BY DEF Analysing, QueryShape, IInv
<1>3. FlagAgrees'
    BY DEF Analysing, FlagAgrees, IInv, Writes
<1>4. RunShape'
    BY DEF Analysing, RunShape, IInv, running
<1> QED
    BY <1>1, <1>2, <1>3, <1>4 DEF IInv

(* A type of the analyzer is not NoType.                                   *)
Kinds == {"Node", "Nodes", "Edge", "Edges", "Vector", "Vectors", "Count",
          "Aggregate"}

(* A type of items is a type.                                               *)
LEMMA TypeIsAType ==
    ASSUME NEW k \in Kinds, NEW l
    PROVE  Type(k, l) # NoType
BY DEF Type, NoType, Kinds

(* A traversal begins without a write.                                      *)
LEMMA BeginKeeps ==
    ASSUME IInv, NEW w, NEW g, NEW c \in Collects, NEW ty, ty # NoType,
           Begin(w, g, c, ty)
    PROVE  IInv'
<1>2. gen'.write = NoWrite /\ gen'.collect = c
    BY DEF Begin, Traversal
<1>3. gen.write = NoWrite
    BY DEF Begin, IInv, GenShape
<1>4. Analysing
    BY <1>2 DEF Begin, Analysing
<1> QED
    BY <1>2, <1>3, <1>4, AnalysisKeeps DEF Begin, IInv, FlagAgrees

(* A step that reads adds no write.                                         *)
LEMMA ExtendKeeps ==
    ASSUME IInv, NEW st, NEW c \in Collects, NEW ty, ty # NoType,
           Extend(st, c, ty)
    PROVE  IInv'
<1>3. gen'.write = gen.write /\ gen'.collect = c
    BY DEF Extend, Traversal
<1>4. Analysing
    BY <1>3 DEF Extend, Open, Analysing
<1> QED
    BY <1>3, <1>4, AnalysisKeeps DEF Extend, IInv, FlagAgrees

(* No source writes.                                                        *)
LEMMA SourceKeeps ==
    ASSUME IInv, NEW start, NEW c \in {"ToVec", "ToObj"}, NEW k \in Kinds,
           NEW l, Source(start, c, Type(k, l))
    PROVE  IInv'
<1>1. Type(k, l) # NoType
    BY TypeIsAType
<1>2. Begin(start, start, c, Type(k, l))
    BY DEF Source
<1> HIDE DEF Kinds
<1> QED
    BY <1>1, <1>2, BeginKeeps DEF Collects

(* Each source.                                                             *)
LEMMA StartKeeps == IInv /\ StartStep => IInv'
<1> SUFFICES ASSUME IInv, StartStep PROVE IInv'
    OBVIOUS
<1>1. ASSUME NEW k \in {"Node", "Nodes", "Edge", "Edges", "Vector", "Vectors"},
             NEW c \in {"ToVec", "ToObj"}, NEW start, NEW l,
             Source(start, c, Type(k, l))
      PROVE  IInv'
    BY <1>1, SourceKeeps DEF Kinds
<1>2. CASE StartNodes
    <2>1. PICK t \in NodeTypes :
            Source(Start("NFromType", t, None), "ToVec", Type("Nodes", t))
        BY <1>2 DEF StartNodes
    <2> QED
        BY <1>1, <2>1
<1>3. CASE StartNodeByIndex
    <2>1. PICK t \in Indexed : \E v \in Vals :
            Source(Start("NFromIndex", t, v), "ToObj", Type("Node", t))
        BY <1>3 DEF StartNodeByIndex
    <2>2. PICK v \in Vals :
            Source(Start("NFromIndex", t, v), "ToObj", Type("Node", t))
        BY <2>1
    <2> QED
        BY <1>1, <2>2
<1>4. CASE StartNodeByID
    <2>1. PICK t \in NodeTypes : \E i \in Ids :
            Source(Start("NFromID", t, i), "ToObj", Type("Node", t))
        BY <1>4 DEF StartNodeByID
    <2>2. PICK i \in Ids :
            Source(Start("NFromID", t, i), "ToObj", Type("Node", t))
        BY <2>1
    <2> QED
        BY <1>1, <2>2
<1>5. CASE StartEdges
    <2>1. PICK e \in EdgeTypes :
            \/ Source(Start("EFromType", e, None), "ToVec", Type("Edges", e))
            \/ \E i \in Ids :
                  Source(Start("EFromID", e, i), "ToObj", Type("Edge", e))
        BY <1>5 DEF StartEdges
    <2>2. CASE Source(Start("EFromType", e, None), "ToVec", Type("Edges", e))
        BY <1>1, <2>2
    <2>3. ASSUME NEW i \in Ids,
                 Source(Start("EFromID", e, i), "ToObj", Type("Edge", e))
          PROVE  IInv'
        BY <1>1, <2>3
    <2> QED
        BY <2>1, <2>2, <2>3
<1>6. CASE StartVectors
    <2>1. PICK t \in VectorTypes :
            \/ Source(Start("VFromType", t, None), "ToVec",
                      Type("Vectors", t))
            \/ \E i \in Ids :
                  Source(Start("VFromID", t, i), "ToObj", Type("Vector", t))
        BY <1>6 DEF StartVectors
    <2>2. CASE Source(Start("VFromType", t, None), "ToVec", Type("Vectors", t))
        BY <1>1, <2>2
    <2>3. ASSUME NEW i \in Ids,
                 Source(Start("VFromID", t, i), "ToObj", Type("Vector", t))
          PROVE  IInv'
        BY <1>1, <2>3
    <2> QED
        BY <2>1, <2>2, <2>3
<1>7. CASE StartIdentifier
    <2>1. PICK x \in DOMAIN scope :
            /\ IsItems(scope[x].ty)
            /\ Begin(Start("Variable", None, x),
                     Start(IF scope[x].single THEN "FromSingle" ELSE "FromIter",
                           None, x),
                     "ToVec", scope[x].ty)
        BY <1>7 DEF StartIdentifier
    <2>2. scope[x].ty # NoType
        BY <2>1 DEF IsItems, Singles, Plurals, NoType, Type
    <2> QED
        BY <2>1, <2>2, BeginKeeps DEF Collects
<1> QED
    BY <1>2, <1>3, <1>4, <1>5, <1>6, <1>7 DEF StartStep

(* Each step along the graph.                                               *)
LEMMA GraphStepKeeps == IInv /\ GraphStep => IInv'
<1> SUFFICES ASSUME IInv, GraphStep PROVE IInv'
    OBVIOUS
<1>1. ASSUME NEW l PROVE Many(l) # NoType /\ into_single(Many(l)) # NoType
    BY DEF Many, into_single, Type, NoType
<1>2. ASSUME NEW e, NEW st, Extend(st, "ToVec", Type("Edges", e))
      PROVE  IInv'
    <2>1. Type("Edges", e) # NoType
        BY TypeIsAType DEF Kinds
    <2> QED
        BY <1>2, <2>1, ExtendKeeps DEF Collects
<1>3. ASSUME NEW o, NEW h, NEW l, EdgeEnd(o, h, l) PROVE IInv'
    <2>1. CASE Extend(Step(o, None, h), "ToVec", Many(l))
        BY <2>1, <1>1, ExtendKeeps DEF Collects
    <2>2. CASE Extend(Step(o, None, h), "ToObj", into_single(Many(l)))
        BY <2>2, <1>1, ExtendKeeps DEF Collects
    <2> QED
        BY <1>3, <2>1, <2>2 DEF EdgeEnd
<1>4. CASE StepOutE
    <2>1. PICK e \in EdgeTypes :
            Extend(Step("OutE", e, None), "ToVec", Type("Edges", e))
        BY <1>4 DEF StepOutE
    <2> QED
        BY <2>1, <1>2
<1>5. CASE StepInE
    <2>1. PICK e \in EdgeTypes :
            Extend(Step("InE", e, None), "ToVec", Type("Edges", e))
        BY <1>5 DEF StepInE
    <2> QED
        BY <2>1, <1>2
<1>6. CASE StepOut
    <2>1. PICK e \in EdgeTypes :
            Extend(Step("Out", e, EdgeTypeOf(Ends[e].to)), "ToVec",
                   Many(Ends[e].to))
        BY <1>6 DEF StepOut
    <2> QED
        BY <2>1, <1>1, ExtendKeeps DEF Collects
<1>7. CASE StepIn
    <2>1. PICK e \in EdgeTypes :
            Extend(Step("In", e, EdgeTypeOf(Ends[e].from)), "ToVec",
                   Many(Ends[e].from))
        BY <1>7 DEF StepIn
    <2> QED
        BY <2>1, <1>1, ExtendKeeps DEF Collects
<1>8. CASE StepFromN \/ StepToN \/ StepFromV \/ StepToV
    BY <1>8, <1>3 DEF StepFromN, StepToN, StepFromV, StepToV
<1> QED
    BY <1>4, <1>5, <1>6, <1>7, <1>8 DEF GraphStep

(* Each step that filters, orders or counts.                                *)
LEMMA UtilStepKeeps == IInv /\ UtilStep => IInv'
<1> SUFFICES ASSUME IInv, UtilStep PROVE IInv'
    OBVIOUS
<1>1. CASE StepWhere
    <2>1. /\ Open /\ UNCHANGED <<query, running, cur_ty, is_mut>>
          /\ gen'.collect = gen.collect /\ gen'.write = gen.write
        BY <1>1 DEF StepWhere, Traversal
    <2>2. Analysing
        BY <2>1 DEF Analysing, Open, IInv, GenShape
    <2> QED
        BY <2>1, <2>2, AnalysisKeeps DEF IInv, FlagAgrees
<1>2. CASE StepRange
    <2>1. PICK lo \in 0..1 : /\ Open
                             /\ Extend(Window(lo, lo + 1), gen.collect, cur_ty)
        BY <1>2 DEF StepRange
    <2>2. cur_ty # NoType /\ gen.collect \in Collects
        BY <2>1 DEF Open, IInv, GenShape
    <2> QED
        BY <2>1, <2>2, ExtendKeeps
<1>3. CASE StepCount
    <2>1. Extend(Step("Count", None, None), "No", Type("Count", None))
        BY <1>3 DEF StepCount
    <2>2. Type("Count", None) # NoType
        BY TypeIsAType DEF Kinds
    <2> QED
        BY <2>1, <2>2, ExtendKeeps DEF Collects
<1>4. ASSUME NEW op, Grouping(op) PROVE IInv'
    <2>1. /\ Open /\ UNCHANGED <<query, running, is_mut>>
          /\ cur_ty' = Type("Aggregate", None)
          /\ gen'.collect = "Try" /\ gen'.write = gen.write
        BY <1>4 DEF Grouping, Traversal, GroupCollect
    <2>2. Type("Aggregate", None) # NoType
        BY TypeIsAType DEF Kinds
    <2>3. Analysing
        BY <2>1, <2>2 DEF Analysing, Open, Collects
    <2> QED
        BY <2>1, <2>3, AnalysisKeeps DEF IInv, FlagAgrees
<1> QED
    BY <1>1, <1>2, <1>3, <1>4 DEF UtilStep, StepAggregate, StepGroupBy

(* Each step that must come last: the ones that write mark the query.       *)
LEMMA LastStepKeeps == IInv /\ LastStep => IInv'
<1> SUFFICES ASSUME IInv, LastStep PROVE IInv'
    OBVIOUS
<1>1. ASSUME Open PROVE into_single(cur_ty) # NoType
    BY <1>1 DEF Open, into_single, Type, NoType
<1>2. CASE StepFirst
    <2>1. /\ Open /\ UNCHANGED <<query, running, is_mut>>
          /\ cur_ty' = into_single(cur_ty)
          /\ gen'.collect = "ToObj" /\ gen'.write = gen.write
        BY <1>2 DEF StepFirst, Traversal
    <2>2. Analysing
        BY <1>1, <2>1 DEF Analysing, Open, Collects
    <2> QED
        BY <2>1, <2>2, AnalysisKeeps DEF IInv, FlagAgrees
<1>3. ASSUME NEW op \in {"Update", "UpsertN"}, NEW v, NEW write, NEW start,
             write.op = op, Mutate(op, v, write, start)
      PROVE  IInv'
    <2>1. /\ Open /\ UNCHANGED <<query, running>>
          /\ is_mut' = TRUE
          /\ cur_ty' = into_single(cur_ty)
          /\ gen'.collect = "No" /\ gen'.write = write
        BY <1>3 DEF Mutate, MakesMut, Traversal
    <2>2. write # NoWrite
        BY <1>3 DEF NoWrite
    <2>3. Analysing
        BY <1>1, <2>1 DEF Analysing, Open, Collects
    <2> QED
        BY <2>1, <2>2, <2>3, AnalysisKeeps
<1>4. CASE StepUpdate
    <2>1. PICK v \in Vals :
            LET write == [op |-> "Update", label |-> cur_ty.label, val |-> v,
                          source |-> IF FromVariable THEN gen.start.key
                                     ELSE None]
            IN  Mutate("Update", v, write, gen.start)
        BY <1>4 DEF StepUpdate
    <2> QED
        BY <2>1, <1>3
<1>5. CASE StepUpsertN
    <2>1. PICK v \in Vals :
            LET write == [op |-> "UpsertN", label |-> cur_ty.label,
                          val |-> v,
                          source |-> IF FromVariable /\ ~Inlined
                                     THEN gen.start.key ELSE None]
            IN  Mutate("UpsertN", v, write,
                       IF Inlined THEN scope[gen.start.key].index
                       ELSE gen.start)
        BY <1>5 DEF StepUpsertN
    <2> QED
        BY <2>1, <1>3
<1> QED
    BY <1>2, <1>4, <1>5 DEF LastStep

(* A statement that ends: what was under construction is the last one now. *)
LEMMA EndKeeps ==
    ASSUME IInv, NEW kind \in {"let", "drop"}, NEW x, NEW c,
           c.collect \in Collects, c.write = gen.write,
           EndStatement(kind, x, c), phase = "compile",
           is_mut' = (is_mut \/ kind = "drop")
    PROVE  IInv'
<1> DEFINE s == [kind |-> kind, var |-> x, src |-> src, gen |-> c]
<1>1. PICK S : query \in Seq(S)
    BY DEF IInv, QueryShape
<1>2. query' = Append(query, s)
    BY DEF EndStatement
<1>3. query' \in Seq(S \cup {s})
    <2>1. query \in Seq(S \cup {s})
        BY <1>1
    <2> QED
        BY <1>2, <2>1
<1>4. /\ DOMAIN query' = DOMAIN query \cup {Len(query) + 1}
      /\ Len(query) + 1 \notin DOMAIN query
      /\ query'[Len(query) + 1] = s
      /\ \A k \in DOMAIN query : query'[k] = query[k]
    <2> HIDE DEF s
    <2> QED
        BY <1>1, <1>2
<1>5. gen'.write = NoWrite /\ gen'.collect = "No" /\ cur_ty' = NoType
    BY DEF EndStatement, NothingGenerated, Traversal
<1>6. GenShape'
    BY <1>5 DEF GenShape, Collects
<1>7. s.kind = kind /\ s.gen = c
    OBVIOUS
<1>8. QueryShape'
    <2> HIDE DEF s
    <2> QED
        BY <1>3, <1>4, <1>7 DEF IInv, QueryShape
<1>9. FlagAgrees'
    <2>1. Writes(s) = (kind = "drop" \/ gen.write # NoWrite)
        BY <1>7 DEF Writes
    <2>2. (\E k \in DOMAIN query' : Writes(query'[k]))
              = ((\E k \in DOMAIN query : Writes(query[k])) \/ Writes(s))
        <3> HIDE DEF s
        <3> QED
            BY <1>4
    <2>3. FlagAgrees
        BY DEF IInv
    <2> HIDE DEF s
    <2> QED
        BY <2>1, <2>2, <2>3, <1>5 DEF FlagAgrees
<1>10. RunShape'
    BY DEF IInv, RunShape, EndStatement, running
<1> QED
    BY <1>6, <1>8, <1>9, <1>10 DEF IInv

(* A statement joins the query, with its write and its mark.                *)
LEMMA StatementKeeps == IInv /\ (Assignment \/ DropStatement) => IInv'
<1> SUFFICES ASSUME IInv, Assignment \/ DropStatement PROVE IInv'
    OBVIOUS
<1>1. gen.collect \in Collects
    BY DEF IInv, GenShape
<1>2. CASE Assignment
    <2>1. PICK x \in Vars \ DOMAIN scope :
            Complete /\ EndStatement("let", x, gen) /\ UNCHANGED is_mut
        BY <1>2 DEF Assignment
    <2>2. is_mut' = (is_mut \/ "let" = "drop")
        BY <2>1 DEF IInv, FlagAgrees
    <2> QED
        BY <1>1, <2>1, <2>2, EndKeeps DEF Complete
<1>3. CASE DropStatement
    <2> DEFINE c == Traversal(gen.start, gen.steps, "No", gen.write)
    <2>1. Complete /\ EndStatement("drop", None, c) /\ is_mut' = TRUE
        BY <1>3 DEF DropStatement
    <2>2. c.collect \in Collects /\ c.write = gen.write
        BY DEF Traversal, Collects
    <2> HIDE DEF c
    <2> QED
        BY <2>1, <2>2, EndKeeps DEF Complete
<1> QED
    BY <1>2, <1>3

(* The handler opens the transaction the mark asks for.                     *)
LEMMA DeployKeeps == IInv /\ Deploy => IInv'
<1> SUFFICES ASSUME IInv, Deploy PROVE IInv'
    OBVIOUS
<1>1. UNCHANGED <<gen, cur_ty, query, is_mut, pos>> /\ cur_ty = NoType
    BY DEF Deploy, analysis
<1>2. phase' = "run" /\ db' = stored' /\ pos = 0
    BY DEF Deploy, IInv, RunShape
<1>3. Len(query) \in Nat /\ Len(query) > 0
    <2>1. PICK S : query \in Seq(S)
        BY DEF IInv, QueryShape
    <2>2. query # <<>>
        BY DEF Deploy
    <2> QED
        BY <2>1, <2>2
<1>4. GenShape' /\ QueryShape' /\ FlagAgrees'
    BY <1>1 DEF IInv, GenShape, QueryShape, FlagAgrees, Writes
<1>5. RunShape'
    BY <1>1, <1>2, <1>3 DEF RunShape
<1> QED
    BY <1>4, <1>5 DEF IInv

(* A statement that only reads leaves the graph as it was.                  *)
LEMMA ExecuteKeeps == IInv /\ Execute => IInv'
<1> SUFFICES ASSUME IInv, Execute PROVE IInv'
    OBVIOUS
<1> DEFINE s == query[pos + 1]
           r == RunStatement(db, env, s)
<1>1. UNCHANGED <<gen, cur_ty, query, is_mut, stored>>
    BY DEF Execute, analysis
<1>2. phase = "run" /\ RunGenerated(s)
    BY DEF Execute
<1>3. pos \in Nat /\ pos < Len(query) /\ Len(query) \in Nat
      /\ pos + 1 \in DOMAIN query
    <2>1. PICK S : query \in Seq(S)
        BY DEF IInv, QueryShape
    <2> QED
        BY <1>2, <2>1 DEF IInv, RunShape
<1>4. GenShape' /\ QueryShape' /\ FlagAgrees'
    <2>1. phase' # "compile" => cur_ty' = NoType
        BY <1>1, <1>2 DEF IInv, GenShape
    <2> QED
        BY <1>1, <2>1 DEF IInv, GenShape, QueryShape, FlagAgrees, Writes
<1>5. /\ pos' = pos + 1
      /\ phase' \in {"run", "committed", "failed"}
      /\ phase' = "run" => pos + 1 # Len(query)
      /\ db' \in {stored, r.graph}
    BY <1>2 DEF RunGenerated, Run
<1>6. ASSUME ~is_mut PROVE db' = stored'
    <2>1. ~Writes(s)
        BY <1>3, <1>6 DEF IInv, FlagAgrees
    <2>2. s.kind \in {"let", "drop"} /\ s.gen.collect \in Collects
        BY <1>3 DEF IInv, QueryShape
    <2> HIDE DEF s
    <2>3. r.graph = db
        BY <2>1, <2>2, ReadsLeaveGraph
    <2>4. db = stored
        BY <1>6 DEF IInv, RunShape
    <2> QED
        BY <1>1, <1>5, <2>3, <2>4
<1>7. RunShape'
    BY <1>1, <1>3, <1>5, <1>6 DEF RunShape
<1> QED
    BY <1>4, <1>7 DEF IInv

(* Nothing changes.                                                         *)
LEMMA StutterKeeps == IInv /\ UNCHANGED vars => IInv'
<1> SUFFICES ASSUME IInv, UNCHANGED vars PROVE IInv'
    OBVIOUS
<1>1. UNCHANGED <<gen, cur_ty, query, is_mut, phase, pos, stored, db>>
    BY DEF vars, analysis, running
<1>2. GenShape' /\ RunShape'
    BY <1>1 DEF IInv, GenShape, RunShape
<1>3. QueryShape'
    BY <1>1 DEF IInv, QueryShape
<1>4. FlagAgrees'
    BY <1>1 DEF IInv, FlagAgrees, Writes
<1> QED
    BY <1>2, <1>3, <1>4 DEF IInv

(* Every step keeps the invariant.                                          *)
LEMMA IInvStep == IInv /\ [Next]_vars => IInv'
BY StartKeeps, GraphStepKeeps, UtilStepKeeps, LastStepKeeps, StatementKeeps,
   DeployKeeps, ExecuteKeeps, StutterKeeps DEF Next

(* The invariant says what the theorem does.                                *)
LEMMA IInvImplies == IInv => ReadersDoNotWrite
BY DEF IInv, GenShape, FlagAgrees, RunShape, ReadersDoNotWrite

-----------------------------------------------------------------------------
(* The analyzer's is_mut is exact: a query runs in a read transaction only   *)
(* if none of its statements, as generated, writes, and such a query leaves  *)
(* the graph as it was.                                                      *)
THEOREM ReadersNeverWrite == Spec => []ReadersDoNotWrite
<1>1. Init => IInv
    BY InitIInv
<1>2. IInv /\ [Next]_vars => IInv'
    BY IInvStep
<1>3. IInv => ReadersDoNotWrite
    BY IInvImplies
<1> QED
    BY <1>1, <1>2, <1>3, PTL DEF Spec

-----------------------------------------------------------------------------
(* Numbers and lists.                                                      *)

(* A nonempty set of natural numbers has a least element.                  *)
LEMMA LeastNumber ==
    ASSUME NEW S \in SUBSET Nat, S # {}
    PROVE  \E n \in S : \A m \in S : n <= m
<1> DEFINE R == {p \in Nat \X Nat : p[1] < p[2]}
<1>1. IsWellFoundedOn(R, Nat)
    BY NatLessThanWellFounded DEF OpToRel
<1> HIDE DEF R
<1>2. PICK n \in S : \A m \in S : <<m, n>> \notin R
    BY <1>1, WFMin
<1>3. \A m \in S : ~ (m < n)
    BY <1>2 DEF R
<1> QED
    BY <1>3

(* A set of numbers has a least one.                                        *)
LEMMA LeastOf ==
    ASSUME NEW S \in SUBSET Nat, S # {}
    PROVE  \E n \in S : \A m \in S \ {n} : n < m
<1>1. PICK n \in S : \A m \in S : n <= m
    BY LeastNumber
<1>2. \A m \in S \ {n} : n < m
    <2> SUFFICES ASSUME NEW m \in S \ {n} PROVE n < m
        OBVIOUS
    <2>1. n \in Nat /\ m \in Nat /\ n <= m /\ n # m
        BY <1>1
    <2> QED
        BY <2>1
<1> QED
    BY <1>2

(* For each place there is a number of the set with so many below it.      *)
Below(S, i) == {j \in S : j < i}

(* Some number of the set has n of them below it, for each n under its      *)
(* size.                                                                    *)
LEMMA PlaceExists ==
    ASSUME NEW n \in Nat,
           NEW S \in SUBSET Nat, IsFiniteSet(S), n < Cardinality(S)
    PROVE  \E i \in S : Cardinality(Below(S, i)) = n
<1> DEFINE Lacks(m) == \E T \in SUBSET Nat :
                          /\ IsFiniteSet(T) /\ m < Cardinality(T)
                          /\ \A i \in T : Cardinality(Below(T, i)) # m
           Bad == {m \in Nat : Lacks(m)}
<1>1. ASSUME Bad # {} PROVE FALSE
    <2>1. PICK m \in Bad : \A k \in Bad : m <= k
        <3>1. Bad \in SUBSET Nat
            OBVIOUS
        <3> HIDE DEF Bad
        <3> QED
            BY <1>1, <3>1, LeastNumber
    <2>2. m \in Nat /\ Lacks(m)
        BY <2>1
    <2>3. PICK T \in SUBSET Nat : /\ IsFiniteSet(T) /\ m < Cardinality(T)
                                  /\ \A i \in T : Cardinality(Below(T, i)) # m
        BY <2>2
    <2>4. Cardinality(T) \in Nat /\ T # {}
        BY <2>2, <2>3, FS_CardinalityType, FS_EmptySet
    <2>5. PICK a \in T : \A j \in T \ {a} : a < j
        BY <2>4, LeastOf
    <2>6. CASE m = 0
        <3>1. Below(T, a) = {}
            <4> SUFFICES ASSUME NEW j \in T, j < a PROVE FALSE
                BY DEF Below
            <4>1. j \in Nat /\ a \in Nat
                OBVIOUS
            <4> QED
                BY <2>5, <4>1
        <3> QED
            BY <2>3, <2>6, <3>1, FS_EmptySet
    <2>7. CASE m # 0
        <3> DEFINE U == T \ {a}
        <3>1. U \in SUBSET Nat /\ IsFiniteSet(U) /\ Cardinality(U) = Cardinality(T) - 1
            BY <2>3, <2>5, FS_RemoveElement
        <3>2. m - 1 \in Nat /\ m - 1 < Cardinality(U) /\ ~(m <= m - 1)
            BY <2>2, <2>3, <2>4, <2>7, <3>1
        <3>3. m - 1 \notin Bad
            <4> HIDE DEF Bad
            <4> QED
                BY <2>1, <3>2
        <3>4. PICK i \in U : Cardinality(Below(U, i)) = m - 1
            BY <3>1, <3>2, <3>3
        <3>5. Below(T, i) = Below(U, i) \cup {a} /\ a \notin Below(U, i)
            BY <2>5, <3>4 DEF Below
        <3>6. IsFiniteSet(Below(U, i))
            BY <3>1, FS_Subset DEF Below
        <3>7. Cardinality(Below(T, i)) = Cardinality(Below(U, i)) + 1
            <4> HIDE DEF U
            <4> QED
                BY <3>5, <3>6, FS_AddElement
        <3> QED
            BY <2>2, <2>3, <3>4, <3>7
    <2> QED
        BY <2>6, <2>7
<1>2. ~ Lacks(n)
    <2> HIDE DEF Lacks
    <2> QED
        BY <1>1
<1> QED
    BY <1>2

(* What is in a place is in the set.                                        *)
LEMMA PlaceOf ==
    ASSUME NEW S \in SUBSET Nat, IsFiniteSet(S), NEW p \in 1 .. Cardinality(S)
    PROVE  (CHOOSE i \in S : Cardinality({j \in S : j < i}) = p - 1) \in S
<1>1. Cardinality(S) \in Nat
    BY FS_CardinalityType
<1>2. p - 1 \in Nat /\ p - 1 < Cardinality(S)
    BY <1>1
<1>3. PICK i \in S : Cardinality(Below(S, i)) = p - 1
    BY <1>2, PlaceExists
<1> QED
    BY <1>3 DEF Below

(* What an iterator yields is a finite sequence.                           *)
Entries(s) == {s[k] : k \in DOMAIN s}
IsList(s) == s \in Seq(Entries(s))

(* A function on the first n numbers is a list of n.                        *)
LEMMA ListMade ==
    ASSUME NEW n \in Nat, NEW s, s = [k \in 1 .. n |-> s[k]]
    PROVE  IsList(s) /\ Len(s) = n
<1>1. DOMAIN s = 1 .. n /\ s \in [1 .. n -> Entries(s)]
    BY DEF Entries
<1>2. s \in Seq(Entries(s))
    BY <1>1, SeqDef
<1> QED
    BY <1>1, <1>2, LenProperties DEF IsList

(* What a list is.                                                          *)
LEMMA ListFacts ==
    ASSUME NEW s, IsList(s)
    PROVE  /\ Len(s) \in Nat /\ DOMAIN s = 1 .. Len(s)
           /\ s = [k \in 1 .. Len(s) |-> s[k]]
           /\ IsFiniteSet(DOMAIN s) /\ DOMAIN s \in SUBSET Nat
           /\ s # <<>> <=> 0 < Len(s)
<1>1. Len(s) \in Nat /\ DOMAIN s = 1 .. Len(s) /\ s = [k \in 1 .. Len(s) |-> s[k]]
    BY LenProperties DEF IsList
<1>2. IsFiniteSet(DOMAIN s)
    BY <1>1, FS_Interval
<1>3. s # <<>> <=> 0 < Len(s)
    BY <1>1, EmptySeq DEF IsList
<1> QED
    BY <1>1, <1>2, <1>3

(* A sequence over a set is a list of its members.                          *)
LEMMA ListIn ==
    ASSUME NEW S, NEW s \in Seq(S)
    PROVE  IsList(s) /\ Entries(s) \subseteq S
<1>1. /\ Len(s) \in Nat /\ DOMAIN s = 1 .. Len(s) /\ s = [k \in 1 .. Len(s) |-> s[k]]
      /\ \A k \in DOMAIN s : s[k] \in S
    BY LenProperties, ElementOfSeq
<1> QED
    BY <1>1, ListMade DEF Entries

(* The empty list, and a list of one.                                       *)
LEMMA ListsOfFew ==
    ASSUME NEW e
    PROVE  /\ IsList(<<>>)
           /\ IsList(<<e>>) /\ DOMAIN <<e>> = {1} /\ <<e>>[1] = e
<1>1. <<>> \in Seq({e}) /\ <<e>> \in Seq({e})
    OBVIOUS
<1>2. DOMAIN <<e>> = {1} /\ <<e>>[1] = e
    OBVIOUS
<1> QED
    BY <1>1, <1>2, ListIn

(* What is listed in the order of a finite set of numbers.                   *)
Place(S, p) == CHOOSE i \in S : Cardinality({j \in S : j < i}) = p - 1

(* A table read in the order of its keys is a list of what was read.        *)
LEMMA OrderedList ==
    ASSUME NEW S \in SUBSET Nat, IsFiniteSet(S), NEW read, NEW T,
           \A i \in S : read[i] \in T,
           NEW s, s = [p \in 1 .. Cardinality(S) |-> read[Place(S, p)]]
    PROVE  IsList(s) /\ Entries(s) \subseteq T
<1> DEFINE n == Cardinality(S)
<1>1. n \in Nat
    BY FS_CardinalityType
<1>2. s = [p \in 1 .. n |-> s[p]]
    OBVIOUS
<1>3. IsList(s) /\ DOMAIN s = 1 .. n
    <2> HIDE DEF n
    <2> QED
        BY <1>1, <1>2, ListMade
<1>4. \A p \in 1 .. n : Place(S, p) \in S
    BY PlaceOf DEF Place
<1>5. \A p \in DOMAIN s : s[p] \in T
    BY <1>3, <1>4
<1> QED
    BY <1>3, <1>5 DEF Entries

(* The lists of a list, one after the other: FlattenSeq is a recursive       *)
(* function on the positions, which exists up to each of them.               *)
Joined(s, n, f) ==
    f = [i \in 1 .. n |-> IF i = 1 THEN s[i] ELSE f[i - 1] \o s[i]]

(* The beginnings of a list of lists, joined, form a function.              *)
LEMMA JoinedExists ==
    ASSUME NEW s, NEW n \in Nat
    PROVE  \E f : Joined(s, n, f)
<1> DEFINE Bad == {m \in Nat : ~ \E f : Joined(s, m, f)}
<1>1. ASSUME Bad # {} PROVE FALSE
    <2>1. PICK m \in Bad : \A k \in Bad : m <= k
        <3>1. Bad \in SUBSET Nat
            OBVIOUS
        <3> HIDE DEF Bad
        <3> QED
            BY <1>1, <3>1, LeastNumber
    <2>2. m \in Nat /\ ~ \E f : Joined(s, m, f)
        BY <2>1
    <2>3. m # 0
        <3> DEFINE z == [i \in 1 .. 0 |-> 0]
        <3>1. Joined(s, 0, z)
            BY DEF Joined
        <3> QED
            BY <2>2, <3>1
    <2>4. m - 1 \in Nat /\ ~ (m <= m - 1)
        BY <2>2, <2>3
    <2>5. m - 1 \notin Bad
        <3> HIDE DEF Bad
        <3> QED
            BY <2>1, <2>4
    <2>6. PICK f : Joined(s, m - 1, f)
        BY <2>4, <2>5
    <2> DEFINE h == [i \in 1 .. m |-> IF i = 1 THEN s[i] ELSE f[i - 1] \o s[i]]
    <2>7. ASSUME NEW i \in 1 .. m - 1 PROVE h[i] = f[i]
        <3>1. f[i] = IF i = 1 THEN s[i] ELSE f[i - 1] \o s[i]
            BY <2>6 DEF Joined
        <3> QED
            BY <2>2, <3>1
    <2>8. ASSUME NEW i \in 1 .. m, i # 1 PROVE h[i - 1] = f[i - 1]
        <3>1. i - 1 \in 1 .. m - 1
            BY <2>2, <2>8
        <3> HIDE DEF h
        <3> QED
            BY <3>1, <2>7
    <2>9. Joined(s, m, h)
        <3>1. h = [i \in 1 .. m |-> IF i = 1 THEN s[i] ELSE h[i - 1] \o s[i]]
            BY <2>8
        <3> HIDE DEF h
        <3> QED
            BY <3>1 DEF Joined
    <2> QED
        BY <2>2, <2>9
<1> QED
    BY <1>1

(* A list of lists, joined, holds what they hold.                           *)
LEMMA FlattenedIn ==
    ASSUME NEW s, IsList(s), \A k \in DOMAIN s : IsList(s[k])
    PROVE  /\ IsList(FlattenSeq(s))
           /\ Entries(FlattenSeq(s)) \subseteq UNION {Entries(s[k]) : k \in DOMAIN s}
<1> DEFINE n == Len(s)
           U == UNION {Entries(s[k]) : k \in DOMAIN s}
           F == CHOOSE f : Joined(s, n, f)
<1>1. n \in Nat /\ DOMAIN s = 1 .. n
    BY ListFacts
<1>2. \A k \in 1 .. n : s[k] \in Seq(U)
    <2> SUFFICES ASSUME NEW k \in 1 .. n PROVE s[k] \in Seq(U)
        OBVIOUS
    <2>1. /\ Len(s[k]) \in Nat /\ DOMAIN s[k] = 1 .. Len(s[k])
          /\ s[k] = [i \in 1 .. Len(s[k]) |-> s[k][i]]
        BY <1>1, ListFacts
    <2>2. \A i \in DOMAIN s[k] : s[k][i] \in U
        BY <1>1 DEF Entries
    <2>3. s[k] \in [1 .. Len(s[k]) -> U]
        BY <2>1, <2>2
    <2> QED
        BY <2>1, <2>3, SeqDef
<1>3. CASE n = 0
    <2>1. FlattenSeq(s) = s /\ Entries(s) = {}
        BY <1>1, <1>3 DEF FlattenSeq, Entries
    <2> QED
        BY <2>1
<1>4. CASE n # 0
    <2>1. Joined(s, n, F)
        BY <1>1, JoinedExists
    <2>2. FlattenSeq(s) = F[n]
        BY <1>4 DEF FlattenSeq, Joined
    <2> HIDE DEF F
    <2> DEFINE Bad == {i \in 1 .. n : F[i] \notin Seq(U)}
    <2>3. ASSUME Bad # {} PROVE FALSE
        <3>1. PICK i \in Bad : \A j \in Bad : i <= j
            <4>1. Bad \in SUBSET Nat
                OBVIOUS
            <4> HIDE DEF Bad
            <4> QED
                BY <2>3, <4>1, LeastNumber
        <3>2. i \in 1 .. n /\ F[i] \notin Seq(U)
            BY <3>1
        <3>3. F[i] = IF i = 1 THEN s[i] ELSE F[i - 1] \o s[i]
            BY <2>1, <3>2 DEF Joined
        <3>4. i # 1
            BY <1>2, <3>2, <3>3
        <3>5. i - 1 \in 1 .. n /\ ~ (i <= i - 1)
            BY <1>1, <3>2, <3>4
        <3>6. i - 1 \notin Bad
            <4> HIDE DEF Bad
            <4> QED
                BY <3>1, <3>5
        <3>7. F[i - 1] \in Seq(U) /\ s[i] \in Seq(U)
            BY <1>2, <3>2, <3>5, <3>6
        <3>8. F[i - 1] \o s[i] \in Seq(U)
            BY <3>7, ConcatProperties
        <3> QED
            BY <3>2, <3>3, <3>4, <3>8
    <2>4. F[n] \in Seq(U)
        BY <1>1, <1>4, <2>3
    <2>5. IsList(F[n]) /\ Entries(F[n]) \subseteq U
        <3> HIDE DEF U
        <3> QED
            BY <2>4, ListIn
    <2> QED
        BY <2>2, <2>5
<1> QED
    BY <1>3, <1>4

-----------------------------------------------------------------------------
(* Items of a type.  Of every id there is one label of a node and one of a   *)
(* vector, nl[i] and vl[i], None where no node or vector had the id; all     *)
(* records and all copies of them, stale ones included, agree with these.    *)

Goes(nl, vl, i, label) ==
    /\ i \in Nat
    /\ \/ label \in NodeTypes /\ nl[i] = label
       \/ label \in VectorTypes /\ vl[i] = label

Fits(nl, vl, kind, label, it) ==
    /\ it.kind = kind /\ it.label = label
    /\ it = Item(kind, it.id, label, it.f, it.from, it.to)
    /\ kind = "node" => it.id \in Nat /\ nl[it.id] = label
    /\ kind = "edge" => /\ Goes(nl, vl, it.from, Ends[label].from)
                       /\ Goes(nl, vl, it.to, Ends[label].to)

(* An item that was read, or the error in its place.                         *)
MayFit(nl, vl, kind, label, it) == it.kind = "error" \/ Fits(nl, vl, kind, label, it)

(* The kinds an item of a type may have.                                     *)
IsSort(kind, label) ==
    \/ kind = "node" /\ label \in NodeTypes
    \/ kind = "edge" /\ label \in EdgeTypes
    \/ kind = "vector" /\ label \in VectorTypes

Typed(nl, vl, kind, label, items) ==
    /\ IsList(items)
    /\ \A it \in Entries(items) : MayFit(nl, vl, kind, label, it)

Ids_(g) == {DOMAIN g.nodes, DOMAIN g.edges, DOMAIN g.vectors}

Described(g, nl, vl) ==
    /\ g = [nodes |-> g.nodes, edges |-> g.edges, vectors |-> g.vectors, next |-> g.next]
    /\ \A ids \in Ids_(g) : IsFiniteSet(ids) /\ ids \in SUBSET Nat
    /\ g.next \in Nat
    /\ nl \in [Nat -> NodeTypes \cup {None}] /\ vl \in [Nat -> VectorTypes \cup {None}]
    /\ \A i \in Nat : g.next <= i => nl[i] = None /\ vl[i] = None
    /\ \A i \in Nat : nl[i] = None \/ vl[i] = None
    /\ \A i \in DOMAIN g.nodes : g.nodes[i].label \in NodeTypes /\ nl[i] = g.nodes[i].label
    /\ \A i \in DOMAIN g.vectors : g.vectors[i].label \in VectorTypes /\ vl[i] = g.vectors[i].label
    /\ \A e \in DOMAIN g.edges :
          /\ g.edges[e].label \in EdgeTypes
          /\ Goes(nl, vl, g.edges[e].from, Ends[g.edges[e].label].from)
          /\ Goes(nl, vl, g.edges[e].to, Ends[g.edges[e].label].to)

(* An item made of a node has the label of the node.                        *)
LEMMA NodeFits ==
    ASSUME NEW g, NEW nl, NEW vl, Described(g, nl, vl), NEW i \in DOMAIN g.nodes
    PROVE  /\ NodeItem(g, i).label = g.nodes[i].label
           /\ Fits(nl, vl, "node", g.nodes[i].label, NodeItem(g, i))
<1>1. i \in Nat
    BY DEF Described, Ids_
<1> QED
    BY <1>1 DEF Described, NodeItem, Item, Fits

(* An item made of an edge has the label of the edge and its ends.          *)
LEMMA EdgeFits ==
    ASSUME NEW g, NEW nl, NEW vl, Described(g, nl, vl), NEW i \in DOMAIN g.edges
    PROVE  /\ EdgeItem(g, i).label = g.edges[i].label
           /\ Fits(nl, vl, "edge", g.edges[i].label, EdgeItem(g, i))
    BY DEF Described, EdgeItem, Item, Fits

(* An item made of a vector has the label of the vector.                    *)
LEMMA VectorFits ==
    ASSUME NEW g, NEW nl, NEW vl, Described(g, nl, vl), NEW i \in DOMAIN g.vectors
    PROVE  /\ VectorItem(g, i).label = g.vectors[i].label
           /\ Fits(nl, vl, "vector", g.vectors[i].label, VectorItem(g, i))
    BY DEF VectorItem, Item, Fits

(* An item that could not be read is of no kind and no label.               *)
LEMMA ErrKind == ErrItem.kind = "error" /\ ErrItem.label = None
    BY DEF ErrItem, Item

(* The end of an edge, if it can be read at all.                             *)
LEMMA EndFits ==
    ASSUME NEW g, NEW nl, NEW vl, Described(g, nl, vl), NEW label, NEW i,
           Goes(nl, vl, i, label)
    PROVE  MayFit(nl, vl, EdgeTypeOf(label), label, End(g, i, EdgeTypeOf(label)))
<1>1. CASE label \in NodeTypes
    <2>1. EdgeTypeOf(label) = "node" /\ nl[i] = label
        BY <1>1, SchemaAssumption DEF EdgeTypeOf, Goes
    <2>2. End(g, i, "node") = NodeItem(g, i)
        BY DEF End
    <2>3. CASE i \in DOMAIN g.nodes
        <3>1. g.nodes[i].label = label
            BY <2>1, <2>3 DEF Described
        <3> QED
            BY <2>1, <2>2, <2>3, <3>1, NodeFits DEF MayFit
    <2>4. CASE i \notin DOMAIN g.nodes
        BY <2>1, <2>2, <2>4, ErrKind DEF NodeItem, MayFit
    <2> QED
        BY <2>3, <2>4
<1>2. CASE label \notin NodeTypes
    <2>1. EdgeTypeOf(label) = "vector" /\ vl[i] = label
        BY <1>2 DEF EdgeTypeOf, Goes
    <2>2. End(g, i, "vector") = VectorItem(g, i)
        BY DEF End
    <2>3. CASE i \in DOMAIN g.vectors
        <3>1. g.vectors[i].label = label
            BY <2>1, <2>3 DEF Described
        <3> QED
            BY <2>1, <2>2, <2>3, <3>1, VectorFits DEF MayFit
    <2>4. CASE i \notin DOMAIN g.vectors
        BY <2>1, <2>2, <2>4, ErrKind DEF VectorItem, MayFit
    <2> QED
        BY <2>3, <2>4
<1> QED
    BY <1>1, <1>2

(* Filters yield a list of the items that pass.                              *)
LEMMA PassingIn ==
    ASSUME NEW items, IsList(items), NEW g, NEW t
    PROVE  /\ IsList(Readable(items))
           /\ Entries(Readable(items)) \subseteq {it \in Entries(items) : it.kind # "error"}
           /\ IsList(Edges(items))
           /\ Entries(Edges(items)) \subseteq {it \in Entries(items) : it.kind = "edge"}
           /\ IsList(Where(g, items, t))
           /\ Entries(Where(g, items, t)) \subseteq Entries(items)
<1> DEFINE R == {k \in DOMAIN items : items[k].kind # "error"}
           E == {k \in DOMAIN items : items[k].kind = "edge"}
           F == {k \in DOMAIN items : items[k].kind # "error" /\ Passes(g, t, items[k])}
           f == Where(g, items, t)
           readable == {it \in Entries(items) : it.kind # "error"}
           edges == {it \in Entries(items) : it.kind = "edge"}
<1>1. DOMAIN items \in SUBSET Nat /\ IsFiniteSet(DOMAIN items)
    BY ListFacts
<1>2. /\ R \in SUBSET Nat /\ IsFiniteSet(R)
      /\ Readable(items) = [p \in 1 .. Cardinality(R) |-> items[Place(R, p)]]
      /\ \A k \in R : items[k] \in readable
    BY <1>1, FS_Subset DEF Readable, Passing, InOrder, Place, Entries
<1>3. /\ E \in SUBSET Nat /\ IsFiniteSet(E)
      /\ Edges(items) = [p \in 1 .. Cardinality(E) |-> items[Place(E, p)]]
      /\ \A k \in E : items[k] \in edges
    BY <1>1, FS_Subset DEF Edges, Passing, InOrder, Place, Entries
<1>4. /\ F \in SUBSET Nat /\ IsFiniteSet(F)
      /\ f = [p \in 1 .. Cardinality(F) |-> items[Place(F, p)]]
      /\ \A k \in F : items[k] \in Entries(items)
    BY <1>1, FS_Subset DEF Where, FilterRef, Passing, InOrder, Place, Entries
<1> HIDE DEF R, E, F, f, readable, edges
<1>5. IsList(Readable(items)) /\ Entries(Readable(items)) \subseteq readable
    BY <1>2, OrderedList
<1>6. IsList(Edges(items)) /\ Entries(Edges(items)) \subseteq edges
    BY <1>3, OrderedList
<1>7. IsList(f) /\ Entries(f) \subseteq Entries(items)
    BY <1>4, OrderedList
<1> QED
    BY <1>5, <1>6, <1>7 DEF f, readable, edges

(* Part of what is typed is typed as it is.                                 *)
LEMMA TypedPart ==
    ASSUME NEW nl, NEW vl, NEW kind, NEW label, NEW items, NEW part,
           Typed(nl, vl, kind, label, items),
           IsList(part), Entries(part) \subseteq Entries(items)
    PROVE  Typed(nl, vl, kind, label, part)
    BY DEF Typed

(* What could be read of it is typed as it is.                              *)
LEMMA ReadableTyped ==
    ASSUME NEW nl, NEW vl, NEW kind, NEW label, NEW items,
           Typed(nl, vl, kind, label, items)
    PROVE  Typed(nl, vl, kind, label, Readable(items))
<1>1. IsList(items)
    BY DEF Typed
<1>2. /\ IsList(Readable(items))
      /\ Entries(Readable(items)) \subseteq {it \in Entries(items) : it.kind # "error"}
    BY <1>1, PassingIn
<1> QED
    BY <1>2 DEF Typed

-----------------------------------------------------------------------------
(* Sources and steps.                                                        *)

(* The records of some ids of a table, in order.                             *)
LEMMA TableListTyped ==
    ASSUME NEW g, NEW nl, NEW vl, Described(g, nl, vl), NEW kind, NEW label,
           NEW ids \in Ids_(g), NEW S \in SUBSET ids,
           NEW read, \A i \in S : MayFit(nl, vl, kind, label, read[i]),
           NEW s, s = [p \in 1 .. Cardinality(S) |-> read[Place(S, p)]]
    PROVE  Typed(nl, vl, kind, label, s)
<1> DEFINE T == {read[i] : i \in S}
<1>1. S \in SUBSET Nat /\ IsFiniteSet(S)
    <2>1. IsFiniteSet(ids) /\ ids \in SUBSET Nat
        BY DEF Described
    <2> QED
        BY <2>1, FS_Subset
<1>2. \A i \in S : read[i] \in T
    OBVIOUS
<1>3. IsList(s) /\ Entries(s) \subseteq T
    <2> HIDE DEF T
    <2> QED
        <3>1. s = [p \in 1 .. Cardinality(S) |-> read[Place(S, p)]]
            OBVIOUS
        <3>2. \A i \in S : read[i] \in T
            BY <1>2
        <3> QED
            BY <1>1, <3>1, <3>2, OrderedList
<1> QED
    BY <1>3 DEF Typed

(* The places of a table hold its keys.                                     *)
LEMMA TablePlace ==
    ASSUME NEW g, NEW nl, NEW vl, Described(g, nl, vl), NEW ids \in Ids_(g),
           NEW S \in SUBSET ids, NEW p \in 1 .. Cardinality(S)
    PROVE  Place(S, p) \in S
<1>1. IsFiniteSet(ids) /\ ids \in SUBSET Nat
    BY DEF Described
<1>2. S \in SUBSET Nat /\ IsFiniteSet(S)
    BY <1>1, FS_Subset
<1> QED
    BY <1>2, PlaceOf DEF Place

(* A source by type or by index yields items of its label.                  *)
LEMMA TypeSourceTyped ==
    ASSUME NEW g, NEW nl, NEW vl, Described(g, nl, vl), NEW label, NEW v
    PROVE  /\ Typed(nl, vl, "node", label, NFromType(g, label))
           /\ Typed(nl, vl, "node", label, NFromIndex(g, label, v))
           /\ Typed(nl, vl, "edge", label, EFromType(g, label))
           /\ Typed(nl, vl, "vector", label, VFromType(g, label))
<1>1. Typed(nl, vl, "node", label, NFromType(g, label))
    <2> DEFINE S == {i \in DOMAIN g.nodes : g.nodes[i].label = label}
               read == [i \in S |-> NodeItem(g, i)]
    <2>1. S \in SUBSET DOMAIN g.nodes /\ DOMAIN g.nodes \in Ids_(g)
        BY DEF Ids_
    <2>2. \A i \in S : MayFit(nl, vl, "node", label, read[i])
        BY NodeFits DEF MayFit
    <2>3. NFromType(g, label) = [p \in 1 .. Cardinality(S) |-> read[Place(S, p)]]
        <3>1. \A p \in 1 .. Cardinality(S) : Place(S, p) \in S
            <4> HIDE DEF S
            <4> QED
                BY <2>1, TablePlace
        <3>2. NFromType(g, label) = [p \in 1 .. Cardinality(S) |-> NodeItem(g, Place(S, p))]
            BY DEF NFromType, InOrder, Place
        <3> HIDE DEF S
        <3> QED
            BY <3>1, <3>2
    <2> HIDE DEF S, read
    <2> QED
        BY <2>1, <2>2, <2>3, TableListTyped
<1>2. Typed(nl, vl, "node", label, NFromIndex(g, label, v))
    <2> DEFINE S == {i \in DOMAIN g.nodes : g.nodes[i] = [label |-> label, f |-> v]}
               read == [i \in S |-> NodeItem(g, i)]
    <2>1. S \in SUBSET DOMAIN g.nodes /\ DOMAIN g.nodes \in Ids_(g)
        BY DEF Ids_
    <2>2. \A i \in S : MayFit(nl, vl, "node", label, read[i])
        BY NodeFits DEF MayFit
    <2>3. NFromIndex(g, label, v) = [p \in 1 .. Cardinality(S) |-> read[Place(S, p)]]
        <3>1. \A p \in 1 .. Cardinality(S) : Place(S, p) \in S
            <4> HIDE DEF S
            <4> QED
                BY <2>1, TablePlace
        <3>2. NFromIndex(g, label, v) = [p \in 1 .. Cardinality(S) |-> NodeItem(g, Place(S, p))]
            BY DEF NFromIndex, InOrder, Place
        <3> HIDE DEF S
        <3> QED
            BY <3>1, <3>2
    <2> HIDE DEF S, read
    <2> QED
        BY <2>1, <2>2, <2>3, TableListTyped
<1>3. Typed(nl, vl, "edge", label, EFromType(g, label))
    <2> DEFINE S == {i \in DOMAIN g.edges : g.edges[i].label = label}
               read == [i \in S |-> EdgeItem(g, i)]
    <2>1. S \in SUBSET DOMAIN g.edges /\ DOMAIN g.edges \in Ids_(g)
        BY DEF Ids_
    <2>2. \A i \in S : MayFit(nl, vl, "edge", label, read[i])
        BY EdgeFits DEF MayFit, MayFit
    <2>3. EFromType(g, label) = [p \in 1 .. Cardinality(S) |-> read[Place(S, p)]]
        <3>1. \A p \in 1 .. Cardinality(S) : Place(S, p) \in S
            <4> HIDE DEF S
            <4> QED
                BY <2>1, TablePlace
        <3>2. EFromType(g, label) = [p \in 1 .. Cardinality(S) |-> EdgeItem(g, Place(S, p))]
            BY DEF EFromType, InOrder, Place
        <3> HIDE DEF S
        <3> QED
            BY <3>1, <3>2
    <2> HIDE DEF S, read
    <2> QED
        BY <2>1, <2>2, <2>3, TableListTyped
<1>4. Typed(nl, vl, "vector", label, VFromType(g, label))
    <2> DEFINE S == {i \in DOMAIN g.vectors : g.vectors[i].label = label}
               read == [i \in S |-> VectorItem(g, i)]
    <2>1. S \in SUBSET DOMAIN g.vectors /\ DOMAIN g.vectors \in Ids_(g)
        BY DEF Ids_
    <2>2. \A i \in S : MayFit(nl, vl, "vector", label, read[i])
        BY VectorFits DEF MayFit
    <2>3. VFromType(g, label) = [p \in 1 .. Cardinality(S) |-> read[Place(S, p)]]
        <3>1. \A p \in 1 .. Cardinality(S) : Place(S, p) \in S
            <4> HIDE DEF S
            <4> QED
                BY <2>1, TablePlace
        <3>2. VFromType(g, label) = [p \in 1 .. Cardinality(S) |-> VectorItem(g, Place(S, p))]
            BY DEF VFromType, InOrder, Place
        <3> HIDE DEF S
        <3> QED
            BY <3>1, <3>2
    <2> HIDE DEF S, read
    <2> QED
        BY <2>1, <2>2, <2>3, TableListTyped
<1> QED
    BY <1>1, <1>2, <1>3, <1>4

(* A lookup by id yields an item of the label it names, or none that can be  *)
(* read, unless it met another label.                                        *)
LEMMA IdSourceTyped ==
    ASSUME NEW g, NEW nl, NEW vl, Described(g, nl, vl), NEW label, NEW i
    PROVE  /\ NodeItem(g, i).label \in {None, label} =>
                  Typed(nl, vl, "node", label, NFromID(g, i))
           /\ EdgeItem(g, i).label \in {None, label} =>
                  Typed(nl, vl, "edge", label, EFromID(g, i))
           /\ VectorItem(g, i).label \in {None, label} =>
                  Typed(nl, vl, "vector", label, VFromID(g, i))
<1>1. ASSUME NodeItem(g, i).label \in {None, label}
      PROVE  MayFit(nl, vl, "node", label, NodeItem(g, i))
    <2>1. CASE i \in DOMAIN g.nodes
        <3>1. g.nodes[i].label # None
            BY <2>1, SchemaAssumption DEF Described
        <3> QED
            BY <1>1, <2>1, <3>1, NodeFits DEF MayFit
    <2>2. CASE i \notin DOMAIN g.nodes
        BY <2>2, ErrKind DEF MayFit, NodeItem
    <2> QED
        BY <2>1, <2>2
<1>2. ASSUME EdgeItem(g, i).label \in {None, label}
      PROVE  MayFit(nl, vl, "edge", label, EdgeItem(g, i))
    <2>1. CASE i \in DOMAIN g.edges
        <3>1. g.edges[i].label # None
            BY <2>1, SchemaAssumption DEF Described
        <3> QED
            BY <1>2, <2>1, <3>1, EdgeFits DEF MayFit
    <2>2. CASE i \notin DOMAIN g.edges
        BY <2>2, ErrKind DEF MayFit, EdgeItem
    <2> QED
        BY <2>1, <2>2
<1>3. ASSUME VectorItem(g, i).label \in {None, label}
      PROVE  MayFit(nl, vl, "vector", label, VectorItem(g, i))
    <2>1. CASE i \in DOMAIN g.vectors
        <3>1. g.vectors[i].label # None
            BY <2>1, SchemaAssumption DEF Described
        <3> QED
            BY <1>3, <2>1, <3>1, VectorFits DEF MayFit
    <2>2. CASE i \notin DOMAIN g.vectors
        BY <2>2, ErrKind DEF MayFit, VectorItem
    <2> QED
        BY <2>1, <2>2
<1>4. \A it : IsList(<<it>>) /\ Entries(<<it>>) = {it}
    BY ListsOfFew DEF Entries
<1> QED
    BY <1>1, <1>2, <1>3, <1>4 DEF Typed, NFromID, EFromID, VFromID

(* The list of the lists that each item leads to.                            *)
LEMMA FlatTyped ==
    ASSUME NEW nl, NEW vl, NEW kind, NEW label, NEW items, IsList(items),
           NEW s, s = [k \in DOMAIN items |-> s[k]],
           \A k \in DOMAIN items : Typed(nl, vl, kind, label, s[k])
    PROVE  Typed(nl, vl, kind, label, FlattenSeq(s))
<1>1. IsList(s) /\ DOMAIN s = DOMAIN items
    <2>1. Len(items) \in Nat /\ DOMAIN items = 1 .. Len(items)
        BY ListFacts
    <2> QED
        BY <2>1, ListMade
<1>2. \A k \in DOMAIN s : IsList(s[k])
    BY <1>1 DEF Typed
<1>3. /\ IsList(FlattenSeq(s))
      /\ Entries(FlattenSeq(s)) \subseteq UNION {Entries(s[k]) : k \in DOMAIN s}
    BY <1>1, <1>2, FlattenedIn
<1> QED
    BY <1>1, <1>3 DEF Typed

(* Out yields items of the label its edge leads to.                         *)
LEMMA OutTyped ==
    ASSUME NEW g, NEW nl, NEW vl, Described(g, nl, vl), NEW e,
           NEW items, IsList(items),
           NEW l, l = Ends[e].to, NEW hop, hop = EdgeTypeOf(l)
    PROVE  Typed(nl, vl, hop, l, Out(g, items, e, hop))
<1> DEFINE far == [k \in DOMAIN items |->
                      InOrder(Outgoing(g, items[k].id, e),
                              LAMBDA d : End(g, g.edges[d].to, hop))]
           s == [k \in DOMAIN items |->
                    Readable(InOrder(Outgoing(g, items[k].id, e),
                                     LAMBDA d : End(g, g.edges[d].to, hop)))]
<1>1. ASSUME NEW k \in DOMAIN items
      PROVE  Typed(nl, vl, hop, l, s[k])
    <2> DEFINE S == Outgoing(g, items[k].id, e)
               read == [d \in S |-> End(g, g.edges[d].to, hop)]
    <2>1. S \in SUBSET DOMAIN g.edges /\ DOMAIN g.edges \in Ids_(g)
        BY DEF Ids_, Outgoing
    <2>2. \A d \in S : Goes(nl, vl, g.edges[d].to, l)
        BY DEF Outgoing, Described
    <2>3. \A d \in S : MayFit(nl, vl, hop, l, read[d])
        BY <2>2, EndFits
    <2>4. far[k] = [p \in 1 .. Cardinality(S) |-> read[Place(S, p)]]
        <3>1. \A p \in 1 .. Cardinality(S) : Place(S, p) \in S
            <4> HIDE DEF S
            <4> QED
                BY <2>1, TablePlace
        <3>2. far[k] = [p \in 1 .. Cardinality(S) |-> End(g, g.edges[Place(S, p)].to, hop)]
            BY DEF InOrder, Place
        <3> HIDE DEF S, far
        <3> QED
            BY <3>1, <3>2
    <2>5. Typed(nl, vl, hop, l, far[k])
        <3> HIDE DEF S, read, far
        <3> QED
            BY <2>1, <2>3, <2>4, TableListTyped
    <2>6. s[k] = Readable(far[k])
        OBVIOUS
    <2> HIDE DEF far, s
    <2> QED
        BY <2>5, <2>6, ReadableTyped
<1>2. Out(g, items, e, hop) = FlattenSeq(s)
    BY DEF Out, FlatMap
<1>3. s = [k \in DOMAIN items |-> s[k]]
    OBVIOUS
<1> HIDE DEF s
<1> QED
    BY <1>1, <1>2, <1>3, FlatTyped

(* In yields items of the label its edge comes from.                        *)
LEMMA InTyped ==
    ASSUME NEW g, NEW nl, NEW vl, Described(g, nl, vl), NEW e,
           NEW items, IsList(items),
           NEW l, l = Ends[e].from, NEW hop, hop = EdgeTypeOf(l)
    PROVE  Typed(nl, vl, hop, l, In(g, items, e, hop))
<1> DEFINE far == [k \in DOMAIN items |->
                      InOrder(Incoming(g, items[k].id, e),
                              LAMBDA d : End(g, g.edges[d].from, hop))]
           s == [k \in DOMAIN items |->
                    Readable(InOrder(Incoming(g, items[k].id, e),
                                     LAMBDA d : End(g, g.edges[d].from, hop)))]
<1>1. ASSUME NEW k \in DOMAIN items
      PROVE  Typed(nl, vl, hop, l, s[k])
    <2> DEFINE S == Incoming(g, items[k].id, e)
               read == [d \in S |-> End(g, g.edges[d].from, hop)]
    <2>1. S \in SUBSET DOMAIN g.edges /\ DOMAIN g.edges \in Ids_(g)
        BY DEF Ids_, Incoming
    <2>2. \A d \in S : Goes(nl, vl, g.edges[d].from, l)
        BY DEF Incoming, Described
    <2>3. \A d \in S : MayFit(nl, vl, hop, l, read[d])
        BY <2>2, EndFits
    <2>4. far[k] = [p \in 1 .. Cardinality(S) |-> read[Place(S, p)]]
        <3>1. \A p \in 1 .. Cardinality(S) : Place(S, p) \in S
            <4> HIDE DEF S
            <4> QED
                BY <2>1, TablePlace
        <3>2. far[k] = [p \in 1 .. Cardinality(S) |-> End(g, g.edges[Place(S, p)].from, hop)]
            BY DEF InOrder, Place
        <3> HIDE DEF S, far
        <3> QED
            BY <3>1, <3>2
    <2>5. Typed(nl, vl, hop, l, far[k])
        <3> HIDE DEF S, read, far
        <3> QED
            BY <2>1, <2>3, <2>4, TableListTyped
    <2>6. s[k] = Readable(far[k])
        OBVIOUS
    <2> HIDE DEF far, s
    <2> QED
        BY <2>5, <2>6, ReadableTyped
<1>2. In(g, items, e, hop) = FlattenSeq(s)
    BY DEF In, FlatMap
<1>3. s = [k \in DOMAIN items |-> s[k]]
    OBVIOUS
<1> HIDE DEF s
<1> QED
    BY <1>1, <1>2, <1>3, FlatTyped

(* OutE yields edges of its label.                                          *)
LEMMA OutETyped ==
    ASSUME NEW g, NEW nl, NEW vl, Described(g, nl, vl), NEW e,
           NEW items, IsList(items)
    PROVE  Typed(nl, vl, "edge", e, OutE(g, items, e))
<1> DEFINE s == [k \in DOMAIN items |->
                    InOrder(Outgoing(g, items[k].id, e), LAMBDA d : EdgeItem(g, d))]
<1>1. ASSUME NEW k \in DOMAIN items
      PROVE  Typed(nl, vl, "edge", e, s[k])
    <2> DEFINE S == Outgoing(g, items[k].id, e)
               read == [d \in S |-> EdgeItem(g, d)]
    <2>1. S \in SUBSET DOMAIN g.edges /\ DOMAIN g.edges \in Ids_(g)
        BY DEF Ids_, Outgoing
    <2>2. \A d \in S : MayFit(nl, vl, "edge", e, read[d])
        BY EdgeFits DEF MayFit, Outgoing
    <2>3. s[k] = [p \in 1 .. Cardinality(S) |-> read[Place(S, p)]]
        <3>1. \A p \in 1 .. Cardinality(S) : Place(S, p) \in S
            <4> HIDE DEF S
            <4> QED
                BY <2>1, TablePlace
        <3>2. s[k] = [p \in 1 .. Cardinality(S) |-> EdgeItem(g, Place(S, p))]
            BY DEF InOrder, Place
        <3> HIDE DEF S, s
        <3> QED
            BY <3>1, <3>2
    <2> HIDE DEF S, read, s
    <2> QED
        BY <2>1, <2>2, <2>3, TableListTyped
<1>2. OutE(g, items, e) = FlattenSeq(s)
    BY DEF OutE, FlatMap
<1>3. s = [k \in DOMAIN items |-> s[k]]
    OBVIOUS
<1> HIDE DEF s
<1> QED
    BY <1>1, <1>2, <1>3, FlatTyped

(* InE yields edges of its label.                                           *)
LEMMA InETyped ==
    ASSUME NEW g, NEW nl, NEW vl, Described(g, nl, vl), NEW e,
           NEW items, IsList(items)
    PROVE  Typed(nl, vl, "edge", e, InE(g, items, e))
<1> DEFINE s == [k \in DOMAIN items |->
                    InOrder(Incoming(g, items[k].id, e), LAMBDA d : EdgeItem(g, d))]
<1>1. ASSUME NEW k \in DOMAIN items
      PROVE  Typed(nl, vl, "edge", e, s[k])
    <2> DEFINE S == Incoming(g, items[k].id, e)
               read == [d \in S |-> EdgeItem(g, d)]
    <2>1. S \in SUBSET DOMAIN g.edges /\ DOMAIN g.edges \in Ids_(g)
        BY DEF Ids_, Incoming
    <2>2. \A d \in S : MayFit(nl, vl, "edge", e, read[d])
        BY EdgeFits DEF MayFit, Incoming
    <2>3. s[k] = [p \in 1 .. Cardinality(S) |-> read[Place(S, p)]]
        <3>1. \A p \in 1 .. Cardinality(S) : Place(S, p) \in S
            <4> HIDE DEF S
            <4> QED
                BY <2>1, TablePlace
        <3>2. s[k] = [p \in 1 .. Cardinality(S) |-> EdgeItem(g, Place(S, p))]
            BY DEF InOrder, Place
        <3> HIDE DEF S, s
        <3> QED
            BY <3>1, <3>2
    <2> HIDE DEF S, read, s
    <2> QED
        BY <2>1, <2>2, <2>3, TableListTyped
<1>2. InE(g, items, e) = FlattenSeq(s)
    BY DEF InE, FlatMap
<1>3. s = [k \in DOMAIN items |-> s[k]]
    OBVIOUS
<1> HIDE DEF s
<1> QED
    BY <1>1, <1>2, <1>3, FlatTyped

(* From an edge to its ends.                                                 *)
LEMMA EndsTyped ==
    ASSUME NEW g, NEW nl, NEW vl, Described(g, nl, vl), NEW e, NEW items,
           Typed(nl, vl, "edge", e, items),
           NEW lf, lf = Ends[e].from, NEW lt, lt = Ends[e].to
    PROVE  /\ Typed(nl, vl, EdgeTypeOf(lf), lf, From(g, items, EdgeTypeOf(lf)))
           /\ Typed(nl, vl, EdgeTypeOf(lt), lt, To(g, items, EdgeTypeOf(lt)))
<1> DEFINE hf == EdgeTypeOf(lf)
           ht == EdgeTypeOf(lt)
           es == Edges(items)
           from == [k \in DOMAIN es |-> End(g, es[k].from, hf)]
           to == [k \in DOMAIN es |-> End(g, es[k].to, ht)]
<1>1. IsList(es) /\ Entries(es) \subseteq {it \in Entries(items) : it.kind = "edge"}
    BY PassingIn DEF Typed
<1>2. \A k \in DOMAIN es : Fits(nl, vl, "edge", e, es[k])
    BY <1>1 DEF Typed, MayFit, Entries
<1>3. \A k \in DOMAIN es : Goes(nl, vl, es[k].from, lf) /\ Goes(nl, vl, es[k].to, lt)
    BY <1>2 DEF Fits
<1>4. \A k \in DOMAIN es : MayFit(nl, vl, hf, lf, from[k]) /\ MayFit(nl, vl, ht, lt, to[k])
    BY <1>3, EndFits
<1>5. IsList(from) /\ IsList(to) /\ DOMAIN from = DOMAIN es /\ DOMAIN to = DOMAIN es
    <2>1. Len(es) \in Nat /\ DOMAIN es = 1 .. Len(es)
        BY <1>1, ListFacts
    <2> QED
        BY <2>1, ListMade
<1>6. Typed(nl, vl, hf, lf, from) /\ Typed(nl, vl, ht, lt, to)
    BY <1>4, <1>5 DEF Typed, Entries
<1>7. Typed(nl, vl, ht, lt, Readable(to))
    <2> HIDE DEF to, ht
    <2> QED
        BY <1>6, ReadableTyped
<1>8. From(g, items, hf) = from
    BY DEF From
<1>9. To(g, items, ht) \in {to, Readable(to)}
    BY DEF To
<1> HIDE DEF from, to, hf, ht, es
<1>10. Typed(nl, vl, hf, lf, From(g, items, hf))
    BY <1>6, <1>8
<1>11. Typed(nl, vl, ht, lt, To(g, items, ht))
    BY <1>6, <1>7, <1>9
<1> QED
    BY <1>10, <1>11 DEF hf, ht

(* Filters and windows keep the type.                                        *)
LEMMA WhereTyped ==
    ASSUME NEW nl, NEW vl, NEW kind, NEW label, NEW items,
           Typed(nl, vl, kind, label, items), NEW g, NEW t
    PROVE  Typed(nl, vl, kind, label, Where(g, items, t))
<1>1. /\ IsList(Where(g, items, t))
      /\ Entries(Where(g, items, t)) \subseteq Entries(items)
    BY PassingIn DEF Typed
<1> QED
    BY <1>1, TypedPart

(* A range of what is typed is typed as it is.                              *)
LEMMA WindowTyped ==
    ASSUME NEW nl, NEW vl, NEW kind, NEW label, NEW items,
           Typed(nl, vl, kind, label, items), NEW lo \in Nat, NEW hi \in Nat
    PROVE  Typed(nl, vl, kind, label, Range_(items, lo, hi))
<1> DEFINE n == IF hi < Len(items) THEN hi ELSE Len(items)
<1>1. IsList(items) /\ Len(items) \in Nat /\ DOMAIN items = 1 .. Len(items)
    BY ListFacts DEF Typed
<1>2. n \in Nat /\ n <= Len(items)
    BY <1>1
<1>3. Range_(items, lo, hi) = SubSeq(items, lo + 1, n)
    BY DEF Range_
<1> HIDE DEF n
<1>4. SubSeq(items, lo + 1, n) \in Seq(Entries(items))
    <2>1. \A i \in lo + 1 .. n : items[i] \in Entries(items)
        BY <1>1, <1>2 DEF Entries
    <2>2. items \in Seq(Entries(items))
        BY <1>1 DEF IsList
    <2> QED
        BY <2>1, <2>2, <1>1, <1>2, SubSeqProperties
<1> DEFINE part == SubSeq(items, lo + 1, n)
<1>5. IsList(part) /\ Entries(part) \subseteq Entries(items)
    BY <1>4, ListIn
<1> HIDE DEF part
<1>6. Typed(nl, vl, kind, label, part)
    BY <1>5, TypedPart
<1> QED
    BY <1>3, <1>6 DEF part

-----------------------------------------------------------------------------
(* Steps one after another.                                                  *)

Stepped(g, items, steps, n, f) ==
    f = [i \in 0 .. n |-> IF i = 0 THEN items ELSE Apply(g, f[i - 1], steps[i])]

(* What the first steps of a traversal yield forms a function.              *)
LEMMA SteppedExists ==
    ASSUME NEW g, NEW items, NEW steps, NEW n \in Nat
    PROVE  \E f : Stepped(g, items, steps, n, f)
<1> DEFINE Bad == {m \in Nat : ~ \E f : Stepped(g, items, steps, m, f)}
<1>1. ASSUME Bad # {} PROVE FALSE
    <2>1. PICK m \in Bad : \A k \in Bad : m <= k
        <3>1. Bad \in SUBSET Nat
            OBVIOUS
        <3> HIDE DEF Bad
        <3> QED
            BY <1>1, <3>1, LeastNumber
    <2>2. m \in Nat /\ ~ \E f : Stepped(g, items, steps, m, f)
        BY <2>1
    <2>3. m # 0
        <3> DEFINE z == [i \in 0 .. 0 |-> items]
        <3>1. Stepped(g, items, steps, 0, z)
            BY DEF Stepped
        <3> QED
            BY <2>2, <3>1
    <2>4. m - 1 \in Nat /\ ~ (m <= m - 1)
        BY <2>2, <2>3
    <2>5. m - 1 \notin Bad
        <3> HIDE DEF Bad
        <3> QED
            BY <2>1, <2>4
    <2>6. PICK f : Stepped(g, items, steps, m - 1, f)
        BY <2>4, <2>5
    <2> DEFINE h == [i \in 0 .. m |-> IF i = 0 THEN items ELSE Apply(g, f[i - 1], steps[i])]
    <2>7. ASSUME NEW i \in 0 .. m - 1 PROVE h[i] = f[i]
        <3>1. f[i] = IF i = 0 THEN items ELSE Apply(g, f[i - 1], steps[i])
            BY <2>6 DEF Stepped
        <3> QED
            BY <2>2, <3>1
    <2>8. ASSUME NEW i \in 0 .. m, i # 0 PROVE h[i - 1] = f[i - 1]
        <3>1. i - 1 \in 0 .. m - 1
            BY <2>2, <2>8
        <3> HIDE DEF h
        <3> QED
            BY <3>1, <2>7
    <2>9. Stepped(g, items, steps, m, h)
        <3>1. h = [i \in 0 .. m |-> IF i = 0 THEN items ELSE Apply(g, h[i - 1], steps[i])]
            BY <2>8
        <3> HIDE DEF h
        <3> QED
            BY <3>1 DEF Stepped
    <2> QED
        BY <2>2, <2>9
<1> QED
    BY <1>1

(* The fold that runs the steps ends where that function does.              *)
LEMMA AfterStepped ==
    ASSUME NEW g, NEW items, NEW steps, Len(steps) \in Nat
    PROVE  \E f : Stepped(g, items, steps, Len(steps), f) /\ After(g, items, steps) = f[Len(steps)]
<1> DEFINE f == CHOOSE f : Stepped(g, items, steps, Len(steps), f)
<1>1. Stepped(g, items, steps, Len(steps), f)
    BY SteppedExists
<1>2. After(g, items, steps) = f[Len(steps)]
    BY DEF After, Stepped
<1> QED
    BY <1>1, <1>2

(* No step changes nothing.                                                 *)
LEMMA AfterNothing ==
    ASSUME NEW g, NEW items
    PROVE  After(g, items, <<>>) = items
<1>1. Len(<<>>) = 0
    OBVIOUS
<1>2. PICK f : Stepped(g, items, <<>>, 0, f) /\ After(g, items, <<>>) = f[0]
    BY <1>1, AfterStepped
<1> QED
    BY <1>2 DEF Stepped

(* One more step is applied to what the others yield.                       *)
LEMMA AfterOneMore ==
    ASSUME NEW g, NEW items, NEW steps, IsList(steps), NEW st
    PROVE  After(g, items, Append(steps, st)) = Apply(g, After(g, items, steps), st)
<1> DEFINE n == Len(steps)
           more == Append(steps, st)
<1>1. n \in Nat /\ Len(more) = n + 1 /\ more[n + 1] = st /\ \A i \in 1 .. n : more[i] = steps[i]
    <2>1. steps \in Seq(Entries(steps) \cup {st}) /\ st \in Entries(steps) \cup {st}
        <3>1. Entries(steps) \subseteq Entries(steps) \cup {st}
            OBVIOUS
        <3>2. Seq(Entries(steps)) \subseteq Seq(Entries(steps) \cup {st})
            BY <3>1
        <3> QED
            BY <3>2 DEF IsList
    <2> QED
        BY <2>1, AppendProperties
<1> HIDE DEF n, more
<1>2. PICK f : Stepped(g, items, steps, n, f) /\ After(g, items, steps) = f[n]
    BY <1>1, AfterStepped DEF n
<1>3. PICK h : Stepped(g, items, more, n + 1, h) /\ After(g, items, more) = h[n + 1]
    BY <1>1, AfterStepped
<1> DEFINE Bad == {i \in 0 .. n : h[i] # f[i]}
<1>4. ASSUME Bad # {} PROVE FALSE
    <2>1. PICK i \in Bad : \A j \in Bad : i <= j
        <3>1. Bad \in SUBSET Nat
            BY <1>1
        <3> HIDE DEF Bad
        <3> QED
            BY <1>4, <3>1, LeastNumber
    <2>2. i \in 0 .. n /\ h[i] # f[i]
        BY <2>1
    <2>3. f[i] = IF i = 0 THEN items ELSE Apply(g, f[i - 1], steps[i])
        BY <1>2, <2>2 DEF Stepped
    <2>4. h[i] = IF i = 0 THEN items ELSE Apply(g, h[i - 1], more[i])
        <3>1. i \in 0 .. n + 1
            BY <1>1, <2>2
        <3> QED
            BY <1>3, <3>1 DEF Stepped
    <2>5. i # 0
        BY <2>2, <2>3, <2>4
    <2>6. i - 1 \in 0 .. n /\ ~ (i <= i - 1) /\ i \in 1 .. n
        BY <1>1, <2>2, <2>5
    <2>7. i - 1 \notin Bad
        <3> HIDE DEF Bad
        <3> QED
            BY <2>1, <2>6
    <2>8. h[i - 1] = f[i - 1] /\ more[i] = steps[i]
        BY <1>1, <2>6, <2>7
    <2> QED
        BY <2>2, <2>3, <2>4, <2>8
<1>5. h[n] = f[n]
    BY <1>1, <1>4
<1>6. h[n + 1] = Apply(g, h[n], st)
    <2>1. n + 1 \in 0 .. n + 1 /\ n + 1 # 0 /\ (n + 1) - 1 = n
        BY <1>1
    <2>2. h[n + 1] = Apply(g, h[(n + 1) - 1], more[n + 1])
        BY <1>3, <2>1 DEF Stepped
    <2> QED
        BY <1>1, <2>1, <2>2
<1> QED
    BY <1>2, <1>3, <1>5, <1>6 DEF more

(* What a traversal's steps do to the type of the items, on every graph.     *)
Flows(steps, kind, label, kind1, label1) ==
    \A g, nl, vl, items :
        Described(g, nl, vl) /\ Typed(nl, vl, kind, label, items) =>
            Typed(nl, vl, kind1, label1, After(g, items, steps))

StepFlows(st, kind, label, kind1, label1) ==
    \A g, nl, vl, items :
        Described(g, nl, vl) /\ Typed(nl, vl, kind, label, items) =>
            Typed(nl, vl, kind1, label1, Apply(g, items, st))

(* No step leaves the type as it was.                                       *)
LEMMA NoStepFlows ==
    ASSUME NEW kind, NEW label
    PROVE  IsList(<<>>) /\ Flows(<<>>, kind, label, kind, label)
    BY AfterNothing, ListsOfFew DEF Flows

(* One more step takes the type one further.                                *)
LEMMA OneMoreFlows ==
    ASSUME NEW steps, IsList(steps), NEW st, NEW k0, NEW l0, NEW k1, NEW l1, NEW k2, NEW l2,
           Flows(steps, k0, l0, k1, l1), StepFlows(st, k1, l1, k2, l2)
    PROVE  Flows(Append(steps, st), k0, l0, k2, l2)
<1> SUFFICES ASSUME NEW g, NEW nl, NEW vl, NEW items,
                    Described(g, nl, vl), Typed(nl, vl, k0, l0, items)
             PROVE  Typed(nl, vl, k2, l2, After(g, items, Append(steps, st)))
    BY DEF Flows
<1>1. Typed(nl, vl, k1, l1, After(g, items, steps))
    BY DEF Flows
<1>2. Typed(nl, vl, k2, l2, Apply(g, After(g, items, steps), st))
    BY <1>1 DEF StepFlows
<1> QED
    BY <1>2, AfterOneMore

(* The types the steps along edges lead to.                                 *)
LEMMA HopFlows ==
    ASSUME NEW e, NEW kind, NEW label
    PROVE  /\ StepFlows(Step("OutE", e, None), kind, label, "edge", e)
           /\ StepFlows(Step("InE", e, None), kind, label, "edge", e)
           /\ LET l == Ends[e].to IN
              StepFlows(Step("Out", e, EdgeTypeOf(l)), kind, label, EdgeTypeOf(l), l)
           /\ LET l == Ends[e].from IN
              StepFlows(Step("In", e, EdgeTypeOf(l)), kind, label, EdgeTypeOf(l), l)
<1>1. ASSUME NEW g, NEW items, NEW hop
      PROVE  /\ Apply(g, items, Step("OutE", e, None)) = OutE(g, items, e)
             /\ Apply(g, items, Step("InE", e, None)) = InE(g, items, e)
             /\ Apply(g, items, Step("Out", e, hop)) = Out(g, items, e, hop)
             /\ Apply(g, items, Step("In", e, hop)) = In(g, items, e, hop)
    BY DEF Apply, Step
<1>2. ASSUME NEW g, NEW nl, NEW vl, NEW items, Described(g, nl, vl),
             Typed(nl, vl, kind, label, items), NEW lo, lo = Ends[e].to,
             NEW li, li = Ends[e].from
      PROVE  /\ Typed(nl, vl, "edge", e, OutE(g, items, e))
             /\ Typed(nl, vl, "edge", e, InE(g, items, e))
             /\ Typed(nl, vl, EdgeTypeOf(lo), lo, Out(g, items, e, EdgeTypeOf(lo)))
             /\ Typed(nl, vl, EdgeTypeOf(li), li, In(g, items, e, EdgeTypeOf(li)))
    <2>1. IsList(items)
        BY <1>2 DEF Typed
    <2>2. Typed(nl, vl, "edge", e, OutE(g, items, e))
        BY <1>2, <2>1, OutETyped
    <2>3. Typed(nl, vl, "edge", e, InE(g, items, e))
        BY <1>2, <2>1, InETyped
    <2>4. Typed(nl, vl, EdgeTypeOf(lo), lo, Out(g, items, e, EdgeTypeOf(lo)))
        BY <1>2, <2>1, OutTyped
    <2>5. Typed(nl, vl, EdgeTypeOf(li), li, In(g, items, e, EdgeTypeOf(li)))
        BY <1>2, <2>1, InTyped
    <2> QED
        BY <2>2, <2>3, <2>4, <2>5
<1> QED
    BY <1>1, <1>2 DEF StepFlows

(* The types the steps to the ends of an edge lead to.                      *)
LEMMA EndFlows ==
    ASSUME NEW e
    PROVE  /\ LET l == Ends[e].from IN
              StepFlows(Step("From", None, EdgeTypeOf(l)), "edge", e, EdgeTypeOf(l), l)
           /\ LET l == Ends[e].to IN
              StepFlows(Step("To", None, EdgeTypeOf(l)), "edge", e, EdgeTypeOf(l), l)
<1>1. ASSUME NEW g, NEW items, NEW hop
      PROVE  /\ Apply(g, items, Step("From", None, hop)) = From(g, items, hop)
             /\ Apply(g, items, Step("To", None, hop)) = To(g, items, hop)
    BY DEF Apply, Step
<1> QED
    BY <1>1, EndsTyped DEF StepFlows

(* Filters and ranges keep the type.                                        *)
LEMMA PartFlows ==
    ASSUME NEW kind, NEW label
    PROVE  /\ \A t : StepFlows(Filter(t), kind, label, kind, label)
           /\ \A lo, hi \in Nat : StepFlows(Window(lo, hi), kind, label, kind, label)
<1>1. ASSUME NEW g, NEW items, NEW t
      PROVE  Apply(g, items, Filter(t)) = Where(g, items, t)
    BY DEF Apply, Filter, Step
<1>2. ASSUME NEW g, NEW items, NEW lo, NEW hi
      PROVE  Apply(g, items, Window(lo, hi)) = Range_(items, lo, hi)
    BY DEF Apply, Window, Step
<1>3. \A t : StepFlows(Filter(t), kind, label, kind, label)
    BY <1>1, WhereTyped DEF StepFlows
<1>4. \A lo, hi \in Nat : StepFlows(Window(lo, hi), kind, label, kind, label)
    BY <1>2, WindowTyped DEF StepFlows
<1> QED
    BY <1>3, <1>4

-----------------------------------------------------------------------------
(* Writes keep a graph described.                                            *)

Graph(nodes, edges, vectors, next) ==
    [nodes |-> nodes, edges |-> edges, vectors |-> vectors, next |-> next]

(* The parts of a graph made of parts.                                      *)
LEMMA GraphParts ==
    ASSUME NEW ns, NEW es, NEW vs, NEW n
    PROVE  LET g == Graph(ns, es, vs, n) IN
           /\ g.nodes = ns /\ g.edges = es /\ g.vectors = vs /\ g.next = n
           /\ g = [nodes |-> g.nodes, edges |-> g.edges, vectors |-> g.vectors, next |-> g.next]
    BY DEF Graph

NodesDescribed(ns, nl) ==
    /\ IsFiniteSet(DOMAIN ns) /\ DOMAIN ns \in SUBSET Nat
    /\ \A i \in DOMAIN ns : ns[i].label \in NodeTypes /\ nl[i] = ns[i].label

VectorsDescribed(vs, vl) ==
    /\ IsFiniteSet(DOMAIN vs) /\ DOMAIN vs \in SUBSET Nat
    /\ \A i \in DOMAIN vs : vs[i].label \in VectorTypes /\ vl[i] = vs[i].label

EdgesDescribed(es, nl, vl) ==
    /\ IsFiniteSet(DOMAIN es) /\ DOMAIN es \in SUBSET Nat
    /\ \A e \in DOMAIN es :
          /\ es[e].label \in EdgeTypes
          /\ Goes(nl, vl, es[e].from, Ends[es[e].label].from)
          /\ Goes(nl, vl, es[e].to, Ends[es[e].label].to)

LabelsDescribed(nl, vl, next) ==
    /\ next \in Nat
    /\ nl \in [Nat -> NodeTypes \cup {None}] /\ vl \in [Nat -> VectorTypes \cup {None}]
    /\ \A i \in Nat : next <= i => nl[i] = None /\ vl[i] = None
    /\ \A i \in Nat : nl[i] = None \/ vl[i] = None

(* A graph is described if its tables are.                                  *)
LEMMA DescribedParts ==
    ASSUME NEW ns, NEW es, NEW vs, NEW n, NEW nl, NEW vl
    PROVE  Described(Graph(ns, es, vs, n), nl, vl) <=>
              /\ NodesDescribed(ns, nl) /\ EdgesDescribed(es, nl, vl)
              /\ VectorsDescribed(vs, vl) /\ LabelsDescribed(nl, vl, n)
<1> DEFINE g == Graph(ns, es, vs, n)
<1>1. /\ g.nodes = ns /\ g.edges = es /\ g.vectors = vs /\ g.next = n
      /\ g = [nodes |-> g.nodes, edges |-> g.edges, vectors |-> g.vectors, next |-> g.next]
    BY GraphParts
<1> HIDE DEF g
<1>2. Described(g, nl, vl) <=>
              /\ NodesDescribed(ns, nl) /\ EdgesDescribed(es, nl, vl)
              /\ VectorsDescribed(vs, vl) /\ LabelsDescribed(nl, vl, n)
    BY <1>1 DEF Described, Ids_, NodesDescribed, EdgesDescribed, VectorsDescribed,
                LabelsDescribed
<1> QED
    BY <1>2 DEF g

(* A described graph is made of its parts.                                  *)
LEMMA GraphOf ==
    ASSUME NEW g, NEW nl, NEW vl, Described(g, nl, vl)
    PROVE  g = Graph(g.nodes, g.edges, g.vectors, g.next)
    BY DEF Described, Graph

(* Deletions.                                                                *)
LEMMA WithoutDescribed ==
    ASSUME NEW g, NEW nl, NEW vl, Described(g, nl, vl), NEW i, NEW S
    PROVE  /\ Described(WithoutEdges(g, S), nl, vl)
           /\ Described(WithoutNode(g, i), nl, vl)
           /\ Described(WithoutVector(g, i), nl, vl)
<1> DEFINE ns == g.nodes
           es == g.edges
           vs == g.vectors
           n == g.next
           fewer(T) == [e \in DOMAIN es \ T |-> es[e]]
           T == Touching(g, i)
           nodes == [j \in DOMAIN ns \ {i} |-> ns[j]]
           vectors == [j \in DOMAIN vs \ {i} |-> vs[j]]
<1>1. g = Graph(ns, es, vs, n)
    BY GraphOf
<1>2. /\ NodesDescribed(ns, nl) /\ EdgesDescribed(es, nl, vl)
      /\ VectorsDescribed(vs, vl) /\ LabelsDescribed(nl, vl, n)
    <2> HIDE DEF ns, es, vs, n
    <2> QED
        BY <1>1, DescribedParts
<1>3. \A R : EdgesDescribed(fewer(R), nl, vl)
    BY <1>2, FS_Subset DEF EdgesDescribed
<1>4. NodesDescribed(nodes, nl) /\ VectorsDescribed(vectors, vl)
    BY <1>2, FS_Subset DEF NodesDescribed, VectorsDescribed
<1>5. WithoutEdges(g, S) = Graph(ns, fewer(S), vs, n)
    <2> HIDE DEF ns, es, vs, n
    <2>1. WithoutEdges(Graph(ns, es, vs, n), S) = Graph(ns, fewer(S), vs, n)
        BY DEF WithoutEdges, Graph
    <2> QED
        BY <1>1, <2>1
<1>6. WithoutEdges(g, T) = Graph(ns, fewer(T), vs, n)
    <2> HIDE DEF ns, es, vs, n, T
    <2>1. WithoutEdges(Graph(ns, es, vs, n), T) = Graph(ns, fewer(T), vs, n)
        BY DEF WithoutEdges, Graph
    <2> QED
        BY <1>1, <2>1
<1>7. WithoutNode(g, i) = Graph(nodes, fewer(T), vs, n)
    <2>1. WithoutNode(g, i) = [WithoutEdges(g, T) EXCEPT !.nodes = nodes]
        BY DEF WithoutNode
    <2> HIDE DEF ns, es, vs, n, T, fewer, nodes
    <2>2. WithoutNode(g, i) = [Graph(ns, fewer(T), vs, n) EXCEPT !.nodes = nodes]
        BY <1>6, <2>1
    <2> QED
        BY <2>2 DEF Graph
<1>8. WithoutVector(g, i) = Graph(ns, fewer(T), vectors, n)
    <2>1. WithoutVector(g, i) = [WithoutEdges(g, T) EXCEPT !.vectors = vectors]
        BY DEF WithoutVector
    <2> HIDE DEF ns, es, vs, n, T, fewer, vectors
    <2>2. WithoutVector(g, i) = [Graph(ns, fewer(T), vs, n) EXCEPT !.vectors = vectors]
        BY <1>6, <2>1
    <2> QED
        BY <2>2 DEF Graph
<1> HIDE DEF ns, es, vs, n, T, fewer, nodes, vectors
<1>9. Described(WithoutEdges(g, S), nl, vl)
    BY <1>2, <1>3, <1>5, DescribedParts
<1>10. Described(WithoutNode(g, i), nl, vl)
    BY <1>2, <1>3, <1>4, <1>7, DescribedParts
<1>11. Described(WithoutVector(g, i), nl, vl)
    BY <1>2, <1>3, <1>4, <1>8, DescribedParts
<1> QED
    BY <1>9, <1>10, <1>11

(* Nodes that are put get the label their ids have.                          *)
LEMMA PutDescribed ==
    ASSUME NEW g, NEW nl, NEW vl, Described(g, nl, vl),
           NEW S \in SUBSET Nat, IsFiniteSet(S), NEW label \in NodeTypes,
           \A i \in S : nl[i] = label, NEW put, DOMAIN put = DOMAIN g.nodes \cup S,
           \A i \in DOMAIN put : IF i \in S THEN put[i].label = label
                                 ELSE put[i] = g.nodes[i]
    PROVE  Described([g EXCEPT !.nodes = put], nl, vl)
<1> DEFINE ns == g.nodes
           es == g.edges
           vs == g.vectors
           n == g.next
<1>1. g = Graph(ns, es, vs, n)
    BY GraphOf
<1>2. /\ NodesDescribed(ns, nl) /\ EdgesDescribed(es, nl, vl)
      /\ VectorsDescribed(vs, vl) /\ LabelsDescribed(nl, vl, n)
    <2> HIDE DEF ns, es, vs, n
    <2> QED
        BY <1>1, DescribedParts
<1>3. NodesDescribed(put, nl)
    <2>1. IsFiniteSet(DOMAIN put) /\ DOMAIN put \in SUBSET Nat
        <3>1. IsFiniteSet(DOMAIN g.nodes) /\ DOMAIN g.nodes \in SUBSET Nat
            BY <1>2 DEF NodesDescribed
        <3>2. IsFiniteSet(DOMAIN g.nodes \cup S)
            BY <3>1, FS_Union
        <3> QED
            BY <3>1, <3>2
    <2>2. \A i \in DOMAIN put : put[i].label \in NodeTypes /\ nl[i] = put[i].label
        BY <1>2 DEF NodesDescribed
    <2> QED
        BY <2>1, <2>2 DEF NodesDescribed
<1>4. [g EXCEPT !.nodes = put] = Graph(put, es, vs, n)
    <2> HIDE DEF ns, es, vs, n
    <2>1. [Graph(ns, es, vs, n) EXCEPT !.nodes = put] = Graph(put, es, vs, n)
        BY DEF Graph
    <2> QED
        BY <1>1, <2>1
<1> HIDE DEF ns, es, vs, n
<1> QED
    BY <1>2, <1>3, <1>4, DescribedParts

(* UPDATE changes no label.                                                 *)
LEMMA UpdateTyped ==
    ASSUME NEW g, NEW nl, NEW vl, Described(g, nl, vl), NEW label \in NodeTypes,
           NEW items, Typed(nl, vl, "node", label, items), NEW v,
           NEW u, u = Update(g, items, v)
    PROVE  Described(u.graph, nl, vl) /\ Typed(nl, vl, "node", label, u.items)
<1> DEFINE nodes == {k \in DOMAIN items : items[k].kind = "node"}
           S == {items[k].id : k \in nodes}
           LabelOf(i) == items[CHOOSE k \in nodes : items[k].id = i].label
           put == [i \in DOMAIN g.nodes \cup S |->
                      IF i \in S THEN [label |-> LabelOf(i), f |-> v] ELSE g.nodes[i]]
           its == [k \in DOMAIN items |-> IF k \in nodes THEN [items[k] EXCEPT !.f = v]
                                          ELSE ErrItem]
<1>1. u = [graph |-> [g EXCEPT !.nodes = put], items |-> its]
    BY DEF Update, PutNodes
<1>2. IsList(items) /\ Len(items) \in Nat /\ DOMAIN items = 1 .. Len(items) /\ IsFiniteSet(DOMAIN items)
    BY ListFacts DEF Typed
<1>3. \A k \in nodes : Fits(nl, vl, "node", label, items[k])
    BY DEF Typed, MayFit, Entries
<1>4. \A k \in nodes : items[k].id \in Nat /\ nl[items[k].id] = label /\ items[k].label = label
    BY <1>3 DEF Fits
<1>5. S \in SUBSET Nat /\ IsFiniteSet(S) /\ \A i \in S : nl[i] = label
    <2>1. IsFiniteSet(nodes)
        BY <1>2, FS_Subset
    <2> HIDE DEF nodes
    <2>2. IsFiniteSet(S)
        <3> DEFINE id == [k \in nodes |-> items[k].id]
        <3>1. S = {id[k] : k \in nodes}
            OBVIOUS
        <3> HIDE DEF S
        <3>2. id \in Surjection(nodes, {id[k] : k \in nodes})
            BY DEF id, Surjection
        <3>3. IsFiniteSet({id[k] : k \in nodes})
            BY <2>1, <3>2, FS_Surjection
        <3> QED
            BY <3>1, <3>3
    <2> QED
        BY <1>4, <2>2
<1>6. \A i \in S : LabelOf(i) = label
    BY <1>4
<1>7. \A i \in DOMAIN put : IF i \in S THEN put[i].label = label ELSE put[i] = g.nodes[i]
    <2> HIDE DEF LabelOf, S
    <2> QED
        BY <1>6
<1>8. DOMAIN put = DOMAIN g.nodes \cup S
    OBVIOUS
<1>9. Described([g EXCEPT !.nodes = put], nl, vl)
    <2> HIDE DEF put, S
    <2> QED
        BY <1>5, <1>7, <1>8, PutDescribed
<1>10. IsList(its) /\ DOMAIN its = DOMAIN items
    BY <1>2, ListMade
<1>11. \A k \in DOMAIN items : MayFit(nl, vl, "node", label, its[k])
    <2> SUFFICES ASSUME NEW k \in DOMAIN items PROVE MayFit(nl, vl, "node", label, its[k])
        OBVIOUS
    <2>1. CASE k \in nodes
        <3>1. its[k] = [items[k] EXCEPT !.f = v]
            BY <2>1
        <3> DEFINE it == items[k]
        <3>2. it = Item("node", it.id, label, it.f, it.from, it.to)
            BY <1>3, <2>1 DEF Fits
        <3>3. it.id \in Nat /\ nl[it.id] = label
            BY <1>4, <2>1
        <3>4. its[k] = Item("node", it.id, label, v, it.from, it.to)
            <4> HIDE DEF it
            <4>1. [Item("node", it.id, label, it.f, it.from, it.to) EXCEPT !.f = v]
                    = Item("node", it.id, label, v, it.from, it.to)
                BY DEF Item
            <4>2. its[k] = [it EXCEPT !.f = v]
                BY <3>1 DEF it
            <4> QED
                BY <3>2, <4>1, <4>2
        <3> HIDE DEF it, its
        <3> QED
            BY <3>3, <3>4 DEF MayFit, Fits, Item
    <2>2. CASE k \notin nodes
        BY <2>2, ErrKind DEF MayFit
    <2> QED
        BY <2>1, <2>2
<1>12. Typed(nl, vl, "node", label, its)
    <2> HIDE DEF its
    <2> QED
        BY <1>10, <1>11 DEF Typed, Entries
<1> HIDE DEF its, put
<1> QED
    BY <1>1, <1>9, <1>12

(* Every label that was known stays.                                         *)
Grown(nl, new) == \A i \in Nat : nl[i] # None => new[i] = nl[i]

(* What was typed still is after nodes were added.                          *)
LEMMA GrownTyped ==
    ASSUME NEW nl, NEW vl, NEW new, Grown(nl, new), NEW kind, NEW label,
           IsSort(kind, label), NEW items, Typed(nl, vl, kind, label, items)
    PROVE  Typed(new, vl, kind, label, items)
<1>1. \A i, l : Goes(nl, vl, i, l) => Goes(new, vl, i, l)
    BY SchemaAssumption DEF Goes, Grown
<1>2. \A it : MayFit(nl, vl, kind, label, it) => MayFit(new, vl, kind, label, it)
    <2> SUFFICES ASSUME NEW it, MayFit(nl, vl, kind, label, it)
                 PROVE  MayFit(new, vl, kind, label, it)
        OBVIOUS
    <2>1. CASE it.kind = "error"
        BY <2>1 DEF MayFit
    <2>2. CASE it.kind # "error"
        <3>1. Fits(nl, vl, kind, label, it)
            BY <2>2 DEF MayFit
        <3>2. kind = "node" => label \in NodeTypes
            BY DEF IsSort
        <3>3. kind = "node" => it.id \in Nat /\ new[it.id] = label
            BY <3>1, <3>2, SchemaAssumption DEF Fits, Grown
        <3> QED
            BY <1>1, <3>1, <3>3 DEF Fits, MayFit
    <2> QED
        BY <2>1, <2>2
<1> QED
    BY <1>2 DEF Typed

(* A node with a label that its id did not have before.                      *)
LEMMA CreateTyped ==
    ASSUME NEW g, NEW nl, NEW vl, Described(g, nl, vl), NEW label \in NodeTypes,
           NEW v, NEW u, u = UpsertN(g, <<>>, label, v)
    PROVE  \E new : /\ Grown(nl, new) /\ Described(u.graph, new, vl)
                    /\ Typed(new, vl, "node", label, u.items)
<1> DEFINE ns == g.nodes
           es == g.edges
           vs == g.vectors
           n == g.next
           new == [nl EXCEPT ![n] = label]
           put == [i \in DOMAIN ns \cup {n} |->
                      IF i \in {n} THEN [label |-> label, f |-> v] ELSE ns[i]]
<1>1. g = Graph(ns, es, vs, n)
    BY GraphOf
<1>2. /\ NodesDescribed(ns, nl) /\ EdgesDescribed(es, nl, vl)
      /\ VectorsDescribed(vs, vl) /\ LabelsDescribed(nl, vl, n)
    <2> HIDE DEF ns, es, vs, n
    <2> QED
        BY <1>1, DescribedParts
<1>3. u.graph = Graph(put, es, vs, n + 1) /\ u.items = <<Item("node", n, label, v, 0, 0)>>
    <2> DEFINE after == [PutNodes(g, {n}, LAMBDA j : [label |-> label, f |-> v])
                            EXCEPT !.next = n + 1]
               made == <<Item("node", n, label, v, 0, 0)>>
    <2>1. u = [graph |-> after, items |-> made]
        BY DEF UpsertN, FreshId
    <2>2. PutNodes(g, {n}, LAMBDA j : [label |-> label, f |-> v]) = [g EXCEPT !.nodes = put]
        BY DEF PutNodes
    <2> HIDE DEF ns, es, vs, n, put
    <2>3. [g EXCEPT !.nodes = put] = Graph(put, es, vs, n)
        <3>1. [Graph(ns, es, vs, n) EXCEPT !.nodes = put] = Graph(put, es, vs, n)
            BY DEF Graph
        <3> QED
            BY <1>1, <3>1
    <2>4. [Graph(put, es, vs, n) EXCEPT !.next = n + 1] = Graph(put, es, vs, n + 1)
        BY DEF Graph
    <2>5. after = [[g EXCEPT !.nodes = put] EXCEPT !.next = n + 1]
        BY <2>2
    <2>6. after = Graph(put, es, vs, n + 1)
        <3> HIDE DEF after
        <3> QED
            BY <2>3, <2>4, <2>5
    <2>7. u.graph = after /\ u.items = made
        <3> HIDE DEF after, made
        <3> QED
            BY <2>1
    <2> QED
        BY <2>6, <2>7
<1>4. /\ n \in Nat /\ nl[n] = None /\ new \in [Nat -> NodeTypes \cup {None}]
      /\ new[n] = label /\ \A i \in Nat : i # n => new[i] = nl[i]
    BY <1>2 DEF LabelsDescribed
<1>5. Grown(nl, new)
    BY <1>4 DEF Grown
<1> HIDE DEF new
<1>6. LabelsDescribed(new, vl, n + 1)
    <2>1. \A i \in Nat : n + 1 <= i => n <= i /\ i # n
        BY <1>4
    <2>2. \A i \in Nat : i = n \/ new[i] = nl[i]
        BY <1>4
    <2>3. vl[n] = None /\ n <= n
        BY <1>2, <1>4 DEF LabelsDescribed
    <2>4. \A i \in Nat : new[i] = None \/ vl[i] = None
        BY <1>2, <2>2, <2>3 DEF LabelsDescribed
    <2>5. \A i \in Nat : n + 1 <= i => new[i] = None /\ vl[i] = None
        BY <1>2, <1>4, <2>1 DEF LabelsDescribed
    <2> QED
        BY <1>2, <1>4, <2>4, <2>5 DEF LabelsDescribed
<1>7. NodesDescribed(put, new)
    <2>1. IsFiniteSet(DOMAIN ns) /\ DOMAIN ns \in SUBSET Nat
        BY <1>2 DEF NodesDescribed
    <2>2. IsFiniteSet(DOMAIN ns \cup {n})
        BY <2>1, FS_AddElement
    <2>3. \A i \in DOMAIN ns : ns[i].label \in NodeTypes /\ nl[i] = ns[i].label
        BY <1>2 DEF NodesDescribed
    <2>4. \A i \in DOMAIN ns : i # n /\ new[i] = ns[i].label
        BY <2>1, <2>3, <1>4, SchemaAssumption
    <2> HIDE DEF ns, n
    <2>5. \A i \in DOMAIN put : put[i].label \in NodeTypes /\ new[i] = put[i].label
        BY <2>3, <2>4, <1>4
    <2>6. DOMAIN put = DOMAIN ns \cup {n}
        OBVIOUS
    <2> HIDE DEF put
    <2> QED
        BY <1>4, <2>1, <2>2, <2>5, <2>6 DEF NodesDescribed
<1>8. EdgesDescribed(es, new, vl)
    <2>1. \A i, l : Goes(nl, vl, i, l) => Goes(new, vl, i, l)
        BY <1>5, SchemaAssumption DEF Goes, Grown
    <2> QED
        BY <1>2, <2>1 DEF EdgesDescribed
<1>9. Typed(new, vl, "node", label, u.items)
    <2> DEFINE it == Item("node", n, label, v, 0, 0)
    <2>1. Fits(new, vl, "node", label, it)
        BY <1>4 DEF Fits, Item
    <2> HIDE DEF it
    <2>2. IsList(<<it>>) /\ Entries(<<it>>) = {it}
        BY ListsOfFew DEF Entries
    <2>3. u.items = <<it>>
        BY <1>3 DEF it
    <2> QED
        BY <2>1, <2>2, <2>3 DEF Typed, MayFit
<1> HIDE DEF ns, es, vs, n, put
<1>10. Described(u.graph, new, vl)
    BY <1>2, <1>3, <1>6, <1>7, <1>8, DescribedParts
<1> QED
    BY <1>5, <1>9, <1>10

(* UpsertN changes no label, and gives a node it adds its own.              *)
LEMMA UpsertTyped ==
    ASSUME NEW g, NEW nl, NEW vl, Described(g, nl, vl), NEW label \in NodeTypes,
           NEW items, Typed(nl, vl, "node", label, items), NEW v,
           NEW u, u = UpsertN(g, items, label, v)
    PROVE  \E new : /\ Grown(nl, new) /\ Described(u.graph, new, vl)
                    /\ Typed(new, vl, "node", label, u.items)
<1>1. CASE items = <<>>
    BY <1>1, CreateTyped
<1>2. CASE items # <<>>
    <2>1. Head(items) \in Entries(items)
        <3>1. Len(items) \in Nat /\ DOMAIN items = 1 .. Len(items) /\ 0 < Len(items)
            BY <1>2, ListFacts DEF Typed
        <3>2. items[1] \in Entries(items)
            BY <3>1 DEF Entries
        <3> QED
            BY <3>2 DEF Head
    <2> DEFINE one == <<Head(items)>>
    <2>2. IsList(one) /\ Entries(one) = {Head(items)}
        BY ListsOfFew DEF Entries
    <2>3. Typed(nl, vl, "node", label, one)
        BY <2>1, <2>2, TypedPart
    <2>4. Grown(nl, nl)
        BY DEF Grown
    <2>5. CASE Head(items).f = v
        <3>1. u = [graph |-> g, items |-> one]
            BY <1>2, <2>5 DEF UpsertN
        <3>2. u.graph = g /\ u.items = one
            BY <3>1
        <3> HIDE DEF one
        <3> QED
            BY <2>3, <2>4, <3>2
    <2>6. CASE Head(items).f # v
        <3>1. u = Update(g, one, v)
            BY <1>2, <2>6 DEF UpsertN
        <3> HIDE DEF one
        <3>2. Described(u.graph, nl, vl) /\ Typed(nl, vl, "node", label, u.items)
            BY <2>3, <3>1, UpdateTyped
        <3> QED
            BY <2>4, <3>2
    <2> QED
        BY <2>5, <2>6
<1> QED
    BY <1>1, <1>2

(* DROP, item by item.                                                       *)
Dropped(g, rs, n, f) ==
    f = [i \in 0 .. n |-> IF i = 0 THEN NothingDropped(g) ELSE DropItem(f[i - 1], rs[i])]

(* The results of dropping the first items form a function.                 *)
LEMMA DroppedExists ==
    ASSUME NEW g, NEW rs, NEW n \in Nat
    PROVE  \E f : Dropped(g, rs, n, f)
<1> DEFINE Bad == {m \in Nat : ~ \E f : Dropped(g, rs, m, f)}
<1>1. ASSUME Bad # {} PROVE FALSE
    <2>1. PICK m \in Bad : \A k \in Bad : m <= k
        <3>1. Bad \in SUBSET Nat
            OBVIOUS
        <3> HIDE DEF Bad
        <3> QED
            BY <1>1, <3>1, LeastNumber
    <2>2. m \in Nat /\ ~ \E f : Dropped(g, rs, m, f)
        BY <2>1
    <2>3. m # 0
        <3> DEFINE z == [i \in 0 .. 0 |-> NothingDropped(g)]
        <3>1. Dropped(g, rs, 0, z)
            BY DEF Dropped
        <3> QED
            BY <2>2, <3>1
    <2>4. m - 1 \in Nat /\ ~ (m <= m - 1)
        BY <2>2, <2>3
    <2>5. m - 1 \notin Bad
        <3> HIDE DEF Bad
        <3> QED
            BY <2>1, <2>4
    <2>6. PICK f : Dropped(g, rs, m - 1, f)
        BY <2>4, <2>5
    <2> DEFINE h == [i \in 0 .. m |-> IF i = 0 THEN NothingDropped(g)
                                      ELSE DropItem(f[i - 1], rs[i])]
    <2>7. ASSUME NEW i \in 0 .. m - 1 PROVE h[i] = f[i]
        <3>1. f[i] = IF i = 0 THEN NothingDropped(g) ELSE DropItem(f[i - 1], rs[i])
            BY <2>6 DEF Dropped
        <3> QED
            BY <2>2, <3>1
    <2>8. ASSUME NEW i \in 0 .. m, i # 0 PROVE h[i - 1] = f[i - 1]
        <3>1. i - 1 \in 0 .. m - 1
            BY <2>2, <2>8
        <3> HIDE DEF h
        <3> QED
            BY <3>1, <2>7
    <2>9. Dropped(g, rs, m, h)
        <3>1. h = [i \in 0 .. m |-> IF i = 0 THEN NothingDropped(g) ELSE DropItem(h[i - 1], rs[i])]
            BY <2>8
        <3> HIDE DEF h
        <3> QED
            BY <3>1 DEF Dropped
    <2> QED
        BY <2>2, <2>9
<1> QED
    BY <1>1

(* One item dropped changes no label.                                       *)
LEMMA DropItemDescribed ==
    ASSUME NEW acc, NEW nl, NEW vl, Described(acc.graph, nl, vl), NEW it,
           it.kind \in {"node", "edge", "vector"}, acc.ok \in BOOLEAN
    PROVE  /\ Described(DropItem(acc, it).graph, nl, vl)
           /\ DropItem(acc, it).ok \in BOOLEAN
<1>1. CASE acc.ok = FALSE
    <2>1. DropItem(acc, it) = acc
        BY <1>1 DEF DropItem
    <2> QED
        BY <2>1
<1>2. CASE acc.ok = TRUE
    <2> DEFINE node == it.id \in DOMAIN acc.graph.nodes
               edge == it.id \in DOMAIN acc.graph.edges
               done == TRUE
               noNode == WithoutNode(acc.graph, it.id)
               noEdge == WithoutEdges(acc.graph, {it.id})
               noVector == WithoutVector(acc.graph, it.id)
    <2>1. \/ DropItem(acc, it) = [ok |-> node, graph |-> noNode]
          \/ DropItem(acc, it) = [ok |-> edge, graph |-> noEdge]
          \/ DropItem(acc, it) = [ok |-> done, graph |-> noVector]
        BY <1>2 DEF DropItem
    <2>2. node \in BOOLEAN /\ edge \in BOOLEAN /\ done \in BOOLEAN
        OBVIOUS
    <2> HIDE DEF node, edge, done, noNode, noEdge, noVector
    <2>3. /\ DropItem(acc, it).graph \in {noNode, noEdge, noVector}
          /\ DropItem(acc, it).ok \in BOOLEAN
        BY <2>1, <2>2
    <2> QED
        BY <2>3, WithoutDescribed DEF noNode, noEdge, noVector
<1> QED
    BY <1>1, <1>2

(* DROP changes no label.                                                   *)
LEMMA DropDescribed ==
    ASSUME NEW g, NEW nl, NEW vl, Described(g, nl, vl), NEW kind, NEW label,
           IsSort(kind, label), NEW items, Typed(nl, vl, kind, label, items)
    PROVE  Described(DropTraversal(g, items).graph, nl, vl)
<1> DEFINE rs == Readable(items)
           n == Len(rs)
           f == CHOOSE f : Dropped(g, rs, n, f)
           Fine(acc) == Described(acc.graph, nl, vl) /\ acc.ok \in BOOLEAN
<1>1. IsList(rs) /\ Entries(rs) \subseteq {it \in Entries(items) : it.kind # "error"}
    BY PassingIn DEF Typed
<1>2. n \in Nat /\ DOMAIN rs = 1 .. n
    BY <1>1, ListFacts
<1>3. \A i \in 1 .. n : rs[i].kind \in {"node", "edge", "vector"}
    <2>1. \A i \in 1 .. n : Fits(nl, vl, kind, label, rs[i])
        BY <1>1, <1>2 DEF Typed, MayFit, Entries
    <2> QED
        BY <2>1 DEF Fits, IsSort
<1>4. DropTraversal(g, items) = f[n]
    BY DEF DropTraversal, Dropped
<1>5. Dropped(g, rs, n, f)
    <2> HIDE DEF rs
    <2> QED
        BY <1>2, DroppedExists
<1> HIDE DEF f, n, rs
<1> DEFINE Bad == {i \in 0 .. n : ~ Fine(f[i])}
<1>6. ASSUME Bad # {} PROVE FALSE
    <2>1. PICK i \in Bad : \A j \in Bad : i <= j
        <3>1. Bad \in SUBSET Nat
            BY <1>2
        <3> HIDE DEF Bad
        <3> QED
            BY <1>6, <3>1, LeastNumber
    <2>2. i \in 0 .. n /\ ~ Fine(f[i])
        BY <2>1
    <2>3. f[i] = IF i = 0 THEN NothingDropped(g) ELSE DropItem(f[i - 1], rs[i])
        BY <1>5, <2>2 DEF Dropped
    <2>4. Fine(NothingDropped(g))
        <3>1. NothingDropped(g).graph = g /\ NothingDropped(g).ok \in BOOLEAN
            BY DEF NothingDropped
        <3> QED
            BY <3>1
    <2>5. i # 0
        BY <2>2, <2>3, <2>4
    <2>6. i - 1 \in 0 .. n /\ ~ (i <= i - 1) /\ i \in 1 .. n
        BY <1>2, <2>2, <2>5
    <2>7. i - 1 \notin Bad
        <3> HIDE DEF Bad
        <3> QED
            BY <2>1, <2>6
    <2>8. Fine(f[i - 1])
        BY <2>6, <2>7
    <2>9. Fine(DropItem(f[i - 1], rs[i]))
        <3>1. rs[i].kind \in {"node", "edge", "vector"}
            BY <1>3, <2>6
        <3>2. Described(f[i - 1].graph, nl, vl) /\ f[i - 1].ok \in BOOLEAN
            BY <2>8
        <3> HIDE DEF Bad
        <3> QED
            BY <3>1, <3>2, DropItemDescribed
    <2> QED
        BY <2>2, <2>3, <2>5, <2>9
<1>7. Fine(f[n])
    BY <1>2, <1>6
<1> QED
    BY <1>4, <1>7

-----------------------------------------------------------------------------
(* Generated traversals.  What one yields is typed by its source and by what *)
(* the steps make of that.                                                   *)

ById == {"NFromID", "EFromID", "VFromID"}
ByVariable == {"FromSingle", "FromIter"}

SourceSort(sc, start, kind, label) ==
    \/ /\ start.op \in {"NFromType", "NFromIndex", "NFromID"}
       /\ kind = "node" /\ label = start.label
    \/ /\ start.op \in {"EFromType", "EFromID"}
       /\ kind = "edge" /\ label = start.label
    \/ /\ start.op \in {"VFromType", "VFromID"}
       /\ kind = "vector" /\ label = start.label
    \/ /\ start.op \in ByVariable /\ start.key \in DOMAIN sc
       /\ IsItems(sc[start.key].ty)
       /\ kind = ItemKind(sc[start.key].ty) /\ label = sc[start.key].ty.label

Yields(sc, c, kind, label) ==
    /\ IsSort(kind, label)
    /\ \E kind0, label0 : /\ SourceSort(sc, c.start, kind0, label0)
                          /\ Flows(c.steps, kind0, label0, kind, label)
                          /\ c.steps = <<>> => kind0 = kind /\ label0 = label

(* What the analyzer has made of a traversal of type ty.                     *)
CountTyped(c, ty) ==
    /\ ty.kind = "Count"
    /\ c.collect = "No" /\ c.steps # <<>> /\ Last(c.steps).op = "Count"

GroupTyped(c, ty) ==
    /\ ty.kind = "Aggregate"
    /\ c.collect = "Try" /\ c.steps # <<>>
    /\ Last(c.steps).op \in {"AggregateBy", "GroupBy"}

ItemsTyped(sc, c, ty) ==
    /\ IsItems(ty) /\ c.collect \in {"ToVec", "ToObj"}
    /\ Yields(sc, c, ItemKind(ty), ty.label)

WriteTyped(sc, c, ty) ==
    /\ ty.kind = "Node" /\ ty.label \in NodeTypes
    /\ c.write.op \in {"Update", "UpsertN"} /\ c.write.label = ty.label
    /\ IF c.write.source = None THEN Yields(sc, c, "node", ty.label)
       ELSE /\ c.start.op \in ByVariable
            /\ c.write.source \in DOMAIN sc /\ IsItems(sc[c.write.source].ty)
            /\ ItemKind(sc[c.write.source].ty) = "node"
            /\ sc[c.write.source].ty.label = ty.label
            /\ c.steps = <<>>

GenTyped(sc, c, ty) ==
    /\ IsList(c.steps)
    /\ \/ c.write = NoWrite /\ CountTyped(c, ty)
       \/ c.write = NoWrite /\ GroupTyped(c, ty)
       \/ c.write = NoWrite /\ ItemsTyped(sc, c, ty)
       \/ WriteTyped(sc, c, ty)

(* The variables a traversal reads.                                          *)
Reads(c) ==
    {x \in {c.start.key} : c.start.op \in ByVariable} \cup
    {x \in {c.write.source} : x # None}

ValueTyped(nl, vl, v, ty) ==
    IsItems(ty) => /\ IsSort(ItemKind(ty), ty.label)
                   /\ Typed(nl, vl, ItemKind(ty), ty.label, v.items)

VarsTyped(nl, vl, sc, vs) ==
    \A x \in DOMAIN vs : x \in DOMAIN sc => ValueTyped(nl, vl, vs[x], sc[x].ty)

LabelsAsked(g, vs, start) ==
    start.op \in ById =>
        \A k \in DOMAIN Fetch(g, vs, start) :
            Fetch(g, vs, start)[k].label \in {None, start.label}

(* What the source of a generated traversal fetches has the type of the     *)
(* source.                                                                  *)
LEMMA FetchTyped ==
    ASSUME NEW g, NEW nl, NEW vl, Described(g, nl, vl), NEW sc, NEW vs,
           VarsTyped(nl, vl, sc, vs), NEW start, NEW kind, NEW label,
           SourceSort(sc, start, kind, label),
           start.op \in ByVariable => start.key \in DOMAIN vs,
           LabelsAsked(g, vs, start)
    PROVE  Typed(nl, vl, kind, label, Fetch(g, vs, start))
<1>1. \A it : DOMAIN <<it>> = {1} /\ <<it>>[1] = it
    BY ListsOfFew
<1>2. CASE start.op \in {"NFromType", "NFromIndex", "EFromType", "VFromType"}
    <2>1. \/ /\ kind = "node" /\ label = start.label
             /\ Fetch(g, vs, start) = NFromType(g, start.label)
          \/ /\ kind = "node" /\ label = start.label
             /\ Fetch(g, vs, start) = NFromIndex(g, start.label, start.key)
          \/ /\ kind = "edge" /\ label = start.label
             /\ Fetch(g, vs, start) = EFromType(g, start.label)
          \/ /\ kind = "vector" /\ label = start.label
             /\ Fetch(g, vs, start) = VFromType(g, start.label)
        BY <1>2 DEF SourceSort, Fetch, ByVariable
    <2> QED
        BY <2>1, TypeSourceTyped
<1>3. CASE start.op = "NFromID"
    <2>1. /\ kind = "node" /\ label = start.label
          /\ Fetch(g, vs, start) = NFromID(g, start.key)
        BY <1>3 DEF SourceSort, Fetch, ByVariable
    <2>2. NodeItem(g, start.key).label \in {None, label}
        BY <1>1, <1>3, <2>1 DEF LabelsAsked, ById, NFromID
    <2> QED
        BY <2>1, <2>2, IdSourceTyped
<1>4. CASE start.op = "EFromID"
    <2>1. /\ kind = "edge" /\ label = start.label
          /\ Fetch(g, vs, start) = EFromID(g, start.key)
        BY <1>4 DEF SourceSort, Fetch, ByVariable
    <2>2. EdgeItem(g, start.key).label \in {None, label}
        BY <1>1, <1>4, <2>1 DEF LabelsAsked, ById, EFromID
    <2> QED
        BY <2>1, <2>2, IdSourceTyped
<1>5. CASE start.op = "VFromID"
    <2>1. /\ kind = "vector" /\ label = start.label
          /\ Fetch(g, vs, start) = VFromID(g, start.key)
        BY <1>5 DEF SourceSort, Fetch, ByVariable
    <2>2. VectorItem(g, start.key).label \in {None, label}
        BY <1>1, <1>5, <2>1 DEF LabelsAsked, ById, VFromID
    <2> QED
        BY <2>1, <2>2, IdSourceTyped
<1>6. CASE start.op \in ByVariable
    <2>1. /\ start.key \in DOMAIN sc /\ IsItems(sc[start.key].ty)
          /\ kind = ItemKind(sc[start.key].ty) /\ label = sc[start.key].ty.label
          /\ Fetch(g, vs, start) = vs[start.key].items
        BY <1>6 DEF SourceSort, Fetch, ByVariable
    <2>2. ValueTyped(nl, vl, vs[start.key], sc[start.key].ty)
        BY <1>6, <2>1 DEF VarsTyped
    <2> QED
        BY <2>1, <2>2 DEF ValueTyped
<1> QED
    BY <1>2, <1>3, <1>4, <1>5, <1>6 DEF SourceSort

(* What a generated traversal yields has the type the analyzer gave it.     *)
LEMMA YieldedTyped ==
    ASSUME NEW g, NEW nl, NEW vl, Described(g, nl, vl), NEW sc, NEW vs,
           VarsTyped(nl, vl, sc, vs), NEW c, NEW kind, NEW label,
           Yields(sc, c, kind, label), Reads(c) \subseteq DOMAIN vs,
           LabelsAsked(g, vs, c.start)
    PROVE  Typed(nl, vl, kind, label, Yielded(g, vs, c))
<1>1. PICK kind0, label0 : /\ SourceSort(sc, c.start, kind0, label0)
                           /\ Flows(c.steps, kind0, label0, kind, label)
    BY DEF Yields
<1>2. c.start.op \in ByVariable => c.start.key \in DOMAIN vs
    BY DEF Reads
<1>3. Typed(nl, vl, kind0, label0, Fetch(g, vs, c.start))
    BY <1>1, <1>2, FetchTyped
<1> QED
    BY <1>1, <1>3 DEF Flows, Yielded

-----------------------------------------------------------------------------
(* What a statement binds is of the type the analyzer found.                 *)

Shaped(v, shape, items) == v.shape = shape /\ v.items = items

(* The shapes of values.                                                    *)
LEMMA ValueShapes ==
    /\ \A it : Shaped(OneItem(it), "one", <<it>>)
    /\ \A items : Shaped(Items(items), "many", items)
    /\ \A n : Number(n).shape = "number"
    /\ \A n : Grouped(n).shape = "groups"
    BY DEF Shaped, OneItem, Items, Number, Grouped, Value

(* The parts of an outcome.                                                 *)
LEMMA OutcomeParts ==
    ASSUME NEW g, NEW v
    PROVE  LET r == Outcome(g, v) IN
           r.graph = g /\ r.value = v /\ (r.ok <=> v # Failure)
<1> DEFINE b == v # Failure
<1>1. Outcome(g, v) = [ok |-> b, graph |-> g, value |-> v]
    BY DEF Outcome
<1>2. b \in BOOLEAN
    OBVIOUS
<1> HIDE DEF b
<1>3. Outcome(g, v).ok = b /\ Outcome(g, v).graph = g /\ Outcome(g, v).value = v
    BY <1>1
<1> QED
    BY <1>3 DEF b

(* Collected items are of the type of the items, one or many of them.        *)
LEMMA CollectedConforms ==
    ASSUME NEW nl, NEW vl, NEW info, IsItems(info.ty),
           NEW items, Typed(nl, vl, ItemKind(info.ty), info.ty.label, items)
    PROVE  /\ LET v == collect_to_obj(items) IN
              v # Failure /\ info.single = TRUE =>
                  /\ Conforms(v, info)
                  /\ Typed(nl, vl, ItemKind(info.ty), info.ty.label, v.items)
           /\ LET v == collect_all(items) IN
              v # Failure /\ info.single = FALSE =>
                  /\ Conforms(v, info)
                  /\ Typed(nl, vl, ItemKind(info.ty), info.ty.label, v.items)
<1>1. info.ty.kind \notin {"Count", "Aggregate"}
    BY DEF IsItems, Singles, Plurals
<1>2. IsList(items) /\ Len(items) \in Nat /\ DOMAIN items = 1 .. Len(items)
      /\ (items # <<>> <=> 0 < Len(items))
    BY ListFacts DEF Typed
<1>3. ASSUME collect_to_obj(items) # Failure, info.single = TRUE
      PROVE  /\ Conforms(collect_to_obj(items), info)
             /\ Typed(nl, vl, ItemKind(info.ty), info.ty.label, collect_to_obj(items).items)
    <2> DEFINE it == items[1]
    <2>1. items # <<>> /\ it.kind # "error" /\ collect_to_obj(items) = OneItem(it)
        BY <1>3 DEF collect_to_obj, Head
    <2>2. it \in Entries(items)
        BY <1>2, <2>1 DEF Entries
    <2> HIDE DEF it
    <2>3. Fits(nl, vl, ItemKind(info.ty), info.ty.label, it)
        BY <2>1, <2>2 DEF Typed, MayFit
    <2>4. Shaped(collect_to_obj(items), "one", <<it>>)
        BY <2>1, ValueShapes
    <2>5. IsList(<<it>>) /\ DOMAIN <<it>> = {1} /\ <<it>>[1] = it
        BY ListsOfFew
    <2>6. Typed(nl, vl, ItemKind(info.ty), info.ty.label, <<it>>)
        BY <2>3, <2>5 DEF Typed, Entries, MayFit
    <2> QED
        BY <1>1, <1>3, <2>3, <2>4, <2>5, <2>6 DEF Conforms, Shaped, Fits
<1>4. ASSUME collect_all(items) # Failure, info.single = FALSE
      PROVE  /\ Conforms(collect_all(items), info)
             /\ Typed(nl, vl, ItemKind(info.ty), info.ty.label, collect_all(items).items)
    <2>1. ~ HasError(items) /\ collect_all(items) = Items(items)
        BY <1>4 DEF collect_all
    <2>2. Shaped(collect_all(items), "many", items)
        BY <2>1, ValueShapes
    <2>3. \A k \in DOMAIN items : Fits(nl, vl, ItemKind(info.ty), info.ty.label, items[k])
        BY <2>1 DEF HasError, Typed, MayFit, Entries
    <2> QED
        BY <1>1, <1>4, <2>2, <2>3 DEF Conforms, Shaped, Fits
<1> QED
    BY <1>3, <1>4

(* How the analyzer records that one item is bound.                          *)
SingleAgrees(c, info) ==
    IsItems(info.ty) => info.single = (c.write # NoWrite \/ c.collect = "ToObj")

(* The type of one node.                                                    *)
LEMMA NodeType ==
    ASSUME NEW ty, ty.kind = "Node"
    PROVE  IsItems(ty) /\ ItemKind(ty) = "node" /\ ty.kind \notin {"Count", "Aggregate"}
    BY DEF IsItems, ItemKind, HasNodes, HasEdges, Singles, Plurals

(* A bound value: what a statement that succeeds leaves.                     *)
BindsTyped(g, nl, vl, r, info) ==
    \E new : /\ Grown(nl, new) /\ Described(r.graph, new, vl)
             /\ Conforms(r.value, info)
             /\ ValueTyped(new, vl, r.value, info.ty)

(* A traversal that reads binds its variable to what the analyzer typed it  *)
(* as.                                                                      *)
LEMMA ReadBinds ==
    ASSUME NEW g, NEW nl, NEW vl, Described(g, nl, vl), NEW sc, NEW vs,
           VarsTyped(nl, vl, sc, vs), NEW c, NEW info,
           GenTyped(sc, c, info.ty), c.write = NoWrite, SingleAgrees(c, info),
           Reads(c) \subseteq DOMAIN vs, LabelsAsked(g, vs, c.start),
           NEW r, r = RunTraversal(g, vs, c), r.ok
    PROVE  BindsTyped(g, nl, vl, r, info)
<1> DEFINE items == Yielded(g, vs, c)
<1>1. c.write.op = "None"
    BY DEF NoWrite
<1>2. Grown(nl, nl)
    BY DEF Grown
<1>3. CASE CountTyped(c, info.ty)
    <2>1. r = Outcome(g, Summary("Count", items))
        BY <1>1, <1>3 DEF RunTraversal, CountTyped
    <2>2. Summary("Count", items) = Number(Len(items))
        BY DEF Summary
    <2>3. r.graph = g /\ r.value = Number(Len(items))
        BY <2>1, <2>2, OutcomeParts
    <2>4. r.value.shape = "number" /\ info.ty.kind = "Count" /\ ~ IsItems(info.ty)
        BY <1>3, <2>3, ValueShapes DEF CountTyped, IsItems, Singles, Plurals
    <2>5. Conforms(r.value, info) /\ ValueTyped(nl, vl, r.value, info.ty)
        BY <2>4 DEF Conforms, ValueTyped
    <2> QED
        BY <1>2, <2>3, <2>5 DEF BindsTyped
<1>4. CASE GroupTyped(c, info.ty)
    <2> DEFINE op == Last(c.steps).op
    <2>1. op \in {"AggregateBy", "GroupBy"} /\ c.collect = "Try"
        BY <1>4 DEF GroupTyped
    <2> HIDE DEF op
    <2>2. r = Outcome(g, Summary(op, items))
        BY <1>1, <2>1 DEF RunTraversal, op
    <2>3. r.graph = g /\ r.value = Summary(op, items) /\ r.value # Failure
        BY <2>2, OutcomeParts
    <2>4. ~ HasError(items)
        BY <2>1, <2>3 DEF Summary
    <2>5. Summary(op, items) \in {Grouped(AggregateBy(items)), Grouped(GroupBy(items))}
        BY <2>1, <2>4 DEF Summary
    <2>6. r.value.shape = "groups" /\ info.ty.kind = "Aggregate" /\ ~ IsItems(info.ty)
        BY <1>4, <2>3, <2>5, ValueShapes DEF GroupTyped, IsItems, Singles, Plurals
    <2>7. Conforms(r.value, info) /\ ValueTyped(nl, vl, r.value, info.ty)
        BY <2>6 DEF Conforms, ValueTyped
    <2> QED
        BY <1>2, <2>3, <2>7 DEF BindsTyped
<1>5. CASE ItemsTyped(sc, c, info.ty)
    <2>1. /\ IsItems(info.ty) /\ c.collect \in {"ToVec", "ToObj"}
          /\ Yields(sc, c, ItemKind(info.ty), info.ty.label)
          /\ IsSort(ItemKind(info.ty), info.ty.label)
        BY <1>5 DEF ItemsTyped, Yields
    <2>2. Typed(nl, vl, ItemKind(info.ty), info.ty.label, items)
        BY <2>1, YieldedTyped
    <2> HIDE DEF items
    <2>3. info.single = (c.collect = "ToObj")
        BY <2>1 DEF SingleAgrees
    <2>4. \/ c.collect = "ToObj" /\ r = Outcome(g, collect_to_obj(items))
          \/ c.collect = "ToVec" /\ r = Outcome(g, collect_all(items))
        BY <1>1, <2>1 DEF RunTraversal, items
    <2>5. /\ r.graph = g /\ r.value # Failure
          /\ \/ info.single = TRUE /\ r.value = collect_to_obj(items)
             \/ info.single = FALSE /\ r.value = collect_all(items)
        <3>1. CASE c.collect = "ToObj"
            <4>1. r = Outcome(g, collect_to_obj(items))
                BY <2>4, <3>1
            <4>2. r.graph = g /\ r.value = collect_to_obj(items) /\ r.value # Failure
                BY <4>1, OutcomeParts
            <4> QED
                BY <2>3, <3>1, <4>2
        <3>2. CASE c.collect # "ToObj"
            <4>1. r = Outcome(g, collect_all(items))
                BY <2>4, <3>2
            <4>2. r.graph = g /\ r.value = collect_all(items) /\ r.value # Failure
                BY <4>1, OutcomeParts
            <4> QED
                BY <2>3, <3>2, <4>2
        <3> QED
            BY <3>1, <3>2
    <2>6. /\ Conforms(r.value, info)
          /\ Typed(nl, vl, ItemKind(info.ty), info.ty.label, r.value.items)
        BY <2>1, <2>2, <2>5, CollectedConforms
    <2> QED
        BY <1>2, <2>1, <2>5, <2>6 DEF BindsTyped, ValueTyped
<1>6. ~ WriteTyped(sc, c, info.ty)
    BY <1>1 DEF WriteTyped
<1> QED
    BY <1>3, <1>4, <1>5, <1>6 DEF GenTyped

(* So does one that writes.                                                 *)
LEMMA WriteBinds ==
    ASSUME NEW g, NEW nl, NEW vl, Described(g, nl, vl), NEW sc, NEW vs,
           VarsTyped(nl, vl, sc, vs), NEW c, NEW info,
           WriteTyped(sc, c, info.ty), SingleAgrees(c, info),
           Reads(c) \subseteq DOMAIN vs, LabelsAsked(g, vs, c.start),
           NEW r, r = RunTraversal(g, vs, c), r.ok
    PROVE  BindsTyped(g, nl, vl, r, info)
<1> DEFINE label == info.ty.label
           items == Yielded(g, vs, c)
           targets == IF c.write.source # None THEN vs[c.write.source].items ELSE items
           u == IF c.write.op = "Update" THEN Update(g, targets, c.write.val)
                ELSE UpsertN(g, targets, c.write.label, c.write.val)
<1>1. /\ info.ty.kind = "Node" /\ label \in NodeTypes /\ c.write.label = label
      /\ c.write.op \in {"Update", "UpsertN"}
    BY DEF WriteTyped
<1>2. Typed(nl, vl, "node", label, targets)
    <2>1. CASE c.write.source = None
        <3>1. Yields(sc, c, "node", label)
            BY <2>1 DEF WriteTyped
        <3>2. Typed(nl, vl, "node", label, items)
            BY <3>1, YieldedTyped
        <3> HIDE DEF items
        <3> QED
            BY <2>1, <3>2
    <2>2. CASE c.write.source # None
        <3> DEFINE x == c.write.source
        <3>1. /\ x \in DOMAIN sc /\ IsItems(sc[x].ty)
              /\ ItemKind(sc[x].ty) = "node" /\ sc[x].ty.label = label
            BY <2>2 DEF WriteTyped
        <3>2. x \in DOMAIN vs
            BY <2>2 DEF Reads
        <3>3. ValueTyped(nl, vl, vs[x], sc[x].ty)
            BY <3>1, <3>2 DEF VarsTyped
        <3>4. Typed(nl, vl, "node", label, vs[x].items)
            BY <3>1, <3>3 DEF ValueTyped
        <3>5. targets = vs[x].items
            BY <2>2
        <3> HIDE DEF x, targets
        <3> QED
            BY <3>4, <3>5
    <2> QED
        BY <2>1, <2>2
<1> HIDE DEF targets
<1>3. \E new : /\ Grown(nl, new) /\ Described(u.graph, new, vl)
               /\ Typed(new, vl, "node", label, u.items)
    <2>1. CASE c.write.op = "Update"
        <3>1. u = Update(g, targets, c.write.val)
            BY <2>1
        <3>2. Grown(nl, nl)
            BY DEF Grown
        <3> HIDE DEF u, label
        <3>3. Described(u.graph, nl, vl) /\ Typed(nl, vl, "node", label, u.items)
            BY <1>1, <1>2, <3>1, UpdateTyped
        <3> QED
            BY <3>2, <3>3
    <2>2. CASE c.write.op # "Update"
        <3>1. u = UpsertN(g, targets, label, c.write.val)
            BY <1>1, <2>2
        <3> HIDE DEF u, label
        <3> QED
            BY <1>1, <1>2, <3>1, UpsertTyped
    <2> QED
        BY <2>1, <2>2
<1>4. \/ r = Outcome(g, Failure)
      \/ r = Outcome(u.graph, collect_to_obj(u.items))
    <2>1. c.write.op # "None"
        BY <1>1
    <2> QED
        BY <2>1 DEF RunTraversal, targets
<1> HIDE DEF u
<1>5. /\ r.graph = u.graph /\ r.value = collect_to_obj(u.items)
      /\ r.value # Failure
    BY <1>4, OutcomeParts
<1>6. info.single = TRUE
    <2>1. c.write # NoWrite
        BY <1>1 DEF NoWrite
    <2> QED
        BY <1>1, <2>1, NodeType DEF SingleAgrees
<1>7. PICK new : /\ Grown(nl, new) /\ Described(u.graph, new, vl)
                 /\ Typed(new, vl, "node", label, u.items)
    BY <1>3
<1>8. IsItems(info.ty) /\ ItemKind(info.ty) = "node" /\ IsSort("node", label)
    BY <1>1, NodeType DEF IsSort
<1>9. /\ Conforms(r.value, info)
      /\ Typed(new, vl, ItemKind(info.ty), info.ty.label, r.value.items)
    BY <1>5, <1>6, <1>7, <1>8, CollectedConforms
<1> QED
    BY <1>5, <1>7, <1>8, <1>9 DEF BindsTyped, ValueTyped

(* So does a let statement.                                                 *)
LEMMA LetBinds ==
    ASSUME NEW g, NEW nl, NEW vl, Described(g, nl, vl), NEW sc, NEW vs,
           VarsTyped(nl, vl, sc, vs), NEW c, NEW info,
           GenTyped(sc, c, info.ty), SingleAgrees(c, info),
           Reads(c) \subseteq DOMAIN vs, LabelsAsked(g, vs, c.start),
           NEW r, r = RunTraversal(g, vs, c), r.ok
    PROVE  BindsTyped(g, nl, vl, r, info)
<1>1. CASE c.write = NoWrite
    BY <1>1, ReadBinds
<1>2. CASE WriteTyped(sc, c, info.ty)
    BY <1>2, WriteBinds
<1> QED
    BY <1>1, <1>2 DEF GenTyped

(* Variables keep their types as the graph grows.                            *)
LEMMA GrownVars ==
    ASSUME NEW nl, NEW vl, NEW new, Grown(nl, new), NEW sc, NEW vs,
           VarsTyped(nl, vl, sc, vs)
    PROVE  VarsTyped(new, vl, sc, vs)
    BY GrownTyped DEF VarsTyped, ValueTyped

-----------------------------------------------------------------------------
(* The invariant: outside the constructs of gaps, the traversal under        *)
(* construction, the statements and the bound variables have their types.    *)

(* A variable was bound by a statement; one bound by a lookup alone is typed *)
(* by the lookup.                                                            *)
ScopeOK ==
    \A x \in DOMAIN scope :
        /\ x # None
        /\ \E k \in DOMAIN query : query[k].kind = "let" /\ query[k].var = x
        /\ IsItems(scope[x].ty) => IsSort(ItemKind(scope[x].ty), scope[x].ty.label)
        /\ scope[x].index # NoIndex /\ ~ Refined(x) =>
              /\ IsItems(scope[x].ty) /\ ItemKind(scope[x].ty) = "node"
              /\ scope[x].ty.label = scope[x].index.label
        /\ scope[x].index # NoIndex => scope[x].index.op = "NFromIndex"

GenOK ==
    cur_ty # NoType =>
        /\ GenTyped(scope, gen, cur_ty)
        /\ Reads(gen) \subseteq DOMAIN scope
        /\ ~ closed => gen.write = NoWrite

StatementTyped(sc, s) ==
    \/ /\ s.kind = "let" /\ s.var \in DOMAIN sc
       /\ GenTyped(sc, s.gen, sc[s.var].ty)
       /\ SingleAgrees(s.gen, sc[s.var])
    \/ /\ s.kind = "drop"
       /\ \E kind, label : Yields(sc, s.gen, kind, label)

(* A statement only reads variables that statements before it bind.          *)
QueryOK ==
    \A k \in DOMAIN query :
        /\ StatementTyped(scope, query[k])
        /\ \A x \in Reads(query[k].gen) :
              \E i \in 1 .. k - 1 : query[i].kind = "let" /\ query[i].var = x

Bound(n) == {query[i].var : i \in {j \in 1 .. n : query[j].kind = "let"}}

VarsConform == \A x \in DOMAIN env : x \in DOMAIN scope /\ Conforms(env[x], scope[x])

RunOK ==
    /\ phase = "compile" => DOMAIN env = {}
    /\ VarsConform
    /\ phase = "run" =>
          /\ Bound(pos) \subseteq DOMAIN env
          /\ \E nl, vl : Described(db, nl, vl) /\ VarsTyped(nl, vl, scope, env)

TypesInv == ScopeOK /\ GenOK /\ QueryOK /\ RunOK

TInv == gaps = {} => TypesInv

-----------------------------------------------------------------------------
(* The analyzer's steps.                                                     *)

LEMMA AnalysisTyped ==
    ASSUME TypesInv, UNCHANGED <<scope, query, running>>, GenOK'
    PROVE  TypesInv'
<1>1. UNCHANGED <<scope, query, phase, pos, db, env>>
    BY DEF running
<1>2. ScopeOK'
    BY <1>1 DEF TypesInv, ScopeOK, Refined
<1>3. QueryOK'
    BY <1>1 DEF TypesInv, QueryOK
<1>4. RunOK'
    BY <1>1 DEF TypesInv, RunOK, VarsConform, Bound
<1> QED
    BY <1>2, <1>3, <1>4 DEF TypesInv

(* The types the analyzer makes.                                             *)
LEMMA SortOf ==
    /\ \A t \in NodeTypes : /\ IsSort("node", t)
                            /\ IsItems(Type("Nodes", t)) /\ ItemKind(Type("Nodes", t)) = "node"
                            /\ IsItems(Type("Node", t)) /\ ItemKind(Type("Node", t)) = "node"
    /\ \A t \in EdgeTypes : /\ IsSort("edge", t)
                            /\ IsItems(Type("Edges", t)) /\ ItemKind(Type("Edges", t)) = "edge"
                            /\ IsItems(Type("Edge", t)) /\ ItemKind(Type("Edge", t)) = "edge"
    /\ \A t \in VectorTypes : /\ IsSort("vector", t)
                              /\ IsItems(Type("Vectors", t))
                              /\ ItemKind(Type("Vectors", t)) = "vector"
                              /\ IsItems(Type("Vector", t))
                              /\ ItemKind(Type("Vector", t)) = "vector"
    /\ \A k, l : Type(k, l).label = l /\ Type(k, l).kind = k
    BY DEF IsSort, IsItems, ItemKind, HasNodes, HasEdges, Singles, Plurals, Type

(* The type of one of many.                                                 *)
LEMMA SingleOf ==
    ASSUME NEW ty, IsItems(ty)
    PROVE  /\ IsItems(into_single(ty)) /\ ItemKind(into_single(ty)) = ItemKind(ty)
           /\ into_single(ty).label = ty.label /\ into_single(ty).kind \in Singles
<1>1. ty.kind \in {"Node", "Nodes", "Edge", "Edges", "Vector", "Vectors"}
    BY DEF IsItems, Singles, Plurals
<1>2. /\ ty.kind = "Nodes" => into_single(ty) = Type("Node", ty.label)
      /\ ty.kind = "Edges" => into_single(ty) = Type("Edge", ty.label)
      /\ ty.kind = "Vectors" => into_single(ty) = Type("Vector", ty.label)
      /\ ty.kind \in Singles => into_single(ty) = ty
    BY DEF into_single, Singles
<1>3. /\ ty.kind \in {"Node", "Nodes"} => ItemKind(ty) = "node"
      /\ ty.kind \in {"Edge", "Edges"} => ItemKind(ty) = "edge"
      /\ ty.kind \in {"Vector", "Vectors"} => ItemKind(ty) = "vector"
    BY DEF ItemKind, HasNodes, HasEdges
<1>4. \A k, l : Type(k, l).label = l /\ Type(k, l).kind = k
    BY SortOf
<1>5. \A l : /\ ItemKind(Type("Node", l)) = "node" /\ ItemKind(Type("Edge", l)) = "edge"
             /\ ItemKind(Type("Vector", l)) = "vector"
    BY <1>4 DEF ItemKind, HasNodes, HasEdges
<1>6. into_single(ty).label = ty.label /\ into_single(ty).kind \in Singles
    BY <1>1, <1>2, <1>4 DEF Singles
<1>7. ItemKind(into_single(ty)) = ItemKind(ty)
    BY <1>1, <1>2, <1>3, <1>5 DEF Singles
<1> QED
    BY <1>6, <1>7 DEF IsItems

(* The type of all items of a label.                                        *)
LEMMA ManyOf ==
    ASSUME NEW l \in NodeTypes \cup VectorTypes
    PROVE  /\ IsItems(Many(l)) /\ ItemKind(Many(l)) = EdgeTypeOf(l)
           /\ Many(l).label = l /\ IsSort(EdgeTypeOf(l), l)
    BY SortOf DEF Many, EdgeTypeOf

(* Items have a type.                                                       *)
LEMMA NotNoType ==
    ASSUME NEW ty, IsItems(ty) PROVE ty # NoType
    BY DEF IsItems, NoType, Type, Singles, Plurals

(* The parts of a generated traversal.                                      *)
LEMMA Made ==
    ASSUME NEW start, NEW steps, NEW collect, NEW write
    PROVE  LET c == Traversal(start, steps, collect, write) IN
           c.start = start /\ c.steps = steps /\ c.collect = collect /\ c.write = write
    BY DEF Traversal

(* A list with one more entry.                                              *)
LEMMA OneMore ==
    ASSUME NEW s, IsList(s), NEW e
    PROVE  /\ IsList(Append(s, e)) /\ Append(s, e) # <<>> /\ Last(Append(s, e)) = e
           /\ Len(Append(s, e)) = Len(s) + 1
           /\ \A i \in 1 .. Len(s) : Append(s, e)[i] = s[i]
           /\ Append(s, e)[Len(s) + 1] = e
<1> DEFINE T == Entries(s) \cup {e}
<1>1. s \in Seq(T) /\ e \in T /\ Len(s) \in Nat
    <2>1. Entries(s) \subseteq T
        OBVIOUS
    <2>2. Seq(Entries(s)) \subseteq Seq(T)
        BY <2>1
    <2> QED
        BY <2>2, ListFacts DEF IsList
<1>2. /\ Append(s, e) \in Seq(T) /\ Len(Append(s, e)) = Len(s) + 1
      /\ \A i \in 1 .. Len(s) : Append(s, e)[i] = s[i]
      /\ Append(s, e)[Len(s) + 1] = e
    BY <1>1, AppendProperties
<1>3. Append(s, e) # <<>>
    <2>1. Len(<<>>) = 0
        OBVIOUS
    <2> QED
        BY <1>1, <1>2, <2>1
<1>4. Last(Append(s, e)) = e
    BY <1>2 DEF Last
<1> HIDE DEF T
<1>5. IsList(Append(s, e))
    BY <1>2, ListIn
<1> QED
    BY <1>2, <1>3, <1>4, <1>5

(* A traversal that begins is typed by its source.                          *)
LEMMA BeginTyped ==
    ASSUME TypesInv, NEW w, NEW s, NEW c \in {"ToVec", "ToObj"}, NEW ty, Begin(w, s, c, ty),
           IsItems(ty), SourceSort(scope, s, ItemKind(ty), ty.label),
           IsSort(ItemKind(ty), ty.label)
    PROVE  TypesInv'
<1>1. /\ gen' = Traversal(s, <<>>, c, NoWrite) /\ cur_ty' = ty
      /\ UNCHANGED <<scope, query, running>>
    BY DEF Begin
<1>2. gen'.start = s /\ gen'.steps = <<>> /\ gen'.collect = c /\ gen'.write = NoWrite
    BY <1>1, Made
<1>3. Yields(scope, gen', ItemKind(ty), ty.label)
    BY <1>2, NoStepFlows DEF Yields
<1>4. GenTyped(scope, gen', ty)
    BY <1>2, <1>3, NoStepFlows DEF GenTyped, ItemsTyped
<1>5. Reads(gen') \subseteq DOMAIN scope
    BY <1>2 DEF Reads, SourceSort, NoWrite, ByVariable
<1>6. GenOK'
    BY <1>1, <1>2, <1>4, <1>5 DEF GenOK
<1> QED
    BY <1>1, <1>6, AnalysisTyped

(* Each source.                                                             *)
LEMMA StartTyped == TypesInv /\ StartStep => TypesInv'
<1> SUFFICES ASSUME TypesInv, StartStep PROVE TypesInv'
    OBVIOUS
<1>1. ASSUME NEW op \in {"NFromType", "NFromIndex", "NFromID"}, NEW t \in NodeTypes, NEW key,
             NEW c \in {"ToVec", "ToObj"}, NEW k \in {"Node", "Nodes"},
             Source(Start(op, t, key), c, Type(k, t))
      PROVE  TypesInv'
    <2>1. Begin(Start(op, t, key), Start(op, t, key), c, Type(k, t))
        BY <1>1 DEF Source
    <2>2. /\ IsItems(Type(k, t)) /\ ItemKind(Type(k, t)) = "node" /\ Type(k, t).label = t
          /\ IsSort("node", t)
        BY SortOf
    <2>3. SourceSort(scope, Start(op, t, key), "node", t)
        BY DEF SourceSort, Start
    <2> QED
        BY <2>1, <2>2, <2>3, BeginTyped
<1>2. ASSUME NEW op \in {"EFromType", "EFromID"}, NEW t \in EdgeTypes, NEW key,
             NEW c \in {"ToVec", "ToObj"}, NEW k \in {"Edge", "Edges"},
             Source(Start(op, t, key), c, Type(k, t))
      PROVE  TypesInv'
    <2>1. Begin(Start(op, t, key), Start(op, t, key), c, Type(k, t))
        BY <1>2 DEF Source
    <2>2. /\ IsItems(Type(k, t)) /\ ItemKind(Type(k, t)) = "edge" /\ Type(k, t).label = t
          /\ IsSort("edge", t)
        BY SortOf
    <2>3. SourceSort(scope, Start(op, t, key), "edge", t)
        BY DEF SourceSort, Start
    <2> QED
        BY <2>1, <2>2, <2>3, BeginTyped
<1>3. ASSUME NEW op \in {"VFromType", "VFromID"}, NEW t \in VectorTypes, NEW key,
             NEW c \in {"ToVec", "ToObj"}, NEW k \in {"Vector", "Vectors"},
             Source(Start(op, t, key), c, Type(k, t))
      PROVE  TypesInv'
    <2>1. Begin(Start(op, t, key), Start(op, t, key), c, Type(k, t))
        BY <1>3 DEF Source
    <2>2. /\ IsItems(Type(k, t)) /\ ItemKind(Type(k, t)) = "vector" /\ Type(k, t).label = t
          /\ IsSort("vector", t)
        BY SortOf
    <2>3. SourceSort(scope, Start(op, t, key), "vector", t)
        BY DEF SourceSort, Start
    <2> QED
        BY <2>1, <2>2, <2>3, BeginTyped
<1>4. CASE StartNodes
    <2>1. PICK t \in NodeTypes : Source(Start("NFromType", t, None), "ToVec", Type("Nodes", t))
        BY <1>4 DEF StartNodes
    <2> QED
        BY <1>1, <2>1
<1>5. CASE StartNodeByIndex
    <2>1. PICK t \in Indexed, v \in Vals :
              Source(Start("NFromIndex", t, v), "ToObj", Type("Node", t))
        BY <1>5 DEF StartNodeByIndex
    <2>2. t \in NodeTypes
        BY SchemaAssumption
    <2> QED
        BY <1>1, <2>1, <2>2
<1>6. CASE StartNodeByID
    <2>1. PICK t \in NodeTypes, i \in Ids :
              Source(Start("NFromID", t, i), "ToObj", Type("Node", t))
        BY <1>6 DEF StartNodeByID
    <2> QED
        BY <1>1, <2>1
<1>7. CASE StartEdges
    <2>1. PICK e \in EdgeTypes :
              \/ Source(Start("EFromType", e, None), "ToVec", Type("Edges", e))
              \/ \E i \in Ids : Source(Start("EFromID", e, i), "ToObj", Type("Edge", e))
        BY <1>7 DEF StartEdges
    <2> QED
        BY <1>2, <2>1
<1>8. CASE StartVectors
    <2>1. PICK t \in VectorTypes :
              \/ Source(Start("VFromType", t, None), "ToVec", Type("Vectors", t))
              \/ \E i \in Ids : Source(Start("VFromID", t, i), "ToObj", Type("Vector", t))
        BY <1>8 DEF StartVectors
    <2> QED
        BY <1>3, <2>1
<1>9. CASE StartIdentifier
    <2>1. PICK x \in DOMAIN scope :
              /\ IsItems(scope[x].ty)
              /\ Begin(Start("Variable", None, x),
                       Start(IF scope[x].single THEN "FromSingle" ELSE "FromIter", None, x),
                       "ToVec", scope[x].ty)
        BY <1>9 DEF StartIdentifier
    <2> DEFINE s == Start(IF scope[x].single THEN "FromSingle" ELSE "FromIter", None, x)
    <2>2. s.op \in ByVariable /\ s.key = x
        BY DEF Start, ByVariable
    <2> HIDE DEF s
    <2>3. SourceSort(scope, s, ItemKind(scope[x].ty), scope[x].ty.label)
        BY <2>1, <2>2 DEF SourceSort
    <2>4. IsSort(ItemKind(scope[x].ty), scope[x].ty.label)
        BY <2>1 DEF TypesInv, ScopeOK
    <2>5. Begin(Start("Variable", None, x), s, "ToVec", scope[x].ty)
        BY <2>1 DEF s
    <2> QED
        BY <2>1, <2>3, <2>4, <2>5, BeginTyped
<1> QED
    BY <1>4, <1>5, <1>6, <1>7, <1>8, <1>9 DEF StartStep

(* Steps of the traversal.                                                   *)
LEMMA OpenItems ==
    ASSUME NEW sc, NEW c, NEW ty, GenTyped(sc, c, ty), c.write = NoWrite, IsItems(ty)
    PROVE  IsList(c.steps) /\ ItemsTyped(sc, c, ty)
<1>1. ty.kind \notin {"Count", "Aggregate"}
    BY DEF IsItems, Singles, Plurals
<1>2. NoWrite.op = "None"
    BY DEF NoWrite
<1> QED
    BY <1>1, <1>2 DEF GenTyped, CountTyped, GroupTyped, WriteTyped

(* One more step, after which the items have another sort.                   *)
LEMMA YieldsMore ==
    ASSUME NEW sc, NEW c, IsList(c.steps), NEW k1, NEW l1, Yields(sc, c, k1, l1),
           NEW st, NEW k2, NEW l2, IsSort(k2, l2), StepFlows(st, k1, l1, k2, l2),
           NEW d, d.start = c.start, d.steps = Append(c.steps, st)
    PROVE  Yields(sc, d, k2, l2)
<1>1. PICK k0, l0 : SourceSort(sc, c.start, k0, l0) /\ Flows(c.steps, k0, l0, k1, l1)
    BY DEF Yields
<1>2. Flows(d.steps, k0, l0, k2, l2)
    BY <1>1, OneMoreFlows
<1>3. d.steps # <<>>
    BY OneMore
<1> QED
    BY <1>1, <1>2, <1>3 DEF Yields

OpenTyped ==
    /\ cur_ty # NoType /\ ~ closed /\ gen.write = NoWrite
    /\ IsList(gen.steps) /\ GenTyped(scope, gen, cur_ty) /\ Reads(gen) \subseteq DOMAIN scope

(* While steps may follow, the traversal yields what the analyzer thinks.   *)
LEMMA OpenIsTyped == TypesInv /\ Open => OpenTyped
    BY DEF TypesInv, GenOK, Open, OpenTyped, GenTyped

(* A step of the analyzer whose type is what the generated step leads to.   *)
LEMMA ExtendTyped ==
    ASSUME TypesInv, NEW st, NEW c \in {"ToVec", "ToObj"}, NEW ty, Extend(st, c, ty),
           IsItems(cur_ty), IsItems(ty), IsSort(ItemKind(ty), ty.label),
           StepFlows(st, ItemKind(cur_ty), cur_ty.label, ItemKind(ty), ty.label)
    PROVE  TypesInv'
<1>1. /\ gen' = Traversal(gen.start, Append(gen.steps, st), c, gen.write) /\ cur_ty' = ty
      /\ UNCHANGED <<scope, closed, query, running>> /\ Open
    BY DEF Extend
<1>2. /\ gen'.start = gen.start /\ gen'.steps = Append(gen.steps, st)
      /\ gen'.collect = c /\ gen'.write = gen.write
    BY <1>1 DEF Traversal
<1>3. OpenTyped
    BY <1>1, OpenIsTyped
<1>4. IsList(gen.steps) /\ Yields(scope, gen, ItemKind(cur_ty), cur_ty.label)
    BY <1>3, OpenItems DEF OpenTyped, ItemsTyped
<1>5. Yields(scope, gen', ItemKind(ty), ty.label)
    BY <1>2, <1>4, YieldsMore
<1>6. GenTyped(scope, gen', ty)
    <2>1. IsList(gen'.steps)
        BY <1>2, <1>4, OneMore
    <2> QED
        BY <1>2, <1>3, <1>5, <2>1 DEF GenTyped, ItemsTyped, OpenTyped
<1>7. Reads(gen') \subseteq DOMAIN scope
    BY <1>2, <1>3 DEF Reads, OpenTyped
<1>8. GenOK'
    BY <1>1, <1>2, <1>3, <1>6, <1>7 DEF GenOK, OpenTyped
<1> QED
    BY <1>1, <1>8, AnalysisTyped

(* The ends of an edge are nodes or vectors of the schema.                  *)
LEMMA EdgeLabels ==
    ASSUME NEW e \in EdgeTypes
    PROVE  /\ Ends[e].from \in NodeTypes \cup VectorTypes
           /\ Ends[e].to \in NodeTypes \cup VectorTypes
    BY SchemaAssumption

(* The kinds of types the analyzer asks for.                                *)
LEMMA KindsHave ==
    ASSUME NEW ty
    PROVE  /\ HasVertices(ty) => IsItems(ty) /\ ItemKind(ty) \in {"node", "vector"}
           /\ HasEdges(ty) => IsItems(ty) /\ ItemKind(ty) = "edge"
           /\ HasNodes(ty) => IsItems(ty) /\ ItemKind(ty) = "node"
    BY DEF HasVertices, HasEdges, HasNodes, IsItems, ItemKind, Singles, Plurals

(* The steps to the ends of an edge.                                        *)
LEMMA EndStepTyped ==
    ASSUME TypesInv, Open, HasEdges(cur_ty), NEW op, NEW hop, NEW label,
           EdgeEnd(op, hop, label),
           \/ op = "From" /\ label = Ends[cur_ty.label].from
           \/ op = "To" /\ label = Ends[cur_ty.label].to
    PROVE  TypesInv'
<1>1. IsItems(cur_ty) /\ ItemKind(cur_ty) = "edge"
    BY KindsHave
<1>2. cur_ty.label \in EdgeTypes
    <2>1. ItemsTyped(scope, gen, cur_ty)
        BY <1>1, OpenIsTyped, OpenItems DEF OpenTyped
    <2> QED
        BY <1>1, <2>1 DEF ItemsTyped, Yields, IsSort
<1>3. label \in NodeTypes \cup VectorTypes
    BY <1>2, EdgeLabels
<1>4. EdgeTypeOf(label) = hop
    BY DEF EdgeEnd
<1>5. StepFlows(Step(op, None, hop), "edge", cur_ty.label, hop, label)
    BY <1>4, EndFlows
<1> DEFINE many == Many(label)
           one == into_single(Many(label))
<1>6. /\ IsItems(many) /\ ItemKind(many) = hop /\ many.label = label /\ IsSort(hop, label)
    BY <1>3, <1>4, ManyOf
<1>7. IsItems(one) /\ ItemKind(one) = hop /\ one.label = label
    BY <1>6, SingleOf
<1>8. \/ Extend(Step(op, None, hop), "ToVec", many)
      \/ Extend(Step(op, None, hop), "ToObj", one)
    BY DEF EdgeEnd
<1> HIDE DEF many, one
<1> QED
    BY <1>1, <1>5, <1>6, <1>7, <1>8, ExtendTyped

(* Each step along the graph.                                               *)
LEMMA GraphStepTyped == TypesInv /\ GraphStep => TypesInv'
<1> SUFFICES ASSUME TypesInv, GraphStep PROVE TypesInv'
    OBVIOUS
<1>1. ASSUME NEW e \in EdgeTypes, NEW op \in {"OutE", "InE"}, HasVertices(cur_ty),
             Extend(Step(op, e, None), "ToVec", Type("Edges", e))
      PROVE  TypesInv'
    <2>1. StepFlows(Step(op, e, None), ItemKind(cur_ty), cur_ty.label, "edge", e)
        BY <1>1, HopFlows
    <2>2. /\ IsItems(Type("Edges", e)) /\ ItemKind(Type("Edges", e)) = "edge"
          /\ Type("Edges", e).label = e /\ IsSort("edge", e)
        BY SortOf
    <2>3. IsItems(cur_ty)
        BY <1>1, KindsHave
    <2> QED
        BY <1>1, <2>1, <2>2, <2>3, ExtendTyped
<1>2. ASSUME NEW e \in EdgeTypes, NEW op, NEW l, HasVertices(cur_ty),
             \/ op = "Out" /\ l = Ends[e].to
             \/ op = "In" /\ l = Ends[e].from,
             Extend(Step(op, e, EdgeTypeOf(l)), "ToVec", Many(l))
      PROVE  TypesInv'
    <2>1. StepFlows(Step(op, e, EdgeTypeOf(l)), ItemKind(cur_ty), cur_ty.label,
                    EdgeTypeOf(l), l)
        BY <1>2, HopFlows
    <2>2. /\ IsItems(Many(l)) /\ ItemKind(Many(l)) = EdgeTypeOf(l)
          /\ Many(l).label = l /\ IsSort(EdgeTypeOf(l), l)
        BY <1>2, EdgeLabels, ManyOf
    <2>3. IsItems(cur_ty)
        BY <1>2, KindsHave
    <2> QED
        BY <1>2, <2>1, <2>2, <2>3, ExtendTyped
<1>3. CASE StepOutE \/ StepInE
    BY <1>1, <1>3 DEF StepOutE, StepInE
<1>4. CASE StepOut
    BY <1>2, <1>4 DEF StepOut
<1>5. CASE StepIn
    BY <1>2, <1>5 DEF StepIn
<1>6. CASE StepFromN \/ StepFromV
    BY <1>6, EndStepTyped DEF StepFromN, StepFromV
<1>7. CASE StepToN \/ StepToV
    BY <1>7, EndStepTyped DEF StepToN, StepToV
<1> QED
    BY <1>3, <1>4, <1>5, <1>6, <1>7 DEF GraphStep

(* WHERE.                                                                   *)
LEMMA WhereStepTyped ==
    ASSUME TypesInv, StepWhere
    PROVE  TypesInv'
<1>1. PICK t \in Tests :
          /\ Open /\ IsItems(cur_ty)
          /\ gen' = IF Rewritable(t)
                    THEN Traversal(Start("NFromIndex", gen.start.label, t.eq),
                                   gen.steps, gen.collect, gen.write)
                    ELSE Traversal(gen.start,
                                   Append(gen.steps, Filter(GeneratedTest(t))),
                                   gen.collect, gen.write)
          /\ UNCHANGED <<scope, cur_ty, closed, query, running>>
    BY DEF StepWhere
<1>2. OpenTyped /\ ItemsTyped(scope, gen, cur_ty)
    BY <1>1, OpenIsTyped, OpenItems DEF OpenTyped
<1>3. gen'.collect = gen.collect /\ gen'.write = gen.write
    BY <1>1 DEF Traversal
<1>4. CASE Rewritable(t)
    <2> DEFINE s == Start("NFromIndex", gen.start.label, t.eq)
    <2>1. gen'.start = s /\ gen'.steps = gen.steps
        BY <1>1, <1>4 DEF Traversal
    <2>2. s.op = "NFromIndex" /\ s.label = gen.start.label /\ gen.start.op = "NFromType"
        BY <1>4 DEF Start, Rewritable
    <2>3. \A k, l : SourceSort(scope, gen.start, k, l) => SourceSort(scope, gen'.start, k, l)
        BY <2>1, <2>2 DEF SourceSort, ByVariable
    <2>4. Yields(scope, gen', ItemKind(cur_ty), cur_ty.label)
        BY <1>2, <2>1, <2>3 DEF Yields, ItemsTyped
    <2>5. Reads(gen') \subseteq DOMAIN scope
        BY <1>2, <1>3, <2>1, <2>2 DEF Reads, OpenTyped, ByVariable
    <2>6. GenTyped(scope, gen', cur_ty)
        BY <1>2, <1>3, <2>1, <2>4 DEF GenTyped, ItemsTyped, OpenTyped
    <2>7. GenOK'
        BY <1>1, <1>2, <1>3, <2>5, <2>6 DEF GenOK, OpenTyped
    <2> QED
        BY <1>1, <2>7, AnalysisTyped
<1>5. CASE ~ Rewritable(t)
    <2> DEFINE f == Filter(GeneratedTest(t))
    <2>1. gen'.start = gen.start /\ gen'.steps = Append(gen.steps, f)
        BY <1>1, <1>5 DEF Traversal
    <2>2. StepFlows(f, ItemKind(cur_ty), cur_ty.label, ItemKind(cur_ty), cur_ty.label)
        BY PartFlows
    <2> HIDE DEF f
    <2>3. IsSort(ItemKind(cur_ty), cur_ty.label)
        BY <1>2 DEF ItemsTyped, Yields
    <2>4. Yields(scope, gen', ItemKind(cur_ty), cur_ty.label)
        BY <1>2, <2>1, <2>2, <2>3, YieldsMore DEF ItemsTyped, OpenTyped
    <2>5. Reads(gen') \subseteq DOMAIN scope
        BY <1>2, <1>3, <2>1 DEF Reads, OpenTyped
    <2>6. GenTyped(scope, gen', cur_ty)
        <3>1. IsList(gen'.steps)
            BY <1>2, <2>1, OneMore DEF OpenTyped
        <3> QED
            BY <1>2, <1>3, <2>4, <3>1 DEF GenTyped, ItemsTyped, OpenTyped
    <2>7. GenOK'
        BY <1>1, <1>2, <1>3, <2>5, <2>6 DEF GenOK, OpenTyped
    <2> QED
        BY <1>1, <2>7, AnalysisTyped
<1> QED
    BY <1>4, <1>5

(* COUNT.                                                                   *)
LEMMA CountStepTyped ==
    ASSUME TypesInv, StepCount
    PROVE  TypesInv'
<1> DEFINE st == Step("Count", None, None)
<1>1. /\ Open /\ gen' = Traversal(gen.start, Append(gen.steps, st), "No", gen.write)
      /\ cur_ty' = Type("Count", None) /\ UNCHANGED <<scope, closed, query, running>>
    BY DEF StepCount, Extend
<1>2. OpenTyped
    BY <1>1, OpenIsTyped
<1>3. st.op = "Count"
    BY DEF Step
<1> HIDE DEF st
<1>4. /\ gen'.start = gen.start /\ gen'.steps = Append(gen.steps, st)
      /\ gen'.collect = "No" /\ gen'.write = gen.write
    BY <1>1 DEF Traversal
<1>5. IsList(gen'.steps) /\ gen'.steps # <<>> /\ Last(gen'.steps) = st
    BY <1>2, <1>4, OneMore DEF OpenTyped
<1>6. cur_ty'.kind = "Count"
    BY <1>1, SortOf
<1>7. GenTyped(scope, gen', cur_ty')
    BY <1>2, <1>3, <1>4, <1>5, <1>6 DEF GenTyped, CountTyped, OpenTyped
<1>8. Reads(gen') \subseteq DOMAIN scope
    BY <1>2, <1>4 DEF Reads, OpenTyped
<1>9. GenOK'
    BY <1>1, <1>2, <1>4, <1>7, <1>8 DEF GenOK, OpenTyped
<1> QED
    BY <1>1, <1>9, AnalysisTyped

(* AGGREGATE_BY and GROUP_BY.                                               *)
LEMMA GroupingTyped ==
    ASSUME TypesInv, NEW op \in {"AggregateBy", "GroupBy"}, Grouping(op)
    PROVE  TypesInv'
<1> DEFINE st == Step(op, None, None)
           kept == IF gen.steps = <<>> THEN <<>> ELSE Front(gen.steps)
<1>1. /\ Open /\ gen' = Traversal(gen.start, Append(kept, st), "Try", gen.write)
      /\ cur_ty' = Type("Aggregate", None) /\ UNCHANGED <<scope, closed, query, running>>
    BY DEF Grouping, GroupCollect
<1>2. OpenTyped
    BY <1>1, OpenIsTyped
<1>3. st.op = op
    BY DEF Step
<1>4. IsList(kept)
    <2>1. IsList(<<>>)
        BY ListsOfFew
    <2>2. ASSUME gen.steps # <<>> PROVE IsList(Front(gen.steps))
        <3> DEFINE s == gen.steps
                   n == Len(s) - 1
        <3>1. IsList(s) /\ Len(s) \in Nat /\ DOMAIN s = 1 .. Len(s) /\ 0 < Len(s)
            BY <1>2, <2>2, ListFacts DEF OpenTyped
        <3>2. n \in Int /\ \A i \in 1 .. n : s[i] \in Entries(s)
            BY <3>1 DEF Entries
        <3>3. SubSeq(s, 1, n) \in Seq(Entries(s))
            BY <3>2, SubSeqProperties
        <3>4. Front(s) = SubSeq(s, 1, n)
            BY DEF Front
        <3> QED
            BY <3>3, <3>4, ListIn
    <2> QED
        BY <2>1, <2>2
<1> HIDE DEF st, kept
<1>5. /\ gen'.start = gen.start /\ gen'.steps = Append(kept, st)
      /\ gen'.collect = "Try" /\ gen'.write = gen.write
    BY <1>1 DEF Traversal
<1>6. IsList(gen'.steps) /\ gen'.steps # <<>> /\ Last(gen'.steps) = st
    BY <1>4, <1>5, OneMore
<1>7. cur_ty'.kind = "Aggregate"
    BY <1>1, SortOf
<1>8. GenTyped(scope, gen', cur_ty')
    BY <1>2, <1>3, <1>5, <1>6, <1>7 DEF GenTyped, GroupTyped, OpenTyped
<1>9. Reads(gen') \subseteq DOMAIN scope
    BY <1>2, <1>5 DEF Reads, OpenTyped
<1>10. GenOK'
    BY <1>1, <1>2, <1>5, <1>8, <1>9 DEF GenOK, OpenTyped
<1> QED
    BY <1>1, <1>10, AnalysisTyped

(* Each step that filters, orders or counts.                                *)
LEMMA UtilStepTyped == TypesInv /\ UtilStep => TypesInv'
<1> SUFFICES ASSUME TypesInv, UtilStep PROVE TypesInv'
    OBVIOUS
<1>1. CASE StepWhere
    BY <1>1, WhereStepTyped
<1>2. CASE StepRange
    <2>1. PICK lo \in 0 .. 1 : /\ Open /\ IsItems(cur_ty)
                               /\ Extend(Window(lo, lo + 1), gen.collect, cur_ty)
        BY <1>2 DEF StepRange
    <2>2. OpenTyped /\ ItemsTyped(scope, gen, cur_ty)
        BY <2>1, OpenIsTyped, OpenItems DEF OpenTyped
    <2>3. gen.collect \in {"ToVec", "ToObj"} /\ IsSort(ItemKind(cur_ty), cur_ty.label)
        BY <2>2 DEF ItemsTyped, Yields
    <2>4. lo \in Nat /\ lo + 1 \in Nat
        OBVIOUS
    <2>5. StepFlows(Window(lo, lo + 1), ItemKind(cur_ty), cur_ty.label,
                    ItemKind(cur_ty), cur_ty.label)
        BY <2>4, PartFlows
    <2> QED
        BY <2>1, <2>3, <2>5, ExtendTyped
<1>3. CASE StepCount
    BY <1>3, CountStepTyped
<1>4. CASE StepAggregate \/ StepGroupBy
    BY <1>4, GroupingTyped DEF StepAggregate, StepGroupBy
<1> QED
    BY <1>1, <1>2, <1>3, <1>4 DEF UtilStep

(* Last steps.                                                               *)
LEMMA FirstTyped ==
    ASSUME TypesInv, StepFirst
    PROVE  TypesInv'
<1>1. /\ Open /\ IsItems(cur_ty) /\ gen' = Traversal(gen.start, gen.steps, "ToObj", gen.write)
      /\ cur_ty' = into_single(cur_ty) /\ closed' /\ UNCHANGED <<scope, query, running>>
    BY DEF StepFirst, Close
<1>2. OpenTyped /\ ItemsTyped(scope, gen, cur_ty)
    BY <1>1, OpenIsTyped, OpenItems DEF OpenTyped
<1>3. /\ gen'.start = gen.start /\ gen'.steps = gen.steps
      /\ gen'.collect = "ToObj" /\ gen'.write = gen.write
    BY <1>1 DEF Traversal
<1>4. /\ IsItems(cur_ty') /\ ItemKind(cur_ty') = ItemKind(cur_ty)
      /\ cur_ty'.label = cur_ty.label
    BY <1>1, SingleOf
<1>5. Yields(scope, gen', ItemKind(cur_ty'), cur_ty'.label)
    BY <1>2, <1>3, <1>4 DEF ItemsTyped, Yields
<1>6. GenTyped(scope, gen', cur_ty')
    BY <1>2, <1>3, <1>4, <1>5 DEF GenTyped, ItemsTyped, OpenTyped
<1>7. Reads(gen') \subseteq DOMAIN scope
    BY <1>2, <1>3 DEF Reads, OpenTyped
<1>8. GenOK'
    BY <1>1, <1>6, <1>7 DEF GenOK
<1> QED
    BY <1>1, <1>8, AnalysisTyped

(* A write: of the items of a variable, when it starts from one and no step  *)
(* is lost, or of what the source and the steps yield.                       *)
LEMMA MutateTyped ==
    ASSUME TypesInv, NEW op, NEW v, NEW w, NEW start, Mutate(op, v, w, start),
           w.op \in {"Update", "UpsertN"}, w.label = cur_ty.label,
           \/ /\ w.source = None
              /\ \A k, l : SourceSort(scope, gen.start, k, l) => SourceSort(scope, start, k, l)
              /\ start.op \in ByVariable => start.key = gen.start.key /\ start.op = gen.start.op
           \/ /\ w.source = gen.start.key /\ start = gen.start
              /\ gen.start.op \in ByVariable /\ gen.steps = <<>>
    PROVE  TypesInv'
<1>1. /\ Open /\ HasNodes(cur_ty) /\ gen' = Traversal(start, gen.steps, "No", w)
      /\ cur_ty' = into_single(cur_ty) /\ closed' /\ UNCHANGED <<scope, query, running>>
    BY DEF Mutate, Close
<1>2. IsItems(cur_ty) /\ ItemKind(cur_ty) = "node"
    BY <1>1, KindsHave
<1>3. OpenTyped /\ ItemsTyped(scope, gen, cur_ty)
    BY <1>1, <1>2, OpenIsTyped, OpenItems DEF OpenTyped
<1>4. /\ gen'.start = start /\ gen'.steps = gen.steps /\ gen'.write = w
    BY <1>1 DEF Traversal
<1>5. cur_ty'.kind = "Node" /\ cur_ty'.label = cur_ty.label
    <2>1. cur_ty.kind = "Node" => cur_ty' = cur_ty
        BY <1>1 DEF into_single
    <2>2. cur_ty.kind = "Nodes" => cur_ty' = Type("Node", cur_ty.label)
        BY <1>1 DEF into_single
    <2> QED
        BY <1>1, <2>1, <2>2, SortOf DEF HasNodes
<1>6. PICK k0, l0 : /\ SourceSort(scope, gen.start, k0, l0)
                    /\ Flows(gen.steps, k0, l0, "node", cur_ty.label)
                    /\ gen.steps = <<>> => k0 = "node" /\ l0 = cur_ty.label
    BY <1>2, <1>3 DEF ItemsTyped, Yields
<1>7. IsSort("node", cur_ty.label) /\ cur_ty.label \in NodeTypes
    BY <1>2, <1>3 DEF ItemsTyped, Yields, IsSort
<1>8. WriteTyped(scope, gen', cur_ty') /\ Reads(gen') \subseteq DOMAIN scope
    <2>1. CASE /\ w.source = None
               /\ \A k, l : SourceSort(scope, gen.start, k, l) => SourceSort(scope, start, k, l)
               /\ start.op \in ByVariable => start.key = gen.start.key /\ start.op = gen.start.op
        <3>1. Yields(scope, gen', "node", cur_ty.label)
            BY <1>4, <1>6, <1>7, <2>1 DEF Yields
        <3>2. Reads(gen') \subseteq DOMAIN scope
            BY <1>3, <1>4, <2>1 DEF Reads, OpenTyped
        <3> QED
            BY <1>4, <1>5, <1>7, <2>1, <3>1, <3>2 DEF WriteTyped
    <2>2. CASE /\ w.source = gen.start.key /\ start = gen.start
               /\ gen.start.op \in ByVariable /\ gen.steps = <<>>
        <3> DEFINE x == gen.start.key
        <3>1. x \in DOMAIN scope
            BY <1>3, <2>2 DEF Reads, OpenTyped
        <3>2. x # None
            BY <3>1 DEF TypesInv, ScopeOK
        <3>3. IsItems(scope[x].ty) /\ ItemKind(scope[x].ty) = "node" /\ scope[x].ty.label = cur_ty.label
            BY <1>6, <2>2 DEF SourceSort, ByVariable
        <3>4. Reads(gen') \subseteq DOMAIN scope
            BY <1>4, <2>2, <3>1 DEF Reads
        <3> QED
            BY <1>4, <1>5, <1>7, <2>2, <3>1, <3>2, <3>3, <3>4 DEF WriteTyped
    <2> QED
        BY <2>1, <2>2
<1>9. GenTyped(scope, gen', cur_ty')
    BY <1>3, <1>4, <1>8 DEF GenTyped, OpenTyped
<1>10. GenOK'
    BY <1>1, <1>8, <1>9 DEF GenOK
<1> QED
    BY <1>1, <1>10, AnalysisTyped

(* Each step that must come last, if no construct in gaps was met.          *)
LEMMA LastStepTyped == TypesInv /\ LastStep /\ gaps' = {} => TypesInv'
<1> SUFFICES ASSUME TypesInv, LastStep, gaps' = {} PROVE TypesInv'
    OBVIOUS
<1>1. CASE StepFirst
    BY <1>1, FirstTyped
<1>2. CASE StepUpdate
    <2>1. PICK v, w :
              /\ v \in Vals
              /\ w = [op |-> "Update", label |-> cur_ty.label, val |-> v,
                      source |-> IF FromVariable THEN gen.start.key ELSE None]
              /\ Mutate("Update", v, w, gen.start)
              /\ gaps' = gaps \cup LosesSteps(w)
        BY <1>2 DEF StepUpdate
    <2>2. /\ w.op = "Update" /\ w.label = cur_ty.label
          /\ w.source = IF FromVariable THEN gen.start.key ELSE None
        BY <2>1
    <2>3. w.source # None => gen.steps = <<>>
        BY <2>1 DEF LosesSteps
    <2>4. FromVariable => gen.start.key # None
        <3>1. OpenTyped
            BY <2>1, OpenIsTyped DEF Mutate
        <3> QED
            BY <3>1 DEF FromVariable, OpenTyped, Reads, ByVariable, TypesInv, ScopeOK
    <2>5. FromVariable => gen.start.op \in ByVariable
        BY DEF FromVariable, ByVariable
    <2>6. CASE FromVariable
        BY <2>1, <2>2, <2>3, <2>4, <2>5, <2>6, MutateTyped
    <2>7. CASE ~ FromVariable
        BY <2>1, <2>2, <2>7, MutateTyped
    <2> QED
        BY <2>6, <2>7
<1>3. CASE StepUpsertN
    <2> DEFINE x == gen.start.key
               start == IF Inlined THEN scope[x].index ELSE gen.start
    <2>1. PICK v, w :
              /\ v \in Vals
              /\ w = [op |-> "UpsertN", label |-> cur_ty.label, val |-> v,
                      source |-> IF FromVariable /\ ~Inlined THEN gen.start.key ELSE None]
              /\ Mutate("UpsertN", v, w, start)
              /\ gaps' = gaps \cup LosesSteps(w) \cup
                    (IF Inlined /\ (is_mut \/ Refined(x)) THEN {"reread"} ELSE {})
        BY <1>3 DEF StepUpsertN
    <2>2. /\ w.op = "UpsertN" /\ w.label = cur_ty.label
          /\ w.source = IF FromVariable /\ ~Inlined THEN gen.start.key ELSE None
        BY <2>1
    <2>3. w.source # None => gen.steps = <<>>
        BY <2>1 DEF LosesSteps
    <2>4. Inlined => ~ Refined(x)
        BY <2>1
    <2>5. FromVariable => x \in DOMAIN scope /\ x # None /\ gen.start.op \in ByVariable
        <3>1. OpenTyped
            BY <2>1, OpenIsTyped DEF Mutate
        <3> QED
            BY <3>1 DEF FromVariable, OpenTyped, Reads, ByVariable, TypesInv, ScopeOK
    <2>6. Mutate("UpsertN", v, w, start)
        BY <2>1
    <2>7. CASE Inlined
        <3>1. FromVariable /\ gen.start.op = "FromSingle" /\ scope[x].index # NoIndex
            BY <2>7 DEF Inlined, FromVariable
        <3>2. /\ ItemKind(scope[x].ty) = "node" /\ scope[x].ty.label = scope[x].index.label
              /\ scope[x].index.op = "NFromIndex"
            BY <2>4, <2>5, <2>7, <3>1 DEF TypesInv, ScopeOK
        <3>3. start = scope[x].index
            BY <2>7
        <3> HIDE DEF start
        <3>4. \A k, l : SourceSort(scope, gen.start, k, l) => SourceSort(scope, start, k, l)
            BY <3>1, <3>2, <3>3 DEF SourceSort, ByVariable
        <3>5. start.op \notin ByVariable
            BY <3>2, <3>3 DEF ByVariable
        <3> QED
            BY <2>2, <2>6, <2>7, <3>4, <3>5, MutateTyped
    <2>8. CASE ~ Inlined
        <3>1. start = gen.start
            BY <2>8
        <3> HIDE DEF start
        <3>2. CASE FromVariable
            <4>1. w.source = gen.start.key /\ gen.steps = <<>> /\ gen.start.op \in ByVariable
                BY <2>2, <2>3, <2>5, <2>8, <3>2
            <4> QED
                BY <2>2, <2>6, <3>1, <4>1, MutateTyped
        <3>3. CASE ~ FromVariable
            <4>1. w.source = None
                BY <2>2, <3>3
            <4> QED
                BY <2>2, <2>6, <3>1, <4>1, MutateTyped
        <3> QED
            BY <3>2, <3>3
    <2> QED
        BY <2>7, <2>8
<1> QED
    BY <1>1, <1>2, <1>3 DEF LastStep

-----------------------------------------------------------------------------
(* Statements.                                                               *)

Wider(sc, new) == \A x \in DOMAIN sc : x \in DOMAIN new /\ new[x] = sc[x]

(* What is typed in a scope is so in a wider one.                           *)
LEMMA WiderTyped ==
    ASSUME NEW sc, NEW new, Wider(sc, new), NEW c
    PROVE  /\ \A k, l : Yields(sc, c, k, l) => Yields(new, c, k, l)
           /\ \A ty : GenTyped(sc, c, ty) => GenTyped(new, c, ty)
           /\ \A s : StatementTyped(sc, s) => StatementTyped(new, s)
<1>1. \A start, k, l : SourceSort(sc, start, k, l) => SourceSort(new, start, k, l)
    BY DEF SourceSort, Wider
<1>2. \A d, k, l : Yields(sc, d, k, l) => Yields(new, d, k, l)
    BY <1>1 DEF Yields
<1>3. \A d, ty : WriteTyped(sc, d, ty) => WriteTyped(new, d, ty)
    BY <1>2 DEF WriteTyped, Wider
<1>4. \A d, ty : GenTyped(sc, d, ty) => GenTyped(new, d, ty)
    BY <1>2, <1>3 DEF GenTyped, ItemsTyped
<1>5. \A s : StatementTyped(sc, s) => StatementTyped(new, s)
    BY <1>2, <1>4 DEF StatementTyped, Wider
<1> QED
    BY <1>2, <1>4, <1>5

(* A variable that a statement adds.                                         *)
AddedOK(s, x) ==
    /\ s.kind = "let" /\ s.var = x /\ x # None
    /\ IsItems(scope'[x].ty) => IsSort(ItemKind(scope'[x].ty), scope'[x].ty.label)
    /\ scope'[x].index # NoIndex => scope'[x].index.op = "NFromIndex"
    /\ scope'[x].index # NoIndex /\ s.gen.steps = <<>> =>
          /\ IsItems(scope'[x].ty) /\ ItemKind(scope'[x].ty) = "node"
          /\ scope'[x].ty.label = scope'[x].index.label

(* A statement that is done joins the query as the analyzer typed it.       *)
LEMMA EndTyped ==
    ASSUME TypesInv, IInv, phase = "compile", NEW s, query' = Append(query, s),
           cur_ty' = NoType, UNCHANGED running, Wider(scope, scope'),
           StatementTyped(scope', s), Reads(s.gen) \subseteq DOMAIN scope,
           \A x \in DOMAIN scope' \ DOMAIN scope : AddedOK(s, x)
    PROVE  TypesInv'
<1> DEFINE n == Len(query)
<1>1. UNCHANGED <<phase, pos, db, env>>
    BY DEF running
<1>2. IsList(query) /\ n \in Nat /\ DOMAIN query = 1 .. n
    BY ListIn, ListFacts DEF IInv, QueryShape
<1>3. /\ Len(query') = n + 1 /\ IsList(query') /\ query'[n + 1] = s
      /\ \A i \in 1 .. n : query'[i] = query[i]
    BY <1>2, OneMore
<1>4. DOMAIN query' = 1 .. n + 1
    BY <1>3, ListFacts
<1> HIDE DEF n
<1>5. \A k \in DOMAIN query : k \in DOMAIN query' /\ query'[k] = query[k]
    BY <1>2, <1>3, <1>4
<1>6. n + 1 \in DOMAIN query' /\ \A k \in DOMAIN query' : k \in DOMAIN query \/ k = n + 1
    BY <1>2, <1>4
<1>7. ScopeOK'
    <2> SUFFICES ASSUME NEW x \in DOMAIN scope'
                 PROVE  /\ x # None
                        /\ \E k \in DOMAIN query' : query'[k].kind = "let" /\ query'[k].var = x
                        /\ IsItems(scope'[x].ty) =>
                               IsSort(ItemKind(scope'[x].ty), scope'[x].ty.label)
                        /\ scope'[x].index # NoIndex /\ ~ Refined(x)' =>
                              /\ IsItems(scope'[x].ty) /\ ItemKind(scope'[x].ty) = "node"
                              /\ scope'[x].ty.label = scope'[x].index.label
                        /\ scope'[x].index # NoIndex => scope'[x].index.op = "NFromIndex"
        BY DEF ScopeOK
    <2>1. CASE x \in DOMAIN scope
        <3>1. scope'[x] = scope[x]
            BY <2>1 DEF Wider
        <3>2. ~ Refined(x)' => ~ Refined(x)
            BY <1>5 DEF Refined
        <3>3. \E k \in DOMAIN query' : query'[k].kind = "let" /\ query'[k].var = x
            BY <1>5, <2>1 DEF TypesInv, ScopeOK
        <3> QED
            BY <2>1, <3>1, <3>2, <3>3 DEF TypesInv, ScopeOK
    <2>2. CASE x \notin DOMAIN scope
        <3>1. AddedOK(s, x)
            BY <2>2
        <3>2. ~ Refined(x)' => s.gen.steps = <<>>
            BY <1>3, <1>6, <3>1 DEF Refined, AddedOK
        <3>3. \E k \in DOMAIN query' : query'[k].kind = "let" /\ query'[k].var = x
            BY <1>3, <1>6, <3>1 DEF AddedOK
        <3> QED
            BY <3>1, <3>2, <3>3 DEF AddedOK
    <2> QED
        BY <2>1, <2>2
<1>8. QueryOK'
    <2> SUFFICES ASSUME NEW k \in DOMAIN query'
                 PROVE  /\ StatementTyped(scope', query'[k])
                        /\ \A x \in Reads(query'[k].gen) :
                              \E i \in 1 .. k - 1 : query'[i].kind = "let" /\ query'[i].var = x
        BY DEF QueryOK
    <2>1. CASE k \in DOMAIN query
        <3>1. query'[k] = query[k] /\ k \in 1 .. n
            BY <1>2, <1>5, <2>1
        <3>2. StatementTyped(scope, query[k])
            BY <2>1 DEF TypesInv, QueryOK
        <3>3. \A i \in 1 .. k - 1 : query'[i] = query[i]
            BY <1>2, <1>3, <3>1
        <3>4. \A x \in Reads(query[k].gen) :
                  \E i \in 1 .. k - 1 : query[i].kind = "let" /\ query[i].var = x
            BY <2>1 DEF TypesInv, QueryOK
        <3>5. StatementTyped(scope', query'[k])
            BY <3>1, <3>2, WiderTyped
        <3> QED
            BY <3>1, <3>3, <3>4, <3>5
    <2>2. CASE k = n + 1
        <3>1. query'[k] = s
            BY <1>3, <2>2
        <3>2. ASSUME NEW x \in Reads(s.gen)
              PROVE  \E i \in 1 .. k - 1 : query'[i].kind = "let" /\ query'[i].var = x
            <4>1. PICK i \in DOMAIN query : query[i].kind = "let" /\ query[i].var = x
                BY DEF TypesInv, ScopeOK
            <4>2. i \in 1 .. k - 1 /\ query'[i] = query[i]
                BY <1>2, <1>3, <2>2
            <4> QED
                BY <4>1, <4>2
        <3> QED
            BY <3>1, <3>2
    <2> QED
        BY <1>6, <2>1, <2>2
<1>9. GenOK'
    BY DEF GenOK
<1>10. RunOK'
    BY <1>1 DEF TypesInv, RunOK, VarsConform
<1> QED
    BY <1>7, <1>8, <1>9, <1>10 DEF TypesInv

(* x <- traversal.                                                           *)
LEMMA AssignmentTyped ==
    ASSUME TypesInv, IInv, Assignment, gaps' = {}
    PROVE  TypesInv'
<1> DEFINE info == [ty |-> cur_ty, single |-> IsSingle(gen.collect, cur_ty),
                    index |-> IF gen.start.op = "NFromIndex" THEN gen.start ELSE NoIndex]
<1>1. PICK x \in Vars \ DOMAIN scope :
          /\ Complete
          /\ scope' = [y \in DOMAIN scope \cup {x} |-> IF y # x THEN scope[y] ELSE info]
          /\ gaps' = IF cur_ty.kind \in Singles /\ gen.collect = "ToVec"
                     THEN gaps \cup {"single"} ELSE gaps
          /\ EndStatement("let", x, gen)
    BY DEF Assignment
<1> DEFINE s == [kind |-> "let", var |-> x, src |-> src, gen |-> gen]
<1>2. /\ phase = "compile" /\ cur_ty # NoType /\ cur_ty' = NoType
      /\ query' = Append(query, s) /\ UNCHANGED running
    BY <1>1 DEF Complete, EndStatement
<1>3. s.kind = "let" /\ s.var = x /\ s.gen = gen
    OBVIOUS
<1>4. /\ info.ty = cur_ty /\ info.single = IsSingle(gen.collect, cur_ty)
      /\ info.index = IF gen.start.op = "NFromIndex" THEN gen.start ELSE NoIndex
    OBVIOUS
<1> HIDE DEF s, info
<1>5. DOMAIN scope' = DOMAIN scope \cup {x} /\ scope'[x] = info /\ Wider(scope, scope')
    BY <1>1 DEF Wider
<1>6. x # None
    BY SchemaAssumption
<1>7. GenTyped(scope, gen, cur_ty) /\ Reads(gen) \subseteq DOMAIN scope
    BY <1>2 DEF TypesInv, GenOK
<1>8. ~ (cur_ty.kind \in Singles /\ gen.collect = "ToVec")
    BY <1>1
<1>9. SingleAgrees(gen, info)
    <2> SUFFICES ASSUME IsItems(cur_ty)
                 PROVE  info.single = (gen.write # NoWrite \/ gen.collect = "ToObj")
        BY <1>4 DEF SingleAgrees
    <2>1. CASE gen.write = NoWrite
        <3>1. gen.collect \in {"ToVec", "ToObj"}
            BY <1>7, <2>1, OpenItems DEF ItemsTyped
        <3> QED
            BY <1>4, <1>8, <2>1, <3>1 DEF IsSingle
    <2>2. CASE gen.write # NoWrite
        <3>1. cur_ty.kind \in Singles
            BY <1>7, <2>2 DEF GenTyped, WriteTyped, Singles
        <3> QED
            BY <1>4, <2>2, <3>1 DEF IsSingle
    <2> QED
        BY <2>1, <2>2
<1>10. IsItems(cur_ty) => IsSort(ItemKind(cur_ty), cur_ty.label)
    <2>1. CASE gen.write = NoWrite
        BY <1>7, <2>1, OpenItems DEF ItemsTyped, Yields
    <2>2. CASE gen.write # NoWrite
        <3>1. cur_ty.kind = "Node" /\ cur_ty.label \in NodeTypes
            BY <1>7, <2>2 DEF GenTyped, WriteTyped
        <3> QED
            BY <3>1, NodeType DEF IsSort
    <2> QED
        BY <2>1, <2>2
<1>11. gen.start.op = "NFromIndex" /\ gen.steps = <<>> =>
           IsItems(cur_ty) /\ ItemKind(cur_ty) = "node" /\ cur_ty.label = gen.start.label
    <2> SUFFICES ASSUME gen.start.op = "NFromIndex", gen.steps = <<>>
                 PROVE  IsItems(cur_ty) /\ ItemKind(cur_ty) = "node" /\ cur_ty.label = gen.start.label
        OBVIOUS
    <2>1. ASSUME NEW k, NEW l, Yields(scope, gen, k, l)
          PROVE  k = "node" /\ l = gen.start.label
        BY <2>1 DEF Yields, SourceSort, ByVariable
    <2>2. ~ CountTyped(gen, cur_ty) /\ ~ GroupTyped(gen, cur_ty)
        BY DEF CountTyped, GroupTyped
    <2>3. CASE ItemsTyped(scope, gen, cur_ty)
        BY <2>1, <2>3 DEF ItemsTyped
    <2>4. CASE WriteTyped(scope, gen, cur_ty)
        <3>1. Yields(scope, gen, "node", cur_ty.label) /\ cur_ty.kind = "Node"
            BY <2>4 DEF WriteTyped, ByVariable
        <3> QED
            BY <2>1, <3>1, NodeType
    <2> QED
        BY <1>7, <2>2, <2>3, <2>4 DEF GenTyped
<1>12. StatementTyped(scope', s)
    <2>1. GenTyped(scope', gen, cur_ty)
        BY <1>5, <1>7, WiderTyped
    <2> QED
        BY <1>3, <1>4, <1>5, <1>9, <2>1 DEF StatementTyped
<1>13. AddedOK(s, x)
    BY <1>3, <1>4, <1>5, <1>6, <1>10, <1>11 DEF AddedOK
<1> QED
    BY <1>2, <1>3, <1>5, <1>7, <1>12, <1>13, EndTyped

(* DROP.                                                                    *)
LEMMA DropStatementTyped ==
    ASSUME TypesInv, IInv, DropStatement
    PROVE  TypesInv'
<1> DEFINE c == Traversal(gen.start, gen.steps, "No", gen.write)
           s == [kind |-> "drop", var |-> None, src |-> src, gen |-> c]
<1>1. /\ phase = "compile" /\ cur_ty # NoType /\ cur_ty' = NoType
      /\ IsItems(cur_ty) /\ gen.write = NoWrite
      /\ query' = Append(query, s) /\ UNCHANGED running /\ UNCHANGED scope
    BY DEF DropStatement, Complete, EndStatement
<1>2. c.start = gen.start /\ c.steps = gen.steps /\ c.write = gen.write
    BY DEF Traversal
<1> HIDE DEF c
<1>3. s.kind = "drop" /\ s.gen = c
    OBVIOUS
<1> HIDE DEF s
<1>4. GenTyped(scope, gen, cur_ty) /\ Reads(gen) \subseteq DOMAIN scope
    BY <1>1 DEF TypesInv, GenOK
<1>5. Yields(scope, gen, ItemKind(cur_ty), cur_ty.label)
    BY <1>1, <1>4, OpenItems DEF ItemsTyped
<1>6. Yields(scope, c, ItemKind(cur_ty), cur_ty.label)
    BY <1>2, <1>5 DEF Yields
<1>7. StatementTyped(scope, s)
    BY <1>3, <1>6 DEF StatementTyped
<1>8. Reads(s.gen) \subseteq DOMAIN scope
    BY <1>2, <1>3, <1>4 DEF Reads
<1>9. Wider(scope, scope') /\ scope' = scope
    BY <1>1 DEF Wider
<1> QED
    BY <1>1, <1>7, <1>8, <1>9, EndTyped

-----------------------------------------------------------------------------
(* The run.                                                                  *)

LEMMA DeployTyped ==
    ASSUME TypesInv, IInv, Deploy
    PROVE  TypesInv'
<1>1. PICK g \in Graphs : db' = g
    BY DEF Deploy
<1>2. /\ phase = "compile" /\ phase' = "run" /\ pos' = pos
      /\ UNCHANGED <<scope, gen, cur_ty, closed, query, env>>
    BY DEF Deploy, analysis
<1>3. pos = 0 /\ DOMAIN env = {}
    BY <1>2 DEF IInv, RunShape, TypesInv, RunOK
<1>4. ScopeOK' /\ QueryOK' /\ GenOK'
    <2>1. ScopeOK'
        BY <1>2 DEF TypesInv, ScopeOK, Refined
    <2>2. QueryOK'
        BY <1>2 DEF TypesInv, QueryOK
    <2>3. GenOK'
        BY <1>2 DEF TypesInv, GenOK
    <2> QED
        BY <2>1, <2>2, <2>3
<1> DEFINE nl == [i \in Nat |-> IF i \in DOMAIN g.nodes THEN g.nodes[i].label ELSE None]
           vl == [i \in Nat |-> IF i \in DOMAIN g.vectors THEN g.vectors[i].label ELSE None]
<1>5. Described(g, nl, vl)
    <2>1. /\ g = [nodes |-> g.nodes, edges |-> g.edges, vectors |-> g.vectors, next |-> g.next]
          /\ g.next \in Nat /\ OfSchema(g)
          /\ \A ids \in Ids_(g) : IsFiniteSet(ids) /\ ids \subseteq 0 .. g.next - 1
        BY GraphAssumption DEF Ids_
    <2>2. \A ids \in Ids_(g) : ids \in SUBSET Nat /\ \A i \in ids : i < g.next
        BY <2>1
    <2>3. /\ DOMAIN g.nodes \in SUBSET Nat /\ DOMAIN g.vectors \in SUBSET Nat
          /\ DOMAIN g.edges \in SUBSET Nat /\ \A i \in DOMAIN g.nodes : i < g.next
          /\ \A i \in DOMAIN g.vectors : i < g.next
        BY <2>2 DEF Ids_
    <2>4. /\ \A i \in DOMAIN g.nodes : g.nodes[i].label \in NodeTypes /\ nl[i] = g.nodes[i].label
          /\ \A i \in DOMAIN g.vectors :
                 g.vectors[i].label \in VectorTypes /\ vl[i] = g.vectors[i].label
        BY <2>1, <2>3 DEF OfSchema
    <2>5. nl \in [Nat -> NodeTypes \cup {None}] /\ vl \in [Nat -> VectorTypes \cup {None}]
        BY <2>4
    <2>6. /\ \A i \in Nat : g.next <= i => nl[i] = None /\ vl[i] = None
          /\ \A i \in Nat : nl[i] = None \/ vl[i] = None
        <3>1. DOMAIN g.nodes \cap DOMAIN g.vectors = {}
            BY GraphAssumption
        <3> QED
            BY <2>1, <2>3, <3>1
    <2> HIDE DEF nl, vl
    <2>7. ASSUME NEW i, NEW label, IsVertex(g, i, label) PROVE Goes(nl, vl, i, label)
        BY <2>3, <2>4, <2>7 DEF IsVertex, Goes
    <2>8. \A e \in DOMAIN g.edges :
              /\ g.edges[e].label \in EdgeTypes
              /\ Goes(nl, vl, g.edges[e].from, Ends[g.edges[e].label].from)
              /\ Goes(nl, vl, g.edges[e].to, Ends[g.edges[e].label].to)
        BY <2>1, <2>7 DEF OfSchema
    <2>9. \A ids \in Ids_(g) : IsFiniteSet(ids) /\ ids \in SUBSET Nat
        BY <2>1, <2>2
    <2> QED
        BY <2>1, <2>4, <2>5, <2>6, <2>8, <2>9 DEF Described
<1> HIDE DEF nl, vl
<1>6. RunOK'
    <2>1. Bound(pos)' = {}
        BY <1>2, <1>3 DEF Bound
    <2>2. VarsConform' /\ VarsTyped(nl, vl, scope', env')
        BY <1>2, <1>3 DEF VarsConform, VarsTyped
    <2>3. Described(db', nl, vl)
        BY <1>1, <1>5
    <2> QED
        BY <1>2, <2>1, <2>2, <2>3 DEF RunOK
<1> QED
    BY <1>4, <1>6 DEF TypesInv

(* A statement of the handler binds its variable as the analyzer typed it.  *)
LEMMA ExecuteTyped ==
    ASSUME TypesInv, IInv, Execute, gaps' = {}
    PROVE  TypesInv'
<1> DEFINE s == query[pos + 1]
           r == RunStatement(db, env, s)
<1>1. /\ phase = "run" /\ UNCHANGED <<scope, gen, cur_ty, closed, query>>
      /\ gaps' = gaps \cup RunGaps(s) /\ RunGenerated(s)
    BY DEF Execute, analysis
<1>2. /\ db' = IF r.ok THEN r.graph ELSE stored
      /\ env' = IF r.ok THEN Bind(env, s, r.value) ELSE env
      /\ pos' = pos + 1
      /\ phase' = IF ~r.ok THEN "failed"
                  ELSE IF pos + 1 = Len(query) THEN "committed" ELSE "run"
    BY <1>1 DEF RunGenerated, Run
<1>3. IsList(query) /\ DOMAIN query = 1 .. Len(query) /\ pos \in Nat /\ pos + 1 \in DOMAIN query
    <2>1. IsList(query) /\ Len(query) \in Nat /\ DOMAIN query = 1 .. Len(query)
        BY ListIn, ListFacts DEF IInv, QueryShape
    <2>2. pos \in Nat /\ pos < Len(query)
        BY <1>1 DEF IInv, RunShape
    <2> QED
        BY <2>1, <2>2
<1>4. ScopeOK' /\ QueryOK' /\ GenOK'
    <2>1. ScopeOK'
        BY <1>1 DEF TypesInv, ScopeOK, Refined
    <2>2. QueryOK'
        BY <1>1 DEF TypesInv, QueryOK
    <2>3. GenOK'
        BY <1>1 DEF TypesInv, GenOK
    <2> QED
        BY <2>1, <2>2, <2>3
<1>5. LabelsAsked(db, env, s.gen.start)
    <2>1. RunGaps(s) = {}
        BY <1>1
    <2> DEFINE fetched == Fetch(db, env, s.gen.start)
    <2>2. ~ (/\ s.gen.start.op \in {"NFromID", "EFromID", "VFromID"}
             /\ \E k \in DOMAIN fetched : fetched[k].label \notin {None, s.gen.start.label})
        BY <2>1 DEF RunGaps
    <2> QED
        BY <2>2 DEF LabelsAsked, ById
<1>6. StatementTyped(scope, s) /\ Reads(s.gen) \subseteq DOMAIN env
    <2>1. StatementTyped(scope, s)
        BY <1>3 DEF TypesInv, QueryOK
    <2>2. \A x \in Reads(s.gen) :
              \E i \in 1 .. (pos + 1) - 1 : query[i].kind = "let" /\ query[i].var = x
        BY <1>3 DEF TypesInv, QueryOK
    <2>3. Reads(s.gen) \subseteq Bound(pos)
        BY <1>3, <2>2 DEF Bound
    <2>4. Bound(pos) \subseteq DOMAIN env
        BY <1>1 DEF TypesInv, RunOK
    <2> QED
        BY <2>1, <2>3, <2>4
<1>7. VarsConform /\ Bound(pos) \subseteq DOMAIN env
    BY <1>1 DEF TypesInv, RunOK
<1>8. PICK nl, vl : Described(db, nl, vl) /\ VarsTyped(nl, vl, scope, env)
    BY <1>1 DEF TypesInv, RunOK
<1>9. Bound(pos)' \subseteq Bound(pos) \cup (IF s.kind = "let" THEN {s.var} ELSE {})
    <2> SUFFICES ASSUME NEW i \in 1 .. pos + 1, query[i].kind = "let", i \notin 1 .. pos
                 PROVE  s.kind = "let" /\ query[i].var = s.var
        BY <1>1, <1>2 DEF Bound
    <2>1. i = pos + 1
        BY <1>3
    <2> QED
        BY <2>1
<1> HIDE DEF s
<1>10. RunOK'
    <2>1. CASE ~ r.ok
        <3>1. phase' = "failed" /\ env' = env
            BY <1>2, <2>1
        <3> QED
            BY <1>1, <1>7, <3>1 DEF RunOK, VarsConform
    <2>2. CASE r.ok /\ s.kind = "drop"
        <3>1. db' = r.graph /\ env' = env /\ phase' \in {"committed", "run"}
            BY <1>2, <2>2 DEF Bind
        <3>2. PICK kind, label : Yields(scope, s.gen, kind, label)
            BY <1>6, <2>2 DEF StatementTyped
        <3>3. Typed(nl, vl, kind, label, Yielded(db, env, s.gen))
            BY <1>5, <1>6, <1>8, <3>2, YieldedTyped
        <3> DEFINE d == DropTraversal(db, Yielded(db, env, s.gen))
        <3>4. IsSort(kind, label)
            BY <3>2 DEF Yields
        <3>5. Described(d.graph, nl, vl)
            BY <1>8, <3>3, <3>4, DropDescribed
        <3>6. r.graph = d.graph
            <4>1. r = [ok |-> d.ok, graph |-> d.graph, value |-> Items(<<>>)]
                BY <2>2 DEF RunStatement
            <4> HIDE DEF d
            <4> QED
                BY <4>1
        <3>7. Bound(pos)' \subseteq DOMAIN env'
            BY <1>7, <1>9, <2>2, <3>1
        <3>8. Described(db', nl, vl) /\ VarsTyped(nl, vl, scope', env')
            <4> HIDE DEF d
            <4> QED
                BY <1>1, <1>8, <3>1, <3>5, <3>6
        <3>9. VarsConform'
            BY <1>1, <1>7, <3>1 DEF VarsConform
        <3> QED
            BY <3>1, <3>7, <3>8, <3>9 DEF RunOK
    <2>3. CASE r.ok /\ s.kind # "drop"
        <3> DEFINE x == s.var
                   v == r.value
        <3>1. /\ db' = r.graph /\ phase' \in {"committed", "run"}
              /\ env' = [y \in DOMAIN env \cup {x} |-> IF y = x THEN v ELSE env[y]]
            BY <1>2, <2>3 DEF Bind
        <3>2. /\ s.kind = "let" /\ x \in DOMAIN scope
              /\ GenTyped(scope, s.gen, scope[x].ty) /\ SingleAgrees(s.gen, scope[x])
            BY <1>6, <2>3 DEF StatementTyped
        <3>3. r = RunTraversal(db, env, s.gen)
            BY <3>2 DEF RunStatement
        <3> HIDE DEF r, v, x
        <3>4. BindsTyped(db, nl, vl, r, scope[x])
            BY <1>5, <1>6, <1>8, <2>3, <3>2, <3>3, LetBinds
        <3>5. PICK new : /\ Grown(nl, new) /\ Described(r.graph, new, vl)
                         /\ Conforms(v, scope[x]) /\ ValueTyped(new, vl, v, scope[x].ty)
            BY <3>4 DEF BindsTyped, v
        <3>6. VarsTyped(new, vl, scope, env)
            BY <1>8, <3>5, GrownVars
        <3>7. VarsTyped(new, vl, scope', env')
            BY <1>1, <3>1, <3>2, <3>5, <3>6 DEF VarsTyped
        <3>8. VarsConform'
            BY <1>1, <1>7, <3>1, <3>2, <3>5 DEF VarsConform
        <3>9. Bound(pos)' \subseteq DOMAIN env'
            BY <1>7, <1>9, <3>1, <3>2 DEF x
        <3>10. Described(db', new, vl)
            BY <3>1, <3>5
        <3> QED
            BY <3>1, <3>7, <3>8, <3>9, <3>10 DEF RunOK
    <2> QED
        BY <2>1, <2>2, <2>3
<1> QED
    BY <1>4, <1>10 DEF TypesInv

-----------------------------------------------------------------------------

(* Nothing is typed yet.                                                    *)
LEMMA InitTInv == Init => TInv
<1> SUFFICES ASSUME Init PROVE TypesInv
    BY DEF TInv
<1>1. DOMAIN scope = {} /\ DOMAIN query = {} /\ cur_ty = NoType /\ DOMAIN env = {}
      /\ phase = "compile"
    BY DEF Init, NoVars
<1> QED
    BY <1>1 DEF TypesInv, ScopeOK, GenOK, QueryOK, RunOK, VarsConform

(* Gaps are never taken back.                                                *)
LEMMA GapsStay == [Next]_vars /\ gaps' = {} => gaps = {}
<1> SUFFICES ASSUME [Next]_vars, gaps' = {} PROVE gaps = {}
    OBVIOUS
<1>1. CASE StartStep
    BY <1>1 DEF StartStep, StartNodes, StartNodeByIndex, StartNodeByID, StartEdges,
                StartVectors, StartIdentifier, Source, Begin
<1>2. CASE GraphStep
    BY <1>2 DEF GraphStep, StepOutE, StepInE, StepOut, StepIn, StepFromN, StepToN,
                StepFromV, StepToV, EdgeEnd, Extend
<1>3. CASE UtilStep
    BY <1>3 DEF UtilStep, StepWhere, StepRange, StepCount, StepAggregate, StepGroupBy,
                Extend, Grouping
<1>4. CASE LastStep
    BY <1>4 DEF LastStep, StepFirst, StepUpdate, StepUpsertN
<1>5. CASE Assignment \/ DropStatement
    BY <1>5 DEF Assignment, DropStatement
<1>6. CASE Deploy \/ Execute
    BY <1>6 DEF Deploy, Execute
<1>7. CASE UNCHANGED vars
    BY <1>7 DEF vars
<1> QED
    BY <1>1, <1>2, <1>3, <1>4, <1>5, <1>6, <1>7 DEF Next

(* Every step keeps the invariant.                                          *)
LEMMA TInvStep == IInv /\ TInv /\ [Next]_vars => TInv'
<1> SUFFICES ASSUME IInv, TInv, [Next]_vars, gaps' = {} PROVE TypesInv'
    BY DEF TInv
<1>1. TypesInv
    BY GapsStay DEF TInv
<1>2. CASE UNCHANGED vars
    <2>1. UNCHANGED <<scope, query, running, gen, cur_ty, closed>>
        BY <1>2 DEF vars, analysis
    <2>2. GenOK'
        BY <1>1, <2>1 DEF TypesInv, GenOK
    <2> QED
        BY <1>1, <2>1, <2>2, AnalysisTyped
<1>3. CASE Next
    BY <1>1, <1>3, StartTyped, GraphStepTyped, UtilStepTyped, LastStepTyped, AssignmentTyped,
       DropStatementTyped, DeployTyped, ExecuteTyped DEF Next
<1> QED
    BY <1>2, <1>3

(* The invariant says what the theorem does.                                *)
LEMMA TInvSound == TInv => TypeSound
    BY DEF TInv, TypesInv, RunOK, VarsConform, TypeSound

(* Type soundness: whatever the schema, the graph and the query, and however *)
(* many statements and steps it has, a variable of the running query holds   *)
(* what the analyzer typed it as, one item or many, of the label, unless the *)
(* query met one of the constructs of gaps.                                  *)
THEOREM TypesAreSound == Spec => []TypeSound
<1>1. Init => IInv /\ TInv
    BY InitIInv, InitTInv
<1>2. IInv /\ TInv /\ [Next]_vars => (IInv /\ TInv)'
    BY IInvStep, TInvStep
<1>3. TInv => TypeSound
    BY TInvSound
<1> QED
    BY <1>1, <1>2, <1>3, PTL DEF Spec

-----------------------------------------------------------------------------
(* The places of numbers in the order of a finite set of them.               *)

LEMMA PlaceNumber ==
    ASSUME NEW S \in SUBSET Nat, IsFiniteSet(S), NEW p \in 1 .. Cardinality(S)
    PROVE  /\ Place(S, p) \in S
           /\ Cardinality(Below(S, Place(S, p))) = p - 1
<1>1. Cardinality(S) \in Nat
    BY FS_CardinalityType
<1>2. p - 1 \in Nat /\ p - 1 < Cardinality(S)
    BY <1>1
<1>3. PICK i \in S : Cardinality(Below(S, i)) = p - 1
    BY <1>2, PlaceExists
<1> QED
    BY <1>3 DEF Place, Below

(* How many numbers of a finite set are below one of them: fewer than all,  *)
(* and more the larger it is.                                               *)
LEMMA BelowSize ==
    ASSUME NEW S \in SUBSET Nat, IsFiniteSet(S), NEW i \in S
    PROVE  /\ Cardinality(Below(S, i)) \in Nat
           /\ Cardinality(Below(S, i)) < Cardinality(S)
           /\ \A j \in S : i < j => Cardinality(Below(S, i)) < Cardinality(Below(S, j))
<1>1. ASSUME NEW U \in SUBSET S, Below(S, i) \subseteq U, i \in U
      PROVE  /\ Cardinality(Below(S, i)) \in Nat
             /\ Cardinality(Below(S, i)) < Cardinality(U)
    <2>1. IsFiniteSet(U) /\ IsFiniteSet(Below(S, i))
        BY <1>1, FS_Subset
    <2>2. Cardinality(Below(S, i)) \in Nat /\ Cardinality(U) \in Nat
        BY <2>1, FS_CardinalityType
    <2>3. Cardinality(Below(S, i)) <= Cardinality(U)
        BY <1>1, <2>1, FS_Subset
    <2>4. i \notin Below(S, i)
        BY DEF Below
    <2>5. Cardinality(Below(S, i)) # Cardinality(U)
        BY <1>1, <2>1, <2>4, FS_Subset
    <2> QED
        BY <2>2, <2>3, <2>5
<1>2. ASSUME NEW j \in S, i < j
      PROVE  Cardinality(Below(S, i)) < Cardinality(Below(S, j))
    <2>1. \A k \in S : k < i => k < j
        <3> SUFFICES ASSUME NEW k \in S, k < i PROVE k < j
            OBVIOUS
        <3>1. k \in Nat /\ i \in Nat /\ j \in Nat
            OBVIOUS
        <3> QED
            BY <1>2, <3>1
    <2>2. Below(S, j) \in SUBSET S /\ Below(S, i) \subseteq Below(S, j) /\ i \in Below(S, j)
        BY <1>2, <2>1 DEF Below
    <2> QED
        BY <1>1, <2>2
<1>3. S \in SUBSET S /\ Below(S, i) \subseteq S
    BY DEF Below
<1> QED
    BY <1>1, <1>2, <1>3

(* The only number with p - 1 of the set below it is the one in place p.    *)
LEMMA PlaceUnique ==
    ASSUME NEW S \in SUBSET Nat, IsFiniteSet(S), NEW i \in S, NEW p \in 1 .. Cardinality(S),
           Cardinality(Below(S, i)) = p - 1
    PROVE  Place(S, p) = i
<1> DEFINE j == Place(S, p)
<1>1. j \in S /\ Cardinality(Below(S, j)) = p - 1
    BY PlaceNumber
<1> HIDE DEF j
<1>2. ~ (i < j)
    BY <1>1, BelowSize
<1>3. ~ (j < i)
    BY <1>1, BelowSize
<1>4. j = i
    BY <1>1, <1>2, <1>3
<1> QED
    BY <1>4 DEF j

(* A later place holds a larger number.                                     *)
LEMMA PlaceOrder ==
    ASSUME NEW S \in SUBSET Nat, IsFiniteSet(S), NEW p \in 1 .. Cardinality(S),
           NEW q \in 1 .. Cardinality(S), p < q
    PROVE  Place(S, p) < Place(S, q)
<1> DEFINE i == Place(S, p)
           j == Place(S, q)
<1>1. /\ i \in S /\ Cardinality(Below(S, i)) = p - 1
      /\ j \in S /\ Cardinality(Below(S, j)) = q - 1
    BY PlaceNumber
<1> HIDE DEF i, j
<1>2. Cardinality(S) \in Nat
    BY FS_CardinalityType
<1>3. ~ (j < i)
    BY <1>1, <1>2, BelowSize
<1>4. i # j
    BY <1>1, <1>2
<1>5. i < j
    BY <1>1, <1>3, <1>4
<1> QED
    BY <1>5 DEF i, j

(* Every number of the set has a place.                                     *)
LEMMA PlaceAll ==
    ASSUME NEW S \in SUBSET Nat, IsFiniteSet(S), NEW i \in S
    PROVE  \E p \in 1 .. Cardinality(S) : Place(S, p) = i
<1> DEFINE p == Cardinality(Below(S, i)) + 1
<1>1. p \in 1 .. Cardinality(S) /\ Cardinality(Below(S, i)) = p - 1
    BY BelowSize, FS_CardinalityType
<1> HIDE DEF p
<1> QED
    BY <1>1, PlaceUnique

(* Positions of a list are finitely many numbers.                           *)
LEMMA PartOfRange ==
    ASSUME NEW n \in Nat, NEW K \in SUBSET (1 .. n)
    PROVE  IsFiniteSet(K) /\ K \in SUBSET Nat
<1> DEFINE R == 1 .. n
<1>1. IsFiniteSet(R)
    BY FS_Interval
<1>2. R \subseteq Nat /\ K \in SUBSET R
    OBVIOUS
<1> HIDE DEF R
<1>3. IsFiniteSet(K)
    BY <1>1, <1>2, FS_Subset
<1> QED
    BY <1>2, <1>3

(* The places of some places.                                                *)
LEMMA PlaceOfPlaces ==
    ASSUME NEW S \in SUBSET Nat, IsFiniteSet(S), NEW K \in SUBSET (1 .. Cardinality(S)),
           NEW T, \A i : i \in T <=> \E p \in K : Place(S, p) = i
    PROVE  /\ T \in SUBSET S /\ Cardinality(T) = Cardinality(K)
           /\ \A q \in 1 .. Cardinality(K) : Place(T, q) = Place(S, Place(K, q))
<1>1. Cardinality(S) \in Nat
    BY FS_CardinalityType
<1>2. IsFiniteSet(K) /\ K \in SUBSET Nat
    BY <1>1, PartOfRange
<1>3. \A p \in K : Place(S, p) \in S
    BY PlaceNumber
<1>4. T \in SUBSET S /\ IsFiniteSet(T) /\ T \in SUBSET Nat
    <2>1. T \in SUBSET S
        BY <1>3
    <2> QED
        BY <2>1, FS_Subset
<1>5. ASSUME NEW L \in SUBSET K
      PROVE  Cardinality({Place(S, p) : p \in L}) = Cardinality(L)
    <2> DEFINE U == {Place(S, p) : p \in L}
               f == [p \in L |-> Place(S, p)]
    <2>1. f \in [L -> U] /\ \A t \in U : \E p \in L : f[p] = t
        OBVIOUS
    <2>2. \A p, q \in L : f[p] = f[q] => p = q
        <3> SUFFICES ASSUME NEW p \in L, NEW q \in L, Place(S, p) = Place(S, q), p # q
                     PROVE  FALSE
            OBVIOUS
        <3>1. p \in 1 .. Cardinality(S) /\ q \in 1 .. Cardinality(S)
            OBVIOUS
        <3>2. Place(S, p) \in Nat
            BY <1>3
        <3>3. p < q \/ q < p
            BY <3>1
        <3> QED
            BY <3>1, <3>2, <3>3, PlaceOrder
    <2> HIDE DEF f, U
    <2>3. f \in Bijection(L, U)
        BY <2>1, <2>2, Fun_IsBij
    <2>4. ExistsBijection(L, U)
        BY <2>3 DEF ExistsBijection
    <2>5. IsFiniteSet(L)
        BY <1>2, FS_Subset
    <2> QED
        BY <2>4, <2>5, FS_Bijection DEF U
<1>6. Cardinality(T) = Cardinality(K)
    BY <1>5
<1>7. ASSUME NEW q \in 1 .. Cardinality(K)
      PROVE  Place(T, q) = Place(S, Place(K, q))
    <2> DEFINE k == Place(K, q)
    <2>1. k \in K /\ Cardinality(Below(K, k)) = q - 1
        BY <1>2, PlaceNumber
    <2> HIDE DEF k
    <2>2. Below(T, Place(S, k)) = {Place(S, p) : p \in Below(K, k)}
        <3>1. ASSUME NEW p \in K PROVE Place(S, p) < Place(S, k) <=> p < k
            <4>1. Place(S, p) \in Nat /\ Place(S, k) \in Nat
                BY <1>3, <2>1
            <4>2. p \in 1 .. Cardinality(S) /\ k \in 1 .. Cardinality(S)
                BY <2>1
            <4>3. p < k => Place(S, p) < Place(S, k)
                BY <4>2, PlaceOrder
            <4>4. k < p => Place(S, k) < Place(S, p)
                BY <4>2, PlaceOrder
            <4>5. p < k \/ p = k \/ k < p
                BY <4>2
            <4> QED
                BY <4>1, <4>3, <4>4, <4>5
        <3> QED
            BY <3>1 DEF Below
    <2>3. Cardinality(Below(T, Place(S, k))) = q - 1
        <3>1. Below(K, k) \in SUBSET K
            BY DEF Below
        <3> QED
            BY <1>5, <2>1, <2>2, <3>1
    <2>4. Place(S, k) \in T /\ q \in 1 .. Cardinality(T)
        BY <1>6, <2>1
    <2> QED
        BY <1>4, <2>3, <2>4, PlaceUnique DEF k
<1> QED
    BY <1>4, <1>6, <1>7

-----------------------------------------------------------------------------
(* A list made in the order of some numbers, and a filter of it.             *)
Listed(s, S, read) == s = [p \in 1 .. Cardinality(S) |-> read[Place(S, p)]]

(* A filter of a list made in the order of some numbers is one in the order *)
(* of those that are kept.                                                  *)
LEMMA FilteredOrder ==
    ASSUME NEW S \in SUBSET Nat, IsFiniteSet(S), NEW read, NEW s, Listed(s, S, read),
           NEW K \in SUBSET (1 .. Cardinality(S)),
           NEW T \in SUBSET S, \A p \in 1 .. Cardinality(S) : p \in K <=> Place(S, p) \in T,
           NEW r, Listed(r, K, s)
    PROVE  Listed(r, T, read)
<1>1. \A i : i \in T <=> \E p \in K : Place(S, p) = i
    <2>1. \A i \in T : \E p \in 1 .. Cardinality(S) : Place(S, p) = i
        BY PlaceAll
    <2> QED
        BY <2>1
<1>2. /\ Cardinality(T) = Cardinality(K)
      /\ \A q \in 1 .. Cardinality(K) : Place(T, q) = Place(S, Place(K, q))
    BY <1>1, PlaceOfPlaces
<1>3. \A q \in 1 .. Cardinality(K) : Place(K, q) \in K
    <2>1. IsFiniteSet(K) /\ K \in SUBSET Nat
        BY FS_CardinalityType, PartOfRange
    <2> QED
        BY <2>1, PlaceNumber
<1>4. \A q \in 1 .. Cardinality(K) : s[Place(K, q)] = read[Place(T, q)]
    BY <1>2, <1>3 DEF Listed
<1> QED
    BY <1>2, <1>4 DEF Listed

Passed(g, items, t) ==
    {k \in DOMAIN items : items[k].kind # "error" /\ Passes(g, t, items[k])}

(* WHERE lists the items that pass in the order they came in.               *)
LEMMA WhereList ==
    ASSUME NEW g, NEW items, NEW t
    PROVE  Listed(Where(g, items, t), Passed(g, items, t), items)
<1> DEFINE F == Passed(g, items, t)
<1>1. Where(g, items, t) = [p \in 1 .. Cardinality(F) |-> items[Place(F, p)]]
    BY DEF Where, FilterRef, Passing, InOrder, Place, Passed
<1> HIDE DEF F
<1>2. Listed(Where(g, items, t), F, items)
    BY <1>1 DEF Listed
<1> QED
    BY <1>2 DEF F

(* Two filters pass the same items in either order.                          *)
LEMMA WhereWhere ==
    ASSUME NEW g, NEW items, IsList(items), NEW t, NEW u
    PROVE  Listed(Where(g, Where(g, items, t), u),
                  Passed(g, items, t) \cap Passed(g, items, u), items)
<1> DEFINE S == Passed(g, items, t)
           F == Passed(g, items, t) \cap Passed(g, items, u)
           s == Where(g, items, t)
           K == Passed(g, s, u)
<1>1. DOMAIN items \in SUBSET Nat /\ IsFiniteSet(DOMAIN items)
    BY ListFacts
<1>2. S \in SUBSET Nat /\ IsFiniteSet(S)
    <2>1. S \in SUBSET DOMAIN items
        BY DEF Passed
    <2> QED
        BY <1>1, <2>1, FS_Subset
<1>3. Listed(s, S, items)
    BY WhereList
<1>4. Listed(Where(g, s, u), K, s)
    BY WhereList
<1>5. \A p \in 1 .. Cardinality(S) : Place(S, p) \in S
    BY <1>2, PlaceNumber
<1>6. DOMAIN s = 1 .. Cardinality(S) /\ \A p \in 1 .. Cardinality(S) : s[p] = items[Place(S, p)]
    BY <1>3 DEF Listed
<1>7. K \in SUBSET (1 .. Cardinality(S)) /\ F \in SUBSET S
    BY <1>6 DEF Passed
<1>8. \A p \in 1 .. Cardinality(S) : p \in K <=> Place(S, p) \in F
    BY <1>5, <1>6 DEF Passed
<1> HIDE DEF S, s, K, F
<1>9. Listed(Where(g, s, u), F, items)
    BY <1>2, <1>3, <1>4, <1>7, <1>8, FilteredOrder
<1> QED
    BY <1>9 DEF F, s

(* Two filters may change places: an index lookup that became a filter runs *)
(* first or last.                                                           *)
LEMMA WhereCommutes ==
    ASSUME NEW g, NEW items, IsList(items), NEW t, NEW u
    PROVE  Where(g, Where(g, items, t), u) = Where(g, Where(g, items, u), t)
<1> DEFINE F == Passed(g, items, t) \cap Passed(g, items, u)
<1>1. F = Passed(g, items, u) \cap Passed(g, items, t)
    OBVIOUS
<1>2. Listed(Where(g, Where(g, items, t), u), F, items)
    BY WhereWhere
<1>3. Listed(Where(g, Where(g, items, u), t), Passed(g, items, u) \cap Passed(g, items, t), items)
    BY WhereWhere
<1>4. Listed(Where(g, Where(g, items, u), t), F, items)
    BY <1>1, <1>3
<1> HIDE DEF F
<1> QED
    BY <1>2, <1>4 DEF Listed

(* The tables of a graph hold records, and the edges of the graph lead       *)
(* somewhere.                                                                *)
Whole(g) ==
    /\ g.nodes = [i \in DOMAIN g.nodes |-> g.nodes[i]]
    /\ g.edges = [e \in DOMAIN g.edges |-> g.edges[e]]
    /\ g.vectors = [i \in DOMAIN g.vectors |-> g.vectors[i]]
    /\ \A i \in DOMAIN g.nodes :
          g.nodes[i] = [label |-> g.nodes[i].label, f |-> g.nodes[i].f]
    /\ \A e \in DOMAIN g.edges :
          /\ g.edges[e].from \in DOMAIN g.nodes \cup DOMAIN g.vectors
          /\ g.edges[e].to \in DOMAIN g.nodes \cup DOMAIN g.vectors

(* The lookup by the index finds what the filter would pass.                 *)
LEMMA LookupIsFilter ==
    ASSUME NEW g, NEW nl, NEW vl, Described(g, nl, vl), Whole(g), NEW label,
           NEW t, t.eq # None, t.edge = None
    PROVE  Where(g, NFromType(g, label), t) = NFromIndex(g, label, t.eq)
<1> DEFINE S == {i \in DOMAIN g.nodes : g.nodes[i].label = label}
           T == {i \in DOMAIN g.nodes : g.nodes[i] = [label |-> label, f |-> t.eq]}
           read == [i \in DOMAIN g.nodes |-> NodeItem(g, i)]
           s == NFromType(g, label)
           K == Passed(g, s, t)
<1>1. DOMAIN g.nodes \in SUBSET Nat /\ IsFiniteSet(DOMAIN g.nodes)
    BY DEF Described, Ids_
<1>2. /\ S \in SUBSET Nat /\ IsFiniteSet(S) /\ S \in SUBSET DOMAIN g.nodes
      /\ T \in SUBSET S /\ T \in SUBSET Nat /\ IsFiniteSet(T)
    <2>1. S \in SUBSET DOMAIN g.nodes /\ T \in SUBSET DOMAIN g.nodes /\ T \in SUBSET S
        OBVIOUS
    <2> QED
        BY <1>1, <2>1, FS_Subset
<1>3. \A p \in 1 .. Cardinality(S) : Place(S, p) \in S
    BY <1>2, PlaceNumber
<1>4. \A p \in 1 .. Cardinality(T) : Place(T, p) \in T
    BY <1>2, PlaceNumber
<1>5. Listed(s, S, read)
    <2>1. s = [p \in 1 .. Cardinality(S) |-> NodeItem(g, Place(S, p))]
        BY DEF NFromType, InOrder, Place
    <2> HIDE DEF s, S
    <2> QED
        BY <1>2, <1>3, <2>1 DEF Listed
<1>6. Listed(NFromIndex(g, label, t.eq), T, read)
    <2>1. NFromIndex(g, label, t.eq) = [p \in 1 .. Cardinality(T) |-> NodeItem(g, Place(T, p))]
        BY DEF NFromIndex, InOrder, Place
    <2>2. T \in SUBSET DOMAIN g.nodes
        OBVIOUS
    <2> HIDE DEF T
    <2> QED
        BY <1>4, <2>1, <2>2 DEF Listed
<1>7. \A i \in S : /\ read[i].kind # "error" /\ read[i].f = g.nodes[i].f
                   /\ i \in T <=> g.nodes[i].f = t.eq
    <2> SUFFICES ASSUME NEW i \in S
                 PROVE  /\ read[i].kind # "error" /\ read[i].f = g.nodes[i].f
                        /\ i \in T <=> g.nodes[i].f = t.eq
        OBVIOUS
    <2>1. i \in DOMAIN g.nodes /\ g.nodes[i].label = label
        OBVIOUS
    <2>2. g.nodes[i] = [label |-> label, f |-> g.nodes[i].f]
        BY <2>1 DEF Whole
    <2>3. i \in T <=> g.nodes[i].f = t.eq
        BY <2>1, <2>2
    <2>4. read[i] = Item("node", i, g.nodes[i].label, g.nodes[i].f, 0, 0)
        BY <2>1 DEF NodeItem
    <2>5. read[i].kind = "node" /\ read[i].f = g.nodes[i].f
        BY <2>4 DEF Item
    <2> QED
        BY <2>3, <2>5
<1> HIDE DEF S, T, s, read
<1>8. DOMAIN s = 1 .. Cardinality(S) /\ \A p \in 1 .. Cardinality(S) : s[p] = read[Place(S, p)]
    BY <1>5 DEF Listed
<1>9. K \in SUBSET (1 .. Cardinality(S))
    BY <1>8 DEF Passed
<1>10. \A p \in 1 .. Cardinality(S) : p \in K <=> Place(S, p) \in T
    BY <1>3, <1>7, <1>8 DEF Passed, Passes
<1>11. Listed(Where(g, s, t), K, s)
    BY WhereList
<1> HIDE DEF K
<1>12. Listed(Where(g, s, t), T, read)
    BY <1>2, <1>5, <1>9, <1>10, <1>11, FilteredOrder
<1> QED
    BY <1>6, <1>12 DEF s, Listed

(* Where there is no error nothing is skipped.                               *)
LEMMA ReadableAll ==
    ASSUME NEW items, IsList(items), \A k \in DOMAIN items : items[k].kind # "error"
    PROVE  Readable(items) = items
<1> DEFINE n == Len(items)
           S == 1 .. n
<1>1. n \in Nat /\ DOMAIN items = S /\ items = [k \in S |-> items[k]]
      /\ IsFiniteSet(S) /\ S \in SUBSET Nat
    BY ListFacts
<1>2. Readable(items) = [p \in 1 .. Cardinality(S) |-> items[Place(S, p)]]
    <2> DEFINE R == {k \in DOMAIN items : items[k].kind # "error"}
    <2>1. Readable(items) = [p \in 1 .. Cardinality(R) |-> items[Place(R, p)]]
        BY DEF Readable, Passing, InOrder, Place
    <2>2. R = S
        BY <1>1
    <2> QED
        BY <2>1, <2>2
<1> HIDE DEF n
<1>3. Cardinality(S) = n
    BY <1>1, FS_Interval
<1>4. ASSUME NEW p \in S PROVE Place(S, p) = p
    <2>1. Below(S, p) = 1 .. p - 1
        BY <1>1 DEF Below
    <2>2. Cardinality(1 .. p - 1) = p - 1
        <3>1. p - 1 \in Nat /\ 1 \in Int /\ p - 1 \in Int
            BY <1>1
        <3>2. Cardinality(1 .. p - 1) = IF 1 > p - 1 THEN 0 ELSE (p - 1) - 1 + 1
            BY <3>1, FS_Interval
        <3> QED
            BY <3>1, <3>2
    <2> QED
        BY <1>1, <1>3, <2>1, <2>2, PlaceUnique
<1> QED
    BY <1>1, <1>2, <1>3, <1>4

-----------------------------------------------------------------------------
(* The meaning of a traversal, step by step.                                 *)

Followed(g, items, steps, n, f) ==
    f = [i \in 0 .. n |-> IF i = 0 THEN items ELSE MeansStep(g, f[i - 1], steps[i])]

(* The meanings of the first steps of a traversal form a function.          *)
LEMMA FollowedExists ==
    ASSUME NEW g, NEW items, NEW steps, NEW n \in Nat
    PROVE  \E f : Followed(g, items, steps, n, f)
<1> DEFINE Bad == {m \in Nat : ~ \E f : Followed(g, items, steps, m, f)}
<1>1. ASSUME Bad # {} PROVE FALSE
    <2>1. PICK m \in Bad : \A k \in Bad : m <= k
        <3>1. Bad \in SUBSET Nat
            OBVIOUS
        <3> HIDE DEF Bad
        <3> QED
            BY <1>1, <3>1, LeastNumber
    <2>2. m \in Nat /\ ~ \E f : Followed(g, items, steps, m, f)
        BY <2>1
    <2>3. m # 0
        <3> DEFINE z == [i \in 0 .. 0 |-> items]
        <3>1. Followed(g, items, steps, 0, z)
            BY DEF Followed
        <3> QED
            BY <2>2, <3>1
    <2>4. m - 1 \in Nat /\ ~ (m <= m - 1)
        BY <2>2, <2>3
    <2>5. m - 1 \notin Bad
        <3> HIDE DEF Bad
        <3> QED
            BY <2>1, <2>4
    <2>6. PICK f : Followed(g, items, steps, m - 1, f)
        BY <2>4, <2>5
    <2> DEFINE h == [i \in 0 .. m |-> IF i = 0 THEN items ELSE MeansStep(g, f[i - 1], steps[i])]
    <2>7. ASSUME NEW i \in 0 .. m - 1 PROVE h[i] = f[i]
        <3>1. f[i] = IF i = 0 THEN items ELSE MeansStep(g, f[i - 1], steps[i])
            BY <2>6 DEF Followed
        <3> QED
            BY <2>2, <3>1
    <2>8. ASSUME NEW i \in 0 .. m, i # 0 PROVE h[i - 1] = f[i - 1]
        <3>1. i - 1 \in 0 .. m - 1
            BY <2>2, <2>8
        <3> HIDE DEF h
        <3> QED
            BY <3>1, <2>7
    <2>9. Followed(g, items, steps, m, h)
        <3>1. h = [i \in 0 .. m |-> IF i = 0 THEN items ELSE MeansStep(g, h[i - 1], steps[i])]
            BY <2>8
        <3> HIDE DEF h
        <3> QED
            BY <3>1 DEF Followed
    <2> QED
        BY <2>2, <2>9
<1> QED
    BY <1>1

(* The fold that gives a traversal its meaning ends where that function     *)
(* does.                                                                    *)
LEMMA MeantFollowed ==
    ASSUME NEW g, NEW vs, NEW w, Len(w.steps) \in Nat,
           NEW items, items = MeansFetch(g, vs, w.start), NEW steps, steps = w.steps
    PROVE  \E f : Followed(g, items, steps, Len(steps), f) /\ Meant(g, vs, w) = f[Len(steps)]
<1> DEFINE f == CHOOSE f : Followed(g, items, steps, Len(steps), f)
<1>1. Followed(g, items, steps, Len(steps), f)
    BY FollowedExists
<1>2. Meant(g, vs, w) = f[Len(steps)]
    BY DEF Meant, Followed
<1> QED
    BY <1>1, <1>2

(* A traversal without steps means what its source does.                    *)
LEMMA MeantNothing ==
    ASSUME NEW g, NEW vs, NEW w, w.steps = <<>>
    PROVE  Meant(g, vs, w) = MeansFetch(g, vs, w.start)
<1> DEFINE items == MeansFetch(g, vs, w.start)
<1>1. Len(<<>>) = 0 /\ Len(w.steps) = 0
    OBVIOUS
<1> HIDE DEF items
<1>2. PICK f : Followed(g, items, w.steps, Len(w.steps), f) /\ Meant(g, vs, w) = f[Len(w.steps)]
    BY <1>1, MeantFollowed DEF items
<1> QED
    BY <1>1, <1>2 DEF Followed, items

(* One more step means one more application of what it means.               *)
LEMMA MeantOneMore ==
    ASSUME NEW g, NEW vs, NEW w, IsList(w.steps), NEW st,
           NEW x, x.start = w.start, x.steps = Append(w.steps, st)
    PROVE  Meant(g, vs, x) = MeansStep(g, Meant(g, vs, w), st)
<1> DEFINE steps == w.steps
           items == MeansFetch(g, vs, w.start)
           n == Len(steps)
           more == Append(steps, st)
<1>1. n \in Nat /\ Len(more) = n + 1 /\ more[n + 1] = st /\ \A i \in 1 .. n : more[i] = steps[i]
    <2>1. steps \in Seq(Entries(steps) \cup {st}) /\ st \in Entries(steps) \cup {st}
        <3>1. Entries(steps) \subseteq Entries(steps) \cup {st}
            OBVIOUS
        <3>2. Seq(Entries(steps)) \subseteq Seq(Entries(steps) \cup {st})
            BY <3>1
        <3> QED
            BY <3>2 DEF IsList
    <2> QED
        BY <2>1, AppendProperties
<1> HIDE DEF n, more, steps, items
<1>2. PICK f : Followed(g, items, steps, n, f) /\ Meant(g, vs, w) = f[n]
    BY <1>1, MeantFollowed DEF n, steps, items
<1>3. PICK h : Followed(g, items, more, n + 1, h) /\ Meant(g, vs, x) = h[n + 1]
    <2>1. x.steps = more /\ items = MeansFetch(g, vs, x.start)
        BY DEF more, steps, items
    <2>2. Len(x.steps) \in Nat /\ Len(more) = n + 1
        BY <1>1, <2>1
    <2>3. \E h : Followed(g, items, more, Len(more), h) /\ Meant(g, vs, x) = h[Len(more)]
        BY <2>1, <2>2, MeantFollowed
    <2> QED
        BY <2>2, <2>3
<1> DEFINE Bad == {i \in 0 .. n : h[i] # f[i]}
<1>4. ASSUME Bad # {} PROVE FALSE
    <2>1. PICK i \in Bad : \A j \in Bad : i <= j
        <3>1. Bad \in SUBSET Nat
            BY <1>1
        <3> HIDE DEF Bad
        <3> QED
            BY <1>4, <3>1, LeastNumber
    <2>2. i \in 0 .. n /\ h[i] # f[i]
        BY <2>1
    <2>3. f[i] = IF i = 0 THEN items ELSE MeansStep(g, f[i - 1], steps[i])
        BY <1>2, <2>2 DEF Followed
    <2>4. h[i] = IF i = 0 THEN items ELSE MeansStep(g, h[i - 1], more[i])
        <3>1. i \in 0 .. n + 1
            BY <1>1, <2>2
        <3> QED
            BY <1>3, <3>1 DEF Followed
    <2>5. i # 0
        BY <2>2, <2>3, <2>4
    <2>6. i - 1 \in 0 .. n /\ ~ (i <= i - 1) /\ i \in 1 .. n
        BY <1>1, <2>2, <2>5
    <2>7. i - 1 \notin Bad
        <3> HIDE DEF Bad
        <3> QED
            BY <2>1, <2>6
    <2>8. h[i - 1] = f[i - 1] /\ more[i] = steps[i]
        BY <1>1, <2>6, <2>7
    <2> QED
        BY <2>2, <2>3, <2>4, <2>8
<1>5. h[n] = f[n]
    BY <1>1, <1>4
<1>6. h[n + 1] = MeansStep(g, h[n], st)
    <2>1. n + 1 \in 0 .. n + 1 /\ n + 1 # 0 /\ (n + 1) - 1 = n
        BY <1>1
    <2>2. h[n + 1] = MeansStep(g, h[(n + 1) - 1], more[n + 1])
        BY <1>3, <2>1 DEF Followed
    <2> QED
        BY <1>1, <2>1, <2>2
<1> QED
    BY <1>2, <1>3, <1>5, <1>6

-----------------------------------------------------------------------------
(* The end of an edge is what its label says, and there in a whole graph.    *)
LEMMA EndIsItem ==
    ASSUME NEW g, NEW nl, NEW vl, Described(g, nl, vl), NEW label, NEW i,
           Goes(nl, vl, i, label)
    PROVE  /\ EndItem(g, i) = End(g, i, EdgeTypeOf(label))
           /\ i \in DOMAIN g.nodes \cup DOMAIN g.vectors =>
                  EndItem(g, i).kind # "error"
           /\ EdgeTypeOf(label) = "vector" /\ i \in DOMAIN g.nodes \cup DOMAIN g.vectors =>
                  i \in DOMAIN g.vectors
           /\ i \in DOMAIN g.vectors => EndItem(g, i).kind # "error"
<1>1. i \in Nat /\ (nl[i] = None \/ vl[i] = None)
    BY DEF Described, Goes
<1>2. /\ i \in DOMAIN g.nodes => nl[i] \in NodeTypes
      /\ i \in DOMAIN g.vectors => vl[i] \in VectorTypes
    BY DEF Described
<1>3. ~ (i \in DOMAIN g.nodes /\ i \in DOMAIN g.vectors)
    BY <1>1, <1>2, SchemaAssumption
<1>4. /\ i \in DOMAIN g.nodes => EndItem(g, i) = NodeItem(g, i) /\ NodeItem(g, i).kind = "node"
      /\ i \in DOMAIN g.vectors =>
             EndItem(g, i) = VectorItem(g, i) /\ VectorItem(g, i).kind = "vector"
      /\ i \notin DOMAIN g.nodes => NodeItem(g, i) = ErrItem
      /\ i \notin DOMAIN g.vectors => VectorItem(g, i) = ErrItem
    BY <1>3 DEF EndItem, NodeItem, VectorItem, Item
<1>5. i \notin DOMAIN g.nodes => EndItem(g, i) = VectorItem(g, i)
    BY DEF EndItem
<1>6. CASE label \in NodeTypes
    <2>1. EdgeTypeOf(label) = "node" /\ nl[i] = label
        BY <1>6, SchemaAssumption DEF EdgeTypeOf, Goes
    <2>2. i \notin DOMAIN g.vectors
        BY <1>1, <1>2, <1>6, <2>1, SchemaAssumption
    <2>3. End(g, i, EdgeTypeOf(label)) = NodeItem(g, i)
        BY <2>1 DEF End
    <2> QED
        BY <1>4, <1>5, <2>1, <2>2, <2>3
<1>7. CASE label \notin NodeTypes
    <2>1. EdgeTypeOf(label) = "vector" /\ vl[i] = label /\ label \in VectorTypes
        BY <1>7 DEF EdgeTypeOf, Goes
    <2>2. i \notin DOMAIN g.nodes
        BY <1>1, <1>2, <2>1, SchemaAssumption
    <2>3. End(g, i, EdgeTypeOf(label)) = VectorItem(g, i)
        BY <2>1 DEF End
    <2> QED
        BY <1>4, <1>5, <2>1, <2>2, <2>3
<1> QED
    BY <1>6, <1>7

(* Where edges are followed in a whole graph, nothing is skipped.            *)
LEMMA OutMeans ==
    ASSUME NEW g, NEW nl, NEW vl, Described(g, nl, vl), Whole(g), NEW e, NEW items,
           NEW l, l = Ends[e].to, NEW hop, hop = EdgeTypeOf(l)
    PROVE  MeansStep(g, items, Step("Out", e, hop)) = Apply(g, items, Step("Out", e, hop))
<1> DEFINE m == [k \in DOMAIN items |->
                    InOrder(Outgoing(g, items[k].id, e),
                            LAMBDA d : EndItem(g, g.edges[d].to))]
           s == [k \in DOMAIN items |->
                    Readable(InOrder(Outgoing(g, items[k].id, e),
                                     LAMBDA d : End(g, g.edges[d].to, hop)))]
<1>1. ASSUME NEW k \in DOMAIN items
      PROVE  m[k] = s[k]
    <2> DEFINE S == Outgoing(g, items[k].id, e)
               n == Cardinality(S)
               far == [p \in 1 .. n |-> EndItem(g, g.edges[Place(S, p)].to)]
               ends == [p \in 1 .. n |-> End(g, g.edges[Place(S, p)].to, hop)]
    <2>1. S \in SUBSET DOMAIN g.edges /\ DOMAIN g.edges \in Ids_(g)
        BY DEF Ids_, Outgoing
    <2>2. \A d \in S : /\ Goes(nl, vl, g.edges[d].to, l)
                       /\ g.edges[d].to \in DOMAIN g.nodes \cup DOMAIN g.vectors
        BY DEF Outgoing, Described, Whole
    <2>3. \A p \in 1 .. Cardinality(S) : Place(S, p) \in S
        <3> HIDE DEF S
        <3> QED
            BY <2>1, TablePlace
    <2>4. \A p \in 1 .. n : /\ EndItem(g, g.edges[Place(S, p)].to) =
                                   End(g, g.edges[Place(S, p)].to, hop)
                            /\ EndItem(g, g.edges[Place(S, p)].to).kind # "error"
        <3> HIDE DEF S
        <3> QED
            BY <2>2, <2>3, EndIsItem
    <2>5. m[k] = far /\ s[k] = Readable(ends)
        BY DEF InOrder, Place
    <2>6. n \in Nat
        <3>1. IsFiniteSet(DOMAIN g.edges)
            BY DEF Described, Ids_
        <3>2. IsFiniteSet(S)
            BY <2>1, <3>1, FS_Subset
        <3> QED
            BY <3>2, FS_CardinalityType
    <2> HIDE DEF S, n
    <2>7. far = ends
        BY <2>4
    <2>8. IsList(far) /\ DOMAIN far = 1 .. n
        BY <2>6, ListMade
    <2>9. \A p \in DOMAIN far : far[p].kind # "error"
        BY <2>4
    <2> HIDE DEF far, ends, m, s
    <2>10. Readable(far) = far
        BY <2>8, <2>9, ReadableAll
    <2> QED
        BY <2>5, <2>7, <2>10
<1>2. MeansStep(g, items, Step("Out", e, hop)) = FlattenSeq(m)
    BY DEF MeansStep, FlatMap, Step
<1>3. Apply(g, items, Step("Out", e, hop)) = FlattenSeq(s)
    BY DEF Apply, Out, FlatMap, Step
<1>4. m = s
    BY <1>1
<1> QED
    BY <1>2, <1>3, <1>4

(* In means what in_vec and in_node do, by the label of the edge's source.  *)
LEMMA InMeans ==
    ASSUME NEW g, NEW nl, NEW vl, Described(g, nl, vl), Whole(g), NEW e, NEW items,
           NEW l, l = Ends[e].from, NEW hop, hop = EdgeTypeOf(l)
    PROVE  MeansStep(g, items, Step("In", e, hop)) = Apply(g, items, Step("In", e, hop))
<1> DEFINE m == [k \in DOMAIN items |->
                    InOrder(Incoming(g, items[k].id, e),
                            LAMBDA d : EndItem(g, g.edges[d].from))]
           s == [k \in DOMAIN items |->
                    Readable(InOrder(Incoming(g, items[k].id, e),
                                     LAMBDA d : End(g, g.edges[d].from, hop)))]
<1>1. ASSUME NEW k \in DOMAIN items
      PROVE  m[k] = s[k]
    <2> DEFINE S == Incoming(g, items[k].id, e)
               n == Cardinality(S)
               far == [p \in 1 .. n |-> EndItem(g, g.edges[Place(S, p)].from)]
               ends == [p \in 1 .. n |-> End(g, g.edges[Place(S, p)].from, hop)]
    <2>1. S \in SUBSET DOMAIN g.edges /\ DOMAIN g.edges \in Ids_(g)
        BY DEF Ids_, Incoming
    <2>2. \A d \in S : /\ Goes(nl, vl, g.edges[d].from, l)
                       /\ g.edges[d].from \in DOMAIN g.nodes \cup DOMAIN g.vectors
        BY DEF Incoming, Described, Whole
    <2>3. \A p \in 1 .. Cardinality(S) : Place(S, p) \in S
        <3> HIDE DEF S
        <3> QED
            BY <2>1, TablePlace
    <2>4. \A p \in 1 .. n : /\ EndItem(g, g.edges[Place(S, p)].from) =
                                   End(g, g.edges[Place(S, p)].from, hop)
                            /\ EndItem(g, g.edges[Place(S, p)].from).kind # "error"
        <3> HIDE DEF S
        <3> QED
            BY <2>2, <2>3, EndIsItem
    <2>5. m[k] = far /\ s[k] = Readable(ends)
        BY DEF InOrder, Place
    <2>6. n \in Nat
        <3>1. IsFiniteSet(DOMAIN g.edges)
            BY DEF Described, Ids_
        <3>2. IsFiniteSet(S)
            BY <2>1, <3>1, FS_Subset
        <3> QED
            BY <3>2, FS_CardinalityType
    <2> HIDE DEF S, n
    <2>7. far = ends
        BY <2>4
    <2>8. IsList(far) /\ DOMAIN far = 1 .. n
        BY <2>6, ListMade
    <2>9. \A p \in DOMAIN far : far[p].kind # "error"
        BY <2>4
    <2> HIDE DEF far, ends, m, s
    <2>10. Readable(far) = far
        BY <2>8, <2>9, ReadableAll
    <2> QED
        BY <2>5, <2>7, <2>10
<1>2. MeansStep(g, items, Step("In", e, hop)) = FlattenSeq(m)
    BY DEF MeansStep, FlatMap, Step
<1>3. Apply(g, items, Step("In", e, hop)) = FlattenSeq(s)
    BY DEF Apply, In, FlatMap, Step
<1>4. m = s
    BY <1>1
<1> QED
    BY <1>2, <1>3, <1>4

(* FromN, FromV, ToN and ToV mean what they do, by the labels of the ends:  *)
(* from an edge to its vector, if the vector is there.                      *)
LEMMA EndsMean ==
    ASSUME NEW g, NEW nl, NEW vl, Described(g, nl, vl), NEW e, NEW items,
           Typed(nl, vl, "edge", e, items),
           NEW lf, lf = Ends[e].from, NEW lt, lt = Ends[e].to
    PROVE  /\ LET st == Step("From", None, EdgeTypeOf(lf)) IN
              MeansStep(g, items, st) = Apply(g, items, st)
           /\ LET st == Step("To", None, EdgeTypeOf(lt)) IN
              (EdgeTypeOf(lt) = "vector" =>
                  \A it \in Entries(items) : it.kind = "edge" => it.to \in DOMAIN g.vectors)
              => MeansStep(g, items, st) = Apply(g, items, st)
<1> DEFINE hf == EdgeTypeOf(lf)
           ht == EdgeTypeOf(lt)
           es == Edges(items)
           mf == [k \in DOMAIN es |-> EndItem(g, es[k].from)]
           mt == [k \in DOMAIN es |-> EndItem(g, es[k].to)]
           from == [k \in DOMAIN es |-> End(g, es[k].from, hf)]
           to == [k \in DOMAIN es |-> End(g, es[k].to, ht)]
<1>1. IsList(es) /\ Entries(es) \subseteq {it \in Entries(items) : it.kind = "edge"}
    BY PassingIn DEF Typed
<1>2. \A k \in DOMAIN es : Fits(nl, vl, "edge", e, es[k])
    BY <1>1 DEF Typed, MayFit, Entries
<1>3. \A k \in DOMAIN es : Goes(nl, vl, es[k].from, lf) /\ Goes(nl, vl, es[k].to, lt)
    BY <1>2 DEF Fits
<1>4. \A k \in DOMAIN es : mf[k] = from[k] /\ mt[k] = to[k]
    BY <1>3, EndIsItem
<1>5. mf = from /\ mt = to
    BY <1>4
<1>6. IsList(to) /\ DOMAIN to = DOMAIN es
    <2>1. Len(es) \in Nat /\ DOMAIN es = 1 .. Len(es)
        BY <1>1, ListFacts
    <2> QED
        BY <2>1, ListMade
<1>7. ASSUME ht = "vector",
             \A it \in Entries(items) : it.kind = "edge" => it.to \in DOMAIN g.vectors
      PROVE  Readable(to) = to
    <2>1. \A k \in DOMAIN es : es[k] \in Entries(es)
        BY DEF Entries
    <2>2. \A k \in DOMAIN es : es[k].to \in DOMAIN g.vectors
        BY <1>1, <1>7, <2>1
    <2>3. \A k \in DOMAIN es : EndItem(g, es[k].to).kind # "error"
        BY <1>3, <2>2, EndIsItem
    <2>4. \A k \in DOMAIN to : to[k].kind # "error"
        BY <1>4, <1>6, <2>3
    <2> HIDE DEF to
    <2> QED
        BY <1>6, <2>4, ReadableAll
<1>8. \A hop : /\ MeansStep(g, items, Step("From", None, hop)) = mf
               /\ MeansStep(g, items, Step("To", None, hop)) = mt
    BY DEF MeansStep, Step
<1>9. /\ Apply(g, items, Step("From", None, hf)) = from
      /\ Apply(g, items, Step("To", None, ht)) = IF ht = "vector" THEN Readable(to) ELSE to
    BY DEF Apply, Step, From, To
<1> HIDE DEF from, to, mf, mt, es
<1>10. MeansStep(g, items, Step("From", None, hf)) = Apply(g, items, Step("From", None, hf))
    BY <1>5, <1>8, <1>9
<1>11. ASSUME ht = "vector" =>
                 \A it \in Entries(items) : it.kind = "edge" => it.to \in DOMAIN g.vectors
       PROVE  MeansStep(g, items, Step("To", None, ht)) = Apply(g, items, Step("To", None, ht))
    BY <1>5, <1>7, <1>8, <1>9, <1>11
<1> QED
    BY <1>10, <1>11

(* The edges among some items are those of the source, or as the graph has   *)
(* them.                                                                     *)
Sourced(g, base, items) ==
    \A it \in Entries(items) :
        it.kind = "edge" => \/ it \in Entries(base)
                            \/ it.to \in DOMAIN g.nodes \cup DOMAIN g.vectors

(* Items that are no edges ask nothing of their ends.                       *)
LEMMA NoEdgesSourced ==
    ASSUME NEW g, NEW nl, NEW vl, NEW kind, kind # "edge", NEW label, NEW items, NEW base,
           Typed(nl, vl, kind, label, items)
    PROVE  Sourced(g, base, items)
    BY DEF Typed, MayFit, Fits, Sourced

(* Part of what a source leads to is led to as well.                        *)
LEMMA PartSourced ==
    ASSUME NEW g, NEW base, NEW items, NEW part, Sourced(g, base, items),
           Entries(part) \subseteq Entries(items)
    PROVE  Sourced(g, base, part)
    BY DEF Sourced

EdgesOf(g, items, S, s) ==
    /\ S = [k \in DOMAIN items |-> S[k]]
    /\ \A k \in DOMAIN items : S[k] \in SUBSET DOMAIN g.edges
    /\ s = [k \in DOMAIN items |-> InOrder(S[k], LAMBDA d : EdgeItem(g, d))]

(* Edges just read lead somewhere.                                           *)
LEMMA ReadSourced ==
    ASSUME NEW g, NEW nl, NEW vl, Described(g, nl, vl), Whole(g), NEW e, NEW items,
           IsList(items), NEW base
    PROVE  /\ Sourced(g, base, OutE(g, items, e))
           /\ Sourced(g, base, InE(g, items, e))
<1> DEFINE Live == {EdgeItem(g, d) : d \in DOMAIN g.edges}
<1>1. ASSUME NEW S, NEW s, EdgesOf(g, items, S, s)
      PROVE  Sourced(g, base, FlattenSeq(s))
    <2>1. ASSUME NEW k \in DOMAIN items
          PROVE  IsList(s[k]) /\ Entries(s[k]) \subseteq Live
        <3> DEFINE T == S[k]
                   n == Cardinality(T)
        <3>1. T \in SUBSET DOMAIN g.edges /\ DOMAIN g.edges \in Ids_(g)
            BY <1>1 DEF Ids_, EdgesOf
        <3>2. s[k] = [p \in 1 .. n |-> EdgeItem(g, Place(T, p))]
            BY <1>1 DEF InOrder, Place, EdgesOf
        <3>3. n \in Nat
            <4>1. IsFiniteSet(DOMAIN g.edges)
                BY DEF Described, Ids_
            <4>2. IsFiniteSet(T)
                BY <3>1, <4>1, FS_Subset
            <4> QED
                BY <4>2, FS_CardinalityType
        <3> HIDE DEF T
        <3>4. \A p \in 1 .. n : Place(T, p) \in T
            BY <3>1, TablePlace
        <3> HIDE DEF n
        <3>5. IsList(s[k]) /\ DOMAIN s[k] = 1 .. n
            BY <3>2, <3>3, ListMade
        <3>6. \A p \in DOMAIN s[k] : s[k][p] \in Live
            BY <3>1, <3>2, <3>4, <3>5
        <3> HIDE DEF Live
        <3> QED
            BY <3>5, <3>6 DEF Entries
    <2>2. IsList(s) /\ DOMAIN s = DOMAIN items
        <3>1. Len(items) \in Nat /\ DOMAIN items = 1 .. Len(items)
            BY ListFacts
        <3> QED
            BY <1>1, <3>1, ListMade DEF EdgesOf
    <2>3. Entries(FlattenSeq(s)) \subseteq UNION {Entries(s[k]) : k \in DOMAIN s}
        BY <2>1, <2>2, FlattenedIn
    <2>4. Entries(FlattenSeq(s)) \subseteq Live
        BY <2>1, <2>2, <2>3
    <2>5. \A d \in DOMAIN g.edges : EdgeItem(g, d).to \in DOMAIN g.nodes \cup DOMAIN g.vectors
        BY DEF EdgeItem, Item, Whole
    <2> QED
        BY <2>4, <2>5 DEF Sourced
<1>2. Sourced(g, base, OutE(g, items, e))
    <2> DEFINE S == [k \in DOMAIN items |-> Outgoing(g, items[k].id, e)]
               s == [k \in DOMAIN items |-> InOrder(S[k], LAMBDA d : EdgeItem(g, d))]
    <2>1. \A k \in DOMAIN items : S[k] \in SUBSET DOMAIN g.edges
        BY DEF Outgoing
    <2>2. OutE(g, items, e) = FlattenSeq(s)
        BY DEF OutE, FlatMap
    <2>3. EdgesOf(g, items, S, s)
        BY <2>1 DEF EdgesOf
    <2> HIDE DEF S, s
    <2> QED
        BY <1>1, <2>2, <2>3
<1>3. Sourced(g, base, InE(g, items, e))
    <2> DEFINE S == [k \in DOMAIN items |-> Incoming(g, items[k].id, e)]
               s == [k \in DOMAIN items |-> InOrder(S[k], LAMBDA d : EdgeItem(g, d))]
    <2>1. \A k \in DOMAIN items : S[k] \in SUBSET DOMAIN g.edges
        BY DEF Incoming
    <2>2. InE(g, items, e) = FlattenSeq(s)
        BY DEF InE, FlatMap
    <2>3. EdgesOf(g, items, S, s)
        BY <2>1 DEF EdgesOf
    <2> HIDE DEF S, s
    <2> QED
        BY <1>1, <2>2, <2>3
<1> QED
    BY <1>2, <1>3

-----------------------------------------------------------------------------
(* A step means what the generated one does, on items of a type: on every    *)
(* graph whose edges lead somewhere, and for a step to vectors if the edges  *)
(* that the source yields do.                                                *)
Leads(g, base, st) ==
    st.op = "To" /\ st.hop = "vector" =>
        \A it \in Entries(base) : it.kind = "edge" => it.to \in DOMAIN g.vectors

StepMeans(st, kind, label) ==
    \A g, nl, vl, items, base :
        /\ Described(g, nl, vl) /\ Whole(g)
        /\ Typed(nl, vl, kind, label, items) /\ Sourced(g, base, items)
        /\ Leads(g, base, st)
        => /\ MeansStep(g, items, st) = Apply(g, items, st)
           /\ Sourced(g, base, Apply(g, items, st))

(* No edge leads to an edge.                                                *)
LEMMA FarKinds ==
    ASSUME NEW label PROVE EdgeTypeOf(label) # "edge"
    BY DEF EdgeTypeOf

(* The four steps along edges are generated as they are meant.              *)
LEMMA HopMeans ==
    ASSUME NEW e, NEW kind, NEW label
    PROVE  /\ StepMeans(Step("OutE", e, None), kind, label)
           /\ StepMeans(Step("InE", e, None), kind, label)
           /\ LET l == Ends[e].to IN StepMeans(Step("Out", e, EdgeTypeOf(l)), kind, label)
           /\ LET l == Ends[e].from IN StepMeans(Step("In", e, EdgeTypeOf(l)), kind, label)
<1> DEFINE Given(g, nl, vl, items, base) ==
               /\ Described(g, nl, vl) /\ Whole(g)
               /\ Typed(nl, vl, kind, label, items) /\ Sourced(g, base, items)
<1>1. ASSUME NEW g, NEW nl, NEW vl, NEW items, NEW base, Given(g, nl, vl, items, base)
      PROVE  /\ LET st == Step("OutE", e, None) IN
                MeansStep(g, items, st) = Apply(g, items, st) /\ Sourced(g, base, Apply(g, items, st))
             /\ LET st == Step("InE", e, None) IN
                MeansStep(g, items, st) = Apply(g, items, st) /\ Sourced(g, base, Apply(g, items, st))
    <2>1. /\ Apply(g, items, Step("OutE", e, None)) = OutE(g, items, e)
          /\ Apply(g, items, Step("InE", e, None)) = InE(g, items, e)
          /\ MeansStep(g, items, Step("OutE", e, None)) = Apply(g, items, Step("OutE", e, None))
          /\ MeansStep(g, items, Step("InE", e, None)) = Apply(g, items, Step("InE", e, None))
        BY DEF Apply, MeansStep, Step
    <2>2. Sourced(g, base, OutE(g, items, e)) /\ Sourced(g, base, InE(g, items, e))
        BY <1>1, ReadSourced DEF Typed
    <2> QED
        BY <2>1, <2>2
<1>2. ASSUME NEW g, NEW nl, NEW vl, NEW items, NEW base, Given(g, nl, vl, items, base),
             NEW l, l = Ends[e].to, NEW st, st = Step("Out", e, EdgeTypeOf(l))
      PROVE  MeansStep(g, items, st) = Apply(g, items, st) /\ Sourced(g, base, Apply(g, items, st))
    <2>1. MeansStep(g, items, st) = Apply(g, items, st)
        BY <1>2, OutMeans
    <2>2. Typed(nl, vl, EdgeTypeOf(l), l, Apply(g, items, st))
        BY <1>2, HopFlows DEF StepFlows
    <2> QED
        BY <2>1, <2>2, FarKinds, NoEdgesSourced
<1>3. ASSUME NEW g, NEW nl, NEW vl, NEW items, NEW base, Given(g, nl, vl, items, base),
             NEW l, l = Ends[e].from, NEW st, st = Step("In", e, EdgeTypeOf(l))
      PROVE  MeansStep(g, items, st) = Apply(g, items, st) /\ Sourced(g, base, Apply(g, items, st))
    <2>1. MeansStep(g, items, st) = Apply(g, items, st)
        BY <1>3, InMeans
    <2>2. Typed(nl, vl, EdgeTypeOf(l), l, Apply(g, items, st))
        BY <1>3, HopFlows DEF StepFlows
    <2> QED
        BY <2>1, <2>2, FarKinds, NoEdgesSourced
<1> QED
    BY <1>1, <1>2, <1>3 DEF StepMeans

(* The steps to the ends of an edge are generated as they are meant.        *)
LEMMA EndMeans ==
    ASSUME NEW e
    PROVE  /\ LET l == Ends[e].from IN StepMeans(Step("From", None, EdgeTypeOf(l)), "edge", e)
           /\ LET l == Ends[e].to IN StepMeans(Step("To", None, EdgeTypeOf(l)), "edge", e)
<1>1. ASSUME NEW l, l = Ends[e].from, NEW st, st = Step("From", None, EdgeTypeOf(l))
      PROVE  StepMeans(st, "edge", e)
    <2> SUFFICES ASSUME NEW g, NEW nl, NEW vl, NEW items, NEW base, Described(g, nl, vl),
                        Typed(nl, vl, "edge", e, items)
                 PROVE  /\ MeansStep(g, items, st) = Apply(g, items, st)
                        /\ Sourced(g, base, Apply(g, items, st))
        BY DEF StepMeans
    <2>1. MeansStep(g, items, st) = Apply(g, items, st)
        BY <1>1, EndsMean
    <2>2. Typed(nl, vl, EdgeTypeOf(l), l, Apply(g, items, st))
        BY <1>1, EndFlows DEF StepFlows
    <2> QED
        BY <2>1, <2>2, FarKinds, NoEdgesSourced
<1>2. ASSUME NEW l, l = Ends[e].to, NEW st, st = Step("To", None, EdgeTypeOf(l))
      PROVE  StepMeans(st, "edge", e)
    <2> SUFFICES ASSUME NEW g, NEW nl, NEW vl, NEW items, NEW base, Described(g, nl, vl),
                        Typed(nl, vl, "edge", e, items), Sourced(g, base, items),
                        Leads(g, base, st)
                 PROVE  /\ MeansStep(g, items, st) = Apply(g, items, st)
                        /\ Sourced(g, base, Apply(g, items, st))
        BY DEF StepMeans
    <2>1. ASSUME EdgeTypeOf(l) = "vector", NEW it \in Entries(items), it.kind = "edge"
          PROVE  it.to \in DOMAIN g.vectors
        <3>1. st.op = "To" /\ st.hop = "vector"
            BY <1>2, <2>1 DEF Step
        <3>2. it \in Entries(base) \/ it.to \in DOMAIN g.nodes \cup DOMAIN g.vectors
            BY <2>1 DEF Sourced
        <3>3. Goes(nl, vl, it.to, l)
            BY <1>2, <2>1 DEF Typed, MayFit, Fits
        <3>4. it.to \in DOMAIN g.nodes \cup DOMAIN g.vectors => it.to \in DOMAIN g.vectors
            BY <2>1, <3>3, EndIsItem
        <3> QED
            BY <2>1, <3>1, <3>2, <3>4 DEF Leads
    <2>2. MeansStep(g, items, st) = Apply(g, items, st)
        BY <1>2, <2>1, EndsMean
    <2>3. Typed(nl, vl, EdgeTypeOf(l), l, Apply(g, items, st))
        BY <1>2, EndFlows DEF StepFlows
    <2> QED
        BY <2>2, <2>3, FarKinds, NoEdgesSourced
<1> QED
    BY <1>1, <1>2

(* A range of a list holds items of the list.                               *)
LEMMA WindowIn ==
    ASSUME NEW items, IsList(items), NEW lo \in Nat, NEW hi \in Nat
    PROVE  Entries(Range_(items, lo, hi)) \subseteq Entries(items)
<1> DEFINE n == IF hi < Len(items) THEN hi ELSE Len(items)
<1>1. Len(items) \in Nat /\ DOMAIN items = 1 .. Len(items)
    BY ListFacts
<1>2. n \in Nat /\ n <= Len(items)
    BY <1>1
<1>3. Range_(items, lo, hi) = SubSeq(items, lo + 1, n)
    BY DEF Range_
<1> HIDE DEF n
<1>4. \A i \in lo + 1 .. n : items[i] \in Entries(items)
    BY <1>1, <1>2 DEF Entries
<1>5. items \in Seq(Entries(items))
    BY DEF IsList
<1>6. SubSeq(items, lo + 1, n) \in Seq(Entries(items))
    BY <1>4, <1>5, <1>1, <1>2, SubSeqProperties
<1> QED
    BY <1>3, <1>6, ListIn

(* Filters and ranges are generated as they are meant.                      *)
LEMMA PartMeans ==
    ASSUME NEW kind, NEW label
    PROVE  /\ \A t : StepMeans(Filter(t), kind, label)
           /\ \A lo, hi \in Nat : StepMeans(Window(lo, hi), kind, label)
<1>1. ASSUME NEW t PROVE StepMeans(Filter(t), kind, label)
    <2> DEFINE st == Filter(t)
    <2> SUFFICES ASSUME NEW g, NEW nl, NEW vl, NEW items, NEW base,
                        Typed(nl, vl, kind, label, items), Sourced(g, base, items)
                 PROVE  /\ MeansStep(g, items, st) = Apply(g, items, st)
                        /\ Sourced(g, base, Apply(g, items, st))
        BY DEF StepMeans
    <2>1. MeansStep(g, items, st) = Apply(g, items, st) /\ Apply(g, items, st) = Where(g, items, t)
        BY DEF MeansStep, Apply, Filter, Step
    <2>2. Entries(Where(g, items, t)) \subseteq Entries(items)
        BY PassingIn DEF Typed
    <2> HIDE DEF st
    <2> QED
        BY <2>1, <2>2, PartSourced
<1>2. ASSUME NEW lo \in Nat, NEW hi \in Nat PROVE StepMeans(Window(lo, hi), kind, label)
    <2> DEFINE st == Window(lo, hi)
    <2> SUFFICES ASSUME NEW g, NEW nl, NEW vl, NEW items, NEW base,
                        Typed(nl, vl, kind, label, items), Sourced(g, base, items)
                 PROVE  /\ MeansStep(g, items, st) = Apply(g, items, st)
                        /\ Sourced(g, base, Apply(g, items, st))
        BY DEF StepMeans
    <2>1. MeansStep(g, items, st) = Apply(g, items, st) /\ Apply(g, items, st) = Range_(items, lo, hi)
        BY DEF MeansStep, Apply, Window, Step
    <2>2. Entries(Range_(items, lo, hi)) \subseteq Entries(items)
        BY WindowIn DEF Typed
    <2> HIDE DEF st
    <2> QED
        BY <2>1, <2>2, PartSourced
<1> QED
    BY <1>1, <1>2

(* Steps that leave the items alone.                                         *)
Idle == {"Count", "AggregateBy", "GroupBy", "Update", "UpsertN"}

(* The steps that only the generator adds change nothing.                   *)
LEMMA IdleSteps ==
    ASSUME NEW g, NEW items, NEW st, st.op \in Idle
    PROVE  MeansStep(g, items, st) = items /\ Apply(g, items, st) = items
    BY DEF MeansStep, Apply, Idle

-----------------------------------------------------------------------------
(* The graphs and variables a traversal may run on: w as written, c as       *)
(* generated.  An index lookup in the place of a variable finds what the     *)
(* variable holds.                                                           *)
ShapesKept(sc, vs) ==
    \A x \in DOMAIN vs :
        x \in DOMAIN sc /\ IsItems(sc[x].ty) => (vs[x].shape = "one" <=> sc[x].single)

NoneGone(g, vs, c) ==
    \A st \in Entries(c.steps) : Leads(g, Fetch(g, vs, c.start), st)

LookupHolds(g, vs, w, c) ==
    w.start.op = "Variable" =>
        /\ w.start.key \in DOMAIN vs
        /\ c.start.op = "NFromIndex" => Fetch(g, vs, c.start) = vs[w.start.key].items

Context(sc, g, nl, vl, vs, w, c) ==
    /\ Described(g, nl, vl) /\ Whole(g)
    /\ VarsTyped(nl, vl, sc, vs) /\ ShapesKept(sc, vs)
    /\ Reads(c) \subseteq DOMAIN vs /\ LabelsAsked(g, vs, c.start)
    /\ NoneGone(g, vs, c) /\ LookupHolds(g, vs, w, c)

(* The generated traversal yields what is meant.                             *)
Same(sc, w, c) ==
    \A g, nl, vl, vs :
        Context(sc, g, nl, vl, vs, w, c) =>
            /\ Meant(g, vs, w) = Yielded(g, vs, c)
            /\ Sourced(g, Fetch(g, vs, c.start), Yielded(g, vs, c))

(* One more step, or fewer.                                                  *)
LEMMA ContextBefore ==
    ASSUME NEW sc, NEW g, NEW nl, NEW vl, NEW vs, NEW w, NEW c, NEW x, NEW d,
           Context(sc, g, nl, vl, vs, x, d), x.start = w.start, d.start = c.start,
           Reads(c) \subseteq Reads(d), Entries(c.steps) \subseteq Entries(d.steps)
    PROVE  Context(sc, g, nl, vl, vs, w, c)
<1>1. NoneGone(g, vs, c)
    BY DEF Context, NoneGone
<1>2. LookupHolds(g, vs, w, c)
    BY DEF Context, LookupHolds
<1> QED
    BY <1>1, <1>2 DEF Context

(* One more entry.                                                          *)
LEMMA EntriesMore ==
    ASSUME NEW s, IsList(s), NEW e
    PROVE  Entries(Append(s, e)) = Entries(s) \cup {e}
<1>1. /\ IsList(Append(s, e)) /\ Len(Append(s, e)) = Len(s) + 1
      /\ \A i \in 1 .. Len(s) : Append(s, e)[i] = s[i]
      /\ Append(s, e)[Len(s) + 1] = e
    BY OneMore
<1>2. Len(s) \in Nat /\ DOMAIN s = 1 .. Len(s)
    BY ListFacts
<1>3. DOMAIN Append(s, e) = 1 .. Len(s) + 1
    BY <1>1, ListFacts
<1>4. 1 .. Len(s) + 1 = (1 .. Len(s)) \cup {Len(s) + 1}
    BY <1>2
<1> QED
    BY <1>1, <1>2, <1>3, <1>4 DEF Entries

(* A step added to both sides, if it is generated as it is meant, keeps the *)
(* two the same.                                                            *)
LEMMA SameMore ==
    ASSUME NEW sc, NEW w, NEW c, Same(sc, w, c), IsList(w.steps), IsList(c.steps),
           NEW kind, NEW label, Yields(sc, c, kind, label),
           NEW st, StepMeans(st, kind, label),
           NEW x, x.start = w.start, x.steps = Append(w.steps, st),
           NEW d, d.start = c.start, d.steps = Append(c.steps, st), d.write = c.write
    PROVE  Same(sc, x, d)
<1> SUFFICES ASSUME NEW g, NEW nl, NEW vl, NEW vs, Context(sc, g, nl, vl, vs, x, d)
             PROVE  /\ Meant(g, vs, x) = Yielded(g, vs, d)
                    /\ Sourced(g, Fetch(g, vs, d.start), Yielded(g, vs, d))
    BY DEF Same
<1>1. Reads(c) = Reads(d)
    BY DEF Reads
<1>2. Entries(d.steps) = Entries(c.steps) \cup {st}
    BY EntriesMore
<1>3. Context(sc, g, nl, vl, vs, w, c)
    BY <1>1, <1>2, ContextBefore
<1> DEFINE y == Yielded(g, vs, c)
           base == Fetch(g, vs, c.start)
<1>4. Meant(g, vs, w) = y /\ Sourced(g, base, y)
    BY <1>3 DEF Same
<1>5. Typed(nl, vl, kind, label, y)
    BY <1>3, YieldedTyped DEF Context
<1>6. Leads(g, base, st)
    BY <1>2 DEF Context, NoneGone
<1>7. Described(g, nl, vl) /\ Whole(g)
    BY DEF Context
<1>8. Meant(g, vs, x) = MeansStep(g, Meant(g, vs, w), st)
    BY MeantOneMore
<1>9. Yielded(g, vs, d) = Apply(g, y, st)
    BY AfterOneMore DEF Yielded
<1> HIDE DEF y, base
<1>10. MeansStep(g, y, st) = Apply(g, y, st) /\ Sourced(g, base, Apply(g, y, st))
    BY <1>4, <1>5, <1>6, <1>7 DEF StepMeans
<1> QED
    BY <1>4, <1>8, <1>9, <1>10 DEF base

(* Steps that leave the items alone, on either side.                         *)
LEMMA SameIdle ==
    ASSUME NEW sc, NEW w, NEW c, Same(sc, w, c), IsList(w.steps),
           NEW st, st.op \in Idle,
           NEW x, x.start = w.start, x.steps = Append(w.steps, st)
    PROVE  Same(sc, x, c)
<1> SUFFICES ASSUME NEW g, NEW nl, NEW vl, NEW vs, Context(sc, g, nl, vl, vs, x, c)
             PROVE  /\ Meant(g, vs, x) = Yielded(g, vs, c)
                    /\ Sourced(g, Fetch(g, vs, c.start), Yielded(g, vs, c))
    BY DEF Same
<1>1. Context(sc, g, nl, vl, vs, w, c)
    BY ContextBefore
<1>2. Meant(g, vs, x) = MeansStep(g, Meant(g, vs, w), st)
    BY MeantOneMore
<1> QED
    BY <1>1, <1>2, IdleSteps DEF Same

(* A step the generator adds on its own keeps the two the same.             *)
LEMMA SameIdleRun ==
    ASSUME NEW sc, NEW w, NEW c, Same(sc, w, c), IsList(c.steps),
           NEW st, st.op \in Idle,
           NEW d, d.start = c.start, d.steps = Append(c.steps, st), d.write = c.write
    PROVE  Same(sc, w, d)
<1> SUFFICES ASSUME NEW g, NEW nl, NEW vl, NEW vs, Context(sc, g, nl, vl, vs, w, d)
             PROVE  /\ Meant(g, vs, w) = Yielded(g, vs, d)
                    /\ Sourced(g, Fetch(g, vs, d.start), Yielded(g, vs, d))
    BY DEF Same
<1>1. Reads(c) = Reads(d)
    BY DEF Reads
<1>2. Entries(d.steps) = Entries(c.steps) \cup {st}
    BY EntriesMore
<1>3. Context(sc, g, nl, vl, vs, w, c)
    BY <1>1, <1>2, ContextBefore
<1>4. Yielded(g, vs, d) = Apply(g, Yielded(g, vs, c), st)
    BY AfterOneMore DEF Yielded
<1> QED
    BY <1>3, <1>4, IdleSteps DEF Same

(* A filter goes past filters.                                               *)
Commutes(steps) ==
    \A g, items, t :
        IsList(items) =>
            /\ IsList(After(g, items, steps))
            /\ After(g, Where(g, items, t), steps) = Where(g, After(g, items, steps), t)

(* No steps commute with any filter.                                        *)
LEMMA CommutesNothing == Commutes(<<>>)
    BY AfterNothing DEF Commutes

(* Steps that commute with any filter do so with one more filter.           *)
LEMMA CommutesMore ==
    ASSUME NEW steps, IsList(steps), Commutes(steps), NEW u
    PROVE  Commutes(Append(steps, Filter(u)))
<1> DEFINE more == Append(steps, Filter(u))
<1> SUFFICES ASSUME NEW g, NEW items, NEW t, IsList(items)
             PROVE  /\ IsList(After(g, items, more))
                    /\ After(g, Where(g, items, t), more) = Where(g, After(g, items, more), t)
    BY DEF Commutes
<1> DEFINE y == After(g, items, steps)
<1>1. \A z : Apply(g, z, Filter(u)) = Where(g, z, u)
    BY DEF Apply, Filter, Step
<1>2. \A z : After(g, z, more) = Where(g, After(g, z, steps), u)
    BY <1>1, AfterOneMore
<1>3. IsList(y) /\ After(g, Where(g, items, t), steps) = Where(g, y, t)
    BY DEF Commutes
<1> HIDE DEF y, more
<1>4. IsList(Where(g, y, u))
    BY <1>3, PassingIn
<1>5. Where(g, Where(g, y, t), u) = Where(g, Where(g, y, u), t)
    BY <1>3, WhereCommutes
<1>6. After(g, items, more) = Where(g, y, u)
    BY <1>2 DEF y
<1> QED
    BY <1>2, <1>3, <1>4, <1>5, <1>6

-----------------------------------------------------------------------------
(* A traversal without steps yields what its source is said to.              *)
LEMMA IdMeans ==
    ASSUME NEW g, NEW nl, NEW vl, Described(g, nl, vl), NEW vs, NEW start,
           LabelsAsked(g, vs, start)
    PROVE  MeansFetch(g, vs, start) = Fetch(g, vs, start)
<1>1. CASE start.op \notin {"NFromID", "EFromID", "VFromID"}
    BY <1>1 DEF MeansFetch
<1>2. CASE start.op \in {"NFromID", "EFromID", "VFromID"}
    <2> DEFINE i == start.key
    <2>1. /\ NodeItem(g, i).label = None => NodeItem(g, i) = ErrItem
          /\ EdgeItem(g, i).label = None => EdgeItem(g, i) = ErrItem
          /\ VectorItem(g, i).label = None => VectorItem(g, i) = ErrItem
        <3>1. /\ i \in DOMAIN g.nodes => NodeItem(g, i).label \in NodeTypes
              /\ i \in DOMAIN g.edges => EdgeItem(g, i).label \in EdgeTypes
              /\ i \in DOMAIN g.vectors => VectorItem(g, i).label \in VectorTypes
            BY NodeFits, EdgeFits, VectorFits DEF Described
        <3>2. /\ i \notin DOMAIN g.nodes => NodeItem(g, i) = ErrItem
              /\ i \notin DOMAIN g.edges => EdgeItem(g, i) = ErrItem
              /\ i \notin DOMAIN g.vectors => VectorItem(g, i) = ErrItem
            BY DEF NodeItem, EdgeItem, VectorItem
        <3> QED
            BY <3>1, <3>2, SchemaAssumption
    <2>2. PICK it : /\ Fetch(g, vs, start) = <<it>>
                    /\ it.label = None => it = ErrItem
        BY <1>2, <2>1 DEF Fetch, NFromID, EFromID, VFromID
    <2>3. it.label \in {None, start.label}
        BY <1>2, <2>2 DEF LabelsAsked, ById
    <2>4. MeansFetch(g, vs, start) =
              [k \in DOMAIN <<it>> |-> IF <<it>>[k].label = start.label THEN <<it>>[k] ELSE ErrItem]
        BY <1>2, <2>2 DEF MeansFetch
    <2>5. \A k \in DOMAIN <<it>> : <<it>>[k] = it /\ k = 1
        OBVIOUS
    <2>6. MeansFetch(g, vs, start) = [k \in DOMAIN <<it>> |-> <<it>>[k]]
        BY <2>2, <2>3, <2>4, <2>5
    <2> QED
        BY <2>2, <2>6
<1> QED
    BY <1>1, <1>2

(* A traversal that has only begun is the same on both sides.               *)
LEMMA SameStart ==
    ASSUME NEW sc, NEW w, NEW c, w.steps = <<>>, c.steps = <<>>,
           \/ w.start = c.start
           \/ /\ w.start.op = "Variable" /\ c.start.op \in ByVariable
              /\ w.start.key = c.start.key
    PROVE  Same(sc, w, c)
<1> SUFFICES ASSUME NEW g, NEW nl, NEW vl, NEW vs, Context(sc, g, nl, vl, vs, w, c)
             PROVE  /\ Meant(g, vs, w) = Yielded(g, vs, c)
                    /\ Sourced(g, Fetch(g, vs, c.start), Yielded(g, vs, c))
    BY DEF Same
<1>1. Yielded(g, vs, c) = Fetch(g, vs, c.start)
    BY AfterNothing DEF Yielded
<1>2. Meant(g, vs, w) = MeansFetch(g, vs, w.start)
    BY MeantNothing
<1>3. MeansFetch(g, vs, w.start) = Fetch(g, vs, c.start)
    <2>1. CASE w.start = c.start
        BY <2>1, IdMeans DEF Context
    <2>2. CASE w.start.op = "Variable" /\ c.start.op \in ByVariable /\ w.start.key = c.start.key
        <3>1. Fetch(g, vs, w.start) = vs[w.start.key].items
            BY <2>2 DEF Fetch
        <3>2. Fetch(g, vs, c.start) = vs[c.start.key].items
            BY <2>2 DEF Fetch, ByVariable
        <3> QED
            BY <2>2, <3>1, <3>2 DEF MeansFetch
    <2> QED
        BY <2>1, <2>2
<1> QED
    BY <1>1, <1>2, <1>3 DEF Sourced

(* Only the source, the steps and what is read of variables matter.          *)
LEMMA SameParts ==
    ASSUME NEW sc, NEW w, NEW c, Same(sc, w, c),
           NEW d, d.start = c.start, d.steps = c.steps, Reads(d) = Reads(c)
    PROVE  Same(sc, w, d)
<1> SUFFICES ASSUME NEW g, NEW nl, NEW vl, NEW vs, Context(sc, g, nl, vl, vs, w, d)
             PROVE  /\ Meant(g, vs, w) = Yielded(g, vs, d)
                    /\ Sourced(g, Fetch(g, vs, d.start), Yielded(g, vs, d))
    BY DEF Same
<1>1. Context(sc, g, nl, vl, vs, w, c)
    BY ContextBefore
<1>2. Yielded(g, vs, d) = Yielded(g, vs, c)
    BY DEF Yielded
<1> QED
    BY <1>1, <1>2 DEF Same

(* An equality on all nodes of a label becomes a lookup.                     *)
LEMMA SameRewritten ==
    ASSUME NEW sc, NEW w, NEW c, Same(sc, w, c), IsList(w.steps), IsList(c.steps),
           c.start.op = "NFromType", w.start.op # "Variable",
           Ops(c.steps) \subseteq {"Where"}, Commutes(c.steps),
           NEW label, Yields(sc, c, "node", label),
           NEW t, t.eq # None, t.edge = None,
           NEW x, x.start = w.start, x.steps = Append(w.steps, Filter(t)),
           NEW d, d.start = Start("NFromIndex", c.start.label, t.eq), d.steps = c.steps,
           d.write = c.write
    PROVE  Same(sc, x, d)
<1> SUFFICES ASSUME NEW g, NEW nl, NEW vl, NEW vs, Context(sc, g, nl, vl, vs, x, d)
             PROVE  /\ Meant(g, vs, x) = Yielded(g, vs, d)
                    /\ Sourced(g, Fetch(g, vs, d.start), Yielded(g, vs, d))
    BY DEF Same
<1>1. d.start.op = "NFromIndex" /\ d.start.label = c.start.label /\ d.start.key = t.eq
    BY DEF Start
<1>2. Reads(c) = Reads(d)
    BY <1>1 DEF Reads, ByVariable
<1>3. \A st \in Entries(c.steps) : st.op = "Where"
    BY DEF Ops, Entries
<1>4. NoneGone(g, vs, c)
    BY <1>3 DEF NoneGone, Leads
<1>5. LabelsAsked(g, vs, c.start)
    BY DEF LabelsAsked, ById
<1>6. Context(sc, g, nl, vl, vs, w, c)
    BY <1>2, <1>4, <1>5 DEF Context, LookupHolds
<1> DEFINE y == Yielded(g, vs, c)
           all == NFromType(g, c.start.label)
<1>7. Meant(g, vs, w) = y
    BY <1>6 DEF Same
<1>8. Meant(g, vs, x) = Where(g, y, t)
    <2>1. Meant(g, vs, x) = MeansStep(g, y, Filter(t))
        BY <1>7, MeantOneMore
    <2> HIDE DEF y
    <2> QED
        BY <2>1 DEF MeansStep, Apply, Filter, Step
<1>9. Fetch(g, vs, c.start) = all /\ Fetch(g, vs, d.start) = NFromIndex(g, c.start.label, t.eq)
    BY <1>1 DEF Fetch
<1>10. Where(g, all, t) = Fetch(g, vs, d.start)
    BY <1>9, LookupIsFilter DEF Context
<1>11. IsList(all)
    BY TypeSourceTyped DEF Context, Typed
<1> HIDE DEF all
<1>12. After(g, Where(g, all, t), c.steps) = Where(g, After(g, all, c.steps), t)
    BY <1>11 DEF Commutes
<1>13. Yielded(g, vs, d) = Where(g, y, t)
    BY <1>9, <1>10, <1>12 DEF Yielded
<1>14. Typed(nl, vl, "node", label, y)
    BY <1>6, YieldedTyped DEF Context
<1> HIDE DEF y
<1>15. Typed(nl, vl, "node", label, Where(g, y, t))
    BY <1>14, WhereTyped
<1> QED
    BY <1>8, <1>13, <1>15, NoEdgesSourced

(* A lookup in the place of the variable it gave.                            *)
LEMMA SameInlined ==
    ASSUME NEW sc, NEW w, NEW c, Same(sc, w, c), w.start.op = "Variable",
           c.start.op = "FromSingle", c.start.key = w.start.key, c.write = NoWrite,
           NEW d, d.start.op = "NFromIndex", d.steps = c.steps
    PROVE  Same(sc, w, d)
<1> SUFFICES ASSUME NEW g, NEW nl, NEW vl, NEW vs, Context(sc, g, nl, vl, vs, w, d)
             PROVE  /\ Meant(g, vs, w) = Yielded(g, vs, d)
                    /\ Sourced(g, Fetch(g, vs, d.start), Yielded(g, vs, d))
    BY DEF Same
<1>1. w.start.key \in DOMAIN vs /\ Fetch(g, vs, d.start) = vs[w.start.key].items
    BY DEF Context, LookupHolds
<1>2. Fetch(g, vs, c.start) = vs[c.start.key].items
    BY DEF Fetch
<1>3. Reads(c) \subseteq DOMAIN vs
    BY <1>1 DEF Reads, NoWrite
<1>4. NoneGone(g, vs, c)
    BY <1>1, <1>2 DEF Context, NoneGone
<1>5. LabelsAsked(g, vs, c.start)
    BY DEF LabelsAsked, ById
<1>6. LookupHolds(g, vs, w, c)
    BY DEF Context, LookupHolds
<1>7. Context(sc, g, nl, vl, vs, w, c)
    BY <1>3, <1>4, <1>5, <1>6 DEF Context
<1>8. Yielded(g, vs, d) = Yielded(g, vs, c)
    BY <1>1, <1>2 DEF Yielded
<1> QED
    BY <1>1, <1>2, <1>7, <1>8 DEF Same

-----------------------------------------------------------------------------
(* A let statement binds what it means, and leaves the graph it means.       *)
LetMeans(sc, w, c) ==
    \A g, nl, vl, vs, s :
        Context(sc, g, nl, vl, vs, w, c) /\ s.kind = "let" /\ s.src = w =>
            MeaningOf(g, vs, s) = RunTraversal(g, vs, c)

(* Traversals that mean one item, as far as the analyzer can tell.           *)
Hops == {"Out", "In", "OutE", "InE"}

OneOf(sc, w) ==
    /\ Ops(w.steps) \cap Hops = {}
    /\ \/ w.start.op \in {"NFromIndex", "NFromID", "EFromID", "VFromID"}
       \/ w.start.op = "Variable" /\ sc[w.start.key].single

(* One more operation.                                                      *)
LEMMA OpsMore ==
    ASSUME NEW s, IsList(s), NEW e
    PROVE  Ops(Append(s, e)) = Ops(s) \cup {e.op}
<1>1. Ops(s) = {x.op : x \in Entries(s)} /\ Ops(Append(s, e)) = {x.op : x \in Entries(Append(s, e))}
    BY DEF Ops, Entries
<1>2. Entries(Append(s, e)) = Entries(s) \cup {e}
    BY EntriesMore
<1> QED
    BY <1>1, <1>2

(* The last operation is among them.                                        *)
LEMMA LastOps ==
    ASSUME NEW s, IsList(s), s # <<>>
    PROVE  Last(s).op \in Ops(s)
<1>1. Len(s) \in DOMAIN s
    BY ListFacts
<1> QED
    BY <1>1 DEF Last, Ops

(* What RunTraversal is when nothing is written.                             *)
LEMMA RunReads ==
    ASSUME NEW g, NEW vs, NEW c, c.write = NoWrite, NEW items, items = Yielded(g, vs, c)
    PROVE  /\ c.collect = "ToVec" => RunTraversal(g, vs, c) = Outcome(g, collect_all(items))
           /\ c.collect = "ToObj" => RunTraversal(g, vs, c) = Outcome(g, collect_to_obj(items))
           /\ c.collect \in {"No", "Try"} =>
                  RunTraversal(g, vs, c) = Outcome(g, Summary(Last(c.steps).op, items))
<1>1. c.write.op = "None"
    BY DEF NoWrite
<1> QED
    BY <1>1 DEF RunTraversal

(* What a let statement means when nothing is written.                       *)
LEMMA LetReads ==
    ASSUME NEW g, NEW vs, NEW s, s.kind = "let", NEW w, s.src = w, IsList(w.steps),
           NEW items, items = Meant(g, vs, w), Ops(w.steps) \cap Idle = {}
    PROVE  MeaningOf(g, vs, s) =
               Outcome(g, IF Singular(w, vs) THEN collect_to_obj(items) ELSE collect_all(items))
<1> DEFINE last == IF s.src.steps = <<>> THEN Step("None", None, None) ELSE Last(s.src.steps)
<1>1. last.op \notin Idle
    <2>1. Step("None", None, None).op = "None"
        BY DEF Step
    <2>2. w.steps # <<>> => Last(w.steps).op \notin Idle
        BY LastOps
    <2> QED
        BY <2>1, <2>2 DEF Idle
<1>2. last.op \notin {"Update", "UpsertN"} /\ last.op \notin {"Count", "AggregateBy", "GroupBy"}
    BY <1>1 DEF Idle
<1> QED
    BY <1>2 DEF MeaningOf

(* A let statement that collects what its steps yielded binds what it       *)
(* means.                                                                   *)
LEMMA LetOpen ==
    ASSUME NEW sc, NEW w, NEW c, Same(sc, w, c), IsList(w.steps), c.write = NoWrite,
           Ops(w.steps) \cap Idle = {}, "First" \notin Ops(w.steps),
           w.start.op = "Variable" => w.start.key \in DOMAIN sc /\ IsItems(sc[w.start.key].ty),
           c.collect \in {"ToVec", "ToObj"}, c.collect = "ToObj" <=> OneOf(sc, w)
    PROVE  LetMeans(sc, w, c)
<1> SUFFICES ASSUME NEW g, NEW nl, NEW vl, NEW vs, NEW s, Context(sc, g, nl, vl, vs, w, c),
                    s.kind = "let", s.src = w
             PROVE  MeaningOf(g, vs, s) = RunTraversal(g, vs, c)
    BY DEF LetMeans
<1> DEFINE items == Yielded(g, vs, c)
<1>1. Meant(g, vs, w) = items
    BY DEF Same
<1>2. Singular(w, vs) <=> OneOf(sc, w)
    <2>1. w.start.op = "Variable" => (vs[w.start.key].shape = "one" <=> sc[w.start.key].single)
        BY DEF Context, LookupHolds, ShapesKept
    <2> QED
        BY <2>1 DEF Singular, OneOf, Hops
<1>3. MeaningOf(g, vs, s) =
          Outcome(g, IF Singular(w, vs) THEN collect_to_obj(items) ELSE collect_all(items))
    BY <1>1, LetReads
<1> HIDE DEF items
<1>4. c.collect = "ToObj" \/ c.collect = "ToVec"
    OBVIOUS
<1>5. CASE c.collect = "ToObj"
    <2>1. RunTraversal(g, vs, c) = Outcome(g, collect_to_obj(items))
        BY <1>5, RunReads DEF items
    <2> QED
        BY <1>2, <1>3, <1>5, <2>1
<1>6. CASE c.collect = "ToVec"
    <2>1. RunTraversal(g, vs, c) = Outcome(g, collect_all(items))
        BY <1>6, RunReads DEF items
    <2> QED
        BY <1>2, <1>3, <1>6, <2>1
<1> QED
    BY <1>4, <1>5, <1>6

(* FIRST.                                                                    *)
LEMMA FirstTaken ==
    ASSUME NEW items, IsList(items)
    PROVE  collect_to_obj(IF items = <<>> THEN <<>> ELSE <<Head(items)>>) = collect_to_obj(items)
<1>1. \A h : <<h>> # <<>> /\ Head(<<h>>) = h
    OBVIOUS
<1> QED
    BY <1>1 DEF collect_to_obj

(* A let statement that ends in FIRST binds what it means.                  *)
LEMMA LetFirst ==
    ASSUME NEW sc, NEW w, NEW c, Same(sc, w, c), IsList(w.steps), c.write = NoWrite,
           Ops(w.steps) \cap Idle = {}, NEW kind, NEW label, Yields(sc, c, kind, label),
           NEW x, x.start = w.start, x.steps = Append(w.steps, Step("First", None, None)),
           NEW d, d.start = c.start, d.steps = c.steps, d.collect = "ToObj", d.write = c.write
    PROVE  LetMeans(sc, x, d)
<1> SUFFICES ASSUME NEW g, NEW nl, NEW vl, NEW vs, NEW s, Context(sc, g, nl, vl, vs, x, d),
                    s.kind = "let", s.src = x
             PROVE  MeaningOf(g, vs, s) = RunTraversal(g, vs, d)
    BY DEF LetMeans
<1> DEFINE items == Yielded(g, vs, c)
           st == Step("First", None, None)
<1>1. st.op = "First" /\ st.op \notin Idle
    BY DEF Step, Idle
<1>2. Reads(c) = Reads(d)
    BY DEF Reads
<1>3. Context(sc, g, nl, vl, vs, w, c)
    BY <1>2, ContextBefore
<1>4. Meant(g, vs, w) = items
    BY <1>3 DEF Same
<1>5. Meant(g, vs, x) = MeansStep(g, items, st)
    BY <1>4, MeantOneMore
<1>6. Typed(nl, vl, kind, label, items)
    BY <1>3, YieldedTyped DEF Context
<1>7. Yielded(g, vs, d) = items
    BY DEF Yielded
<1>8. RunTraversal(g, vs, d) = Outcome(g, collect_to_obj(items))
    BY <1>7, RunReads
<1> HIDE DEF items, st
<1>9. Meant(g, vs, x) = IF items = <<>> THEN <<>> ELSE <<Head(items)>>
    BY <1>1, <1>5 DEF MeansStep
<1>10. IsList(x.steps) /\ Ops(x.steps) = Ops(w.steps) \cup {st.op}
    BY OneMore, OpsMore DEF st
<1>11. Ops(x.steps) \cap Idle = {} /\ Singular(x, vs)
    BY <1>1, <1>10 DEF Singular
<1>12. MeaningOf(g, vs, s) = Outcome(g, collect_to_obj(Meant(g, vs, x)))
    BY <1>10, <1>11, LetReads
<1>13. collect_to_obj(Meant(g, vs, x)) = collect_to_obj(items)
    BY <1>6, <1>9, FirstTaken DEF Typed
<1> QED
    BY <1>8, <1>12, <1>13

(* COUNT, AGGREGATE_BY, GROUP_BY.                                            *)
LEMMA LetSummary ==
    ASSUME NEW sc, NEW w, NEW c, Same(sc, w, c), c.write = NoWrite, c.collect \in {"No", "Try"},
           NEW steps, IsList(steps), NEW gen_steps, IsList(gen_steps),
           NEW st, st.op \in {"Count", "AggregateBy", "GroupBy"},
           w.steps = Append(steps, st), c.steps = Append(gen_steps, st)
    PROVE  LetMeans(sc, w, c)
<1> SUFFICES ASSUME NEW g, NEW nl, NEW vl, NEW vs, NEW s, Context(sc, g, nl, vl, vs, w, c),
                    s.kind = "let", s.src = w
             PROVE  MeaningOf(g, vs, s) = RunTraversal(g, vs, c)
    BY DEF LetMeans
<1> DEFINE items == Yielded(g, vs, c)
<1>1. Meant(g, vs, w) = items
    BY DEF Same
<1>2. w.steps # <<>> /\ Last(w.steps) = st /\ Last(c.steps) = st
    BY OneMore
<1>3. st.op \notin {"Update", "UpsertN"}
    OBVIOUS
<1>4. RunTraversal(g, vs, c) = Outcome(g, Summary(st.op, items))
    <2>1. c.collect = "No" \/ c.collect = "Try"
        OBVIOUS
    <2>2. c.write.op = "None"
        BY DEF NoWrite
    <2>3. RunTraversal(g, vs, c) = Outcome(g, Summary(Last(c.steps).op, items))
        BY <2>1, <2>2 DEF RunTraversal
    <2> HIDE DEF items
    <2> QED
        BY <1>2, <2>3
<1> HIDE DEF items
<1>5. MeaningOf(g, vs, s) = Outcome(g, Summary(st.op, items))
    BY <1>1, <1>2, <1>3 DEF MeaningOf
<1> QED
    BY <1>4, <1>5

(* UPDATE and UpsertN.  What they are given is what the traversal means.     *)
LEMMA LetWrite ==
    ASSUME NEW sc, NEW w, NEW c, NEW steps, IsList(steps),
           NEW st, st.op \in {"Update", "UpsertN"}, w.steps = Append(steps, st),
           c.write.op = st.op, c.write.val = st.test, c.write.label = st.label,
           \A g, nl, vl, vs :
               Context(sc, g, nl, vl, vs, w, c) =>
                   Meant(g, vs, w) = IF c.write.source # None THEN vs[c.write.source].items
                                     ELSE Yielded(g, vs, c)
    PROVE  LetMeans(sc, w, c)
<1> SUFFICES ASSUME NEW g, NEW nl, NEW vl, NEW vs, NEW s, Context(sc, g, nl, vl, vs, w, c),
                    s.kind = "let", s.src = w
             PROVE  MeaningOf(g, vs, s) = RunTraversal(g, vs, c)
    BY DEF LetMeans
<1> DEFINE items == Meant(g, vs, w)
           u == IF st.op = "Update" THEN Update(g, items, st.test)
                ELSE UpsertN(g, items, st.label, st.test)
           r == IF HasError(items) THEN Outcome(g, Failure)
                ELSE Outcome(u.graph, collect_to_obj(u.items))
<1>1. items = IF c.write.source # None THEN vs[c.write.source].items ELSE Yielded(g, vs, c)
    OBVIOUS
<1>2. w.steps # <<>> /\ Last(w.steps) = st
    BY OneMore
<1> HIDE DEF items
<1>3. MeaningOf(g, vs, s) = r
    BY <1>2 DEF MeaningOf, items
<1>4. RunTraversal(g, vs, c) = r
    <2>1. c.write.op # "None"
        OBVIOUS
    <2>2. (IF c.write.op = "Update" THEN Update(g, items, c.write.val)
           ELSE UpsertN(g, items, c.write.label, c.write.val)) = u
        OBVIOUS
    <2> HIDE DEF u
    <2> QED
        BY <1>1, <2>1, <2>2 DEF RunTraversal
<1> QED
    BY <1>3, <1>4

-----------------------------------------------------------------------------
(* The parts of a whole graph.                                               *)
IsTable(t) == t = [i \in DOMAIN t |-> t[i]]

NodeTable(ns) ==
    IsTable(ns) /\ \A i \in DOMAIN ns : ns[i] = [label |-> ns[i].label, f |-> ns[i].f]

EdgeTable(es, ids) ==
    IsTable(es) /\ \A e \in DOMAIN es : es[e].from \in ids /\ es[e].to \in ids

(* A graph is whole if its tables are.                                      *)
LEMMA WholeParts ==
    ASSUME NEW ns, NEW es, NEW vs, NEW n
    PROVE  Whole(Graph(ns, es, vs, n)) <=>
              NodeTable(ns) /\ IsTable(vs) /\ EdgeTable(es, DOMAIN ns \cup DOMAIN vs)
<1> DEFINE g == Graph(ns, es, vs, n)
<1>1. g.nodes = ns /\ g.edges = es /\ g.vectors = vs
    BY GraphParts
<1> HIDE DEF g
<1>2. Whole(g) <=> NodeTable(ns) /\ IsTable(vs) /\ EdgeTable(es, DOMAIN ns \cup DOMAIN vs)
    BY <1>1 DEF Whole, NodeTable, IsTable, EdgeTable
<1> QED
    BY <1>2 DEF g

(* Nodes written over or added leave a graph whole.                         *)
LEMMA PutWhole ==
    ASSUME NEW g, NEW nl, NEW vl, Described(g, nl, vl), Whole(g), NEW S, NEW put,
           put = [i \in DOMAIN g.nodes \cup S |-> put[i]],
           \A i \in DOMAIN put : put[i] = [label |-> put[i].label, f |-> put[i].f],
           NEW n
    PROVE  Whole(Graph(put, g.edges, g.vectors, n))
<1> DEFINE ns == g.nodes
           es == g.edges
           vs == g.vectors
<1>1. Whole(Graph(ns, es, vs, g.next))
    BY GraphOf
<1>2. NodeTable(ns) /\ IsTable(vs) /\ EdgeTable(es, DOMAIN ns \cup DOMAIN vs)
    BY <1>1, WholeParts
<1>3. DOMAIN put = DOMAIN ns \cup S /\ NodeTable(put)
    BY DEF NodeTable, IsTable
<1> HIDE DEF ns, es, vs
<1>4. EdgeTable(es, DOMAIN put \cup DOMAIN vs)
    BY <1>2, <1>3 DEF EdgeTable
<1> QED
    BY <1>2, <1>3, <1>4, WholeParts DEF es, vs

(* UPDATE leaves a graph whole.                                             *)
LEMMA UpdateWhole ==
    ASSUME NEW g, NEW nl, NEW vl, Described(g, nl, vl), Whole(g), NEW items, NEW v,
           NEW u, u = Update(g, items, v)
    PROVE  Whole(u.graph)
<1> DEFINE nodes == {k \in DOMAIN items : items[k].kind = "node"}
           S == {items[k].id : k \in nodes}
           LabelOf(i) == items[CHOOSE k \in nodes : items[k].id = i].label
           put == [i \in DOMAIN g.nodes \cup S |->
                      IF i \in S THEN [label |-> LabelOf(i), f |-> v] ELSE g.nodes[i]]
           its == [k \in DOMAIN items |-> IF k \in nodes THEN [items[k] EXCEPT !.f = v]
                                          ELSE ErrItem]
<1>1. u = [graph |-> [g EXCEPT !.nodes = put], items |-> its]
    BY DEF Update, PutNodes
<1> HIDE DEF LabelOf, S, nodes, its
<1>2. \A i \in DOMAIN put : put[i] = [label |-> put[i].label, f |-> put[i].f]
    <2> SUFFICES ASSUME NEW i \in DOMAIN put
                 PROVE  put[i] = [label |-> put[i].label, f |-> put[i].f]
        OBVIOUS
    <2>1. CASE i \in S
        BY <2>1
    <2>2. CASE i \notin S
        BY <2>2 DEF Whole
    <2> QED
        BY <2>1, <2>2
<1>3. put = [i \in DOMAIN g.nodes \cup S |-> put[i]]
    OBVIOUS
<1> HIDE DEF put
<1>4. Whole(Graph(put, g.edges, g.vectors, g.next))
    BY <1>2, <1>3, PutWhole
<1>5. [g EXCEPT !.nodes = put] = Graph(put, g.edges, g.vectors, g.next)
    <2> DEFINE ns == g.nodes
               es == g.edges
               vs == g.vectors
               n == g.next
    <2>1. g = Graph(ns, es, vs, n)
        BY GraphOf
    <2> HIDE DEF ns, es, vs, n
    <2>2. [Graph(ns, es, vs, n) EXCEPT !.nodes = put] = Graph(put, es, vs, n)
        BY DEF Graph
    <2>3. [g EXCEPT !.nodes = put] = Graph(put, es, vs, n)
        BY <2>1, <2>2
    <2> QED
        BY <2>3 DEF ns, es, vs, n
<1> QED
    BY <1>1, <1>4, <1>5

(* UpsertN leaves a graph whole.                                            *)
LEMMA UpsertWhole ==
    ASSUME NEW g, NEW nl, NEW vl, Described(g, nl, vl), Whole(g), NEW items, NEW label, NEW v,
           NEW u, u = UpsertN(g, items, label, v)
    PROVE  Whole(u.graph)
<1>1. CASE items = <<>>
    <2> DEFINE ns == g.nodes
               es == g.edges
               vs == g.vectors
               n == g.next
               put == [i \in DOMAIN ns \cup {n} |->
                          IF i \in {n} THEN [label |-> label, f |-> v] ELSE ns[i]]
    <2>1. g = Graph(ns, es, vs, n)
        BY GraphOf
    <2>2. u.graph = Graph(put, es, vs, n + 1)
        <3> DEFINE after == [PutNodes(g, {n}, LAMBDA j : [label |-> label, f |-> v])
                                EXCEPT !.next = n + 1]
                   made == <<Item("node", n, label, v, 0, 0)>>
        <3>1. u = [graph |-> after, items |-> made]
            BY <1>1 DEF UpsertN, FreshId
        <3>2. PutNodes(g, {n}, LAMBDA j : [label |-> label, f |-> v]) = [g EXCEPT !.nodes = put]
            BY DEF PutNodes
        <3> HIDE DEF ns, es, vs, n, put
        <3>3. [g EXCEPT !.nodes = put] = Graph(put, es, vs, n)
            <4>1. [Graph(ns, es, vs, n) EXCEPT !.nodes = put] = Graph(put, es, vs, n)
                BY DEF Graph
            <4> QED
                BY <2>1, <4>1
        <3>4. [Graph(put, es, vs, n) EXCEPT !.next = n + 1] = Graph(put, es, vs, n + 1)
            BY DEF Graph
        <3>5. after = [[g EXCEPT !.nodes = put] EXCEPT !.next = n + 1]
            BY <3>2
        <3>6. after = Graph(put, es, vs, n + 1)
            <4> HIDE DEF after
            <4> QED
                BY <3>3, <3>4, <3>5
        <3>7. u.graph = after
            <4> HIDE DEF after, made
            <4> QED
                BY <3>1
        <3> QED
            BY <3>6, <3>7
    <2>3. \A i \in DOMAIN put : put[i] = [label |-> put[i].label, f |-> put[i].f]
        <3> SUFFICES ASSUME NEW i \in DOMAIN put
                     PROVE  put[i] = [label |-> put[i].label, f |-> put[i].f]
            OBVIOUS
        <3>1. CASE i \in {n}
            BY <3>1
        <3>2. CASE i \notin {n}
            BY <3>2 DEF Whole
        <3> QED
            BY <3>1, <3>2
    <2>4. put = [i \in DOMAIN g.nodes \cup {n} |-> put[i]]
        OBVIOUS
    <2> HIDE DEF put
    <2>5. Whole(Graph(put, g.edges, g.vectors, n + 1))
        BY <2>3, <2>4, PutWhole
    <2> QED
        BY <2>2, <2>5
<1>2. CASE items # <<>> /\ Head(items).f = v
    <2> DEFINE one == <<Head(items)>>
    <2>1. u = [graph |-> g, items |-> one]
        BY <1>2 DEF UpsertN
    <2> HIDE DEF one
    <2> QED
        BY <2>1
<1>3. CASE items # <<>> /\ Head(items).f # v
    <2> DEFINE one == <<Head(items)>>
    <2>1. u = Update(g, one, v)
        BY <1>3 DEF UpsertN
    <2> HIDE DEF one
    <2> QED
        BY <2>1, UpdateWhole
<1> QED
    BY <1>1, <1>2, <1>3

-----------------------------------------------------------------------------
(* What is left of a graph without some nodes, edges or vectors.             *)
Of(kind, k, S) == IF kind = k THEN S ELSE {}

Kept(g, kind, S) ==
    {e \in DOMAIN g.edges \ Of(kind, "edge", S) :
        kind # "edge" => g.edges[e].from \notin S /\ g.edges[e].to \notin S}

Left(g, kind, S) ==
    Graph([i \in DOMAIN g.nodes \ Of(kind, "node", S) |-> g.nodes[i]],
          [e \in Kept(g, kind, S) |-> g.edges[e]],
          [i \in DOMAIN g.vectors \ Of(kind, "vector", S) |-> g.vectors[i]],
          g.next)

(* Whether they are there; drop_vector does not ask.                         *)
AreThere(g, kind, S) ==
    /\ kind = "node" => S \subseteq DOMAIN g.nodes
    /\ kind = "edge" => S \subseteq DOMAIN g.edges

(* A whole graph with nothing taken away.                                   *)
LEMMA LeftNothing ==
    ASSUME NEW g, NEW nl, NEW vl, Described(g, nl, vl), Whole(g), NEW kind
    PROVE  Left(g, kind, {}) = g
<1>1. Of(kind, "node", {}) = {} /\ Of(kind, "vector", {}) = {} /\ Kept(g, kind, {}) = DOMAIN g.edges
    BY DEF Of, Kept
<1>2. DOMAIN g.nodes \ {} = DOMAIN g.nodes /\ DOMAIN g.vectors \ {} = DOMAIN g.vectors
    OBVIOUS
<1>3. Left(g, kind, {}) = Graph([i \in DOMAIN g.nodes |-> g.nodes[i]],
                                [e \in DOMAIN g.edges |-> g.edges[e]],
                                [i \in DOMAIN g.vectors |-> g.vectors[i]], g.next)
    BY <1>1, <1>2 DEF Left
<1>4. Left(g, kind, {}) = Graph(g.nodes, g.edges, g.vectors, g.next)
    BY <1>3 DEF Whole
<1> QED
    BY <1>4, GraphOf

(* A whole graph without some items, and without the edges to them, is      *)
(* whole.                                                                   *)
LEMMA LeftWhole ==
    ASSUME NEW g, NEW nl, NEW vl, Described(g, nl, vl), Whole(g), NEW kind \in {"node", "edge", "vector"}, NEW S
    PROVE  Whole(Left(g, kind, S))
<1> DEFINE ns == [i \in DOMAIN g.nodes \ Of(kind, "node", S) |-> g.nodes[i]]
           es == [e \in Kept(g, kind, S) |-> g.edges[e]]
           vs == [i \in DOMAIN g.vectors \ Of(kind, "vector", S) |-> g.vectors[i]]
<1>1. NodeTable(ns)
    BY DEF NodeTable, IsTable, Whole
<1>2. IsTable(vs)
    BY DEF IsTable
<1>3. EdgeTable(es, DOMAIN ns \cup DOMAIN vs)
    <2>1. IsTable(es) /\ DOMAIN es = Kept(g, kind, S)
        BY DEF IsTable
    <2>2. ASSUME NEW e \in Kept(g, kind, S)
          PROVE  /\ es[e].from \in DOMAIN ns \cup DOMAIN vs
                 /\ es[e].to \in DOMAIN ns \cup DOMAIN vs
        <3>1. /\ g.edges[e].from \in DOMAIN g.nodes \cup DOMAIN g.vectors
              /\ g.edges[e].to \in DOMAIN g.nodes \cup DOMAIN g.vectors
            BY DEF Kept, Whole
        <3>2. kind # "edge" => g.edges[e].from \notin S /\ g.edges[e].to \notin S
            BY DEF Kept
        <3>3. es[e] = g.edges[e]
            OBVIOUS
        <3>4. DOMAIN ns = DOMAIN g.nodes \ Of(kind, "node", S)
              /\ DOMAIN vs = DOMAIN g.vectors \ Of(kind, "vector", S)
            OBVIOUS
        <3> HIDE DEF ns, es, vs
        <3> QED
            BY <3>1, <3>2, <3>3, <3>4 DEF Of
    <2> HIDE DEF ns, es, vs
    <2> QED
        BY <2>1, <2>2 DEF EdgeTable
<1>4. Left(g, kind, S) = Graph(ns, es, vs, g.next)
    BY DEF Left
<1> HIDE DEF ns, es, vs
<1> QED
    BY <1>1, <1>2, <1>3, <1>4, WholeParts

-----------------------------------------------------------------------------
(* One more item dropped.                                                    *)
LEMMA LeftOneMore ==
    ASSUME NEW g, NEW kind, NEW S, NEW h, h = Left(g, kind, S), NEW i
    PROVE  /\ kind = "node" => WithoutNode(h, i) = Left(g, kind, S \cup {i})
           /\ kind = "vector" => WithoutVector(h, i) = Left(g, kind, S \cup {i})
<1>0. /\ kind = "node" => WithoutNode(h, i) = Left(g, kind, S \cup {i})
      /\ kind = "vector" => WithoutVector(h, i) = Left(g, kind, S \cup {i})
    <2> DEFINE R == S \cup {i}
               ns == [j \in DOMAIN g.nodes \ Of(kind, "node", S) |-> g.nodes[j]]
               es == [e \in Kept(g, kind, S) |-> g.edges[e]]
               vs == [j \in DOMAIN g.vectors \ Of(kind, "vector", S) |-> g.vectors[j]]
               n == g.next
               ns1 == [j \in DOMAIN g.nodes \ Of(kind, "node", R) |-> g.nodes[j]]
               es1 == [e \in Kept(g, kind, R) |-> g.edges[e]]
               vs1 == [j \in DOMAIN g.vectors \ Of(kind, "vector", R) |-> g.vectors[j]]
               Tou == Touching(h, i)
    <2>1. h = Graph(ns, es, vs, n) /\ Left(g, kind, R) = Graph(ns1, es1, vs1, n)
        BY DEF Left
    <2>2. h.nodes = ns /\ h.edges = es /\ h.vectors = vs
        <3> HIDE DEF ns, es, vs, n
        <3> QED
            BY <2>1, GraphParts
    <2>3. DOMAIN ns = DOMAIN g.nodes \ Of(kind, "node", S) /\ DOMAIN es = Kept(g, kind, S)
          /\ DOMAIN vs = DOMAIN g.vectors \ Of(kind, "vector", S)
        OBVIOUS
    <2>4. ASSUME kind # "edge" PROVE Kept(g, kind, S) \ Tou = Kept(g, kind, R)
        <3>1. \A e \in Kept(g, kind, S) : e \in Tou <=> i \in {g.edges[e].from, g.edges[e].to}
            <4>1. Tou = {e \in DOMAIN es : i \in {es[e].from, es[e].to}}
                BY <2>2 DEF Touching
            <4>2. \A e \in Kept(g, kind, S) : es[e] = g.edges[e]
                OBVIOUS
            <4> HIDE DEF es, Tou
            <4> QED
                BY <2>3, <4>1, <4>2
        <3> HIDE DEF Tou
        <3> QED
            BY <2>4, <3>1 DEF Kept, Of
    <2>5. \A U : WithoutEdges(h, U) = Graph(ns, [e \in DOMAIN es \ U |-> es[e]], vs, n)
        <3> HIDE DEF ns, es, vs, n
        <3>1. \A U : WithoutEdges(Graph(ns, es, vs, n), U)
                        = Graph(ns, [e \in DOMAIN es \ U |-> es[e]], vs, n)
            BY DEF WithoutEdges, Graph
        <3> QED
            BY <2>1, <3>1
    <2>6. ASSUME NEW U, DOMAIN es \ U = Kept(g, kind, R)
          PROVE  [e \in DOMAIN es \ U |-> es[e]] = es1
        <3>1. \A e \in Kept(g, kind, R) : es[e] = g.edges[e]
            BY <2>3, <2>6
        <3> HIDE DEF es
        <3> QED
            BY <2>6, <3>1
    <2>7. CASE kind = "node"
        <3>1. WithoutEdges(h, Tou) = Graph(ns, es1, vs, n)
            <4>1. DOMAIN es \ Tou = Kept(g, kind, R)
                BY <2>3, <2>4, <2>7
            <4> HIDE DEF ns, es, vs, n, Tou, es1
            <4> QED
                BY <2>5, <2>6, <4>1
        <3>2. vs1 = vs
            BY <2>7 DEF Of
        <3>3. [j \in DOMAIN ns \ {i} |-> ns[j]] = ns1
            <4>1. DOMAIN ns \ {i} = DOMAIN g.nodes \ Of(kind, "node", R)
                BY <2>7 DEF Of
            <4>2. \A j \in DOMAIN ns \ {i} : ns[j] = g.nodes[j]
                OBVIOUS
            <4> HIDE DEF ns
            <4> QED
                BY <4>1, <4>2
        <3>4. WithoutNode(h, i) = [WithoutEdges(h, Tou) EXCEPT !.nodes = ns1]
            <4>1. WithoutNode(h, i) = [WithoutEdges(h, Tou) EXCEPT !.nodes = [j \in DOMAIN ns \ {i} |-> ns[j]]]
                BY <2>2 DEF WithoutNode
            <4> HIDE DEF ns, ns1, Tou
            <4> QED
                BY <3>3, <4>1
        <3> HIDE DEF ns, es, vs, n, ns1, es1, vs1, Tou
        <3>5. [Graph(ns, es1, vs, n) EXCEPT !.nodes = ns1] = Graph(ns1, es1, vs, n)
            BY DEF Graph
        <3> QED
            BY <2>1, <2>7, <3>1, <3>2, <3>4, <3>5
    <2>8. CASE kind = "vector"
        <3>1. WithoutEdges(h, Tou) = Graph(ns, es1, vs, n)
            <4>1. DOMAIN es \ Tou = Kept(g, kind, R)
                BY <2>3, <2>4, <2>8
            <4> HIDE DEF ns, es, vs, n, Tou, es1
            <4> QED
                BY <2>5, <2>6, <4>1
        <3>2. ns1 = ns
            BY <2>8 DEF Of
        <3>3. [j \in DOMAIN vs \ {i} |-> vs[j]] = vs1
            <4>1. DOMAIN vs \ {i} = DOMAIN g.vectors \ Of(kind, "vector", R)
                BY <2>8 DEF Of
            <4>2. \A j \in DOMAIN vs \ {i} : vs[j] = g.vectors[j]
                OBVIOUS
            <4> HIDE DEF vs
            <4> QED
                BY <4>1, <4>2
        <3>4. WithoutVector(h, i) = [WithoutEdges(h, Tou) EXCEPT !.vectors = vs1]
            <4>1. WithoutVector(h, i) = [WithoutEdges(h, Tou) EXCEPT !.vectors = [j \in DOMAIN vs \ {i} |-> vs[j]]]
                BY <2>2 DEF WithoutVector
            <4> HIDE DEF vs, vs1, Tou
            <4> QED
                BY <3>3, <4>1
        <3> HIDE DEF ns, es, vs, n, ns1, es1, vs1, Tou
        <3>5. [Graph(ns, es1, vs, n) EXCEPT !.vectors = vs1] = Graph(ns, es1, vs1, n)
            BY DEF Graph
        <3> QED
            BY <2>1, <2>8, <3>1, <3>2, <3>4, <3>5
    <2> QED
        BY <2>7, <2>8
<1> QED
    BY <1>0

(* drop_edge takes edges away one set after another.                        *)
LEMMA LeftMoreEdges ==
    ASSUME NEW g, NEW kind, kind = "edge", NEW S, NEW h, h = Left(g, kind, S), NEW U
    PROVE  WithoutEdges(h, U) = Left(g, kind, S \cup U)
<1> DEFINE es == [e \in Kept(g, kind, S) |-> g.edges[e]]
           es1 == [e \in Kept(g, kind, S \cup U) |-> g.edges[e]]
           ns == [j \in DOMAIN g.nodes |-> g.nodes[j]]
           vs == [j \in DOMAIN g.vectors |-> g.vectors[j]]
           n == g.next
<1>1. h = Graph(ns, es, vs, n) /\ Left(g, kind, S \cup U) = Graph(ns, es1, vs, n)
    BY DEF Left, Of
<1>2. [e \in DOMAIN es \ U |-> es[e]] = es1
    <2>1. DOMAIN es \ U = Kept(g, kind, S \cup U)
        BY DEF Kept, Of
    <2>2. \A e \in DOMAIN es \ U : es[e] = g.edges[e]
        OBVIOUS
    <2> HIDE DEF es
    <2> QED
        BY <2>1, <2>2
<1> HIDE DEF ns, es, vs, n, es1
<1>3. WithoutEdges(Graph(ns, es, vs, n), U) = Graph(ns, [e \in DOMAIN es \ U |-> es[e]], vs, n)
    BY DEF WithoutEdges, Graph
<1> QED
    BY <1>1, <1>2, <1>3

DropsOne(g, kind, S, r, i) ==
    /\ r.ok \in BOOLEAN
    /\ r.ok <=> AreThere(g, kind, {i})
    /\ r.graph = Left(g, kind, S \cup {i})

(* drop_traversal takes one more item away, or fails on one that is not     *)
(* there.                                                                   *)
LEMMA DropOne ==
    ASSUME NEW g, NEW kind \in {"node", "edge", "vector"}, NEW S, NEW acc, acc.ok = TRUE,
           acc.graph = Left(g, kind, S), NEW it, it.kind = kind, it.id \notin S
    PROVE  DropsOne(g, kind, S, DropItem(acc, it), it.id)
<1> DEFINE h == Left(g, kind, S)
           i == it.id
           node == i \in DOMAIN h.nodes
           edge == i \in DOMAIN h.edges
           noNode == WithoutNode(h, i)
           noEdge == WithoutEdges(h, {i})
           noVector == WithoutVector(h, i)
           done == TRUE
<1>1. /\ h.nodes = [j \in DOMAIN g.nodes \ Of(kind, "node", S) |-> g.nodes[j]]
      /\ h.edges = [e \in Kept(g, kind, S) |-> g.edges[e]]
    BY GraphParts DEF Left
<1>2. /\ kind = "node" => (node <=> AreThere(g, kind, {i}))
      /\ kind = "edge" => (edge <=> AreThere(g, kind, {i}))
      /\ kind = "vector" => (done <=> AreThere(g, kind, {i}))
    <2>1. /\ DOMAIN h.nodes = DOMAIN g.nodes \ Of(kind, "node", S)
          /\ DOMAIN h.edges = Kept(g, kind, S)
        BY <1>1
    <2> HIDE DEF h
    <2> QED
        BY <2>1 DEF Of, Kept, AreThere
<1>3. node \in BOOLEAN /\ edge \in BOOLEAN /\ done \in BOOLEAN
    OBVIOUS
<1> HIDE DEF node, edge, done, noNode, noEdge, noVector
<1>4. /\ kind = "node" => DropItem(acc, it) = [ok |-> node, graph |-> noNode]
      /\ kind = "edge" => DropItem(acc, it) = [ok |-> edge, graph |-> noEdge]
      /\ kind = "vector" => DropItem(acc, it) = [ok |-> done, graph |-> noVector]
    BY DEF DropItem, node, edge, done, noNode, noEdge, noVector
<1>5. /\ kind = "node" => noNode = Left(g, kind, S \cup {i})
      /\ kind = "edge" => noEdge = Left(g, kind, S \cup {i})
      /\ kind = "vector" => noVector = Left(g, kind, S \cup {i})
    <2> DEFINE U == {i}
    <2>1. h = Left(g, kind, S)
        OBVIOUS
    <2> HIDE DEF h, i
    <2>2. /\ kind = "node" => WithoutNode(h, i) = Left(g, kind, S \cup {i})
          /\ kind = "vector" => WithoutVector(h, i) = Left(g, kind, S \cup {i})
        BY <2>1, LeftOneMore
    <2>3. kind = "edge" => WithoutEdges(h, U) = Left(g, kind, S \cup U)
        <3> HIDE DEF U
        <3> QED
            BY <2>1, LeftMoreEdges
    <2> QED
        BY <2>2, <2>3 DEF noNode, noEdge, noVector
<1> HIDE DEF h, i
<1>6. CASE kind = "node"
    BY <1>2, <1>3, <1>4, <1>5, <1>6 DEF i, DropsOne
<1>7. CASE kind = "edge"
    BY <1>2, <1>3, <1>4, <1>5, <1>7 DEF i, DropsOne
<1>8. CASE kind = "vector"
    BY <1>2, <1>3, <1>4, <1>5, <1>8 DEF i, DropsOne
<1> QED
    BY <1>6, <1>7, <1>8

(* What is meant to be left.                                                 *)
IdsOf(items, kind) == {it.id : it \in {i \in items : i.kind = kind}}

(* DROP as it is meant takes all the items away at once.                    *)
LEMMA AllLeft ==
    ASSUME NEW g, NEW kind \in {"node", "edge", "vector"}, NEW items, NEW S,
           S = IdsOf(items, kind), \A it \in items : it.kind \in {kind, "error"}
    PROVE  /\ DropAll(g, items).ok <=> AreThere(g, kind, S)
           /\ DropAll(g, items).graph = Left(g, kind, S)
<1> DEFINE Ids_of(k) == {it.id : it \in {i \in items : i.kind = k}}
           ends == Ids_of("node") \cup Ids_of("vector")
           kept == {e \in DOMAIN g.edges \ Ids_of("edge") :
                       g.edges[e].from \notin ends /\ g.edges[e].to \notin ends}
           ok == Ids_of("node") \subseteq DOMAIN g.nodes /\ Ids_of("edge") \subseteq DOMAIN g.edges
           ns1 == [i \in DOMAIN g.nodes \ Ids_of("node") |-> g.nodes[i]]
           es1 == [e \in kept |-> g.edges[e]]
           vs1 == [i \in DOMAIN g.vectors \ Ids_of("vector") |-> g.vectors[i]]
           after == [nodes |-> ns1, edges |-> es1, vectors |-> vs1, next |-> g.next]
<1>1. DropAll(g, items) = [ok |-> ok, graph |-> after]
    BY DEF DropAll
<1>2. \A k \in {"node", "edge", "vector"} : Ids_of(k) = Of(kind, k, S)
    <2> SUFFICES ASSUME NEW k \in {"node", "edge", "vector"} PROVE Ids_of(k) = Of(kind, k, S)
        OBVIOUS
    <2>1. CASE k = kind
        BY <2>1 DEF Of, IdsOf
    <2>2. CASE k # kind
        <3>1. {i \in items : i.kind = k} = {}
            BY <2>2
        <3> QED
            BY <2>2, <3>1 DEF Of
    <2> QED
        BY <2>1, <2>2
<1>3. /\ Ids_of("node") = Of(kind, "node", S) /\ Ids_of("edge") = Of(kind, "edge", S)
      /\ Ids_of("vector") = Of(kind, "vector", S)
    BY <1>2
<1> HIDE DEF Ids_of
<1>4. kept = Kept(g, kind, S)
    <2>1. ends = IF kind = "edge" THEN {} ELSE S
        BY <1>3 DEF Of
    <2> HIDE DEF ends
    <2> QED
        BY <1>3, <2>1 DEF Kept
<1>5. ok <=> AreThere(g, kind, S)
    BY <1>3 DEF AreThere, Of
<1>6. after = Left(g, kind, S)
    <2>1. Left(g, kind, S) = Graph(ns1, es1, vs1, g.next)
        BY <1>3, <1>4 DEF Left
    <2> HIDE DEF ns1, es1, vs1
    <2> QED
        BY <2>1 DEF Graph
<1>7. DropAll(g, items).ok = ok /\ DropAll(g, items).graph = after
    <2> HIDE DEF ok, after
    <2> QED
        BY <1>1
<1> QED
    BY <1>5, <1>6, <1>7

-----------------------------------------------------------------------------
(* No item is dropped twice.                                                 *)
NoneTwice(items) ==
    ~ \E j, k \in DOMAIN items :
        j < k /\ items[j].id = items[k].id /\ items[j].kind # "error"

(* The items DROP drops are the ones that were read, in their order.        *)
LEMMA ReadableList ==
    ASSUME NEW items, IsList(items), NEW R, R = {k \in DOMAIN items : items[k].kind # "error"}
    PROVE  Listed(Readable(items), R, items) /\ R \in SUBSET Nat /\ IsFiniteSet(R)
<1>1. DOMAIN items \in SUBSET Nat /\ IsFiniteSet(DOMAIN items)
    BY ListFacts
<1>2. R \in SUBSET Nat /\ IsFiniteSet(R)
    <2>1. R \in SUBSET DOMAIN items
        OBVIOUS
    <2> QED
        BY <1>1, <2>1, FS_Subset
<1>3. Readable(items) = [p \in 1 .. Cardinality(R) |-> items[Place(R, p)]]
    BY DEF Readable, Passing, InOrder, Place
<1> QED
    BY <1>2, <1>3 DEF Listed

(* Nothing is dropped twice if no item comes twice, and every item that was *)
(* read is dropped.                                                         *)
LEMMA ReadableOnce ==
    ASSUME NEW items, IsList(items), NoneTwice(items), NEW rs, rs = Readable(items)
    PROVE  /\ \A p, q \in DOMAIN rs : p < q => rs[p].id # rs[q].id
           /\ \A it \in Entries(items) : it.kind # "error" => it \in Entries(rs)
<1> DEFINE R == {k \in DOMAIN items : items[k].kind # "error"}
<1>1. Listed(rs, R, items) /\ R \in SUBSET Nat /\ IsFiniteSet(R)
    BY ReadableList
<1>2. \A k \in R : k \in DOMAIN items /\ items[k].kind # "error"
    OBVIOUS
<1>3. \A k \in DOMAIN items : items[k].kind # "error" => k \in R
    OBVIOUS
<1> HIDE DEF R
<1>4. DOMAIN rs = 1 .. Cardinality(R) /\ \A p \in DOMAIN rs : rs[p] = items[Place(R, p)]
    BY <1>1 DEF Listed
<1>5. \A p \in DOMAIN rs : Place(R, p) \in R
    BY <1>1, <1>4, PlaceNumber
<1>6. ASSUME NEW p \in DOMAIN rs, NEW q \in DOMAIN rs, p < q
      PROVE  rs[p].id # rs[q].id
    <2>1. Place(R, p) < Place(R, q)
        BY <1>1, <1>4, <1>6, PlaceOrder
    <2> QED
        BY <1>2, <1>4, <1>5, <2>1 DEF NoneTwice
<1>7. ASSUME NEW it \in Entries(items), it.kind # "error"
      PROVE  it \in Entries(rs)
    <2>1. PICK k \in DOMAIN items : it = items[k]
        BY DEF Entries
    <2>2. k \in R
        BY <1>3, <1>7, <2>1
    <2>3. PICK p \in 1 .. Cardinality(R) : Place(R, p) = k
        BY <1>1, <2>2, PlaceAll
    <2> QED
        BY <1>4, <2>1, <2>3 DEF Entries
<1> QED
    BY <1>6, <1>7

IdsUpto(rs, n) == {rs[p].id : p \in 1 .. n}

(* The ids of the first n items.                                            *)
LEMMA IdsOneMore ==
    ASSUME NEW rs, NEW n \in Nat, n # 0
    PROVE  IdsUpto(rs, n) = IdsUpto(rs, n - 1) \cup {rs[n].id}
<1>1. 1 .. n = (1 .. n - 1) \cup {n}
    OBVIOUS
<1> QED
    BY <1>1 DEF IdsUpto

(* Dropping item by item leaves what is meant to be left.                    *)
LeavesTheRest(g, kind, S, r) ==
    /\ r.ok \in BOOLEAN
    /\ r.ok <=> AreThere(g, kind, S)
    /\ r.ok => r.graph = Left(g, kind, S)

(* Dropping the first n items one by one leaves the rest of the graph, or   *)
(* fails at one that was not there.                                         *)
LEMMA DroppedLeft ==
    ASSUME NEW g, NEW nl, NEW vl, Described(g, nl, vl), Whole(g), NEW rs, NEW n \in Nat,
           NEW kind \in {"node", "edge", "vector"},
           \A p \in 1 .. n : rs[p].kind = kind,
           \A p, q \in 1 .. n : p < q => rs[p].id # rs[q].id,
           NEW f, Dropped(g, rs, n, f)
    PROVE  LeavesTheRest(g, kind, IdsUpto(rs, n), f[n])
<1> DEFINE Fine(i) == /\ f[i].ok \in BOOLEAN
                      /\ f[i].ok <=> AreThere(g, kind, IdsUpto(rs, i))
                      /\ f[i].ok => f[i].graph = Left(g, kind, IdsUpto(rs, i))
           Bad == {i \in 0 .. n : ~ Fine(i)}
<1>1. ASSUME Bad # {} PROVE FALSE
    <2>1. PICK i \in Bad : \A j \in Bad : i <= j
        <3>1. Bad \in SUBSET Nat
            OBVIOUS
        <3> HIDE DEF Bad
        <3> QED
            BY <1>1, <3>1, LeastNumber
    <2>2. i \in 0 .. n /\ ~ Fine(i)
        BY <2>1
    <2>3. f[i] = IF i = 0 THEN NothingDropped(g) ELSE DropItem(f[i - 1], rs[i])
        BY <2>2 DEF Dropped
    <2>4. ASSUME i = 0 PROVE Fine(i)
        <3>1. f[i].ok = TRUE /\ f[i].graph = g
            BY <2>3, <2>4 DEF NothingDropped
        <3>2. IdsUpto(rs, i) = {}
            BY <2>4 DEF IdsUpto
        <3>3. AreThere(g, kind, {})
            BY DEF AreThere
        <3>4. Left(g, kind, {}) = g
            BY LeftNothing
        <3> QED
            BY <3>1, <3>2, <3>3, <3>4
    <2>5. i # 0
        <3> HIDE DEF Fine
        <3> QED
            BY <2>2, <2>4
    <2>6. i \in Nat /\ i - 1 \in 0 .. n /\ ~ (i <= i - 1) /\ i \in 1 .. n
        BY <2>2, <2>5
    <2>7. i - 1 \notin Bad
        <3> HIDE DEF Bad
        <3> QED
            BY <2>1, <2>6
    <2>8. Fine(i - 1)
        <3> HIDE DEF Fine
        <3> QED
            BY <2>6, <2>7
    <2> DEFINE S == IdsUpto(rs, i - 1)
               it == rs[i]
               acc == f[i - 1]
    <2>9. IdsUpto(rs, i) = S \cup {it.id}
        BY <2>5, <2>6, IdsOneMore
    <2>10. it.kind = kind /\ it.id \notin S
        <3>1. \A p \in 1 .. i - 1 : p \in 1 .. n /\ p < i
            BY <2>6
        <3>2. \A p \in 1 .. i - 1 : rs[p].id # rs[i].id
            BY <2>6, <3>1
        <3> QED
            BY <2>6, <3>2 DEF IdsUpto
    <2>11. /\ acc.ok \in BOOLEAN
           /\ acc.ok <=> AreThere(g, kind, S)
           /\ acc.ok => acc.graph = Left(g, kind, S)
        BY <2>8
    <2>12. AreThere(g, kind, S \cup {it.id}) <=> AreThere(g, kind, S) /\ AreThere(g, kind, {it.id})
        BY DEF AreThere
    <2>13. f[i] = DropItem(acc, it)
        BY <2>3, <2>5
    <2> HIDE DEF S, it, acc
    <2>14. /\ f[i].ok \in BOOLEAN
           /\ f[i].ok <=> AreThere(g, kind, S \cup {it.id})
           /\ f[i].ok => f[i].graph = Left(g, kind, S \cup {it.id})
        <3>1. CASE acc.ok = TRUE
            <4>1. acc.graph = Left(g, kind, S)
                BY <2>11, <3>1
            <4>2. DropsOne(g, kind, S, DropItem(acc, it), it.id)
                BY <2>10, <3>1, <4>1, DropOne
            <4> QED
                BY <2>11, <2>12, <2>13, <3>1, <4>2 DEF DropsOne
        <3>2. CASE acc.ok = FALSE
            <4>1. DropItem(acc, it) = acc
                BY <3>2 DEF DropItem
            <4> QED
                BY <2>11, <2>12, <2>13, <3>2, <4>1
        <3> QED
            BY <2>11, <3>1, <3>2
    <2>15. Fine(i)
        BY <2>9, <2>14
    <2> HIDE DEF Fine
    <2> QED
        BY <2>2, <2>15
<1>2. Fine(n)
    <2>1. n \in 0 .. n
        OBVIOUS
    <2> HIDE DEF Fine
    <2> QED
        BY <1>1, <2>1
<1> QED
    BY <1>2 DEF LeavesTheRest

(* drop_traversal does what DROP means: it succeeds when all the items are  *)
(* there, and leaves what DROP is said to leave.                            *)
LEMMA DropMeans ==
    ASSUME NEW g, NEW nl, NEW vl, Described(g, nl, vl), Whole(g), NEW kind, NEW label,
           IsSort(kind, label), NEW items, Typed(nl, vl, kind, label, items), NoneTwice(items),
           NEW d, d = DropTraversal(g, items), NEW m, m = DropAll(g, ToSet(items))
    PROVE  /\ d.ok = m.ok /\ d.ok \in BOOLEAN
           /\ d.ok => d.graph = m.graph /\ Whole(d.graph)
<1> DEFINE rs == Readable(items)
           n == Len(rs)
           f == CHOOSE f : Dropped(g, rs, n, f)
           S == IdsUpto(rs, n)
<1>1. IsList(rs) /\ Entries(rs) \subseteq {it \in Entries(items) : it.kind # "error"}
    BY PassingIn DEF Typed
<1>2. n \in Nat /\ DOMAIN rs = 1 .. n
    BY <1>1, ListFacts
<1>3. kind \in {"node", "edge", "vector"} /\ \A it \in Entries(items) : it.kind \in {kind, "error"}
    BY DEF Typed, MayFit, Fits, IsSort
<1>4. \A p \in 1 .. n : rs[p].kind = kind
    <2>1. \A p \in 1 .. n : rs[p] \in Entries(rs)
        BY <1>2 DEF Entries
    <2> HIDE DEF rs
    <2> QED
        BY <1>1, <1>3, <2>1
<1>5. d = f[n]
    BY DEF DropTraversal, Dropped
<1>6. Dropped(g, rs, n, f)
    <2> HIDE DEF rs
    <2> QED
        BY <1>2, DroppedExists
<1>7. /\ \A p, q \in 1 .. n : p < q => rs[p].id # rs[q].id
      /\ \A it \in Entries(items) : it.kind # "error" => it \in Entries(rs)
    BY <1>2, ReadableOnce DEF Typed
<1>8. S = IdsOf(ToSet(items), kind)
    <2>1. ToSet(items) = Entries(items)
        BY DEF ToSet, Entries
    <2>2. kind # "error"
        BY <1>3
    <2>3. {it \in Entries(items) : it.kind = kind} = Entries(rs)
        <3>1. \A it \in Entries(rs) : it \in Entries(items) /\ it.kind = kind
            <4>1. \A it \in Entries(rs) : \E p \in 1 .. n : it = rs[p]
                BY <1>2 DEF Entries
            <4> HIDE DEF rs
            <4> QED
                BY <1>1, <1>4, <4>1
        <3> HIDE DEF rs
        <3> QED
            BY <1>7, <2>2, <3>1
    <2>4. S = {it.id : it \in Entries(rs)}
        <3> HIDE DEF rs, n
        <3> QED
            BY <1>2 DEF IdsUpto, Entries
    <2> HIDE DEF rs, S
    <2> QED
        BY <2>1, <2>3, <2>4 DEF IdsOf
<1> HIDE DEF f, rs, n, S
<1>9. /\ d.ok \in BOOLEAN
      /\ d.ok <=> AreThere(g, kind, S)
      /\ d.ok => d.graph = Left(g, kind, S)
    <2>1. LeavesTheRest(g, kind, S, f[n])
        BY <1>2, <1>3, <1>4, <1>6, <1>7, DroppedLeft DEF S
    <2> QED
        BY <1>5, <2>1 DEF LeavesTheRest
<1>10. /\ m.ok <=> AreThere(g, kind, S)
       /\ m.graph = Left(g, kind, S)
    <2>1. \A it \in ToSet(items) : it.kind \in {kind, "error"}
        BY <1>3 DEF ToSet, Entries
    <2> QED
        BY <1>3, <1>8, <2>1, AllLeft
<1>11. Whole(Left(g, kind, S))
    BY <1>3, LeftWhole
<1>12. m.ok \in BOOLEAN
    BY DEF DropAll
<1> QED
    BY <1>9, <1>10, <1>11, <1>12

-----------------------------------------------------------------------------
(* A graph a query is deployed on is whole.                                  *)
LEMMA GraphWhole ==
    ASSUME NEW g \in Graphs
    PROVE  Whole(g)
<1>1. HasTables(g) /\ OfSchema(g)
    BY GraphAssumption
<1> DEFINE ns == [i \in DOMAIN g.nodes |-> [label |-> g.nodes[i].label, f |-> g.nodes[i].f]]
           es == [e \in DOMAIN g.edges |-> [label |-> g.edges[e].label, from |-> g.edges[e].from,
                                            to |-> g.edges[e].to]]
           vs == [i \in DOMAIN g.vectors |-> [label |-> g.vectors[i].label]]
<1>2. g.nodes = ns /\ g.edges = es /\ g.vectors = vs
    BY <1>1 DEF HasTables
<1>3. /\ ns = [i \in DOMAIN ns |-> ns[i]] /\ es = [e \in DOMAIN es |-> es[e]]
      /\ vs = [i \in DOMAIN vs |-> vs[i]]
    OBVIOUS
<1>4. \A i \in DOMAIN ns : ns[i] = [label |-> ns[i].label, f |-> ns[i].f]
    OBVIOUS
<1> HIDE DEF ns, es, vs
<1>5. \A e \in DOMAIN g.edges :
          /\ g.edges[e].from \in DOMAIN g.nodes \cup DOMAIN g.vectors
          /\ g.edges[e].to \in DOMAIN g.nodes \cup DOMAIN g.vectors
    BY <1>1 DEF OfSchema, IsVertex
<1> QED
    BY <1>2, <1>3, <1>4, <1>5 DEF Whole

(* What a traversal means does not depend on variables it cannot see.        *)
LEMMA WiderMeans ==
    ASSUME NEW sc, NEW new, Wider(sc, new), NEW w, NEW c
    PROVE  /\ Same(sc, w, c) => Same(new, w, c)
           /\ LetMeans(sc, w, c) => LetMeans(new, w, c)
<1>1. \A g, nl, vl, vs : Context(new, g, nl, vl, vs, w, c) => Context(sc, g, nl, vl, vs, w, c)
    BY DEF Context, VarsTyped, ShapesKept, Wider
<1> QED
    BY <1>1 DEF Same, LetMeans

-----------------------------------------------------------------------------
(* The invariant: outside the constructs of gaps, what is generated means    *)
(* what is written.                                                          *)

(* A statement that binds a variable to what one lookup finds.               *)
PlainLookup(s) ==
    /\ s.kind = "let" /\ s.gen.start.op = "NFromIndex" /\ s.gen.steps = <<>>
    /\ s.gen.collect = "ToObj" /\ s.gen.write = NoWrite

(* A source that stands for a variable: the variable itself, or the lookup   *)
(* that gave it, with nothing written since.                                 *)
LookedUp(q, n, w, c) ==
    /\ c.start.op = "NFromIndex"
    /\ \E i \in 1 .. n : /\ PlainLookup(q[i]) /\ q[i].var = w.start.key
                         /\ q[i].gen.start = c.start
    /\ \A j \in 1 .. n : ~ Writes(q[j])

FromTheVariable(w, c) == c.start.op \in ByVariable /\ c.start.key = w.start.key

Looks(q, n, w, c) ==
    w.start.op = "Variable" => FromTheVariable(w, c) \/ LookedUp(q, n, w, c)

(* A traversal that steps may follow.                                        *)
OpenMeans(sc, w, c, ty) ==
    /\ IsList(w.steps) /\ Same(sc, w, c)
    /\ Ops(w.steps) \cap Idle = {} /\ "First" \notin Ops(w.steps)
    /\ ty.kind \in Singles <=> OneOf(sc, w)
    /\ c.collect = "ToObj" => ty.kind \in Singles
    /\ Ops(c.steps) \subseteq {"Where"} => Commutes(c.steps)
    /\ w.start.op = "Variable" => /\ FromTheVariable(w, c)
                                  /\ w.start.key \in DOMAIN sc /\ IsItems(sc[w.start.key].ty)
    /\ c.start.op \in ByVariable => w.start.op = "Variable"
    /\ c.start.op = "FromSingle" => sc[c.start.key].single

CountMeans(sc, w, c) ==
    \E d : /\ IsList(w.steps) /\ IsList(d.steps) /\ d.start = c.start /\ d.write = NoWrite
           /\ \E st : c.steps = Append(d.steps, st)
           /\ Same(sc, w, d)
           /\ w.start.op = "Variable" => FromTheVariable(w, d)

(* One that only a statement may follow.                                     *)
Means(q, sc, w, c) == LetMeans(sc, w, c) /\ Looks(q, Len(q), w, c)

TravMeans ==
    cur_ty # NoType =>
        \/ ~ closed /\ IsItems(cur_ty) /\ OpenMeans(scope, src, gen, cur_ty)
        \/ /\ ~ closed /\ cur_ty.kind = "Count"
           /\ CountMeans(scope, src, gen) /\ Means(query, scope, src, gen)
        \/ /\ closed \/ cur_ty.kind = "Aggregate"
           /\ Means(query, scope, src, gen)
           /\ IsItems(cur_ty) => cur_ty.kind \in Singles
           /\ IsItems(cur_ty) /\ gen.write = NoWrite => "First" \in Ops(src.steps)

ScopeMeans ==
    \A x \in DOMAIN scope :
        IsItems(scope[x].ty) => (scope[x].single <=> scope[x].ty.kind \in Singles)

StatementMeans(sc, s) ==
    /\ s.kind = "let" => /\ LetMeans(sc, s.src, s.gen)
                         /\ sc[s.var].index # NoIndex => s.gen.start = sc[s.var].index
    /\ s.kind = "drop" => Same(sc, s.src, s.gen)

QueryMeans ==
    \A k \in DOMAIN query :
        /\ StatementMeans(scope, query[k])
        /\ Looks(query, k - 1, query[k].src, query[k].gen)
        /\ \A j \in DOMAIN query :
              query[j].kind = "let" /\ query[k].kind = "let" /\ query[j].var = query[k].var
              => j = k

(* While nothing is written, a lookup finds again what it gave a variable.   *)
FindsAgain(g, vs, s) ==
    LET found == Fetch(g, vs, s.gen.start)
    IN  found # <<>> /\ vs[s.var].items = <<Head(found)>>

RunMeans ==
    /\ SameAsMeant
    /\ phase = "run" =>
          /\ Whole(db)
          /\ (\A j \in 1 .. pos : ~ Writes(query[j])) =>
                \A i \in 1 .. pos : PlainLookup(query[i]) => FindsAgain(db, env, query[i])

MeansInv == ScopeMeans /\ TravMeans /\ QueryMeans /\ RunMeans

MInv == gaps = {} => MeansInv

(* A step of the analyzer that only touches the traversal under             *)
(* construction keeps what is known of the others.                          *)
LEMMA AnalysisMeans ==
    ASSUME MeansInv, phase = "compile", UNCHANGED <<scope, query, running>>, TravMeans'
    PROVE  MeansInv'
<1>1. UNCHANGED <<scope, query, phase, pos, db, env, want, wantEnv, wantOk>> /\ phase # "run"
    BY DEF running
<1>2. ScopeMeans'
    BY <1>1 DEF MeansInv, ScopeMeans
<1>3. QueryMeans'
    BY <1>1 DEF MeansInv, QueryMeans
<1>4. RunMeans'
    BY <1>1 DEF MeansInv, RunMeans, SameAsMeant
<1> QED
    BY <1>2, <1>3, <1>4 DEF MeansInv

(* An open traversal may end where it is.                                    *)
LEMMA OpenLooks ==
    ASSUME NEW sc, NEW w, NEW c, NEW ty, OpenMeans(sc, w, c, ty), NEW q, NEW n
    PROVE  Looks(q, n, w, c)
    BY DEF OpenMeans, Looks

(* A traversal without steps.                                               *)
LEMMA NoSteps ==
    /\ IsList(<<>>) /\ Ops(<<>>) = {}
    /\ Commutes(<<>>)
<1>1. DOMAIN <<>> = {}
    OBVIOUS
<1> QED
    BY <1>1, ListsOfFew, CommutesNothing DEF Ops

(* A traversal that begins is generated as it is meant.                     *)
LEMMA BeginMeans ==
    ASSUME MeansInv, NEW w, NEW s, NEW c \in {"ToVec", "ToObj"}, NEW ty, Begin(w, s, c, ty),
           IsItems(ty),
           \/ w = s /\ s.op \notin ByVariable \cup {"Variable"}
           \/ /\ w.op = "Variable" /\ s.op \in ByVariable /\ w.key = s.key
              /\ s.key \in DOMAIN scope /\ IsItems(scope[s.key].ty)
              /\ s.op = "FromSingle" => scope[s.key].single,
           ty.kind \in Singles <=> \/ w.op \in {"NFromIndex", "NFromID", "EFromID", "VFromID"}
                                   \/ w.op = "Variable" /\ scope[w.key].single,
           c = "ToObj" => ty.kind \in Singles
    PROVE  MeansInv'
<1>1. /\ src' = [start |-> w, steps |-> <<>>]
      /\ gen' = Traversal(s, <<>>, c, NoWrite) /\ cur_ty' = ty /\ closed' = FALSE
      /\ phase = "compile" /\ UNCHANGED <<scope, query, running>>
    BY DEF Begin
<1>2. /\ gen'.start = s /\ gen'.steps = <<>> /\ gen'.collect = c /\ gen'.write = NoWrite
      /\ src'.start = w /\ src'.steps = <<>>
    BY <1>1, Made
<1>3. Same(scope, src', gen')
    <2>1. src'.steps = <<>> /\ gen'.steps = <<>>
        BY <1>2
    <2>2. \/ src'.start = gen'.start
          \/ /\ src'.start.op = "Variable" /\ gen'.start.op \in ByVariable
             /\ src'.start.key = gen'.start.key
        BY <1>2
    <2> QED
        BY <2>1, <2>2, SameStart
<1>4. OpenMeans(scope, src', gen', ty)
    <2>1. /\ IsList(src'.steps) /\ Ops(src'.steps) = {} /\ Commutes(gen'.steps)
        BY <1>2, NoSteps
    <2>2. ty.kind \in Singles <=> OneOf(scope, src')
        BY <1>2, <2>1 DEF OneOf
    <2>3. /\ src'.start.op = "Variable" =>
                /\ FromTheVariable(src', gen')
                /\ src'.start.key \in DOMAIN scope /\ IsItems(scope[src'.start.key].ty)
          /\ gen'.start.op \in ByVariable => src'.start.op = "Variable"
          /\ gen'.start.op = "FromSingle" => scope[gen'.start.key].single
        BY <1>2 DEF FromTheVariable, ByVariable
    <2> QED
        BY <1>2, <1>3, <2>1, <2>2, <2>3 DEF OpenMeans
<1>5. TravMeans'
    BY <1>1, <1>4 DEF TravMeans
<1> QED
    BY <1>1, <1>5, AnalysisMeans

(* Each source begins a traversal that is generated as it is meant.         *)
LEMMA StartMeans == MeansInv /\ StartStep => MeansInv'
<1> SUFFICES ASSUME MeansInv, StartStep PROVE MeansInv'
    OBVIOUS
<1>1. ASSUME NEW op \in {"NFromType", "EFromType", "VFromType"}, NEW t, NEW key,
             NEW k \in Plurals, Source(Start(op, t, key), "ToVec", Type(k, t))
      PROVE  MeansInv'
    <2> DEFINE s == Start(op, t, key)
               ty == Type(k, t)
    <2>1. s.op = op /\ ty.kind = k
        BY DEF Start, Type
    <2>2. Begin(s, s, "ToVec", ty)
        BY <1>1 DEF Source
    <2> HIDE DEF s, ty
    <2>3. IsItems(ty) /\ ty.kind \notin Singles
        BY <2>1 DEF IsItems, Plurals, Singles
    <2>4. s.op \notin ByVariable \cup {"Variable"} \cup {"NFromIndex", "NFromID", "EFromID", "VFromID"}
        BY <2>1 DEF ByVariable
    <2> QED
        BY <2>2, <2>3, <2>4, BeginMeans
<1>2. ASSUME NEW op \in {"NFromIndex", "NFromID", "EFromID", "VFromID"}, NEW t, NEW key,
             NEW k \in Singles, Source(Start(op, t, key), "ToObj", Type(k, t))
      PROVE  MeansInv'
    <2> DEFINE s == Start(op, t, key)
               ty == Type(k, t)
    <2>1. s.op = op /\ ty.kind = k
        BY DEF Start, Type
    <2>2. Begin(s, s, "ToObj", ty)
        BY <1>2 DEF Source
    <2> HIDE DEF s, ty
    <2>3. IsItems(ty) /\ ty.kind \in Singles
        BY <2>1 DEF IsItems
    <2>4. s.op \notin ByVariable \cup {"Variable"}
        BY <2>1 DEF ByVariable
    <2> QED
        BY <2>1, <2>2, <2>3, <2>4, BeginMeans
<1>3. CASE StartNodes
    BY <1>1, <1>3 DEF StartNodes, Plurals
<1>4. CASE StartNodeByIndex
    BY <1>2, <1>4 DEF StartNodeByIndex, Singles
<1>5. CASE StartNodeByID
    BY <1>2, <1>5 DEF StartNodeByID, Singles
<1>6. CASE StartEdges
    BY <1>1, <1>2, <1>6 DEF StartEdges, Plurals, Singles
<1>7. CASE StartVectors
    BY <1>1, <1>2, <1>7 DEF StartVectors, Plurals, Singles
<1>8. CASE StartIdentifier
    <2>1. PICK x \in DOMAIN scope :
              /\ IsItems(scope[x].ty)
              /\ Begin(Start("Variable", None, x),
                       Start(IF scope[x].single THEN "FromSingle" ELSE "FromIter", None, x),
                       "ToVec", scope[x].ty)
        BY <1>8 DEF StartIdentifier
    <2> DEFINE s == Start(IF scope[x].single THEN "FromSingle" ELSE "FromIter", None, x)
               w == Start("Variable", None, x)
    <2>2. /\ s.op \in ByVariable /\ s.key = x /\ w.op = "Variable" /\ w.key = x
          /\ s.op = "FromSingle" => scope[x].single
        BY DEF Start, ByVariable
    <2>3. Begin(w, s, "ToVec", scope[x].ty)
        BY <2>1
    <2> HIDE DEF s, w
    <2>4. scope[x].single <=> scope[x].ty.kind \in Singles
        BY <2>1 DEF MeansInv, ScopeMeans
    <2> QED
        BY <2>1, <2>2, <2>3, <2>4, BeginMeans
<1> QED
    BY <1>3, <1>4, <1>5, <1>6, <1>7, <1>8 DEF StartStep

-----------------------------------------------------------------------------
(* While steps may follow, the traversal so far means what was written.      *)
LEMMA OpenIsMeant ==
    ASSUME TypesInv, MeansInv, Open, IsItems(cur_ty)
    PROVE  /\ OpenMeans(scope, src, gen, cur_ty)
           /\ OpenTyped /\ Yields(scope, gen, ItemKind(cur_ty), cur_ty.label)
           /\ IsList(gen.steps) /\ gen.collect \in {"ToVec", "ToObj"} /\ gen.write = NoWrite
           /\ phase = "compile"
<1>1. OpenTyped /\ ~ closed /\ cur_ty # NoType /\ phase = "compile"
    BY OpenIsTyped DEF Open
<1>2. ItemsTyped(scope, gen, cur_ty)
    BY <1>1, OpenItems DEF OpenTyped
<1>3. cur_ty.kind \notin {"Count", "Aggregate"}
    BY DEF IsItems, Singles, Plurals
<1>4. OpenMeans(scope, src, gen, cur_ty)
    BY <1>1, <1>3 DEF MeansInv, TravMeans
<1> QED
    BY <1>1, <1>2, <1>4 DEF ItemsTyped, OpenTyped

(* A step that is generated as it is meant extends a traversal that was.    *)
LEMMA MoreMeans ==
    ASSUME NEW sc, NEW w, NEW c, NEW ty, OpenMeans(sc, w, c, ty), IsList(c.steps),
           NEW kind, NEW label, Yields(sc, c, kind, label),
           NEW st, StepMeans(st, kind, label), st.op \notin Idle \cup {"First"},
           st.op # "Where" \/ \E t : st = Filter(t),
           NEW ty2, (ty2.kind \in Singles <=> ty.kind \in Singles /\ st.op \notin Hops),
           NEW x, x.start = w.start, x.steps = Append(w.steps, st),
           NEW d, d.start = c.start, d.steps = Append(c.steps, st), d.write = c.write,
           d.collect = "ToObj" => ty2.kind \in Singles
    PROVE  OpenMeans(sc, x, d, ty2)
<1>1. IsList(w.steps) /\ Same(sc, w, c)
    BY DEF OpenMeans
<1>2. IsList(x.steps) /\ Ops(x.steps) = Ops(w.steps) \cup {st.op}
      /\ Ops(d.steps) = Ops(c.steps) \cup {st.op}
    BY <1>1, OneMore, OpsMore
<1>3. Same(sc, x, d)
    BY <1>1, SameMore
<1>4. Ops(x.steps) \cap Idle = {} /\ "First" \notin Ops(x.steps)
    BY <1>2 DEF OpenMeans
<1>5. ty2.kind \in Singles <=> OneOf(sc, x)
    BY <1>2 DEF OpenMeans, OneOf
<1>6. Ops(d.steps) \subseteq {"Where"} => Commutes(d.steps)
    <2> SUFFICES ASSUME Ops(d.steps) \subseteq {"Where"} PROVE Commutes(d.steps)
        OBVIOUS
    <2>1. Ops(c.steps) \subseteq {"Where"} /\ st.op = "Where"
        BY <1>2
    <2>2. PICK t : st = Filter(t)
        BY <2>1
    <2>3. Commutes(c.steps)
        BY <2>1 DEF OpenMeans
    <2>4. Commutes(Append(c.steps, Filter(t)))
        BY <2>3, CommutesMore
    <2> QED
        BY <2>2, <2>4
<1>7. /\ x.start.op = "Variable" => /\ FromTheVariable(x, d)
                                    /\ x.start.key \in DOMAIN sc /\ IsItems(sc[x.start.key].ty)
      /\ d.start.op \in ByVariable => x.start.op = "Variable"
      /\ d.start.op = "FromSingle" => sc[d.start.key].single
    BY DEF OpenMeans, FromTheVariable
<1> QED
    BY <1>2, <1>3, <1>4, <1>5, <1>6, <1>7 DEF OpenMeans

(* What the source text is after one more step.                             *)
LEMMA Written ==
    ASSUME NEW st, Write(st)
    PROVE  src'.start = src.start /\ src'.steps = Append(src.steps, st)
    BY DEF Write

(* A step of the analyzer that adds a step generated as it is meant.        *)
LEMMA ExtendMeans ==
    ASSUME TypesInv, MeansInv, NEW st, NEW c, NEW ty, Extend(st, c, ty),
           IsItems(cur_ty), IsItems(ty),
           StepMeans(st, ItemKind(cur_ty), cur_ty.label),
           st.op \notin Idle \cup {"First", "Where"},
           ty.kind \in Singles <=> cur_ty.kind \in Singles /\ st.op \notin Hops,
           c = "ToObj" => ty.kind \in Singles
    PROVE  MeansInv'
<1>1. /\ gen' = Traversal(gen.start, Append(gen.steps, st), c, gen.write) /\ cur_ty' = ty
      /\ UNCHANGED <<scope, closed, query, running>> /\ Open /\ Write(st)
    BY DEF Extend
<1>2. /\ gen'.start = gen.start /\ gen'.steps = Append(gen.steps, st)
      /\ gen'.collect = c /\ gen'.write = gen.write
      /\ src'.start = src.start /\ src'.steps = Append(src.steps, st)
    <2>1. src'.start = src.start /\ src'.steps = Append(src.steps, st)
        BY <1>1, Written
    <2> QED
        BY <1>1, <2>1 DEF Traversal
<1>3. /\ OpenMeans(scope, src, gen, cur_ty) /\ IsList(gen.steps) /\ ~ closed
      /\ Yields(scope, gen, ItemKind(cur_ty), cur_ty.label) /\ phase = "compile"
    BY <1>1, OpenIsMeant DEF Open
<1>4. OpenMeans(scope, src', gen', ty)
    BY <1>2, <1>3, MoreMeans
<1>5. TravMeans'
    BY <1>1, <1>3, <1>4 DEF TravMeans
<1> QED
    BY <1>1, <1>3, <1>5, AnalysisMeans

(* The kinds of types made of others.                                        *)
LEMMA KindsOf ==
    ASSUME NEW label
    PROVE  /\ Many(label).kind \notin Singles /\ into_single(Many(label)).kind \in Singles
           /\ Type("Edges", label).kind \notin Singles
<1>1. \A k, l : Type(k, l).kind = k
    BY SortOf
<1>2. Many(label).kind \in {"Nodes", "Vectors"}
    BY <1>1 DEF Many
<1>3. IsItems(Many(label))
    BY <1>2 DEF IsItems, Plurals
<1> QED
    BY <1>1, <1>2, <1>3, SingleOf DEF Singles

(* The steps to the ends of an edge.                                        *)
LEMMA EndStepMeans ==
    ASSUME TypesInv, MeansInv, Open, HasEdges(cur_ty), NEW op, NEW hop, NEW label,
           EdgeEnd(op, hop, label),
           \/ op = "From" /\ label = Ends[cur_ty.label].from
           \/ op = "To" /\ label = Ends[cur_ty.label].to
    PROVE  MeansInv'
<1>1. IsItems(cur_ty) /\ ItemKind(cur_ty) = "edge" /\ cur_ty.kind \in {"Edge", "Edges"}
    BY KindsHave DEF HasEdges
<1>2. cur_ty.label \in EdgeTypes
    BY <1>1, OpenIsMeant DEF Yields, IsSort
<1>3. label \in NodeTypes \cup VectorTypes
    BY <1>2, EdgeLabels
<1>4. EdgeTypeOf(label) = hop
    BY DEF EdgeEnd
<1> DEFINE st == Step(op, None, hop)
           many == Many(label)
           one == into_single(Many(label))
<1>5. StepMeans(st, "edge", cur_ty.label)
    BY <1>4, EndMeans
<1>6. st.op = op /\ op \notin Idle \cup {"First", "Where"} \cup Hops
    BY DEF Step, Idle, Hops
<1>7. IsItems(many) /\ many.kind \notin Singles /\ IsItems(one) /\ one.kind \in Singles
    BY <1>3, ManyOf, SingleOf, KindsOf
<1>8. \/ cur_ty.kind = "Edges" /\ Extend(st, "ToVec", many)
      \/ cur_ty.kind # "Edges" /\ Extend(st, "ToObj", one)
    BY DEF EdgeEnd
<1>9. cur_ty.kind \in Singles <=> cur_ty.kind # "Edges"
    BY <1>1 DEF Singles
<1> HIDE DEF st, many, one
<1>10. CASE cur_ty.kind = "Edges"
    <2>1. Extend(st, "ToVec", many)
        BY <1>8, <1>10
    <2> QED
        BY <1>1, <1>5, <1>6, <1>7, <1>9, <1>10, <2>1, ExtendMeans
<1>11. CASE cur_ty.kind # "Edges"
    <2>1. Extend(st, "ToObj", one)
        BY <1>8, <1>11
    <2> QED
        BY <1>1, <1>5, <1>6, <1>7, <1>9, <1>11, <2>1, ExtendMeans
<1> QED
    BY <1>10, <1>11

(* Every step along the graph keeps source and generated code the same.     *)
LEMMA GraphStepMeans == TypesInv /\ MeansInv /\ GraphStep => MeansInv'
<1> SUFFICES ASSUME TypesInv, MeansInv, GraphStep PROVE MeansInv'
    OBVIOUS
<1>1. ASSUME NEW e \in EdgeTypes, NEW op \in {"OutE", "InE"}, HasVertices(cur_ty),
             Extend(Step(op, e, None), "ToVec", Type("Edges", e))
      PROVE  MeansInv'
    <2> DEFINE st == Step(op, e, None)
               ty == Type("Edges", e)
    <2>1. StepMeans(st, ItemKind(cur_ty), cur_ty.label)
        BY HopMeans
    <2>2. st.op = op /\ st.op \notin Idle \cup {"First", "Where"} /\ st.op \in Hops
        BY DEF Step, Idle, Hops
    <2>3. IsItems(cur_ty) /\ IsItems(ty) /\ ty.kind \notin Singles
        BY <1>1, KindsHave, SortOf, KindsOf
    <2>4. Extend(st, "ToVec", ty)
        BY <1>1
    <2> HIDE DEF st, ty
    <2> QED
        BY <2>1, <2>2, <2>3, <2>4, ExtendMeans
<1>2. ASSUME NEW e \in EdgeTypes, NEW op, NEW l, HasVertices(cur_ty),
             \/ op = "Out" /\ l = Ends[e].to
             \/ op = "In" /\ l = Ends[e].from,
             Extend(Step(op, e, EdgeTypeOf(l)), "ToVec", Many(l))
      PROVE  MeansInv'
    <2> DEFINE st == Step(op, e, EdgeTypeOf(l))
               ty == Many(l)
    <2>1. StepMeans(st, ItemKind(cur_ty), cur_ty.label)
        BY <1>2, HopMeans
    <2>2. st.op = op /\ st.op \notin Idle \cup {"First", "Where"} /\ st.op \in Hops
        BY <1>2 DEF Step, Idle, Hops
    <2>3. l \in NodeTypes \cup VectorTypes
        BY <1>2, EdgeLabels
    <2>4. IsItems(cur_ty) /\ IsItems(ty) /\ ty.kind \notin Singles
        BY <1>2, <2>3, KindsHave, ManyOf, KindsOf
    <2>5. Extend(st, "ToVec", ty)
        BY <1>2
    <2> HIDE DEF st, ty
    <2> QED
        BY <2>1, <2>2, <2>4, <2>5, ExtendMeans
<1>3. CASE StepOutE \/ StepInE
    BY <1>1, <1>3 DEF StepOutE, StepInE
<1>4. CASE StepOut
    BY <1>2, <1>4 DEF StepOut
<1>5. CASE StepIn
    BY <1>2, <1>5 DEF StepIn
<1>6. CASE StepFromN \/ StepFromV
    BY <1>6, EndStepMeans DEF StepFromN, StepFromV
<1>7. CASE StepToN \/ StepToV
    BY <1>7, EndStepMeans DEF StepToN, StepToV
<1> QED
    BY <1>3, <1>4, <1>5, <1>6, <1>7 DEF GraphStep

-----------------------------------------------------------------------------
(* WHERE, as a step or folded into an index lookup, keeps them the same.    *)
LEMMA WhereStepMeans ==
    ASSUME TypesInv, MeansInv, StepWhere, gaps' = {}
    PROVE  MeansInv'
<1>1. PICK t \in Tests :
          /\ Open /\ IsItems(cur_ty) /\ Write(Filter(t))
          /\ gen' = IF Rewritable(t)
                    THEN Traversal(Start("NFromIndex", gen.start.label, t.eq),
                                   gen.steps, gen.collect, gen.write)
                    ELSE Traversal(gen.start,
                                   Append(gen.steps, Filter(GeneratedTest(t))),
                                   gen.collect, gen.write)
          /\ gaps' = gaps \cup
                (IF Rewritable(t) /\ ~(Ops(gen.steps) \subseteq {"Where"})
                 THEN {"rewritten"} ELSE {}) \cup
                (IF GeneratedTest(t) # t THEN {"negation"} ELSE {})
          /\ UNCHANGED <<scope, cur_ty, closed, query, running>>
    BY DEF StepWhere
<1>2. /\ OpenMeans(scope, src, gen, cur_ty) /\ IsList(gen.steps) /\ ~ closed
      /\ Yields(scope, gen, ItemKind(cur_ty), cur_ty.label) /\ phase = "compile"
    BY <1>1, OpenIsMeant DEF Open
<1>3. GeneratedTest(t) = t /\ (Rewritable(t) => Ops(gen.steps) \subseteq {"Where"})
    BY <1>1
<1> DEFINE st == Filter(t)
<1>4. src'.start = src.start /\ src'.steps = Append(src.steps, st)
    BY <1>1, Written
<1>5. gen'.collect = gen.collect /\ gen'.write = gen.write
    BY <1>1 DEF Traversal
<1>6. st.op = "Where" /\ st.op \notin Idle \cup {"First"} \cup Hops
    BY DEF Filter, Step, Idle, Hops
<1>7. gen'.collect = "ToObj" => cur_ty.kind \in Singles
    BY <1>2, <1>5 DEF OpenMeans
<1>8. CASE ~ Rewritable(t)
    <2>1. gen'.start = gen.start /\ gen'.steps = Append(gen.steps, st)
        BY <1>1, <1>3, <1>8 DEF Traversal
    <2>2. StepMeans(st, ItemKind(cur_ty), cur_ty.label)
        BY PartMeans
    <2>3. \E u : st = Filter(u)
        OBVIOUS
    <2> HIDE DEF st
    <2>4. OpenMeans(scope, src', gen', cur_ty)
        BY <1>2, <1>4, <1>5, <1>6, <1>7, <2>1, <2>2, <2>3, MoreMeans
    <2>5. TravMeans'
        BY <1>1, <1>2, <2>4 DEF TravMeans
    <2> QED
        BY <1>1, <1>2, <2>5, AnalysisMeans
<1>9. CASE Rewritable(t)
    <2>1. gen'.start = Start("NFromIndex", gen.start.label, t.eq) /\ gen'.steps = gen.steps
        BY <1>1, <1>9 DEF Traversal
    <2>2. /\ gen.start.op = "NFromType" /\ cur_ty.kind = "Nodes"
          /\ t.eq # None /\ t.edge = None
        BY <1>9 DEF Rewritable, IsEquality
    <2>3. /\ IsList(src.steps) /\ Same(scope, src, gen) /\ Commutes(gen.steps)
          /\ Ops(gen.steps) \subseteq {"Where"}
        BY <1>2, <1>3, <1>9 DEF OpenMeans
    <2>4. src.start.op # "Variable"
        BY <1>2, <2>2 DEF OpenMeans, FromTheVariable, ByVariable
    <2>5. ItemKind(cur_ty) = "node"
        BY <2>2, KindsHave DEF HasNodes
    <2>6. Yields(scope, gen, "node", cur_ty.label)
        BY <1>2, <2>5
    <2>7. Same(scope, src', gen')
        BY <1>2, <1>4, <1>5, <2>1, <2>2, <2>3, <2>4, <2>6, SameRewritten
    <2> HIDE DEF st
    <2>8. IsList(src'.steps) /\ Ops(src'.steps) = Ops(src.steps) \cup {"Where"}
        BY <1>4, <1>6, <2>3, OneMore, OpsMore
    <2>9. gen'.start.op = "NFromIndex" /\ gen'.start.op \notin ByVariable
        BY <2>1 DEF Start, ByVariable
    <2>10. OneOf(scope, src') <=> OneOf(scope, src)
        BY <1>4, <2>8 DEF OneOf, Hops
    <2>11. "Where" \notin Idle
        BY DEF Idle
    <2>12. OpenMeans(scope, src', gen', cur_ty)
        BY <1>2, <1>4, <1>7, <2>1, <2>3, <2>4, <2>7, <2>8, <2>9, <2>10, <2>11 DEF OpenMeans, ByVariable
    <2>13. TravMeans'
        BY <1>1, <1>2, <2>12 DEF TravMeans
    <2> QED
        BY <1>1, <1>2, <2>13, AnalysisMeans
<1> QED
    BY <1>8, <1>9

(* The traversal must end here.                                              *)
LEMMA ClosedMeans ==
    ASSUME MeansInv, phase = "compile", UNCHANGED <<scope, query, running>>,
           closed' \/ cur_ty'.kind = "Aggregate",
           LetMeans(scope, src', gen'), Looks(query, Len(query), src', gen'),
           IsItems(cur_ty') => cur_ty'.kind \in Singles,
           IsItems(cur_ty') /\ gen'.write = NoWrite => "First" \in Ops(src'.steps)
    PROVE  MeansInv'
<1>1. TravMeans'
    BY DEF TravMeans, Means
<1> QED
    BY <1>1, AnalysisMeans

(* COUNT, and the collection it ends in.                                    *)
LEMMA CountStepMeans ==
    ASSUME TypesInv, MeansInv, StepCount
    PROVE  MeansInv'
<1> DEFINE st == Step("Count", None, None)
<1>1. /\ Open /\ IsItems(cur_ty) /\ Write(st)
      /\ gen' = Traversal(gen.start, Append(gen.steps, st), "No", gen.write)
      /\ cur_ty' = Type("Count", None) /\ UNCHANGED <<scope, closed, query, running>>
    BY DEF StepCount, Extend
<1>2. /\ OpenMeans(scope, src, gen, cur_ty) /\ IsList(gen.steps) /\ ~ closed
      /\ gen.write = NoWrite /\ phase = "compile"
    BY <1>1, OpenIsMeant DEF Open
<1>3. st.op = "Count" /\ st.op \in Idle
    BY DEF Step, Idle
<1> HIDE DEF st
<1>4. /\ gen'.start = gen.start /\ gen'.steps = Append(gen.steps, st)
      /\ gen'.collect = "No" /\ gen'.write = NoWrite
    BY <1>1, <1>2 DEF Traversal
<1>5. src'.start = src.start /\ src'.steps = Append(src.steps, st)
    BY <1>1, Written
<1>6. IsList(src.steps) /\ Same(scope, src, gen)
    BY <1>2 DEF OpenMeans
<1>7. Same(scope, src', gen)
    BY <1>3, <1>5, <1>6, SameIdle
<1>8. Same(scope, src', gen')
    BY <1>2, <1>3, <1>4, <1>7, SameIdleRun
<1>9. LetMeans(scope, src', gen')
    BY <1>2, <1>3, <1>4, <1>5, <1>6, <1>8, LetSummary
<1>10. src'.start.op = "Variable" => FromTheVariable(src', gen') /\ FromTheVariable(src', gen)
    BY <1>2, <1>4, <1>5 DEF OpenMeans, FromTheVariable
<1>11. CountMeans(scope, src', gen')
    <2>1. IsList(src'.steps)
        BY <1>5, <1>6, OneMore
    <2> QED
        BY <1>2, <1>4, <1>7, <1>10, <2>1 DEF CountMeans
<1>12. Means(query, scope, src', gen')
    BY <1>9, <1>10 DEF Means, Looks
<1>13. cur_ty'.kind = "Count"
    BY <1>1, SortOf
<1>14. TravMeans'
    BY <1>1, <1>2, <1>11, <1>12, <1>13 DEF TravMeans
<1> QED
    BY <1>1, <1>2, <1>14, AnalysisMeans

(* A list and one more entry, without its last.                             *)
LEMMA FrontOfMore ==
    ASSUME NEW s, IsList(s), NEW e
    PROVE  Front(Append(s, e)) = s
<1> DEFINE T == Entries(s) \cup {e}
           r == Append(s, e)
           n == Len(s)
<1>1. IsList(r) /\ Len(r) = n + 1 /\ n \in Nat /\ (\A i \in 1 .. n : r[i] = s[i])
    BY OneMore, ListFacts
<1>2. s = [i \in 1 .. n |-> s[i]]
    BY ListFacts
<1> HIDE DEF r, n
<1>3. (n + 1) - 1 = n
    BY <1>1
<1>4. Front(r) = SubSeq(r, 1, n)
    BY <1>1, <1>3 DEF Front
<1>5. \A i \in 1 .. n : r[i] \in Entries(r)
    <2>1. DOMAIN r = 1 .. n + 1
        BY <1>1, ListFacts
    <2> QED
        BY <1>1, <2>1 DEF Entries
<1>6. /\ SubSeq(r, 1, n) \in Seq(Entries(r)) /\ Len(SubSeq(r, 1, n)) = n
      /\ \A i \in 1 .. n : SubSeq(r, 1, n)[i] = r[i]
    <2>1. /\ Len(SubSeq(r, 1, n)) = IF 1 <= n THEN n - 1 + 1 ELSE 0
          /\ SubSeq(r, 1, n) \in Seq(Entries(r))
          /\ \A i \in 1 .. n - 1 + 1 : SubSeq(r, 1, n)[i] = r[1 + i - 1]
        BY <1>1, <1>5, SubSeqProperties
    <2> QED
        BY <1>1, <2>1
<1> DEFINE q == SubSeq(r, 1, n)
<1>7. q = [i \in 1 .. n |-> q[i]]
    <2>1. IsList(q) /\ Len(q) = n
        BY <1>6, ListIn
    <2> HIDE DEF q
    <2> QED
        BY <2>1, ListFacts
<1>8. \A i \in 1 .. n : q[i] = s[i]
    BY <1>1, <1>6
<1> HIDE DEF q
<1>9. q = s
    BY <1>2, <1>7, <1>8
<1> QED
    BY <1>4, <1>9 DEF q, r

(* AGGREGATE_BY and GROUP_BY.                                               *)
LEMMA GroupingMeans ==
    ASSUME TypesInv, MeansInv, NEW op \in {"AggregateBy", "GroupBy"}, Grouping(op), gaps' = {}
    PROVE  MeansInv'
<1> DEFINE st == Step(op, None, None)
           kept == IF gen.steps = <<>> THEN <<>> ELSE Front(gen.steps)
<1>1. /\ Open /\ Write(st) /\ (HasNodes(cur_ty) \/ cur_ty.kind = "Count")
      /\ gen' = Traversal(gen.start, Append(kept, st), "Try", gen.write)
      /\ cur_ty' = Type("Aggregate", None) /\ UNCHANGED <<scope, closed, query, running>>
      /\ gaps' = IF gen.steps # <<>> /\ cur_ty.kind # "Count"
                 THEN gaps \cup {"swallowed"} ELSE gaps
    BY DEF Grouping, GroupCollect
<1>2. OpenTyped /\ phase = "compile" /\ ~ closed /\ cur_ty # NoType /\ gen.write = NoWrite
    BY <1>1, OpenIsTyped DEF Open, OpenTyped
<1>3. st.op = op /\ st.op \in Idle
    BY DEF Step, Idle
<1>4. PICK d : /\ IsList(src.steps) /\ IsList(d.steps) /\ d.steps = kept
               /\ d.start = gen.start /\ d.write = NoWrite /\ Same(scope, src, d)
               /\ src.start.op = "Variable" => FromTheVariable(src, d)
    <2>1. CASE cur_ty.kind = "Count"
        <3>1. CountMeans(scope, src, gen)
            BY <1>2, <2>1 DEF MeansInv, TravMeans, IsItems, Singles, Plurals
        <3>2. PICK d : /\ IsList(src.steps) /\ IsList(d.steps) /\ d.start = gen.start
                       /\ d.write = NoWrite /\ (\E e : gen.steps = Append(d.steps, e))
                       /\ Same(scope, src, d)
                       /\ src.start.op = "Variable" => FromTheVariable(src, d)
            BY <3>1 DEF CountMeans
        <3>3. PICK e : gen.steps = Append(d.steps, e)
            BY <3>2
        <3>4. d.steps = kept
            BY <3>2, <3>3, OneMore, FrontOfMore
        <3> QED
            BY <3>2, <3>4
    <2>2. CASE cur_ty.kind # "Count"
        <3>1. IsItems(cur_ty) /\ gen.steps = <<>>
            BY <1>1, <2>2, KindsHave
        <3>2. OpenMeans(scope, src, gen, cur_ty) /\ IsList(gen.steps) /\ gen.write = NoWrite
            BY <1>1, <3>1, OpenIsMeant
        <3>3. kept = gen.steps
            BY <3>1
        <3> QED
            BY <3>2, <3>3 DEF OpenMeans
    <2> QED
        BY <2>1, <2>2
<1> HIDE DEF st, kept
<1>5. /\ gen'.start = d.start /\ gen'.steps = Append(d.steps, st)
      /\ gen'.collect = "Try" /\ gen'.write = NoWrite
    BY <1>1, <1>2, <1>4 DEF Traversal
<1>6. src'.start = src.start /\ src'.steps = Append(src.steps, st)
    BY <1>1, Written
<1>7. Same(scope, src', d)
    BY <1>3, <1>4, <1>6, SameIdle
<1>8. Same(scope, src', gen')
    BY <1>3, <1>4, <1>5, <1>7, SameIdleRun
<1>9. LetMeans(scope, src', gen')
    BY <1>3, <1>4, <1>5, <1>6, <1>8, LetSummary
<1>10. Looks(query, Len(query), src', gen')
    BY <1>4, <1>5, <1>6 DEF Looks, FromTheVariable
<1>11. cur_ty'.kind = "Aggregate" /\ ~ IsItems(cur_ty')
    BY <1>1, SortOf DEF IsItems, Singles, Plurals
<1> QED
    BY <1>1, <1>2, <1>9, <1>10, <1>11, ClosedMeans

(* Every step that filters, orders or counts keeps them the same, if no     *)
(* construct in gaps was met.                                               *)
LEMMA UtilStepMeans == TypesInv /\ MeansInv /\ UtilStep /\ gaps' = {} => MeansInv'
<1> SUFFICES ASSUME TypesInv, MeansInv, UtilStep, gaps' = {} PROVE MeansInv'
    OBVIOUS
<1>1. CASE StepWhere
    BY <1>1, WhereStepMeans
<1>2. CASE StepRange
    <2>1. PICK lo \in 0 .. 1 : /\ Open /\ IsItems(cur_ty)
                               /\ Extend(Window(lo, lo + 1), gen.collect, cur_ty)
        BY <1>2 DEF StepRange
    <2> DEFINE st == Window(lo, lo + 1)
    <2>2. lo \in Nat /\ lo + 1 \in Nat
        OBVIOUS
    <2>3. StepMeans(st, ItemKind(cur_ty), cur_ty.label)
        BY <2>2, PartMeans
    <2>4. st.op = "Range" /\ st.op \notin Idle \cup {"First", "Where"} \cup Hops
        BY DEF Window, Step, Idle, Hops
    <2>5. gen.collect = "ToObj" => cur_ty.kind \in Singles
        BY <2>1, OpenIsMeant DEF OpenMeans
    <2> HIDE DEF st
    <2>6. Extend(st, gen.collect, cur_ty)
        BY <2>1 DEF st
    <2> QED
        BY <2>1, <2>3, <2>4, <2>5, <2>6, ExtendMeans
<1>3. CASE StepCount
    BY <1>3, CountStepMeans
<1>4. CASE StepAggregate \/ StepGroupBy
    BY <1>4, GroupingMeans DEF StepAggregate, StepGroupBy
<1> QED
    BY <1>1, <1>2, <1>3, <1>4 DEF UtilStep

-----------------------------------------------------------------------------
(* FIRST, which is taken off the steps and becomes the way to collect.      *)
LEMMA FirstStepMeans ==
    ASSUME TypesInv, MeansInv, StepFirst
    PROVE  MeansInv'
<1> DEFINE st == Step("First", None, None)
<1>1. /\ Open /\ IsItems(cur_ty) /\ Write(st) /\ closed'
      /\ gen' = Traversal(gen.start, gen.steps, "ToObj", gen.write)
      /\ cur_ty' = into_single(cur_ty) /\ UNCHANGED <<scope, query, running>>
    BY DEF StepFirst, Close
<1>2. /\ OpenMeans(scope, src, gen, cur_ty) /\ gen.write = NoWrite
      /\ Yields(scope, gen, ItemKind(cur_ty), cur_ty.label) /\ phase = "compile"
    BY <1>1, OpenIsMeant
<1>3. /\ gen'.start = gen.start /\ gen'.steps = gen.steps
      /\ gen'.collect = "ToObj" /\ gen'.write = gen.write
    BY <1>1 DEF Traversal
<1>4. src'.start = src.start /\ src'.steps = Append(src.steps, st)
    BY <1>1, Written
<1>5. /\ IsList(src.steps) /\ Same(scope, src, gen) /\ Ops(src.steps) \cap Idle = {}
    BY <1>2 DEF OpenMeans
<1>6. LetMeans(scope, src', gen')
    BY <1>2, <1>3, <1>4, <1>5, LetFirst
<1>7. Looks(query, Len(query), src', gen')
    BY <1>2, <1>3, <1>4 DEF OpenMeans, Looks, FromTheVariable
<1>8. "First" \in Ops(src'.steps)
    <2>1. st.op = "First"
        BY DEF Step
    <2> HIDE DEF st
    <2> QED
        BY <1>4, <1>5, <2>1, OpsMore
<1>9. cur_ty'.kind \in Singles
    BY <1>1, SingleOf
<1> QED
    BY <1>1, <1>2, <1>6, <1>7, <1>8, <1>9, ClosedMeans

(* A write is given what the traversal means: from the source and the steps, *)
(* from the variable it starts from, or from a lookup in its place.          *)
LEMMA MutateMeans ==
    ASSUME TypesInv, MeansInv, NEW op \in {"Update", "UpsertN"}, NEW v, NEW w, NEW start,
           Mutate(op, v, w, start), w.op = op, w.val = v, w.label = cur_ty.label,
           \/ /\ w.source = None /\ start = gen.start /\ gen.start.op \notin ByVariable
           \/ /\ w.source = gen.start.key /\ start = gen.start
              /\ gen.start.op \in ByVariable /\ gen.steps = <<>>
           \/ /\ w.source = None /\ gen.start.op = "FromSingle" /\ start.op = "NFromIndex"
              /\ \A c : c.start = start => LookedUp(query, Len(query), src, c)
    PROVE  MeansInv'
<1> DEFINE st == [Step(op, cur_ty.label, None) EXCEPT !.test = v]
<1>1. /\ Open /\ HasNodes(cur_ty) /\ Write(st) /\ closed'
      /\ gen' = Traversal(start, gen.steps, "No", w)
      /\ cur_ty' = into_single(cur_ty) /\ UNCHANGED <<scope, query, running>>
    BY DEF Mutate, Close
<1>2. IsItems(cur_ty)
    BY <1>1, KindsHave
<1>3. /\ OpenMeans(scope, src, gen, cur_ty) /\ gen.write = NoWrite /\ phase = "compile"
      /\ OpenTyped
    BY <1>1, <1>2, OpenIsMeant
<1>4. /\ gen'.start = start /\ gen'.steps = gen.steps /\ gen'.write = w
    BY <1>1 DEF Traversal
<1>5. src'.start = src.start /\ src'.steps = Append(src.steps, st)
    BY <1>1, Written
<1>6. st.op = op /\ st.test = v /\ st.label = cur_ty.label /\ st.op \in Idle
    BY DEF Step, Idle
<1> HIDE DEF st
<1>7. /\ IsList(src.steps) /\ Same(scope, src, gen)
      /\ src.start.op = "Variable" => FromTheVariable(src, gen)
      /\ gen.start.op \in ByVariable => src.start.op = "Variable"
    BY <1>3 DEF OpenMeans
<1>8. Same(scope, src', gen)
    BY <1>5, <1>6, <1>7, SameIdle
<1>9. gen.write.source = None
    BY <1>3 DEF NoWrite
<1>10. /\ \A g, nl, vl, vs :
              Context(scope, g, nl, vl, vs, src', gen') =>
                  Meant(g, vs, src') = IF gen'.write.source # None THEN vs[gen'.write.source].items
                                       ELSE Yielded(g, vs, gen')
       /\ Looks(query, Len(query), src', gen')
    <2>1. CASE /\ w.source = None /\ start = gen.start /\ gen.start.op \notin ByVariable
        <3>1. Reads(gen') = Reads(gen)
            BY <1>4, <1>9, <2>1 DEF Reads
        <3>2. Same(scope, src', gen')
            BY <1>4, <1>8, <2>1, <3>1, SameParts
        <3>3. src'.start.op # "Variable"
            BY <1>5, <1>7, <2>1 DEF FromTheVariable
        <3> QED
            BY <1>4, <2>1, <3>2, <3>3 DEF Same, Looks
    <2>2. CASE /\ w.source = gen.start.key /\ start = gen.start
               /\ gen.start.op \in ByVariable /\ gen.steps = <<>>
        <3> DEFINE x == gen.start.key
        <3>1. x # None
            BY <1>3, <2>2 DEF OpenTyped, Reads, TypesInv, ScopeOK
        <3>2. Reads(gen') = Reads(gen)
            BY <1>4, <1>9, <2>2, <3>1 DEF Reads
        <3>3. Same(scope, src', gen')
            BY <1>4, <1>8, <2>2, <3>2, SameParts
        <3>4. \A g, vs : Yielded(g, vs, gen') = vs[x].items
            BY <1>4, <2>2, AfterNothing DEF Yielded, Fetch, ByVariable
        <3>5. Looks(query, Len(query), src', gen')
            BY <1>4, <1>5, <1>7, <2>2 DEF Looks, FromTheVariable
        <3> HIDE DEF x
        <3>6. gen'.write.source = x
            BY <1>4, <2>2 DEF x
        <3> QED
            BY <3>1, <3>3, <3>4, <3>5, <3>6 DEF Same
    <2>3. CASE /\ w.source = None /\ gen.start.op = "FromSingle" /\ start.op = "NFromIndex"
               /\ \A c : c.start = start => LookedUp(query, Len(query), src, c)
        <3>1. src.start.op = "Variable" /\ gen.start.key = src.start.key
            BY <1>7, <2>3 DEF FromTheVariable, ByVariable
        <3>2. Same(scope, src, gen')
            BY <1>3, <1>4, <1>7, <2>3, <3>1, SameInlined
        <3>3. Same(scope, src', gen')
            BY <1>5, <1>6, <1>7, <3>2, SameIdle
        <3>4. LookedUp(query, Len(query), src, gen')
            BY <1>4, <2>3
        <3>5. LookedUp(query, Len(query), src', gen')
            BY <1>5, <3>4 DEF LookedUp
        <3> QED
            BY <1>4, <2>3, <3>3, <3>5 DEF Same, Looks
    <2> QED
        BY <2>1, <2>2, <2>3
<1>11. LetMeans(scope, src', gen')
    BY <1>4, <1>5, <1>6, <1>7, <1>10, LetWrite
<1>12. cur_ty'.kind \in Singles
    BY <1>1, <1>2, SingleOf
<1>13. gen'.write # NoWrite
    BY <1>4 DEF NoWrite
<1> QED
    BY <1>1, <1>3, <1>10, <1>11, <1>12, <1>13, ClosedMeans

(* UpsertN.                                                                 *)
LEMMA UpsertMeans ==
    ASSUME IInv, TypesInv, MeansInv, StepUpsertN, gaps' = {}
    PROVE  MeansInv'
<1> DEFINE x == gen.start.key
           start == IF Inlined THEN scope[x].index ELSE gen.start
<1>1. PICK v, w :
          /\ v \in Vals
          /\ w = [op |-> "UpsertN", label |-> cur_ty.label, val |-> v,
                  source |-> IF FromVariable /\ ~Inlined THEN gen.start.key ELSE None]
          /\ Mutate("UpsertN", v, w, start)
          /\ gaps' = gaps \cup LosesSteps(w) \cup
                (IF Inlined /\ (is_mut \/ Refined(x)) THEN {"reread"} ELSE {})
    BY DEF StepUpsertN
<1>2. /\ w.op = "UpsertN" /\ w.label = cur_ty.label /\ w.val = v
      /\ w.source = IF FromVariable /\ ~Inlined THEN gen.start.key ELSE None
    BY <1>1
<1>3. w.source # None => gen.steps = <<>>
    BY <1>1 DEF LosesSteps
<1>4. /\ OpenMeans(scope, src, gen, cur_ty) /\ OpenTyped
      /\ phase = "compile" /\ gen.write = NoWrite
    BY <1>1, KindsHave, OpenIsMeant DEF Mutate
<1>5. FromVariable => x \in DOMAIN scope /\ x # None
    BY <1>4 DEF FromVariable, OpenTyped, Reads, ByVariable, TypesInv, ScopeOK
<1>6. FromVariable <=> gen.start.op \in ByVariable
    BY DEF FromVariable, ByVariable
<1>7. Mutate("UpsertN", v, w, start)
    BY <1>1
<1>8. CASE Inlined
    <2>1. FromVariable /\ gen.start.op = "FromSingle" /\ scope[x].index # NoIndex
        BY <1>8 DEF Inlined, FromVariable
    <2>2. ~ is_mut /\ ~ Refined(x)
        BY <1>1, <1>8
    <2>3. \A k \in DOMAIN query : ~ Writes(query[k])
        BY <2>2 DEF IInv, FlagAgrees
    <2>4. PICK k \in DOMAIN query : query[k].kind = "let" /\ query[k].var = x
        BY <1>5, <2>1 DEF TypesInv, ScopeOK
    <2> DEFINE s == query[k]
    <2>5. scope[x].index.op = "NFromIndex" /\ s.gen.start = scope[x].index
        <3>1. scope[x].index.op = "NFromIndex"
            BY <1>5, <2>1 DEF TypesInv, ScopeOK
        <3>2. StatementMeans(scope, s)
            BY DEF MeansInv, QueryMeans
        <3> QED
            BY <2>1, <2>4, <3>1, <3>2 DEF StatementMeans
    <2>6. s.gen.steps = <<>>
        BY <2>2, <2>4 DEF Refined
    <2>7. s.gen.write = NoWrite
        BY <2>3 DEF Writes
    <2>8. scope[x].single /\ IsItems(scope[x].ty)
        BY <1>4, <1>6, <2>1 DEF OpenMeans, FromTheVariable
    <2>9. s.gen.collect = "ToObj"
        <3>1. StatementTyped(scope, s)
            BY DEF TypesInv, QueryOK
        <3>2. SingleAgrees(s.gen, scope[x])
            BY <2>4, <3>1 DEF StatementTyped
        <3> QED
            BY <2>7, <2>8, <3>2 DEF SingleAgrees
    <2>10. PlainLookup(s) /\ s.var = x
        BY <2>4, <2>5, <2>6, <2>7, <2>9 DEF PlainLookup
    <2>11. DOMAIN query = 1 .. Len(query)
        BY ListIn, ListFacts DEF IInv, QueryShape
    <2>12. start = scope[x].index
        BY <1>8
    <2>13. src.start.key = x
        BY <1>4, <1>6, <2>1 DEF OpenMeans, FromTheVariable
    <2> HIDE DEF start, x
    <2>14. \A c : c.start = start => LookedUp(query, Len(query), src, c)
        BY <2>3, <2>5, <2>10, <2>11, <2>12, <2>13 DEF LookedUp
    <2>15. w.source = None /\ start.op = "NFromIndex"
        BY <1>2, <1>8, <2>5, <2>12
    <2> QED
        BY <1>2, <1>7, <2>1, <2>14, <2>15, MutateMeans
<1>9. CASE ~ Inlined
    <2>1. start = gen.start
        BY <1>9
    <2> HIDE DEF start
    <2>2. CASE FromVariable
        <3>1. w.source = gen.start.key /\ gen.steps = <<>>
            BY <1>2, <1>3, <1>5, <1>9, <2>2
        <3> QED
            BY <1>2, <1>6, <1>7, <2>1, <2>2, <3>1, MutateMeans
    <2>3. CASE ~ FromVariable
        <3>1. w.source = None
            BY <1>2, <2>3
        <3> QED
            BY <1>2, <1>6, <1>7, <2>1, <2>3, <3>1, MutateMeans
    <2> QED
        BY <2>2, <2>3
<1> QED
    BY <1>8, <1>9

(* UPDATE.                                                                  *)
LEMMA UpdateStepMeans ==
    ASSUME TypesInv, MeansInv, StepUpdate, gaps' = {}
    PROVE  MeansInv'
<1>1. PICK v, w :
          /\ v \in Vals
          /\ w = [op |-> "Update", label |-> cur_ty.label, val |-> v,
                  source |-> IF FromVariable THEN gen.start.key ELSE None]
          /\ Mutate("Update", v, w, gen.start)
          /\ gaps' = gaps \cup LosesSteps(w)
    BY DEF StepUpdate
<1>2. /\ w.op = "Update" /\ w.label = cur_ty.label /\ w.val = v
      /\ w.source = IF FromVariable THEN gen.start.key ELSE None
    BY <1>1
<1>3. w.source # None => gen.steps = <<>>
    BY <1>1 DEF LosesSteps
<1>4. FromVariable => gen.start.key # None
    <2>1. OpenTyped
        BY <1>1, OpenIsTyped DEF Mutate
    <2> QED
        BY <2>1 DEF FromVariable, OpenTyped, Reads, ByVariable, TypesInv, ScopeOK
<1>5. FromVariable <=> gen.start.op \in ByVariable
    BY DEF FromVariable, ByVariable
<1>6. CASE FromVariable
    BY <1>1, <1>2, <1>3, <1>4, <1>5, <1>6, MutateMeans
<1>7. CASE ~ FromVariable
    BY <1>1, <1>2, <1>5, <1>7, MutateMeans
<1> QED
    BY <1>6, <1>7

(* Every step that must come last keeps them the same, if no construct in   *)
(* gaps was met.                                                            *)
LEMMA LastStepMeans == IInv /\ TypesInv /\ MeansInv /\ LastStep /\ gaps' = {} => MeansInv'
    BY FirstStepMeans, UpdateStepMeans, UpsertMeans DEF LastStep

-----------------------------------------------------------------------------
(* A statement looks back only at those before it.                          *)
LEMMA LooksBack ==
    ASSUME NEW q, NEW r, NEW n \in Nat, \A i \in 1 .. n : r[i] = q[i], NEW w, NEW c,
           Looks(q, n, w, c)
    PROVE  Looks(r, n, w, c)
    BY DEF Looks, LookedUp

(* A statement that is done is one whose parts mean what they say, in the   *)
(* scope that it widens.                                                    *)
LEMMA EndStatementMeans ==
    ASSUME IInv, TypesInv, MeansInv, phase = "compile", NEW s, query' = Append(query, s),
           cur_ty' = NoType, UNCHANGED running, Wider(scope, scope'), ScopeMeans',
           StatementMeans(scope', s), Looks(query, Len(query), s.src, s.gen),
           s.kind = "let" => s.var \notin DOMAIN scope
    PROVE  MeansInv'
<1> DEFINE n == Len(query)
<1>1. UNCHANGED <<phase, pos, db, env, want, wantEnv, wantOk>>
    BY DEF running
<1>2. IsList(query) /\ n \in Nat /\ DOMAIN query = 1 .. n
    BY ListIn, ListFacts DEF IInv, QueryShape
<1>3. /\ Len(query') = n + 1 /\ IsList(query') /\ query'[n + 1] = s
      /\ \A i \in 1 .. n : query'[i] = query[i]
    BY <1>2, OneMore
<1>4. DOMAIN query' = 1 .. n + 1
    BY <1>3, ListFacts
<1>5. Looks(query, n, s.src, s.gen)
    OBVIOUS
<1> HIDE DEF n
<1>6. ASSUME NEW k \in 1 .. n
      PROVE  query[k].kind = "let" =>
                 query[k].var \in DOMAIN scope /\ scope'[query[k].var] = scope[query[k].var]
    <2>1. StatementTyped(scope, query[k])
        BY <1>2 DEF TypesInv, QueryOK
    <2> QED
        BY <2>1 DEF StatementTyped, Wider
<1>7. ASSUME NEW k \in 1 .. n + 1
      PROVE  StatementMeans(scope', query'[k]) /\ Looks(query', k - 1, query'[k].src, query'[k].gen)
    <2>1. CASE k \in 1 .. n
        <3>1. query'[k] = query[k] /\ k \in DOMAIN query /\ k - 1 \in Nat
              /\ \A i \in 1 .. k - 1 : query'[i] = query[i]
            BY <1>2, <1>3, <2>1
        <3>2. /\ StatementMeans(scope, query[k])
              /\ Looks(query, k - 1, query[k].src, query[k].gen)
            BY <3>1 DEF MeansInv, QueryMeans
        <3>3. StatementMeans(scope', query[k])
            BY <1>6, <2>1, <3>2, WiderMeans DEF StatementMeans
        <3>4. Looks(query', k - 1, query[k].src, query[k].gen)
            BY <3>1, <3>2, LooksBack
        <3> QED
            BY <3>1, <3>3, <3>4
    <2>2. CASE k = n + 1
        <3>1. Looks(query', n, s.src, s.gen)
            BY <1>2, <1>3, <1>5, LooksBack
        <3>2. query'[k] = s /\ k - 1 = n
            BY <1>2, <1>3, <2>2
        <3> QED
            BY <3>1, <3>2
    <2> QED
        BY <1>2, <2>1, <2>2
<1>8. ASSUME NEW j \in 1 .. n + 1, NEW k \in 1 .. n + 1,
             query'[j].kind = "let", query'[k].kind = "let", query'[j].var = query'[k].var
      PROVE  j = k
    <2>1. \A i \in 1 .. n + 1 : i \in 1 .. n \/ i = n + 1
        BY <1>2
    <2>2. CASE j \in 1 .. n /\ k \in 1 .. n
        <3>1. query'[j] = query[j] /\ query'[k] = query[k]
            BY <1>3, <2>2
        <3> QED
            BY <1>2, <1>8, <2>2, <3>1 DEF MeansInv, QueryMeans
    <2>3. CASE j \in 1 .. n /\ k = n + 1
        <3>1. query'[j] = query[j] /\ query'[k] = s
            BY <1>3, <2>3
        <3>2. query[j].var \in DOMAIN scope
            BY <1>6, <1>8, <2>3, <3>1
        <3> QED
            BY <1>8, <3>1, <3>2
    <2>4. CASE j = n + 1 /\ k \in 1 .. n
        <3>1. query'[k] = query[k] /\ query'[j] = s
            BY <1>3, <2>4
        <3>2. query[k].var \in DOMAIN scope
            BY <1>6, <1>8, <2>4, <3>1
        <3> QED
            BY <1>8, <3>1, <3>2
    <2> QED
        BY <2>1, <2>2, <2>3, <2>4
<1>9. QueryMeans'
    BY <1>4, <1>7, <1>8 DEF QueryMeans
<1>10. TravMeans'
    BY DEF TravMeans
<1>11. RunMeans'
    BY <1>1 DEF MeansInv, RunMeans, SameAsMeant
<1> QED
    BY <1>9, <1>10, <1>11 DEF MeansInv

(* x <- traversal.                                                           *)
LEMMA AssignmentMeans ==
    ASSUME IInv, TypesInv, MeansInv, Assignment, gaps' = {}
    PROVE  MeansInv'
<1> DEFINE info == [ty |-> cur_ty, single |-> IsSingle(gen.collect, cur_ty),
                    index |-> IF gen.start.op = "NFromIndex" THEN gen.start ELSE NoIndex]
<1>1. PICK x \in Vars \ DOMAIN scope :
          /\ Complete
          /\ scope' = [y \in DOMAIN scope \cup {x} |-> IF y # x THEN scope[y] ELSE info]
          /\ gaps' = IF cur_ty.kind \in Singles /\ gen.collect = "ToVec"
                     THEN gaps \cup {"single"} ELSE gaps
          /\ EndStatement("let", x, gen)
    BY DEF Assignment
<1> DEFINE s == [kind |-> "let", var |-> x, src |-> src, gen |-> gen]
<1>2. /\ phase = "compile" /\ cur_ty # NoType /\ cur_ty' = NoType
      /\ query' = Append(query, s) /\ UNCHANGED running
    BY <1>1 DEF Complete, EndStatement
<1>3. s.kind = "let" /\ s.var = x /\ s.gen = gen /\ s.src = src
    OBVIOUS
<1>4. /\ info.ty = cur_ty /\ info.single = IsSingle(gen.collect, cur_ty)
      /\ info.index = IF gen.start.op = "NFromIndex" THEN gen.start ELSE NoIndex
    OBVIOUS
<1> HIDE DEF s, info
<1>5. /\ DOMAIN scope' = DOMAIN scope \cup {x} /\ scope'[x] = info /\ Wider(scope, scope')
      /\ \A y \in DOMAIN scope : scope'[y] = scope[y]
    BY <1>1 DEF Wider
<1>6. GenTyped(scope, gen, cur_ty)
    BY <1>2 DEF TypesInv, GenOK
<1>7. ~ (cur_ty.kind \in Singles /\ gen.collect = "ToVec")
    BY <1>1
<1>8. /\ LetMeans(scope, src, gen) /\ Looks(query, Len(query), src, gen)
      /\ IsItems(cur_ty) /\ gen.collect = "ToObj" => cur_ty.kind \in Singles
    <2>1. CASE ~ closed /\ IsItems(cur_ty) /\ OpenMeans(scope, src, gen, cur_ty)
        <3>1. gen.write = NoWrite
            BY <1>2, <2>1 DEF TypesInv, GenOK
        <3>2. gen.collect \in {"ToVec", "ToObj"}
            BY <1>6, <2>1, <3>1, OpenItems DEF ItemsTyped
        <3>3. gen.collect = "ToObj" <=> OneOf(scope, src)
            BY <1>7, <2>1, <3>2 DEF OpenMeans
        <3>4. LetMeans(scope, src, gen)
            BY <2>1, <3>1, <3>2, <3>3, LetOpen DEF OpenMeans
        <3> QED
            BY <2>1, <3>4, OpenLooks DEF OpenMeans
    <2>2. CASE Means(query, scope, src, gen) /\ cur_ty.kind = "Count"
        <3>1. ~ IsItems(cur_ty)
            BY <2>2 DEF IsItems, Singles, Plurals
        <3> QED
            BY <2>2, <3>1 DEF Means
    <2>3. CASE Means(query, scope, src, gen) /\ (IsItems(cur_ty) => cur_ty.kind \in Singles)
        BY <2>3 DEF Means
    <2> QED
        BY <1>2, <2>1, <2>2, <2>3 DEF MeansInv, TravMeans
<1>9. ScopeMeans'
    <2>1. IsItems(info.ty) => (info.single <=> info.ty.kind \in Singles)
        BY <1>4, <1>8 DEF IsSingle
    <2>2. \A y \in DOMAIN scope :
              IsItems(scope[y].ty) => (scope[y].single <=> scope[y].ty.kind \in Singles)
        BY DEF MeansInv, ScopeMeans
    <2> QED
        BY <1>5, <2>1, <2>2 DEF ScopeMeans
<1>10. LetMeans(scope', src, gen)
    BY <1>5, <1>8, WiderMeans
<1>11. info.index # NoIndex => gen.start = info.index
    BY <1>4
<1>12. StatementMeans(scope', s)
    BY <1>3, <1>5, <1>10, <1>11 DEF StatementMeans
<1> QED
    BY <1>2, <1>3, <1>5, <1>8, <1>9, <1>12, EndStatementMeans

(* DROP.                                                                    *)
LEMMA DropStatementMeans ==
    ASSUME IInv, TypesInv, MeansInv, DropStatement, gaps' = {}
    PROVE  MeansInv'
<1> DEFINE c == Traversal(gen.start, gen.steps, "No", gen.write)
           s == [kind |-> "drop", var |-> None, src |-> src, gen |-> c]
<1>1. /\ phase = "compile" /\ cur_ty # NoType /\ cur_ty' = NoType
      /\ IsItems(cur_ty) /\ gen.write = NoWrite
      /\ gaps' = IF "First" \in Ops(src.steps) THEN gaps \cup {"first"} ELSE gaps
      /\ query' = Append(query, s) /\ UNCHANGED running /\ UNCHANGED scope
    BY DEF DropStatement, Complete, EndStatement
<1>2. c.start = gen.start /\ c.steps = gen.steps /\ c.write = gen.write
    BY DEF Traversal
<1> HIDE DEF c
<1>3. s.kind = "drop" /\ s.gen = c /\ s.src = src
    OBVIOUS
<1> HIDE DEF s
<1>4. "First" \notin Ops(src.steps)
    BY <1>1
<1>5. cur_ty.kind \notin {"Count", "Aggregate"}
    BY <1>1 DEF IsItems, Singles, Plurals
<1>6. OpenMeans(scope, src, gen, cur_ty)
    BY <1>1, <1>4, <1>5 DEF MeansInv, TravMeans
<1>7. Reads(c) = Reads(gen)
    BY <1>2 DEF Reads
<1>8. Same(scope, src, c)
    BY <1>2, <1>6, <1>7, SameParts DEF OpenMeans
<1>9. Looks(query, Len(query), src, c)
    BY <1>2, <1>6 DEF OpenMeans, Looks, FromTheVariable
<1>10. Wider(scope, scope') /\ scope' = scope
    BY <1>1 DEF Wider
<1>11. StatementMeans(scope', s)
    BY <1>3, <1>8, <1>10 DEF StatementMeans
<1>12. ScopeMeans'
    BY <1>10 DEF MeansInv, ScopeMeans
<1> QED
    BY <1>1, <1>3, <1>9, <1>10, <1>11, <1>12, EndStatementMeans

(* The compiled query begins to run on a whole graph, with no variable      *)
(* bound.                                                                   *)
LEMMA DeployMeans ==
    ASSUME IInv, MeansInv, Deploy
    PROVE  MeansInv'
<1>1. PICK g \in Graphs : db' = g /\ want' = g
    BY DEF Deploy
<1>2. /\ phase = "compile" /\ phase' = "run" /\ pos' = pos
      /\ UNCHANGED <<scope, src, gen, cur_ty, closed, query, env, wantEnv, wantOk>>
    BY DEF Deploy, analysis
<1>3. pos = 0
    BY <1>2 DEF IInv, RunShape
<1>4. ScopeMeans' /\ QueryMeans'
    BY <1>2 DEF MeansInv, ScopeMeans, QueryMeans
<1>5. TravMeans'
    BY <1>2 DEF MeansInv, TravMeans
<1>6. Whole(g)
    BY GraphWhole
<1>7. RunMeans'
    <2>1. SameAsMeant'
        BY <1>1, <1>2 DEF MeansInv, RunMeans, SameAsMeant
    <2> QED
        BY <1>1, <1>2, <1>3, <1>6, <2>1 DEF RunMeans
<1> QED
    BY <1>4, <1>5, <1>7 DEF MeansInv

-----------------------------------------------------------------------------
(* A statement leaves a whole graph whole.                                   *)
LEMMA LetWhole ==
    ASSUME NEW g, NEW nl, NEW vl, Described(g, nl, vl), Whole(g), NEW vs, NEW sc, NEW c, NEW ty,
           GenTyped(sc, c, ty)
    PROVE  /\ Whole(RunTraversal(g, vs, c).graph)
           /\ RunTraversal(g, vs, c).ok \in BOOLEAN
           /\ c.write = NoWrite => RunTraversal(g, vs, c).graph = g
<1> DEFINE items == Yielded(g, vs, c)
           r == RunTraversal(g, vs, c)
<1>1. CASE c.write = NoWrite
    <2>1. c.collect \in {"ToVec", "ToObj", "No", "Try"}
        <3>1. NoWrite.op \notin {"Update", "UpsertN"}
            BY DEF NoWrite
        <3> QED
            BY <1>1, <3>1 DEF GenTyped, CountTyped, GroupTyped, ItemsTyped, WriteTyped
    <2>2. \E v : r = Outcome(g, v)
        BY <1>1, <2>1, RunReads
    <2> HIDE DEF r
    <2>3. r.graph = g /\ r.ok \in BOOLEAN
        BY <2>2, OutcomeParts DEF Outcome
    <2> QED
        BY <2>3 DEF r
<1>2. CASE c.write # NoWrite
    <2> DEFINE targets == IF c.write.source # None THEN vs[c.write.source].items ELSE items
               u == IF c.write.op = "Update" THEN Update(g, targets, c.write.val)
                    ELSE UpsertN(g, targets, c.write.label, c.write.val)
    <2>1. c.write.op \in {"Update", "UpsertN"}
        BY <1>2 DEF GenTyped, WriteTyped
    <2>2. \/ r = Outcome(g, Failure)
          \/ r = Outcome(u.graph, collect_to_obj(u.items))
        <3>1. c.write.op # "None"
            BY <2>1
        <3> QED
            BY <3>1 DEF RunTraversal, targets
    <2>3. Whole(u.graph)
        <3> HIDE DEF targets
        <3>1. CASE c.write.op = "Update"
            <4>1. u = Update(g, targets, c.write.val)
                BY <3>1
            <4> HIDE DEF u
            <4> QED
                BY <4>1, UpdateWhole
        <3>2. CASE c.write.op # "Update"
            <4>1. u = UpsertN(g, targets, c.write.label, c.write.val)
                BY <3>2
            <4> HIDE DEF u
            <4> QED
                BY <4>1, UpsertWhole
        <3> QED
            BY <3>1, <3>2
    <2> HIDE DEF r, u
    <2>4. r.graph \in {g, u.graph} /\ r.ok \in BOOLEAN
        <3>1. CASE r = Outcome(g, Failure)
            BY <3>1, OutcomeParts DEF Outcome
        <3>2. CASE r = Outcome(u.graph, collect_to_obj(u.items))
            BY <3>2, OutcomeParts DEF Outcome
        <3> QED
            BY <2>2, <3>1, <3>2
    <2> QED
        BY <1>2, <2>3, <2>4 DEF r
<1> QED
    BY <1>1, <1>2

(* A lookup alone binds the first it finds.                                  *)
LEMMA PlainBinds ==
    ASSUME NEW g, NEW vs, NEW s, PlainLookup(s), NEW r, r = RunTraversal(g, vs, s.gen), r.ok
    PROVE  LET found == Fetch(g, vs, s.gen.start)
           IN  found # <<>> /\ r.value.items = <<Head(found)>>
<1> DEFINE found == Fetch(g, vs, s.gen.start)
<1>1. Yielded(g, vs, s.gen) = found
    BY AfterNothing DEF PlainLookup, Yielded
<1> HIDE DEF found
<1>2. r = Outcome(g, collect_to_obj(found))
    BY <1>1, RunReads DEF PlainLookup
<1>3. r.value = collect_to_obj(found) /\ r.value # Failure
    BY <1>2, OutcomeParts
<1>4. found # <<>> /\ r.value = OneItem(Head(found))
    BY <1>3 DEF collect_to_obj
<1>5. r.value.items = <<Head(found)>>
    BY <1>4, ValueShapes DEF Shaped
<1> QED
    BY <1>4, <1>5 DEF found

(* What a statement does, and what it means.                                 *)
Agree(r, m) ==
    /\ r.ok = m.ok /\ r.ok \in BOOLEAN
    /\ r.ok => r.graph = m.graph /\ Whole(r.graph)

(* A statement that runs without meeting a construct in gaps does what it   *)
(* means, and leaves the graph alone unless it writes.                      *)
LEMMA StatementAgrees ==
    ASSUME IInv, TypesInv, MeansInv, phase = "run",
           NEW s, s = query[pos + 1], RunGaps(s) = {}
    PROVE  /\ Agree(RunStatement(db, env, s), MeaningOf(db, env, s))
           /\ s.kind = "let" => RunStatement(db, env, s).value = MeaningOf(db, env, s).value
           /\ ~ Writes(s) => RunStatement(db, env, s).graph = db
<1> DEFINE start == s.gen.start
           found == Fetch(db, env, start)
           items == Yielded(db, env, s.gen)
           r == RunStatement(db, env, s)
           m == MeaningOf(db, env, s)
<1>1. IsList(query) /\ DOMAIN query = 1 .. Len(query) /\ pos \in Nat /\ pos + 1 \in DOMAIN query
    <2>1. IsList(query) /\ Len(query) \in Nat /\ DOMAIN query = 1 .. Len(query)
        BY ListIn, ListFacts DEF IInv, QueryShape
    <2>2. pos \in Nat /\ pos < Len(query)
        BY DEF IInv, RunShape
    <2> QED
        BY <2>1, <2>2
<1>2. /\ StatementTyped(scope, s) /\ StatementMeans(scope, s)
      /\ Looks(query, pos, s.src, s.gen)
    <2>1. (pos + 1) - 1 = pos
        BY <1>1
    <2> QED
        BY <1>1, <2>1 DEF TypesInv, QueryOK, MeansInv, QueryMeans
<1>3. Bound(pos) \subseteq DOMAIN env /\ VarsConform /\ Whole(db)
    BY DEF TypesInv, RunOK, MeansInv, RunMeans
<1>4. Reads(s.gen) \subseteq DOMAIN env
    <2>1. \A x \in Reads(s.gen) :
              \E i \in 1 .. (pos + 1) - 1 : query[i].kind = "let" /\ query[i].var = x
        BY <1>1 DEF TypesInv, QueryOK
    <2>2. Reads(s.gen) \subseteq Bound(pos)
        BY <1>1, <2>1 DEF Bound
    <2> QED
        BY <1>3, <2>2
<1>5. PICK nl, vl : Described(db, nl, vl) /\ VarsTyped(nl, vl, scope, env)
    BY DEF TypesInv, RunOK
<1>6. /\ ~ (/\ start.op \in {"NFromID", "EFromID", "VFromID"}
            /\ \E k \in DOMAIN found : found[k].label \notin {None, start.label})
      /\ ~ (/\ s.src.start.op = "Variable" /\ start.op = "NFromIndex"
            /\ Len(found) > 1)
      /\ ~ \E st \in ToSet(s.gen.steps), it \in ToSet(found) :
               /\ st.op = "To" /\ st.hop = "vector"
               /\ it.kind = "edge" /\ it.to \notin DOMAIN db.vectors
      /\ ~ (s.kind = "drop" /\ \E j, k \in DOMAIN items :
               j < k /\ items[j].id = items[k].id /\ items[j].kind # "error")
    BY DEF RunGaps
<1>7. LabelsAsked(db, env, start)
    BY <1>6 DEF LabelsAsked, ById
<1>8. ShapesKept(scope, env)
    <2> SUFFICES ASSUME NEW x \in DOMAIN env, x \in DOMAIN scope, IsItems(scope[x].ty)
                 PROVE  env[x].shape = "one" <=> scope[x].single
        BY DEF ShapesKept
    <2>1. Conforms(env[x], scope[x])
        BY <1>3 DEF VarsConform
    <2>2. scope[x].ty.kind \notin {"Count", "Aggregate"}
        BY DEF IsItems, Singles, Plurals
    <2> QED
        BY <2>1, <2>2 DEF Conforms
<1>9. NoneGone(db, env, s.gen)
    BY <1>6 DEF NoneGone, Leads, ToSet, Entries
<1>10. LookupHolds(db, env, s.src, s.gen)
    <2> SUFFICES ASSUME s.src.start.op = "Variable"
                 PROVE  /\ s.src.start.key \in DOMAIN env
                        /\ start.op = "NFromIndex" => found = env[s.src.start.key].items
        BY DEF LookupHolds
    <2>1. CASE FromTheVariable(s.src, s.gen)
        BY <1>4, <2>1 DEF FromTheVariable, Reads, ByVariable
    <2>2. CASE LookedUp(query, pos, s.src, s.gen)
        <3> DEFINE x == s.src.start.key
        <3>1. PICK i \in 1 .. pos : /\ PlainLookup(query[i]) /\ query[i].var = x
                                    /\ query[i].gen.start = start
            BY <2>2 DEF LookedUp
        <3>2. start.op = "NFromIndex" /\ \A j \in 1 .. pos : ~ Writes(query[j])
            BY <2>2 DEF LookedUp
        <3>3. FindsAgain(db, env, query[i])
            BY <3>1, <3>2 DEF MeansInv, RunMeans
        <3>4. found # <<>> /\ env[x].items = <<Head(found)>>
            BY <3>1, <3>3 DEF FindsAgain
        <3>5. IsList(found)
            <4>1. found = NFromIndex(db, start.label, start.key)
                BY <3>2 DEF Fetch
            <4> HIDE DEF found
            <4> QED
                BY <1>5, <4>1, TypeSourceTyped DEF Typed
        <3>6. ~ (Len(found) > 1)
            BY <1>6, <3>2
        <3>7. x \in DOMAIN env
            BY <1>3, <3>1 DEF Bound, PlainLookup
        <3> HIDE DEF found, x
        <3>8. Len(found) = 1 /\ found = [k \in 1 .. 1 |-> found[k]]
            <4>1. /\ Len(found) \in Nat /\ found = [k \in 1 .. Len(found) |-> found[k]]
                  /\ 0 < Len(found)
                BY <3>4, <3>5, ListFacts
            <4>2. Len(found) = 1
                BY <3>6, <4>1
            <4> QED
                BY <4>1, <4>2
        <3>9. found = <<Head(found)>>
            BY <3>8 DEF Head
        <3> QED
            BY <3>4, <3>7, <3>9 DEF x
    <2> QED
        BY <1>2, <2>1, <2>2 DEF Looks
<1>11. Context(scope, db, nl, vl, env, s.src, s.gen)
    BY <1>3, <1>4, <1>5, <1>7, <1>8, <1>9, <1>10 DEF Context
<1>12. CASE s.kind = "let"
    <2>1. r = RunTraversal(db, env, s.gen)
        BY <1>12 DEF RunStatement
    <2>2. LetMeans(scope, s.src, s.gen) /\ s.src = s.src
        BY <1>2, <1>12 DEF StatementMeans
    <2>3. m = RunTraversal(db, env, s.gen)
        BY <1>11, <1>12, <2>2 DEF LetMeans
    <2>4. GenTyped(scope, s.gen, scope[s.var].ty)
        BY <1>2, <1>12 DEF StatementTyped
    <2>5. /\ Whole(RunTraversal(db, env, s.gen).graph)
          /\ RunTraversal(db, env, s.gen).ok \in BOOLEAN
          /\ s.gen.write = NoWrite => RunTraversal(db, env, s.gen).graph = db
        BY <1>3, <1>5, <2>4, LetWhole
    <2> HIDE DEF r, m
    <2> QED
        BY <2>1, <2>3, <2>5 DEF Agree, Writes, r, m
<1>13. CASE s.kind = "drop"
    <2> DEFINE d == DropTraversal(db, items)
               e == DropAll(db, ToSet(items))
    <2>1. PICK kind, label : Yields(scope, s.gen, kind, label)
        BY <1>2, <1>13 DEF StatementTyped
    <2>2. Typed(nl, vl, kind, label, items) /\ IsSort(kind, label)
        BY <1>4, <1>5, <1>7, <2>1, YieldedTyped DEF Yields
    <2>3. Meant(db, env, s.src) = items
        BY <1>2, <1>11, <1>13 DEF StatementMeans, Same
    <2>4. NoneTwice(items)
        BY <1>6, <1>13 DEF NoneTwice
    <2> HIDE DEF items
    <2>5. /\ d.ok = e.ok /\ d.ok \in BOOLEAN
          /\ d.ok => d.graph = e.graph /\ Whole(d.graph)
        BY <1>3, <1>5, <2>2, <2>4, DropMeans
    <2>6. r = [ok |-> d.ok, graph |-> d.graph, value |-> Items(<<>>)]
        BY <1>13 DEF RunStatement, items
    <2>7. m = [ok |-> e.ok, graph |-> e.graph, value |-> Items(<<>>)]
        BY <1>13, <2>3 DEF MeaningOf
    <2> HIDE DEF r, m, d, e
    <2>8. r.ok = d.ok /\ r.graph = d.graph /\ m.ok = e.ok /\ m.graph = e.graph
        BY <2>6, <2>7
    <2>9. Writes(s)
        BY <1>13 DEF Writes
    <2> QED
        BY <1>13, <2>5, <2>8, <2>9 DEF Agree, r, m
<1> QED
    BY <1>2, <1>12, <1>13 DEF StatementTyped

(* One statement of the handler and the same statement of the text.         *)
LEMMA ExecuteMeans ==
    ASSUME IInv, TypesInv, MeansInv, Execute, gaps' = {}
    PROVE  MeansInv'
<1> DEFINE s == query[pos + 1]
           r == RunStatement(db, env, s)
           m == MeaningOf(db, env, s)
<1>1. /\ phase = "run" /\ UNCHANGED <<scope, src, gen, cur_ty, closed, query, stored>>
      /\ gaps' = gaps \cup RunGaps(s) /\ RunGenerated(s) /\ RunMeaning(s)
    BY DEF Execute, analysis
<1>2. /\ db' = IF r.ok THEN r.graph ELSE stored
      /\ env' = IF r.ok THEN Bind(env, s, r.value) ELSE env
      /\ pos' = pos + 1
      /\ phase' = IF ~r.ok THEN "failed"
                  ELSE IF pos + 1 = Len(query) THEN "committed" ELSE "run"
    BY <1>1 DEF RunGenerated, Run
<1>3. db = want /\ env = wantEnv /\ wantOk = TRUE
    BY <1>1 DEF MeansInv, RunMeans, SameAsMeant
<1>4. /\ want' = IF m.ok THEN m.graph ELSE stored
      /\ wantEnv' = IF m.ok THEN Bind(env, s, m.value) ELSE env
      /\ wantOk' = m.ok
    BY <1>1, <1>3 DEF RunMeaning, Follow
<1>5. /\ Agree(r, m) /\ (s.kind = "let" => r.value = m.value)
      /\ ~ Writes(s) => r.graph = db
    <2>1. RunGaps(s) = {}
        BY <1>1
    <2> QED
        BY <1>1, <2>1, StatementAgrees
<1>6. pos \in Nat /\ pos + 1 \in DOMAIN query /\ \A i \in 1 .. pos : i \in DOMAIN query
    <2>1. IsList(query) /\ Len(query) \in Nat /\ DOMAIN query = 1 .. Len(query)
        BY ListIn, ListFacts DEF IInv, QueryShape
    <2>2. pos \in Nat /\ pos < Len(query)
        BY <1>1 DEF IInv, RunShape
    <2> QED
        BY <2>1, <2>2
<1>7. s.kind \in {"let", "drop"}
    BY <1>6 DEF IInv, QueryShape
<1>8. PlainLookup(s) /\ r.ok =>
          LET found == Fetch(db, env, s.gen.start)
          IN  found # <<>> /\ r.value.items = <<Head(found)>>
    <2> SUFFICES ASSUME PlainLookup(s), r.ok
                 PROVE  LET found == Fetch(db, env, s.gen.start)
                        IN  found # <<>> /\ r.value.items = <<Head(found)>>
        OBVIOUS
    <2>1. r = RunTraversal(db, env, s.gen)
        BY DEF RunStatement, PlainLookup
    <2> HIDE DEF r, s
    <2> QED
        BY <2>1, PlainBinds
<1>9. ScopeMeans' /\ QueryMeans' /\ TravMeans'
    <2>1. ScopeMeans'
        BY <1>1 DEF MeansInv, ScopeMeans
    <2>2. QueryMeans'
        BY <1>1 DEF MeansInv, QueryMeans
    <2>3. TravMeans'
        BY <1>1 DEF MeansInv, TravMeans
    <2> QED
        BY <2>1, <2>2, <2>3
<1>10. \A i \in 1 .. pos : query[i].kind = "let" =>
           query[i].var \in DOMAIN env /\ (s.kind = "let" => query[i].var # s.var)
    <2> SUFFICES ASSUME NEW i \in 1 .. pos, query[i].kind = "let"
                 PROVE  query[i].var \in DOMAIN env /\ (s.kind = "let" => query[i].var # s.var)
        OBVIOUS
    <2>1. query[i].var \in Bound(pos)
        BY DEF Bound
    <2>2. Bound(pos) \subseteq DOMAIN env
        BY <1>1 DEF TypesInv, RunOK
    <2>3. i # pos + 1
        BY <1>6
    <2> QED
        BY <1>6, <2>1, <2>2, <2>3 DEF MeansInv, QueryMeans
<1> HIDE DEF s, r, m
<1>11. SameAsMeant'
    <2>1. CASE r.ok = TRUE
        <3>1. m.ok = TRUE /\ r.graph = m.graph
            BY <1>5, <2>1 DEF Agree
        <3>2. Bind(env, s, r.value) = Bind(env, s, m.value)
            BY <1>5, <1>7 DEF Bind
        <3>3. phase' # "failed"
            BY <1>2, <2>1
        <3> QED
            BY <1>2, <1>4, <2>1, <3>1, <3>2, <3>3 DEF SameAsMeant
    <2>2. CASE r.ok = FALSE
        <3>1. m.ok = FALSE
            BY <1>5, <2>2 DEF Agree
        <3>2. phase' = "failed"
            BY <1>2, <2>2
        <3> QED
            BY <1>2, <1>3, <1>4, <2>2, <3>1, <3>2 DEF SameAsMeant
    <2> QED
        BY <1>5, <2>1, <2>2 DEF Agree
<1>12. ASSUME phase' = "run"
       PROVE  /\ Whole(db')
              /\ (\A j \in 1 .. pos' : ~ Writes(query'[j])) =>
                    \A i \in 1 .. pos' : PlainLookup(query'[i]) => FindsAgain(db', env', query'[i])
    <2>1. r.ok /\ db' = r.graph /\ env' = Bind(env, s, r.value)
        BY <1>2, <1>12
    <2>2. Whole(db')
        BY <1>5, <2>1 DEF Agree
    <2>3. ASSUME \A j \in 1 .. pos + 1 : ~ Writes(query[j]), NEW i \in 1 .. pos + 1,
                 PlainLookup(query[i])
          PROVE  FindsAgain(db', env', query[i])
        <3>1. ~ Writes(s)
            BY <1>6, <2>3 DEF s
        <3>2. s.kind = "let" /\ db' = db
            BY <1>5, <1>7, <2>1, <3>1 DEF Writes
        <3>3. env' = [y \in DOMAIN env \cup {s.var} |-> IF y = s.var THEN r.value ELSE env[y]]
            BY <2>1, <3>2 DEF Bind
        <3>4. Fetch(db, env', query[i].gen.start) = Fetch(db, env, query[i].gen.start)
            BY <2>3 DEF PlainLookup, Fetch
        <3>5. CASE i = pos + 1
            <4>1. query[i] = s
                BY <3>5 DEF s
            <4>2. env'[s.var] = r.value
                BY <3>3
            <4> QED
                BY <1>8, <2>1, <2>3, <3>2, <3>4, <4>1, <4>2 DEF FindsAgain
        <3>6. CASE i \in 1 .. pos
            <4>1. \A j \in 1 .. pos : ~ Writes(query[j])
                BY <1>6, <2>3
            <4>2. FindsAgain(db, env, query[i])
                BY <1>1, <2>3, <3>6, <4>1 DEF MeansInv, RunMeans
            <4>3. query[i].var \in DOMAIN env /\ query[i].var # s.var
                BY <1>10, <2>3, <3>2, <3>6 DEF PlainLookup
            <4>4. env'[query[i].var] = env[query[i].var]
                BY <3>3, <4>3
            <4> QED
                BY <3>2, <3>4, <4>2, <4>4 DEF FindsAgain
        <3> QED
            BY <1>6, <3>5, <3>6
    <2> QED
        BY <1>1, <1>2, <2>2, <2>3
<1>13. RunMeans'
    BY <1>11, <1>12 DEF RunMeans
<1> QED
    BY <1>9, <1>13 DEF MeansInv

-----------------------------------------------------------------------------

(* Nothing is compiled yet, so nothing is meant otherwise.                  *)
LEMMA InitMInv == Init => MInv
<1> SUFFICES ASSUME Init PROVE MeansInv
    BY DEF MInv
<1>1. /\ DOMAIN scope = {} /\ DOMAIN query = {} /\ cur_ty = NoType /\ phase = "compile"
      /\ db = want /\ env = wantEnv /\ wantOk = TRUE
    BY DEF Init
<1> QED
    BY <1>1 DEF MeansInv, ScopeMeans, TravMeans, QueryMeans, RunMeans, SameAsMeant

(* Every step keeps the invariant.                                          *)
LEMMA MInvStep == IInv /\ TInv /\ MInv /\ [Next]_vars => MInv'
<1> SUFFICES ASSUME IInv, TInv, MInv, [Next]_vars, gaps' = {} PROVE MeansInv'
    BY DEF MInv
<1>1. TypesInv /\ MeansInv
    BY GapsStay DEF TInv, MInv
<1>2. CASE UNCHANGED vars
    <2>1. UNCHANGED <<scope, query, src, gen, cur_ty, closed, phase, pos, db, env, want,
                      wantEnv, wantOk>>
        BY <1>2 DEF vars, analysis, running
    <2>2. ScopeMeans'
        BY <1>1, <2>1 DEF MeansInv, ScopeMeans
    <2>3. TravMeans'
        BY <1>1, <2>1 DEF MeansInv, TravMeans
    <2>4. QueryMeans'
        BY <1>1, <2>1 DEF MeansInv, QueryMeans
    <2>5. RunMeans'
        BY <1>1, <2>1 DEF MeansInv, RunMeans, SameAsMeant
    <2> QED
        BY <2>2, <2>3, <2>4, <2>5 DEF MeansInv
<1>3. CASE Next
    BY <1>1, <1>3, StartMeans, GraphStepMeans, UtilStepMeans, LastStepMeans, AssignmentMeans,
       DropStatementMeans, DeployMeans, ExecuteMeans DEF Next
<1> QED
    BY <1>2, <1>3

(* The invariant says what the theorem does.                                *)
LEMMA MInvMeans == MInv => MeaningKept
    BY DEF MInv, MeansInv, RunMeans, MeaningKept

(* Whatever the schema, the graph and the query, and however many statements *)
(* and steps it has, what is generated from it does what it says, with the   *)
(* same outcome, variables and graph, unless the query met one of the        *)
(* constructs of gaps.                                                       *)
THEOREM MeaningIsKept == Spec => []MeaningKept
<1>1. Init => IInv /\ TInv /\ MInv
    BY InitIInv, InitTInv, InitMInv
<1>2. IInv /\ TInv /\ MInv /\ [Next]_vars => (IInv /\ TInv /\ MInv)'
    BY IInvStep, TInvStep, MInvStep
<1>3. MInv => MeaningKept
    BY MInvMeans
<1> QED
    BY <1>1, <1>2, <1>3, PTL DEF Spec

=============================================================================
