----------------------------- MODULE HqlCompiler -----------------------------
(***************************************************************************)
(* The compiler of HQL queries: the analyzer of sparrowc/analyzer, which     *)
(* types a traversal step by step and builds the generated one, and the     *)
(* Rust text sparrowc/generator prints for it, by what that text does when  *)
(* it runs on the operators of TraversalOps.                                *)
(*                                                                          *)
(* A behaviour compiles a query, one source, step or statement at a time;   *)
(* deploys it on a graph; and runs it statement by statement.  Beside the   *)
(* run of the generated code goes the meaning of the query as written: the  *)
(* same pipeline, with nothing rewritten, merged or left out.  Steps the    *)
(* analyzer diagnoses are not enabled: only accepted queries are followed.  *)
(***************************************************************************)
EXTENDS TraversalOps

CONSTANTS
    NodeTypes, VectorTypes, EdgeTypes,    \* the labels of the schema
    Ends,          \* edge label -> [from, to], labels of its ends
    Indexed,       \* node labels whose field f is INDEX or UNIQUE
    Vals,          \* values of f
    Ids,           \* ids a query may name
    Vars,          \* variable names
    Graphs,        \* graphs a query may be deployed on
    Budget,        \* sources and steps of a query
    MaxStatements

ASSUME SchemaAssumption ==
    /\ NodeTypes \cap VectorTypes = {}
    /\ Ends \in [EdgeTypes -> [from : NodeTypes \cup VectorTypes,
                               to : NodeTypes \cup VectorTypes]]
    /\ Indexed \subseteq NodeTypes
    /\ Budget \in Nat /\ MaxStatements \in Nat
    /\ None \notin NodeTypes \cup VectorTypes \cup EdgeTypes \cup Vars

(* A graph of the schema: labels are of it and edges lead where it says.     *)
IsVertex(g, i, label) ==
    \/ label \in NodeTypes /\ i \in DOMAIN g.nodes /\ g.nodes[i].label = label
    \/ label \in VectorTypes /\ i \in DOMAIN g.vectors /\ g.vectors[i].label = label

OfSchema(g) ==
    /\ \A i \in DOMAIN g.nodes : g.nodes[i].label \in NodeTypes
    /\ \A i \in DOMAIN g.vectors : g.vectors[i].label \in VectorTypes
    /\ \A e \in DOMAIN g.edges :
          /\ g.edges[e].label \in EdgeTypes
          /\ IsVertex(g, g.edges[e].from, Ends[g.edges[e].label].from)
          /\ IsVertex(g, g.edges[e].to, Ends[g.edges[e].label].to)

(* Its tables hold records of these fields and no others.                    *)
HasTables(g) ==
    /\ g.nodes = [i \in DOMAIN g.nodes |->
                     [label |-> g.nodes[i].label, f |-> g.nodes[i].f]]
    /\ g.edges = [e \in DOMAIN g.edges |->
                     [label |-> g.edges[e].label, from |-> g.edges[e].from,
                      to |-> g.edges[e].to]]
    /\ g.vectors = [i \in DOMAIN g.vectors |-> [label |-> g.vectors[i].label]]

ASSUME GraphAssumption ==
    \A g \in Graphs :
        /\ g = [nodes |-> g.nodes, edges |-> g.edges, vectors |-> g.vectors,
                next |-> g.next]
        /\ \A ids \in {DOMAIN g.nodes, DOMAIN g.edges, DOMAIN g.vectors} :
              IsFiniteSet(ids) /\ ids \subseteq 0 .. g.next - 1
        /\ DOMAIN g.nodes \cap DOMAIN g.vectors = {}
        /\ g.next \in Nat
        /\ HasTables(g) /\ OfSchema(g)

VARIABLES
    scope,     \* variable -> [ty, single, index], VariableInfo
    src,       \* the traversal being compiled as written: [start, steps]
    gen,       \* as generated: [start, steps, collect, write]
    cur_ty,    \* its type so far; NoType between statements
    closed,    \* a last step was taken
    is_mut,    \* GeneratedQuery.is_mut
    query,     \* the compiled statements
    spent,     \* sources and steps so far
    gaps,      \* constructs met whose translation is known to differ
    phase,     \* "compile", "run", "committed" or "failed"
    pos,       \* the next statement to run
    stored,    \* the graph before the query
    db, env,   \* graph and variables of the generated code
    want,      \* graph of the query as written
    wantEnv, wantOk

analysis == <<scope, src, gen, cur_ty, closed, is_mut, query, spent>>
running == <<phase, pos, stored, db, env, want, wantEnv, wantOk>>
vars == <<analysis, gaps, running>>

-----------------------------------------------------------------------------
(* Types.                                                                    *)

Type(kind, label) == [kind |-> kind, label |-> label]
NoType == Type("None", None)

Singles == {"Node", "Edge", "Vector"}
Plurals == {"Nodes", "Edges", "Vectors"}
IsItems(ty) == ty.kind \in Singles \cup Plurals
HasNodes(ty) == ty.kind \in {"Node", "Nodes"}
HasEdges(ty) == ty.kind \in {"Edge", "Edges"}
HasVertices(ty) == HasNodes(ty) \/ ty.kind \in {"Vector", "Vectors"}

(* The kind of the items of a type.                                          *)
ItemKind(ty) ==
    CASE HasNodes(ty) -> "node" [] HasEdges(ty) -> "edge" [] OTHER -> "vector"

into_single(ty) ==
    CASE ty.kind = "Nodes" -> Type("Node", ty.label)
      [] ty.kind = "Edges" -> Type("Edge", ty.label)
      [] ty.kind = "Vectors" -> Type("Vector", ty.label)
      [] OTHER -> ty

Many(label) ==
    Type(IF label \in NodeTypes THEN "Nodes" ELSE "Vectors", label)

(* EdgeType::Node or EdgeType::Vec, from the label of the far end.           *)
EdgeTypeOf(label) == IF label \in NodeTypes THEN "node" ELSE "vector"

-----------------------------------------------------------------------------
(* Sources, steps and statements, as records of one shape.                   *)

Start(op, label, key) == [op |-> op, label |-> label, key |-> key]

Step(op, label, hop) ==
    [op |-> op, label |-> label, hop |-> hop, test |-> None,
     lo |-> 0, hi |-> 0]

Filter(test) == [Step("Where", None, None) EXCEPT !.test = test]
Window(lo, hi) == [Step("Range", None, None) EXCEPT !.lo = lo, !.hi = hi]

(* The filters: f = eq, [!]EXISTS(_::Out<edge>), or the AND of both.         *)
Test(eq, edge, negated) == [eq |-> eq, edge |-> edge, negated |-> negated]
IsEquality(t) == t.eq # None /\ t.edge = None

NoWrite == [op |-> "None", source |-> None, label |-> None, val |-> None]
NoIndex == Start("None", None, None)

Traversal(start, steps, collect, write) ==
    [start |-> start, steps |-> steps, collect |-> collect, write |-> write]

NoTraversal == [start |-> NoIndex, steps |-> <<>>]
NothingGenerated == Traversal(NoIndex, <<>>, "No", NoWrite)

Ops(steps) == {steps[k].op : k \in DOMAIN steps}

-----------------------------------------------------------------------------
(* Starting a traversal (the start_node arms of validate_traversal).  The    *)
(* default of should_collect is ToVec.                                       *)

Begin(written, generated, collect, ty) ==
    /\ phase = "compile" /\ cur_ty = NoType
    /\ spent < Budget /\ Len(query) < MaxStatements
    /\ src' = [start |-> written, steps |-> <<>>]
    /\ gen' = Traversal(generated, <<>>, collect, NoWrite)
    /\ cur_ty' = ty
    /\ closed' = FALSE
    /\ spent' = spent + 1
    /\ UNCHANGED <<scope, is_mut, query, gaps, running>>

Source(start, collect, ty) == Begin(start, start, collect, ty)

StartNodes ==
    \E t \in NodeTypes :
        Source(Start("NFromType", t, None), "ToVec", Type("Nodes", t))

StartNodeByIndex ==
    \E t \in Indexed, v \in Vals :
        Source(Start("NFromIndex", t, v), "ToObj", Type("Node", t))

StartNodeByID ==
    \E t \in NodeTypes, i \in Ids :
        Source(Start("NFromID", t, i), "ToObj", Type("Node", t))

StartEdges ==
    \E e \in EdgeTypes :
        \/ Source(Start("EFromType", e, None), "ToVec", Type("Edges", e))
        \/ \E i \in Ids :
               Source(Start("EFromID", e, i), "ToObj", Type("Edge", e))

StartVectors ==
    \E t \in VectorTypes :
        \/ Source(Start("VFromType", t, None), "ToVec", Type("Vectors", t))
        \/ \E i \in Ids :
               Source(Start("VFromID", t, i), "ToObj", Type("Vector", t))

StartIdentifier ==
    \E x \in DOMAIN scope :
        /\ IsItems(scope[x].ty)
        /\ Begin(Start("Variable", None, x),
                 Start(IF scope[x].single THEN "FromSingle" ELSE "FromIter",
                       None, x),
                 "ToVec", scope[x].ty)

-----------------------------------------------------------------------------
(* Steps.  Extend adds one step to both sides; a step may follow any other   *)
(* that yields items.                                                        *)

Open ==
    /\ phase = "compile" /\ cur_ty # NoType /\ ~closed /\ spent < Budget

Write(step) ==
    src' = [start |-> src.start, steps |-> Append(src.steps, step)]

Extend(step, collect, ty) ==
    /\ Open
    /\ Write(step)
    /\ gen' = Traversal(gen.start, Append(gen.steps, step), collect, gen.write)
    /\ cur_ty' = ty
    /\ spent' = spent + 1
    /\ UNCHANGED <<scope, closed, is_mut, query, gaps, running>>

(* From a node or a vector along edges, which are many.                      *)
StepOutE ==
    \E e \in EdgeTypes :
        /\ Open /\ HasVertices(cur_ty) /\ Ends[e].from = cur_ty.label
        /\ Extend(Step("OutE", e, None), "ToVec", Type("Edges", e))

StepInE ==
    \E e \in EdgeTypes :
        /\ Open /\ HasVertices(cur_ty) /\ Ends[e].to = cur_ty.label
        /\ Extend(Step("InE", e, None), "ToVec", Type("Edges", e))

StepOut ==
    \E e \in EdgeTypes :
        /\ Open /\ HasVertices(cur_ty) /\ Ends[e].from = cur_ty.label
        /\ Extend(Step("Out", e, EdgeTypeOf(Ends[e].to)), "ToVec",
                  Many(Ends[e].to))

StepIn ==
    \E e \in EdgeTypes :
        /\ Open /\ HasVertices(cur_ty) /\ Ends[e].to = cur_ty.label
        /\ Extend(Step("In", e, EdgeTypeOf(Ends[e].from)), "ToVec",
                  Many(Ends[e].from))

(* From an edge to an end: one edge has one end.                             *)
EdgeEnd(op, hop, label) ==
    /\ EdgeTypeOf(label) = hop
    /\ IF cur_ty.kind = "Edges"
       THEN Extend(Step(op, None, hop), "ToVec", Many(label))
       ELSE Extend(Step(op, None, hop), "ToObj", into_single(Many(label)))

StepFromN ==
    /\ Open /\ HasEdges(cur_ty)
    /\ EdgeEnd("From", "node", Ends[cur_ty.label].from)

StepToN ==
    /\ Open /\ HasEdges(cur_ty)
    /\ EdgeEnd("To", "node", Ends[cur_ty.label].to)

StepFromV ==
    /\ Open /\ HasEdges(cur_ty)
    /\ EdgeEnd("From", "vector", Ends[cur_ty.label].from)

StepToV ==
    /\ Open /\ HasEdges(cur_ty)
    /\ EdgeEnd("To", "vector", Ends[cur_ty.label].to)

(* The filters infer_expr_type accepts on the current type.                  *)
Tests ==
    {Test(v, None, FALSE) : v \in {u \in Vals : HasNodes(cur_ty)}} \cup
    {Test(v, e, n) :
        v \in {u \in Vals \cup {None} : u = None \/ HasNodes(cur_ty)},
        e \in {d \in EdgeTypes : HasVertices(cur_ty) /\
                                 Ends[d].from = cur_ty.label},
        n \in BOOLEAN}

(* infer_expr_type of the filter.  Inside an AND the negation of an EXISTS   *)
(* is unwrapped and not put back.                                            *)
GeneratedTest(t) ==
    IF t.eq # None /\ t.edge # None THEN [t EXCEPT !.negated = FALSE] ELSE t

(* try_optimize_where_to_index, with the filter as the last step: whatever   *)
(* the steps before it are, the source becomes the lookup.                   *)
RewritableWhole(t) ==
    /\ gen.start.op = "NFromType"
    /\ cur_ty.kind = "Nodes" /\ cur_ty.label \in Indexed
    /\ t.eq # None

Rewritable(t) ==
    /\ gen.start.op = "NFromType"
    /\ cur_ty.kind = "Nodes" /\ cur_ty.label \in Indexed
    /\ IsEquality(t)

StepWhere ==
    /\ Open /\ IsItems(cur_ty)
    /\ \E t \in Tests :
        /\ Write(Filter(t))
        /\ gen' = IF Rewritable(t)
                  THEN Traversal(Start("NFromIndex", gen.start.label, t.eq),
                                 gen.steps, gen.collect, gen.write)
                  ELSE Traversal(gen.start,
                                 Append(gen.steps, Filter(GeneratedTest(t))),
                                 gen.collect, gen.write)
        /\ gaps' = gaps \cup
              (IF Rewritable(t) /\ ~(Ops(gen.steps) \subseteq {"Where"})
               THEN {"rewritten"} ELSE {}) \cup
              (IF GeneratedTest(t) # t THEN {"negation"} ELSE {})
        /\ spent' = spent + 1
        /\ UNCHANGED <<scope, cur_ty, closed, is_mut, query, running>>

StepRange ==
    \E lo \in 0..1 :
        /\ Open /\ IsItems(cur_ty)
        /\ Extend(Window(lo, lo + 1), gen.collect, cur_ty)

StepCount ==
    /\ Open /\ IsItems(cur_ty)
    /\ Extend(Step("Count", None, None), "No", Type("Count", None))

GroupCollect == "Try"

(* AGGREGATE_BY and GROUP_BY replace the last generated step, which is the   *)
(* COUNT when one was written before them.                                   *)
Grouping(op) ==
    /\ Open /\ (HasNodes(cur_ty) \/ cur_ty.kind = "Count")
    /\ Write(Step(op, None, None))
    /\ gen' = Traversal(gen.start,
                        Append(IF gen.steps = <<>> THEN <<>>
                               ELSE Front(gen.steps), Step(op, None, None)),
                        GroupCollect, gen.write)
    /\ gaps' = IF gen.steps # <<>> /\ cur_ty.kind # "Count"
               THEN gaps \cup {"swallowed"} ELSE gaps
    /\ cur_ty' = Type("Aggregate", None)
    /\ spent' = spent + 1
    /\ UNCHANGED <<scope, closed, is_mut, query, running>>

StepAggregate == Grouping("AggregateBy")
StepGroupBy == Grouping("GroupBy")

(* Last steps.                                                               *)
Close == closed' = TRUE

(* FIRST leaves no step: it only sets how the traversal is collected.        *)
StepFirst ==
    /\ Open /\ IsItems(cur_ty)
    /\ Write(Step("First", None, None))
    /\ gen' = Traversal(gen.start, gen.steps, "ToObj", gen.write)
    /\ cur_ty' = into_single(cur_ty)
    /\ Close
    /\ spent' = spent + 1
    /\ UNCHANGED <<scope, is_mut, query, gaps, running>>

FromVariable == gen.start.op \in {"FromSingle", "FromIter"}

(* With a variable as its source, what is printed starts from the variable:  *)
(* the steps in between are not printed.                                     *)
LosesSteps(write) ==
    IF write.source # None /\ gen.steps # <<>> THEN {"unprinted"} ELSE {}

(* UpsertN asks for a write transaction itself, Update at the end of the     *)
(* traversal.                                                                *)
MakesMutAtEnd(op) == op = "Update"

MakesMut(op) == op \in {"Update", "UpsertN"}

Mutate(op, v, write, start) ==
    /\ Open /\ HasNodes(cur_ty)
    /\ Write([Step(op, cur_ty.label, None) EXCEPT !.test = v])
    /\ gen' = Traversal(start, gen.steps, "No", write)
    /\ is_mut' = (is_mut \/ MakesMut(op))
    /\ cur_ty' = into_single(cur_ty)
    /\ Close
    /\ spent' = spent + 1
    /\ UNCHANGED <<scope, query, running>>

(* UPDATE of edges, whose records have no property here, is not followed.    *)
StepUpdate ==
    \E v \in Vals :
        LET write == [op |-> "Update", label |-> cur_ty.label, val |-> v,
                      source |-> IF FromVariable THEN gen.start.key
                                 ELSE None]
        IN  /\ Mutate("Update", v, write, gen.start)
            /\ gaps' = gaps \cup LosesSteps(write)

(* A single variable that was assigned from an index lookup is replaced by   *)
(* the lookup, which is then done again, without the steps that followed it  *)
(* where the variable was assigned.                                          *)
Inlined ==
    gen.start.op = "FromSingle" /\ scope[gen.start.key].index # NoIndex

Refined(x) ==
    \E k \in DOMAIN query : query[k].var = x /\ query[k].gen.steps # <<>>

StepUpsertN ==
    \E v \in Vals :
        LET write == [op |-> "UpsertN", label |-> cur_ty.label, val |-> v,
                      source |-> IF FromVariable /\ ~Inlined
                                 THEN gen.start.key ELSE None]
        IN  /\ Mutate("UpsertN", v, write,
                      IF Inlined THEN scope[gen.start.key].index
                      ELSE gen.start)
            /\ gaps' = gaps \cup LosesSteps(write) \cup
                  (IF Inlined /\ (is_mut \/ Refined(gen.start.key))
                   THEN {"reread"} ELSE {})

-----------------------------------------------------------------------------
(* Statements.                                                               *)

EndStatement(kind, x, generated) ==
    /\ query' = Append(query, [kind |-> kind, var |-> x, src |-> src,
                               gen |-> generated])
    /\ src' = NoTraversal /\ gen' = NothingGenerated /\ cur_ty' = NoType
    /\ UNCHANGED <<closed, spent, running>>

Complete ==
    /\ phase = "compile" /\ cur_ty # NoType
    /\ src.start.op = "Variable" => src.steps # <<>>

IsSingleByCollect(collect, ty) == collect = "ToObj"

IsSingle(collect, ty) == collect = "ToObj" \/ ty.kind \in Singles

(* x <- traversal.  A single item typed so without being collected so is a   *)
(* vector under a variable taken for one item.                               *)
Assignment ==
    \E x \in Vars \ DOMAIN scope :
        /\ Complete
        /\ scope' = [y \in DOMAIN scope \cup {x} |->
              IF y # x THEN scope[y]
              ELSE [ty |-> cur_ty,
                    single |-> IsSingle(gen.collect, cur_ty),
                    index |-> IF gen.start.op = "NFromIndex" THEN gen.start
                              ELSE NoIndex]]
        /\ gaps' = IF cur_ty.kind \in Singles /\ gen.collect = "ToVec"
                   THEN gaps \cup {"single"} ELSE gaps
        /\ EndStatement("let", x, gen)
        /\ UNCHANGED is_mut

(* DROP traversal.  It is not collected, and so FIRST is forgotten.          *)
DropStatement ==
    /\ Complete
    /\ IsItems(cur_ty) /\ gen.write = NoWrite
    /\ is_mut' = TRUE
    /\ gaps' = IF "First" \in Ops(src.steps) THEN gaps \cup {"first"}
               ELSE gaps
    /\ EndStatement("drop", None, Traversal(gen.start, gen.steps, "No", gen.write))
    /\ UNCHANGED scope

-----------------------------------------------------------------------------
(* What the generated text does.                                             *)

Value(shape, items, count, groups) ==
    [shape |-> shape, items |-> items, count |-> count, groups |-> groups]

Failure == Value("failure", <<>>, 0, <<>>)
OneItem(it) == Value("one", <<it>>, 0, <<>>)
Items(items) == Value("many", items, 0, <<>>)
Number(n) == Value("number", <<>>, n, <<>>)
Grouped(groups) == Value("groups", <<>>, 0, groups)

HasError(items) == \E k \in DOMAIN items : items[k].kind = "error"

(* collect_to_obj, collect::<Result<Vec<_>, _>>.                             *)
collect_to_obj(items) ==
    IF items = <<>> \/ Head(items).kind = "error" THEN Failure
    ELSE OneItem(Head(items))

collect_all(items) == IF HasError(items) THEN Failure ELSE Items(items)

(* The last step of a traversal that does not yield items.                   *)
Summary(op, items) ==
    CASE op = "Count" -> Number(Len(items))
      [] op # "Count" /\ HasError(items) -> Failure
      [] op = "AggregateBy" /\ ~HasError(items) -> Grouped(AggregateBy(items))
      [] op = "GroupBy" /\ ~HasError(items) -> Grouped(GroupBy(items))

Passes(g, t, it) ==
    /\ t.eq = None \/ it.f = t.eq
    /\ t.edge = None \/
          Exists(Out(g, <<it>>, t.edge, EdgeTypeOf(Ends[t.edge].to)))
             # t.negated

Where(g, items, t) == FilterRef(items, LAMBDA it : Passes(g, t, it))

Apply(g, items, st) ==
    CASE st.op = "Out" -> Out(g, items, st.label, st.hop)
      [] st.op = "In" -> In(g, items, st.label, st.hop)
      [] st.op = "OutE" -> OutE(g, items, st.label)
      [] st.op = "InE" -> InE(g, items, st.label)
      [] st.op = "From" -> From(g, items, st.hop)
      [] st.op = "To" -> To(g, items, st.hop)
      [] st.op = "Where" -> Where(g, items, st.test)
      [] st.op = "Range" -> Range_(items, st.lo, st.hi)
      [] OTHER -> items

Fetch(g, vs, start) ==
    CASE start.op = "NFromType" -> NFromType(g, start.label)
      [] start.op = "NFromIndex" -> NFromIndex(g, start.label, start.key)
      [] start.op = "NFromID" -> NFromID(g, start.key)
      [] start.op = "EFromType" -> EFromType(g, start.label)
      [] start.op = "EFromID" -> EFromID(g, start.key)
      [] start.op = "VFromType" -> VFromType(g, start.label)
      [] start.op = "VFromID" -> VFromID(g, start.key)
      [] start.op \in {"FromSingle", "FromIter", "Variable"} ->
            vs[start.key].items

(* The steps one after another, from the items of the source on.             *)
After(g, items, steps) ==
    LET Upto[n \in 0 .. Len(steps)] ==
            IF n = 0 THEN items ELSE Apply(g, Upto[n - 1], steps[n])
    IN  Upto[Len(steps)]

Yielded(g, vs, c) == After(g, Fetch(g, vs, c.start), c.steps)

Outcome(g, value) ==
    [ok |-> value # Failure, graph |-> g, value |-> value]

(* Display of a generated traversal, and of the write it ends in.            *)
RunTraversal(g, vs, c) ==
    LET items == Yielded(g, vs, c)
        targets == IF c.write.source # None THEN vs[c.write.source].items
                   ELSE items
        u == IF c.write.op = "Update" THEN Update(g, targets, c.write.val)
             ELSE UpsertN(g, targets, c.write.label, c.write.val)
    IN  CASE c.write.op = "None" /\ c.collect = "ToVec" ->
                Outcome(g, collect_all(items))
          [] c.write.op = "None" /\ c.collect = "ToObj" ->
                Outcome(g, collect_to_obj(items))
          [] c.write.op = "None" /\ c.collect \in {"No", "Try"} ->
                Outcome(g, Summary(Last(c.steps).op, items))
          [] c.write.op # "None" /\ HasError(targets) -> Outcome(g, Failure)
          [] c.write.op # "None" /\ ~HasError(targets) ->
                Outcome(u.graph, collect_to_obj(u.items))

RunStatement(g, vs, s) ==
    IF s.kind = "let" THEN RunTraversal(g, vs, s.gen)
    ELSE LET d == DropTraversal(g, Yielded(g, vs, s.gen))
         IN  [ok |-> d.ok, graph |-> d.graph, value |-> Items(<<>>)]

-----------------------------------------------------------------------------
(* What the query says.  A lookup by id means an item of the label it names; *)
(* Out and In mean whatever the edges lead to; FIRST means one item, also    *)
(* before a DROP, and every step counts.                                     *)

MeansFetch(g, vs, start) ==
    LET items == Fetch(g, vs, start) IN
    IF start.op \in {"NFromID", "EFromID", "VFromID"}
    THEN [k \in DOMAIN items |->
             IF items[k].label = start.label THEN items[k] ELSE ErrItem]
    ELSE items

EndItem(g, i) == IF i \in DOMAIN g.nodes THEN NodeItem(g, i)
                 ELSE VectorItem(g, i)

MeansStep(g, items, st) ==
    LET Along(Es(_), Far(_)) ==
            FlatMap(items, LAMBDA it :
                InOrder(Es(it.id), LAMBDA e : EndItem(g, Far(g.edges[e]))))
        EndsOf(Far(_)) ==
            LET es == Edges(items)
            IN  [k \in DOMAIN es |-> EndItem(g, Far(es[k]))]
    IN  CASE st.op = "Out" -> Along(LAMBDA i : Outgoing(g, i, st.label),
                                    LAMBDA e : e.to)
          [] st.op = "In" -> Along(LAMBDA i : Incoming(g, i, st.label),
                                   LAMBDA e : e.from)
          [] st.op = "From" -> EndsOf(LAMBDA e : e.from)
          [] st.op = "To" -> EndsOf(LAMBDA e : e.to)
          [] st.op = "First" ->
                IF items = <<>> THEN <<>> ELSE <<Head(items)>>
          [] OTHER -> Apply(g, items, st)

Meant(g, vs, s) ==
    LET Upto[n \in 0 .. Len(s.steps)] ==
            IF n = 0 THEN MeansFetch(g, vs, s.start)
            ELSE MeansStep(g, Upto[n - 1], s.steps[n])
    IN  Upto[Len(s.steps)]

(* A traversal means one item when it starts from one, or takes the first,   *)
(* and follows no edge after that.                                           *)
Singular(s, vs) ==
    LET Spreads == {"Out", "In", "OutE", "InE"} IN
    \/ "First" \in Ops(s.steps)
    \/ /\ Ops(s.steps) \cap Spreads = {}
       /\ \/ s.start.op \in {"NFromIndex", "NFromID", "EFromID", "VFromID"}
          \/ s.start.op = "Variable" /\ vs[s.start.key].shape = "one"

(* DROP means that the items are gone, with the edges to them, once they are *)
(* all there.                                                                *)
DropAll(g, items) ==
    LET IdsOf(kind) == {it.id : it \in {i \in items : i.kind = kind}}
        ends == IdsOf("node") \cup IdsOf("vector")
        kept == {e \in DOMAIN g.edges \ IdsOf("edge") :
                    g.edges[e].from \notin ends /\ g.edges[e].to \notin ends}
    IN  [ok |-> /\ IdsOf("node") \subseteq DOMAIN g.nodes
                /\ IdsOf("edge") \subseteq DOMAIN g.edges,
         graph |->
            [nodes |-> [i \in DOMAIN g.nodes \ IdsOf("node") |-> g.nodes[i]],
             edges |-> [e \in kept |-> g.edges[e]],
             vectors |-> [i \in DOMAIN g.vectors \ IdsOf("vector") |->
                             g.vectors[i]],
             next |-> g.next]]

MeaningOf(g, vs, s) ==
    LET items == Meant(g, vs, s.src)
        last == IF s.src.steps = <<>> THEN Step("None", None, None)
                ELSE Last(s.src.steps)
        u == IF last.op = "Update" THEN Update(g, items, last.test)
             ELSE UpsertN(g, items, last.label, last.test)
        d == DropAll(g, ToSet(items))
    IN  CASE s.kind = "drop" ->
                [ok |-> d.ok, graph |-> d.graph, value |-> Items(<<>>)]
          [] s.kind = "let" /\ last.op \in {"Update", "UpsertN"} ->
                IF HasError(items) THEN Outcome(g, Failure)
                ELSE Outcome(u.graph, collect_to_obj(u.items))
          [] s.kind = "let" /\ last.op \in {"Count", "AggregateBy", "GroupBy"} ->
                Outcome(g, Summary(last.op, items))
          [] OTHER ->
                Outcome(g, IF Singular(s.src, vs) THEN collect_to_obj(items)
                           ELSE collect_all(items))

-----------------------------------------------------------------------------
(* Running a compiled query on a graph.  A query that fails is aborted.      *)

NoVars == [x \in {} |-> None]

Deploy ==
    /\ phase = "compile" /\ cur_ty = NoType /\ query # <<>>
    /\ phase' = "run"
    /\ \E g \in Graphs :
          stored' = g /\ db' = g /\ want' = g
    /\ UNCHANGED <<analysis, gaps, pos, env, wantEnv, wantOk>>

(* What only a run tells: a lookup by id met another label, a lookup done    *)
(* again finds more than the item it gave the variable, ToV came by the copy *)
(* of an edge whose vector was dropped since, and passes over it without an  *)
(* error, or a DROP came by the same item twice.                             *)
RunGaps(s) ==
    LET items == Yielded(db, env, s.gen)
        fetched == Fetch(db, env, s.gen.start)
    IN
    (IF s.gen.start.op \in {"NFromID", "EFromID", "VFromID"} /\
        \E k \in DOMAIN fetched :
            fetched[k].label \notin {None, s.gen.start.label}
     THEN {"label"} ELSE {}) \cup
    (IF /\ s.src.start.op = "Variable" /\ s.gen.start.op = "NFromIndex"
        /\ Len(fetched) > 1
     THEN {"reread"} ELSE {}) \cup
    (IF \E st \in ToSet(s.gen.steps), it \in ToSet(fetched) :
            /\ st.op = "To" /\ st.hop = "vector"
            /\ it.kind = "edge" /\ it.to \notin DOMAIN db.vectors
     THEN {"gone"} ELSE {}) \cup
    (IF s.kind = "drop" /\ \E j, k \in DOMAIN items :
            j < k /\ items[j].id = items[k].id /\ items[j].kind # "error"
     THEN {"twice"} ELSE {})

Bind(vs, s, value) ==
    IF s.kind = "drop" THEN vs
    ELSE [y \in DOMAIN vs \cup {s.var} |-> IF y = s.var THEN value ELSE vs[y]]

(* The generated code executes one statement, with outcome r.                *)
Run(r, s) ==
    /\ db' = IF r.ok THEN r.graph ELSE stored
    /\ env' = IF r.ok THEN Bind(env, s, r.value) ELSE env
    /\ pos' = pos + 1
    /\ phase' = IF ~r.ok THEN "failed"
                ELSE IF pos + 1 = Len(query) THEN "committed" ELSE "run"

RunGenerated(s) == Run(RunStatement(db, env, s), s)

(* The same statement, as the query means it, until it means a failure.      *)
Follow(m, s) ==
    /\ want' = IF m.ok THEN m.graph ELSE stored
    /\ wantEnv' = IF m.ok THEN Bind(wantEnv, s, m.value) ELSE wantEnv
    /\ wantOk' = m.ok

RunMeaning(s) ==
    IF wantOk THEN Follow(MeaningOf(want, wantEnv, s), s)
    ELSE UNCHANGED <<want, wantEnv, wantOk>>

Execute ==
    /\ phase = "run"
    /\ RunGenerated(query[pos + 1])
    /\ RunMeaning(query[pos + 1])
    /\ gaps' = gaps \cup RunGaps(query[pos + 1])
    /\ UNCHANGED <<analysis, stored>>

-----------------------------------------------------------------------------
NoGraph == [nodes |-> <<>>, edges |-> <<>>, vectors |-> <<>>, next |-> 1]

Init ==
    /\ scope = [x \in {} |-> None]
    /\ src = NoTraversal /\ gen = NothingGenerated /\ cur_ty = NoType
    /\ closed = FALSE
    /\ is_mut = FALSE /\ query = <<>> /\ spent = 0 /\ gaps = {}
    /\ phase = "compile" /\ pos = 0
    /\ stored = NoGraph /\ db = NoGraph /\ want = NoGraph
    /\ env = NoVars /\ wantEnv = NoVars /\ wantOk = TRUE

StartStep ==
    \/ StartNodes \/ StartNodeByIndex \/ StartNodeByID \/ StartEdges
    \/ StartVectors \/ StartIdentifier

GraphStep ==
    \/ StepOutE \/ StepInE \/ StepOut \/ StepIn
    \/ StepFromN \/ StepToN \/ StepFromV \/ StepToV

UtilStep ==
    \/ StepWhere \/ StepRange \/ StepCount \/ StepAggregate \/ StepGroupBy

LastStep == StepFirst \/ StepUpdate \/ StepUpsertN

Next ==
    \/ StartStep \/ GraphStep \/ UtilStep \/ LastStep
    \/ Assignment \/ DropStatement \/ Deploy \/ Execute

Spec == Init /\ [][Next]_vars

-----------------------------------------------------------------------------
(* Properties.                                                               *)

(* What the analyzer says of a variable is what the generated code binds to  *)
(* it: one item or many, nodes, edges or vectors of the label, a number or   *)
(* groups.  The traversals that break it are those in gaps.                  *)
Conforms(v, info) ==
    CASE info.ty.kind = "Count" -> v.shape = "number"
      [] info.ty.kind = "Aggregate" -> v.shape = "groups"
      [] OTHER ->
            /\ v.shape = IF info.single THEN "one" ELSE "many"
            /\ \A k \in DOMAIN v.items :
                  /\ v.items[k].kind = ItemKind(info.ty)
                  /\ v.items[k].label = info.ty.label

TypeSound ==
    gaps = {} => \A x \in DOMAIN env : Conforms(env[x], scope[x])

(* Outside the constructs named in gaps, a compiled query does what it says: *)
(* the same outcome, the same variables and the same graph, for every graph  *)
(* it is deployed on.                                                        *)
SameAsMeant ==
    /\ wantOk = (phase # "failed")
    /\ db = want /\ env = wantEnv

MeaningKept == gaps = {} => SameAsMeant

(* A query that was given a read transaction has no statement that writes    *)
(* and leaves the graph alone; one given a write transaction has such a      *)
(* statement.                                                                *)
Writes(s) == s.kind = "drop" \/ s.gen.write # NoWrite

ReadersDoNotWrite ==
    phase # "compile" =>
        /\ is_mut = \E k \in DOMAIN query : Writes(query[k])
        /\ ~is_mut => db = stored
=============================================================================
