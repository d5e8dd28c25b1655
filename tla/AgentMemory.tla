----------------------------- MODULE AgentMemory -----------------------------
(***************************************************************************)
(* The memory library for agents, crates/sparrow-memory: threads of         *)
(* research, their runs, and the findings, questions and summaries of runs, *)
(* as nodes and edges of an embedded store with six secondary indices.      *)
(*                                                                          *)
(* Agents share the store, as threads of a process or as processes of their *)
(* own.  Each action is one LMDB transaction, and most calls are several:   *)
(* what the others do in between is seen, and a call cut off by a kill or   *)
(* by a failed transaction leaves what it had committed.                    *)
(***************************************************************************)
EXTENDS Integers, FiniteSets, FiniteSetsExt

CONSTANTS
    Agents,
    Titles,           \* (agent_name, name) pairs threads are opened under
    Entities,         \* entities of the domain a finding may be about
    None,             \* a finding about no entity
    MaxSummaries,     \* how many summaries and findings a recall returns
    MaxFindings,
    MaxId,            \* bound: nodes
    MaxFaults         \* bound: kills and failed transactions

ASSUME MemoryAssumption ==
    /\ None \notin Entities
    /\ MaxSummaries \in Nat /\ MaxFindings \in Nat
    /\ MaxId \in Nat /\ MaxFaults \in Nat

VARIABLES
    nodes,            \* nodes_db: id -> node
    edges,            \* <<from, label, to>>
    index,            \* index name -> {<<key, id>>}
    issued,           \* ids given out: v6_uuid is ascending
    thread,           \* the ThreadHandle of each agent: an id, or 0
    run,              \* the RunHandle of each agent
    call,             \* what each agent's call does next
    faults,
    acked,            \* edges of the findings and questions whose call
                      \* returned Ok (observer)
    overlapped        \* titles two calls looked for together (observer)

store == <<nodes, edges, index>>
handles == <<thread, run>>
observed == <<acked, overlapped>>
vars == <<store, issued, handles, call, faults, observed>>

-----------------------------------------------------------------------------
(* Nodes and reads.                                                          *)

Thread(title) == [label |-> "research_thread", title |-> title]
Run(t) == [label |-> "agent_run", thread |-> t, status |-> "running"]
Finding(t, e) == [label |-> "finding", thread |-> t, entity |-> e]
Question(t) == [label |-> "open_question", thread |-> t, status |-> "open"]
Summary(t, r, findings, questions) ==
    [label |-> "run_summary", thread |-> t, run |-> r,
     finding_count |-> findings, question_count |-> questions]

Labelled(label) == {i \in DOMAIN nodes : nodes[i].label = label}

ids_from_index(name, key) == {p[2] : p \in {q \in index[name] : q[1] = key}}

out_neighbors(from, label) ==
    {e[3] : e \in {d \in edges : d[1] = from /\ d[2] = label}}

IsOpen(q) == nodes[q].status = "open"

QuestionsByStatus(t) ==
    {q \in ids_from_index("question:status", "open") : nodes[q].thread = t}

(* The questions of a thread, of which the caller keeps the open ones.       *)
QuestionsOf(t) == ids_from_index("question:thread_id", t)

(* sort_by descending, truncate.                                             *)
Oldest(ids, n) == {i \in ids : Cardinality({j \in ids : j < i}) < n}

Newest(ids, n) == {i \in ids : Cardinality({j \in ids : j > i}) < n}

-----------------------------------------------------------------------------
(* Transactions and calls.                                                   *)

write_node(id, node) ==
    nodes' = [i \in DOMAIN nodes \cup {id} |-> IF i = id THEN node ELSE nodes[i]]

add_to_index(name, key, id) ==
    index' = [index EXCEPT ![name] = @ \cup {<<key, id>>}]

remove_from_index(name, key, id) ==
    index' = [index EXCEPT ![name] = @ \ {<<key, id>>}]

write_node_indexed(id, node, name) ==
    write_node(id, node) /\ add_to_index(name, node.thread, id)

write_edge(from, label, to) == edges' = edges \cup {<<from, label, to>>}

Idle == [pc |-> "idle"]
NoRun == [id |-> 0]

(* An agent that holds the answer of a recall is free for its next call.     *)
Free(a) == call[a].pc \in {"idle", "answered"}

At(a, pc) == call[a].pc = pc

Become(a, c) == call' = [call EXCEPT ![a] = c]
Return(a) == Become(a, Idle)
Goto(a, pc) == call' = [call EXCEPT ![a].pc = pc]

v6_uuid == issued < MaxId /\ issued' = issued + 1

-----------------------------------------------------------------------------
(* ThreadHandle::get_or_create: a scan of all nodes, the lowest id first,    *)
(* and a write transaction when there is no match.                           *)

MatchesOtherLabel(title) ==
    {i \in Labelled("thread") : nodes[i].title = title}

Matches(title) == {i \in Labelled("research_thread") : nodes[i].title = title}

FindThread(a) ==
    \E title \in Titles :
        /\ Free(a) /\ Matches(title) # {}
        /\ thread' = [thread EXCEPT ![a] = Min(Matches(title))]
        /\ Return(a)
        /\ UNCHANGED <<store, issued, run, faults, observed>>

MissThread(a) ==
    \E title \in Titles :
        /\ Free(a) /\ Matches(title) = {}
        /\ v6_uuid
        /\ Become(a, [pc |-> "create_thread", id |-> issued',
                      node |-> Thread(title)])
        /\ overlapped' = overlapped \cup
              {t \in {title} : \E b \in Agents :
                   At(b, "create_thread") /\ call[b].node.title = t}
        /\ UNCHANGED <<store, handles, faults, acked>>

CreateThread(a) ==
    LET c == call[a] IN
    /\ At(a, "create_thread")
    /\ write_node(c.id, c.node)
    /\ thread' = [thread EXCEPT ![a] = c.id]
    /\ Return(a)
    /\ UNCHANGED <<edges, index, issued, run, faults, observed>>

-----------------------------------------------------------------------------
(* RunHandle::create, with the questions that are open when it starts (due,  *)
(* an observer).  A handle the agent still had is dropped: its run stays     *)
(* "running".                                                                *)

StartRun(a) ==
    LET t == thread[a] IN
    /\ Free(a) /\ t # 0
    /\ v6_uuid
    /\ Become(a, [pc |-> "write_run", id |-> issued', thread |-> t,
                  due |-> {q \in Labelled("open_question") :
                              nodes[q].thread = t /\ IsOpen(q)},
                  todo |-> {}, prev |-> 0])
    /\ UNCHANGED <<store, handles, faults, observed>>

WriteRun(a) ==
    LET c == call[a] IN
    /\ At(a, "write_run")
    /\ write_node_indexed(c.id, Run(c.thread), "run:thread_id")
    /\ Goto(a, "list_runs")
    /\ UNCHANGED <<edges, issued, handles, faults, observed>>

(* The earlier runs, then their status one by one.                           *)
ReadRest(a, c, todo, prev) ==
    Become(a, [c EXCEPT !.pc = IF todo # {} THEN "read_run"
                               ELSE IF prev # 0 THEN "follow" ELSE "part_of",
                        !.todo = todo, !.prev = prev])

ListRuns(a) ==
    LET c == call[a] IN
    /\ At(a, "list_runs")
    /\ ReadRest(a, c, ids_from_index("run:thread_id", c.thread) \ {c.id}, 0)
    /\ UNCHANGED <<store, issued, handles, faults, observed>>

IsPrevAny(r) == TRUE

IsPrev(r) == nodes[r].status = "completed"

(* A run that cannot be read has no status, and is passed over.              *)
ReadRun(a) ==
    LET c == call[a]
        r == Min(c.todo)
    IN  /\ At(a, "read_run")
        /\ \/ /\ ReadRest(a, c, c.todo \ {r}, IF IsPrev(r) THEN r ELSE c.prev)
              /\ UNCHANGED faults
           \/ /\ faults < MaxFaults
              /\ faults' = faults + 1
              /\ ReadRest(a, c, c.todo \ {r}, c.prev)
        /\ UNCHANGED <<store, issued, handles, observed>>

Follow(a) ==
    LET c == call[a] IN
    /\ At(a, "follow")
    /\ write_edge(c.id, "FOLLOWS", c.prev)
    /\ Goto(a, "part_of")
    /\ UNCHANGED <<nodes, index, issued, handles, faults, observed>>

PartOf(a) ==
    LET c == call[a] IN
    /\ At(a, "part_of")
    /\ write_edge(c.id, "PART_OF", c.thread)
    /\ Goto(a, "list_questions")
    /\ UNCHANGED <<nodes, index, issued, handles, faults, observed>>

(* The questions of the thread, each read and, if open, carried over.        *)
CarryRest(a, c, todo) ==
    IF todo # {}
    THEN /\ Become(a, [c EXCEPT !.pc = "read_question", !.todo = todo])
         /\ UNCHANGED run
    ELSE /\ run' = [run EXCEPT ![a] = [id |-> c.id, thread |-> c.thread,
                                       due |-> c.due]]
         /\ Return(a)

ListQuestions(a) ==
    LET c == call[a] IN
    /\ At(a, "list_questions")
    /\ CarryRest(a, c, QuestionsOf(c.thread))
    /\ UNCHANGED <<store, issued, thread, faults, observed>>

ReadQuestion(a) ==
    LET c == call[a]
        q == Min(c.todo)
    IN  /\ At(a, "read_question")
        /\ IF IsOpen(q)
           THEN Goto(a, "carry") /\ UNCHANGED run
           ELSE CarryRest(a, c, c.todo \ {q})
        /\ UNCHANGED <<store, issued, thread, faults, observed>>

Carry(a) ==
    LET c == call[a]
        q == Min(c.todo)
    IN  /\ At(a, "carry")
        /\ write_edge(c.id, "CARRIED", q)
        /\ CarryRest(a, c, c.todo \ {q})
        /\ UNCHANGED <<nodes, index, issued, thread, faults, observed>>

-----------------------------------------------------------------------------
(* record_finding and raise_question.                                        *)

HasRun(a) == Free(a) /\ run[a].id # 0

(* The call returns Ok, with this edge among what it wrote.                  *)
Acknowledge(edge) == acked' = acked \cup {edge}

record_finding(a) ==
    \E e \in Entities \cup {None} :
        /\ HasRun(a)
        /\ v6_uuid
        /\ Become(a, [pc |-> "write_finding", id |-> issued', entity |-> e])
        /\ UNCHANGED <<store, handles, faults, observed>>

WriteFinding(a) ==
    LET c == call[a] IN
    /\ At(a, "write_finding")
    /\ write_node_indexed(c.id, Finding(run[a].thread, c.entity),
                          "finding:thread_id")
    /\ Goto(a, "produced")
    /\ UNCHANGED <<edges, issued, handles, faults, observed>>

Produced(a) ==
    LET c == call[a] IN
    /\ At(a, "produced")
    /\ write_edge(run[a].id, "PRODUCED", c.id)
    /\ IF c.entity # None
       THEN Goto(a, "index_entity") /\ UNCHANGED acked
       ELSE Return(a) /\ Acknowledge(<<run[a].id, "PRODUCED", c.id>>)
    /\ UNCHANGED <<nodes, index, issued, handles, faults, overlapped>>

IndexEntity(a) ==
    LET c == call[a] IN
    /\ At(a, "index_entity")
    /\ add_to_index("finding:entity_id", c.entity, c.id)
    /\ Return(a)
    /\ Acknowledge(<<run[a].id, "PRODUCED", c.id>>)
    /\ UNCHANGED <<nodes, edges, issued, handles, faults, overlapped>>

raise_question(a) ==
    /\ HasRun(a)
    /\ v6_uuid
    /\ Become(a, [pc |-> "write_question", id |-> issued'])
    /\ UNCHANGED <<store, handles, faults, observed>>

WriteQuestion(a) ==
    LET c == call[a] IN
    /\ At(a, "write_question")
    /\ write_node_indexed(c.id, Question(run[a].thread), "question:thread_id")
    /\ Goto(a, "index_status")
    /\ UNCHANGED <<edges, issued, handles, faults, observed>>

IndexStatus(a) ==
    LET c == call[a] IN
    /\ At(a, "index_status")
    /\ add_to_index("question:status", "open", c.id)
    /\ Goto(a, "raised")
    /\ UNCHANGED <<nodes, edges, issued, handles, faults, observed>>

Raised(a) ==
    LET c == call[a] IN
    /\ At(a, "raised")
    /\ write_edge(run[a].id, "RAISED", c.id)
    /\ Return(a)
    /\ Acknowledge(<<run[a].id, "RAISED", c.id>>)
    /\ UNCHANGED <<nodes, index, issued, handles, faults, overlapped>>

-----------------------------------------------------------------------------
(* answer_question: the ids are those of any question and finding a recall   *)
(* returned.  The record is read, and written back from the copy.            *)

answer_question(a) ==
    \E q \in Labelled("open_question"), f \in Labelled("finding") :
        /\ HasRun(a)
        /\ Become(a, [pc |-> "resolve", question |-> q, finding |-> f,
                      copy |-> nodes[q]])
        /\ UNCHANGED <<store, issued, handles, faults, observed>>

Resolve(a) ==
    LET c == call[a] IN
    /\ At(a, "resolve")
    /\ write_node(c.question, [c.copy EXCEPT !.status = "resolved"])
    /\ Goto(a, "unlist")
    /\ UNCHANGED <<edges, index, issued, handles, faults, observed>>

Unlist(a) ==
    LET c == call[a] IN
    /\ At(a, "unlist")
    /\ remove_from_index("question:status", "open", c.question)
    /\ Goto(a, "answers")
    /\ UNCHANGED <<nodes, edges, issued, handles, faults, observed>>

Answers(a) ==
    LET c == call[a] IN
    /\ At(a, "answers")
    /\ write_edge(c.finding, "ANSWERS", c.question)
    /\ Return(a)
    /\ UNCHANGED <<nodes, index, issued, handles, faults, observed>>

-----------------------------------------------------------------------------
(* complete and interrupt consume the handle.                                *)

completeByThread(a) ==
    LET r == run[a] IN
    /\ HasRun(a)
    /\ Become(a, [pc |-> "count_questions", run |-> r.id, thread |-> r.thread,
                  findings |-> Cardinality(ids_from_index("finding:thread_id",
                                                          r.thread))])
    /\ run' = [run EXCEPT ![a] = NoRun]
    /\ UNCHANGED <<store, issued, thread, faults, observed>>

complete(a) ==
    LET r == run[a] IN
    /\ HasRun(a)
    /\ Become(a, [pc |-> "count_questions", run |-> r.id, thread |-> r.thread,
                  findings |-> Cardinality(out_neighbors(r.id, "PRODUCED"))])
    /\ run' = [run EXCEPT ![a] = NoRun]
    /\ UNCHANGED <<store, issued, thread, faults, observed>>

CountQuestions(a) ==
    LET c == call[a] IN
    /\ At(a, "count_questions")
    /\ v6_uuid
    /\ Become(a, [pc |-> "write_summary", id |-> issued', run |-> c.run,
                  node |-> Summary(c.thread, c.run, c.findings,
                              Cardinality(out_neighbors(c.run, "RAISED")))])
    /\ UNCHANGED <<store, handles, faults, observed>>

WriteSummary(a) ==
    LET c == call[a] IN
    /\ At(a, "write_summary")
    /\ write_node_indexed(c.id, c.node, "summary:thread_id")
    /\ Goto(a, "summarizes")
    /\ UNCHANGED <<edges, issued, handles, faults, observed>>

Summarizes(a) ==
    LET c == call[a] IN
    /\ At(a, "summarizes")
    /\ write_edge(c.id, "SUMMARIZES", c.run)
    /\ Become(a, [pc |-> "read_status", run |-> c.run])
    /\ UNCHANGED <<nodes, index, issued, handles, faults, observed>>

ReadStatus(a) ==
    LET c == call[a] IN
    /\ At(a, "read_status")
    /\ Become(a, [pc |-> "end_run", run |-> c.run,
                  copy |-> [nodes[c.run] EXCEPT !.status = "completed"]])
    /\ UNCHANGED <<store, issued, handles, faults, observed>>

interrupt(a) ==
    LET r == run[a] IN
    /\ HasRun(a)
    /\ Become(a, [pc |-> "end_run", run |-> r.id,
                  copy |-> [nodes[r.id] EXCEPT !.status = "interrupted"]])
    /\ run' = [run EXCEPT ![a] = NoRun]
    /\ UNCHANGED <<store, issued, thread, faults, observed>>

EndRun(a) ==
    LET c == call[a] IN
    /\ At(a, "end_run")
    /\ write_node(c.run, c.copy)
    /\ Return(a)
    /\ UNCHANGED <<edges, index, issued, handles, faults, observed>>

-----------------------------------------------------------------------------
(* build_recall, with what there was when it started (was, an observer).     *)
(* Summaries and findings are never written again, so that reading them one  *)
(* by one gives what they were when they were listed.                        *)

recall(a) ==
    LET t == thread[a] IN
    /\ Free(a) /\ t # 0
    /\ Become(a, [pc |-> "recall_findings", thread |-> t,
                  summaries |-> Newest(ids_from_index("summary:thread_id", t),
                                       MaxSummaries),
                  findings |-> {}, todo |-> {}, open |-> {},
                  was |-> {<<i, nodes[i]>> : i \in
                              {j \in Labelled("open_question") \cup
                                     Labelled("finding") \cup
                                     Labelled("run_summary") :
                                  nodes[j].thread = t}}])
    /\ UNCHANGED <<store, issued, handles, faults, observed>>

RecallFindings(a) ==
    LET c == call[a] IN
    /\ At(a, "recall_findings")
    /\ Become(a, [c EXCEPT !.pc = "recall_questions",
                  !.findings = Newest(ids_from_index("finding:thread_id",
                                                     c.thread), MaxFindings)])
    /\ UNCHANGED <<store, issued, handles, faults, observed>>

RecallRest(a, c, todo, open) ==
    Become(a, [c EXCEPT !.pc = IF todo # {} THEN "recall_question"
                               ELSE "answered",
                        !.todo = todo, !.open = open])

RecallQuestions(a) ==
    LET c == call[a] IN
    /\ At(a, "recall_questions")
    /\ RecallRest(a, c, QuestionsOf(c.thread), {})
    /\ UNCHANGED <<store, issued, handles, faults, observed>>

RecallQuestion(a) ==
    LET c == call[a]
        q == Min(c.todo)
    IN  /\ At(a, "recall_question")
        /\ RecallRest(a, c, c.todo \ {q},
                      c.open \cup {i \in {q} : IsOpen(i)})
        /\ UNCHANGED <<store, issued, handles, faults, observed>>

-----------------------------------------------------------------------------
(* A transaction of a call fails: the call returns an error, the store keeps *)
(* what was committed before, and handles stay.  Only ReadRun goes on.       *)
Fail(a) ==
    /\ ~Free(a) /\ ~At(a, "read_run") /\ faults < MaxFaults
    /\ Return(a)
    /\ faults' = faults + 1
    /\ UNCHANGED <<store, issued, handles, observed>>

(* The process of an agent is killed and started again.                      *)
Kill(a) ==
    /\ faults < MaxFaults
    /\ Return(a)
    /\ thread' = [thread EXCEPT ![a] = 0]
    /\ run' = [run EXCEPT ![a] = NoRun]
    /\ faults' = faults + 1
    /\ UNCHANGED <<store, issued, observed>>

Init ==
    /\ nodes = [i \in {} |-> Run(0)] /\ edges = {}
    /\ index = [name \in {"finding:thread_id", "finding:entity_id",
                          "question:thread_id", "question:status",
                          "run:thread_id", "summary:thread_id"} |-> {}]
    /\ issued = 0
    /\ thread = [a \in Agents |-> 0]
    /\ run = [a \in Agents |-> NoRun]
    /\ call = [a \in Agents |-> Idle]
    /\ faults = 0
    /\ acked = {} /\ overlapped = {}

ThreadStep(a) == FindThread(a) \/ MissThread(a) \/ CreateThread(a)

StartStep(a) ==
    \/ StartRun(a) \/ WriteRun(a) \/ ListRuns(a) \/ ReadRun(a) \/ Follow(a)
    \/ PartOf(a) \/ ListQuestions(a) \/ ReadQuestion(a) \/ Carry(a)

RunStep(a) ==
    \/ record_finding(a) \/ WriteFinding(a) \/ Produced(a) \/ IndexEntity(a)
    \/ raise_question(a) \/ WriteQuestion(a) \/ IndexStatus(a) \/ Raised(a)
    \/ answer_question(a) \/ Resolve(a) \/ Unlist(a) \/ Answers(a)

EndStep(a) ==
    \/ complete(a) \/ CountQuestions(a) \/ WriteSummary(a) \/ Summarizes(a)
    \/ ReadStatus(a) \/ interrupt(a) \/ EndRun(a)

RecallStep(a) ==
    \/ recall(a) \/ RecallFindings(a) \/ RecallQuestions(a) \/ RecallQuestion(a)

Next ==
    \E a \in Agents :
        \/ ThreadStep(a) \/ StartStep(a) \/ RunStep(a) \/ EndStep(a)
        \/ RecallStep(a) \/ Fail(a) \/ Kill(a)

Spec == Init /\ [][Next]_vars

-----------------------------------------------------------------------------
(* Properties.                                                               *)

(* The runs of a thread form chains: no run follows itself, however many     *)
(* agents start and complete runs of the thread at the same time.            *)
FollowsAcyclic ==
    \A S \in SUBSET Labelled("agent_run") :
        S # {} => \E r \in S : out_neighbors(r, "FOLLOWS") \cap S = {}

(* A run that was started has taken over every question that was open when   *)
(* start_run was called and is still open, also one whose raise_question was *)
(* cut off or is still under way.                                            *)
QuestionsCarried ==
    \A a \in Agents :
        run[a].id # 0 =>
            \A q \in run[a].due :
                IsOpen(q) => <<run[a].id, "CARRIED", q>> \in edges

(* A finding or question whose call returned Ok is found by every way there  *)
(* is to it: from its run, by its entity, among the open questions as long   *)
(* as it is open; and the summary of a run counts all of its run's.          *)
Listed(i) ==
    CASE nodes[i].label = "finding" ->
            nodes[i].entity # None =>
                i \in ids_from_index("finding:entity_id", nodes[i].entity)
      [] nodes[i].label = "open_question" ->
            IsOpen(i) => i \in ids_from_index("question:status", "open")

Counted(s) ==
    LET r == nodes[s].run IN
    /\ nodes[s].finding_count = Cardinality(out_neighbors(r, "PRODUCED"))
    /\ nodes[s].question_count = Cardinality(out_neighbors(r, "RAISED"))

AcknowledgedKept ==
    /\ acked \subseteq edges
    /\ \A e \in acked : Listed(e[3])
    /\ \A s \in Labelled("run_summary") : Counted(s)

(* The answer of a recall has every question that was open when it began and *)
(* still is, and none that was resolved before; and every finding and        *)
(* summary there was, unless newer ones fill the answer.                     *)
HasOrNewer(ids, i, n) == i \in ids \/ Cardinality({j \in ids : j > i}) = n

RecallSound ==
    \A a \in Agents : At(a, "answered") =>
        \A p \in call[a].was :
            CASE p[2].label = "finding" ->
                    HasOrNewer(call[a].findings, p[1], MaxFindings)
              [] p[2].label = "run_summary" ->
                    HasOrNewer(call[a].summaries, p[1], MaxSummaries)
              [] p[2].label = "open_question" ->
                    /\ p[2].status = "open" /\ IsOpen(p[1]) =>
                           p[1] \in call[a].open
                    /\ p[2].status = "resolved" => p[1] \notin call[a].open

(* get_or_create makes a second thread of one title only when two calls for  *)
(* it overlapped.                                                            *)
DuplicateNeedsOverlap ==
    \A i, j \in Labelled("research_thread") :
        i # j /\ nodes[i].title = nodes[j].title =>
            nodes[i].title \in overlapped
=============================================================================
