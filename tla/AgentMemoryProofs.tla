-------------------------- MODULE AgentMemoryProofs --------------------------
(***************************************************************************)
(* Theorems about AgentMemory, for any number of agents, titles, entities,  *)
(* nodes and faults.                                                        *)
(***************************************************************************)
EXTENDS AgentMemory, FiniteSetTheorems, WellFoundedInduction, TLAPS

-----------------------------------------------------------------------------
(* Types.                                                                   *)

ThreadNode == [label : {"research_thread"}, title : Titles]
RunNode == [label : {"agent_run"}, thread : Nat,
            status : {"running", "completed", "interrupted"}]
FindingNode == [label : {"finding"}, thread : Nat, entity : Entities \cup {None}]
QuestionNode == [label : {"open_question"}, thread : Nat,
                 status : {"open", "resolved"}]
SummaryNode == [label : {"run_summary"}, thread : Nat, run : Nat,
                finding_count : Nat, question_count : Nat]
Node == ThreadNode \cup RunNode \cup FindingNode \cup QuestionNode \cup SummaryNode

Indices == {"finding:thread_id", "finding:entity_id", "question:thread_id",
            "question:status", "run:thread_id", "summary:thread_id"}
Keys == Nat \cup Entities \cup {"open"}
EdgeLabels == {"FOLLOWS", "PART_OF", "CARRIED", "PRODUCED", "RAISED", "ANSWERS",
               "SUMMARIZES"}
EdgeSet == Nat \X EdgeLabels \X Nat

(* What a call holds, by where it is.                                       *)
StartPcs == {"write_run", "list_runs", "read_run", "follow", "part_of",
             "list_questions", "read_question", "carry"}
FindingPcs == {"write_finding", "produced", "index_entity"}
QuestionPcs == {"write_question", "index_status", "raised"}
AnswerPcs == {"resolve", "unlist", "answers"}
SummaryPcs == {"write_summary", "summarizes"}
EndPcs == {"count_questions"} \cup SummaryPcs \cup {"read_status", "end_run"}
RecallPcs == {"recall_findings", "recall_questions", "recall_question",
              "answered"}
CreatePcs == {"create_thread", "write_run", "write_finding", "write_question",
              "write_summary"}

IdleCall == [pc : {"idle"}]
ThreadCall == [pc : {"create_thread"}, id : Nat, node : ThreadNode]
StartCall == [pc : StartPcs, id : Nat, thread : Nat, due : SUBSET Nat,
              todo : SUBSET Nat, prev : Nat]
FindingCall == [pc : FindingPcs, id : Nat, entity : Entities \cup {None}]
QuestionCall == [pc : QuestionPcs, id : Nat]
AnswerCall == [pc : AnswerPcs, question : Nat, finding : Nat,
               copy : QuestionNode]
CountCall == [pc : {"count_questions"}, run : Nat, thread : Nat, findings : Nat]
SummaryCall == [pc : SummaryPcs, id : Nat, run : Nat, node : SummaryNode]
StatusCall == [pc : {"read_status"}, run : Nat]
EndedRun == [label : {"agent_run"}, thread : Nat,
             status : {"completed", "interrupted"}]
EndCall == [pc : {"end_run"}, run : Nat, copy : EndedRun]
RecallCall == [pc : RecallPcs, thread : Nat, summaries : SUBSET Nat,
               findings : SUBSET Nat, todo : SUBSET Nat, open : SUBSET Nat,
               was : SUBSET (Nat \X Node)]
Call == IdleCall \cup ThreadCall \cup StartCall \cup FindingCall
        \cup QuestionCall \cup AnswerCall \cup CountCall \cup SummaryCall
        \cup StatusCall \cup EndCall \cup RecallCall

RunHandle == [id : Nat \ {0}, thread : Nat, due : SUBSET Nat]

StoreTyped ==
    /\ issued \in Nat
    /\ DOMAIN nodes \subseteq 1..issued
    /\ nodes \in [DOMAIN nodes -> Node]
    /\ edges \in SUBSET EdgeSet /\ IsFiniteSet(edges)
    /\ index \in [Indices -> SUBSET (Keys \X Nat)]
    /\ \A name \in Indices : IsFiniteSet(index[name])

TypeOK ==
    /\ StoreTyped
    /\ thread \in [Agents -> Nat]
    /\ run \in [Agents -> RunHandle \cup {NoRun}]
    /\ call \in [Agents -> Call]
    /\ faults \in Nat
    /\ acked \in SUBSET EdgeSet
    /\ overlapped \in SUBSET Titles

-----------------------------------------------------------------------------
(* Identifiers.                                                             *)

(* The id of a node that a call is about to write is its own and new.       *)
Creating(a) == call[a].pc \in CreatePcs

Fresh ==
    /\ \A a \in Agents : Creating(a) =>
          call[a].id \in 1..issued /\ call[a].id \notin DOMAIN nodes
    /\ \A a, b \in Agents :
          Creating(a) /\ Creating(b) /\ call[a].id = call[b].id => a = b

(* The nodes a call or a handle refers to are what it takes them for.       *)
Started(a) == call[a].pc \in StartPcs \ {"write_run"}
Ending(a) == call[a].pc \in EndPcs
Answering(a) == call[a].pc \in AnswerPcs

IsListed(q) == <<"open", q>> \in index["question:status"]

RefersRun(a) ==
    /\ run[a].id # 0 => run[a].id \in Labelled("agent_run")
    /\ Started(a) => call[a].id \in Labelled("agent_run")
    /\ call[a].pc \in {"read_run", "read_question", "carry", "recall_question"} =>
          call[a].todo # {}
    /\ Ending(a) => call[a].run \in Labelled("agent_run")

RefersItem(a) ==
    /\ call[a].pc \in FindingPcs \cup QuestionPcs => run[a].id # 0
    /\ At(a, "index_entity") => call[a].entity # None
    /\ call[a].pc \in FindingPcs \ {"write_finding"} =>
          /\ call[a].id \in Labelled("finding")
          /\ nodes[call[a].id].entity = call[a].entity
    /\ call[a].pc \in QuestionPcs \ {"write_question"} =>
          call[a].id \in Labelled("open_question")
    /\ At(a, "raised") /\ IsOpen(call[a].id) => IsListed(call[a].id)
    /\ Answering(a) =>
          /\ call[a].question \in Labelled("open_question")
          /\ call[a].copy.thread = nodes[call[a].question].thread
    /\ Answering(a) /\ ~ At(a, "resolve") => ~ IsOpen(call[a].question)

Refers == \A a \in Agents : RefersRun(a) /\ RefersItem(a)

(* A run has one agent that fills it, and none once its end has begun.      *)
Starting(a) == call[a].pc \in StartPcs
Holds(a, r) == r # 0 /\ (run[a].id = r \/ (Starting(a) /\ call[a].id = r))
Ended(r) ==
    \/ \E a \in Agents : Ending(a) /\ call[a].run = r
    \/ \E s \in Labelled("run_summary") : nodes[s].run = r

Owned ==
    /\ \A a, b \in Agents : \A r \in Nat : Holds(a, r) /\ Holds(b, r) => a = b
    /\ \A a \in Agents : Starting(a) => call[a].id # run[a].id
    /\ \A a \in Agents : \A r \in Nat : Holds(a, r) => r <= issued /\ ~ Ended(r)
    /\ \A r \in Nat : Ended(r) => r <= issued
    /\ \A a \in Agents : At(a, "write_summary") => call[a].node.run = call[a].run

Ids == Fresh /\ Refers /\ Owned

-----------------------------------------------------------------------------
(* What a step leaves as it is.  Nothing is deleted; a question stays       *)
(* resolved and a run ended; only a resolved question leaves its index.     *)
NodeKept(i) ==
    /\ i \in DOMAIN nodes'
    /\ nodes'[i].label = nodes[i].label
    /\ nodes[i].label \notin {"agent_run", "open_question"} =>
          nodes'[i] = nodes[i]
    /\ nodes[i].label = "open_question" =>
          /\ nodes'[i].thread = nodes[i].thread
          /\ nodes[i].status # "open" => nodes'[i].status # "open"
          /\ IsListed(i) /\ nodes'[i].status = "open" => IsListed(i)'
    /\ nodes[i].label = "agent_run" /\ nodes[i].status # "running" =>
          nodes'[i].status # "running"

Kept ==
    /\ \A i \in DOMAIN nodes : NodeKept(i)
    /\ edges \subseteq edges'
    /\ \A name \in Indices \ {"question:status"} : index[name] \subseteq index'[name]
    /\ issued <= issued'

-----------------------------------------------------------------------------
(* The invariants of the properties.                                        *)

(* A thread that a call is about to create may have been created by another *)
(* that looked for it at the same time.                                     *)
Looking(a) == At(a, "create_thread")
Title(a) == call[a].node.title

DuplicateInv ==
    /\ DuplicateNeedsOverlap
    /\ \A a \in Agents : Looking(a) =>
          \A i \in Labelled("research_thread") :
             nodes[i].title = Title(a) => Title(a) \in overlapped
    /\ \A a, b \in Agents :
          a # b /\ Looking(a) /\ Looking(b) /\ Title(a) = Title(b) =>
             Title(a) \in overlapped

(* A node and its entry by thread are written together.                     *)
ByThread(label, name) ==
    \A i \in Labelled(label) : <<nodes[i].thread, i>> \in index[name]

IndexedInv ==
    /\ ByThread("finding", "finding:thread_id")
    /\ ByThread("open_question", "question:thread_id")
    /\ ByThread("run_summary", "summary:thread_id")

(* The questions that were open when the run was started are in the list    *)
(* from when it is read, until they are carried over or seen to be resolved.*)
Carried(r, q) == <<r, "CARRIED", q>> \in edges

DueInv ==
    \A a \in Agents :
        /\ run[a].id # 0 => run[a].due \subseteq Labelled("open_question")
        /\ Starting(a) => \A q \in call[a].due :
              q \in Labelled("open_question") /\ nodes[q].thread = call[a].thread
        /\ call[a].pc \in {"read_question", "carry"} =>
              \A q \in call[a].due :
                 IsOpen(q) => Carried(call[a].id, q) \/ q \in call[a].todo

CarriedInv == IndexedInv /\ DueInv /\ QuestionsCarried

(* The counts of a summary under construction.                              *)
Findings(r) == Cardinality(out_neighbors(r, "PRODUCED"))
Questions(r) == Cardinality(out_neighbors(r, "RAISED"))

CountsInv ==
    \A a \in Agents :
        /\ At(a, "count_questions") => call[a].findings = Findings(call[a].run)
        /\ At(a, "write_summary") =>
              /\ call[a].node.finding_count = Findings(call[a].run)
              /\ call[a].node.question_count = Questions(call[a].run)

AckedItems ==
    \A e \in acked :
        /\ e \in edges
        /\ e[3] \in Labelled("finding") \cup Labelled("open_question")
        /\ Listed(e[3])

Linked ==
    \A a \in Agents : At(a, "index_entity") =>
        <<run[a].id, "PRODUCED", call[a].id>> \in edges

AckedInv == AckedItems /\ Linked /\ CountsInv /\ \A s \in Labelled("run_summary") : Counted(s)

(* A run that has not ended follows others, and none follows it.            *)
Over(r) == r \in Labelled("agent_run") /\ nodes[r].status # "running"

ChainInv ==
    /\ \A e \in edges : e[2] = "FOLLOWS" =>
          e[1] \in Labelled("agent_run") /\ Over(e[3])
    /\ \A p \in index["run:thread_id"] : p[2] \in Labelled("agent_run")
    /\ \A a \in Agents : Starting(a) =>
          /\ Started(a) => nodes[call[a].id].status = "running"
          /\ At(a, "read_run") =>
                call[a].todo \subseteq Labelled("agent_run")
          /\ call[a].prev # 0 => Over(call[a].prev)
          /\ At(a, "follow") => call[a].prev # 0

FollowsInv == ChainInv /\ FollowsAcyclic

(* A recall under way: what has been listed so far holds what there was.    *)
Was(a, label) == {p \in call[a].was : p[2].label = label}

RecallPart(a) ==
    /\ \A p \in call[a].was :
          p[2].label \in {"open_question", "finding", "run_summary"}
    /\ \A p \in Was(a, "run_summary") :
          HasOrNewer(call[a].summaries, p[1], MaxSummaries)
    /\ \A p \in Was(a, "finding") :
          IF At(a, "recall_findings")
          THEN <<call[a].thread, p[1]>> \in index["finding:thread_id"]
          ELSE HasOrNewer(call[a].findings, p[1], MaxFindings)
    /\ At(a, "answered") => call[a].todo = {}
    /\ call[a].pc \in {"recall_findings", "recall_questions"} => call[a].open = {}
    /\ \A p \in Was(a, "open_question") :
          /\ p[1] \in Labelled("open_question")
          /\ <<call[a].thread, p[1]>> \in index["question:thread_id"]
          /\ p[2].status # "open" => ~ IsOpen(p[1]) /\ p[1] \notin call[a].open
          /\ p[2].status = "open" /\ IsOpen(p[1]) =>
                \/ call[a].pc \in {"recall_findings", "recall_questions"}
                \/ p[1] \in call[a].open \cup call[a].todo

Recalled == \A a \in Agents : call[a].pc \in RecallPcs => RecallPart(a)

RecallInv == IndexedInv /\ Recalled

-----------------------------------------------------------------------------
(* Numbers.                                                                 *)

(* A nonempty set of natural numbers has a least element, which is the one  *)
(* Min chooses.                                                             *)
LEMMA LeastNumber ==
    ASSUME NEW S \in SUBSET Nat, S # {}
    PROVE  \E n \in S : \A m \in S : n <= m
<1> DEFINE R == {p \in Nat \X Nat : p[1] < p[2]}
<1>1. IsWellFoundedOn(R, Nat)
    BY NatLessThanWellFounded DEF OpToRel
<1> HIDE DEF R
<1>2. PICK n \in S : \A m \in S : <<m, n>> \notin R
    BY <1>1, WFMin
<1>3. \A m \in S : ~ (m < n)
    BY <1>2 DEF R
<1> QED
    BY <1>3

LEMMA MinIsMember ==
    ASSUME NEW S \in SUBSET Nat, S # {}
    PROVE  Min(S) \in S
BY LeastNumber DEF Min

-----------------------------------------------------------------------------
(* Calls.                                                                   *)

(* Where a call is tells what it holds.                                     *)
LEMMA Kinds ==
    ASSUME NEW c \in Call
    PROVE  /\ c.pc = "create_thread" => c \in ThreadCall
           /\ c.pc \in StartPcs => c \in StartCall
           /\ c.pc \in FindingPcs => c \in FindingCall
           /\ c.pc \in QuestionPcs => c \in QuestionCall
           /\ c.pc \in AnswerPcs => c \in AnswerCall
           /\ c.pc = "count_questions" => c \in CountCall
           /\ c.pc \in SummaryPcs => c \in SummaryCall
           /\ c.pc = "read_status" => c \in StatusCall
           /\ c.pc = "end_run" => c \in EndCall
           /\ c.pc \in RecallPcs => c \in RecallCall
BY DEF Call, IdleCall, ThreadCall, StartCall, FindingCall, QuestionCall,
       AnswerCall, CountCall, SummaryCall, StatusCall, EndCall, RecallCall,
       StartPcs, FindingPcs, QuestionPcs, AnswerPcs, SummaryPcs, RecallPcs

(* A call that goes on to its next transaction keeps what it holds.         *)
LEMMA StartGoes ==
    ASSUME NEW c \in StartCall, NEW p \in StartPcs
    PROVE  LET d == [c EXCEPT !.pc = p] IN
           /\ d \in StartCall /\ d.pc = p
           /\ d.id = c.id /\ d.thread = c.thread /\ d.due = c.due
           /\ d.todo = c.todo /\ d.prev = c.prev
BY DEF StartCall

LEMMA FindingGoes ==
    ASSUME NEW c \in FindingCall, NEW p \in FindingPcs
    PROVE  LET d == [c EXCEPT !.pc = p] IN
           d \in FindingCall /\ d.pc = p /\ d.id = c.id /\ d.entity = c.entity
BY DEF FindingCall

LEMMA QuestionGoes ==
    ASSUME NEW c \in QuestionCall, NEW p \in QuestionPcs
    PROVE  LET d == [c EXCEPT !.pc = p] IN
           d \in QuestionCall /\ d.pc = p /\ d.id = c.id
BY DEF QuestionCall

LEMMA AnswerGoes ==
    ASSUME NEW c \in AnswerCall, NEW p \in AnswerPcs
    PROVE  LET d == [c EXCEPT !.pc = p] IN
           /\ d \in AnswerCall /\ d.pc = p /\ d.question = c.question
           /\ d.finding = c.finding /\ d.copy = c.copy
BY DEF AnswerCall

LEMMA SummaryGoes ==
    ASSUME NEW c \in SummaryCall, NEW p \in SummaryPcs
    PROVE  LET d == [c EXCEPT !.pc = p] IN
           /\ d \in SummaryCall /\ d.pc = p /\ d.id = c.id /\ d.run = c.run
           /\ d.node = c.node
BY DEF SummaryCall

-----------------------------------------------------------------------------
(* The store.                                                               *)

LEMMA NodeTypes ==
    ASSUME StoreTyped, NEW i \in DOMAIN nodes
    PROVE  /\ nodes[i] \in Node /\ i \in Nat \ {0} /\ i <= issued
           /\ nodes[i].label = "research_thread" => nodes[i] \in ThreadNode
           /\ nodes[i].label = "agent_run" => nodes[i] \in RunNode
           /\ nodes[i].label = "finding" => nodes[i] \in FindingNode
           /\ nodes[i].label = "open_question" => nodes[i] \in QuestionNode
           /\ nodes[i].label = "run_summary" => nodes[i] \in SummaryNode
<1>1. nodes[i] \in Node /\ i \in 1..issued /\ issued \in Nat
    BY DEF StoreTyped
<1> QED
    BY <1>1 DEF Node, ThreadNode, RunNode, FindingNode, QuestionNode, SummaryNode

(* A set of tuples has finitely many values in one place.                   *)
LEMMA FiniteColumn ==
    ASSUME NEW D, IsFiniteSet(D), NEW k
    PROVE  IsFiniteSet({d[k] : d \in D})
<1> DEFINE T == {d[k] : d \in D}
           f == [d \in D |-> d[k]]
<1>1. f \in Surjection(D, T)
    BY DEF Surjection
<1> QED
    BY <1>1, FS_Surjection DEF ExistsSurjection

LEMMA NeighborsTyped ==
    ASSUME StoreTyped, NEW r, NEW label
    PROVE  /\ out_neighbors(r, label) \in SUBSET Nat
           /\ IsFiniteSet(out_neighbors(r, label))
           /\ Cardinality(out_neighbors(r, label)) \in Nat
<1> DEFINE D == {d \in edges : d[1] = r /\ d[2] = label}
<1>1. IsFiniteSet(D)
    BY FS_Subset DEF StoreTyped
<1>2. IsFiniteSet({e[3] : e \in D})
    <2> HIDE DEF D
    <2> QED
        BY <1>1, FiniteColumn
<1>3. {e[3] : e \in D} \in SUBSET Nat
    BY DEF StoreTyped, EdgeSet
<1> QED
    BY <1>2, <1>3, FS_CardinalityType DEF out_neighbors

LEMMA EntriesTyped ==
    ASSUME StoreTyped, NEW name \in Indices, NEW key
    PROVE  /\ ids_from_index(name, key) \in SUBSET Nat
           /\ IsFiniteSet(ids_from_index(name, key))
           /\ \A i : <<key, i>> \in index[name] => i \in ids_from_index(name, key)
           /\ \A i \in ids_from_index(name, key) : <<key, i>> \in index[name]
<1> DEFINE D == {q \in index[name] : q[1] = key}
<1>1. index[name] \in SUBSET (Keys \X Nat) /\ IsFiniteSet(index[name])
    BY DEF StoreTyped
<1>2. IsFiniteSet({p[2] : p \in D})
    <2>1. IsFiniteSet(D)
        BY <1>1, FS_Subset
    <2> HIDE DEF D
    <2> QED
        BY <2>1, FiniteColumn
<1>3. {p[2] : p \in D} \in SUBSET Nat
    BY <1>1
<1>4. \A i : <<key, i>> \in index[name] => i \in {p[2] : p \in D}
    OBVIOUS
<1>5. \A i \in {p[2] : p \in D} : <<key, i>> \in index[name]
    BY <1>1
<1> QED
    BY <1>2, <1>3, <1>4, <1>5 DEF ids_from_index

LEMMA WriteNode ==
    ASSUME StoreTyped, NEW id \in 1..issued, NEW node \in Node,
           write_node(id, node), issued' = issued
    PROVE  /\ DOMAIN nodes' = DOMAIN nodes \cup {id}
           /\ DOMAIN nodes' \subseteq 1..issued'
           /\ nodes' \in [DOMAIN nodes' -> Node]
           /\ nodes'[id] = node
           /\ \A i \in DOMAIN nodes : i # id => nodes'[i] = nodes[i]
BY DEF StoreTyped, write_node

LEMMA WriteEdge ==
    ASSUME StoreTyped, NEW r \in Nat, NEW label \in EdgeLabels, NEW i \in Nat,
           write_edge(r, label, i)
    PROVE  /\ edges' = edges \cup {<<r, label, i>>}
           /\ edges' \in SUBSET EdgeSet
           /\ IsFiniteSet(edges')
<1>1. IsFiniteSet(edges)
    BY DEF StoreTyped
<1>2. IsFiniteSet(edges \cup {<<r, label, i>>})
    BY ONLY <1>1, FS_AddElement
<1> QED
    BY <1>2 DEF StoreTyped, write_edge, EdgeSet

LEMMA AddEntry ==
    ASSUME StoreTyped, NEW name \in Indices, NEW key \in Keys, NEW id \in Nat,
           add_to_index(name, key, id)
    PROVE  /\ index' \in [Indices -> SUBSET (Keys \X Nat)]
           /\ \A n \in Indices : IsFiniteSet(index'[n])
           /\ index'[name] = index[name] \cup {<<key, id>>}
           /\ \A n \in Indices : n # name => index'[n] = index[n]
<1>1. /\ index' \in [Indices -> SUBSET (Keys \X Nat)]
      /\ index'[name] = index[name] \cup {<<key, id>>}
      /\ \A n \in Indices : n # name => index'[n] = index[n]
    BY DEF StoreTyped, add_to_index
<1>2. IsFiniteSet(index'[name])
    <2>1. IsFiniteSet(index[name])
        BY DEF StoreTyped
    <2>2. IsFiniteSet(index[name] \cup {<<key, id>>})
        BY ONLY <2>1, FS_AddElement
    <2> QED
        BY <1>1, <2>2
<1> QED
    BY <1>1, <1>2 DEF StoreTyped

LEMMA RemoveEntry ==
    ASSUME StoreTyped, NEW name \in Indices, NEW key, NEW id,
           remove_from_index(name, key, id)
    PROVE  /\ index' \in [Indices -> SUBSET (Keys \X Nat)]
           /\ \A n \in Indices : IsFiniteSet(index'[n])
           /\ index'[name] = index[name] \ {<<key, id>>}
           /\ \A n \in Indices : n # name => index'[n] = index[n]
<1>1. /\ index' \in [Indices -> SUBSET (Keys \X Nat)]
      /\ index'[name] = index[name] \ {<<key, id>>}
      /\ \A n \in Indices : n # name => index'[n] = index[n]
    BY DEF StoreTyped, remove_from_index
<1>2. IsFiniteSet(index'[name])
    BY <1>1, FS_Subset DEF StoreTyped
<1> QED
    BY <1>1, <1>2 DEF StoreTyped

(* What an agent's step does to its call and to those of others.            *)
LEMMA Becomes ==
    ASSUME call \in [Agents -> Call], NEW a \in Agents, NEW c \in Call, Become(a, c)
    PROVE  /\ call' \in [Agents -> Call]
           /\ call'[a] = c
           /\ \A b \in Agents : b # a => call'[b] = call[b]
BY DEF Become

LEMMA Returns ==
    ASSUME call \in [Agents -> Call], NEW a \in Agents, Return(a)
    PROVE  /\ call' \in [Agents -> Call]
           /\ call'[a] = Idle
           /\ \A b \in Agents : b # a => call'[b] = call[b]
BY DEF Return, Become, Idle, Call, IdleCall

LEMMA Goes ==
    ASSUME call \in [Agents -> Call], NEW a \in Agents, NEW p, Goto(a, p),
           [call[a] EXCEPT !.pc = p] \in Call
    PROVE  /\ call' \in [Agents -> Call]
           /\ call'[a] = [call[a] EXCEPT !.pc = p]
           /\ \A b \in Agents : b # a => call'[b] = call[b]
BY DEF Goto

-----------------------------------------------------------------------------
(* Type correctness.                                                        *)

LEMMA Stored ==
    ASSUME StoreTyped, UNCHANGED store, issued' = issued \/ issued' = issued + 1
    PROVE  StoreTyped'
BY DEF StoreTyped, store

LEMMA InitTyped ==
    ASSUME Init
    PROVE  TypeOK
<1>1. StoreTyped
    BY FS_EmptySet DEF Init, StoreTyped, Indices
<1> QED
    BY <1>1 DEF Init, TypeOK, NoRun, Idle, Call, IdleCall

LEMMA ThreadStepTyped ==
    ASSUME TypeOK, Ids, NEW a \in Agents, ThreadStep(a)
    PROVE  TypeOK'
<1> USE DEF TypeOK
<1>1. CASE FindThread(a)
    <2>1. PICK title \in Titles :
              /\ Matches(title) # {}
              /\ thread' = [thread EXCEPT ![a] = Min(Matches(title))]
              /\ Return(a)
              /\ UNCHANGED <<store, issued, run, faults, observed>>
        BY <1>1 DEF FindThread
    <2>2. Matches(title) \in SUBSET Nat
        BY DEF StoreTyped, Matches, Labelled
    <2>3. Min(Matches(title)) \in Nat
        BY <2>1, <2>2, MinIsMember
    <2> QED
        BY <2>1, <2>3, Returns, Stored DEF observed
<1>2. CASE MissThread(a)
    <2>1. PICK title \in Titles :
              /\ v6_uuid
              /\ Become(a, [pc |-> "create_thread", id |-> issued',
                            node |-> Thread(title)])
              /\ overlapped' \subseteq overlapped \cup {title}
              /\ UNCHANGED <<store, handles, faults, acked>>
        BY <1>2 DEF MissThread
    <2>2. [pc |-> "create_thread", id |-> issued', node |-> Thread(title)] \in Call
        BY <2>1 DEF StoreTyped, v6_uuid, Call, ThreadCall, ThreadNode, Thread
    <2> QED
        BY <2>1, <2>2, Becomes, Stored DEF handles, v6_uuid
<1>3. CASE CreateThread(a)
    <2>1. call[a] \in ThreadCall
        BY <1>3, Kinds DEF CreateThread, At
    <2>2. call[a].id \in 1..issued
        BY <1>3 DEF CreateThread, At, Ids, Fresh, Creating, CreatePcs
    <2>3. call[a].node \in Node
        BY <2>1 DEF ThreadCall, Node
    <2>4. StoreTyped'
        BY <1>3, <2>2, <2>3, WriteNode DEF CreateThread, StoreTyped
    <2> QED
        BY <1>3, <2>1, <2>4, Returns DEF CreateThread, ThreadCall, observed
<1> QED
    BY <1>1, <1>2, <1>3 DEF ThreadStep

LEMMA StartStepTyped ==
    ASSUME TypeOK, Ids, NEW a \in Agents, StartStep(a)
    PROVE  TypeOK'
<1> USE DEF TypeOK
<1>1. CASE StartRun(a)
    <2> DEFINE c == [pc |-> "write_run", id |-> issued', thread |-> thread[a],
                     due |-> {q \in Labelled("open_question") :
                                 nodes[q].thread = thread[a] /\ IsOpen(q)},
                     todo |-> {}, prev |-> 0]
    <2>1. c \in StartCall /\ (issued' = issued + 1)
        BY <1>1 DEF StartRun, v6_uuid, StoreTyped, StartCall, StartPcs, Labelled
    <2>2. c \in Call
        BY <2>1 DEF Call
    <2> HIDE DEF c
    <2>3. Become(a, c)
        BY <1>1 DEF StartRun, c
    <2> QED
        BY <1>1, <2>1, <2>2, <2>3, Becomes, Stored DEF StartRun, handles, observed
<1> DEFINE c == call[a]
<1>a. c.pc \in StartPcs => c \in StartCall /\ c \in Call
    BY Kinds
<1>b. ASSUME c \in StartCall, NEW p \in StartPcs PROVE [c EXCEPT !.pc = p] \in Call
    BY <1>b, StartGoes DEF Call
<1>c. ASSUME c \in StartCall, NEW todo \in SUBSET Nat, NEW prev \in Nat,
             NEW p \in StartPcs
      PROVE  [c EXCEPT !.pc = p, !.todo = todo, !.prev = prev] \in Call
    BY <1>c DEF StartCall, Call
<1>d. ASSUME c \in StartCall, NEW todo \in SUBSET Nat, NEW prev \in Nat,
             ReadRest(a, c, todo, prev)
      PROVE  /\ call' \in [Agents -> Call]
    <2> DEFINE p == IF todo # {} THEN "read_run"
                    ELSE IF prev # 0 THEN "follow" ELSE "part_of"
    <2>1. p \in StartPcs
        BY DEF StartPcs
    <2>2. [c EXCEPT !.pc = p, !.todo = todo, !.prev = prev] \in Call
        BY <1>c, <1>d, <2>1
    <2> QED
        BY <1>d, <2>2, Becomes DEF ReadRest
<1>e. ASSUME c \in StartCall, NEW todo \in SUBSET Nat, CarryRest(a, c, todo),
             c.id # 0
      PROVE  /\ call' \in [Agents -> Call]
             /\ run' \in [Agents -> RunHandle \cup {NoRun}]
    <2>1. CASE todo # {}
        <3>1. [c EXCEPT !.pc = "read_question", !.todo = todo] \in Call
            BY <1>e DEF StartCall, Call, StartPcs
        <3> QED
            BY <1>e, <2>1, <3>1, Becomes DEF CarryRest
    <2>2. CASE todo = {}
        BY <1>e, <2>2, Returns DEF CarryRest, StartCall, RunHandle
    <2> QED
        BY <2>1, <2>2
<1>f. Started(a) => c.id # 0
    BY DEF Ids, Refers, RefersRun, Labelled, StoreTyped
<1>2. CASE WriteRun(a)
    <2>1. c \in StartCall /\ c.id \in 1..issued
        BY <1>2, <1>a DEF WriteRun, At, StartPcs, Ids, Fresh, Creating, CreatePcs
    <2>2. Run(c.thread) \in Node /\ Run(c.thread).thread \in Keys
        BY <2>1 DEF StartCall, Run, RunNode, Node, Keys
    <2>3. StoreTyped'
        BY ZenonT(60), <1>2, <2>1, <2>2, WriteNode, AddEntry
        DEF WriteRun, write_node_indexed, StoreTyped, Indices, StartCall
    <2>4. call' \in [Agents -> Call]
        BY <1>2, <2>1, <1>b, Goes DEF WriteRun, StartPcs
    <2> QED
        BY <1>2, <2>3, <2>4 DEF WriteRun, handles, observed
<1>3. CASE ListRuns(a)
    <2>1. c \in StartCall
        BY <1>3, <1>a DEF ListRuns, At, StartPcs
    <2>2. ids_from_index("run:thread_id", c.thread) \ {c.id} \in SUBSET Nat
        BY EntriesTyped DEF Indices
    <2>3. call' \in [Agents -> Call]
        BY <1>3, <1>d, <2>1, <2>2 DEF ListRuns
    <2> QED
        BY <1>3, <2>3, Stored DEF ListRuns, handles, observed
<1>4. CASE ReadRun(a)
    <2>1. c \in StartCall
        BY <1>4, <1>a DEF ReadRun, At, StartPcs
    <2> DEFINE r == Min(c.todo)
    <2>2. c.todo \ {r} \in SUBSET Nat
        BY <2>1 DEF StartCall
    <2>3. (IF IsPrev(r) THEN r ELSE c.prev) \in Nat
        <3>1. CASE IsPrev(r)
            <4>1. c.todo # {}
                BY <1>4 DEF ReadRun, At, Ids, Refers, RefersRun, Started, StartPcs
            <4> QED
                BY <2>1, <3>1, <4>1, MinIsMember DEF StartCall
        <3> QED
            BY <2>1, <3>1 DEF StartCall
    <2>4. PICK prev : prev \in Nat /\ ReadRest(a, c, c.todo \ {r}, prev)
        <3>1. c.prev \in Nat
            BY <2>1 DEF StartCall
        <3> QED
            BY <1>4, <2>3, <3>1 DEF ReadRun
    <2>5. call' \in [Agents -> Call]
        BY <1>d, <2>1, <2>2, <2>4
    <2> QED
        BY <1>4, <2>5, Stored DEF ReadRun, handles, observed
<1>5. CASE Follow(a)
    <2>1. c \in StartCall
        BY <1>5, <1>a DEF Follow, At, StartPcs
    <2>2. StoreTyped'
        BY <1>5, <2>1, WriteEdge DEF Follow, StoreTyped, StartCall, EdgeLabels
    <2>3. call' \in [Agents -> Call]
        BY <1>5, <2>1, <1>b, Goes DEF Follow, StartPcs
    <2> QED
        BY <1>5, <2>2, <2>3 DEF Follow, handles, observed
<1>6. CASE PartOf(a)
    <2>1. c \in StartCall
        BY <1>6, <1>a DEF PartOf, At, StartPcs
    <2>2. StoreTyped'
        BY <1>6, <2>1, WriteEdge DEF PartOf, StoreTyped, StartCall, EdgeLabels
    <2>3. call' \in [Agents -> Call]
        BY <1>6, <2>1, <1>b, Goes DEF PartOf, StartPcs
    <2> QED
        BY <1>6, <2>2, <2>3 DEF PartOf, handles, observed
<1>7. CASE ListQuestions(a)
    <2>1. c \in StartCall /\ c.id # 0
        BY <1>7, <1>a, <1>f DEF ListQuestions, At, StartPcs, Started
    <2>2. QuestionsOf(c.thread) \in SUBSET Nat
        BY EntriesTyped DEF QuestionsOf, Indices
    <2> QED
        BY <1>7, <1>e, <2>1, <2>2, Stored DEF ListQuestions, observed
<1>8. CASE ReadQuestion(a)
    <2>1. c \in StartCall /\ c.id # 0
        BY <1>8, <1>a, <1>f DEF ReadQuestion, At, StartPcs, Started
    <2>2. c.todo \ {Min(c.todo)} \in SUBSET Nat
        BY <2>1 DEF StartCall
    <2>3. CASE IsOpen(Min(c.todo))
        <3>1. call' \in [Agents -> Call]
            BY <1>8, <2>1, <2>3, <1>b, Goes DEF ReadQuestion, StartPcs
        <3> QED
            BY <1>8, <2>3, <3>1, Stored DEF ReadQuestion, observed
    <2>4. CASE ~ IsOpen(Min(c.todo))
        BY <1>8, <1>e, <2>1, <2>2, <2>4, Stored DEF ReadQuestion, observed
    <2> QED
        BY <2>3, <2>4
<1>9. CASE Carry(a)
    <2>1. c \in StartCall /\ c.id # 0
        BY <1>9, <1>a, <1>f DEF Carry, At, StartPcs, Started
    <2>2. c.todo \ {Min(c.todo)} \in SUBSET Nat /\ Min(c.todo) \in Nat
        <3>1. c.todo # {}
            BY <1>9 DEF Carry, At, Ids, Refers, RefersRun, Started, StartPcs
        <3> QED
            BY <2>1, <3>1, MinIsMember DEF StartCall
    <2>3. StoreTyped'
        BY <1>9, <2>1, <2>2, WriteEdge DEF Carry, StoreTyped, StartCall, EdgeLabels
    <2> QED
        BY <1>9, <1>e, <2>1, <2>2, <2>3 DEF Carry, observed
<1> QED
    BY <1>1, <1>2, <1>3, <1>4, <1>5, <1>6, <1>7, <1>8, <1>9 DEF StartStep

LEMMA RunStepTyped ==
    ASSUME TypeOK, Ids, NEW a \in Agents, RunStep(a)
    PROVE  TypeOK'
<1> USE DEF TypeOK
<1> DEFINE c == call[a]
<1>a. ASSUME HasRun(a) PROVE run[a] \in RunHandle
    BY <1>a DEF HasRun, NoRun
<1>b. /\ c.pc \in FindingPcs => c \in FindingCall
      /\ c.pc \in QuestionPcs => c \in QuestionCall
      /\ c.pc \in AnswerPcs => c \in AnswerCall
    BY Kinds
<1>c. Creating(a) => c.id \in 1..issued
    BY DEF Ids, Fresh
<1>d. run[a].id \in Nat /\ (run[a].id # 0 => run[a] \in RunHandle)
    BY DEF NoRun, RunHandle
<1>1. CASE record_finding(a)
    <2>1. PICK e \in Entities \cup {None} :
              Become(a, [pc |-> "write_finding", id |-> issued', entity |-> e])
        BY <1>1 DEF record_finding
    <2>2. issued' = issued + 1
        BY <1>1 DEF record_finding, v6_uuid
    <2>3. [pc |-> "write_finding", id |-> issued', entity |-> e] \in Call
        BY <2>2 DEF Call, FindingCall, FindingPcs, StoreTyped
    <2> QED
        BY <1>1, <2>1, <2>2, <2>3, Becomes, Stored
        DEF record_finding, handles, observed
<1>2. CASE WriteFinding(a)
    <2>1. c \in FindingCall /\ c.id \in 1..issued
        BY <1>2, <1>b, <1>c DEF WriteFinding, At, FindingPcs, Creating, CreatePcs
    <2>2. run[a] \in RunHandle
        BY <1>2, <1>d DEF WriteFinding, At, Ids, Refers, RefersItem, FindingPcs
    <2>3. /\ Finding(run[a].thread, c.entity) \in Node
          /\ Finding(run[a].thread, c.entity).thread \in Keys
        BY <2>1, <2>2 DEF FindingCall, RunHandle, Finding, FindingNode, Node, Keys
    <2>4. StoreTyped'
        BY ZenonT(60), <1>2, <2>1, <2>3, WriteNode, AddEntry
        DEF WriteFinding, write_node_indexed, StoreTyped, Indices, FindingCall
    <2>5. call' \in [Agents -> Call]
        <3>1. [c EXCEPT !.pc = "produced"] \in Call
            BY <2>1, FindingGoes DEF FindingPcs, Call
        <3> QED
            BY <1>2, <3>1, Goes DEF WriteFinding
    <2> QED
        BY <1>2, <2>4, <2>5 DEF WriteFinding, handles, observed
<1>3. CASE Produced(a)
    <2>1. c \in FindingCall
        BY <1>3, <1>b DEF Produced, At, FindingPcs
    <2>2. <<run[a].id, "PRODUCED", c.id>> \in EdgeSet
        BY <2>1, <1>d DEF FindingCall, EdgeSet, EdgeLabels
    <2>3. StoreTyped'
        BY <1>3, <1>d, <2>1, WriteEdge DEF Produced, StoreTyped, FindingCall, EdgeLabels
    <2>4. call' \in [Agents -> Call] /\ acked' \in SUBSET EdgeSet
        <3>1. [c EXCEPT !.pc = "index_entity"] \in Call
            BY <2>1, FindingGoes DEF FindingPcs, Call
        <3> QED
            BY <1>3, <2>2, <3>1, Goes, Returns DEF Produced, Acknowledge
    <2> QED
        BY <1>3, <2>3, <2>4 DEF Produced, handles
<1>4. CASE IndexEntity(a)
    <2>1. c \in FindingCall
        BY <1>4, <1>b DEF IndexEntity, At, FindingPcs
    <2>2. <<run[a].id, "PRODUCED", c.id>> \in EdgeSet
        BY <2>1, <1>d DEF FindingCall, EdgeSet, EdgeLabels
    <2>3. c.entity \in Keys
        BY <1>4, <2>1 DEF IndexEntity, At, Ids, Refers, RefersItem, FindingCall, Keys
    <2>4. StoreTyped'
        BY <1>4, <2>1, <2>3, AddEntry DEF IndexEntity, StoreTyped, FindingCall, Indices
    <2> QED
        BY <1>4, <2>2, <2>4, Returns DEF IndexEntity, Acknowledge, handles
<1>5. CASE raise_question(a)
    <2>1. issued' = issued + 1
        BY <1>5 DEF raise_question, v6_uuid
    <2>2. [pc |-> "write_question", id |-> issued'] \in Call
        BY <2>1 DEF Call, QuestionCall, QuestionPcs, StoreTyped
    <2> QED
        BY <1>5, <2>1, <2>2, Becomes, Stored DEF raise_question, handles, observed
<1>6. CASE WriteQuestion(a)
    <2>1. c \in QuestionCall /\ c.id \in 1..issued
        BY <1>6, <1>b, <1>c DEF WriteQuestion, At, QuestionPcs, Creating, CreatePcs
    <2>2. run[a] \in RunHandle
        BY <1>6, <1>d DEF WriteQuestion, At, Ids, Refers, RefersItem, QuestionPcs
    <2>3. Question(run[a].thread) \in Node /\ Question(run[a].thread).thread \in Keys
        BY <2>2 DEF RunHandle, Question, QuestionNode, Node, Keys
    <2>4. StoreTyped'
        <3> DEFINE node == Question(run[a].thread)
        <3>1. write_node(c.id, node) /\ add_to_index("question:thread_id", node.thread, c.id)
            BY <1>6 DEF WriteQuestion, write_node_indexed
        <3>2. node \in Node /\ node.thread \in Keys /\ c.id \in Nat
            BY <2>1, <2>3 DEF QuestionCall
        <3> HIDE DEF node
        <3> QED
            BY ZenonT(60), <1>6, <2>1, <3>1, <3>2, WriteNode, AddEntry
            DEF WriteQuestion, StoreTyped, Indices
    <2>5. call' \in [Agents -> Call]
        <3>1. [c EXCEPT !.pc = "index_status"] \in Call
            BY <2>1, QuestionGoes DEF QuestionPcs, Call
        <3> QED
            BY <1>6, <3>1, Goes DEF WriteQuestion
    <2> QED
        BY <1>6, <2>4, <2>5 DEF WriteQuestion, handles, observed
<1>7. CASE IndexStatus(a)
    <2>1. c \in QuestionCall
        BY <1>7, <1>b DEF IndexStatus, At, QuestionPcs
    <2>2. StoreTyped'
        BY <1>7, <2>1, AddEntry DEF IndexStatus, StoreTyped, QuestionCall, Indices, Keys
    <2>3. call' \in [Agents -> Call]
        <3>1. [c EXCEPT !.pc = "raised"] \in Call
            BY <2>1, QuestionGoes DEF QuestionPcs, Call
        <3> QED
            BY <1>7, <3>1, Goes DEF IndexStatus
    <2> QED
        BY <1>7, <2>2, <2>3 DEF IndexStatus, handles, observed
<1>8. CASE Raised(a)
    <2>1. c \in QuestionCall
        BY <1>8, <1>b DEF Raised, At, QuestionPcs
    <2>2. <<run[a].id, "RAISED", c.id>> \in EdgeSet
        BY <2>1, <1>d DEF QuestionCall, EdgeSet, EdgeLabels
    <2>3. StoreTyped'
        BY <1>8, <1>d, <2>1, WriteEdge DEF Raised, StoreTyped, QuestionCall, EdgeLabels
    <2> QED
        BY <1>8, <2>2, <2>3, Returns DEF Raised, Acknowledge, handles
<1>9. CASE answer_question(a)
    <2>1. PICK q \in Labelled("open_question"), f \in Labelled("finding") :
              Become(a, [pc |-> "resolve", question |-> q, finding |-> f,
                         copy |-> nodes[q]])
        BY <1>9 DEF answer_question
    <2>2. q \in Nat /\ f \in Nat /\ nodes[q] \in QuestionNode
        BY NodeTypes DEF Labelled
    <2>3. [pc |-> "resolve", question |-> q, finding |-> f, copy |-> nodes[q]] \in Call
        BY <2>2 DEF Call, AnswerCall, AnswerPcs
    <2> QED
        BY <1>9, <2>1, <2>3, Becomes, Stored DEF answer_question, handles, observed
<1>10. CASE Resolve(a)
    <2>1. c \in AnswerCall /\ c.question \in DOMAIN nodes
        BY <1>10, <1>b
        DEF Resolve, At, AnswerPcs, Ids, Refers, RefersItem, Answering, Labelled
    <2>2. [c.copy EXCEPT !.status = "resolved"] \in Node
        BY <2>1 DEF AnswerCall, QuestionNode, Node
    <2>3. StoreTyped'
        BY <1>10, <2>1, <2>2, WriteNode DEF Resolve, StoreTyped
    <2>4. call' \in [Agents -> Call]
        <3>1. [c EXCEPT !.pc = "unlist"] \in Call
            BY <2>1, AnswerGoes DEF AnswerPcs, Call
        <3> QED
            BY <1>10, <3>1, Goes DEF Resolve
    <2> QED
        BY <1>10, <2>3, <2>4 DEF Resolve, handles, observed
<1>11. CASE Unlist(a)
    <2>1. c \in AnswerCall
        BY <1>11, <1>b DEF Unlist, At, AnswerPcs
    <2>2. StoreTyped'
        BY <1>11, RemoveEntry DEF Unlist, StoreTyped, Indices
    <2>3. call' \in [Agents -> Call]
        <3>1. [c EXCEPT !.pc = "answers"] \in Call
            BY <2>1, AnswerGoes DEF AnswerPcs, Call
        <3> QED
            BY <1>11, <3>1, Goes DEF Unlist
    <2> QED
        BY <1>11, <2>2, <2>3 DEF Unlist, handles, observed
<1>12. CASE Answers(a)
    <2>1. c \in AnswerCall
        BY <1>12, <1>b DEF Answers, At, AnswerPcs
    <2>2. StoreTyped'
        BY <1>12, <2>1, WriteEdge DEF Answers, StoreTyped, AnswerCall, EdgeLabels
    <2> QED
        BY <1>12, <2>2, Returns DEF Answers, handles, observed
<1> QED
    BY <1>1, <1>2, <1>3, <1>4, <1>5, <1>6, <1>7, <1>8, <1>9, <1>10, <1>11, <1>12
    DEF RunStep

LEMMA EndStepTyped ==
    ASSUME TypeOK, Ids, NEW a \in Agents, EndStep(a)
    PROVE  TypeOK'
<1> USE DEF TypeOK
<1> DEFINE c == call[a]
<1>a. ASSUME HasRun(a)
      PROVE  /\ run[a] \in RunHandle
             /\ run[a].id \in DOMAIN nodes /\ nodes[run[a].id] \in RunNode
    BY <1>a, NodeTypes DEF HasRun, NoRun, Ids, Refers, RefersRun, Labelled
<1>b. /\ c.pc = "count_questions" => c \in CountCall
      /\ c.pc \in SummaryPcs => c \in SummaryCall
      /\ c.pc = "read_status" => c \in StatusCall
      /\ c.pc = "end_run" => c \in EndCall
    BY Kinds
<1>c. Creating(a) => c.id \in 1..issued
    BY DEF Ids, Fresh
<1>d. Ending(a) => c.run \in DOMAIN nodes /\ nodes[c.run] \in RunNode
    BY NodeTypes DEF Ids, Refers, RefersRun, Labelled
<1>1. CASE complete(a)
    <2> DEFINE d == [pc |-> "count_questions", run |-> run[a].id,
                     thread |-> run[a].thread,
                     findings |-> Cardinality(out_neighbors(run[a].id, "PRODUCED"))]
    <2>1. run[a] \in RunHandle
        BY <1>1, <1>a DEF complete
    <2>2. d \in Call
        BY <2>1, NeighborsTyped DEF RunHandle, Call, CountCall
    <2>3. Become(a, d)
        BY <1>1 DEF complete
    <2> HIDE DEF d
    <2> QED
        BY <1>1, <2>2, <2>3, Becomes, Stored DEF complete, observed
<1>2. CASE CountQuestions(a)
    <2> DEFINE node == Summary(c.thread, c.run, c.findings,
                               Cardinality(out_neighbors(c.run, "RAISED")))
    <2>1. c \in CountCall /\ issued' = issued + 1
        BY <1>2, <1>b DEF CountQuestions, At, v6_uuid
    <2>2. node \in SummaryNode
        BY <2>1, NeighborsTyped DEF CountCall, Summary, SummaryNode
    <2> HIDE DEF node
    <2>3. [pc |-> "write_summary", id |-> issued', run |-> c.run, node |-> node] \in Call
        BY <2>1, <2>2 DEF Call, CountCall, SummaryCall, SummaryPcs, StoreTyped
    <2>4. Become(a, [pc |-> "write_summary", id |-> issued', run |-> c.run, node |-> node])
        BY <1>2 DEF CountQuestions, node
    <2> QED
        BY <1>2, <2>1, <2>3, <2>4, Becomes, Stored
        DEF CountQuestions, handles, observed
<1>3. CASE WriteSummary(a)
    <2>1. c \in SummaryCall /\ c.id \in 1..issued
        BY <1>3, <1>b, <1>c DEF WriteSummary, At, SummaryPcs, Creating, CreatePcs
    <2>2. c.node \in Node /\ c.node.thread \in Keys
        BY <2>1 DEF SummaryCall, SummaryNode, Node, Keys
    <2>3. StoreTyped'
        BY ZenonT(60), <1>3, <2>1, <2>2, WriteNode, AddEntry
        DEF WriteSummary, write_node_indexed, StoreTyped, Indices, SummaryCall
    <2>4. call' \in [Agents -> Call]
        <3>1. [c EXCEPT !.pc = "summarizes"] \in Call
            BY <2>1, SummaryGoes DEF SummaryPcs, Call
        <3> QED
            BY <1>3, <3>1, Goes DEF WriteSummary
    <2> QED
        BY <1>3, <2>3, <2>4 DEF WriteSummary, handles, observed
<1>4. CASE Summarizes(a)
    <2>1. c \in SummaryCall
        BY <1>4, <1>b DEF Summarizes, At, SummaryPcs
    <2>2. StoreTyped'
        BY <1>4, <2>1, WriteEdge DEF Summarizes, StoreTyped, SummaryCall, EdgeLabels
    <2>3. [pc |-> "read_status", run |-> c.run] \in Call
        BY <2>1 DEF Call, SummaryCall, StatusCall
    <2> QED
        BY <1>4, <2>2, <2>3, Becomes DEF Summarizes, handles, observed
<1>5. CASE ReadStatus(a)
    <2> DEFINE d == [pc |-> "end_run", run |-> c.run,
                     copy |-> [nodes[c.run] EXCEPT !.status = "completed"]]
    <2>1. c \in StatusCall /\ nodes[c.run] \in RunNode
        BY <1>5, <1>b, <1>d DEF ReadStatus, At, Ending, EndPcs
    <2>2. d \in Call
        BY <2>1 DEF Call, StatusCall, EndCall, EndedRun, RunNode
    <2>3. Become(a, d)
        BY <1>5 DEF ReadStatus
    <2> HIDE DEF d
    <2> QED
        BY <1>5, <2>2, <2>3, Becomes, Stored DEF ReadStatus, handles, observed
<1>6. CASE interrupt(a)
    <2> DEFINE d == [pc |-> "end_run", run |-> run[a].id,
                     copy |-> [nodes[run[a].id] EXCEPT !.status = "interrupted"]]
    <2>1. run[a] \in RunHandle /\ nodes[run[a].id] \in RunNode
        BY <1>6, <1>a DEF interrupt
    <2>2. d \in Call
        BY <2>1 DEF Call, RunHandle, EndCall, EndedRun, RunNode
    <2>3. Become(a, d)
        BY <1>6 DEF interrupt
    <2> HIDE DEF d
    <2> QED
        BY <1>6, <2>2, <2>3, Becomes, Stored DEF interrupt, observed
<1>7. CASE EndRun(a)
    <2>1. c \in EndCall /\ c.run \in 1..issued
        BY <1>7, <1>b, <1>d DEF EndRun, At, Ending, EndPcs, StoreTyped
    <2>2. c.copy \in Node
        BY <2>1 DEF EndCall, EndedRun, RunNode, Node
    <2>3. StoreTyped'
        BY <1>7, <2>1, <2>2, WriteNode DEF EndRun, StoreTyped
    <2> QED
        BY <1>7, <2>3, Returns DEF EndRun, handles, observed
<1> QED
    BY <1>1, <1>2, <1>3, <1>4, <1>5, <1>6, <1>7 DEF EndStep

LEMMA RecallStepTyped ==
    ASSUME TypeOK, Ids, NEW a \in Agents, RecallStep(a)
    PROVE  TypeOK'
<1> USE DEF TypeOK
<1> DEFINE c == call[a]
<1>a. c.pc \in RecallPcs => c \in RecallCall
    BY Kinds
<1>b. ASSUME c \in RecallCall, NEW todo \in SUBSET Nat, NEW open \in SUBSET Nat,
             RecallRest(a, c, todo, open)
      PROVE  call' \in [Agents -> Call]
    <2> DEFINE p == IF todo # {} THEN "recall_question" ELSE "answered"
    <2>1. p \in RecallPcs
        BY DEF RecallPcs
    <2>2. [c EXCEPT !.pc = p, !.todo = todo, !.open = open] \in Call
        BY <1>b, <2>1 DEF RecallCall, Call
    <2> QED
        BY <1>b, <2>2, Becomes DEF RecallRest
<1>c. ASSUME NEW ids \in SUBSET Nat, NEW n PROVE Newest(ids, n) \in SUBSET Nat
    BY DEF Newest
<1>1. CASE recall(a)
    <2> DEFINE t == thread[a]
               items == {j \in Labelled("open_question") \cup Labelled("finding")
                                \cup Labelled("run_summary") : nodes[j].thread = t}
               was == {<<i, nodes[i]>> : i \in items}
               d == [pc |-> "recall_findings", thread |-> t,
                     summaries |-> Newest(ids_from_index("summary:thread_id", t),
                                          MaxSummaries),
                     findings |-> {}, todo |-> {}, open |-> {}, was |-> was]
    <2>1. \A i \in items : i \in Nat /\ nodes[i] \in Node
        BY NodeTypes DEF Labelled
    <2>2. was \in SUBSET (Nat \X Node)
        BY <2>1
    <2>3. d.summaries \in SUBSET Nat
        BY EntriesTyped, <1>c DEF Indices
    <2>4. d \in RecallCall
        BY <2>2, <2>3 DEF RecallCall, RecallPcs
    <2>5. Become(a, d)
        BY <1>1 DEF recall
    <2> HIDE DEF d
    <2> QED
        BY <1>1, <2>4, <2>5, Becomes, Stored DEF recall, handles, observed, Call
<1>2. CASE RecallFindings(a)
    <2> DEFINE d == [c EXCEPT !.pc = "recall_questions",
                     !.findings = Newest(ids_from_index("finding:thread_id",
                                                        c.thread), MaxFindings)]
    <2>1. c \in RecallCall
        BY <1>2, <1>a DEF RecallFindings, At, RecallPcs
    <2>2. Newest(ids_from_index("finding:thread_id", c.thread), MaxFindings)
              \in SUBSET Nat
        BY EntriesTyped, <1>c DEF Indices
    <2>3. d \in Call
        BY <2>1, <2>2 DEF RecallCall, RecallPcs, Call
    <2>4. Become(a, d)
        BY <1>2 DEF RecallFindings
    <2> HIDE DEF d
    <2> QED
        BY <1>2, <2>3, <2>4, Becomes, Stored DEF RecallFindings, handles, observed
<1>3. CASE RecallQuestions(a)
    <2>1. c \in RecallCall
        BY <1>3, <1>a DEF RecallQuestions, At, RecallPcs
    <2>2. QuestionsOf(c.thread) \in SUBSET Nat
        BY EntriesTyped DEF QuestionsOf, Indices
    <2> QED
        BY <1>3, <1>b, <2>1, <2>2, Stored DEF RecallQuestions, handles, observed
<1>4. CASE RecallQuestion(a)
    <2> DEFINE q == Min(c.todo)
    <2>1. c \in RecallCall
        BY <1>4, <1>a DEF RecallQuestion, At, RecallPcs
    <2>2. q \in Nat
        <3>1. c.todo # {}
            BY <1>4 DEF RecallQuestion, At, Ids, Refers, RefersRun
        <3> QED
            BY <2>1, <3>1, MinIsMember DEF RecallCall
    <2>3. /\ c.todo \ {q} \in SUBSET Nat
          /\ c.open \cup {i \in {q} : IsOpen(i)} \in SUBSET Nat
        BY <2>1, <2>2 DEF RecallCall
    <2> QED
        BY <1>4, <1>b, <2>1, <2>3, Stored DEF RecallQuestion, handles, observed
<1> QED
    BY <1>1, <1>2, <1>3, <1>4 DEF RecallStep

LEMMA StopTyped ==
    ASSUME TypeOK, NEW a \in Agents, Fail(a) \/ Kill(a)
    PROVE  TypeOK'
<1> USE DEF TypeOK
<1>1. CASE Fail(a)
    BY <1>1, Returns, Stored DEF Fail, handles, observed
<1>2. CASE Kill(a)
    BY <1>2, Returns, Stored DEF Kill, observed
<1> QED
    BY <1>1, <1>2

LEMMA NextTyped ==
    ASSUME TypeOK, Ids, [Next]_vars
    PROVE  TypeOK'
<1>1. CASE Next
    BY <1>1, ThreadStepTyped, StartStepTyped, RunStepTyped, EndStepTyped,
       RecallStepTyped, StopTyped DEF Next
<1>2. CASE UNCHANGED vars
    BY <1>2, Stored DEF vars, handles, observed, TypeOK
<1> QED
    BY <1>1, <1>2

-----------------------------------------------------------------------------
(* What a step does to the call of its agent.                               *)

SameStart(a) ==
    /\ call'[a].id = call[a].id /\ call'[a].thread = call[a].thread
    /\ call'[a].due = call[a].due

LEMMA GotoStart ==
    ASSUME TypeOK, NEW a \in Agents, call[a].pc \in StartPcs,
           NEW p \in StartPcs, Goto(a, p)
    PROVE  /\ call'[a].pc = p /\ SameStart(a)
           /\ call'[a].todo = call[a].todo /\ call'[a].prev = call[a].prev
<1>1. call[a] \in StartCall
    BY Kinds DEF TypeOK
<1> QED
    BY <1>1 DEF TypeOK, Goto, StartCall, SameStart

LEMMA GotoFinding ==
    ASSUME TypeOK, NEW a \in Agents, call[a].pc \in FindingPcs,
           NEW p \in FindingPcs, Goto(a, p)
    PROVE  /\ call'[a].pc = p /\ call'[a].id = call[a].id
           /\ call'[a].entity = call[a].entity
<1>1. call[a] \in FindingCall
    BY Kinds DEF TypeOK
<1> QED
    BY <1>1 DEF TypeOK, Goto, FindingCall

LEMMA GotoQuestion ==
    ASSUME TypeOK, NEW a \in Agents, call[a].pc \in QuestionPcs,
           NEW p \in QuestionPcs, Goto(a, p)
    PROVE  call'[a].pc = p /\ call'[a].id = call[a].id
<1>1. call[a] \in QuestionCall
    BY Kinds DEF TypeOK
<1> QED
    BY <1>1 DEF TypeOK, Goto, QuestionCall

LEMMA GotoAnswer ==
    ASSUME TypeOK, NEW a \in Agents, call[a].pc \in AnswerPcs,
           NEW p \in AnswerPcs, Goto(a, p)
    PROVE  /\ call'[a].pc = p /\ call'[a].question = call[a].question
           /\ call'[a].copy = call[a].copy
<1>1. call[a] \in AnswerCall
    BY Kinds DEF TypeOK
<1> QED
    BY <1>1 DEF TypeOK, Goto, AnswerCall

LEMMA GotoSummary ==
    ASSUME TypeOK, NEW a \in Agents, call[a].pc \in SummaryPcs,
           NEW p \in SummaryPcs, Goto(a, p)
    PROVE  call'[a].pc = p /\ call'[a].run = call[a].run
<1>1. call[a] \in SummaryCall
    BY Kinds DEF TypeOK
<1> QED
    BY <1>1 DEF TypeOK, Goto, SummaryCall

LEMMA ReadRestEffect ==
    ASSUME TypeOK, NEW a \in Agents, call[a].pc \in StartPcs, NEW todo, NEW prev,
           ReadRest(a, call[a], todo, prev)
    PROVE  /\ SameStart(a) /\ call'[a].todo = todo /\ call'[a].prev = prev
           /\ call'[a].pc \in {"read_run", "follow", "part_of"}
           /\ call'[a].pc = "read_run" => todo # {}
           /\ call'[a].pc = "follow" => prev # 0
<1>1. call[a] \in StartCall
    BY Kinds DEF TypeOK
<1> QED
    BY <1>1 DEF TypeOK, ReadRest, Become, SameStart, StartCall

LEMMA CarryRestEffect ==
    ASSUME TypeOK, NEW a \in Agents, call[a].pc \in StartPcs, NEW todo,
           CarryRest(a, call[a], todo)
    PROVE  \/ /\ todo # {}
              /\ SameStart(a) /\ call'[a].todo = todo
              /\ call'[a].pc = "read_question"
              /\ run' = run
           \/ /\ todo = {}
              /\ call'[a] = Idle
              /\ run'[a] = [id |-> call[a].id, thread |-> call[a].thread,
                            due |-> call[a].due]
              /\ \A b \in Agents : b # a => run'[b] = run[b]
<1>1. call[a] \in StartCall
    BY Kinds DEF TypeOK
<1> QED
    BY <1>1 DEF TypeOK, CarryRest, Return, Become, SameStart, StartCall

LEMMA RecallRestEffect ==
    ASSUME TypeOK, NEW a \in Agents, call[a].pc \in RecallPcs, NEW todo, NEW open,
           RecallRest(a, call[a], todo, open)
    PROVE  /\ call'[a].pc = IF todo # {} THEN "recall_question" ELSE "answered"
           /\ call'[a].todo = todo /\ call'[a].open = open
           /\ call'[a].thread = call[a].thread /\ call'[a].was = call[a].was
           /\ call'[a].summaries = call[a].summaries
           /\ call'[a].findings = call[a].findings
<1>1. call[a] \in RecallCall
    BY Kinds DEF TypeOK
<1> QED
    BY <1>1 DEF TypeOK, RecallRest, Become, RecallCall

(* A step of one agent is not one of another.                               *)
Step(a) ==
    ThreadStep(a) \/ StartStep(a) \/ RunStep(a) \/ EndStep(a) \/ RecallStep(a)
    \/ Fail(a) \/ Kill(a)

Others(a) ==
    \A b \in Agents : b # a => call'[b] = call[b] /\ run'[b] = run[b]

LEMMA OthersWait ==
    ASSUME TypeOK, NEW a \in Agents, Step(a)
    PROVE  Others(a)
<1> USE DEF TypeOK, Others, handles, Become, Return, Goto
<1>1. CASE ThreadStep(a)
    BY <1>1 DEF ThreadStep, FindThread, MissThread, CreateThread
<1>2. CASE StartStep(a)
    BY <1>2 DEF StartStep, StartRun, WriteRun, ListRuns, ReadRun, Follow, PartOf,
       ListQuestions, ReadQuestion, Carry, ReadRest, CarryRest
<1>3. CASE RunStep(a)
    BY <1>3 DEF RunStep, record_finding, WriteFinding, Produced, IndexEntity,
       raise_question, WriteQuestion, IndexStatus, Raised, answer_question,
       Resolve, Unlist, Answers
<1>4. CASE EndStep(a)
    BY <1>4 DEF EndStep, complete, CountQuestions, WriteSummary, Summarizes,
       ReadStatus, interrupt, EndRun
<1>5. CASE RecallStep(a)
    BY <1>5 DEF RecallStep, recall, RecallFindings, RecallQuestions,
       RecallQuestion, RecallRest
<1>6. CASE Fail(a) \/ Kill(a)
    BY <1>6 DEF Fail, Kill
<1> QED
    BY <1>1, <1>2, <1>3, <1>4, <1>5, <1>6 DEF Step

-----------------------------------------------------------------------------
(* What a step does to the store.                                           *)

(* The five actions that write a new node.                                  *)
WritesNew(a) ==
    /\ Creating(a)
    /\ DOMAIN nodes' = DOMAIN nodes \cup {call[a].id}
    /\ \A i \in DOMAIN nodes : nodes'[i] = nodes[i]
    /\ issued' = issued

(* The node that call a writes, and its entry.                              *)
Writes(a, node) == WritesNew(a) /\ nodes'[call[a].id] = node /\ edges' = edges

Enters(a, node, name) ==
    /\ index'[name] = index[name] \cup {<<node.thread, call[a].id>>}
    /\ \A n \in Indices : n # name => index'[n] = index[n]

LEMMA CreateThreadEffect ==
    ASSUME TypeOK, Ids, NEW a \in Agents, CreateThread(a)
    PROVE  /\ Writes(a, call[a].node) /\ index' = index
           /\ call[a].node \in ThreadNode /\ call'[a] = Idle
<1>1. call[a].id \in 1..issued /\ Creating(a) /\ call[a].id \notin DOMAIN nodes
    BY DEF CreateThread, At, Ids, Fresh, Creating, CreatePcs
<1>2. call[a].node \in ThreadNode
    BY Kinds DEF CreateThread, At, TypeOK, ThreadCall
<1> QED
    BY <1>1, <1>2, WriteNode, Returns
    DEF CreateThread, TypeOK, Writes, WritesNew, Node

LEMMA NewIndexed ==
    ASSUME TypeOK, Ids, NEW a \in Agents, Creating(a), NEW node \in Node,
           NEW name \in Indices, node.thread \in Keys,
           write_node_indexed(call[a].id, node, name),
           UNCHANGED <<edges, issued>>
    PROVE  Writes(a, node) /\ Enters(a, node, name)
<1>1. call[a].id \in 1..issued /\ call[a].id \notin DOMAIN nodes /\ call[a].id \in Nat
    BY DEF Ids, Fresh, TypeOK, StoreTyped
<1>2. write_node(call[a].id, node) /\ add_to_index(name, node.thread, call[a].id)
    BY DEF write_node_indexed
<1>3. Enters(a, node, name)
    BY <1>1, <1>2, AddEntry DEF TypeOK, Enters
<1>4. Writes(a, node)
    BY <1>1, <1>2, WriteNode DEF TypeOK, Writes, WritesNew
<1> QED
    BY <1>3, <1>4

LEMMA WriteRunEffect ==
    ASSUME TypeOK, Ids, NEW a \in Agents, WriteRun(a)
    PROVE  /\ Writes(a, Run(call[a].thread))
           /\ Enters(a, Run(call[a].thread), "run:thread_id")
<1>1. call[a] \in StartCall /\ Creating(a)
    BY Kinds DEF WriteRun, At, TypeOK, StartPcs, Creating, CreatePcs
<1>2. Run(call[a].thread) \in Node /\ Run(call[a].thread).thread \in Keys
    BY <1>1 DEF StartCall, Run, RunNode, Node, Keys
<1> QED
    BY <1>1, <1>2, NewIndexed DEF WriteRun, Indices

LEMMA WriteFindingEffect ==
    ASSUME TypeOK, Ids, NEW a \in Agents, WriteFinding(a)
    PROVE  LET node == Finding(run[a].thread, call[a].entity) IN
           Writes(a, node) /\ Enters(a, node, "finding:thread_id")
<1>1. call[a] \in FindingCall /\ Creating(a) /\ run[a] \in RunHandle
    BY Kinds DEF WriteFinding, At, TypeOK, FindingPcs, Creating, CreatePcs,
                 Ids, Refers, RefersItem, NoRun
<1> DEFINE node == Finding(run[a].thread, call[a].entity)
<1>2. node \in Node /\ node.thread \in Keys
    BY <1>1 DEF FindingCall, RunHandle, Finding, FindingNode, Node, Keys
<1>3. write_node_indexed(call[a].id, node, "finding:thread_id")
    BY DEF WriteFinding
<1> HIDE DEF node
<1>4. Writes(a, node) /\ Enters(a, node, "finding:thread_id")
    BY <1>1, <1>2, <1>3, NewIndexed DEF WriteFinding, Indices
<1> QED
    BY <1>4 DEF node

LEMMA WriteQuestionEffect ==
    ASSUME TypeOK, Ids, NEW a \in Agents, WriteQuestion(a)
    PROVE  LET node == Question(run[a].thread) IN
           Writes(a, node) /\ Enters(a, node, "question:thread_id")
<1>1. call[a] \in QuestionCall /\ Creating(a) /\ run[a] \in RunHandle
    BY Kinds DEF WriteQuestion, At, TypeOK, QuestionPcs, Creating, CreatePcs,
                 Ids, Refers, RefersItem, NoRun
<1> DEFINE node == Question(run[a].thread)
<1>2. node \in Node /\ node.thread \in Keys
    BY <1>1 DEF RunHandle, Question, QuestionNode, Node, Keys
<1>3. write_node_indexed(call[a].id, node, "question:thread_id")
    BY DEF WriteQuestion
<1> HIDE DEF node
<1>4. Writes(a, node) /\ Enters(a, node, "question:thread_id")
    BY <1>1, <1>2, <1>3, NewIndexed DEF WriteQuestion, Indices
<1> QED
    BY <1>4 DEF node

LEMMA WriteSummaryEffect ==
    ASSUME TypeOK, Ids, NEW a \in Agents, WriteSummary(a)
    PROVE  /\ call[a].node \in SummaryNode
           /\ Writes(a, call[a].node)
           /\ Enters(a, call[a].node, "summary:thread_id")
<1>1. call[a] \in SummaryCall /\ Creating(a)
    BY Kinds DEF WriteSummary, At, TypeOK, SummaryPcs, Creating, CreatePcs
<1>2. /\ call[a].node \in SummaryNode /\ call[a].node \in Node
      /\ call[a].node.thread \in Keys
    BY <1>1 DEF SummaryCall, SummaryNode, Node, Keys
<1> QED
    BY <1>1, <1>2, NewIndexed DEF WriteSummary, Indices

(* The two actions that write a node back, from a copy.                     *)
Rewrites(i, node) ==
    /\ i \in DOMAIN nodes
    /\ DOMAIN nodes' = DOMAIN nodes
    /\ nodes'[i] = node
    /\ \A j \in DOMAIN nodes : j # i => nodes'[j] = nodes[j]
    /\ UNCHANGED <<edges, index, issued>>

LEMMA ResolveEffect ==
    ASSUME TypeOK, Ids, NEW a \in Agents, Resolve(a)
    PROVE  /\ Answering(a)
           /\ call[a].question \in Labelled("open_question")
           /\ \E node \in QuestionNode :
                 /\ Rewrites(call[a].question, node)
                 /\ node.thread = nodes[call[a].question].thread
                 /\ node.status = "resolved"
<1>1. Answering(a) /\ call[a] \in AnswerCall
    BY Kinds DEF Resolve, At, TypeOK, Answering, AnswerPcs
<1>2. /\ call[a].question \in Labelled("open_question")
      /\ call[a].copy.thread = nodes[call[a].question].thread
      /\ call[a].question \in 1..issued
    BY <1>1 DEF Ids, Refers, RefersItem, Labelled, TypeOK, StoreTyped
<1> DEFINE node == [call[a].copy EXCEPT !.status = "resolved"]
<1>3. node \in QuestionNode /\ node.thread = call[a].copy.thread
      /\ node.status = "resolved" /\ node \in Node
    BY <1>1 DEF AnswerCall, QuestionNode, Node
<1>4. write_node(call[a].question, node)
    BY DEF Resolve
<1> HIDE DEF node
<1>5. Rewrites(call[a].question, node)
    BY <1>2, <1>3, <1>4, WriteNode DEF Resolve, TypeOK, Rewrites, Labelled
<1> QED
    BY <1>1, <1>2, <1>3, <1>5

LEMMA EndRunEffect ==
    ASSUME TypeOK, Ids, NEW a \in Agents, EndRun(a)
    PROVE  /\ Ending(a)
           /\ call[a].run \in Labelled("agent_run")
           /\ call[a].copy \in EndedRun
           /\ Rewrites(call[a].run, call[a].copy)
<1>1. Ending(a) /\ call[a] \in EndCall
    BY Kinds DEF EndRun, At, TypeOK, Ending, EndPcs
<1>2. call[a].run \in Labelled("agent_run") /\ call[a].run \in 1..issued
    BY <1>1 DEF Ids, Refers, RefersRun, Labelled, TypeOK, StoreTyped
<1>3. call[a].copy \in EndedRun /\ call[a].copy \in Node
    BY <1>1 DEF EndCall, EndedRun, RunNode, Node
<1> QED
    BY <1>1, <1>2, <1>3, WriteNode DEF EndRun, TypeOK, Rewrites, Labelled

(* Every other action leaves the nodes as they are.                         *)
LEMMA NodesSame ==
    ASSUME NEW a \in Agents, Step(a)
    PROVE  \/ CreateThread(a) \/ WriteRun(a) \/ WriteFinding(a)
           \/ WriteQuestion(a) \/ WriteSummary(a) \/ Resolve(a) \/ EndRun(a)
           \/ nodes' = nodes
<1> USE DEF store
<1>1. CASE ThreadStep(a)
    BY <1>1 DEF ThreadStep, FindThread, MissThread
<1>2. CASE StartStep(a)
    BY <1>2 DEF StartStep, StartRun, ListRuns, ReadRun, Follow, PartOf,
       ListQuestions, ReadQuestion, Carry
<1>3. CASE RunStep(a)
    BY <1>3 DEF RunStep, record_finding, Produced, IndexEntity,
       raise_question, IndexStatus, Raised, answer_question, Unlist, Answers
<1>4. CASE EndStep(a)
    BY <1>4 DEF EndStep, complete, CountQuestions, Summarizes, ReadStatus, interrupt
<1>5. CASE RecallStep(a)
    BY <1>5 DEF RecallStep, recall, RecallFindings, RecallQuestions, RecallQuestion
<1>6. CASE Fail(a) \/ Kill(a)
    BY <1>6 DEF Fail, Kill
<1> QED
    BY <1>1, <1>2, <1>3, <1>4, <1>5, <1>6 DEF Step

LEMMA IndexSame ==
    ASSUME NEW a \in Agents, Step(a)
    PROVE  \/ WriteRun(a) \/ WriteFinding(a) \/ WriteQuestion(a)
           \/ WriteSummary(a) \/ IndexEntity(a) \/ IndexStatus(a) \/ Unlist(a)
           \/ index' = index
<1> USE DEF store
<1>1. CASE ThreadStep(a)
    BY <1>1 DEF ThreadStep, FindThread, MissThread, CreateThread
<1>2. CASE StartStep(a)
    BY <1>2 DEF StartStep, StartRun, ListRuns, ReadRun, Follow, PartOf,
       ListQuestions, ReadQuestion, Carry
<1>3. CASE RunStep(a)
    BY <1>3 DEF RunStep, record_finding, Produced, raise_question, Raised,
       answer_question, Resolve, Answers
<1>4. CASE EndStep(a)
    BY <1>4 DEF EndStep, complete, CountQuestions, Summarizes, ReadStatus,
       interrupt, EndRun
<1>5. CASE RecallStep(a)
    BY <1>5 DEF RecallStep, recall, RecallFindings, RecallQuestions, RecallQuestion
<1>6. CASE Fail(a) \/ Kill(a)
    BY <1>6 DEF Fail, Kill
<1> QED
    BY <1>1, <1>2, <1>3, <1>4, <1>5, <1>6 DEF Step

(* The entries by entity and by status.                                     *)
LEMMA IndexEntityEffect ==
    ASSUME TypeOK, Ids, NEW a \in Agents, IndexEntity(a)
    PROVE  /\ index'["finding:entity_id"] =
                  index["finding:entity_id"] \cup {<<call[a].entity, call[a].id>>}
           /\ \A n \in Indices : n # "finding:entity_id" => index'[n] = index[n]
           /\ nodes' = nodes /\ edges' = edges /\ issued' = issued
<1>1. call[a] \in FindingCall /\ call[a].entity # None
    BY Kinds DEF IndexEntity, At, TypeOK, FindingPcs, Ids, Refers, RefersItem
<1>2. call[a].entity \in Keys /\ call[a].id \in Nat
    BY <1>1 DEF FindingCall, Keys
<1> QED
    BY <1>2, AddEntry DEF IndexEntity, TypeOK, Indices

LEMMA IndexStatusEffect ==
    ASSUME TypeOK, Ids, NEW a \in Agents, IndexStatus(a)
    PROVE  /\ index'["question:status"] =
                  index["question:status"] \cup {<<"open", call[a].id>>}
           /\ \A n \in Indices : n # "question:status" => index'[n] = index[n]
           /\ nodes' = nodes /\ edges' = edges /\ issued' = issued
<1>1. call[a].id \in Nat
    BY Kinds DEF IndexStatus, At, TypeOK, QuestionPcs, QuestionCall
<1> QED
    BY <1>1, AddEntry DEF IndexStatus, TypeOK, Indices, Keys

LEMMA UnlistEffect ==
    ASSUME TypeOK, Ids, NEW a \in Agents, Unlist(a)
    PROVE  /\ index'["question:status"] =
                  index["question:status"] \ {<<"open", call[a].question>>}
           /\ \A n \in Indices : n # "question:status" => index'[n] = index[n]
           /\ call[a].question \in Labelled("open_question")
           /\ ~ IsOpen(call[a].question)
           /\ nodes' = nodes /\ edges' = edges /\ issued' = issued
BY RemoveEntry DEF Unlist, At, TypeOK, Indices, Ids, Refers, RefersItem,
   Answering, AnswerPcs

(* Every edge but those of these actions was there before.                  *)
LEMMA EdgesSame ==
    ASSUME NEW a \in Agents, Step(a)
    PROVE  \/ Follow(a) \/ PartOf(a) \/ Carry(a) \/ Produced(a) \/ Raised(a)
           \/ Answers(a) \/ Summarizes(a)
           \/ edges' = edges
<1> USE DEF store
<1>1. CASE ThreadStep(a)
    BY <1>1 DEF ThreadStep, FindThread, MissThread, CreateThread
<1>2. CASE StartStep(a)
    BY <1>2 DEF StartStep, StartRun, WriteRun, ListRuns, ReadRun, ListQuestions,
       ReadQuestion
<1>3. CASE RunStep(a)
    BY <1>3 DEF RunStep, record_finding, WriteFinding, IndexEntity,
       raise_question, WriteQuestion, IndexStatus, answer_question, Resolve, Unlist
<1>4. CASE EndStep(a)
    BY <1>4 DEF EndStep, complete, CountQuestions, WriteSummary, ReadStatus,
       interrupt, EndRun
<1>5. CASE RecallStep(a)
    BY <1>5 DEF RecallStep, recall, RecallFindings, RecallQuestions, RecallQuestion
<1>6. CASE Fail(a) \/ Kill(a)
    BY <1>6 DEF Fail, Kill
<1> QED
    BY <1>1, <1>2, <1>3, <1>4, <1>5, <1>6 DEF Step

LEMMA NewNodeKeeps ==
    ASSUME NEW a \in Agents, WritesNew(a), NEW i \in DOMAIN nodes,
           index["question:status"] \subseteq index'["question:status"]
    PROVE  NodeKept(i)
BY DEF WritesNew, NodeKept, IsListed

LEMMA SameNodeKeeps ==
    ASSUME nodes' = nodes, NEW i \in DOMAIN nodes,
           index["question:status"] \subseteq index'["question:status"]
    PROVE  NodeKept(i)
BY DEF NodeKept, IsListed

LEMMA NodesKept ==
    ASSUME TypeOK, Ids, NEW a \in Agents, Step(a)
    PROVE  \A i \in DOMAIN nodes : NodeKept(i)
<1> SUFFICES ASSUME NEW i \in DOMAIN nodes PROVE NodeKept(i)
    OBVIOUS
<1>a. ASSUME NEW node, NEW name \in Indices, Writes(a, node), Enters(a, node, name)
      PROVE  NodeKept(i)
    BY <1>a, NewNodeKeeps DEF Writes, Enters, Indices
<1>1. CASE CreateThread(a)
    BY <1>1, CreateThreadEffect, NewNodeKeeps DEF Writes
<1>2. CASE WriteRun(a)
    BY <1>2, WriteRunEffect, <1>a DEF Indices
<1>3. CASE WriteFinding(a)
    BY <1>3, WriteFindingEffect, <1>a DEF Indices
<1>4. CASE WriteQuestion(a)
    BY <1>4, WriteQuestionEffect, <1>a DEF Indices
<1>5. CASE WriteSummary(a)
    BY <1>5, WriteSummaryEffect, <1>a DEF Indices
<1>6. CASE Resolve(a)
    <2>1. PICK node \in QuestionNode :
              /\ Rewrites(call[a].question, node)
              /\ node.thread = nodes[call[a].question].thread
              /\ node.status = "resolved"
        BY <1>6, ResolveEffect
    <2>2. call[a].question \in Labelled("open_question")
        BY <1>6, ResolveEffect
    <2> QED
        BY <2>1, <2>2 DEF Rewrites, NodeKept, Labelled, QuestionNode, IsListed
<1>7. CASE EndRun(a)
    BY <1>7, EndRunEffect DEF Rewrites, NodeKept, Labelled, EndedRun, IsListed
<1>8. CASE nodes' = nodes
    <2>1. CASE Unlist(a)
        BY <2>1, UnlistEffect DEF NodeKept, IsListed, IsOpen
    <2>2. CASE ~ Unlist(a)
        <3>1. index["question:status"] \subseteq index'["question:status"]
            BY <2>2, IndexSame, WriteRunEffect, WriteFindingEffect,
               WriteQuestionEffect, WriteSummaryEffect, IndexEntityEffect,
               IndexStatusEffect DEF Enters, Indices
        <3> QED
            BY <1>8, <3>1, SameNodeKeeps
    <2> QED
        BY <2>1, <2>2
<1> QED
    BY <1>1, <1>2, <1>3, <1>4, <1>5, <1>6, <1>7, <1>8, NodesSame

(* Every step keeps what was stored.                                        *)
LEMMA StepKeeps ==
    ASSUME TypeOK, Ids, NEW a \in Agents, Step(a)
    PROVE  Kept
<1>1. edges \subseteq edges'
    BY EdgesSame DEF Follow, PartOf, Carry, Produced, Raised, Answers,
       Summarizes, write_edge
<1>2. ASSUME NEW name \in Indices \ {"question:status"}
      PROVE  index[name] \subseteq index'[name]
    BY <1>2, IndexSame, WriteRunEffect, WriteFindingEffect, WriteQuestionEffect,
       WriteSummaryEffect, IndexEntityEffect, IndexStatusEffect, UnlistEffect
       DEF Enters, Indices
<1>3. issued <= issued'
    <2>1. issued' = issued \/ issued' = issued + 1
        <3> USE DEF v6_uuid
        <3>1. CASE ThreadStep(a)
            BY <3>1 DEF ThreadStep, FindThread, MissThread, CreateThread
        <3>2. CASE StartStep(a)
            BY <3>2 DEF StartStep, StartRun, WriteRun, ListRuns, ReadRun, Follow,
               PartOf, ListQuestions, ReadQuestion, Carry
        <3>3. CASE RunStep(a)
            BY <3>3 DEF RunStep, record_finding, WriteFinding, Produced,
               IndexEntity, raise_question, WriteQuestion, IndexStatus, Raised,
               answer_question, Resolve, Unlist, Answers
        <3>4. CASE EndStep(a)
            BY <3>4 DEF EndStep, complete, CountQuestions, WriteSummary,
               Summarizes, ReadStatus, interrupt, EndRun
        <3>5. CASE RecallStep(a)
            BY <3>5 DEF RecallStep, recall, RecallFindings, RecallQuestions,
               RecallQuestion
        <3>6. CASE Fail(a) \/ Kill(a)
            BY <3>6 DEF Fail, Kill
        <3> QED
            BY <3>1, <3>2, <3>3, <3>4, <3>5, <3>6 DEF Step
    <2> QED
        BY <2>1 DEF TypeOK, StoreTyped
<1> QED
    BY <1>1, <1>2, <1>3, NodesKept DEF Kept

(* A node is new only if the agent's call was about to write it.            *)
LEMMA NodesGrow ==
    ASSUME TypeOK, Ids, NEW a \in Agents, Step(a)
    PROVE  DOMAIN nodes' = DOMAIN nodes \/ WritesNew(a)
BY NodesSame, CreateThreadEffect, WriteRunEffect, WriteFindingEffect,
   WriteQuestionEffect, WriteSummaryEffect, ResolveEffect, EndRunEffect
   DEF Writes, Rewrites

-----------------------------------------------------------------------------
(* Identifiers.                                                             *)

Issues(a) == issued' = issued + 1 /\ call'[a].id = issued' /\ nodes' = nodes

LEMMA Creates ==
    ASSUME TypeOK, NEW a \in Agents, Step(a), Creating(a)'
    PROVE  Issues(a)
<1> USE DEF Creating, CreatePcs, At
<1>a. ASSUME Return(a) PROVE FALSE
    BY <1>a, Returns DEF TypeOK, Idle
<1>b. ASSUME NEW c, Become(a, c) PROVE call'[a] = c
    BY <1>b DEF Become, TypeOK
<1>1. CASE ThreadStep(a)
    <2>1. CASE MissThread(a)
        BY <2>1, <1>b DEF MissThread, v6_uuid, Issues, store
    <2> QED
        BY <1>1, <2>1, <1>a DEF ThreadStep, FindThread, CreateThread
<1>2. CASE StartStep(a)
    <2>1. CASE StartRun(a)
        <3>1. call'[a].id = issued'
            BY <2>1 DEF StartRun, Become, TypeOK
        <3> QED
            BY <2>1, <3>1 DEF StartRun, v6_uuid, Issues, store
    <2>2. CASE WriteRun(a) \/ Follow(a) \/ PartOf(a)
        BY <2>2, GotoStart DEF WriteRun, Follow, PartOf, StartPcs
    <2>3. CASE ListRuns(a) \/ ReadRun(a)
        <3>1. PICK todo, prev : ReadRest(a, call[a], todo, prev)
            BY <2>3 DEF ListRuns, ReadRun
        <3> QED
            BY <2>3, <3>1, ReadRestEffect DEF ListRuns, ReadRun, StartPcs
    <2>4. CASE ListQuestions(a) \/ ReadQuestion(a) \/ Carry(a)
        <3>1. \/ Goto(a, "carry")
              \/ \E todo : CarryRest(a, call[a], todo)
            BY <2>4 DEF ListQuestions, ReadQuestion, Carry
        <3>2. call[a].pc \in StartPcs
            BY <2>4 DEF ListQuestions, ReadQuestion, Carry, StartPcs
        <3>3. CASE Goto(a, "carry")
            BY <3>2, <3>3, GotoStart DEF StartPcs
        <3>4. ASSUME NEW todo, CarryRest(a, call[a], todo)
              PROVE  call'[a].pc \in {"read_question", "idle"}
            <4>1. call'[a].pc = "read_question" \/ call'[a] = Idle
                BY <3>2, <3>4, CarryRestEffect
            <4> QED
                BY <4>1 DEF Idle
        <3> QED
            BY <3>1, <3>3, <3>4
    <2> QED
        BY <1>2, <2>1, <2>2, <2>3, <2>4 DEF StartStep
<1>3. CASE RunStep(a)
    <2>1. CASE record_finding(a)
        BY <2>1, <1>b DEF record_finding, v6_uuid, Issues, store
    <2>2. CASE raise_question(a)
        BY <2>2, <1>b DEF raise_question, v6_uuid, Issues, store
    <2>3. CASE WriteFinding(a) \/ Produced(a)
        BY <2>3, <1>a, GotoFinding DEF WriteFinding, Produced, FindingPcs
    <2>4. CASE WriteQuestion(a) \/ IndexStatus(a)
        BY <2>4, GotoQuestion DEF WriteQuestion, IndexStatus, QuestionPcs
    <2>5. CASE Resolve(a) \/ Unlist(a)
        BY <2>5, GotoAnswer DEF Resolve, Unlist, AnswerPcs
    <2>6. CASE answer_question(a)
        BY <2>6, <1>b DEF answer_question
    <2> QED
        BY <1>3, <1>a, <2>1, <2>2, <2>3, <2>4, <2>5, <2>6
        DEF RunStep, IndexEntity, Raised, Answers
<1>4. CASE EndStep(a)
    <2>1. CASE CountQuestions(a)
        BY <2>1, <1>b DEF CountQuestions, v6_uuid, Issues, store
    <2>2. CASE WriteSummary(a)
        BY <2>2, GotoSummary DEF WriteSummary, SummaryPcs
    <2>3. CASE complete(a) \/ Summarizes(a) \/ ReadStatus(a) \/ interrupt(a)
        BY <2>3, <1>b DEF complete, Summarizes, ReadStatus, interrupt
    <2> QED
        BY <1>4, <1>a, <2>1, <2>2, <2>3 DEF EndStep, EndRun
<1>5. CASE RecallStep(a)
    <2>1. CASE recall(a)
        BY <2>1, <1>b DEF recall
    <2>2. CASE RecallFindings(a)
        <3>1. call[a] \in RecallCall
            BY <2>2, Kinds DEF RecallFindings, TypeOK, RecallPcs
        <3>2. call'[a].pc = "recall_questions"
            BY <2>2, <3>1, <1>b DEF RecallFindings, RecallCall
        <3> QED
            BY <3>2
    <2>3. CASE RecallQuestions(a) \/ RecallQuestion(a)
        BY <2>3, RecallRestEffect DEF RecallQuestions, RecallQuestion, RecallPcs
    <2> QED
        BY <1>5, <2>1, <2>2, <2>3 DEF RecallStep
<1>6. CASE Fail(a) \/ Kill(a)
    BY <1>6, <1>a DEF Fail, Kill
<1> QED
    BY <1>1, <1>2, <1>3, <1>4, <1>5, <1>6 DEF Step

LEMMA WritesThenGoes ==
    ASSUME TypeOK, Ids, NEW a \in Agents, Step(a), WritesNew(a)
    PROVE  ~ Creating(a)'
<1>1. call[a].id \notin DOMAIN nodes
    BY DEF WritesNew, Ids, Fresh
<1> QED
    BY <1>1, Creates DEF WritesNew, Issues

LEMMA NextFresh ==
    ASSUME TypeOK, Ids, NEW a \in Agents, Step(a)
    PROVE  Fresh'
<1>a. issued \in Nat /\ issued <= issued' /\ issued' \in Nat
    BY StepKeeps, NextTyped DEF Kept, TypeOK, StoreTyped, Next, Step
<1>1. ASSUME NEW b \in Agents, Creating(b)'
      PROVE  call'[b].id \in 1..issued' /\ call'[b].id \notin DOMAIN nodes'
    <2>1. CASE b = a
        BY <1>1, <1>a, <2>1, Creates DEF Issues, TypeOK, StoreTyped
    <2>2. CASE b # a
        <3>1. call'[b] = call[b] /\ Creating(b)
            BY <1>1, <2>2, OthersWait DEF Others, Creating
        <3>2. call[b].id \in 1..issued /\ call[b].id \notin DOMAIN nodes
            BY <3>1 DEF Ids, Fresh
        <3>3. call[b].id \notin DOMAIN nodes'
            BY <2>2, <3>1, <3>2, NodesGrow DEF WritesNew, Ids, Fresh
        <3> QED
            BY <1>a, <3>1, <3>2, <3>3
    <2> QED
        BY <2>1, <2>2
<1>2. ASSUME NEW b \in Agents, NEW d \in Agents, Creating(b)', Creating(d)',
             call'[b].id = call'[d].id, b # d
      PROVE  FALSE
    <2>1. ASSUME NEW e \in Agents, e # a, Creating(e)'
          PROVE  call'[e] = call[e] /\ Creating(e) /\ call[e].id \in 1..issued
        BY <2>1, OthersWait DEF Others, Creating, Ids, Fresh
    <2>2. Creating(a)' => call'[a].id = issued + 1
        BY Creates DEF Issues
    <2>3. CASE b = a
        BY <1>a, <1>2, <2>1, <2>2, <2>3
    <2>4. CASE d = a
        BY <1>a, <1>2, <2>1, <2>2, <2>4
    <2>5. CASE b # a /\ d # a
        BY <1>2, <2>1, <2>5 DEF Ids, Fresh
    <2> QED
        BY <2>3, <2>4, <2>5
<1> QED
    BY <1>1, <1>2 DEF Fresh

(* The steps of start_run: the call begins, goes on with the same run, or   *)
(* returns its handle.                                                      *)
GoesOn(a) ==
    /\ call[a].pc \in StartPcs /\ call'[a].pc \in StartPcs \ {"write_run"}
    /\ SameStart(a) /\ run' = run
    /\ call'[a].pc \in {"read_run", "read_question", "carry"} => call'[a].todo # {}

HandsOver(a) ==
    /\ call[a].pc \in {"list_questions", "read_question", "carry"}
    /\ call'[a] = Idle
    /\ run'[a] = [id |-> call[a].id, thread |-> call[a].thread, due |-> call[a].due]

LEMMA StartMoves ==
    ASSUME TypeOK, Ids, NEW a \in Agents, StartStep(a)
    PROVE  /\ StartRun(a) \/ GoesOn(a) \/ HandsOver(a)
           /\ GoesOn(a) => WriteRun(a) \/ Started(a)
<1>a. ASSUME NEW todo, call[a].pc \in {"list_questions", "read_question", "carry"},
             CarryRest(a, call[a], todo)
      PROVE  GoesOn(a) \/ HandsOver(a)
    <2>1. call[a].pc \in StartPcs
        BY <1>a DEF StartPcs
    <2>2. \/ /\ todo # {} /\ SameStart(a) /\ call'[a].todo = todo
             /\ call'[a].pc = "read_question" /\ run' = run
          \/ /\ call'[a] = Idle
             /\ run'[a] = [id |-> call[a].id, thread |-> call[a].thread,
                           due |-> call[a].due]
        BY <1>a, <2>1, CarryRestEffect
    <2> QED
        BY <1>a, <2>1, <2>2 DEF GoesOn, HandsOver, StartPcs
<1>b. ASSUME NEW todo, NEW prev, call[a].pc \in StartPcs,
             ReadRest(a, call[a], todo, prev), run' = run
      PROVE  GoesOn(a)
    BY <1>b, ReadRestEffect DEF GoesOn, StartPcs
<1>c. ASSUME NEW p \in StartPcs \ {"write_run"}, call[a].pc \in StartPcs,
             Goto(a, p), run' = run,
             p \in {"read_run", "read_question", "carry"} => call[a].todo # {}
      PROVE  GoesOn(a)
    BY <1>c, GotoStart DEF GoesOn
<1>1. CASE WriteRun(a) \/ Follow(a) \/ PartOf(a)
    BY <1>1, <1>c DEF WriteRun, Follow, PartOf, At, handles, Started, StartPcs
<1>2. CASE ListRuns(a) \/ ReadRun(a)
    <2>1. PICK todo, prev : ReadRest(a, call[a], todo, prev)
        BY <1>2 DEF ListRuns, ReadRun
    <2> QED
        BY <1>2, <1>b, <2>1 DEF ListRuns, ReadRun, At, handles, Started, StartPcs
<1>3. CASE ListQuestions(a)
    <2>1. CarryRest(a, call[a], QuestionsOf(call[a].thread))
        BY <1>3 DEF ListQuestions
    <2> QED
        BY <1>3, <1>a, <2>1 DEF ListQuestions, At, Started, StartPcs
<1>4. CASE ReadQuestion(a)
    <2> DEFINE q == Min(call[a].todo)
    <2>1. CASE IsOpen(q)
        <3>1. Goto(a, "carry") /\ run' = run
            BY <1>4, <2>1 DEF ReadQuestion
        <3>2. call[a].todo # {} /\ call[a].pc \in StartPcs /\ Started(a)
            BY <1>4 DEF ReadQuestion, At, Ids, Refers, RefersRun, Started, StartPcs
        <3> QED
            BY <1>c, <3>1, <3>2 DEF StartPcs
    <2>2. CASE ~ IsOpen(q)
        <3>1. CarryRest(a, call[a], call[a].todo \ {q})
            BY <1>4, <2>2 DEF ReadQuestion
        <3> QED
            BY <1>4, <1>a, <3>1 DEF ReadQuestion, At, Started, StartPcs
    <2> QED
        BY <2>1, <2>2
<1>5. CASE Carry(a)
    <2>1. PICK todo : CarryRest(a, call[a], todo)
        BY <1>5 DEF Carry
    <2> QED
        BY <1>5, <1>a, <2>1 DEF Carry, At, Started, StartPcs
<1>6. StartRun(a) => ~ GoesOn(a)
    BY DEF StartRun, Free, GoesOn, StartPcs
<1> QED
    BY <1>1, <1>2, <1>3, <1>4, <1>5, <1>6 DEF StartStep

LEMMA StartRunEffect ==
    ASSUME TypeOK, NEW a \in Agents, StartRun(a)
    PROVE  /\ call'[a] = [pc |-> "write_run", id |-> issued', thread |-> thread[a],
                          due |-> {q \in Labelled("open_question") :
                                     nodes[q].thread = thread[a] /\ IsOpen(q)},
                          todo |-> {}, prev |-> 0]
           /\ run' = run /\ nodes' = nodes /\ edges' = edges /\ index' = index
           /\ issued' = issued + 1
BY DEF StartRun, Become, TypeOK, handles, store, v6_uuid

LEMMA LabelKept ==
    ASSUME Kept, NEW label, NEW i \in Labelled(label)
    PROVE  i \in Labelled(label)'
BY DEF Kept, NodeKept, Labelled

(* What agents other than a refer to is still what it was.                  *)
LEMMA RefersKept ==
    ASSUME TypeOK, Ids, Kept, NEW b \in Agents, call'[b] = call[b], run'[b] = run[b]
    PROVE  RefersRun(b)' /\ RefersItem(b)'
<1>1. RefersRun(b) /\ RefersItem(b)
    BY DEF Ids, Refers
<1>2. RefersRun(b)'
    BY <1>1, LabelKept DEF RefersRun, Started, Ending
<1>3. RefersItem(b)'
    <2>1. ASSUME call[b].pc \in FindingPcs \ {"write_finding"}
          PROVE  call[b].id \in Labelled("finding")' /\ nodes'[call[b].id].entity = call[b].entity
        BY <1>1, <2>1, LabelKept DEF RefersItem, Kept, NodeKept, Labelled
    <2>2. ASSUME call[b].pc \in QuestionPcs \ {"write_question"}
          PROVE  call[b].id \in Labelled("open_question")'
        BY <1>1, <2>2, LabelKept DEF RefersItem
    <2>3. ASSUME At(b, "raised"), nodes'[call[b].id].status = "open"
          PROVE  IsListed(call[b].id)'
        <3>1. call[b].id \in Labelled("open_question") /\ NodeKept(call[b].id)
            BY <1>1, <2>3 DEF RefersItem, At, QuestionPcs, Kept, Labelled
        <3>2. nodes[call[b].id].status = "open"
            BY <2>3, <3>1 DEF NodeKept, Labelled
        <3>3. IsListed(call[b].id)
            BY <1>1, <2>3, <3>2 DEF RefersItem, IsOpen
        <3> QED
            BY <2>3, <3>1, <3>3 DEF NodeKept, Labelled
    <2>4. ASSUME Answering(b)
          PROVE  /\ call[b].question \in Labelled("open_question")'
                 /\ call[b].copy.thread = nodes'[call[b].question].thread
                 /\ ~ At(b, "resolve") => nodes'[call[b].question].status # "open"
        <3>1. call[b].question \in Labelled("open_question") /\ NodeKept(call[b].question)
            BY <1>1, <2>4 DEF RefersItem, Kept, Labelled
        <3> QED
            BY <1>1, <2>4, <3>1, LabelKept DEF RefersItem, NodeKept, Labelled, IsOpen
    <2> QED
        BY <1>1, <2>1, <2>2, <2>3, <2>4 DEF RefersItem, At, Answering, IsOpen
<1> QED
    BY <1>2, <1>3

(* A call that is over, or that has only just begun, refers to nothing.     *)
Blank == {"idle", "create_thread", "write_run", "write_finding", "write_question",
          "recall_findings", "recall_questions", "answered"}

LEMMA BlankRefers ==
    ASSUME TypeOK, Ids, Kept, NEW a \in Agents,
           run'[a] \in {run[a], NoRun},
           call'[a].pc \in Blank,
           call'[a].pc \in {"write_finding", "write_question"} => run'[a].id # 0
    PROVE  RefersRun(a)' /\ RefersItem(a)'
<1>1. RefersRun(a)
    BY DEF Ids, Refers
<1>2. run'[a].id # 0 => run'[a].id \in Labelled("agent_run")'
    BY <1>1, LabelKept DEF RefersRun, NoRun
<1> QED
    BY <1>2 DEF RefersRun, RefersItem, Started, Ending, Answering, At, StartPcs,
            FindingPcs, QuestionPcs, AnswerPcs, EndPcs, SummaryPcs, Blank

LEMMA StartRefers ==
    ASSUME TypeOK, Ids, NEW a \in Agents, StartStep(a)
    PROVE  RefersRun(a)' /\ RefersItem(a)'
<1>0. Kept
    BY StepKeeps DEF Step
<1>1. RefersRun(a)
    BY DEF Ids, Refers
<1>2. CASE StartRun(a)
    <2>1. call'[a].pc = "write_run" /\ run'[a] = run[a]
        BY <1>2 DEF StartRun, Become, TypeOK, handles
    <2> QED
        BY <1>0, <2>1, BlankRefers DEF Blank
<1>3. CASE GoesOn(a)
    <2>1. call[a].id \in Labelled("agent_run")'
        <3>1. CASE WriteRun(a)
            <4>1. Writes(a, Run(call[a].thread))
                BY <3>1, WriteRunEffect
            <4> QED
                BY <4>1 DEF Writes, WritesNew, Run, Labelled
        <3>2. CASE Started(a)
            BY <1>0, <1>1, <3>2, LabelKept DEF RefersRun
        <3> QED
            BY <1>3, <3>1, <3>2, StartMoves
    <2>2. run[a].id # 0 => run[a].id \in Labelled("agent_run")'
        BY <1>0, <1>1, LabelKept DEF RefersRun
    <2> QED
        BY <1>3, <2>1, <2>2
        DEF GoesOn, SameStart, RefersRun, RefersItem, Started, Ending, Answering,
            At, StartPcs, FindingPcs, QuestionPcs, AnswerPcs, EndPcs, SummaryPcs
<1>4. CASE HandsOver(a)
    <2>1. call[a].id \in Labelled("agent_run")'
        BY <1>0, <1>1, <1>4, LabelKept DEF HandsOver, RefersRun, Started, StartPcs
    <2>2. run'[a].id = call[a].id /\ call'[a].pc = "idle"
        BY <1>4 DEF HandsOver, Idle
    <2> QED
        BY <2>1, <2>2
        DEF RefersRun, RefersItem, Started, Ending, Answering, At, StartPcs,
            FindingPcs, QuestionPcs, AnswerPcs, EndPcs, SummaryPcs
<1> QED
    BY <1>2, <1>3, <1>4, StartMoves

LEMMA RunRefers ==
    ASSUME TypeOK, Ids, NEW a \in Agents, RunStep(a)
    PROVE  RefersRun(a)' /\ RefersItem(a)'
<1>0. Kept
    BY StepKeeps DEF Step
<1>1. RefersRun(a) /\ RefersItem(a)
    BY DEF Ids, Refers
<1>2. run' = run
    BY DEF RunStep, record_finding, WriteFinding, Produced, IndexEntity,
           raise_question, WriteQuestion, IndexStatus, Raised, answer_question,
           Resolve, Unlist, Answers, handles
<1>3. run'[a].id # 0 => run'[a].id \in Labelled("agent_run")'
    BY <1>0, <1>1, <1>2, LabelKept DEF RefersRun
<1> USE DEF At
<1>a. ASSUME Return(a) PROVE RefersRun(a)' /\ RefersItem(a)'
    BY <1>0, <1>2, <1>a, Returns, BlankRefers DEF Idle, Blank, TypeOK
<1>b. ASSUME call'[a].pc \in FindingPcs \ {"write_finding"},
             run'[a].id # 0,
             call'[a].id \in Labelled("finding")',
             nodes'[call'[a].id].entity = call'[a].entity,
             call'[a].pc = "index_entity" => call'[a].entity # None
      PROVE  RefersRun(a)' /\ RefersItem(a)'
    BY <1>3, <1>b DEF RefersRun, RefersItem, Started, Ending, Answering, StartPcs,
       FindingPcs, QuestionPcs, AnswerPcs, EndPcs, SummaryPcs
<1>c. ASSUME call'[a].pc \in QuestionPcs \ {"write_question"},
             run'[a].id # 0,
             call'[a].id \in Labelled("open_question")',
             call'[a].pc = "raised" => <<"open", call'[a].id>> \in index'["question:status"]
      PROVE  RefersRun(a)' /\ RefersItem(a)'
    BY <1>3, <1>c DEF RefersRun, RefersItem, Started, Ending, Answering, StartPcs,
       FindingPcs, QuestionPcs, AnswerPcs, EndPcs, SummaryPcs, IsListed
<1>d. ASSUME call'[a].pc \in AnswerPcs,
             call'[a].question \in Labelled("open_question")',
             call'[a].copy.thread = nodes'[call'[a].question].thread,
             call'[a].pc # "resolve" => nodes'[call'[a].question].status # "open"
      PROVE  RefersRun(a)' /\ RefersItem(a)'
    BY <1>3, <1>d DEF RefersRun, RefersItem, Started, Ending, Answering, StartPcs,
       FindingPcs, QuestionPcs, AnswerPcs, EndPcs, SummaryPcs, IsOpen
<1>4. CASE record_finding(a)
    <2>1. call'[a].pc = "write_finding"
        BY <1>4 DEF record_finding, Become, TypeOK
    <2> QED
        BY <1>0, <1>2, <1>4, <2>1, BlankRefers DEF record_finding, HasRun, Blank
<1>5. CASE raise_question(a)
    <2>1. call'[a].pc = "write_question"
        BY <1>5 DEF raise_question, Become, TypeOK
    <2> QED
        BY <1>0, <1>2, <1>5, <2>1, BlankRefers DEF raise_question, HasRun, Blank
<1>6. CASE WriteFinding(a)
    <2>1. /\ call'[a].pc = "produced" /\ call'[a].id = call[a].id
          /\ call'[a].entity = call[a].entity
        BY <1>6, GotoFinding DEF WriteFinding, FindingPcs
    <2>2. Writes(a, Finding(run[a].thread, call[a].entity))
        BY <1>6, WriteFindingEffect
    <2>3. /\ call[a].id \in Labelled("finding")'
          /\ nodes'[call[a].id].entity = call[a].entity
        BY <2>2 DEF Writes, WritesNew, Finding, Labelled
    <2>4. run[a].id # 0
        BY <1>1, <1>6 DEF RefersItem, WriteFinding, FindingPcs
    <2> QED
        BY <1>b, <1>2, <2>1, <2>3, <2>4 DEF FindingPcs
<1>7. CASE Produced(a)
    <2>1. CASE call[a].entity # None
        <3>1. /\ call'[a].pc = "index_entity" /\ call'[a].id = call[a].id
              /\ call'[a].entity = call[a].entity
            BY <1>7, <2>1, GotoFinding DEF Produced, FindingPcs
        <3>2. call[a].pc \in FindingPcs \ {"write_finding"}
            BY <1>7 DEF Produced, FindingPcs
        <3>3. /\ call[a].id \in Labelled("finding")'
              /\ nodes'[call[a].id].entity = call[a].entity
              /\ run[a].id # 0
            BY <1>0, <1>1, <1>7, <3>2, LabelKept DEF Produced, RefersItem
        <3> QED
            BY <1>b, <1>2, <2>1, <3>1, <3>3 DEF FindingPcs
    <2>2. CASE call[a].entity = None
        BY <1>7, <1>a, <2>2 DEF Produced
    <2> QED
        BY <2>1, <2>2
<1>8. CASE WriteQuestion(a)
    <2>1. call'[a].pc = "index_status" /\ call'[a].id = call[a].id
        BY <1>8, GotoQuestion DEF WriteQuestion, QuestionPcs
    <2>2. Writes(a, Question(run[a].thread))
        BY <1>8, WriteQuestionEffect
    <2>3. call[a].id \in Labelled("open_question")'
        BY <2>2 DEF Writes, WritesNew, Question, Labelled
    <2>4. run[a].id # 0
        BY <1>1, <1>8 DEF RefersItem, WriteQuestion, QuestionPcs
    <2> QED
        BY <1>c, <1>2, <2>1, <2>3, <2>4 DEF QuestionPcs
<1>9. CASE IndexStatus(a)
    <2>1. call'[a].pc = "raised" /\ call'[a].id = call[a].id
        BY <1>9, GotoQuestion DEF IndexStatus, QuestionPcs
    <2>2. call[a].pc \in QuestionPcs \ {"write_question"}
        BY <1>9 DEF IndexStatus, QuestionPcs
    <2>3. call[a].id \in Labelled("open_question")' /\ run[a].id # 0
        BY <1>0, <1>1, <2>2, LabelKept DEF RefersItem
    <2>4. <<"open", call[a].id>> \in index'["question:status"]
        BY <1>9, IndexStatusEffect
    <2> QED
        BY <1>c, <1>2, <2>1, <2>3, <2>4 DEF QuestionPcs
<1>10. CASE answer_question(a)
    <2>1. PICK q \in Labelled("open_question"), f \in Labelled("finding") :
              Become(a, [pc |-> "resolve", question |-> q, finding |-> f,
                         copy |-> nodes[q]])
        BY <1>10 DEF answer_question
    <2>2. call'[a] = [pc |-> "resolve", question |-> q, finding |-> f, copy |-> nodes[q]]
        BY <2>1 DEF Become, TypeOK
    <2>3. q \in Labelled("open_question")' /\ nodes' = nodes
        BY <1>0, <1>10, LabelKept DEF answer_question, store
    <2> QED
        BY <1>d, <2>2, <2>3 DEF AnswerPcs
<1>11. CASE Resolve(a)
    <2>1. /\ call'[a].pc = "unlist" /\ call'[a].question = call[a].question
          /\ call'[a].copy = call[a].copy
        BY <1>11, GotoAnswer DEF Resolve, AnswerPcs
    <2>2. PICK node \in QuestionNode :
              /\ Rewrites(call[a].question, node)
              /\ node.thread = nodes[call[a].question].thread
              /\ node.status = "resolved"
        BY <1>11, ResolveEffect
    <2>3. call[a].copy.thread = nodes[call[a].question].thread
        BY <1>1, <1>11 DEF RefersItem, Resolve, Answering, AnswerPcs
    <2>4. call[a].question \in Labelled("open_question")'
        BY <1>0, <1>11, ResolveEffect, LabelKept
    <2> QED
        BY <1>d, <2>1, <2>2, <2>3, <2>4 DEF AnswerPcs, Rewrites
<1>12. CASE Unlist(a)
    <2>1. /\ call'[a].pc = "answers" /\ call'[a].question = call[a].question
          /\ call'[a].copy = call[a].copy
        BY <1>12, GotoAnswer DEF Unlist, AnswerPcs
    <2>2. call[a].copy.thread = nodes[call[a].question].thread
        BY <1>1, <1>12 DEF RefersItem, Unlist, Answering, AnswerPcs
    <2>3. /\ call[a].question \in Labelled("open_question")'
          /\ nodes' = nodes /\ nodes[call[a].question].status # "open"
        BY <1>0, <1>12, UnlistEffect, LabelKept DEF IsOpen
    <2> QED
        BY <1>d, <2>1, <2>2, <2>3 DEF AnswerPcs
<1>13. CASE IndexEntity(a) \/ Raised(a) \/ Answers(a)
    BY <1>13, <1>a DEF IndexEntity, Raised, Answers
<1> QED
    BY <1>4, <1>5, <1>6, <1>7, <1>8, <1>9, <1>10, <1>11, <1>12, <1>13 DEF RunStep

LEMMA EndMoves ==
    ASSUME TypeOK, Ids, NEW a \in Agents, EndStep(a)
    PROVE  \/ /\ HasRun(a) /\ call'[a].run = run[a].id /\ run'[a] = NoRun
              /\ call'[a].pc \in EndPcs \ SummaryPcs
           \/ /\ Ending(a) /\ call'[a].run = call[a].run /\ run' = run
              /\ call'[a].pc \in EndPcs
           \/ /\ call'[a] = Idle /\ run' = run
<1>b. ASSUME NEW c, Become(a, c) PROVE call'[a] = c
    BY <1>b DEF Become, TypeOK
<1>1. CASE complete(a) \/ interrupt(a)
    BY <1>1, <1>b DEF complete, interrupt, TypeOK, EndPcs, SummaryPcs
<1>2. CASE CountQuestions(a) \/ Summarizes(a) \/ ReadStatus(a)
    BY <1>2, <1>b DEF CountQuestions, Summarizes, ReadStatus, EndPcs, SummaryPcs,
       Ending, At, handles
<1>3. CASE WriteSummary(a)
    BY <1>3, GotoSummary DEF WriteSummary, At, SummaryPcs, EndPcs, Ending, handles
<1>4. CASE EndRun(a)
    BY <1>4, Returns DEF EndRun, TypeOK, handles
<1> QED
    BY <1>1, <1>2, <1>3, <1>4 DEF EndStep

LEMMA EndRefers ==
    ASSUME TypeOK, Ids, NEW a \in Agents, EndStep(a)
    PROVE  RefersRun(a)' /\ RefersItem(a)'
<1>0. Kept
    BY StepKeeps DEF Step
<1>1. RefersRun(a)
    BY DEF Ids, Refers
<1>2. run'[a] \in {run[a], NoRun}
    BY EndMoves
<1>3. run'[a].id # 0 => run'[a].id \in Labelled("agent_run")'
    BY <1>0, <1>1, <1>2, LabelKept DEF RefersRun, NoRun
<1>4. ASSUME call'[a].pc \in EndPcs, call'[a].run \in Labelled("agent_run")
      PROVE  RefersRun(a)' /\ RefersItem(a)'
    BY <1>0, <1>3, <1>4, LabelKept
    DEF RefersRun, RefersItem, Started, Ending, Answering, At, StartPcs,
        FindingPcs, QuestionPcs, AnswerPcs, EndPcs, SummaryPcs
<1>5. CASE call'[a] = Idle
    BY <1>0, <1>2, <1>5, BlankRefers DEF Idle, Blank
<1> QED
    BY <1>1, <1>4, <1>5, EndMoves DEF RefersRun, HasRun

LEMMA RecallMoves ==
    ASSUME TypeOK, NEW a \in Agents, RecallStep(a)
    PROVE  /\ run' = run
           /\ call'[a].pc \in RecallPcs
           /\ call'[a].pc = "recall_question" => call'[a].todo # {}
<1>1. CASE recall(a)
    <2>1. PICK c : c.pc = "recall_findings" /\ Become(a, c)
        BY <1>1 DEF recall
    <2> QED
        BY <1>1, <2>1 DEF recall, Become, TypeOK, RecallPcs, handles
<1>2. CASE RecallFindings(a)
    <2>1. call[a] \in RecallCall
        BY <1>2, Kinds DEF RecallFindings, At, TypeOK, RecallPcs
    <2> QED
        BY <1>2, <2>1 DEF RecallFindings, Become, TypeOK, RecallPcs, RecallCall, handles
<1>3. CASE RecallQuestions(a) \/ RecallQuestion(a)
    BY ZenonT(60), <1>3, RecallRestEffect DEF RecallQuestions, RecallQuestion, At, RecallPcs, handles
<1> QED
    BY <1>1, <1>2, <1>3 DEF RecallStep

LEMMA RecallRefers ==
    ASSUME TypeOK, Ids, NEW a \in Agents, RecallStep(a)
    PROVE  RefersRun(a)' /\ RefersItem(a)'
<1>0. Kept
    BY StepKeeps DEF Step
<1>1. CASE call'[a].pc \in Blank
    BY <1>0, <1>1, RecallMoves, BlankRefers DEF RecallPcs
<1>2. CASE call'[a].pc = "recall_question"
    <2>1. run[a].id # 0 => run[a].id \in Labelled("agent_run")'
        BY <1>0, LabelKept DEF Ids, Refers, RefersRun
    <2> QED
        BY <1>2, <2>1, RecallMoves
        DEF RefersRun, RefersItem, Started, Ending, Answering, At, StartPcs,
            FindingPcs, QuestionPcs, AnswerPcs, EndPcs, SummaryPcs
<1> QED
    BY <1>1, <1>2, RecallMoves DEF RecallPcs, Blank

LEMMA OtherRefers ==
    ASSUME TypeOK, Ids, NEW a \in Agents, ThreadStep(a) \/ Fail(a) \/ Kill(a)
    PROVE  RefersRun(a)' /\ RefersItem(a)'
<1>0. Kept
    BY StepKeeps DEF Step
<1>1. call'[a].pc \in {"idle", "create_thread"}
    BY DEF ThreadStep, FindThread, MissThread, CreateThread, Fail, Kill, Return,
           Become, Idle, TypeOK
<1>2. run'[a] \in {run[a], NoRun}
    BY DEF ThreadStep, FindThread, MissThread, CreateThread, Fail, Kill, handles, TypeOK
<1> QED
    BY <1>0, <1>1, <1>2, BlankRefers DEF Blank

LEMMA NextRefers ==
    ASSUME TypeOK, Ids, NEW a \in Agents, Step(a)
    PROVE  Refers'
<1>1. ASSUME NEW b \in Agents, b # a PROVE RefersRun(b)' /\ RefersItem(b)'
    BY <1>1, OthersWait, StepKeeps, RefersKept DEF Others
<1>2. RefersRun(a)' /\ RefersItem(a)'
    BY StartRefers, RunRefers, EndRefers, RecallRefers, OtherRefers DEF Step
<1> QED
    BY <1>1, <1>2 DEF Refers

-----------------------------------------------------------------------------
(* Who fills a run.                                                         *)

LEMMA Asks ==
    ASSUME TypeOK, NEW a \in Agents
    PROVE  /\ record_finding(a) => call'[a].pc = "write_finding"
           /\ raise_question(a) => call'[a].pc = "write_question"
           /\ answer_question(a) => call'[a].pc = "resolve"
<1>1. record_finding(a) => call'[a].pc = "write_finding"
    BY DEF record_finding, Become, TypeOK
<1>2. raise_question(a) => call'[a].pc = "write_question"
    BY DEF raise_question, Become, TypeOK
<1>3. answer_question(a) => call'[a].pc = "resolve"
    BY DEF answer_question, Become, TypeOK
<1> QED
    BY <1>1, <1>2, <1>3

(* Where the steps of a call lead.                                          *)
LEMMA Moves ==
    ASSUME TypeOK, Ids, NEW a \in Agents
    PROVE  /\ ThreadStep(a) \/ Fail(a) \/ Kill(a) =>
                 call'[a].pc \in {"create_thread", "idle"}
           /\ StartStep(a) => call'[a].pc \in StartPcs \cup {"idle"}
           /\ RunStep(a) =>
                 call'[a].pc \in FindingPcs \cup QuestionPcs \cup AnswerPcs \cup {"idle"}
           /\ EndStep(a) => call'[a].pc \in EndPcs \cup {"idle"}
           /\ RecallStep(a) => call'[a].pc \in RecallPcs
<1> USE DEF At
<1>a. Return(a) => call'[a].pc = "idle"
    BY Returns DEF TypeOK, Idle
<1>1. ThreadStep(a) \/ Fail(a) \/ Kill(a) => call'[a].pc \in {"create_thread", "idle"}
    <2>1. MissThread(a) => call'[a].pc = "create_thread"
        BY DEF MissThread, Become, TypeOK
    <2> QED
        BY <1>a, <2>1 DEF ThreadStep, FindThread, CreateThread, Fail, Kill
<1>2. StartStep(a) => call'[a].pc \in StartPcs \cup {"idle"}
    <2>1. StartRun(a) => call'[a].pc = "write_run"
        BY DEF StartRun, Become, TypeOK
    <2>2. HandsOver(a) => call'[a].pc = "idle"
        BY DEF HandsOver, Idle
    <2> QED
        BY <2>1, <2>2, StartMoves DEF GoesOn, StartPcs
<1>3. ASSUME RunStep(a)
      PROVE  call'[a].pc \in FindingPcs \cup QuestionPcs \cup AnswerPcs \cup {"idle"}
    <2>1. record_finding(a) \/ raise_question(a) \/ answer_question(a) =>
             call'[a].pc \in FindingPcs \cup QuestionPcs \cup AnswerPcs
        BY Asks DEF FindingPcs, QuestionPcs, AnswerPcs
    <2>2. WriteFinding(a) \/ Produced(a) => call'[a].pc \in FindingPcs \cup {"idle"}
        BY <1>a, GotoFinding DEF WriteFinding, Produced, FindingPcs
    <2>3. WriteQuestion(a) \/ IndexStatus(a) => call'[a].pc \in QuestionPcs
        BY GotoQuestion DEF WriteQuestion, IndexStatus, QuestionPcs
    <2>4. Resolve(a) \/ Unlist(a) => call'[a].pc \in AnswerPcs
        BY GotoAnswer DEF Resolve, Unlist, AnswerPcs
    <2>5. IndexEntity(a) \/ Raised(a) \/ Answers(a) => call'[a].pc = "idle"
        BY <1>a DEF IndexEntity, Raised, Answers
    <2> QED
        BY <1>3, <2>1, <2>2, <2>3, <2>4, <2>5 DEF RunStep
<1>4. EndStep(a) => call'[a].pc \in EndPcs \cup {"idle"}
    <2>1. call'[a] = Idle => call'[a].pc = "idle"
        BY DEF Idle
    <2> QED
        BY <2>1, EndMoves
<1>5. RecallStep(a) => call'[a].pc \in RecallPcs
    BY RecallMoves
<1> QED
    BY <1>1, <1>2, <1>3, <1>4, <1>5

(* So a step tells, from where it leads, which call it is of.               *)
LEMMA Whose ==
    ASSUME TypeOK, Ids, NEW a \in Agents, Step(a)
    PROVE  /\ call'[a].pc = "create_thread" => ThreadStep(a) \/ Fail(a) \/ Kill(a)
           /\ call'[a].pc \in StartPcs => StartStep(a)
           /\ call'[a].pc \in FindingPcs \cup QuestionPcs \cup AnswerPcs => RunStep(a)
           /\ call'[a].pc \in EndPcs => EndStep(a)
           /\ call'[a].pc \in RecallPcs => RecallStep(a)
<1>1. /\ ~ ThreadStep(a) /\ ~ Fail(a) /\ ~ Kill(a) => call'[a].pc # "create_thread"
      /\ ~ StartStep(a) => call'[a].pc \notin StartPcs
      /\ ~ RunStep(a) =>
            call'[a].pc \notin FindingPcs \cup QuestionPcs \cup AnswerPcs
      /\ ~ EndStep(a) => call'[a].pc \notin EndPcs
      /\ ~ RecallStep(a) => call'[a].pc \notin RecallPcs
    BY Moves DEF Step, StartPcs, FindingPcs, QuestionPcs, AnswerPcs, EndPcs,
       SummaryPcs, RecallPcs
<1> QED
    BY <1>1

(* Only start_run makes an agent the one that fills a run.                  *)
LEMMA NotStarting ==
    ASSUME TypeOK, Ids, NEW a \in Agents, Step(a), ~ StartStep(a)
    PROVE  ~ Starting(a)' /\ run'[a] \in {run[a], NoRun}
<1>1. ~ Starting(a)'
    BY Whose DEF Starting
<1>2. CASE ThreadStep(a) \/ Fail(a) \/ Kill(a)
    BY <1>1, <1>2 DEF ThreadStep, FindThread, MissThread, CreateThread, Fail, Kill,
       handles, TypeOK
<1>3. CASE RunStep(a)
    BY <1>1, <1>3 DEF RunStep, record_finding, WriteFinding, Produced, IndexEntity,
       raise_question, WriteQuestion, IndexStatus, Raised, answer_question,
       Resolve, Unlist, Answers, handles
<1>4. CASE EndStep(a)
    BY <1>1, <1>4, EndMoves
<1>5. CASE RecallStep(a)
    BY <1>1, <1>5, RecallMoves
<1> QED
    BY <1>1, <1>2, <1>3, <1>4, <1>5 DEF Step

LEMMA HoldsFrom ==
    ASSUME TypeOK, Ids, NEW a \in Agents, Step(a), NEW r \in Nat, Holds(a, r)'
    PROVE  \/ Holds(a, r)
           \/ StartRun(a) /\ r = issued + 1 /\ issued' = issued + 1
<1>1. CASE StartStep(a)
    <2>1. CASE StartRun(a)
        <3>1. call'[a].id = issued + 1 /\ run' = run /\ issued' = issued + 1
            BY <2>1 DEF StartRun, Become, TypeOK, handles, v6_uuid
        <3> QED
            BY <2>1, <3>1 DEF Holds, Starting
    <2>2. CASE GoesOn(a)
        BY <2>2 DEF GoesOn, SameStart, Holds, Starting
    <2>3. CASE HandsOver(a)
        <3>1. run'[a].id = call[a].id /\ call'[a].pc = "idle" /\ Starting(a)
            BY <2>3 DEF HandsOver, Idle, Starting, StartPcs
        <3> QED
            BY <3>1 DEF Holds, Starting, StartPcs
    <2> QED
        BY <1>1, <2>1, <2>2, <2>3, StartMoves
<1>2. CASE ~ StartStep(a)
    BY <1>2, NotStarting DEF Holds, NoRun
<1> QED
    BY <1>1, <1>2

(* A node of a label is old, or the one that the agent's call wrote.        *)
LEMMA LabelledFrom ==
    ASSUME TypeOK, Ids, NEW a \in Agents, Step(a), NEW label, NEW i \in Labelled(label)'
    PROVE  \/ i \in Labelled(label)
           \/ /\ i = call[a].id /\ WritesNew(a)
              /\ \/ CreateThread(a) /\ label = "research_thread"
                 \/ WriteRun(a) /\ label = "agent_run"
                 \/ WriteFinding(a) /\ label = "finding"
                 \/ WriteQuestion(a) /\ label = "open_question"
                 \/ WriteSummary(a) /\ label = "run_summary"
<1>1. CASE i \in DOMAIN nodes
    BY <1>1, StepKeeps DEF Kept, NodeKept, Labelled
<1>2. CASE i \notin DOMAIN nodes
    <2>1. i \in DOMAIN nodes' /\ nodes'[i].label = label
        BY DEF Labelled
    <2>2. WritesNew(a) /\ i = call[a].id
        BY <1>2, <2>1, NodesGrow DEF WritesNew
    <2>3. CASE CreateThread(a)
        BY <2>1, <2>2, <2>3, CreateThreadEffect DEF Writes, ThreadNode
    <2>4. CASE WriteRun(a)
        <3>1. nodes'[i] = Run(call[a].thread)
            BY <2>2, <2>4, WriteRunEffect DEF Writes
        <3> QED
            BY <2>1, <2>2, <2>4, <3>1 DEF Run
    <2>5. CASE WriteFinding(a)
        <3>1. nodes'[i] = Finding(run[a].thread, call[a].entity)
            BY <2>2, <2>5, WriteFindingEffect DEF Writes
        <3> QED
            BY <2>1, <2>2, <2>5, <3>1 DEF Finding
    <2>6. CASE WriteQuestion(a)
        <3>1. nodes'[i] = Question(run[a].thread)
            BY <2>2, <2>6, WriteQuestionEffect DEF Writes
        <3> QED
            BY <2>1, <2>2, <2>6, <3>1 DEF Question
    <2>7. CASE WriteSummary(a)
        BY <2>1, <2>2, <2>7, WriteSummaryEffect DEF Writes, SummaryNode
    <2>8. CASE Resolve(a) \/ EndRun(a)
        BY <1>2, <2>1, <2>8, ResolveEffect, EndRunEffect DEF Rewrites
    <2> QED
        BY <1>2, <2>1, <2>2, <2>3, <2>4, <2>5, <2>6, <2>7, <2>8, NodesSame
<1> QED
    BY <1>1, <1>2

(* The end of a run begins with the agent that holds it.                    *)
LEMMA EndedFrom ==
    ASSUME TypeOK, Ids, NEW a \in Agents, Step(a), NEW r, Ended(r)'
    PROVE  \/ Ended(r)
           \/ EndStep(a) /\ run[a].id = r /\ r # 0 /\ run'[a] = NoRun
<1>1. ASSUME NEW b \in Agents, Ending(b)', call'[b].run = r
      PROVE  \/ Ended(r)
             \/ EndStep(a) /\ run[a].id = r /\ r # 0 /\ run'[a] = NoRun
    <2>1. CASE b # a
        BY <1>1, <2>1, OthersWait DEF Others, Ended, Ending
    <2>2. CASE b = a
        <3>1. EndStep(a)
            BY <1>1, <2>2, Whose DEF Ending
        <3>2. call'[a] # Idle
            BY <1>1, <2>2 DEF Ending, Idle, EndPcs, SummaryPcs
        <3> QED
            BY <1>1, <2>2, <3>1, <3>2, EndMoves DEF Ended, HasRun
    <2> QED
        BY <2>1, <2>2
<1>2. ASSUME NEW s \in Labelled("run_summary")', nodes'[s].run = r
      PROVE  Ended(r)
    <2>1. CASE s \in Labelled("run_summary")
        <3>1. nodes'[s] = nodes[s]
            BY <2>1, StepKeeps DEF Kept, NodeKept, Labelled
        <3> QED
            BY <1>2, <2>1, <3>1 DEF Ended
    <2>2. CASE s \notin Labelled("run_summary")
        <3>1. WriteSummary(a) /\ s = call[a].id
            BY <2>2, LabelledFrom
        <3>2. nodes'[s] = call[a].node
            BY <3>1, WriteSummaryEffect DEF Writes
        <3>3. At(a, "write_summary") /\ call[a].node.run = call[a].run
            BY <3>1 DEF WriteSummary, Ids, Owned
        <3> QED
            BY <1>2, <3>2, <3>3 DEF Ended, Ending, At, EndPcs, SummaryPcs
    <2> QED
        BY <2>1, <2>2
<1> QED
    BY <1>1, <1>2 DEF Ended

LEMMA NextOwned ==
    ASSUME TypeOK, Ids, NEW a \in Agents, Step(a)
    PROVE  Owned'
<1>a. issued \in Nat /\ issued <= issued' /\ issued' \in Nat
    BY StepKeeps, NextTyped DEF Kept, TypeOK, StoreTyped, Next, Step
<1>b. ASSUME NEW b \in Agents, b # a, NEW r \in Nat, Holds(b, r)'
      PROVE  Holds(b, r)
    BY <1>b, OthersWait DEF Others, Holds, Starting
<1>c. ASSUME NEW b \in Agents, NEW r \in Nat, Holds(b, r)
      PROVE  r <= issued /\ ~ Ended(r)
    BY <1>c DEF Ids, Owned
<1>1. ASSUME NEW b \in Agents, NEW d \in Agents, NEW r \in Nat,
             Holds(b, r)', Holds(d, r)', b # d
      PROVE  FALSE
    <2>1. ASSUME NEW e \in Agents, e # a, Holds(a, r)', Holds(e, r)'
          PROVE  FALSE
        <3>1. Holds(e, r) /\ r <= issued
            BY <2>1, <1>b, <1>c
        <3>2. Holds(a, r)
            BY <1>a, <2>1, <3>1, HoldsFrom
        <3> QED
            BY <2>1, <3>1, <3>2 DEF Ids, Owned
    <2>2. CASE b = a \/ d = a
        BY <1>1, <2>1, <2>2
    <2>3. CASE b # a /\ d # a
        <3>1. Holds(b, r) /\ Holds(d, r)
            BY <1>1, <1>b, <2>3
        <3> QED
            BY <1>1, <3>1 DEF Ids, Owned
    <2> QED
        BY <2>2, <2>3
<1>2. ASSUME NEW b \in Agents, Starting(b)'
      PROVE  call'[b].id # run'[b].id
    <2>1. CASE b # a
        BY <1>2, <2>1, OthersWait DEF Others, Starting, Ids, Owned
    <2>2. CASE b = a
        <3>1. StartStep(a)
            BY <1>2, <2>2, NotStarting
        <3>2. CASE StartRun(a)
            <4>1. call'[a].id = issued + 1 /\ run' = run
                BY <3>2 DEF StartRun, Become, TypeOK, handles, v6_uuid
            <4>2. run[a].id = 0 \/ run[a].id \in DOMAIN nodes
                BY DEF Ids, Refers, RefersRun, Labelled
            <4>3. run[a].id <= issued
                BY <1>a, <4>2, NodeTypes DEF TypeOK
            <4>4. run[a].id \in Nat
                BY DEF TypeOK, RunHandle, NoRun
            <4> QED
                BY <1>a, <2>2, <4>1, <4>3, <4>4
        <3>3. CASE GoesOn(a)
            BY <2>2, <3>3 DEF GoesOn, SameStart, Starting, Ids, Owned
        <3>4. CASE HandsOver(a)
            BY <1>2, <2>2, <3>4 DEF HandsOver, Idle, Starting, StartPcs
        <3> QED
            BY <3>1, <3>2, <3>3, <3>4, StartMoves
    <2> QED
        BY <2>1, <2>2
<1>3. ASSUME NEW b \in Agents, NEW r \in Nat, Holds(b, r)'
      PROVE  r <= issued'
    <2>1. Holds(b, r) => r <= issued
        BY <1>c
    <2>2. Holds(b, r) \/ r = issued'
        BY <1>3, <1>b, HoldsFrom
    <2> QED
        BY <1>a, <2>1, <2>2
<1>4. ASSUME NEW r \in Nat, Ended(r)'
      PROVE  r <= issued'
    <2>1. Ended(r) => r <= issued
        BY DEF Ids, Owned
    <2>2. Ended(r) \/ Holds(a, r)
        BY <1>4, EndedFrom DEF Holds
    <2> QED
        BY <1>a, <1>c, <2>1, <2>2
<1>5. ASSUME NEW b \in Agents, NEW r \in Nat, Holds(b, r)', Ended(r)'
      PROVE  FALSE
    <2>1. CASE Ended(r)
        <3>1. r <= issued
            BY <2>1 DEF Ids, Owned
        <3>2. ~ Holds(b, r)
            BY <1>c, <2>1
        <3> QED
            BY <1>5, <1>a, <1>b, <3>1, <3>2, HoldsFrom
    <2>2. CASE ~ Ended(r)
        <3>1. EndStep(a) /\ run[a].id = r /\ r # 0 /\ run'[a] = NoRun
            BY <1>5, <2>2, EndedFrom
        <3>2. Holds(a, r) /\ r <= issued
            BY <3>1, <1>c DEF Holds
        <3>3. CASE b # a
            BY <1>5, <1>b, <3>2, <3>3 DEF Ids, Owned
        <3>4. CASE b = a
            <4>1. ~ Starting(a)'
                BY <3>1, EndMoves DEF EndPcs, SummaryPcs, Starting, StartPcs, Idle
            <4> QED
                BY <1>5, <3>1, <3>4, <4>1 DEF Holds, NoRun
        <3> QED
            BY <3>3, <3>4
    <2> QED
        BY <2>1, <2>2
<1>6. ASSUME NEW b \in Agents, At(b, "write_summary")'
      PROVE  call'[b].node.run = call'[b].run
    <2>1. CASE b # a
        BY <1>6, <2>1, OthersWait DEF Others, At, Ids, Owned
    <2>2. CASE b = a
        <3>1. EndStep(a)
            BY <1>6, <2>2, Whose DEF At, EndPcs, SummaryPcs
        <3>2. CASE CountQuestions(a)
            BY <2>2, <3>2 DEF CountQuestions, Become, TypeOK, Summary
        <3>3. CASE complete(a) \/ Summarizes(a) \/ ReadStatus(a) \/ interrupt(a)
            BY <1>6, <2>2, <3>3 DEF complete, Summarizes, ReadStatus, interrupt,
               Become, TypeOK, At
        <3>4. CASE WriteSummary(a) \/ EndRun(a)
            BY <1>6, <2>2, <3>4, GotoSummary, Returns
            DEF WriteSummary, EndRun, At, SummaryPcs, Idle, TypeOK
        <3> QED
            BY <3>1, <3>2, <3>3, <3>4 DEF EndStep
    <2> QED
        BY <2>1, <2>2
<1> QED
    BY <1>1, <1>2, <1>3, <1>4, <1>5, <1>6 DEF Owned

-----------------------------------------------------------------------------
(* Types and identifiers always hold.                                       *)

LEMMA InitIds ==
    Init => Ids
<1> SUFFICES ASSUME Init PROVE Ids
    OBVIOUS
<1> USE DEF Init, Idle, NoRun, StartPcs, FindingPcs, QuestionPcs, AnswerPcs,
            SummaryPcs, EndPcs, RecallPcs, CreatePcs, At
<1>0. \A a \in Agents : call[a].pc = "idle" /\ run[a].id = 0
    OBVIOUS
<1>1. Fresh
    BY <1>0 DEF Fresh, Creating
<1>2. Refers
    BY <1>0 DEF Refers, RefersRun, RefersItem, Started, Ending, Answering
<1>3. \A a \in Agents, r \in Nat : ~ Holds(a, r)
    BY <1>0 DEF Holds, Starting
<1>4. \A r \in Nat : ~ Ended(r)
    BY <1>0 DEF Ended, Ending, Labelled
<1>5. Owned
    BY <1>0, <1>3, <1>4 DEF Owned, Starting
<1> QED
    BY <1>1, <1>2, <1>5 DEF Ids

LEMMA StepOrStutter ==
    ASSUME [Next]_vars
    PROVE  (\E a \in Agents : Step(a)) \/ vars' = vars
BY DEF Next, Step

LEMMA Stutters ==
    ASSUME vars' = vars
    PROVE  /\ nodes' = nodes /\ edges' = edges /\ index' = index
           /\ issued' = issued /\ thread' = thread /\ run' = run /\ call' = call
           /\ faults' = faults /\ acked' = acked /\ overlapped' = overlapped
BY DEF vars, store, handles, observed

LEMMA NextIds ==
    ASSUME TypeOK, Ids, [Next]_vars
    PROVE  Ids'
<1>1. ASSUME NEW a \in Agents, Step(a) PROVE Ids'
    BY <1>1, NextFresh, NextRefers, NextOwned DEF Ids
<1>2. CASE vars' = vars
    <2> USE Stutters, <1>2 DEF At, Labelled
    <2>1. Fresh'
        BY DEF Ids, Fresh, Creating
    <2>2. Refers'
        BY DEF Ids, Refers, RefersRun, RefersItem, Started, Ending, Answering,
               IsListed, IsOpen
    <2>3. Owned'
        BY DEF Ids, Owned, Holds, Ended, Starting, Ending
    <2> QED
        BY <2>1, <2>2, <2>3 DEF Ids
<1> QED
    BY <1>1, <1>2, StepOrStutter

(* Every variable always has its type, and every id that a call or a handle *)
(* holds is of a node of the kind it is taken for: a node about to be       *)
(* written is new, and a run is filled by one agent, by none once it is     *)
(* summed up or ended.                                                      *)
THEOREM TypeCorrect ==
    Spec => [](TypeOK /\ Ids)
<1>1. Init => TypeOK /\ Ids
    BY InitTyped, InitIds
<1>2. TypeOK /\ Ids /\ [Next]_vars => (TypeOK /\ Ids)'
    BY NextTyped, NextIds
<1> QED
    BY <1>1, <1>2, PTL DEF Spec

(* Nothing that was stored is lost or undone: no node, edge or entry goes,  *)
(* a resolved question stays resolved and an ended run ended, and a question*)
(* leaves the list of open ones only when it is resolved.                   *)
THEOREM NothingForgotten ==
    Spec => [][Kept]_vars
<1>1. TypeOK /\ Ids /\ [Next]_vars => [Kept]_vars
    BY StepOrStutter, StepKeeps
<1> QED
    BY <1>1, TypeCorrect, PTL DEF Spec

-----------------------------------------------------------------------------
(* One thread per title.                                                    *)

(* Only a call that found no thread is about to create one.                 *)
LEMMA LookingFrom ==
    ASSUME TypeOK, Ids, NEW a \in Agents, Step(a), Looking(a)'
    PROVE  MissThread(a)
<1>1. ThreadStep(a) \/ Fail(a) \/ Kill(a)
    BY Whose DEF Looking, At
<1>2. ~ Return(a)
    BY Returns DEF Looking, At, Idle, TypeOK
<1> QED
    BY <1>1, <1>2 DEF ThreadStep, FindThread, CreateThread, Fail, Kill

LEMMA MissThreadEffect ==
    ASSUME TypeOK, NEW a \in Agents, MissThread(a)
    PROVE  /\ nodes' = nodes
           /\ Title(a)' \in Titles /\ Matches(Title(a)') = {}
           /\ \A b \in Agents : Looking(b) /\ Title(b) = Title(a)' =>
                 Title(a)' \in overlapped'
<1>1. PICK title \in Titles :
          /\ Matches(title) = {}
          /\ Become(a, [pc |-> "create_thread", id |-> issued', node |-> Thread(title)])
          /\ overlapped' = overlapped \cup
                {t \in {title} : \E b \in Agents :
                     At(b, "create_thread") /\ call[b].node.title = t}
    BY DEF MissThread
<1>2. Title(a)' = title
    BY <1>1 DEF Title, Become, TypeOK, Thread
<1> QED
    BY <1>1, <1>2 DEF MissThread, store, Looking, Title

LEMMA OverlappedGrows ==
    ASSUME NEW a \in Agents, Step(a)
    PROVE  overlapped \subseteq overlapped'
<1> USE DEF observed
<1>1. CASE ThreadStep(a)
    BY <1>1 DEF ThreadStep, FindThread, MissThread, CreateThread
<1>2. CASE StartStep(a)
    BY <1>2 DEF StartStep, StartRun, WriteRun, ListRuns, ReadRun, Follow, PartOf,
       ListQuestions, ReadQuestion, Carry
<1>3. CASE RunStep(a)
    BY <1>3 DEF RunStep, record_finding, WriteFinding, Produced, IndexEntity,
       raise_question, WriteQuestion, IndexStatus, Raised, answer_question,
       Resolve, Unlist, Answers
<1>4. CASE EndStep(a)
    BY <1>4 DEF EndStep, complete, CountQuestions, WriteSummary, Summarizes,
       ReadStatus, interrupt, EndRun
<1>5. CASE RecallStep(a)
    BY <1>5 DEF RecallStep, recall, RecallFindings, RecallQuestions, RecallQuestion
<1>6. CASE Fail(a) \/ Kill(a)
    BY <1>6 DEF Fail, Kill
<1> QED
    BY <1>1, <1>2, <1>3, <1>4, <1>5, <1>6 DEF Step

LEMMA NextDuplicate ==
    ASSUME TypeOK, Ids, DuplicateInv, NEW a \in Agents, Step(a)
    PROVE  DuplicateInv'
<1>a. ASSUME NEW i \in Labelled("research_thread"), NEW b \in Agents, Looking(b),
             nodes[i].title = Title(b)
      PROVE  Title(b) \in overlapped'
    BY <1>a, OverlappedGrows DEF DuplicateInv
<1>b. ASSUME NEW i \in Labelled("research_thread")'
      PROVE  \/ i \in Labelled("research_thread") /\ nodes'[i] = nodes[i]
             \/ i = call[a].id /\ nodes'[i].title = Title(a) /\ Looking(a)
    <2>1. CASE i \in Labelled("research_thread")
        BY <2>1, StepKeeps DEF Kept, NodeKept, Labelled
    <2>2. CASE i \notin Labelled("research_thread")
        <3>1. i = call[a].id /\ CreateThread(a)
            BY <2>2, LabelledFrom
        <3> QED
            BY <3>1, CreateThreadEffect DEF Writes, Title, Looking, CreateThread
    <2> QED
        BY <2>1, <2>2
<1>c. ASSUME NEW b \in Agents, b # a, Looking(b)'
      PROVE  Looking(b) /\ Title(b)' = Title(b)
    BY <1>c, OthersWait DEF Others, Looking, At, Title
<1>1. ASSUME NEW i \in Labelled("research_thread")', NEW j \in Labelled("research_thread")',
             i # j, nodes'[i].title = nodes'[j].title
      PROVE  nodes'[i].title \in overlapped'
    <2>1. CASE nodes'[i] = nodes[i] /\ nodes'[j] = nodes[j]
               /\ i \in Labelled("research_thread") /\ j \in Labelled("research_thread")
        BY <1>1, <2>1, OverlappedGrows DEF DuplicateInv, DuplicateNeedsOverlap
    <2> QED
        BY <1>1, <1>a, <1>b, <2>1
<1>2. ASSUME NEW b \in Agents, Looking(b)', NEW i \in Labelled("research_thread")',
             nodes'[i].title = Title(b)'
      PROVE  Title(b)' \in overlapped'
    <2>1. CASE b = a
        <3>1. Matches(Title(a)') = {} /\ nodes' = nodes
            BY <1>2, <2>1, LookingFrom, MissThreadEffect
        <3> QED
            BY <1>2, <2>1, <3>1 DEF Matches, Labelled
    <2>2. CASE b # a
        <3>1. Looking(b) /\ Title(b)' = Title(b)
            BY <1>2, <1>c, <2>2
        <3>2. CASE i = call[a].id /\ nodes'[i].title = Title(a) /\ Looking(a)
            BY <1>2, <2>2, <3>1, <3>2, OverlappedGrows DEF DuplicateInv
        <3> QED
            BY <1>2, <1>a, <1>b, <3>1, <3>2
    <2> QED
        BY <2>1, <2>2
<1>3. ASSUME NEW b \in Agents, NEW d \in Agents, b # d, Looking(b)', Looking(d)',
             Title(b)' = Title(d)'
      PROVE  Title(b)' \in overlapped'
    <2>1. ASSUME NEW e \in Agents, e # a, Looking(a)', Looking(e)', Title(e)' = Title(a)'
          PROVE  Title(a)' \in overlapped'
        BY <2>1, <1>c, LookingFrom, MissThreadEffect
    <2>2. CASE b # a /\ d # a
        BY <1>3, <1>c, <2>2, OverlappedGrows DEF DuplicateInv
    <2> QED
        BY <1>3, <2>1, <2>2
<1> QED
    BY <1>1, <1>2, <1>3 DEF DuplicateInv, DuplicateNeedsOverlap

(* get_or_create makes a second thread of one title only when two calls for *)
(* it overlapped: the second found no thread because the first had looked   *)
(* and not yet written.                                                     *)
THEOREM DuplicatesOverlap ==
    Spec => []DuplicateNeedsOverlap
<1>1. Init => DuplicateInv
    BY DEF Init, DuplicateInv, DuplicateNeedsOverlap, Looking, At, Idle, Labelled
<1>2. TypeOK /\ Ids /\ DuplicateInv /\ [Next]_vars => DuplicateInv'
    <2>1. ASSUME DuplicateInv, vars' = vars PROVE DuplicateInv'
        BY <2>1, Stutters
        DEF DuplicateInv, DuplicateNeedsOverlap, Looking, At, Title, Labelled
    <2> QED
        BY <2>1, StepOrStutter, NextDuplicate
<1>3. DuplicateInv => DuplicateNeedsOverlap
    BY DEF DuplicateInv
<1> QED
    BY <1>1, <1>2, <1>3, TypeCorrect, PTL DEF Spec

-----------------------------------------------------------------------------
(* Questions that are open when a run starts.                               *)

(* A node of the label is in the index of its thread, new ones included.    *)
LEMMA ByThreadKept ==
    ASSUME TypeOK, Ids, NEW a \in Agents, Step(a),
           NEW label \in {"finding", "open_question", "run_summary"},
           NEW name \in Indices \ {"question:status"}, ByThread(label, name),
           \A i \in Labelled(label)' : i \notin Labelled(label) =>
               <<nodes'[i].thread, i>> \in index'[name]
    PROVE  ByThread(label, name)'
<1>1. ASSUME NEW i \in Labelled(label)
      PROVE  <<nodes'[i].thread, i>> \in index'[name]
    <2>1. nodes'[i].thread = nodes[i].thread
        BY StepKeeps DEF Kept, NodeKept, Labelled
    <2>2. <<nodes[i].thread, i>> \in index[name] /\ index[name] \subseteq index'[name]
        BY StepKeeps DEF Kept, ByThread
    <2> QED
        BY <2>1, <2>2
<1> QED
    BY <1>1 DEF ByThread

LEMMA NextIndexed ==
    ASSUME TypeOK, Ids, IndexedInv, NEW a \in Agents, Step(a)
    PROVE  IndexedInv'
<1>1. ByThread("finding", "finding:thread_id")'
    <2>1. ASSUME NEW i \in Labelled("finding")', i \notin Labelled("finding")
          PROVE  <<nodes'[i].thread, i>> \in index'["finding:thread_id"]
        BY <2>1, LabelledFrom, WriteFindingEffect DEF Writes, Enters
    <2> QED
        BY <2>1, ByThreadKept DEF IndexedInv, Indices
<1>2. ByThread("open_question", "question:thread_id")'
    <2>1. ASSUME NEW i \in Labelled("open_question")', i \notin Labelled("open_question")
          PROVE  <<nodes'[i].thread, i>> \in index'["question:thread_id"]
        BY <2>1, LabelledFrom, WriteQuestionEffect DEF Writes, Enters
    <2> QED
        BY <2>1, ByThreadKept DEF IndexedInv, Indices
<1>3. ByThread("run_summary", "summary:thread_id")'
    <2>1. ASSUME NEW i \in Labelled("run_summary")', i \notin Labelled("run_summary")
          PROVE  <<nodes'[i].thread, i>> \in index'["summary:thread_id"]
        BY <2>1, LabelledFrom, WriteSummaryEffect DEF Writes, Enters
    <2> QED
        BY <2>1, ByThreadKept DEF IndexedInv, Indices
<1> QED
    BY <1>1, <1>2, <1>3 DEF IndexedInv

LEMMA QuestionKept ==
    ASSUME Kept, NEW q \in Labelled("open_question")
    PROVE  /\ q \in Labelled("open_question")'
           /\ nodes'[q].thread = nodes[q].thread
           /\ IsOpen(q)' => IsOpen(q)
BY DEF Kept, NodeKept, Labelled, IsOpen

(* What is left to carry over, in the three steps that look at it.          *)
Remains(a, todo) ==
    \A q \in call[a].due : IsOpen(q)' => <<call[a].id, "CARRIED", q>> \in edges' \/ q \in todo

LEMMA CarrySteps ==
    ASSUME TypeOK, Ids, CarriedInv, NEW a \in Agents,
           ListQuestions(a) \/ ReadQuestion(a) \/ Carry(a)
    PROVE  \/ Goto(a, "carry") /\ Remains(a, call[a].todo) /\ run' = run
           \/ \E todo : CarryRest(a, call[a], todo) /\ Remains(a, todo)
<1>0. nodes' = nodes /\ Starting(a) /\ call[a] \in StartCall
    BY Kinds DEF ListQuestions, ReadQuestion, Carry, store, Starting, StartPcs, At, TypeOK
<1>1. CASE ListQuestions(a)
    <2>1. CarryRest(a, call[a], QuestionsOf(call[a].thread))
        BY <1>1 DEF ListQuestions
    <2>2. ASSUME NEW q \in call[a].due PROVE q \in QuestionsOf(call[a].thread)
        <3>1. q \in Labelled("open_question") /\ nodes[q].thread = call[a].thread
            BY <1>0, <2>2 DEF CarriedInv, DueInv
        <3>2. <<call[a].thread, q>> \in index["question:thread_id"]
            BY <3>1 DEF CarriedInv, IndexedInv, ByThread
        <3> QED
            BY <3>2, EntriesTyped DEF QuestionsOf, TypeOK, Indices
    <2> QED
        BY <2>1, <2>2 DEF Remains
<1>2. CASE ReadQuestion(a)
    <2> DEFINE m == Min(call[a].todo)
    <2>0. \A q \in call[a].due : IsOpen(q) => Carried(call[a].id, q) \/ q \in call[a].todo
        BY <1>2 DEF ReadQuestion, At, CarriedInv, DueInv
    <2>1. /\ edges' = edges
          /\ \A q \in call[a].due : IsOpen(q)' => IsOpen(q)
        BY <1>0, <1>2 DEF ReadQuestion, store, IsOpen
    <2>2. CASE IsOpen(m)
        <3>1. Goto(a, "carry") /\ run' = run
            BY <1>2, <2>2 DEF ReadQuestion
        <3> QED
            BY <2>0, <2>1, <3>1 DEF Remains, Carried
    <2>3. CASE ~ IsOpen(m)
        <3>1. CarryRest(a, call[a], call[a].todo \ {m})
            BY <1>2, <2>3 DEF ReadQuestion
        <3>2. Remains(a, call[a].todo \ {m})
            BY <1>0, <2>0, <2>1, <2>3 DEF Remains, IsOpen, Carried
        <3> QED
            BY <3>1, <3>2
    <2> QED
        BY <2>2, <2>3
<1>3. CASE Carry(a)
    <2> DEFINE m == Min(call[a].todo)
    <2>0. \A q \in call[a].due : IsOpen(q) => Carried(call[a].id, q) \/ q \in call[a].todo
        BY <1>3 DEF Carry, At, CarriedInv, DueInv
    <2>1. CarryRest(a, call[a], call[a].todo \ {m})
        BY <1>3 DEF Carry
    <2>2. edges' = edges \cup {<<call[a].id, "CARRIED", m>>}
        BY <1>3 DEF Carry, write_edge
    <2>3. Remains(a, call[a].todo \ {m})
        BY <1>0, <2>0, <2>2 DEF Remains, IsOpen, Carried
    <2> QED
        BY <2>1, <2>3
<1> QED
    BY <1>1, <1>2, <1>3

(* The other steps of start_run do not reach the questions.                 *)
LEMMA BeforeCarry ==
    ASSUME TypeOK, Ids, NEW a \in Agents, StartStep(a),
           call'[a].pc \in {"read_question", "carry"} \/ HandsOver(a)
    PROVE  ListQuestions(a) \/ ReadQuestion(a) \/ Carry(a)
<1>1. ~ StartRun(a)
    <2>1. StartRun(a) => call'[a].pc = "write_run" /\ Free(a)
        BY DEF StartRun, Become, TypeOK
    <2> QED
        BY <2>1 DEF Free, HandsOver
<1>2. CASE WriteRun(a) \/ Follow(a) \/ PartOf(a)
    <2>1. call'[a].pc \in {"list_runs", "part_of", "list_questions"}
        BY <1>2, GotoStart DEF WriteRun, Follow, PartOf, StartPcs, At
    <2> QED
        BY <2>1 DEF HandsOver, Idle
<1>3. CASE ListRuns(a) \/ ReadRun(a)
    <2>1. PICK todo, prev : ReadRest(a, call[a], todo, prev)
        BY <1>3 DEF ListRuns, ReadRun
    <2>2. call'[a].pc \in {"read_run", "follow", "part_of"}
        BY <1>3, <2>1, ReadRestEffect DEF ListRuns, ReadRun, StartPcs, At
    <2> QED
        BY <2>2 DEF HandsOver, Idle
<1> QED
    BY <1>1, <1>2, <1>3 DEF StartStep

(* The handle of a run is the one it had, none, or the one of the run that  *)
(* start_run has just made.                                                 *)
LEMMA RunFrom ==
    ASSUME TypeOK, Ids, NEW a \in Agents, Step(a)
    PROVE  run'[a] \in {run[a], NoRun} \/ (StartStep(a) /\ HandsOver(a))
<1>1. CASE StartStep(a)
    <2>1. StartRun(a) \/ GoesOn(a) => run'[a] = run[a]
        BY DEF StartRun, GoesOn, handles
    <2> QED
        BY <1>1, <2>1, StartMoves
<1> QED
    BY <1>1, NotStarting

LEMMA NextDue ==
    ASSUME TypeOK, Ids, CarriedInv, NEW a \in Agents, Step(a)
    PROVE  DueInv'
<1>0. Kept
    BY StepKeeps
<1>1. ASSUME NEW b \in Agents, run'[b].id # 0
      PROVE  run'[b].due \subseteq Labelled("open_question")'
    <2>1. CASE run'[b] \in {run[b], NoRun}
        BY <1>0, <1>1, <2>1, QuestionKept DEF CarriedInv, DueInv, NoRun
    <2>2. CASE b = a /\ StartStep(a) /\ HandsOver(a)
        <3>1. run'[a].due = call[a].due /\ Starting(a)
            BY <2>2 DEF HandsOver, Starting, StartPcs
        <3> QED
            BY <1>0, <2>2, <3>1, QuestionKept DEF CarriedInv, DueInv
    <2> QED
        BY <2>1, <2>2, RunFrom, OthersWait DEF Others
<1>2. ASSUME NEW b \in Agents, Starting(b)', NEW q \in call'[b].due
      PROVE  q \in Labelled("open_question")' /\ nodes'[q].thread = call'[b].thread
    <2>1. CASE b = a /\ StartRun(a)
        <3>1. /\ nodes' = nodes /\ call'[a].thread = thread[a]
              /\ call'[a].due = {d \in Labelled("open_question") :
                                    nodes[d].thread = thread[a] /\ IsOpen(d)}
            BY <2>1 DEF StartRun, Become, TypeOK, store
        <3> QED
            BY <1>2, <2>1, <3>1 DEF Labelled
    <2>2. CASE b # a \/ GoesOn(a)
        <3>1. Starting(b) /\ call'[b].due = call[b].due /\ call'[b].thread = call[b].thread
            <4>1. CASE b # a
                BY <1>2, <4>1, OthersWait DEF Others, Starting
            <4>2. CASE b = a
                BY <2>2, <4>2 DEF GoesOn, SameStart, Starting
            <4> QED
                BY <4>1, <4>2
        <3> QED
            BY <1>0, <1>2, <3>1, QuestionKept DEF CarriedInv, DueInv
    <2>3. CASE b = a /\ HandsOver(a)
        BY <1>2, <2>3 DEF HandsOver, Idle, Starting, StartPcs
    <2>4. b = a => StartStep(a)
        BY <1>2, NotStarting
    <2> QED
        BY <2>1, <2>2, <2>3, <2>4, StartMoves
<1>3. ASSUME NEW b \in Agents, call'[b].pc \in {"read_question", "carry"},
             NEW q \in call'[b].due, IsOpen(q)'
      PROVE  <<call'[b].id, "CARRIED", q>> \in edges' \/ q \in call'[b].todo
    <2>1. CASE b # a
        <3>1. call'[b] = call[b] /\ Starting(b)
            BY <1>3, <2>1, OthersWait DEF Others, Starting, StartPcs
        <3>2. IsOpen(q)
            BY <1>0, <1>3, <3>1, QuestionKept DEF CarriedInv, DueInv
        <3>3. Carried(call[b].id, q) \/ q \in call[b].todo
            BY <1>3, <3>1, <3>2 DEF CarriedInv, DueInv
        <3> QED
            BY <1>0, <3>1, <3>3 DEF Carried, Kept
    <2>2. CASE b = a
        <3>1. StartStep(a)
            BY <1>3, <2>2, NotStarting DEF Starting, StartPcs
        <3>2. ListQuestions(a) \/ ReadQuestion(a) \/ Carry(a)
            BY <1>3, <2>2, <3>1, BeforeCarry
        <3>3. call[a].pc \in StartPcs
            BY <3>2 DEF ListQuestions, ReadQuestion, Carry, At, StartPcs
        <3>4. CASE Goto(a, "carry") /\ Remains(a, call[a].todo)
            <4>1. SameStart(a) /\ call'[a].todo = call[a].todo
                BY <3>3, <3>4, GotoStart DEF StartPcs
            <4> QED
                BY <1>3, <2>2, <3>4, <4>1 DEF Remains, SameStart
        <3>5. ASSUME NEW todo, CarryRest(a, call[a], todo), Remains(a, todo)
              PROVE  <<call'[a].id, "CARRIED", q>> \in edges' \/ q \in call'[a].todo
            <4>1. SameStart(a) /\ call'[a].todo = todo
                <5>1. call'[a] # Idle
                    BY <1>3, <2>2 DEF Idle
                <5> QED
                    BY <3>3, <3>5, <5>1, CarryRestEffect
            <4> QED
                BY <1>3, <2>2, <3>5, <4>1 DEF Remains, SameStart
        <3> QED
            BY <2>2, <3>2, <3>4, <3>5, CarrySteps
    <2> QED
        BY <2>1, <2>2
<1> QED
    BY <1>1, <1>2, <1>3 DEF DueInv, Carried

LEMMA NextQuestions ==
    ASSUME TypeOK, Ids, CarriedInv, NEW a \in Agents, Step(a)
    PROVE  QuestionsCarried'
<1>0. Kept
    BY StepKeeps
<1> SUFFICES ASSUME NEW b \in Agents, run'[b].id # 0, NEW q \in run'[b].due, IsOpen(q)'
             PROVE  <<run'[b].id, "CARRIED", q>> \in edges'
    BY DEF QuestionsCarried
<1>1. CASE run'[b] \in {run[b], NoRun}
    <2>1. run'[b] = run[b] /\ run[b].id # 0
        BY <1>1 DEF NoRun
    <2>2. IsOpen(q)
        BY <1>0, <2>1, QuestionKept DEF CarriedInv, DueInv
    <2> QED
        BY <1>0, <2>1, <2>2 DEF CarriedInv, QuestionsCarried, Kept
<1>2. CASE b = a /\ StartStep(a) /\ HandsOver(a)
    <2>1. ListQuestions(a) \/ ReadQuestion(a) \/ Carry(a)
        BY <1>2, BeforeCarry
    <2>2. /\ run'[a].due = call[a].due /\ run'[a].id = call[a].id
          /\ call'[a] = Idle /\ call[a].pc \in StartPcs
        BY <1>2 DEF HandsOver, StartPcs
    <2>3. ~ Goto(a, "carry")
        BY <2>2, GotoStart DEF Idle, StartPcs
    <2>4. PICK todo : CarryRest(a, call[a], todo) /\ Remains(a, todo)
        BY <2>1, <2>3, CarrySteps
    <2>5. todo = {}
        <3>1. todo # {} => call'[a].pc = "read_question"
            BY <2>2, <2>4, CarryRestEffect
        <3> QED
            BY <2>2, <3>1 DEF Idle
    <2> QED
        BY <1>2, <2>2, <2>4, <2>5 DEF Remains, Carried
<1> QED
    BY <1>1, <1>2, RunFrom, OthersWait DEF Others

(* A run that was started has taken over every question that was open when  *)
(* start_run was called and is still open, whatever the other agents raise  *)
(* and answer meanwhile: a question is found by its thread as soon as its   *)
(* record is there, and what is still to be carried over shrinks only by    *)
(* what has been.                                                           *)
THEOREM OpenQuestionsCarried ==
    Spec => []QuestionsCarried
<1>1. Init => CarriedInv
    BY DEF Init, CarriedInv, IndexedInv, ByThread, DueInv, QuestionsCarried,
           Labelled, Idle, NoRun, Starting, StartPcs
<1>2. TypeOK /\ Ids /\ CarriedInv /\ [Next]_vars => CarriedInv'
    <2>1. ASSUME CarriedInv, vars' = vars PROVE CarriedInv'
        <3> USE <2>1, Stutters
        <3>1. IndexedInv'
            BY DEF CarriedInv, IndexedInv, ByThread, Labelled
        <3>2. DueInv'
            BY DEF CarriedInv, DueInv, Labelled, Starting, IsOpen, Carried
        <3>3. QuestionsCarried'
            BY DEF CarriedInv, QuestionsCarried, IsOpen
        <3> QED
            BY <3>1, <3>2, <3>3 DEF CarriedInv
    <2>2. ASSUME TypeOK, Ids, CarriedInv, NEW a \in Agents, Step(a) PROVE CarriedInv'
        BY <2>2, NextIndexed, NextDue, NextQuestions DEF CarriedInv
    <2> QED
        BY <2>1, <2>2, StepOrStutter
<1>3. CarriedInv => QuestionsCarried
    BY DEF CarriedInv
<1> QED
    BY <1>1, <1>2, <1>3, TypeCorrect, PTL DEF Spec

-----------------------------------------------------------------------------
(* What was acknowledged.                                                   *)

(* An edge of a label is written by one action.                             *)
LEMMA NeighborsFrom ==
    ASSUME NEW a \in Agents, Step(a), NEW r
    PROVE  /\ ~ Follow(a) \/ call[a].id # r =>
                 out_neighbors(r, "FOLLOWS")' = out_neighbors(r, "FOLLOWS")
           /\ ~ Produced(a) \/ run[a].id # r =>
                 out_neighbors(r, "PRODUCED")' = out_neighbors(r, "PRODUCED")
           /\ ~ Raised(a) \/ run[a].id # r =>
                 out_neighbors(r, "RAISED")' = out_neighbors(r, "RAISED")
<1>1. ASSUME NEW label, NEW from, NEW to, NEW l, write_edge(from, l, to),
             from # r \/ l # label
      PROVE  out_neighbors(r, label)' = out_neighbors(r, label)
    BY <1>1 DEF out_neighbors, write_edge
<1>2. edges' = edges => \A label : out_neighbors(r, label)' = out_neighbors(r, label)
    BY DEF out_neighbors
<1>3. CASE Follow(a)
    BY <1>1, <1>3 DEF Follow, Produced, Raised, At
<1>4. CASE Produced(a)
    BY <1>1, <1>4 DEF Follow, Produced, Raised, At
<1>5. CASE Raised(a)
    BY <1>1, <1>5 DEF Follow, Produced, Raised, At
<1>6. CASE PartOf(a)
    BY <1>1, <1>6 DEF PartOf
<1>7. CASE Carry(a)
    BY <1>1, <1>7 DEF Carry
<1>8. CASE Answers(a)
    BY <1>1, <1>8 DEF Answers
<1>9. CASE Summarizes(a)
    BY <1>1, <1>9 DEF Summarizes
<1> QED
    BY <1>2, <1>3, <1>4, <1>5, <1>6, <1>7, <1>8, <1>9, EdgesSame

(* What a run has produced and raised is settled once its end has begun.    *)
LEMMA EndedFixed ==
    ASSUME TypeOK, Ids, NEW a \in Agents, Step(a), NEW r \in Nat, Ended(r)
    PROVE  Findings(r)' = Findings(r) /\ Questions(r)' = Questions(r)
<1>1. Produced(a) \/ Raised(a) => Holds(a, run[a].id) /\ run[a].id \in Nat
    BY DEF Produced, Raised, At, Holds, Ids, Refers, RefersItem, FindingPcs,
           QuestionPcs, TypeOK, RunHandle, NoRun
<1>2. Produced(a) \/ Raised(a) => run[a].id # r
    BY <1>1 DEF Ids, Owned
<1> QED
    BY <1>2, NeighborsFrom DEF Findings, Questions

(* A finding or question is listed if its entry is in the index.            *)
ListsIt(i) ==
    \/ /\ nodes[i].label = "finding"
       /\ nodes[i].entity # None => <<nodes[i].entity, i>> \in index["finding:entity_id"]
    \/ nodes[i].label = "open_question" /\ (IsOpen(i) => IsListed(i))

LEMMA ListingNext ==
    ASSUME NEW i, ListsIt(i)'
    PROVE  Listed(i)'
<1>1. ASSUME NEW name, NEW key, <<key, i>> \in index'[name]
      PROVE  i \in {p[2] : p \in {q \in index'[name] : q[1] = key}}
    <2>1. <<key, i>> \in {q \in index'[name] : q[1] = key} /\ i = <<key, i>>[2]
        BY <1>1
    <2> QED
        BY <2>1
<1>2. CASE nodes'[i].label = "finding"
    <2>1. nodes'[i].entity # None =>
             i \in ids_from_index("finding:entity_id", nodes[i].entity)'
        BY <1>1, <1>2 DEF ListsIt, ids_from_index
    <2> QED
        BY <1>2, <2>1 DEF Listed
<1>3. CASE nodes'[i].label = "open_question"
    <2>1. IsOpen(i)' => i \in ids_from_index("question:status", "open")'
        BY <1>1, <1>3 DEF ListsIt, IsListed, ids_from_index
    <2> QED
        BY <1>3, <2>1 DEF Listed
<1> QED
    BY <1>2, <1>3 DEF ListsIt

LEMMA ListedItem ==
    ASSUME TypeOK, NEW i \in Labelled("finding") \cup Labelled("open_question"), Listed(i)
    PROVE  ListsIt(i)
<1>1. CASE nodes[i].label = "finding"
    BY <1>1, EntriesTyped DEF Listed, ListsIt, TypeOK, Indices
<1>2. CASE nodes[i].label = "open_question"
    BY <1>2, EntriesTyped DEF Listed, ListsIt, IsListed, TypeOK, Indices
<1> QED
    BY <1>1, <1>2 DEF Labelled

(* What is listed stays so.                                                 *)
LEMMA ListedKept ==
    ASSUME TypeOK, Kept,
           NEW i \in Labelled("finding") \cup Labelled("open_question"), Listed(i)
    PROVE  /\ i \in (Labelled("finding") \cup Labelled("open_question"))'
           /\ Listed(i)'
<1>1. i \in DOMAIN nodes /\ NodeKept(i) /\ i \in DOMAIN nodes'
    BY DEF Labelled, Kept, NodeKept
<1>2. i \in (Labelled("finding") \cup Labelled("open_question"))'
    BY LabelKept
<1>3. CASE nodes[i].label = "finding"
    <2>1. nodes'[i] = nodes[i]
        BY <1>1, <1>3 DEF NodeKept
    <2>2. index["finding:entity_id"] \subseteq index'["finding:entity_id"]
        BY DEF Kept, Indices
    <2>3. nodes[i].entity # None => <<nodes[i].entity, i>> \in index["finding:entity_id"]
        BY <1>3, ListedItem DEF ListsIt
    <2>4. nodes'[i].entity # None => <<nodes'[i].entity, i>> \in index'["finding:entity_id"]
        BY <2>1, <2>2, <2>3
    <2>5. Listed(i)'
        BY <1>3, <2>1, <2>4, ListingNext DEF ListsIt
    <2> QED
        BY <1>2, <2>5
<1>4. CASE nodes[i].label = "open_question"
    <2>1. nodes'[i].label = "open_question"
        BY <1>1, <1>4 DEF NodeKept
    <2>2. IsOpen(i) => IsListed(i)
        BY <1>4, ListedItem DEF ListsIt
    <2>3. IsOpen(i)' => IsListed(i)'
        BY <1>1, <1>4, <2>2 DEF NodeKept, IsOpen
    <2>4. Listed(i)'
        BY <2>1, <2>3, ListingNext DEF ListsIt, IsOpen, IsListed
    <2> QED
        BY <1>2, <2>4
<1> QED
    BY <1>3, <1>4 DEF Labelled

(* The four steps that end record_finding and raise_question.               *)
LEMMA AckedFrom ==
    ASSUME NEW a \in Agents, Step(a)
    PROVE  \/ acked' = acked
           \/ /\ Produced(a) /\ call[a].entity = None
              /\ acked' = acked \cup {<<run[a].id, "PRODUCED", call[a].id>>}
           \/ /\ IndexEntity(a)
              /\ acked' = acked \cup {<<run[a].id, "PRODUCED", call[a].id>>}
           \/ /\ Raised(a)
              /\ acked' = acked \cup {<<run[a].id, "RAISED", call[a].id>>}
<1> USE DEF observed
<1>1. CASE ThreadStep(a)
    BY <1>1 DEF ThreadStep, FindThread, MissThread, CreateThread
<1>2. CASE StartStep(a)
    BY <1>2 DEF StartStep, StartRun, WriteRun, ListRuns, ReadRun, Follow, PartOf,
       ListQuestions, ReadQuestion, Carry
<1>3. CASE RunStep(a)
    <2>1. CASE Produced(a) \/ IndexEntity(a) \/ Raised(a)
        BY <2>1 DEF Produced, IndexEntity, Raised, Acknowledge
    <2> QED
        BY <1>3, <2>1 DEF RunStep, record_finding, WriteFinding, raise_question,
           WriteQuestion, IndexStatus, answer_question, Resolve, Unlist, Answers
<1>4. CASE EndStep(a)
    BY <1>4 DEF EndStep, complete, CountQuestions, WriteSummary, Summarizes,
       ReadStatus, interrupt, EndRun
<1>5. CASE RecallStep(a)
    BY <1>5 DEF RecallStep, recall, RecallFindings, RecallQuestions, RecallQuestion
<1>6. CASE Fail(a) \/ Kill(a)
    BY <1>6 DEF Fail, Kill
<1> QED
    BY <1>1, <1>2, <1>3, <1>4, <1>5, <1>6 DEF Step

LEMMA NextItems ==
    ASSUME TypeOK, Ids, AckedInv, NEW a \in Agents, Step(a)
    PROVE  AckedItems'
<1>0. Kept
    BY StepKeeps
<1>1. ASSUME NEW e \in acked
      PROVE  /\ e \in edges'
             /\ e[3] \in (Labelled("finding") \cup Labelled("open_question"))'
             /\ Listed(e[3])'
    <2>1. /\ e \in edges /\ e[3] \in Labelled("finding") \cup Labelled("open_question")
          /\ Listed(e[3])
        BY DEF AckedInv, AckedItems
    <2> DEFINE i == e[3]
    <2> HIDE DEF i
    <2>2. /\ i \in (Labelled("finding") \cup Labelled("open_question"))'
          /\ Listed(i)'
        BY <1>0, <2>1, ListedKept DEF i
    <2> QED
        BY <1>0, <2>1, <2>2 DEF Kept, i
<1>2. ASSUME NEW r, NEW label, NEW i, <<r, label, i>> \in edges',
             i \in (Labelled("finding") \cup Labelled("open_question"))', ListsIt(i)',
             acked' = acked \cup {<<r, label, i>>}
      PROVE  AckedItems'
    BY <1>1, <1>2, ListingNext DEF AckedItems
<1>3. CASE acked' = acked
    BY <1>1, <1>3 DEF AckedItems
<1>4. CASE /\ Produced(a) /\ call[a].entity = None
           /\ acked' = acked \cup {<<run[a].id, "PRODUCED", call[a].id>>}
    <2>1. /\ <<run[a].id, "PRODUCED", call[a].id>> \in edges' /\ nodes' = nodes
          /\ call[a].pc = "produced"
        BY <1>4 DEF Produced, write_edge, At
    <2>2. call[a].id \in Labelled("finding") /\ nodes[call[a].id].entity = None
        BY <1>4, <2>1 DEF Ids, Refers, RefersItem, FindingPcs
    <2>3. /\ call[a].id \in (Labelled("finding") \cup Labelled("open_question"))'
          /\ nodes'[call[a].id].label = "finding" /\ nodes'[call[a].id].entity = None
        BY <2>1, <2>2 DEF Labelled
    <2>0. PICK i : i = call[a].id
        OBVIOUS
    <2>4. ListsIt(i)'
        BY <2>0, <2>3 DEF ListsIt
    <2> QED
        BY <1>2, <1>4, <2>0, <2>1, <2>3, <2>4
<1>5. CASE /\ IndexEntity(a)
           /\ acked' = acked \cup {<<run[a].id, "PRODUCED", call[a].id>>}
    <2>1. call[a].pc = "index_entity"
        BY <1>5 DEF IndexEntity, At
    <2>2. <<run[a].id, "PRODUCED", call[a].id>> \in edges'
        BY <1>0, <2>1 DEF AckedInv, Linked, At, Kept
    <2>3. /\ call[a].id \in Labelled("finding")
          /\ nodes[call[a].id].entity = call[a].entity
        BY <2>1 DEF Ids, Refers, RefersItem, FindingPcs
    <2>4. /\ nodes' = nodes
          /\ <<call[a].entity, call[a].id>> \in index'["finding:entity_id"]
        BY <1>5, IndexEntityEffect
    <2>5. /\ call[a].id \in (Labelled("finding") \cup Labelled("open_question"))'
          /\ nodes'[call[a].id].label = "finding"
          /\ nodes'[call[a].id].entity = call[a].entity
        BY <2>3, <2>4 DEF Labelled
    <2>0. PICK i : i = call[a].id
        OBVIOUS
    <2>6. ListsIt(i)'
        BY <2>0, <2>4, <2>5 DEF ListsIt
    <2> QED
        BY <1>2, <1>5, <2>0, <2>2, <2>5, <2>6
<1>6. CASE /\ Raised(a)
           /\ acked' = acked \cup {<<run[a].id, "RAISED", call[a].id>>}
    <2>1. /\ <<run[a].id, "RAISED", call[a].id>> \in edges' /\ nodes' = nodes
          /\ index' = index /\ call[a].pc = "raised"
        BY <1>6 DEF Raised, write_edge, At
    <2>0. PICK i : i = call[a].id
        OBVIOUS
    <2>2. i \in Labelled("open_question") /\ (IsOpen(i) => IsListed(i))
        BY <2>0, <2>1 DEF Ids, Refers, RefersItem, QuestionPcs, At
    <2>3. i \in (Labelled("finding") \cup Labelled("open_question"))'
        BY <2>1, <2>2 DEF Labelled
    <2>4. ListsIt(i)'
        BY <2>1, <2>2 DEF ListsIt, Labelled, IsOpen, IsListed
    <2> QED
        BY <1>2, <1>6, <2>0, <2>1, <2>3, <2>4
<1> QED
    BY <1>3, <1>4, <1>5, <1>6, AckedFrom

LEMMA NextLinked ==
    ASSUME TypeOK, Ids, AckedInv, NEW a \in Agents, Step(a)
    PROVE  Linked'
<1> SUFFICES ASSUME NEW b \in Agents, call'[b].pc = "index_entity"
             PROVE  <<run'[b].id, "PRODUCED", call'[b].id>> \in edges'
    BY DEF Linked, At
<1>1. CASE b # a
    BY <1>1, OthersWait, StepKeeps DEF Others, AckedInv, Linked, At, Kept
<1>2. CASE b = a
    <2>0. RunStep(a)
        BY <1>2, Whose DEF FindingPcs
    <2>1. Produced(a)
        <3>1. ~ (record_finding(a) \/ raise_question(a) \/ answer_question(a))
            BY <1>2, Asks
        <3>2. ~ WriteFinding(a)
            BY <1>2, GotoFinding DEF WriteFinding, At, FindingPcs
        <3>3. ~ (WriteQuestion(a) \/ IndexStatus(a))
            BY <1>2, GotoQuestion DEF WriteQuestion, IndexStatus, At, QuestionPcs
        <3>4. ~ (Resolve(a) \/ Unlist(a))
            BY <1>2, GotoAnswer DEF Resolve, Unlist, At, AnswerPcs
        <3>5. ~ (IndexEntity(a) \/ Raised(a) \/ Answers(a))
            BY <1>2, Returns DEF IndexEntity, Raised, Answers, Idle, TypeOK
        <3> QED
            BY <2>0, <3>1, <3>2, <3>3, <3>4, <3>5 DEF RunStep
    <2>2. Goto(a, "index_entity")
        BY <1>2, <2>1, Returns DEF Produced, Idle, TypeOK
    <2>3. call'[a].id = call[a].id /\ run' = run
        BY <2>1, <2>2, GotoFinding DEF Produced, At, FindingPcs, handles
    <2> QED
        BY <1>2, <2>1, <2>3 DEF Produced, write_edge
<1> QED
    BY <1>1, <1>2

(* Where the counts of a summary are taken.                                 *)
LEMMA CountingFrom ==
    ASSUME TypeOK, Ids, NEW a \in Agents, Step(a)
    PROVE  /\ call'[a].pc = "count_questions" => complete(a)
           /\ call'[a].pc = "write_summary" => CountQuestions(a)
<1>1. call'[a].pc \in {"count_questions", "write_summary"} => EndStep(a)
    BY Whose DEF EndPcs, SummaryPcs
<1>2. Summarizes(a) => call'[a].pc = "read_status"
    BY DEF Summarizes, Become, TypeOK
<1>3. ReadStatus(a) \/ interrupt(a) => call'[a].pc = "end_run"
    BY DEF ReadStatus, interrupt, Become, TypeOK
<1>4. WriteSummary(a) => call'[a].pc = "summarizes"
    BY GotoSummary DEF WriteSummary, At, SummaryPcs
<1>5. EndRun(a) => call'[a].pc = "idle"
    BY Returns DEF EndRun, Idle, TypeOK
<1>6. complete(a) => call'[a].pc = "count_questions"
    BY DEF complete, Become, TypeOK
<1>7. CountQuestions(a) => call'[a].pc = "write_summary"
    BY DEF CountQuestions, Become, TypeOK
<1> QED
    BY <1>1, <1>2, <1>3, <1>4, <1>5, <1>6, <1>7 DEF EndStep

LEMMA EndedTyped ==
    ASSUME TypeOK, Ids, NEW b \in Agents, Ending(b)
    PROVE  call[b].run \in Nat /\ Ended(call[b].run)
<1>1. call[b].run \in DOMAIN nodes
    BY DEF Ids, Refers, RefersRun, Labelled
<1> QED
    BY <1>1, NodeTypes DEF TypeOK, Ended

LEMMA NextCounts ==
    ASSUME TypeOK, Ids, CountsInv, NEW a \in Agents, Step(a)
    PROVE  CountsInv'
<1> SUFFICES ASSUME NEW b \in Agents
             PROVE  /\ At(b, "count_questions")' =>
                          call'[b].findings = Findings(call[b].run)'
                    /\ At(b, "write_summary")' =>
                          /\ call'[b].node.finding_count = Findings(call[b].run)'
                          /\ call'[b].node.question_count = Questions(call[b].run)'
    BY DEF CountsInv
<1>1. CASE b # a /\ Ending(b)
    <2>0. PICK r : r = call[b].run
        OBVIOUS
    <2>1. call'[b] = call[b]
        BY <1>1, OthersWait DEF Others
    <2>2. Findings(r)' = Findings(r) /\ Questions(r)' = Questions(r)
        BY <1>1, <2>0, EndedTyped, EndedFixed
    <2>3. /\ Findings(call[b].run)' = Findings(r)
          /\ Questions(call[b].run)' = Questions(r)
        BY <2>0, <2>1, <2>2 DEF Findings, Questions, out_neighbors
    <2> QED
        BY <2>0, <2>1, <2>3 DEF CountsInv, At
<1>2. CASE b # a /\ ~ Ending(b)
    BY <1>2, OthersWait DEF Others, Ending, At, EndPcs, SummaryPcs
<1>3. CASE b = a /\ complete(a)
    <2>1. /\ call'[a].pc = "count_questions" /\ call'[a].run = run[a].id
          /\ call'[a].findings = Findings(run[a].id) /\ edges' = edges
        BY <1>3 DEF complete, Become, TypeOK, store, Findings
    <2>2. Findings(call[a].run)' = Findings(run[a].id)
        BY <2>1 DEF Findings, out_neighbors
    <2> QED
        BY <1>3, <2>1, <2>2 DEF At
<1>4. CASE b = a /\ CountQuestions(a)
    <2>1. /\ call'[a].pc = "write_summary" /\ call'[a].run = call[a].run
          /\ call'[a].node.finding_count = call[a].findings
          /\ call'[a].node.question_count = Questions(call[a].run)
          /\ edges' = edges
        BY <1>4 DEF CountQuestions, Become, TypeOK, store, Questions, Summary
    <2>2. call[a].findings = Findings(call[a].run)
        BY <1>4 DEF CountQuestions, CountsInv
    <2>3. /\ Findings(call[a].run)' = Findings(call[a].run)
          /\ Questions(call[a].run)' = Questions(call[a].run)
        BY <2>1 DEF Findings, Questions, out_neighbors
    <2> QED
        BY <1>4, <2>1, <2>2, <2>3 DEF At
<1> QED
    BY <1>1, <1>2, <1>3, <1>4, CountingFrom DEF At

LEMMA CountedBy ==
    ASSUME NEW s
    PROVE  Counted(s) <=> /\ nodes[s].finding_count = Findings(nodes[s].run)
                          /\ nodes[s].question_count = Questions(nodes[s].run)
BY DEF Counted, Findings, Questions

LEMMA NextCounted ==
    ASSUME TypeOK, Ids, AckedInv, NEW a \in Agents, Step(a),
           NEW s \in Labelled("run_summary")'
    PROVE  Counted(s)'
<1>0. ASSUME NEW r, nodes'[s].run = r,
             nodes'[s].finding_count = Findings(r)',
             nodes'[s].question_count = Questions(r)'
      PROVE  Counted(s)'
    BY <1>0 DEF Counted, Findings, Questions, out_neighbors
<1>1. CASE s \in Labelled("run_summary")
    <2>0. PICK r : r = nodes[s].run
        OBVIOUS
    <2>1. nodes'[s] = nodes[s]
        BY <1>1, StepKeeps DEF Kept, NodeKept, Labelled
    <2>2. r \in Nat /\ Ended(r)
        BY <1>1, <2>0, NodeTypes DEF Labelled, TypeOK, SummaryNode, Ended
    <2>3. Findings(r)' = Findings(r) /\ Questions(r)' = Questions(r)
        BY <2>2, EndedFixed
    <2>4. Counted(s)
        BY <1>1 DEF AckedInv
    <2> QED
        BY <1>0, <2>0, <2>1, <2>3, <2>4, CountedBy
<1>2. CASE s \notin Labelled("run_summary")
    <2>0. PICK r : r = call[a].run
        OBVIOUS
    <2>1. WriteSummary(a) /\ s = call[a].id
        BY <1>2, LabelledFrom
    <2>2. nodes'[s] = call[a].node /\ edges' = edges
        BY <2>1, WriteSummaryEffect DEF Writes
    <2>3. /\ call[a].node.run = r
          /\ call[a].node.finding_count = Findings(r)
          /\ call[a].node.question_count = Questions(r)
        BY <2>0, <2>1 DEF WriteSummary, AckedInv, CountsInv, Ids, Owned
    <2>4. Findings(r)' = Findings(r) /\ Questions(r)' = Questions(r)
        BY <2>2 DEF Findings, Questions, out_neighbors
    <2> QED
        BY <1>0, <2>2, <2>3, <2>4
<1> QED
    BY <1>1, <1>2

(* A finding or question whose call returned Ok is never lost to a reader:  *)
(* its edge stays, its entry by entity stays, its entry among the open      *)
(* questions stays until it is resolved; and a summary counts all that its  *)
(* run ever recorded, for no call can add to a run whose end has begun.     *)
THEOREM AcknowledgedFound ==
    Spec => []AcknowledgedKept
<1>1. Init => AckedInv
    BY DEF Init, AckedInv, AckedItems, Linked, CountsInv, Labelled, At, Idle
<1>2. TypeOK /\ Ids /\ AckedInv /\ [Next]_vars => AckedInv'
    <2>1. ASSUME AckedInv, vars' = vars PROVE AckedInv'
        <3> USE <2>1, Stutters
        <3>1. AckedItems'
            BY DEF AckedInv, AckedItems, Labelled, Listed, IsOpen, ids_from_index
        <3>2. Linked' /\ CountsInv'
            <4>1. \A r : Findings(r)' = Findings(r) /\ Questions(r)' = Questions(r)
                BY DEF Findings, Questions, out_neighbors
            <4>2. Linked'
                BY DEF AckedInv, Linked, At
            <4>3. CountsInv'
                BY <4>1 DEF AckedInv, CountsInv, At
            <4> QED
                BY <4>2, <4>3
        <3>3. ASSUME NEW s \in Labelled("run_summary")' PROVE Counted(s)'
            <4>1. s \in Labelled("run_summary")
                BY <3>3 DEF Labelled
            <4>2. Counted(s)
                BY <4>1 DEF AckedInv
            <4> QED
                BY <4>2 DEF Counted, out_neighbors
        <3> QED
            BY <3>1, <3>2, <3>3 DEF AckedInv
    <2>2. ASSUME TypeOK, Ids, AckedInv, NEW a \in Agents, Step(a) PROVE AckedInv'
        <3>1. CountsInv
            BY <2>2 DEF AckedInv
        <3> QED
            BY <2>2, <3>1, NextItems, NextLinked, NextCounts, NextCounted DEF AckedInv
    <2> QED
        BY <2>1, <2>2, StepOrStutter
<1>3. AckedInv => AcknowledgedKept
    BY DEF AckedInv, AckedItems, AcknowledgedKept
<1> QED
    BY <1>1, <1>2, <1>3, TypeCorrect, PTL DEF Spec

-----------------------------------------------------------------------------
(* The runs of a thread form chains.                                        *)

LEMMA OverKept ==
    ASSUME Kept, NEW r, Over(r)
    PROVE  Over(r)'
BY DEF Over, Kept, NodeKept, Labelled

(* A run that was taken for the previous one is over.                       *)
LEMMA ReadSteps ==
    ASSUME TypeOK, Ids, ChainInv, NEW a \in Agents, ListRuns(a) \/ ReadRun(a)
    PROVE  \E todo, prev :
               /\ ReadRest(a, call[a], todo, prev)
               /\ todo \subseteq Labelled("agent_run")
               /\ prev # 0 => Over(prev)
<1>1. CASE ListRuns(a)
    <2> DEFINE todo == ids_from_index("run:thread_id", call[a].thread) \ {call[a].id}
    <2>1. \A i \in todo : <<call[a].thread, i>> \in index["run:thread_id"]
        BY EntriesTyped DEF TypeOK, Indices
    <2>2. ASSUME NEW i \in todo PROVE i \in Labelled("agent_run")
        <3>1. <<call[a].thread, i>> \in index["run:thread_id"]
            BY <2>1
        <3>2. <<call[a].thread, i>>[2] \in Labelled("agent_run")
            BY <3>1 DEF ChainInv
        <3> QED
            BY <3>2
    <2>3. ReadRest(a, call[a], todo, 0)
        BY <1>1 DEF ListRuns
    <2> HIDE DEF todo
    <2> QED
        BY <2>2, <2>3
<1>2. CASE ReadRun(a)
    <2> DEFINE r == Min(call[a].todo)
               read == IF IsPrev(r) THEN r ELSE call[a].prev
    <2>0. call[a].pc = "read_run" /\ Starting(a)
        BY <1>2 DEF ReadRun, At, Starting, StartPcs
    <2>1. /\ call[a].todo \subseteq Labelled("agent_run")
          /\ call[a].prev # 0 => Over(call[a].prev)
        BY <2>0 DEF ChainInv, At
    <2>2. call[a].todo # {} /\ call[a].todo \in SUBSET Nat
        BY <2>0, Kinds DEF Ids, Refers, RefersRun, TypeOK, StartPcs, StartCall
    <2>3. r \in Labelled("agent_run")
        BY <2>1, <2>2, MinIsMember, <2>0 DEF ChainInv, At
    <2>4. IsPrev(r) => Over(r)
        BY <2>3 DEF IsPrev, Over
    <2>5. read # 0 => Over(read)
        BY <2>1, <2>4
    <2>6. \E prev \in {read, call[a].prev} :
              ReadRest(a, call[a], call[a].todo \ {r}, prev)
        BY <1>2 DEF ReadRun
    <2>7. call[a].todo \ {r} \subseteq Labelled("agent_run")
        BY <2>0 DEF ChainInv, At
    <2> HIDE DEF r, read
    <2> QED
        BY <2>1, <2>5, <2>6, <2>7
<1> QED
    BY <1>1, <1>2

LEMMA NextEdges ==
    ASSUME TypeOK, Ids, ChainInv, NEW a \in Agents, Step(a),
           NEW e \in edges', e[2] = "FOLLOWS"
    PROVE  e[1] \in Labelled("agent_run")' /\ Over(e[3])'
<1>0. Kept
    BY StepKeeps
<1>1. CASE e \in edges
    <2>1. e[1] \in Labelled("agent_run") /\ Over(e[3])
        BY <1>1 DEF ChainInv
    <2>2. PICK r, s : r = e[1] /\ s = e[3]
        OBVIOUS
    <2> QED
        BY <1>0, <2>1, <2>2, LabelKept, OverKept
<1>2. CASE e \notin edges
    <2>1. Follow(a) /\ e = <<call[a].id, "FOLLOWS", call[a].prev>>
        <3>1. ASSUME NEW from, NEW to, NEW label, write_edge(from, label, to)
              PROVE  label = "FOLLOWS" /\ e = <<from, "FOLLOWS", to>>
            BY <1>2, <3>1 DEF write_edge
        <3>2. CASE Follow(a)
            BY <3>1, <3>2 DEF Follow
        <3>3. CASE PartOf(a) \/ Carry(a) \/ Produced(a)
            BY <3>1, <3>3 DEF PartOf, Carry, Produced
        <3>4. CASE Raised(a) \/ Answers(a) \/ Summarizes(a)
            BY <3>1, <3>4 DEF Raised, Answers, Summarizes
        <3> QED
            BY <1>2, <3>2, <3>3, <3>4, EdgesSame
    <2>2. Started(a) /\ Starting(a) /\ At(a, "follow")
        BY <2>1 DEF Follow, At, Started, Starting, StartPcs
    <2>3. PICK r, s : r = call[a].id /\ s = call[a].prev
        OBVIOUS
    <2>4. r \in Labelled("agent_run") /\ Over(s)
        BY <2>2, <2>3 DEF ChainInv, Ids, Refers, RefersRun
    <2> QED
        BY <1>0, <2>1, <2>3, <2>4, LabelKept, OverKept
<1> QED
    BY <1>1, <1>2

LEMMA NextEntries ==
    ASSUME TypeOK, Ids, ChainInv, NEW a \in Agents, Step(a),
           NEW p \in index'["run:thread_id"]
    PROVE  p[2] \in Labelled("agent_run")'
<1>1. CASE p \in index["run:thread_id"]
    <2>1. PICK r : r = p[2] /\ r \in Labelled("agent_run")
        BY <1>1 DEF ChainInv
    <2> QED
        BY <2>1, StepKeeps, LabelKept
<1>2. CASE p \notin index["run:thread_id"]
    <2>1. WriteRun(a)
        BY <1>2, IndexSame, WriteFindingEffect, WriteQuestionEffect,
           WriteSummaryEffect, IndexEntityEffect, IndexStatusEffect, UnlistEffect
        DEF Enters, Indices
    <2>2. p[2] = call[a].id
        BY <1>2, <2>1, WriteRunEffect DEF Enters
    <2>3. call[a].id \in DOMAIN nodes' /\ nodes'[call[a].id] = Run(call[a].thread)
        BY <2>1, WriteRunEffect DEF Writes, WritesNew
    <2> QED
        BY <2>2, <2>3 DEF Labelled, Run
<1> QED
    BY <1>1, <1>2

(* A run is running as long as start_run works on it.                       *)
LEMMA NextRunning ==
    ASSUME TypeOK, Ids, ChainInv, NEW a \in Agents, Step(a),
           NEW b \in Agents, Started(b)'
    PROVE  nodes'[call'[b].id].status = "running"
<1>1. CASE b = a /\ WriteRun(a)
    <2>1. call'[a].id = call[a].id
        BY <1>1, GotoStart DEF WriteRun, At, StartPcs, SameStart
    <2>2. nodes'[call[a].id] = Run(call[a].thread)
        BY <1>1, WriteRunEffect DEF Writes
    <2> QED
        BY <1>1, <2>1, <2>2 DEF Run
<1>2. CASE ~ (b = a /\ WriteRun(a))
    <2>1. Started(b) /\ call'[b].id = call[b].id
        <3>1. CASE b # a
            BY <3>1, OthersWait DEF Others, Started
        <3>2. CASE b = a
            <4>1. StartStep(a)
                BY <3>2, NotStarting DEF Started, Starting
            <4>2. ~ StartRun(a)
                <5>1. StartRun(a) => call'[a].pc = "write_run"
                    BY DEF StartRun, Become, TypeOK
                <5> QED
                    BY <3>2, <5>1 DEF Started
            <4>3. ~ HandsOver(a)
                BY <3>2 DEF HandsOver, Idle, Started, StartPcs
            <4> QED
                BY <1>2, <3>2, <4>1, <4>2, <4>3, StartMoves DEF GoesOn, SameStart
        <3> QED
            BY <3>1, <3>2
    <2>2. PICK r : r = call[b].id
        OBVIOUS
    <2>3. r \in Labelled("agent_run") /\ nodes[r].status = "running"
        BY <2>1, <2>2 DEF ChainInv, Ids, Refers, RefersRun, Starting, Started
    <2>4. Holds(b, r) /\ r \in Nat
        BY <2>1, <2>2, <2>3, NodeTypes DEF Holds, Starting, Started, Labelled, TypeOK
    <2>5. nodes'[r].status = "running"
        <3>1. CASE EndRun(a)
            <4>1. Ended(call[a].run) /\ Rewrites(call[a].run, call[a].copy)
                BY <3>1, EndRunEffect DEF Ended
            <4>2. r # call[a].run
                BY <2>4, <4>1 DEF Ids, Owned
            <4> QED
                BY <2>3, <4>1, <4>2 DEF Rewrites, Labelled
        <3>2. CASE Resolve(a)
            BY <2>3, <3>2, ResolveEffect DEF Rewrites, Labelled
        <3>3. CASE WritesNew(a)
            BY <2>3, <3>3 DEF WritesNew, Labelled
        <3> QED
            BY <2>3, <3>1, <3>2, <3>3, NodesSame, CreateThreadEffect, WriteRunEffect,
               WriteFindingEffect, WriteQuestionEffect, WriteSummaryEffect DEF Writes
    <2> QED
        BY <2>1, <2>2, <2>5
<1> QED
    BY <1>1, <1>2

(* What a call of start_run has read of the earlier runs.                   *)
ReadPart(a) ==
    /\ At(a, "read_run") => call[a].todo \subseteq Labelled("agent_run")
    /\ call[a].prev # 0 => Over(call[a].prev)
    /\ At(a, "follow") => call[a].prev # 0

LEMMA NextRead ==
    ASSUME TypeOK, Ids, ChainInv, NEW a \in Agents, Step(a),
           NEW b \in Agents, Starting(b)'
    PROVE  ReadPart(b)'
<1>0. Kept
    BY StepKeeps
<1>a. ASSUME NEW todo, NEW prev, call'[b].todo = todo, call'[b].prev = prev,
             call'[b].pc = "read_run" => todo \subseteq Labelled("agent_run"),
             prev # 0 => Over(prev), call'[b].pc = "follow" => prev # 0
      PROVE  ReadPart(b)'
    <2>1. todo \subseteq Labelled("agent_run") => todo \subseteq Labelled("agent_run")'
        BY <1>0, LabelKept
    <2>2. prev # 0 => Over(prev)'
        BY <1>0, <1>a, OverKept
    <2> QED
        BY <1>a, <2>1, <2>2 DEF ReadPart, At, Over, Labelled
<1>1. CASE b # a
    <2>1. call'[b] = call[b] /\ Starting(b)
        BY <1>1, OthersWait DEF Others, Starting
    <2> QED
        BY <1>a, <2>1 DEF ChainInv, At
<1>2. CASE b = a /\ (ListRuns(a) \/ ReadRun(a))
    <2>1. PICK todo, prev : /\ ReadRest(a, call[a], todo, prev)
                            /\ todo \subseteq Labelled("agent_run")
                            /\ prev # 0 => Over(prev)
        BY <1>2, ReadSteps
    <2>2. call[a].pc \in StartPcs
        BY <1>2 DEF ListRuns, ReadRun, At, StartPcs
    <2>3. /\ call'[a].todo = todo /\ call'[a].prev = prev
          /\ call'[a].pc = "follow" => prev # 0
        BY ZenonT(60), <2>1, <2>2, ReadRestEffect
    <2> QED
        BY <1>a, <1>2, <2>1, <2>3
<1>3. CASE b = a /\ (WriteRun(a) \/ Follow(a) \/ PartOf(a))
    <2>1. /\ call[a].pc \in StartPcs /\ call'[a].prev = call[a].prev
          /\ call'[a].pc \notin {"read_run", "follow"}
        BY <1>3, GotoStart DEF WriteRun, Follow, PartOf, At, StartPcs
    <2>2. call[a].prev # 0 => Over(call[a].prev)
        BY <2>1 DEF ChainInv, Starting
    <2> QED
        BY <1>a, <1>3, <2>1, <2>2
<1>4. CASE b = a /\ (ListQuestions(a) \/ ReadQuestion(a) \/ Carry(a))
    <2>1. call[a].pc \in StartPcs
        BY <1>4 DEF ListQuestions, ReadQuestion, Carry, At, StartPcs
    <2>2. Goto(a, "carry") \/ \E todo : CarryRest(a, call[a], todo)
        BY <1>4 DEF ListQuestions, ReadQuestion, Carry
    <2>3. /\ call'[a].prev = call[a].prev
          /\ call'[a].pc \in {"carry", "read_question"}
        <3>1. CASE Goto(a, "carry")
            BY <2>1, <3>1, GotoStart DEF StartPcs
        <3>2. ASSUME NEW todo, CarryRest(a, call[a], todo)
              PROVE  call'[a].pc = "read_question" /\ call'[a].prev = call[a].prev
            <4>1. call'[a] # Idle
                BY <1>4 DEF Idle, Starting, StartPcs
            <4>2. call'[a].pc = "read_question" /\ todo # {}
                BY <2>1, <3>2, <4>1, CarryRestEffect
            <4>3. call[a] \in StartCall
                BY <2>1, Kinds DEF TypeOK
            <4> QED
                BY ZenonT(60), <3>2, <4>2, <4>3 DEF CarryRest, Become, TypeOK, StartCall
        <3> QED
            BY <2>2, <3>1, <3>2
    <2>4. call[a].prev # 0 => Over(call[a].prev)
        BY <2>1 DEF ChainInv, Starting
    <2> QED
        BY <1>a, <1>4, <2>3, <2>4
<1>5. CASE b = a /\ StartRun(a)
    <2>1. call'[a].prev = 0 /\ call'[a].pc = "write_run"
        BY <1>5 DEF StartRun, Become, TypeOK
    <2> QED
        BY <1>a, <1>5, <2>1
<1>6. b = a => StartStep(a)
    BY NotStarting
<1> QED
    BY <1>1, <1>2, <1>3, <1>4, <1>5, <1>6 DEF StartStep

LEMMA NextChain ==
    ASSUME TypeOK, Ids, ChainInv, NEW a \in Agents, Step(a)
    PROVE  ChainInv'
<1>1. \A b \in Agents : Starting(b)' => ReadPart(b)'
    BY NextRead
<1>2. \A b \in Agents : Started(b)' => nodes'[call'[b].id].status = "running"
    BY NextRunning
<1>3. /\ \A e \in edges' : e[2] = "FOLLOWS" =>
             e[1] \in Labelled("agent_run")' /\ Over(e[3])'
      /\ \A p \in index'["run:thread_id"] : p[2] \in Labelled("agent_run")'
    BY NextEdges, NextEntries
<1> QED
    BY <1>1, <1>2, <1>3 DEF ChainInv, ReadPart, At, Over, Labelled, Starting, Started

LEMMA Following ==
    ASSUME ChainInv, NEW r, NEW s \in out_neighbors(r, "FOLLOWS")
    PROVE  r \in Labelled("agent_run") /\ Over(s)
BY DEF ChainInv, out_neighbors

(* The only run that can get something to follow is one that none follows.  *)
LEMMA NextFollows ==
    ASSUME TypeOK, Ids, FollowsInv, ChainInv', NEW a \in Agents, Step(a)
    PROVE  FollowsAcyclic'
<1> SUFFICES ASSUME NEW S \in SUBSET (Labelled("agent_run")'), S # {}
             PROVE  \E r \in S : out_neighbors(r, "FOLLOWS")' \cap S = {}
    BY DEF FollowsAcyclic
<1>0. PICK n : n = call[a].id
    OBVIOUS
<1>1. ASSUME NEW R \in SUBSET Labelled("agent_run"), R # {},
             \A r \in R : out_neighbors(r, "FOLLOWS")' = out_neighbors(r, "FOLLOWS")
      PROVE  \E r \in R : out_neighbors(r, "FOLLOWS")' \cap R = {}
    BY <1>1 DEF FollowsInv, FollowsAcyclic
<1>2. CASE Follow(a) \/ WriteRun(a)
    <2>1. n \in Labelled("agent_run")' /\ nodes'[n].status = "running"
        <3>1. call'[a].id = n /\ Started(a)'
            BY <1>0, <1>2, GotoStart
            DEF Follow, WriteRun, At, SameStart, Started, StartPcs
        <3> QED
            BY <1>2, <3>1, NextRunning, NextRefers DEF FollowsInv, Refers, RefersRun
    <2>2. \A r : n \notin out_neighbors(r, "FOLLOWS")'
        BY <2>1 DEF ChainInv, out_neighbors, Over
    <2>3. S \ {n} \subseteq Labelled("agent_run")
        BY <1>0, LabelledFrom
    <2>4. \A r \in S \ {n} :
              out_neighbors(r, "FOLLOWS")' = out_neighbors(r, "FOLLOWS")
        BY <1>0, NeighborsFrom
    <2>5. CASE S = {n}
        BY <2>2, <2>5
    <2>6. CASE S # {n}
        <3>1. PICK R : R = S \ {n}
            OBVIOUS
        <3>2. R \in SUBSET Labelled("agent_run") /\ R # {}
            BY <2>3, <2>6, <3>1
        <3>3. \A r \in R : out_neighbors(r, "FOLLOWS")' = out_neighbors(r, "FOLLOWS")
            BY <2>4, <3>1
        <3>4. PICK r \in R : out_neighbors(r, "FOLLOWS")' \cap R = {}
            BY <1>1, <3>2, <3>3
        <3> QED
            BY <2>2, <3>1, <3>4
    <2> QED
        BY <2>5, <2>6
<1>3. CASE ~ (Follow(a) \/ WriteRun(a))
    <2>1. S \subseteq Labelled("agent_run")
        BY <1>3, LabelledFrom
    <2> QED
        BY <1>1, <1>3, <2>1, NeighborsFrom
<1> QED
    BY <1>2, <1>3

(* The runs of a thread form chains, however many agents start and complete *)
(* them at the same time: what a run follows was over when it was chosen,   *)
(* and nothing follows a run before it is over.                             *)
THEOREM NoRunFollowsItself ==
    Spec => []FollowsAcyclic
<1>1. Init => FollowsInv
    BY DEF Init, FollowsInv, ChainInv, FollowsAcyclic, Labelled, Idle, Starting, StartPcs
<1>2. TypeOK /\ Ids /\ FollowsInv /\ [Next]_vars => FollowsInv'
    <2>1. ASSUME FollowsInv, vars' = vars PROVE FollowsInv'
        <3> USE <2>1, Stutters
        <3>1. ChainInv'
            BY DEF FollowsInv, ChainInv, Labelled, Over, Starting, Started, At
        <3>2. FollowsAcyclic'
            BY DEF FollowsInv, FollowsAcyclic, Labelled, out_neighbors
        <3> QED
            BY <3>1, <3>2 DEF FollowsInv
    <2>2. ASSUME TypeOK, Ids, FollowsInv, NEW a \in Agents, Step(a) PROVE FollowsInv'
        <3>1. ChainInv'
            BY <2>2, NextChain DEF FollowsInv
        <3> QED
            BY <2>2, <3>1, NextFollows DEF FollowsInv
    <2> QED
        BY <2>1, <2>2, StepOrStutter
<1>3. FollowsInv => FollowsAcyclic
    BY DEF FollowsInv
<1> QED
    BY <1>1, <1>2, <1>3, TypeCorrect, PTL DEF Spec

-----------------------------------------------------------------------------
(* The newest of a set.                                                     *)

Above(A, m) == {k \in A : k > m}

LEMMA AboveFinite ==
    ASSUME NEW A, IsFiniteSet(A), NEW m
    PROVE  IsFiniteSet(Above(A, m)) /\ Cardinality(Above(A, m)) \in Nat
BY FS_Subset, FS_CardinalityType DEF Above

LEMMA FewerAbove ==
    ASSUME NEW A \in SUBSET Nat, IsFiniteSet(A), NEW m \in A, NEW x \in A, x > m
    PROVE  Cardinality(Above(A, x)) < Cardinality(Above(A, m))
<1>1. Above(A, x) \subseteq Above(A, m)
    <2>1. ASSUME NEW k \in A, k > x PROVE k > m
        <3>1. k \in Nat /\ x \in Nat /\ m \in Nat
            OBVIOUS
        <3> QED
            BY <2>1, <3>1
    <2> QED
        BY <2>1 DEF Above
<1>2. x \in Above(A, m) /\ x \notin Above(A, x)
    BY DEF Above
<1>3. IsFiniteSet(Above(A, m)) /\ Cardinality(Above(A, m)) \in Nat
    BY AboveFinite
<1>4. IsFiniteSet(Above(A, x)) /\ Cardinality(Above(A, x)) \in Nat
    BY AboveFinite
<1>5. Cardinality(Above(A, x)) <= Cardinality(Above(A, m))
    BY <1>1, <1>3, FS_Subset
<1>6. Cardinality(Above(A, x)) # Cardinality(Above(A, m))
    BY <1>1, <1>2, <1>3, FS_Subset
<1> QED
    BY <1>3, <1>4, <1>5, <1>6

LEMMA LargestNumber ==
    ASSUME NEW A \in SUBSET Nat, IsFiniteSet(A), A # {}
    PROVE  \E m \in A : \A x \in A : x <= m
<1> DEFINE Counts == {Cardinality(Above(A, m)) : m \in A}
<1>1. Counts \in SUBSET Nat /\ Counts # {}
    BY AboveFinite
<1>2. PICK n \in Counts : \A k \in Counts : n <= k
    <2> HIDE DEF Counts
    <2> QED
        BY <1>1, LeastNumber
<1>3. PICK m \in A : n = Cardinality(Above(A, m))
    BY <1>2
<1>4. ASSUME NEW x \in A, x > m PROVE FALSE
    <2>1. Cardinality(Above(A, x)) < Cardinality(Above(A, m))
        BY <1>4, FewerAbove
    <2>2. Cardinality(Above(A, m)) <= Cardinality(Above(A, x))
        BY <1>2, <1>3
    <2>3. Cardinality(Above(A, x)) \in Nat /\ Cardinality(Above(A, m)) \in Nat
        BY AboveFinite
    <2> QED
        BY <2>1, <2>2, <2>3
<1> QED
    BY <1>4

LEMMA NewestAre ==
    ASSUME NEW A, NEW n
    PROVE  Newest(A, n) = {i \in A : Cardinality(Above(A, i)) < n}
BY DEF Newest, Above

(* One more makes room for the largest of those that were left out.         *)
LEMMA NewestGrow ==
    ASSUME NEW A \in SUBSET Nat, IsFiniteSet(A), NEW n \in Nat,
           n < Cardinality(A), Cardinality(Newest(A, n)) = n
    PROVE  Cardinality(Newest(A, n + 1)) = n + 1
<1> DEFINE N == Newest(A, n)
<1>1. N \subseteq A /\ IsFiniteSet(N)
    BY NewestAre, FS_Subset
<1>2. A \ N # {} /\ IsFiniteSet(A \ N) /\ A \ N \in SUBSET Nat
    <2>1. IsFiniteSet(A \ N)
        BY FS_Subset
    <2>2. N # A
        BY FS_CardinalityType
    <2> QED
        BY <1>1, <2>1, <2>2
<1>3. PICK m \in A \ N : \A x \in A \ N : x <= m
    BY <1>2, LargestNumber
<1>4. Above(A, m) = N
    <2>1. ASSUME NEW j \in A, j > m PROVE j \in N
        BY <1>2, <1>3, <2>1
    <2>2. ASSUME NEW j \in N PROVE j > m
        <3>1. j \in A /\ j # m /\ j \in Nat /\ m \in Nat
            BY <1>1, <1>3
        <3>2. Cardinality(Above(A, j)) < n
            BY <2>2, NewestAre
        <3>3. ~ (Cardinality(Above(A, m)) < n)
            BY <1>3, NewestAre
        <3>4. m > j => Cardinality(Above(A, m)) < Cardinality(Above(A, j))
            BY <1>3, <3>1, FewerAbove
        <3>5. Cardinality(Above(A, m)) \in Nat /\ Cardinality(Above(A, j)) \in Nat
            BY AboveFinite
        <3> QED
            BY <3>1, <3>2, <3>3, <3>4, <3>5
    <2> QED
        BY <1>1, <2>1, <2>2 DEF Above
<1>5. Newest(A, n + 1) = N \cup {m}
    <2>1. ASSUME NEW x \in A PROVE x \in Newest(A, n + 1) <=> x \in N \cup {m}
        <3>0. Cardinality(Above(A, x)) \in Nat
            BY AboveFinite
        <3>1. x \in Newest(A, n + 1) <=> Cardinality(Above(A, x)) < n + 1
            BY NewestAre
        <3>2. x \in N <=> Cardinality(Above(A, x)) < n
            BY NewestAre
        <3>3. x = m => Cardinality(Above(A, x)) = n
            BY <1>4
        <3>4. x < m => n < Cardinality(Above(A, x))
            <4>1. x < m => Cardinality(Above(A, m)) < Cardinality(Above(A, x))
                BY <1>3, FewerAbove
            <4> QED
                BY <1>4, <4>1
        <3>5. x > m => x \in N
            BY <1>2, <1>3
        <3>6. x \in Nat /\ m \in Nat
            BY <1>3
        <3> HIDE DEF N
        <3> QED
            BY <3>0, <3>1, <3>2, <3>3, <3>4, <3>5, <3>6
    <2>2. Newest(A, n + 1) \subseteq A /\ N \cup {m} \subseteq A
        BY <1>1, <1>3, NewestAre
    <2> HIDE DEF N
    <2> QED
        BY <2>1, <2>2
<1>6. Cardinality(N \cup {m}) = Cardinality(N) + 1
    <2>1. m \notin N
        BY <1>3
    <2> HIDE DEF N
    <2> QED
        BY <1>1, <2>1, FS_AddElement
<1> QED
    BY <1>5, <1>6

LEMMA NewestNumber ==
    ASSUME NEW A \in SUBSET Nat, IsFiniteSet(A), NEW n \in Nat, n <= Cardinality(A)
    PROVE  Cardinality(Newest(A, n)) = n
<1> DEFINE Bad == {k \in Nat : k <= Cardinality(A) /\ Cardinality(Newest(A, k)) # k}
<1>1. SUFFICES ASSUME Bad # {} PROVE FALSE
    OBVIOUS
<1>2. PICK k \in Bad : \A j \in Bad : k <= j
    <2>1. Bad \in SUBSET Nat
        OBVIOUS
    <2> HIDE DEF Bad
    <2> QED
        BY <1>1, <2>1, LeastNumber
<1>3. k # 0
    <2>1. Newest(A, 0) = {}
        BY NewestAre, AboveFinite
    <2> QED
        BY <1>2, <2>1, FS_EmptySet
<1>4. k - 1 \in Nat /\ k - 1 < Cardinality(A) /\ k - 1 \notin Bad
    BY <1>2, <1>3, FS_CardinalityType
<1>5. Cardinality(Newest(A, k - 1)) = k - 1
    BY <1>4, FS_CardinalityType
<1>6. Cardinality(Newest(A, (k - 1) + 1)) = (k - 1) + 1
    BY <1>4, <1>5, NewestGrow
<1> QED
    BY <1>2, <1>6

(* A member that is left out has given way to as many newer ones as fit.    *)
LEMMA NewestFills ==
    ASSUME NEW A \in SUBSET Nat, IsFiniteSet(A), NEW n \in Nat, NEW i \in A
    PROVE  HasOrNewer(Newest(A, n), i, n)
<1> SUFFICES ASSUME i \notin Newest(A, n)
             PROVE  Cardinality({j \in Newest(A, n) : j > i}) = n
    BY DEF HasOrNewer
<1> DEFINE B == Above(A, i)
<1>1. B \in SUBSET Nat /\ IsFiniteSet(B) /\ Cardinality(B) \in Nat
    BY AboveFinite DEF Above
<1>2. n <= Cardinality(B)
    BY <1>1, NewestAre
<1>3. ASSUME NEW j \in B PROVE Above(B, j) = Above(A, j)
    <2>1. ASSUME NEW k \in A, k > j PROVE k > i
        <3>1. j > i /\ k \in Nat /\ i \in Nat /\ j \in Nat
            BY DEF Above
        <3> QED
            BY <2>1, <3>1
    <2> QED
        BY <2>1 DEF Above
<1>4. {j \in Newest(A, n) : j > i} = {j \in B : Cardinality(Above(A, j)) < n}
    BY NewestAre DEF Above
<1>5. {j \in B : Cardinality(Above(A, j)) < n} = Newest(B, n)
    BY <1>3, NewestAre
<1> HIDE DEF B
<1> QED
    BY <1>1, <1>2, <1>4, <1>5, NewestNumber

-----------------------------------------------------------------------------
(* A recall.                                                                *)

(* What was there when the recall of another agent began still is.          *)
LEMMA RecallKept ==
    ASSUME Kept, NEW b \in Agents, call'[b] = call[b], RecallPart(b)
    PROVE  RecallPart(b)'
<1>1. ASSUME NEW p \in Was(b, "open_question")
      PROVE  /\ p[1] \in Labelled("open_question")'
             /\ <<call[b].thread, p[1]>> \in index'["question:thread_id"]
             /\ p[2].status # "open" =>
                   nodes'[p[1]].status # "open" /\ p[1] \notin call[b].open
             /\ p[2].status = "open" /\ nodes'[p[1]].status = "open" =>
                   \/ call[b].pc \in {"recall_findings", "recall_questions"}
                   \/ p[1] \in call[b].open \cup call[b].todo
    <2>1. PICK q : q = p[1]
        OBVIOUS
    <2>2. q \in Labelled("open_question")
        BY <2>1 DEF RecallPart
    <2>3. q \in Labelled("open_question")' /\ (nodes'[q].status = "open" => IsOpen(q))
        BY <2>2, QuestionKept DEF IsOpen
    <2>4. index["question:thread_id"] \subseteq index'["question:thread_id"]
        BY DEF Kept, Indices
    <2> QED
        BY <2>1, <2>3, <2>4 DEF RecallPart
<1>2. index["finding:thread_id"] \subseteq index'["finding:thread_id"]
    BY DEF Kept, Indices
<1>3. Was(b, "open_question")' = Was(b, "open_question")
      /\ Was(b, "finding")' = Was(b, "finding")
      /\ Was(b, "run_summary")' = Was(b, "run_summary")
    BY DEF Was
<1> QED
    BY <1>1, <1>2, <1>3 DEF RecallPart, At, IsOpen, HasOrNewer, Labelled

(* The four steps of a recall.                                              *)
LEMMA RecallBegins ==
    ASSUME TypeOK, Ids, IndexedInv, NEW a \in Agents, recall(a)
    PROVE  RecallPart(a)'
<1> DEFINE ids == ids_from_index("summary:thread_id", thread[a])
           items == {j \in Labelled("open_question") \cup Labelled("finding") \cup
                           Labelled("run_summary") : nodes[j].thread = thread[a]}
<1>1. /\ nodes' = nodes /\ index' = index
      /\ call'[a].pc = "recall_findings" /\ call'[a].thread = thread[a]
      /\ call'[a].summaries = Newest(ids, MaxSummaries)
      /\ call'[a].todo = {} /\ call'[a].open = {}
      /\ call'[a].was = {<<i, nodes[i]>> : i \in items}
    BY DEF recall, Become, TypeOK, store
<1>2. ASSUME NEW i \in items
      PROVE  /\ nodes[i].label = "run_summary" =>
                    HasOrNewer(Newest(ids, MaxSummaries), i, MaxSummaries)
             /\ nodes[i].label = "finding" =>
                    <<thread[a], i>> \in index["finding:thread_id"]
             /\ nodes[i].label = "open_question" =>
                    /\ i \in Labelled("open_question")
                    /\ <<thread[a], i>> \in index["question:thread_id"]
    <2>1. CASE nodes[i].label = "run_summary"
        <3>1. <<thread[a], i>> \in index["summary:thread_id"]
            BY <2>1 DEF IndexedInv, ByThread, Labelled
        <3>2. i \in ids /\ ids \in SUBSET Nat /\ IsFiniteSet(ids)
            BY <3>1, EntriesTyped DEF TypeOK, Indices
        <3>3. MaxSummaries \in Nat
            BY MemoryAssumption
        <3> HIDE DEF ids
        <3> QED
            BY <2>1, <3>2, <3>3, NewestFills
    <2>2. CASE nodes[i].label = "finding"
        BY <2>2 DEF IndexedInv, ByThread, Labelled
    <2>3. CASE nodes[i].label = "open_question"
        BY <2>3 DEF IndexedInv, ByThread, Labelled
    <2> QED
        BY <2>1, <2>2, <2>3 DEF Labelled
<1>3. ASSUME NEW p \in call'[a].was
      PROVE  \E i \in items : p[1] = i /\ p[2] = nodes[i]
    BY <1>1, <1>3
<1>4. \A i \in items : nodes[i].label \in {"open_question", "finding", "run_summary"}
    BY DEF Labelled
<1> HIDE DEF ids, items
<1>5. \A p \in Was(a, "run_summary")' :
          HasOrNewer(call'[a].summaries, p[1], MaxSummaries)
    BY <1>1, <1>2, <1>3 DEF Was
<1>6. \A p \in Was(a, "finding")' :
          <<call'[a].thread, p[1]>> \in index'["finding:thread_id"]
    BY <1>1, <1>2, <1>3 DEF Was
<1>7. \A p \in Was(a, "open_question")' :
          /\ p[1] \in Labelled("open_question")'
          /\ <<call'[a].thread, p[1]>> \in index'["question:thread_id"]
          /\ p[2].status # "open" => nodes'[p[1]].status # "open"
    BY <1>1, <1>2, <1>3 DEF Was, Labelled
<1> QED
    BY <1>1, <1>3, <1>4, <1>5, <1>6, <1>7 DEF RecallPart, At, IsOpen

LEMMA RecallFindingsEffect ==
    ASSUME TypeOK, NEW a \in Agents, RecallFindings(a)
    PROVE  /\ call'[a].pc = "recall_questions" /\ At(a, "recall_findings")
           /\ call'[a].thread = call[a].thread /\ call'[a].was = call[a].was
           /\ call'[a].summaries = call[a].summaries
           /\ call'[a].findings =
                 Newest(ids_from_index("finding:thread_id", call[a].thread), MaxFindings)
           /\ call'[a].todo = call[a].todo /\ call'[a].open = call[a].open
           /\ nodes' = nodes /\ index' = index
<1>1. call[a] \in RecallCall
    BY Kinds DEF RecallFindings, At, TypeOK, RecallPcs
<1> QED
    BY <1>1 DEF RecallFindings, Become, TypeOK, RecallCall, store

LEMMA RecallLists ==
    ASSUME TypeOK, NEW a \in Agents, RecallFindings(a), RecallPart(a)
    PROVE  RecallPart(a)'
<1> DEFINE ids == ids_from_index("finding:thread_id", call[a].thread)
<1>1. ASSUME NEW p \in Was(a, "finding")
      PROVE  HasOrNewer(Newest(ids, MaxFindings), p[1], MaxFindings)
    <2>1. <<call[a].thread, p[1]>> \in index["finding:thread_id"]
        BY RecallFindingsEffect DEF RecallPart
    <2>2. p[1] \in ids /\ ids \in SUBSET Nat /\ IsFiniteSet(ids)
        BY <2>1, EntriesTyped DEF TypeOK, Indices
    <2>3. MaxFindings \in Nat
        BY MemoryAssumption
    <2> HIDE DEF ids
    <2> QED
        BY <2>2, <2>3, NewestFills
<1>2. Was(a, "open_question")' = Was(a, "open_question")
      /\ Was(a, "finding")' = Was(a, "finding")
      /\ Was(a, "run_summary")' = Was(a, "run_summary")
    BY RecallFindingsEffect DEF Was
<1>3. \A p \in Was(a, "finding") : HasOrNewer(call'[a].findings, p[1], MaxFindings)
    BY <1>1, RecallFindingsEffect
<1> QED
    BY <1>2, <1>3, RecallFindingsEffect DEF RecallPart, At, IsOpen, Labelled

(* A question that is listed and open is in the answer or still to be read. *)
LEMMA RecallReads ==
    ASSUME TypeOK, Ids, NEW a \in Agents, RecallQuestions(a) \/ RecallQuestion(a),
           RecallPart(a)
    PROVE  RecallPart(a)'
<1> DEFINE q == Min(call[a].todo)
<1>0. call[a].pc \in {"recall_questions", "recall_question"} /\ call[a].pc \in RecallPcs
    BY DEF RecallQuestions, RecallQuestion, At, RecallPcs
<1>1. PICK todo, open :
          /\ RecallRest(a, call[a], todo, open)
          /\ \A p \in Was(a, "open_question") :
                /\ p[2].status # "open" => p[1] \notin open
                /\ p[2].status = "open" /\ IsOpen(p[1]) => p[1] \in open \cup todo
    <2>1. CASE RecallQuestions(a)
        <3>1. RecallRest(a, call[a], QuestionsOf(call[a].thread), {})
            BY <2>1 DEF RecallQuestions
        <3>2. \A p \in Was(a, "open_question") : p[1] \in QuestionsOf(call[a].thread)
            BY EntriesTyped DEF RecallPart, QuestionsOf, TypeOK, Indices
        <3> QED
            BY <3>1, <3>2
    <2>2. CASE RecallQuestion(a)
        <3>1. RecallRest(a, call[a], call[a].todo \ {q},
                         call[a].open \cup {i \in {q} : IsOpen(i)})
            BY <2>2 DEF RecallQuestion
        <3>2. call[a].pc = "recall_question"
            BY <2>2 DEF RecallQuestion, At
        <3>3. \A p \in Was(a, "open_question") :
                 /\ p[2].status # "open" => ~ IsOpen(p[1]) /\ p[1] \notin call[a].open
                 /\ p[2].status = "open" /\ IsOpen(p[1]) =>
                       p[1] \in call[a].open \cup call[a].todo
            BY <3>2 DEF RecallPart
        <3> HIDE DEF q
        <3> QED
            BY <3>1, <3>3
    <2> QED
        BY <2>1, <2>2
<1>2. /\ call'[a].pc = IF todo # {} THEN "recall_question" ELSE "answered"
      /\ call'[a].todo = todo /\ call'[a].open = open
      /\ call'[a].thread = call[a].thread /\ call'[a].was = call[a].was
      /\ call'[a].summaries = call[a].summaries
      /\ call'[a].findings = call[a].findings
    BY <1>0, <1>1, RecallRestEffect
<1>3. nodes' = nodes /\ index' = index
    BY DEF RecallQuestions, RecallQuestion, store
<1>4. Was(a, "open_question")' = Was(a, "open_question")
      /\ Was(a, "finding")' = Was(a, "finding")
      /\ Was(a, "run_summary")' = Was(a, "run_summary")
    BY <1>2 DEF Was
<1>5. \A p \in Was(a, "open_question") :
          /\ p[1] \in Labelled("open_question")
          /\ <<call[a].thread, p[1]>> \in index["question:thread_id"]
          /\ p[2].status # "open" => ~ IsOpen(p[1])
    BY DEF RecallPart
<1>6. /\ \A p \in Was(a, "open_question")' :
            /\ p[1] \in Labelled("open_question")'
            /\ <<call'[a].thread, p[1]>> \in index'["question:thread_id"]
            /\ p[2].status # "open" =>
                  nodes'[p[1]].status # "open" /\ p[1] \notin call'[a].open
            /\ p[2].status = "open" /\ nodes'[p[1]].status = "open" =>
                  p[1] \in call'[a].open \cup call'[a].todo
    BY <1>1, <1>2, <1>3, <1>4, <1>5 DEF Labelled, IsOpen
<1>7. /\ \A p \in call'[a].was :
            p[2].label \in {"open_question", "finding", "run_summary"}
      /\ \A p \in Was(a, "run_summary")' :
            HasOrNewer(call'[a].summaries, p[1], MaxSummaries)
      /\ \A p \in Was(a, "finding")' :
            HasOrNewer(call'[a].findings, p[1], MaxFindings)
    BY <1>0, <1>2, <1>4 DEF RecallPart, At
<1>8. /\ call'[a].pc \in {"recall_question", "answered"}
      /\ call'[a].pc = "answered" => call'[a].todo = {}
    BY <1>2
<1> QED
    BY <1>6, <1>7, <1>8 DEF RecallPart, At, IsOpen

LEMMA NextRecalled ==
    ASSUME TypeOK, Ids, RecallInv, NEW a \in Agents, Step(a)
    PROVE  Recalled'
<1> SUFFICES ASSUME NEW b \in Agents, call'[b].pc \in RecallPcs
             PROVE  RecallPart(b)'
    BY DEF Recalled
<1>1. CASE b # a
    BY <1>1, OthersWait, StepKeeps, RecallKept DEF Others, RecallInv, Recalled
<1>2. CASE b = a
    <2>1. RecallStep(a)
        BY <1>2, Whose
    <2>2. RecallFindings(a) \/ RecallQuestions(a) \/ RecallQuestion(a) => RecallPart(a)
        BY DEF RecallFindings, RecallQuestions, RecallQuestion, At, RecallPcs,
               RecallInv, Recalled
    <2> QED
        BY <1>2, <2>1, <2>2, RecallBegins, RecallLists, RecallReads
        DEF RecallStep, RecallInv
<1> QED
    BY <1>1, <1>2

LEMMA RecallIsSound ==
    ASSUME Recalled
    PROVE  RecallSound
<1> SUFFICES ASSUME NEW a \in Agents, At(a, "answered"), NEW p \in call[a].was
             PROVE  CASE p[2].label = "finding" ->
                            HasOrNewer(call[a].findings, p[1], MaxFindings)
                      [] p[2].label = "run_summary" ->
                            HasOrNewer(call[a].summaries, p[1], MaxSummaries)
                      [] p[2].label = "open_question" ->
                            /\ p[2].status = "open" /\ IsOpen(p[1]) =>
                                   p[1] \in call[a].open
                            /\ p[2].status = "resolved" => p[1] \notin call[a].open
    BY DEF RecallSound
<1>1. RecallPart(a) /\ call[a].pc = "answered"
    BY DEF Recalled, At, RecallPcs
<1>2. p[2].label \in {"open_question", "finding", "run_summary"}
    BY <1>1 DEF RecallPart
<1>3. CASE p[2].label = "finding"
    BY <1>1, <1>3 DEF RecallPart, Was, At
<1>4. CASE p[2].label = "run_summary"
    BY <1>1, <1>4 DEF RecallPart, Was, At
<1>5. CASE p[2].label = "open_question"
    <2>1. /\ p[2].status # "open" => p[1] \notin call[a].open
          /\ p[2].status = "open" /\ IsOpen(p[1]) => p[1] \in call[a].open
        BY <1>1, <1>5 DEF RecallPart, Was, At
    <2> QED
        BY <1>5, <2>1
<1> QED
    BY <1>2, <1>3, <1>4, <1>5

(* A recall reads index and records one transaction at a time, and yet its  *)
(* answer has every question that was open from its start to its end, none  *)
(* that had been resolved before, and every finding and summary there was,  *)
(* unless as many newer ones as fit have taken its place.                   *)
THEOREM RecallAnswers ==
    Spec => []RecallSound
<1>1. Init => RecallInv
    BY DEF Init, RecallInv, Recalled, IndexedInv, ByThread, Labelled, Idle, RecallPcs
<1>2. TypeOK /\ Ids /\ RecallInv /\ [Next]_vars => RecallInv'
    <2>1. ASSUME RecallInv, vars' = vars PROVE RecallInv'
        <3> USE <2>1, Stutters
        <3>1. IndexedInv'
            BY DEF RecallInv, IndexedInv, ByThread, Labelled
        <3>2. Recalled'
            BY DEF RecallInv, Recalled, RecallPart, Was, At, Labelled, IsOpen, HasOrNewer
        <3> QED
            BY <3>1, <3>2 DEF RecallInv
    <2>2. ASSUME TypeOK, Ids, RecallInv, NEW a \in Agents, Step(a) PROVE RecallInv'
        BY <2>2, NextIndexed, NextRecalled DEF RecallInv
    <2> QED
        BY <2>1, <2>2, StepOrStutter
<1>3. RecallInv => RecallSound
    BY RecallIsSound DEF RecallInv
<1> QED
    BY <1>1, <1>2, <1>3, TypeCorrect, PTL DEF Spec
=============================================================================
