----------------------------- MODULE McpSession -----------------------------
(***************************************************************************)
(* The MCP sessions of sparrow_gateway/mcp: an agent builds a chain of       *)
(* query steps, one tool call at a time, and pages through what it yields.  *)
(* A session is a record behind one mutex; a call runs on whichever worker  *)
(* took it, locks the mutex to read the session, executes the chain in a    *)
(* read transaction with the mutex released, and locks again to store what  *)
(* it found.  The graph is written by others at any time.                   *)
(*                                                                          *)
(* The build aborts on panic (Cargo.toml): a panic under the lock ends the  *)
(* process and every session with it.                                       *)
(***************************************************************************)
EXTENDS TraversalOps

CONSTANTS
    Conns,              \* connection ids
    Workers,            \* pool threads that take MCP requests
    Tools,              \* the steps agents ask for
    Graphs,             \* graphs the writer thread commits
    MaxChain,           \* bound: steps of a chain
    MAX_CACHED_RESULTS

(* The arms of the match on ToolArgs that are modelled (SearchVec is not);   *)
(* SearchKeyword and SearchVecText may be asked for as steps, and fail.      *)
Supported == {"NFromType", "EFromType", "OutStep", "InStep", "OutEStep",
              "InEStep", "OrderBy", "Limit", "FilterItems"}
Unsupported == {"SearchKeyword", "SearchVecText"}

ASSUME McpAssumption ==
    /\ MaxChain \in Nat
    /\ MAX_CACHED_RESULTS \in Nat
    /\ \A t \in Tools : t.op \in Supported \cup Unsupported /\ t.n \in Nat

ASSUME GraphAssumption ==
    /\ \A g \in Graphs : IsFiniteSet(DOMAIN g.nodes) /\ IsFiniteSet(DOMAIN g.edges)
    /\ None \notin Graphs

VARIABLES
    connections,        \* McpConnections: id -> MCPConnection
    call,               \* what each worker is doing
    db,                 \* the committed graph
    book,               \* per session, what its agent was given (observer)
    overlapped          \* sessions of which two calls were ever under way
                        \* together (observer)

vars == <<connections, call, db, book, overlapped>>

-----------------------------------------------------------------------------
(* Chains.                                                                   *)

(* ToolArgs; n is the n of Limit, via the edge type or the order.            *)
Tool(op, label, via, filter, n) ==
    [op |-> op, label |-> label, via |-> via, filter |-> filter, n |-> n]

(* FilterTraversal: the values allowed for f, None for any, and a step that  *)
(* has to find something, None for no step.                                  *)
Filter(values, step) == [values |-> values, step |-> step]

EmptyItem == Item("empty", 0, None, None, 0, 0)

(* The steps that need no filter of their own.                               *)
Step(g, items, t) ==
    CASE t.op = "NFromType" -> NFromType(g, t.label)
      [] t.op = "EFromType" -> EFromType(g, t.label)
      [] t.op = "OutStep" -> Out(g, items, t.label, t.via)
      [] t.op = "InStep" -> In(g, items, t.label, t.via)
      [] t.op = "OutEStep" -> OutE(g, items, t.label)
      [] t.op = "InEStep" -> InE(g, items, t.label)
      [] t.op = "OrderBy" -> OrderBy(items, t.via)
      [] t.op = "Limit" -> Range_(items, 0, t.n)
      [] t.op = "FilterItems" -> items

matches_filter(g, it, filter) ==
    /\ filter.values # None => it.f # None /\ it.f \in filter.values
    /\ filter.step # None => Step(g, <<it>>, filter.step) # <<>>

apply_filter(g, items, filter) ==
    IF filter = None THEN items
    ELSE Passing(items, LAMBDA it : matches_filter(g, it, filter))

execute_query_chain(g, chain) ==
    LET apply_step(found, t) ==
            IF ~found.ok \/ t.op \in Unsupported
            THEN [ok |-> FALSE, items |-> <<>>]
            ELSE [ok |-> TRUE,
                  items |-> apply_filter(g, Step(g, found.items, t), t.filter)]
    IN  FoldLeft(apply_step, [ok |-> TRUE, items |-> <<EmptyItem>>], chain)

(* None, for nothing cached, is no result of a chain.                        *)
ASSUME ResultAssumption ==
    \A g \in Graphs, n \in 0 .. MaxChain :
        \A chain \in [1 .. n -> Tools] :
            execute_query_chain(g, chain).items # None

-----------------------------------------------------------------------------
(* Sessions.                                                                 *)

NewConnection == [query_chain |-> <<>>, current_position |-> 0,
                  cached_results |-> None]

(* Mutant: a new step leaves the cached results of the shorter chain.        *)
add_query_stepKeepingCache(conn, t) ==
    [conn EXCEPT !.query_chain = Append(@, t), !.current_position = 0]

add_query_step(conn, t) ==
    [query_chain |-> Append(conn.query_chain, t), current_position |-> 0,
     cached_results |-> None]

clear_chain(conn) == NewConnection

(* Whether an item came: the position after the first one.                   *)
consumed_one(items) == IF items # <<>> THEN 1 ELSE 0

Started(c) == c \in DOMAIN connections
Keep(c, conn) == connections' = [connections EXCEPT ![c] = conn]

(* What a worker is doing: nothing, a call that has read its session and     *)
(* maybe run its chain, a query, or nothing ever again.                      *)
Idle == [at |-> "idle"]
Dead == [at |-> "dead"]
Reading(at, c, chain, position, drop) ==
    [at |-> at, ran |-> FALSE, conn |-> c, chain |-> chain,
     position |-> position, drop |-> drop, items |-> <<>>, seen |-> None]
Ran(read, items, g) ==
    [at |-> read.at, ran |-> TRUE, conn |-> read.conn, chain |-> read.chain,
     position |-> read.position, drop |-> read.drop, items |-> items,
     seen |-> g]

down == \E w \in Workers : call[w] = Dead         \* the process has aborted
Busy == {w \in Workers : call[w] \notin {Idle, Dead}}
Of(c) == {w \in Busy : call[w].conn = c}

Take(w, doing) == call' = [call EXCEPT ![w] = doing]
Leave(w) == Take(w, Idle)

(* The pages of a session since its chain last changed, and whether the      *)
(* graph changed between the first and the rest or a search moved the        *)
(* position.  Nothing is noted of a session once its calls overlapped.       *)
NewBook == [pages |-> <<>>, seen |-> None, moved |-> FALSE, searched |-> FALSE]

Noted(c, b) ==
    book' = [book EXCEPT ![c] = IF c \in overlapped' THEN NewBook ELSE b]

Turned(b, items, p) ==
    IF p < Len(items) /\ ~b.searched
    THEN [b EXCEPT !.pages = Append(@, items[p + 1])]
    ELSE b

(* A worker takes a call of c; b is what is then known of the session.       *)
Begins(w, c, b) ==
    /\ call[w] = Idle
    /\ Started(c)
    /\ overlapped' = IF Of(c) = {} THEN overlapped ELSE overlapped \cup {c}
    /\ Noted(c, b)
    /\ UNCHANGED db

-----------------------------------------------------------------------------
(* init.                                                                     *)
InitConnection(w) ==
    /\ call[w] = Idle
    /\ \E c \in Conns \ DOMAIN book :
        /\ connections' = [d \in DOMAIN connections \cup {c} |->
                              IF d = c THEN NewConnection ELSE connections[d]]
        /\ book' = [d \in DOMAIN book \cup {c} |->
                       IF d = c THEN NewBook ELSE book[d]]
    /\ UNCHANGED <<call, db, overlapped>>

(* execute_tool_step, of tool_call and of every step endpoint: the step is   *)
(* in the chain before it is known whether the chain still runs.             *)
ToolCall(w, c, t) ==
    /\ Begins(w, c, NewBook)
    /\ Len(connections[c].query_chain) < MaxChain
    /\ LET conn == add_query_step(connections[c], t)
       IN  /\ Keep(c, conn)
           /\ Take(w, Reading("tool", c, conn.query_chain, 0, FALSE))

(* Mutant: a session that has answered once is taken to have a cache.        *)
NextCallAfterFirst(w, c) ==
    /\ Begins(w, c, book[c])
    /\ LET conn == connections[c]
       IN  Take(w, Reading(IF conn.current_position > 0 THEN "hit" ELSE "next",
                           c, conn.query_chain, conn.current_position, FALSE))
    /\ UNCHANGED connections

(* next: with a cache it is read again under a second lock, without one the  *)
(* whole chain is executed.                                                  *)
NextCall(w, c) ==
    /\ Begins(w, c, book[c])
    /\ LET conn == connections[c]
           pos == conn.current_position
           len == Len(conn.cached_results)
       IN  IF conn.cached_results # None
           THEN Take(w, Reading("hit", c, <<>>,
                                IF pos < len THEN pos ELSE len, FALSE))
           ELSE Take(w, Reading("next", c, conn.query_chain, pos, FALSE))
    /\ UNCHANGED connections

(* collect, aggregate_by and group_by differ in what they reply with.        *)
CollectCall(w, c, drop) ==
    /\ Begins(w, c, book[c])
    /\ Take(w, Reading("collect", c, connections[c].query_chain, 0, drop))
    /\ UNCHANGED connections

(* search_keyword and search_vector_text only look whether the session       *)
(* exists.                                                                   *)
SearchCall(w, c) ==
    /\ Begins(w, c, book[c])
    /\ Take(w, Reading("search", c, <<>>, 0, FALSE))
    /\ UNCHANGED connections

reset(w, c) ==
    /\ Begins(w, c, NewBook)
    /\ Keep(c, clear_chain(connections[c]))
    /\ UNCHANGED call

(* The handler generated for a query marked #[mcp] takes its session out of  *)
(* the map.                                                                  *)
QueryCall(w, c) ==
    /\ Begins(w, c, book[c])
    /\ Take(w, [at |-> "query", conn |-> c, taken |-> connections[c]])
    /\ connections' = [d \in DOMAIN connections \ {c} |-> connections[d]]

-----------------------------------------------------------------------------
(* Execution, in one read transaction with the mutex released.  A chain that *)
(* fails, or has too many results to be cached, ends the call.               *)
Execute(w) ==
    /\ call[w].at \in {"tool", "next", "collect"}
    /\ ~call[w].ran
    /\ LET found == execute_query_chain(db, call[w].chain)
           tooMany == /\ call[w].at = "next"
                      /\ Len(found.items) > MAX_CACHED_RESULTS
       IN  IF found.ok /\ ~tooMany
           THEN Take(w, Ran(call[w], found.items, db))
           ELSE Leave(w)
    /\ UNCHANGED <<connections, db, book, overlapped>>

(* The last lock of a call that has run: conn is its session from then on,   *)
(* b what is known of it.                                                    *)
Returns(w, at) ==
    /\ call[w].at = at
    /\ at \notin {"hit", "search"} => call[w].ran
    /\ Started(call[w].conn)
    /\ Leave(w)
    /\ UNCHANGED <<db, overlapped>>

ToolReturn(w) ==
    /\ Returns(w, "tool")
    /\ LET c == call[w].conn
           items == call[w].items
       IN  /\ Keep(c, [connections[c] EXCEPT
                         !.current_position = consumed_one(items)])
           /\ Noted(c, Turned([book[c] EXCEPT !.seen = call[w].seen],
                              items, 0))

NextReturn(w) ==
    /\ Returns(w, "next")
    /\ LET c == call[w].conn
           items == call[w].items
           p == call[w].position
           other == book[c].seen \notin {None, call[w].seen}
       IN  /\ Keep(c, [connections[c] EXCEPT
                         !.cached_results = items,
                         !.current_position =
                             IF p < Len(items) THEN @ + 1 ELSE @])
           /\ Noted(c, Turned([book[c] EXCEPT !.moved = @ \/ other],
                              items, p))

(* The second lock of a hit.                                                 *)
HitReturn(w) ==
    /\ Returns(w, "hit")
    /\ LET c == call[w].conn
           p == call[w].position
           cached == connections[c].cached_results
       IN  /\ cached # None
           /\ Keep(c, IF p < Len(cached)
                     THEN [connections[c] EXCEPT !.current_position = @ + 1]
                     ELSE connections[c])
           /\ Noted(c, Turned(book[c], cached, p))

(* Without the cache, unwrap panics.                                         *)
HitPanics(w) ==
    /\ call[w].at = "hit"
    /\ Started(call[w].conn)
    /\ connections[call[w].conn].cached_results = None
    /\ call' = [v \in Workers |-> Dead]
    /\ UNCHANGED <<connections, db, book, overlapped>>

CollectReturn(w) ==
    /\ Returns(w, "collect")
    /\ LET c == call[w].conn
       IN  IF call[w].drop
           THEN Keep(c, clear_chain(connections[c])) /\ Noted(c, NewBook)
           ELSE UNCHANGED <<connections, book>>

(* The results of a search are counted and dropped; the position moves in a  *)
(* chain, and a cache, they have nothing to do with.                         *)
SearchReturn(w, found) ==
    /\ Returns(w, "search")
    /\ LET c == call[w].conn
       IN  /\ Keep(c, [connections[c] EXCEPT
                         !.current_position = IF found THEN 1 ELSE 0])
           /\ Noted(c, [book[c] EXCEPT !.searched = TRUE])

SearchFails(w) ==
    /\ call[w].at = "search"
    /\ Leave(w)
    /\ UNCHANGED <<connections, db, book, overlapped>>

(* The session a call comes back to is out of the map, with a query or for   *)
(* ever.                                                                     *)
ReturnToNothing(w) ==
    /\ call[w].at \in {"tool", "next", "collect", "search", "hit"}
    /\ call[w].at \in {"tool", "next", "collect"} => call[w].ran
    /\ ~Started(call[w].conn)
    /\ Leave(w)
    /\ UNCHANGED <<connections, db, book, overlapped>>

(* A query puts its session back after its commit; an error on the way, and  *)
(* every query that embeds is one, loses the session.                        *)
QueryReturn(w) ==
    /\ call[w].at = "query"
    /\ connections' =
           [c \in DOMAIN connections \cup {call[w].conn} |->
               IF c = call[w].conn THEN call[w].taken ELSE connections[c]]
    /\ Leave(w)
    /\ UNCHANGED <<db, book, overlapped>>

QueryFails(w) ==
    /\ call[w].at = "query"
    /\ Leave(w)
    /\ UNCHANGED <<connections, db, book, overlapped>>

(* A commit of the writer thread, or of a query of a session.                *)
Write ==
    /\ ~down
    /\ db' \in Graphs \ {db}
    /\ UNCHANGED <<connections, call, book, overlapped>>

-----------------------------------------------------------------------------
Init ==
    /\ connections = [c \in {} |-> NewConnection]
    /\ call = [w \in Workers |-> Idle]
    /\ db \in Graphs
    /\ book = [c \in {} |-> NewBook]
    /\ overlapped = {}

Calls(w) ==
    \/ InitConnection(w)
    \/ \E c \in Conns :
        \/ \E t \in Tools : ToolCall(w, c, t)
        \/ NextCall(w, c)
        \/ \E drop \in BOOLEAN : CollectCall(w, c, drop)
        \/ SearchCall(w, c)
        \/ reset(w, c)
        \/ QueryCall(w, c)

Goes(w) ==
    \/ Execute(w)
    \/ ToolReturn(w)
    \/ NextReturn(w)
    \/ HitReturn(w)
    \/ HitPanics(w)
    \/ CollectReturn(w)
    \/ \E found \in BOOLEAN : SearchReturn(w, found)
    \/ SearchFails(w)
    \/ ReturnToNothing(w)
    \/ QueryReturn(w)
    \/ QueryFails(w)

Next ==
    \/ \E w \in Workers : Calls(w) \/ Goes(w)
    \/ Write

Spec == Init /\ [][Next]_vars

-----------------------------------------------------------------------------
(* What an agent may rely on if it waits for each answer before it calls     *)
(* again: the cache is what its chain yields on some graph, and the pages it *)
(* was given, the answer of the tool call first, are that result from the    *)
(* beginning, each item once and none left out.  A write between the tool    *)
(* call and the first next may shift the rest, and a search may move the     *)
(* position: of such sessions only the cache is required to be right.        *)
PagesInOrder ==
    \A c \in DOMAIN connections :
        LET conn == connections[c]
            b == book[c]
        IN  c \notin overlapped /\ conn.cached_results # None =>
                /\ \E g \in Graphs :
                       execute_query_chain(g, conn.query_chain) =
                           [ok |-> TRUE, items |-> conn.cached_results]
                /\ ~b.moved /\ ~b.searched =>
                       b.pages = SubSeq(conn.cached_results, 1,
                                        conn.current_position)

(* unwrap of the cache under the second lock (mcp.rs, next): the server goes *)
(* down only after two calls of one session were under way together.         *)
AbortNeedsOverlap ==
    down => overlapped # {}
=============================================================================
