-------------------------- MODULE TraversalProofs --------------------------
(***************************************************************************)
(* Theorems about what reads the graph step by step.                        *)
(*                                                                         *)
(* McpSession: an MCP session whose agent waits for each answer cannot      *)
(* bring the server down and pages through the results of its chain in      *)
(* order, for any number of sessions, workers, tools and graphs.            *)
(*                                                                         *)
(* ShortestPaths: every path that is collected is a cheapest one and every  *)
(* failure has its reason, for every set of items, every snapshot and every *)
(* query.                                                                   *)
(***************************************************************************)
EXTENDS McpSession, ShortestPaths,
        FiniteSetTheorems, SequenceTheorems, WellFoundedInduction, TLAPS

(* Every session in the map, and every session of a call, was opened.        *)
Known ==
    /\ DOMAIN connections \subseteq DOMAIN book
    /\ \A w \in Busy : call[w].conn \in DOMAIN book

(* A session with two calls under way has overlapped.                        *)
Alone ==
    \A v, w \in Busy :
        v # w /\ call[v].conn = call[w].conn => call[w].conn \in overlapped

(* The cache a hit has seen is still there.                                  *)
CacheKept ==
    \A w \in Busy :
        /\ call[w].at = "hit"
        /\ Started(call[w].conn)
        /\ call[w].conn \notin overlapped
        => connections[call[w].conn].cached_results # None

IInv ==
    /\ call = [w \in Workers |-> call[w]]
    /\ Known
    /\ Alone
    /\ CacheKept
    /\ AbortNeedsOverlap

(* Only the session of the call changes, and it stays known.                 *)
OnlyChanges(c) ==
    /\ DOMAIN connections' \subseteq DOMAIN connections \cup {c}
    /\ \A d \in DOMAIN connections' : d # c => connections'[d] = connections[d]
    /\ DOMAIN book' = DOMAIN book

LEMMA KeepChanges ==
    ASSUME NEW c, NEW conn, Keep(c, conn), DOMAIN book' = DOMAIN book
    PROVE  OnlyChanges(c)
  BY DEF Keep, OnlyChanges

LEMMA NotedKeeps ==
    ASSUME NEW c, NEW b, Noted(c, b)
    PROVE  DOMAIN book' = DOMAIN book
  BY DEF Noted

(* A call that begins: whoever else is at the same session makes it overlap. *)
LEMMA BeginKeeps ==
    ASSUME IInv,
           NEW w \in Workers, NEW c, NEW b, NEW doing,
           Begins(w, c, b), Take(w, doing), OnlyChanges(c),
           doing.conn = c, doing.at \notin {"idle", "dead"},
           doing.at = "hit" /\ Started(c)' =>
               connections'[c].cached_results # None
    PROVE  IInv'
<1> DEFINE was == Of(c) # {}
<1>1. /\ call' = [v \in Workers |-> IF v = w THEN doing ELSE call[v]]
      /\ c \in DOMAIN connections /\ c \in DOMAIN book
      /\ overlapped \subseteq overlapped'
      /\ was => c \in overlapped'
  BY DEF IInv, Begins, Take, Started, Known
<1>2. doing # Idle /\ doing # Dead
  BY DEF Idle, Dead
<1>3. Busy' = Busy \cup {w}
  BY <1>1, <1>2 DEF Busy
<1>4. w \notin Busy
  BY DEF Begins, Busy
<1>5. \A v \in Busy : call'[v] = call[v]
  BY <1>1, <1>4 DEF Busy
<1>6. call'[w] = doing
  BY <1>1
<1>7. \A v \in Busy : call[v].conn = c => c \in overlapped'
  BY <1>1 DEF Of
<1>8. Known'
  BY <1>1, <1>3, <1>5, <1>6 DEF Known, OnlyChanges, IInv
<1>9. Alone'
  <2> SUFFICES ASSUME NEW u \in Busy', NEW v \in Busy', u # v,
                      call'[u].conn = call'[v].conn
               PROVE  call'[v].conn \in overlapped'
    BY DEF Alone
  <2>1. CASE u = w \/ v = w
    BY <2>1, <1>3, <1>5, <1>6, <1>7
  <2>2. CASE u # w /\ v # w
    BY <2>2, <1>1, <1>3, <1>5 DEF IInv, Alone
  <2> QED BY <2>1, <2>2
<1>10. CacheKept'
  <2> SUFFICES ASSUME NEW v \in Busy', call'[v].at = "hit",
                      call'[v].conn \in DOMAIN connections',
                      call'[v].conn \notin overlapped'
               PROVE  connections'[call'[v].conn].cached_results # None
    BY DEF CacheKept, Started
  <2>1. CASE v = w
    BY <2>1, <1>6 DEF Started
  <2>2. CASE v # w
    <3>1. v \in Busy /\ call'[v] = call[v]
      BY <2>2, <1>3, <1>5
    <3>2. call[v].conn # c
      BY <3>1, <1>7
    <3>3. /\ connections'[call[v].conn] = connections[call[v].conn]
          /\ call[v].conn \in DOMAIN connections
      BY <3>1, <3>2 DEF OnlyChanges
    <3> QED BY <3>1, <3>3, <1>1 DEF IInv, CacheKept, Started
  <2> QED BY <2>1, <2>2
<1>11. AbortNeedsOverlap'
  BY <1>1, <1>2 DEF IInv, AbortNeedsOverlap, down
<1> QED BY <1>1, <1>8, <1>9, <1>10, <1>11 DEF IInv

(* A call that ends: no one else is at its session, or it has overlapped.    *)
LEMMA ReturnKeeps ==
    ASSUME IInv,
           NEW w \in Workers, w \in Busy, Leave(w),
           OnlyChanges(call[w].conn), overlapped' = overlapped
    PROVE  IInv'
<1> DEFINE c == call[w].conn
<1>1. /\ call' = [v \in Workers |-> IF v = w THEN Idle ELSE call[v]]
      /\ c \in DOMAIN book
  BY DEF IInv, Leave, Take, Known
<1>2. Busy' = Busy \ {w}
  BY <1>1 DEF Busy
<1>3. \A v \in Busy' : call'[v] = call[v]
  BY <1>1, <1>2 DEF Busy
<1>4. Known'
  BY <1>1, <1>2, <1>3 DEF Known, OnlyChanges, IInv
<1>5. Alone'
  BY <1>2, <1>3 DEF Alone, IInv
<1>6. CacheKept'
  <2> SUFFICES ASSUME NEW v \in Busy', call'[v].at = "hit",
                      call'[v].conn \in DOMAIN connections',
                      call'[v].conn \notin overlapped'
               PROVE  connections'[call'[v].conn].cached_results # None
    BY DEF CacheKept, Started
  <2>1. v \in Busy /\ v # w /\ call'[v] = call[v]
    BY <1>2, <1>3
  <2>2. call[v].conn # c
    BY <2>1 DEF IInv, Alone
  <2>3. /\ connections'[call[v].conn] = connections[call[v].conn]
        /\ call[v].conn \in DOMAIN connections
    BY <2>1, <2>2 DEF OnlyChanges
  <2> QED BY <2>1, <2>3 DEF IInv, CacheKept, Started
<1>7. AbortNeedsOverlap'
  BY <1>1 DEF IInv, AbortNeedsOverlap, down, Idle, Dead
<1> QED BY <1>1, <1>4, <1>5, <1>6, <1>7 DEF IInv

LEMMA InitConnectionKeeps ==
    ASSUME IInv, NEW w \in Workers, InitConnection(w)
    PROVE  IInv'
<1>1. PICK c \in Conns \ DOMAIN book :
        /\ connections' = [d \in DOMAIN connections \cup {c} |->
                              IF d = c THEN NewConnection ELSE connections[d]]
        /\ book' = [d \in DOMAIN book \cup {c} |->
                       IF d = c THEN NewBook ELSE book[d]]
  BY DEF InitConnection
<1>2. call' = call /\ overlapped' = overlapped /\ Busy' = Busy
  BY DEF InitConnection, Busy
<1>3. Known' /\ Alone'
  BY <1>1, <1>2 DEF IInv, Known, Alone
<1>4. CacheKept'
  <2>1. \A v \in Busy : call[v].conn # c
    BY <1>1 DEF IInv, Known
  <2> QED BY <2>1, <1>1, <1>2 DEF IInv, CacheKept, Started
<1>5. AbortNeedsOverlap'
  BY <1>2 DEF IInv, AbortNeedsOverlap, down
<1> QED BY <1>2, <1>3, <1>4, <1>5 DEF IInv

LEMMA ResetKeeps ==
    ASSUME IInv, NEW w \in Workers, NEW c \in Conns, reset(w, c)
    PROVE  IInv'
<1>1. /\ call' = call /\ Busy' = Busy
      /\ overlapped \subseteq overlapped'
      /\ \A v \in Busy : call[v].conn = c => c \in overlapped'
  BY DEF reset, Begins, Busy, Of
<1>2. OnlyChanges(c)
  BY KeepChanges, NotedKeeps DEF reset, Begins
<1>3. c \in DOMAIN connections
  BY DEF reset, Begins, Started
<1>4. Known' /\ Alone'
  BY <1>1, <1>2, <1>3 DEF IInv, Known, Alone, OnlyChanges
<1>5. CacheKept'
  <2> SUFFICES ASSUME NEW v \in Busy, call[v].at = "hit",
                      call[v].conn \in DOMAIN connections',
                      call[v].conn \notin overlapped'
               PROVE  connections'[call[v].conn].cached_results # None
    BY <1>1 DEF CacheKept, Started
  <2>1. call[v].conn # c
    BY <1>1
  <2> QED BY <2>1, <1>1, <1>2 DEF IInv, CacheKept, Started, OnlyChanges
<1>6. AbortNeedsOverlap'
  BY <1>1 DEF IInv, AbortNeedsOverlap, down
<1> QED BY <1>1, <1>4, <1>5, <1>6 DEF IInv

LEMMA PanicKeeps ==
    ASSUME IInv, NEW w \in Workers, HitPanics(w)
    PROVE  IInv'
<1>1. w \in Busy
  BY DEF HitPanics, Busy, Idle, Dead
<1>2. call[w].conn \in overlapped
  BY <1>1 DEF HitPanics, IInv, CacheKept
<1>3. Busy' = {}
  BY DEF HitPanics, Busy
<1> QED BY <1>2, <1>3 DEF IInv, Known, Alone, CacheKept, AbortNeedsOverlap,
                          HitPanics

-----------------------------------------------------------------------------
LEMMA CallsKeep ==
    ASSUME IInv, NEW w \in Workers, Calls(w)
    PROVE  IInv'
<1> USE DEF Reading
<1>1. CASE InitConnection(w)
  BY <1>1, InitConnectionKeeps
<1>2. ASSUME NEW c \in Conns, NEW t \in Tools, ToolCall(w, c, t)
      PROVE  IInv'
  <2> DEFINE conn == add_query_step(connections[c], t)
             doing == Reading("tool", c, conn.query_chain, 0, FALSE)
  <2>1. Begins(w, c, NewBook) /\ Keep(c, conn) /\ Take(w, doing)
    BY <1>2 DEF ToolCall
  <2>2. OnlyChanges(c)
    BY <2>1, KeepChanges, NotedKeeps DEF Begins
  <2>3. doing.conn = c /\ doing.at = "tool"
    OBVIOUS
  <2> HIDE DEF doing
  <2> QED BY <2>1, <2>2, <2>3, BeginKeeps
<1>3. ASSUME NEW c \in Conns, NextCall(w, c)
      PROVE  IInv'
  <2> DEFINE conn == connections[c]
             pos == conn.current_position
             len == Len(conn.cached_results)
             hit == Reading("hit", c, <<>>, IF pos < len THEN pos ELSE len,
                            FALSE)
             miss == Reading("next", c, conn.query_chain, pos, FALSE)
  <2>1. Begins(w, c, book[c]) /\ connections' = connections
    BY <1>3 DEF NextCall
  <2>2. OnlyChanges(c)
    BY <2>1, NotedKeeps DEF Begins, OnlyChanges
  <2>3. /\ hit.conn = c /\ hit.at = "hit"
        /\ miss.conn = c /\ miss.at = "next"
    OBVIOUS
  <2>4. \/ Take(w, hit) /\ conn.cached_results # None
        \/ Take(w, miss)
    BY <1>3 DEF NextCall
  <2> HIDE DEF hit, miss
  <2>5. CASE Take(w, hit) /\ conn.cached_results # None
    BY <2>5, <2>1, <2>2, <2>3, BeginKeeps
  <2>6. CASE Take(w, miss)
    BY <2>6, <2>1, <2>2, <2>3, BeginKeeps
  <2> QED BY <2>4, <2>5, <2>6
<1>4. ASSUME NEW c \in Conns, NEW drop \in BOOLEAN, CollectCall(w, c, drop)
      PROVE  IInv'
  <2> DEFINE doing == Reading("collect", c, connections[c].query_chain, 0,
                              drop)
  <2>1. /\ Begins(w, c, book[c]) /\ connections' = connections
        /\ Take(w, doing)
    BY <1>4 DEF CollectCall
  <2>2. OnlyChanges(c)
    BY <2>1, NotedKeeps DEF Begins, OnlyChanges
  <2>3. doing.conn = c /\ doing.at = "collect"
    OBVIOUS
  <2> HIDE DEF doing
  <2> QED BY <2>1, <2>2, <2>3, BeginKeeps
<1>5. ASSUME NEW c \in Conns, SearchCall(w, c)
      PROVE  IInv'
  <2> DEFINE doing == Reading("search", c, <<>>, 0, FALSE)
  <2>1. /\ Begins(w, c, book[c]) /\ connections' = connections
        /\ Take(w, doing)
    BY <1>5 DEF SearchCall
  <2>2. OnlyChanges(c)
    BY <2>1, NotedKeeps DEF Begins, OnlyChanges
  <2>3. doing.conn = c /\ doing.at = "search"
    OBVIOUS
  <2> HIDE DEF doing
  <2> QED BY <2>1, <2>2, <2>3, BeginKeeps
<1>6. ASSUME NEW c \in Conns, QueryCall(w, c)
      PROVE  IInv'
  <2> DEFINE doing == [at |-> "query", conn |-> c, taken |-> connections[c]]
  <2>1. /\ Begins(w, c, book[c]) /\ Take(w, doing)
        /\ connections' = [d \in DOMAIN connections \ {c} |-> connections[d]]
    BY <1>6 DEF QueryCall
  <2>2. OnlyChanges(c)
    BY <2>1, NotedKeeps DEF Begins, OnlyChanges
  <2>3. doing.conn = c /\ doing.at = "query"
    OBVIOUS
  <2> HIDE DEF doing
  <2> QED BY <2>1, <2>2, <2>3, BeginKeeps
<1> QED BY <1>1, <1>2, <1>3, <1>4, <1>5, <1>6, ResetKeeps DEF Calls

(* Whoever is at something other than nothing is busy.                       *)
LEMMA AtWork ==
    ASSUME NEW w \in Workers, call[w].at \notin {"idle", "dead"}
    PROVE  w \in Busy
  BY DEF Busy, Idle, Dead

LEMMA GoesKeep ==
    ASSUME IInv, NEW w \in Workers, Goes(w)
    PROVE  IInv'
<1> DEFINE c == call[w].conn
           Same == /\ connections' = connections /\ book' = book
                   /\ overlapped' = overlapped
<1>0. Same => OnlyChanges(c)
  BY DEF OnlyChanges
<1>1. CASE Execute(w)
  <2> DEFINE found == execute_query_chain(db, call[w].chain)
             ran == Ran(call[w], found.items, db)
  <2>1. w \in Busy /\ Same /\ (Take(w, ran) \/ Leave(w))
    BY <1>1, AtWork DEF Execute
  <2>2. CASE Leave(w)
    BY <2>1, <2>2, <1>0, ReturnKeeps
  <2>3. CASE Take(w, ran)
    <3>1. /\ ran.conn = c /\ ran.at = call[w].at
          /\ call[w].at \notin {"idle", "dead", "hit"}
      BY <1>1 DEF Ran, Execute
    <3> HIDE DEF ran
    <3>2. ran # Idle /\ ran # Dead
      BY <3>1 DEF Idle, Dead
    <3>3. call' = [v \in Workers |-> IF v = w THEN ran ELSE call[v]]
      BY <2>3 DEF IInv, Take
    <3>4. Busy' = Busy
      BY <2>1, <3>2, <3>3 DEF Busy
    <3>5. \A v \in Busy : /\ call'[v].conn = call[v].conn
                          /\ call'[v].at = call[v].at
      BY <3>1, <3>3 DEF Busy
    <3>6. Known' /\ Alone' /\ CacheKept'
      BY <2>1, <3>4, <3>5 DEF IInv, Known, Alone, CacheKept, Started
    <3>7. AbortNeedsOverlap'
      BY <2>1, <3>2, <3>3 DEF IInv, AbortNeedsOverlap, down
    <3> QED BY <3>3, <3>6, <3>7 DEF IInv
  <2> QED BY <2>1, <2>2, <2>3
<1>2. ASSUME NEW at \in {"tool", "next", "hit", "collect", "search"},
             Returns(w, at)
      PROVE  /\ w \in Busy /\ Leave(w) /\ overlapped' = overlapped
             /\ c \in DOMAIN connections
  BY <1>2, AtWork DEF Returns, Started
<1>3. CASE ToolReturn(w)
  <2>1. w \in Busy /\ Leave(w) /\ overlapped' = overlapped
    BY <1>2, <1>3 DEF ToolReturn
  <2>2. OnlyChanges(c)
    BY <1>3, KeepChanges, NotedKeeps DEF ToolReturn
  <2> QED BY <2>1, <2>2, ReturnKeeps
<1>4. CASE NextReturn(w)
  <2>1. w \in Busy /\ Leave(w) /\ overlapped' = overlapped
    BY <1>2, <1>4 DEF NextReturn
  <2>2. OnlyChanges(c)
    BY <1>4, KeepChanges, NotedKeeps DEF NextReturn
  <2> QED BY <2>1, <2>2, ReturnKeeps
<1>5. CASE HitReturn(w)
  <2>1. w \in Busy /\ Leave(w) /\ overlapped' = overlapped
    BY <1>2, <1>5 DEF HitReturn
  <2>2. OnlyChanges(c)
    BY <1>5, KeepChanges, NotedKeeps DEF HitReturn
  <2> QED BY <2>1, <2>2, ReturnKeeps
<1>6. CASE CollectReturn(w)
  <2>1. w \in Busy /\ Leave(w) /\ overlapped' = overlapped
    BY <1>2, <1>6 DEF CollectReturn
  <2>2. OnlyChanges(c)
    BY <1>0, <2>1, <1>6, KeepChanges, NotedKeeps DEF CollectReturn
  <2> QED BY <2>1, <2>2, ReturnKeeps
<1>7. ASSUME NEW found \in BOOLEAN, SearchReturn(w, found)
      PROVE  IInv'
  <2>1. w \in Busy /\ Leave(w) /\ overlapped' = overlapped
    BY <1>2, <1>7 DEF SearchReturn
  <2>2. OnlyChanges(c)
    BY <1>7, KeepChanges, NotedKeeps DEF SearchReturn
  <2> QED BY <2>1, <2>2, ReturnKeeps
<1>8. CASE SearchFails(w) \/ ReturnToNothing(w) \/ QueryFails(w)
  <2>1. w \in Busy /\ Leave(w) /\ Same
    BY <1>8, AtWork DEF SearchFails, ReturnToNothing, QueryFails
  <2> QED BY <2>1, <1>0, ReturnKeeps
<1>9. CASE QueryReturn(w)
  <2>1. w \in Busy /\ Leave(w) /\ overlapped' = overlapped
    BY <1>9, AtWork DEF QueryReturn
  <2>2. OnlyChanges(c)
    BY <1>9 DEF QueryReturn, OnlyChanges
  <2> QED BY <2>1, <2>2, ReturnKeeps
<1>10. CASE HitPanics(w)
  BY <1>10, PanicKeeps
<1> QED BY <1>1, <1>3, <1>4, <1>5, <1>6, <1>7, <1>8, <1>9, <1>10 DEF Goes

LEMMA NextSerial == IInv /\ [Next]_vars => IInv'
<1> SUFFICES ASSUME IInv, [Next]_vars PROVE IInv'
  OBVIOUS
<1>1. ASSUME NEW w \in Workers, Calls(w) PROVE IInv'
  BY <1>1, CallsKeep
<1>2. ASSUME NEW w \in Workers, Goes(w) PROVE IInv'
  BY <1>2, GoesKeep
<1>3. CASE Write \/ UNCHANGED vars
  BY <1>3 DEF Write, vars, IInv, Known, Alone, CacheKept,
              AbortNeedsOverlap, down, Busy, Started
<1> QED BY <1>1, <1>2, <1>3 DEF Next

LEMMA InitSerial == Init => IInv
  BY DEF Init, IInv, Known, Alone, CacheKept, AbortNeedsOverlap, down, Busy,
         Idle, Dead

(* The unwrap of next under its second lock (mcp.rs): as long as no session  *)
(* has two calls under way together, the server does not abort.              *)
THEOREM SerialAgentsNeverAbort == Spec => []AbortNeedsOverlap
<1>1. IInv => AbortNeedsOverlap
  BY DEF IInv
<1> QED BY <1>1, InitSerial, NextSerial, PTL DEF Spec

-----------------------------------------------------------------------------
(* Lists.  What an iterator yields is a finite sequence; of what is in it    *)
(* nothing is known.                                                         *)

Entries(s) == {s[k] : k \in DOMAIN s}
IsList(s) == s \in Seq(Entries(s))

LEMMA ListMade ==
    ASSUME NEW n \in Nat, NEW s, s = [k \in 1 .. n |-> s[k]]
    PROVE  IsList(s) /\ Len(s) = n
<1>1. DOMAIN s = 1 .. n /\ s \in [1 .. n -> Entries(s)]
  BY DEF Entries
<1>2. s \in Seq(Entries(s))
  BY <1>1, SeqDef
<1> QED BY <1>1, <1>2, LenProperties DEF IsList

LEMMA ListFacts ==
    ASSUME NEW s, IsList(s)
    PROVE  /\ Len(s) \in Nat /\ DOMAIN s = 1 .. Len(s)
           /\ s = [k \in 1 .. Len(s) |-> s[k]]
           /\ IsFiniteSet(DOMAIN s)
           /\ s # <<>> <=> 0 < Len(s)
<1>1. Len(s) \in Nat /\ DOMAIN s = 1 .. Len(s) /\ s = [k \in 1 .. Len(s) |-> s[k]]
  BY LenProperties DEF IsList
<1>2. IsFiniteSet(DOMAIN s)
  BY <1>1, FS_Interval
<1>3. s # <<>> <=> 0 < Len(s)
  BY <1>1, EmptySeq DEF IsList
<1> QED BY <1>1, <1>2, <1>3

LEMMA ListIn ==
    ASSUME NEW S, NEW s \in Seq(S)
    PROVE  IsList(s)
<1>1. Len(s) \in Nat /\ DOMAIN s = 1 .. Len(s) /\ s = [k \in 1 .. Len(s) |-> s[k]]
  BY LenProperties
<1> QED BY <1>1, ListMade

(* What is listed in the order of a finite set of numbers.                   *)
LEMMA OrderedList ==
    ASSUME NEW S, IsFiniteSet(S), NEW s, s = [k \in 1 .. Cardinality(S) |-> s[k]]
    PROVE  IsList(s)
  BY FS_CardinalityType, ListMade

(* The library states induction for operators, which the provers cannot      *)
(* instantiate; that < is well founded gives the same facts: a nonempty set *)
(* of natural numbers has a least element.                                  *)
LEMMA LeastNumber ==
    ASSUME NEW S \in SUBSET Nat, S # {}
    PROVE  \E n \in S : \A m \in S : n <= m
<1> DEFINE R == {p \in Nat \X Nat : p[1] < p[2]}
<1>1. IsWellFoundedOn(R, Nat)
  BY NatLessThanWellFounded DEF OpToRel
<1> HIDE DEF R
<1>2. PICK n \in S : \A m \in S : <<m, n>> \notin R
  BY <1>1, WFMin
<1>3. \A m \in S : ~ (m < n)
  BY <1>2 DEF R
<1> QED BY <1>3

(* The lists of a list, one after the other: FlattenSeq is a recursive       *)
(* function on the positions, which exists up to each of them.               *)
Joined(s, n, f) ==
    f = [i \in 1 .. n |-> IF i = 1 THEN s[i] ELSE f[i - 1] \o s[i]]

LEMMA JoinedExists ==
    ASSUME NEW s, NEW n \in Nat
    PROVE  \E f : Joined(s, n, f)
<1> DEFINE Bad == {m \in Nat : ~ \E f : Joined(s, m, f)}
<1>1. ASSUME Bad # {} PROVE FALSE
  <2>1. PICK m \in Bad : \A k \in Bad : m <= k
    <3>1. Bad \in SUBSET Nat
      OBVIOUS
    <3> HIDE DEF Bad
    <3> QED BY <1>1, <3>1, LeastNumber
  <2>2. m \in Nat /\ ~ \E f : Joined(s, m, f)
    BY <2>1
  <2>3. m # 0
    <3> DEFINE z == [i \in 1 .. 0 |-> 0]
    <3>1. Joined(s, 0, z)
      BY DEF Joined
    <3> QED BY <2>2, <3>1
  <2>4. m - 1 \in Nat /\ ~ (m <= m - 1)
    BY <2>2, <2>3
  <2>5. m - 1 \notin Bad
    <3> HIDE DEF Bad
    <3> QED BY <2>1, <2>4
  <2>6. PICK f : Joined(s, m - 1, f)
    BY <2>4, <2>5
  <2> DEFINE h == [i \in 1 .. m |-> IF i = 1 THEN s[i] ELSE f[i - 1] \o s[i]]
  <2>7. ASSUME NEW i \in 1 .. m - 1 PROVE h[i] = f[i]
    <3>1. f[i] = IF i = 1 THEN s[i] ELSE f[i - 1] \o s[i]
      BY <2>6 DEF Joined
    <3> QED BY <2>2, <3>1
  <2>8. ASSUME NEW i \in 1 .. m, i # 1 PROVE h[i - 1] = f[i - 1]
    <3>1. i - 1 \in 1 .. m - 1
      BY <2>2, <2>8
    <3> HIDE DEF h
    <3> QED BY <3>1, <2>7
  <2>9. Joined(s, m, h)
    <3>1. h = [i \in 1 .. m |-> IF i = 1 THEN s[i] ELSE h[i - 1] \o s[i]]
      BY <2>8
    <3> HIDE DEF h
    <3> QED BY <3>1 DEF Joined
  <2> QED BY <2>2, <2>9
<1> QED BY <1>1

LEMMA FlattenedList ==
    ASSUME NEW s, IsList(s), \A k \in DOMAIN s : IsList(s[k])
    PROVE  IsList(FlattenSeq(s))
<1> DEFINE n == Len(s)
           U == UNION {Entries(s[k]) : k \in DOMAIN s}
           F == CHOOSE f : Joined(s, n, f)
<1>1. n \in Nat /\ DOMAIN s = 1 .. n
  BY ListFacts
<1>2. \A k \in 1 .. n : s[k] \in Seq(U)
  <2> SUFFICES ASSUME NEW k \in 1 .. n PROVE s[k] \in Seq(U)
    OBVIOUS
  <2>1. /\ Len(s[k]) \in Nat /\ DOMAIN s[k] = 1 .. Len(s[k])
        /\ s[k] = [i \in 1 .. Len(s[k]) |-> s[k][i]]
    BY <1>1, ListFacts
  <2>2. \A i \in DOMAIN s[k] : s[k][i] \in U
    BY <1>1 DEF Entries
  <2>3. s[k] \in [1 .. Len(s[k]) -> U]
    BY <2>1, <2>2
  <2> QED BY <2>1, <2>3, SeqDef
<1>3. CASE n = 0
  <2>1. FlattenSeq(s) = s
    BY <1>3 DEF FlattenSeq
  <2> QED BY <2>1
<1>4. CASE n # 0
  <2>1. Joined(s, n, F)
    BY <1>1, JoinedExists
  <2>2. FlattenSeq(s) = F[n]
    BY <1>4 DEF FlattenSeq, Joined
  <2> HIDE DEF F
  <2> DEFINE Bad == {i \in 1 .. n : F[i] \notin Seq(U)}
  <2>3. ASSUME Bad # {} PROVE FALSE
    <3>1. PICK i \in Bad : \A j \in Bad : i <= j
      <4>1. Bad \in SUBSET Nat
        OBVIOUS
      <4> HIDE DEF Bad
      <4> QED BY <2>3, <4>1, LeastNumber
    <3>2. i \in 1 .. n /\ F[i] \notin Seq(U)
      BY <3>1
    <3>3. F[i] = IF i = 1 THEN s[i] ELSE F[i - 1] \o s[i]
      BY <2>1, <3>2 DEF Joined
    <3>4. i # 1
      BY <1>2, <3>2, <3>3
    <3>5. i - 1 \in 1 .. n /\ ~ (i <= i - 1)
      BY <1>1, <3>2, <3>4
    <3>6. i - 1 \notin Bad
      <4> HIDE DEF Bad
      <4> QED BY <3>1, <3>5
    <3>7. F[i - 1] \in Seq(U) /\ s[i] \in Seq(U)
      BY <1>2, <3>2, <3>5, <3>6
    <3>8. F[i - 1] \o s[i] \in Seq(U)
      BY <3>7, ConcatProperties
    <3> QED BY <3>2, <3>3, <3>4, <3>8
  <2>4. F[n] \in Seq(U)
    BY <1>1, <1>4, <2>3
  <2> QED BY <2>2, <2>4, ListIn
<1> QED BY <1>3, <1>4

-----------------------------------------------------------------------------
(* Steps.                                                                    *)

LEMMA PassingList ==
    ASSUME NEW g, NEW items, IsList(items), NEW filter
    PROVE  /\ IsList(Readable(items))
           /\ IsList(apply_filter(g, items, filter))
<1> DEFINE K == {k \in DOMAIN items : items[k].kind # "error"}
           M == {k \in DOMAIN items : matches_filter(g, items[k], filter)}
<1>1. IsFiniteSet(K) /\ IsFiniteSet(M)
  BY ListFacts, FS_Subset
<1>2. IsList(Readable(items))
  <2>1. Readable(items) = [p \in 1 .. Cardinality(K) |-> Readable(items)[p]]
    BY DEF Readable, Passing, InOrder
  <2> HIDE DEF K
  <2> QED BY <1>1, <2>1, OrderedList
<1>3. IsList(apply_filter(g, items, filter))
  <2>1. CASE filter = None
    BY <2>1 DEF apply_filter
  <2>2. CASE filter # None
    <3>1. apply_filter(g, items, filter) =
            [p \in 1 .. Cardinality(M) |-> apply_filter(g, items, filter)[p]]
      BY <2>2 DEF apply_filter, Passing, InOrder
    <3> HIDE DEF M
    <3> QED BY <1>1, <3>1, OrderedList
  <2> QED BY <2>1, <2>2
<1> QED BY <1>2, <1>3

LEMMA HopList ==
    ASSUME NEW g \in Graphs, NEW items, IsList(items), NEW label, NEW hop
    PROVE  /\ IsList(Out(g, items, label, hop))
           /\ IsList(In(g, items, label, hop))
           /\ IsList(OutE(g, items, label))
           /\ IsList(InE(g, items, label))
<1>1. Len(items) \in Nat /\ DOMAIN items = 1 .. Len(items)
  BY ListFacts
<1>2. IsFiniteSet(DOMAIN g.edges)
  BY GraphAssumption
<1> DEFINE ahead == [k \in DOMAIN items |->
                     Readable(InOrder(Outgoing(g, items[k].id, label),
                                      LAMBDA e : End(g, g.edges[e].to, hop)))]
           behind == [k \in DOMAIN items |->
                     Readable(InOrder(Incoming(g, items[k].id, label),
                                      LAMBDA e : End(g, g.edges[e].from, hop)))]
           out == [k \in DOMAIN items |->
                     InOrder(Outgoing(g, items[k].id, label),
                             LAMBDA e : EdgeItem(g, e))]
           in == [k \in DOMAIN items |->
                     InOrder(Incoming(g, items[k].id, label),
                             LAMBDA e : EdgeItem(g, e))]
<1>5. IsList(ahead) /\ IsList(behind) /\ IsList(out) /\ IsList(in)
  BY <1>1, ListMade
<1>6. ASSUME NEW k \in DOMAIN ahead PROVE IsList(ahead[k])
  <2> DEFINE R == Outgoing(g, items[k].id, label)
             s == InOrder(R, LAMBDA e : End(g, g.edges[e].to, hop))
  <2>1. IsFiniteSet(R)
    BY <1>2, FS_Subset DEF Outgoing
  <2>2. s = [p \in 1 .. Cardinality(R) |-> s[p]]
    BY DEF InOrder
  <2>3. ahead[k] = Readable(s)
    OBVIOUS
  <2> HIDE DEF R, s, ahead
  <2>4. IsList(s)
    BY <2>1, <2>2, OrderedList
  <2> QED BY <2>3, <2>4, PassingList
<1>7. ASSUME NEW k \in DOMAIN behind PROVE IsList(behind[k])
  <2> DEFINE R == Incoming(g, items[k].id, label)
             s == InOrder(R, LAMBDA e : End(g, g.edges[e].from, hop))
  <2>1. IsFiniteSet(R)
    BY <1>2, FS_Subset DEF Incoming
  <2>2. s = [p \in 1 .. Cardinality(R) |-> s[p]]
    BY DEF InOrder
  <2>3. behind[k] = Readable(s)
    OBVIOUS
  <2> HIDE DEF R, s, behind
  <2>4. IsList(s)
    BY <2>1, <2>2, OrderedList
  <2> QED BY <2>3, <2>4, PassingList
<1>8. ASSUME NEW k \in DOMAIN out PROVE IsList(out[k])
  <2> DEFINE R == Outgoing(g, items[k].id, label)
             s == InOrder(R, LAMBDA e : EdgeItem(g, e))
  <2>1. IsFiniteSet(R)
    BY <1>2, FS_Subset DEF Outgoing
  <2>2. s = [p \in 1 .. Cardinality(R) |-> s[p]]
    BY DEF InOrder
  <2>3. out[k] = s
    OBVIOUS
  <2> HIDE DEF R, s, out
  <2>4. IsList(s)
    BY <2>1, <2>2, OrderedList
  <2> QED BY <2>3, <2>4
<1>9. ASSUME NEW k \in DOMAIN in PROVE IsList(in[k])
  <2> DEFINE R == Incoming(g, items[k].id, label)
             s == InOrder(R, LAMBDA e : EdgeItem(g, e))
  <2>1. IsFiniteSet(R)
    BY <1>2, FS_Subset DEF Incoming
  <2>2. s = [p \in 1 .. Cardinality(R) |-> s[p]]
    BY DEF InOrder
  <2>3. in[k] = s
    OBVIOUS
  <2> HIDE DEF R, s, in
  <2>4. IsList(s)
    BY <2>1, <2>2, OrderedList
  <2> QED BY <2>3, <2>4
<1>10. /\ Out(g, items, label, hop) = FlattenSeq(ahead)
       /\ In(g, items, label, hop) = FlattenSeq(behind)
       /\ OutE(g, items, label) = FlattenSeq(out)
       /\ InE(g, items, label) = FlattenSeq(in)
  BY DEF Out, In, OutE, InE, FlatMap
<1> HIDE DEF ahead, behind, out, in
<1> QED BY <1>5, <1>6, <1>7, <1>8, <1>9, <1>10, FlattenedList

LEMMA StepList ==
    ASSUME NEW g \in Graphs, NEW items, IsList(items), NEW t \in Tools,
           t.op \notin Unsupported
    PROVE  IsList(Step(g, items, t))
<1>1. Len(items) \in Nat /\ DOMAIN items = 1 .. Len(items)
  BY ListFacts
<1>2. t.op \in Supported /\ t.n \in Nat
  BY McpAssumption
<1>3. IsList(NFromType(g, t.label)) /\ IsList(EFromType(g, t.label))
  <2> DEFINE N == {i \in DOMAIN g.nodes : g.nodes[i].label = t.label}
             E == {i \in DOMAIN g.edges : g.edges[i].label = t.label}
  <2>1. IsFiniteSet(N) /\ IsFiniteSet(E)
    BY GraphAssumption, FS_Subset
  <2>2. /\ NFromType(g, t.label) =
             [p \in 1 .. Cardinality(N) |-> NFromType(g, t.label)[p]]
        /\ EFromType(g, t.label) =
             [p \in 1 .. Cardinality(E) |-> EFromType(g, t.label)[p]]
    BY DEF NFromType, EFromType, InOrder
  <2> HIDE DEF N, E
  <2> QED BY <2>1, <2>2, OrderedList
<1>4. IsList(OrderBy(items, t.via))
  <2>1. OrderBy(items, t.via) =
          [p \in 1 .. Len(items) |-> OrderBy(items, t.via)[p]]
    BY <1>1 DEF OrderBy
  <2> QED BY <1>1, <2>1, ListMade
<1>5. IsList(Range_(items, 0, t.n))
  <2> DEFINE end == IF t.n < Len(items) THEN t.n ELSE Len(items)
  <2>1. end \in Nat /\ end <= Len(items)
    BY <1>1, <1>2
  <2>2. Range_(items, 0, t.n) = SubSeq(items, 1, end)
    BY DEF Range_
  <2> HIDE DEF end
  <2>3. SubSeq(items, 1, end) \in Seq(Entries(items))
    BY <1>1, <2>1, SubSeqProperties DEF Entries
  <2> QED BY <2>2, <2>3, ListIn
<1> QED BY <1>2, <1>3, <1>4, <1>5, HopList DEF Step, Supported

-----------------------------------------------------------------------------
(* Chains.  FoldLeft takes the steps of a chain off its end, by a recursive  *)
(* function on sets of positions: what it is for a set of n positions rests  *)
(* on what it is for n - 1.                                                  *)

Applied(g, found, t) ==
    IF ~found.ok \/ t.op \in Unsupported
    THEN [ok |-> FALSE, items |-> <<>>]
    ELSE [ok |-> TRUE, items |-> apply_filter(g, Step(g, found.items, t), t.filter)]

AfterLast(g, chain, s, f) ==
    IF s = {} THEN [ok |-> TRUE, items |-> <<EmptyItem>>]
    ELSE Applied(g, f[s \ {Max(s)}], chain[Max(s)])

Follows(g, chain, f, D) == f = [s \in D |-> AfterLast(g, chain, s, f)]

Folded(g, chain) == CHOOSE f : Follows(g, chain, f, SUBSET DOMAIN chain)

LEMMA ChainFolded ==
    ASSUME NEW g, NEW chain
    PROVE  execute_query_chain(g, chain) = Folded(g, chain)[DOMAIN chain]
  BY DEF execute_query_chain, FoldLeft, MapThenFoldSet, Folded, Follows,
         AfterLast, Applied

LEMMA LastPosition ==
    ASSUME NEW n \in Nat, NEW s \in SUBSET (1 .. n), s # {}
    PROVE  Max(s) \in s
<1> DEFINE gaps == {n - k : k \in s}
<1>0. \A k \in s : k \in Int /\ n - k \in Nat
  OBVIOUS
<1>1. gaps \in SUBSET Nat /\ gaps # {}
  BY <1>0
<1>2. PICK m \in gaps : \A k \in gaps : m <= k
  <2> HIDE DEF gaps
  <2> QED BY <1>1, LeastNumber
<1>3. PICK x \in s : m = n - x
  BY <1>2
<1>4. \A y \in s : x >= y
  <2> SUFFICES ASSUME NEW y \in s PROVE x >= y
    OBVIOUS
  <2>1. n - x <= n - y
    BY <1>2, <1>3
  <2>2. x \in Int /\ y \in Int
    BY <1>0, <1>3
  <2> QED BY <2>1, <2>2
<1> QED BY <1>4 DEF Max

LEMMA FoldedExists ==
    ASSUME NEW g, NEW S, NEW chain \in Seq(S)
    PROVE  Follows(g, chain, Folded(g, chain), SUBSET DOMAIN chain)
<1> DEFINE D == DOMAIN chain
           Upto(n) == {s \in SUBSET D : Cardinality(s) <= n}
           Bad == {n \in Nat : ~ \E f : Follows(g, chain, f, Upto(n))}
<1>1. Len(chain) \in Nat /\ D = 1 .. Len(chain) /\ IsFiniteSet(D)
  BY LenProperties, FS_Interval
<1>2. \A s \in SUBSET D : IsFiniteSet(s) /\ Cardinality(s) \in Nat
  BY <1>1, FS_Subset, FS_CardinalityType
<1>3. ASSUME Bad # {} PROVE FALSE
  <2>1. PICK n \in Bad : \A m \in Bad : n <= m
    <3>1. Bad \in SUBSET Nat
      OBVIOUS
    <3> HIDE DEF Bad
    <3> QED BY <1>3, <3>1, LeastNumber
  <2>2. n \in Nat /\ ~ \E f : Follows(g, chain, f, Upto(n))
    BY <2>1
  <2>3. CASE n = 0
    <3> DEFINE z == [s \in Upto(0) |-> [ok |-> TRUE, items |-> <<EmptyItem>>]]
    <3>1. \A s \in Upto(0) : s = {}
      BY <1>2, FS_EmptySet
    <3>2. Follows(g, chain, z, Upto(0))
      BY <3>1 DEF Follows, AfterLast
    <3> QED BY <2>2, <2>3, <3>2
  <2>4. CASE n # 0
    <3>1. n - 1 \in Nat /\ n - 1 \notin Bad
      <4>1. n - 1 \in Nat /\ ~ (n <= n - 1)
        BY <2>2, <2>4
      <4> HIDE DEF Bad
      <4> QED BY <2>1, <4>1
    <3>2. PICK f : Follows(g, chain, f, Upto(n - 1))
      BY <3>1
    <3> DEFINE h == [s \in Upto(n) |-> AfterLast(g, chain, s, f)]
    <3>3. ASSUME NEW s \in Upto(n), s # {}
          PROVE  s \ {Max(s)} \in Upto(n - 1)
      <4>1. Max(s) \in s
        BY <1>1, <3>3, LastPosition
      <4>2. Cardinality(s \ {Max(s)}) = Cardinality(s) - 1
        BY <1>2, <4>1, FS_RemoveElement
      <4> QED BY <1>2, <2>2, <4>2
    <3>4. ASSUME NEW s \in Upto(n - 1) PROVE h[s] = f[s]
      <4>1. s \in Upto(n)
        BY <1>2, <2>2
      <4>2. f[s] = AfterLast(g, chain, s, f)
        BY <3>2 DEF Follows
      <4> QED BY <4>1, <4>2
    <3>5. ASSUME NEW s \in Upto(n)
          PROVE  AfterLast(g, chain, s, f) = AfterLast(g, chain, s, h)
      <4>1. s # {} => h[s \ {Max(s)}] = f[s \ {Max(s)}]
        BY <3>3, <3>4
      <4> HIDE DEF h
      <4> QED BY <4>1 DEF AfterLast
    <3>6. h = [s \in Upto(n) |-> AfterLast(g, chain, s, h)]
      BY <3>5
    <3> QED BY <2>2, <3>6 DEF Follows
  <2> QED BY <2>3, <2>4
<1>4. PICK f : Follows(g, chain, f, Upto(Cardinality(D)))
  BY <1>1, <1>2, <1>3
<1>5. Upto(Cardinality(D)) = SUBSET D
  BY <1>1, FS_Subset
<1>6. Follows(g, chain, f, SUBSET D)
  BY <1>4, <1>5
<1> QED BY <1>6 DEF Folded

(* A chain yields a list, or fails.                                          *)
IsResult(r) ==
    /\ r = [ok |-> r.ok, items |-> r.items]
    /\ r.ok \in BOOLEAN
    /\ IsList(r.items)

LEMMA AppliedResult ==
    ASSUME NEW g \in Graphs, NEW found, IsResult(found), NEW t \in Tools
    PROVE  IsResult(Applied(g, found, t))
<1>1. CASE ~found.ok \/ t.op \in Unsupported
  <2>1. IsList(<<>>)
    BY EmptySeq DEF IsList
  <2> QED BY <1>1, <2>1 DEF Applied, IsResult
<1>2. CASE found.ok /\ t.op \notin Unsupported
  <2> DEFINE items == apply_filter(g, Step(g, found.items, t), t.filter)
  <2>1. IsList(items)
    BY <1>2, StepList, PassingList DEF IsResult
  <2>2. Applied(g, found, t) = [ok |-> TRUE, items |-> items]
    BY <1>2 DEF Applied
  <2> HIDE DEF items
  <2> QED BY <2>1, <2>2 DEF IsResult
<1> QED BY <1>1, <1>2 DEF IsResult

LEMMA ChainResult ==
    ASSUME NEW g \in Graphs, NEW chain \in Seq(Tools)
    PROVE  IsResult(execute_query_chain(g, chain))
<1> DEFINE D == DOMAIN chain
           f == Folded(g, chain)
           Bad == {s \in SUBSET D : ~ IsResult(f[s])}
           Sizes == {Cardinality(s) : s \in Bad}
<1>1. Len(chain) \in Nat /\ D = 1 .. Len(chain) /\ IsFiniteSet(D)
  BY LenProperties, FS_Interval
<1>2. \A s \in SUBSET D : IsFiniteSet(s) /\ Cardinality(s) \in Nat
  BY <1>1, FS_Subset, FS_CardinalityType
<1>3. \A k \in D : chain[k] \in Tools
  BY <1>1, ElementOfSeq
<1>4. \A s \in SUBSET D : f[s] = AfterLast(g, chain, s, f)
  BY FoldedExists, ZenonT(60) DEF Follows
<1> HIDE DEF f
<1>5. ASSUME Bad # {} PROVE FALSE
  <2>1. Sizes \in SUBSET Nat /\ Sizes # {}
    BY <1>2, <1>5
  <2>2. PICK n \in Sizes : \A m \in Sizes : n <= m
    <3> HIDE DEF Sizes
    <3> QED BY <2>1, LeastNumber
  <2>3. PICK s \in SUBSET D : Cardinality(s) = n /\ ~ IsResult(f[s])
    BY <2>2
  <2>4. CASE s = {}
    <3>1. IsList(<<EmptyItem>>)
      <4>1. <<EmptyItem>> \in Seq({EmptyItem})
        OBVIOUS
      <4> QED BY <4>1, ListIn
    <3>2. f[s] = [ok |-> TRUE, items |-> <<EmptyItem>>]
      BY <1>4, <2>4 DEF AfterLast
    <3> QED BY <2>3, <3>1, <3>2 DEF IsResult
  <2>5. CASE s # {}
    <3> DEFINE k == Max(s)
    <3>1. k \in s /\ k \in D
      BY <1>1, <2>5, LastPosition
    <3> HIDE DEF k
    <3>2. Cardinality(s \ {k}) = Cardinality(s) - 1 /\ Cardinality(s) \in Nat
      BY <1>2, <3>1, FS_RemoveElement
    <3>3. IsResult(f[s \ {k}])
      <4>1. s \ {k} \in SUBSET D /\ ~ (n <= Cardinality(s \ {k}))
        BY <2>3, <3>2
      <4> QED BY <2>2, <4>1
    <3>4. f[s] = Applied(g, f[s \ {k}], chain[k])
      BY <1>4, <2>5 DEF AfterLast, k
    <3>5. chain[k] \in Tools
      BY <1>3, <3>1
    <3> QED BY <2>3, <3>3, <3>4, <3>5, AppliedResult
  <2> QED BY <2>4, <2>5
<1>6. IsResult(f[D])
  BY <1>5
<1> QED BY <1>6, ChainFolded DEF f

-----------------------------------------------------------------------------
(* Pages.  What is known of a session no two calls of which overlapped.      *)

FirstPage(items) == IF 0 < Len(items) THEN <<items[1]>> ELSE <<>>

Shaped(conn, b) ==
    /\ conn = [query_chain |-> conn.query_chain,
               current_position |-> conn.current_position,
               cached_results |-> conn.cached_results]
    /\ conn.query_chain \in Seq(Tools) /\ Len(conn.query_chain) <= MaxChain
    /\ conn.current_position \in Nat
    /\ b = [pages |-> b.pages, seen |-> b.seen, moved |-> b.moved,
            searched |-> b.searched]

(* A cache is what the chain yields, and the pages are what has been read of *)
(* it.                                                                       *)
CacheRight(conn, b) ==
    /\ \E g \in Graphs :
          execute_query_chain(g, conn.query_chain) =
              [ok |-> TRUE, items |-> conn.cached_results]
    /\ ~b.moved /\ ~b.searched =>
          /\ conn.current_position <= Len(conn.cached_results)
          /\ b.pages = SubSeq(conn.cached_results, 1, conn.current_position)

(* Without a cache there is at most the first page, which the answer to the  *)
(* last step was, and the position is after it.                              *)
FirstRight(conn, b) ==
    \/ b.seen = None /\ b.pages = <<>> /\ conn.current_position = 0
    \/ /\ b.seen \in Graphs
       /\ LET found == execute_query_chain(b.seen, conn.query_chain)
          IN  /\ found.ok
              /\ conn.current_position = consumed_one(found.items)
              /\ b.pages = FirstPage(found.items)

SessionRight(conn, b) ==
    /\ Shaped(conn, b)
    /\ conn.cached_results # None => CacheRight(conn, b)
    /\ conn.cached_results = None /\ ~b.searched => FirstRight(conn, b)

(* A call that has read its session knows what is still so.                  *)
HasRun(k) ==
    k.ran => /\ k.seen \in Graphs
             /\ execute_query_chain(k.seen, k.chain) = [ok |-> TRUE, items |-> k.items]

ToolRight(k, conn, b) ==
    /\ k.chain = conn.query_chain /\ conn.cached_results = None
    /\ conn.current_position = 0 /\ b = NewBook
    /\ HasRun(k)

NextRight(k, conn) ==
    /\ k.chain = conn.query_chain /\ conn.cached_results = None
    /\ k.position = conn.current_position
    /\ HasRun(k)

HitRight(k, conn) ==
    /\ conn.cached_results # None
    /\ k.position = IF conn.current_position < Len(conn.cached_results)
                    THEN conn.current_position ELSE Len(conn.cached_results)

CallRight(w) ==
    LET c == call[w].conn IN
    /\ call[w].at = "query" => SessionRight(call[w].taken, book[c])
    /\ Started(c) /\ call[w].at = "tool" =>
          ToolRight(call[w], connections[c], book[c])
    /\ Started(c) /\ call[w].at = "next" => NextRight(call[w], connections[c])
    /\ Started(c) /\ call[w].at = "hit" => HitRight(call[w], connections[c])

PagesInv ==
    /\ db \in Graphs
    /\ connections = [c \in DOMAIN connections |-> connections[c]]
    /\ book = [c \in DOMAIN book |-> book[c]]
    /\ \A c \in DOMAIN connections \ overlapped : SessionRight(connections[c], book[c])
    /\ \A w \in Busy : call[w].conn \notin overlapped => CallRight(w)

-----------------------------------------------------------------------------
(* The steps of a session.                                                   *)

LEMMA ResultIs ==
    ASSUME NEW g \in Graphs, NEW chain \in Seq(Tools), Len(chain) <= MaxChain
    PROVE  LET found == execute_query_chain(g, chain)
           IN  /\ IsList(found.items) /\ found.items # None
               /\ found.ok => found = [ok |-> TRUE, items |-> found.items]
<1>1. /\ Len(chain) \in 0 .. MaxChain /\ chain \in [1 .. Len(chain) -> Tools]
  BY McpAssumption, LenProperties
<1>2. execute_query_chain(g, chain).items # None
  BY <1>1, ResultAssumption
<1> QED BY <1>2, ChainResult DEF IsResult

LEMMA NewBookIs ==
    /\ NewBook = [pages |-> NewBook.pages, seen |-> NewBook.seen, moved |-> NewBook.moved,
                  searched |-> NewBook.searched]
    /\ NewBook.pages = <<>> /\ NewBook.seen = None /\ ~NewBook.moved /\ ~NewBook.searched
  BY DEF NewBook

LEMMA PagePrefixes ==
    ASSUME NEW s, IsList(s)
    PROVE  /\ SubSeq(s, 1, 0) = <<>>
           /\ 0 < Len(s) => SubSeq(s, 1, 1) = <<s[1]>>
           /\ \A p \in Nat : p < Len(s) =>
                 Append(SubSeq(s, 1, p), s[p + 1]) = SubSeq(s, 1, p + 1)
<1>1. Len(s) \in Nat /\ DOMAIN s = 1 .. Len(s)
  BY ListFacts
<1>2. SubSeq(s, 1, 0) = <<>>
  BY SubSeqEmpty
<1>3. ASSUME NEW p \in Nat, p < Len(s)
      PROVE  Append(SubSeq(s, 1, p), s[p + 1]) = SubSeq(s, 1, p + 1)
  <2> DEFINE a == SubSeq(s, 1, p)
             b == SubSeq(s, 1, p + 1)
  <2>1. /\ a \in Seq(Entries(s)) /\ Len(a) = p
        /\ \A i \in 1 .. p : a[i] = s[i]
    BY <1>1, <1>3, SubSeqProperties DEF Entries
  <2>2. /\ b \in Seq(Entries(s)) /\ Len(b) = p + 1
        /\ \A i \in 1 .. p + 1 : b[i] = s[i]
    BY <1>1, <1>3, SubSeqProperties DEF Entries
  <2>3. s[p + 1] \in Entries(s)
    BY <1>1, <1>3 DEF Entries
  <2> HIDE DEF a, b
  <2>4. /\ Append(a, s[p + 1]) \in Seq(Entries(s))
        /\ Len(Append(a, s[p + 1])) = p + 1
        /\ \A i \in 1 .. p + 1 : Append(a, s[p + 1])[i] = IF i = p + 1 THEN s[p + 1] ELSE a[i]
    BY <2>1, <2>3, AppendProperties
  <2>5. \A i \in 1 .. p + 1 : Append(a, s[p + 1])[i] = b[i]
    BY <2>1, <2>2, <2>4
  <2> QED BY <2>2, <2>4, <2>5, SeqEqual DEF a, b
<1>4. ASSUME 0 < Len(s) PROVE SubSeq(s, 1, 1) = <<s[1]>>
  <2>1. /\ SubSeq(s, 1, 1) \in Seq(Entries(s)) /\ Len(SubSeq(s, 1, 1)) = 1
        /\ \A i \in 1 .. 1 : SubSeq(s, 1, 1)[i] = s[i]
    BY <1>1, <1>4, SubSeqProperties DEF Entries
  <2>2. <<s[1]>> \in Seq(Entries(s)) /\ Len(<<s[1]>>) = 1 /\ <<s[1]>>[1] = s[1]
    BY <1>1, <1>4 DEF Entries
  <2> DEFINE a == SubSeq(s, 1, 1)
             b == <<s[1]>>
  <2>3. /\ a \in Seq(Entries(s)) /\ b \in Seq(Entries(s)) /\ Len(a) = Len(b)
        /\ \A i \in 1 .. Len(a) : a[i] = b[i]
    BY <2>1, <2>2
  <2> HIDE DEF a, b
  <2>4. a = b
    BY <2>3, SeqEqual
  <2> QED BY <2>4 DEF a, b
<1> QED BY <1>2, <1>3, <1>4

(* Without a cache and before any page.                                      *)
LEMMA FreshRight ==
    ASSUME NEW conn, Shaped(conn, NewBook), conn.current_position = 0,
           conn.cached_results = None
    PROVE  SessionRight(conn, NewBook)
  BY NewBookIs DEF SessionRight, FirstRight

(* The answer to a step.                                                     *)
LEMMA ToolAnswered ==
    ASSUME NEW conn, NEW k, Shaped(conn, NewBook), ToolRight(k, conn, NewBook), k.ran
    PROVE  SessionRight([conn EXCEPT !.current_position = consumed_one(k.items)],
                        Turned([NewBook EXCEPT !.seen = k.seen], k.items, 0))
<1> DEFINE items == k.items
           c2 == [conn EXCEPT !.current_position = consumed_one(items)]
           b == [NewBook EXCEPT !.seen = k.seen]
           b2 == Turned(b, items, 0)
<1>1. /\ k.seen \in Graphs /\ k.chain = conn.query_chain
      /\ execute_query_chain(k.seen, k.chain) = [ok |-> TRUE, items |-> items]
  BY DEF ToolRight, HasRun
<1>2. IsList(items)
  <2>1. execute_query_chain(k.seen, k.chain).items = items
    BY <1>1
  <2> QED BY <1>1, <2>1, ResultIs DEF Shaped
<1>3. /\ c2.query_chain = conn.query_chain /\ c2.cached_results = None
      /\ c2.current_position = consumed_one(items)
      /\ c2 = [query_chain |-> c2.query_chain, current_position |-> c2.current_position,
               cached_results |-> c2.cached_results]
  BY DEF Shaped, ToolRight
<1>4. b = [pages |-> NewBook.pages, seen |-> k.seen, moved |-> NewBook.moved,
           searched |-> NewBook.searched]
  BY NewBookIs
<1>5. b2 = [pages |-> FirstPage(items), seen |-> k.seen, moved |-> NewBook.moved,
            searched |-> NewBook.searched]
  <2>1. Append(<<>>, items[1]) = <<items[1]>>
    OBVIOUS
  <2> HIDE DEF b, items
  <2>2. b2 = IF 0 < Len(items) THEN [b EXCEPT !.pages = Append(<<>>, items[1])] ELSE b
    BY <1>4, NewBookIs DEF Turned, b2
  <2>3. CASE 0 < Len(items)
    BY <1>4, <2>1, <2>2, <2>3, NewBookIs DEF FirstPage
  <2>4. CASE ~ (0 < Len(items))
    BY <1>4, <2>2, <2>4, NewBookIs DEF FirstPage
  <2> QED BY <2>3, <2>4
<1>6. consumed_one(items) \in Nat
  BY DEF consumed_one
<1> HIDE DEF items, c2, b, b2
<1>7. Shaped(c2, b2)
  BY <1>3, <1>5, <1>6 DEF Shaped
<1>8. FirstRight(c2, b2)
  BY <1>1, <1>3, <1>5 DEF FirstRight
<1> QED BY <1>3, <1>7, <1>8 DEF SessionRight, c2, b2, items, b

(* The next page, from the chain.                                            *)
LEMMA NextAnswered ==
    ASSUME NEW conn, NEW b, NEW k, SessionRight(conn, b), NextRight(k, conn), k.ran
    PROVE  SessionRight([conn EXCEPT !.cached_results = k.items,
                                     !.current_position =
                                         IF k.position < Len(k.items) THEN @ + 1 ELSE @],
                        Turned([b EXCEPT !.moved = @ \/ b.seen \notin {None, k.seen}],
                               k.items, k.position))
<1> DEFINE items == k.items
           p == k.position
           c2 == [conn EXCEPT !.cached_results = items,
                              !.current_position = IF p < Len(items) THEN @ + 1 ELSE @]
           m == b.moved \/ b.seen \notin {None, k.seen}
           b1 == [b EXCEPT !.moved = m]
           b2 == Turned(b1, items, p)
<1>1. /\ k.seen \in Graphs /\ k.chain = conn.query_chain
      /\ execute_query_chain(k.seen, k.chain) = [ok |-> TRUE, items |-> items]
      /\ p = conn.current_position /\ p \in Nat /\ conn.cached_results = None
  BY DEF NextRight, HasRun, SessionRight, Shaped
<1>2. IsList(items) /\ items # None /\ Len(items) \in Nat
  <2>1. execute_query_chain(k.seen, k.chain).items = items
    BY <1>1
  <2> QED BY <1>1, <2>1, ResultIs, ListFacts DEF SessionRight, Shaped
<1>3. /\ c2.query_chain = conn.query_chain /\ c2.cached_results = items
      /\ c2.current_position = IF p < Len(items) THEN p + 1 ELSE p
      /\ c2 = [query_chain |-> c2.query_chain, current_position |-> c2.current_position,
               cached_results |-> c2.cached_results]
  <2> DEFINE q == IF p < Len(items) THEN conn.current_position + 1
                  ELSE conn.current_position
  <2>1. conn = [query_chain |-> conn.query_chain,
                current_position |-> conn.current_position,
                cached_results |-> conn.cached_results]
    BY DEF SessionRight, Shaped
  <2>2. c2 = [conn EXCEPT !.cached_results = items, !.current_position = q]
    BY <2>1
  <2>3. q = IF p < Len(items) THEN p + 1 ELSE p
    BY <1>1
  <2> HIDE DEF q, c2, items, p
  <2> QED BY <2>1, <2>2, <2>3
<1>4. b1 = [pages |-> b.pages, seen |-> b.seen, moved |-> m, searched |-> b.searched]
  BY DEF SessionRight, Shaped
<1>5. b2 = [pages |-> IF p < Len(items) /\ ~b.searched THEN Append(b.pages, items[p + 1])
                      ELSE b.pages,
            seen |-> b.seen, moved |-> m, searched |-> b.searched]
  <2> HIDE DEF b1, items, m
  <2> QED BY <1>4 DEF Turned, b2
<1> HIDE DEF c2, b1, b2
<1>6. Shaped(c2, b2)
  BY <1>1, <1>3, <1>5 DEF Shaped, SessionRight
<1>7. ASSUME ~m, ~b.searched
      PROVE  /\ c2.current_position <= Len(items)
             /\ b2.pages = SubSeq(items, 1, c2.current_position)
  <2> HIDE DEF items, p
  <2>1. FirstRight(conn, b)
    BY <1>1, <1>7 DEF SessionRight
  <2>2. CASE b.seen = None /\ b.pages = <<>> /\ p = 0
    <3>1. CASE 0 < Len(items)
      <4>1. b2.pages = <<items[1]>> /\ c2.current_position = 1
        BY <1>3, <1>5, <1>7, <2>2, <3>1
      <4> QED BY <1>2, <3>1, <4>1, PagePrefixes
    <3>2. CASE ~ (0 < Len(items))
      <4>1. b2.pages = <<>> /\ c2.current_position = 0
        BY <1>3, <1>5, <1>7, <2>2, <3>2
      <4> QED BY <1>2, <3>2, <4>1, PagePrefixes
    <3> QED BY <3>1, <3>2
  <2>3. CASE b.seen # None
    <3>1. b.seen = k.seen
      BY <1>7, <2>3 DEF m
    <3>2. p = consumed_one(items) /\ b.pages = FirstPage(items)
      <4>1. execute_query_chain(b.seen, conn.query_chain).items = items
        BY <1>1, <3>1 DEF items
      <4> QED BY <1>1, <2>1, <2>3, <4>1 DEF FirstRight, p
    <3>3. CASE 0 < Len(items)
      <4>1. p = 1 /\ b.pages = SubSeq(items, 1, 1)
        BY <1>2, <3>2, <3>3, ListFacts, PagePrefixes DEF consumed_one, FirstPage
      <4>2. CASE 1 < Len(items)
        <5>1. b2.pages = Append(b.pages, items[p + 1]) /\ c2.current_position = p + 1
          BY <1>3, <1>5, <1>7, <4>1, <4>2
        <5>2. Append(SubSeq(items, 1, 1), items[1 + 1]) = SubSeq(items, 1, 1 + 1)
          BY <1>2, <4>2, PagePrefixes
        <5>3. b2.pages = SubSeq(items, 1, 1 + 1) /\ c2.current_position = 1 + 1
          BY <4>1, <5>1, <5>2
        <5> QED BY <1>2, <4>2, <5>3
      <4>3. CASE ~ (1 < Len(items))
        BY <1>3, <1>5, <3>3, <4>1, <4>3
      <4> QED BY <4>2, <4>3
    <3>4. CASE ~ (0 < Len(items))
      <4>1. p = 0 /\ b.pages = <<>>
        BY <1>2, <3>2, <3>4, ListFacts DEF consumed_one, FirstPage
      <4>2. b2.pages = <<>> /\ c2.current_position = 0
        BY <1>3, <1>5, <3>4, <4>1
      <4> QED BY <1>2, <4>2, PagePrefixes
    <3> QED BY <3>3, <3>4
  <2>4. b.seen = None => b.pages = <<>> /\ p = 0
    BY <1>1, <2>1, GraphAssumption DEF FirstRight, p
  <2> QED BY <2>2, <2>3, <2>4
<1>8. CacheRight(c2, b2)
  BY <1>1, <1>3, <1>5, <1>7 DEF CacheRight
<1> QED BY <1>2, <1>3, <1>6, <1>8 DEF SessionRight, c2, b2, b1

-----------------------------------------------------------------------------
(* Only the session c is touched.                                            *)
Touches(c) ==
    /\ db' = db
    /\ overlapped \subseteq overlapped'
    /\ connections' = [d \in DOMAIN connections' |-> connections'[d]]
    /\ book' = [d \in DOMAIN book' |-> book'[d]]
    /\ DOMAIN connections' \subseteq DOMAIN connections \cup {c}
    /\ \A d \in DOMAIN connections' : d # c => connections'[d] = connections[d]
    /\ \A d \in DOMAIN book : d # c => book'[d] = book[d]

(* No worker but w is at c, or it overlaps; nobody but w changes.            *)
OnlyCall(w, c) ==
    /\ \A v \in Busy : v # w /\ call[v].conn = c => c \in overlapped'
    /\ Busy' \subseteq Busy \cup {w}
    /\ \A v \in Busy' : v # w => call'[v] = call[v]
    /\ w \in Busy' => call'[w].conn = c

LEMMA PagesFrame ==
    ASSUME IInv, PagesInv, NEW w, NEW c, Touches(c), OnlyCall(w, c),
           c \notin overlapped' /\ c \in DOMAIN connections' =>
               SessionRight(connections'[c], book'[c]),
           w \in Busy' /\ c \notin overlapped' => CallRight(w)'
    PROVE  PagesInv'
<1>1. db' \in Graphs
  BY DEF PagesInv, Touches
<1>2. ASSUME NEW d \in DOMAIN connections', d \notin overlapped'
      PROVE  SessionRight(connections'[d], book'[d])
  <2>1. CASE d # c
    <3>1. d \in DOMAIN connections \ overlapped /\ connections'[d] = connections[d]
      BY <1>2, <2>1 DEF Touches
    <3>2. book'[d] = book[d]
      BY <2>1, <3>1 DEF Touches, IInv, Known
    <3> QED BY <3>1, <3>2 DEF PagesInv
  <2> QED BY <1>2, <2>1
<1>3. ASSUME NEW v \in Busy', call'[v].conn \notin overlapped'
      PROVE  CallRight(v)'
  <2>1. CASE v # w
    <3> DEFINE d == call[v].conn
    <3>1. /\ v \in Busy /\ call'[v] = call[v] /\ d # c
          /\ d \notin overlapped /\ d \in DOMAIN book
      BY <1>3, <2>1 DEF OnlyCall, Touches, IInv, Known
    <3>2. CallRight(v)
      BY <3>1 DEF PagesInv
    <3>3. book'[d] = book[d]
      BY <3>1 DEF Touches
    <3>4. Started(d)' => Started(d) /\ connections'[d] = connections[d]
      BY <3>1 DEF Started, Touches
    <3> QED BY <3>1, <3>2, <3>3, <3>4 DEF CallRight
  <2> QED BY <1>3, <2>1 DEF OnlyCall
<1> QED BY <1>1, <1>2, <1>3 DEF PagesInv, Touches

(* What a call does to its session.                                          *)
Stores(c) ==
    \/ connections' = connections
    \/ \E conn : Keep(c, conn)
    \/ \E conn : connections' =
          [d \in DOMAIN connections \cup {c} |-> IF d = c THEN conn ELSE connections[d]]
    \/ connections' = [d \in DOMAIN connections \ {c} |-> connections[d]]

LEMMA StoreChanges ==
    ASSUME PagesInv, NEW c, Stores(c)
    PROVE  /\ connections' = [d \in DOMAIN connections' |-> connections'[d]]
           /\ DOMAIN connections' \subseteq DOMAIN connections \cup {c}
           /\ \A d \in DOMAIN connections' : d # c => connections'[d] = connections[d]
  BY DEF Stores, Keep, PagesInv

(* What a call that begins leaves as it was.                                 *)
LEMMA BeginTouches ==
    ASSUME IInv, PagesInv, NEW w \in Workers, NEW c, NEW b, NEW doing,
           Begins(w, c, b), Take(w, doing), doing.conn = c, Stores(c)
    PROVE  /\ Touches(c) /\ OnlyCall(w, c) /\ call'[w] = doing
           /\ c \in DOMAIN connections
           /\ c \notin overlapped' =>
                 /\ SessionRight(connections[c], book[c])
                 /\ book'[c] = b
<1>1. /\ call' = [v \in Workers |-> IF v = w THEN doing ELSE call[v]]
      /\ c \in DOMAIN connections /\ c \in DOMAIN book
      /\ overlapped \subseteq overlapped' /\ db' = db
      /\ Of(c) # {} => c \in overlapped'
      /\ book' = [book EXCEPT ![c] = IF c \in overlapped' THEN NewBook ELSE b]
  BY DEF IInv, Begins, Take, Started, Known, Noted
<1>2. Touches(c)
  <2>1. /\ book' = [d \in DOMAIN book' |-> book'[d]]
        /\ \A d \in DOMAIN book : d # c => book'[d] = book[d]
    BY <1>1 DEF PagesInv
  <2>2. /\ connections' = [d \in DOMAIN connections' |-> connections'[d]]
        /\ DOMAIN connections' \subseteq DOMAIN connections \cup {c}
        /\ \A d \in DOMAIN connections' : d # c => connections'[d] = connections[d]
    BY StoreChanges
  <2> QED BY <1>1, <2>1, <2>2 DEF Touches
<1>3. OnlyCall(w, c)
  <2>1. \A v \in Busy : call[v].conn = c => c \in overlapped'
    BY <1>1 DEF Of
  <2>2. Busy' \subseteq Busy \cup {w} /\ \A v \in Busy' : v # w => call'[v] = call[v]
    BY <1>1 DEF Busy
  <2>3. call'[w].conn = c
    BY <1>1
  <2> QED BY <2>1, <2>2, <2>3 DEF OnlyCall
<1>4. ASSUME c \notin overlapped'
      PROVE  SessionRight(connections[c], book[c]) /\ book'[c] = b
  BY <1>1, <1>4 DEF PagesInv
<1> QED BY <1>1, <1>2, <1>3, <1>4

(* What a call that ends leaves as it was.                                   *)
LEMMA ReturnTouches ==
    ASSUME IInv, PagesInv, NEW w \in Workers, w \in Busy, Leave(w),
           overlapped' = overlapped, db' = db,
           Stores(call[w].conn),
           book' = book \/ \E b : Noted(call[w].conn, b)
    PROVE  /\ Touches(call[w].conn) /\ OnlyCall(w, call[w].conn) /\ w \notin Busy'
<1> DEFINE c == call[w].conn
<1>1. call' = [v \in Workers |-> IF v = w THEN Idle ELSE call[v]]
  BY DEF IInv, Leave, Take
<1>2. /\ w \notin Busy' /\ Busy' \subseteq Busy \cup {w}
      /\ \A v \in Busy' : v # w => call'[v] = call[v]
  BY <1>1 DEF Busy
<1>3. \A v \in Busy : v # w /\ call[v].conn = c => c \in overlapped'
  BY DEF IInv, Alone
<1>4. /\ book' = [d \in DOMAIN book' |-> book'[d]]
      /\ \A d \in DOMAIN book : d # c => book'[d] = book[d]
  BY DEF PagesInv, Noted
<1>5. /\ connections' = [d \in DOMAIN connections' |-> connections'[d]]
      /\ DOMAIN connections' \subseteq DOMAIN connections \cup {c}
      /\ \A d \in DOMAIN connections' : d # c => connections'[d] = connections[d]
  BY StoreChanges
<1> QED BY <1>2, <1>3, <1>4, <1>5 DEF Touches, OnlyCall

(* What is known of the call that ends.                                      *)
LEMMA ReturnKnows ==
    ASSUME IInv, PagesInv, NEW w \in Workers, w \in Busy,
           call[w].conn \notin overlapped
    PROVE  /\ CallRight(w) /\ call[w].conn \in DOMAIN book
           /\ call[w].conn \in DOMAIN connections =>
                 SessionRight(connections[call[w].conn], book[call[w].conn])
  BY DEF IInv, Known, PagesInv

-----------------------------------------------------------------------------
(* The calls.                                                                *)

LEMMA InitConnectionPages ==
    ASSUME IInv, PagesInv, NEW w \in Workers, InitConnection(w)
    PROVE  PagesInv'
<1>1. PICK c \in Conns \ DOMAIN book :
        /\ connections' = [d \in DOMAIN connections \cup {c} |->
                              IF d = c THEN NewConnection ELSE connections[d]]
        /\ book' = [d \in DOMAIN book \cup {c} |->
                       IF d = c THEN NewBook ELSE book[d]]
  BY DEF InitConnection
<1>2. /\ call' = call /\ overlapped' = overlapped /\ Busy' = Busy /\ db' = db
      /\ w \notin Busy
  BY DEF InitConnection, Busy
<1>3. Touches(c)
  BY <1>1, <1>2 DEF Touches
<1>4. OnlyCall(w, c)
  <2>1. \A v \in Busy : call[v].conn # c
    BY <1>1 DEF IInv, Known
  <2> QED BY <1>2, <2>1 DEF OnlyCall
<1>5. SessionRight(NewConnection, NewBook)
  <2>1. Shaped(NewConnection, NewBook)
    <3>1. <<>> \in Seq(Tools) /\ Len(<<>>) <= MaxChain
      BY McpAssumption
    <3> QED BY <3>1, NewBookIs DEF Shaped, NewConnection
  <2> QED BY <2>1, FreshRight DEF NewConnection
<1>6. connections'[c] = NewConnection /\ book'[c] = NewBook
  BY <1>1
<1> QED BY <1>2, <1>3, <1>4, <1>5, <1>6, PagesFrame

(* A session whose chain was just cleared.                                   *)
LEMMA ClearedRight ==
    ASSUME NEW conn
    PROVE  SessionRight(clear_chain(conn), NewBook)
<1>1. <<>> \in Seq(Tools) /\ Len(<<>>) <= MaxChain
  BY McpAssumption
<1>2. Shaped(NewConnection, NewBook)
  BY <1>1, NewBookIs DEF Shaped, NewConnection
<1> QED BY <1>2, FreshRight DEF NewConnection, clear_chain

LEMMA ToolCallPages ==
    ASSUME IInv, PagesInv, NEW w \in Workers, NEW c \in Conns, NEW t \in Tools,
           ToolCall(w, c, t)
    PROVE  PagesInv'
<1> DEFINE conn == add_query_step(connections[c], t)
           doing == Reading("tool", c, conn.query_chain, 0, FALSE)
<1>1. /\ Begins(w, c, NewBook) /\ Keep(c, conn) /\ Take(w, doing)
      /\ Len(connections[c].query_chain) < MaxChain
  BY DEF ToolCall
<1>2. /\ doing.conn = c /\ doing.at = "tool" /\ doing.chain = conn.query_chain
      /\ doing.ran = FALSE
  BY DEF Reading
<1>3. /\ conn = [query_chain |-> conn.query_chain,
                 current_position |-> conn.current_position,
                 cached_results |-> conn.cached_results]
      /\ conn.query_chain = Append(connections[c].query_chain, t)
      /\ conn.current_position = 0 /\ conn.cached_results = None
  BY DEF add_query_step
<1> HIDE DEF conn, doing
<1>4. /\ Touches(c) /\ OnlyCall(w, c) /\ call'[w] = doing
      /\ c \in DOMAIN connections
      /\ c \notin overlapped' =>
            SessionRight(connections[c], book[c]) /\ book'[c] = NewBook
  <2>1. Stores(c)
    BY <1>1 DEF Stores
  <2>2. Begins(w, c, NewBook) /\ Take(w, doing) /\ doing.conn = c
    BY <1>1, <1>2
  <2> QED BY <2>1, <2>2, BeginTouches
<1>5. connections'[c] = conn
  BY <1>1, <1>4 DEF Keep
<1>6. ASSUME c \notin overlapped' PROVE SessionRight(conn, NewBook)
  <2> DEFINE chain == connections[c].query_chain
  <2>1. chain \in Seq(Tools) /\ Len(chain) < MaxChain
    BY <1>1, <1>4, <1>6 DEF SessionRight, Shaped
  <2> HIDE DEF chain
  <2>2. Append(chain, t) \in Seq(Tools) /\ Len(Append(chain, t)) <= MaxChain
    BY <2>1, McpAssumption, AppendProperties, LenProperties
  <2>3. Shaped(conn, NewBook)
    BY <1>3, <2>2, NewBookIs DEF Shaped, chain
  <2> QED BY <1>3, <2>3, FreshRight
<1>7. ASSUME c \notin overlapped' PROVE CallRight(w)'
  <2>1. ToolRight(doing, conn, NewBook)
    BY <1>2, <1>3 DEF ToolRight, HasRun
  <2> QED BY <1>2, <1>4, <1>5, <1>7, <2>1 DEF CallRight
<1> QED BY <1>4, <1>5, <1>6, <1>7, PagesFrame

LEMMA NextCallPages ==
    ASSUME IInv, PagesInv, NEW w \in Workers, NEW c \in Conns, NextCall(w, c)
    PROVE  PagesInv'
<1> DEFINE conn == connections[c]
           pos == conn.current_position
           len == Len(conn.cached_results)
           hit == Reading("hit", c, <<>>, IF pos < len THEN pos ELSE len, FALSE)
           miss == Reading("next", c, conn.query_chain, pos, FALSE)
<1>1. Begins(w, c, book[c]) /\ connections' = connections
  BY DEF NextCall
<1>2. /\ hit.conn = c /\ hit.at = "hit"
      /\ hit.position = IF pos < len THEN pos ELSE len
      /\ miss.conn = c /\ miss.at = "next" /\ miss.chain = conn.query_chain
      /\ miss.position = pos /\ miss.ran = FALSE
  BY DEF Reading
<1>3. \/ Take(w, hit) /\ conn.cached_results # None
      \/ Take(w, miss) /\ conn.cached_results = None
  BY DEF NextCall
<1> HIDE DEF hit, miss
<1>4. ASSUME NEW doing \in {hit, miss}, Take(w, doing)
      PROVE  /\ Touches(c) /\ OnlyCall(w, c) /\ call'[w] = doing
             /\ c \notin overlapped' =>
                   SessionRight(connections[c], book[c]) /\ book'[c] = book[c]
  <2>1. doing.conn = c
    BY <1>2
  <2> QED BY <1>1, <1>4, <2>1, BeginTouches DEF Stores
<1>5. CASE Take(w, hit) /\ conn.cached_results # None
  <2>1. c \notin overlapped' => CallRight(w)'
    BY <1>1, <1>2, <1>4, <1>5 DEF CallRight, HitRight
  <2> QED BY <1>1, <1>4, <1>5, <2>1, PagesFrame
<1>6. CASE Take(w, miss) /\ conn.cached_results = None
  <2>1. c \notin overlapped' => CallRight(w)'
    BY <1>1, <1>2, <1>4, <1>6 DEF CallRight, NextRight, HasRun
  <2> QED BY <1>1, <1>4, <1>6, <2>1, PagesFrame
<1> QED BY <1>3, <1>5, <1>6

(* A call that leaves its session alone, and of which nothing need be known. *)
LEMMA LookPages ==
    ASSUME IInv, PagesInv, NEW w \in Workers, NEW c, NEW doing,
           Begins(w, c, book[c]), Take(w, doing), connections' = connections,
           doing.conn = c, doing.at \in {"collect", "search"}
    PROVE  PagesInv'
<1>1. /\ Touches(c) /\ OnlyCall(w, c) /\ call'[w] = doing
      /\ c \notin overlapped' =>
            SessionRight(connections[c], book[c]) /\ book'[c] = book[c]
  BY BeginTouches DEF Stores
<1>2. CallRight(w)'
  BY <1>1 DEF CallRight
<1> QED BY <1>1, <1>2, PagesFrame

LEMMA QueryCallPages ==
    ASSUME IInv, PagesInv, NEW w \in Workers, NEW c \in Conns, QueryCall(w, c)
    PROVE  PagesInv'
<1> DEFINE doing == [at |-> "query", conn |-> c, taken |-> connections[c]]
<1>1. /\ Begins(w, c, book[c]) /\ Take(w, doing)
      /\ connections' = [d \in DOMAIN connections \ {c} |-> connections[d]]
  BY DEF QueryCall
<1>2. doing.conn = c /\ doing.at = "query" /\ doing.taken = connections[c]
  OBVIOUS
<1> HIDE DEF doing
<1>3. /\ Touches(c) /\ OnlyCall(w, c) /\ call'[w] = doing
      /\ c \notin overlapped' =>
            SessionRight(connections[c], book[c]) /\ book'[c] = book[c]
  <2>1. Stores(c)
    BY <1>1 DEF Stores
  <2> QED BY <1>1, <1>2, <2>1, BeginTouches
<1>4. c \notin DOMAIN connections'
  BY <1>1
<1>5. c \notin overlapped' => CallRight(w)'
  BY <1>2, <1>3, <1>4 DEF CallRight, Started
<1> QED BY <1>3, <1>4, <1>5, PagesFrame

LEMMA ResetPages ==
    ASSUME IInv, PagesInv, NEW w \in Workers, NEW c \in Conns, reset(w, c)
    PROVE  PagesInv'
<1>1. /\ call' = call /\ Busy' = Busy /\ db' = db /\ w \notin Busy
      /\ c \in DOMAIN connections /\ c \in DOMAIN book
      /\ overlapped \subseteq overlapped'
      /\ \A v \in Busy : call[v].conn = c => c \in overlapped'
      /\ Noted(c, NewBook) /\ Keep(c, clear_chain(connections[c]))
  BY DEF reset, Begins, Busy, Of, Started, IInv, Known
<1>2. /\ Touches(c) /\ connections'[c] = clear_chain(connections[c])
      /\ book'[c] = NewBook
  BY <1>1 DEF Touches, Keep, Noted, PagesInv
<1>3. OnlyCall(w, c)
  BY <1>1 DEF OnlyCall
<1>4. SessionRight(connections'[c], book'[c])
  BY <1>2, ClearedRight
<1> QED BY <1>1, <1>2, <1>3, <1>4, PagesFrame

LEMMA CallsKeepPages ==
    ASSUME IInv, PagesInv, NEW w \in Workers, Calls(w)
    PROVE  PagesInv'
<1>1. ASSUME NEW c \in Conns, NEW drop \in BOOLEAN, CollectCall(w, c, drop)
      PROVE  PagesInv'
  <2> DEFINE doing == Reading("collect", c, connections[c].query_chain, 0, drop)
  <2>1. /\ Begins(w, c, book[c]) /\ connections' = connections /\ Take(w, doing)
    BY <1>1 DEF CollectCall
  <2>2. doing.conn = c /\ doing.at = "collect"
    BY DEF Reading
  <2> HIDE DEF doing
  <2> QED BY <2>1, <2>2, LookPages
<1>2. ASSUME NEW c \in Conns, SearchCall(w, c)
      PROVE  PagesInv'
  <2> DEFINE doing == Reading("search", c, <<>>, 0, FALSE)
  <2>1. /\ Begins(w, c, book[c]) /\ connections' = connections /\ Take(w, doing)
    BY <1>2 DEF SearchCall
  <2>2. doing.conn = c /\ doing.at = "search"
    BY DEF Reading
  <2> HIDE DEF doing
  <2> QED BY <2>1, <2>2, LookPages
<1> QED BY <1>1, <1>2, InitConnectionPages, ToolCallPages, NextCallPages,
           QueryCallPages, ResetPages DEF Calls

-----------------------------------------------------------------------------
(* The returns.                                                              *)

LEMMA ExecutePages ==
    ASSUME IInv, PagesInv, NEW w \in Workers, Execute(w)
    PROVE  PagesInv'
<1> DEFINE c == call[w].conn
           found == execute_query_chain(db, call[w].chain)
           ran == Ran(call[w], found.items, db)
<1>1. /\ w \in Busy /\ connections' = connections /\ book' = book
      /\ overlapped' = overlapped /\ db' = db
      /\ (Take(w, ran) /\ found.ok) \/ Leave(w)
      /\ call[w].at \in {"tool", "next", "collect"}
  BY AtWork DEF Execute
<1>2. CASE Leave(w)
  <2>1. Touches(c) /\ OnlyCall(w, c) /\ w \notin Busy'
    BY <1>1, <1>2, ReturnTouches DEF Stores
  <2>2. c \notin overlapped' /\ c \in DOMAIN connections' =>
            SessionRight(connections'[c], book'[c])
    BY <1>1 DEF PagesInv
  <2> HIDE DEF c
  <2> QED BY <2>1, <2>2, PagesFrame
<1>3. CASE Take(w, ran) /\ found.ok
  <2>1. /\ ran.conn = c /\ ran.at = call[w].at /\ ran.chain = call[w].chain
        /\ ran.position = call[w].position /\ ran.ran = TRUE
        /\ ran.items = found.items /\ ran.seen = db
    BY DEF Ran
  <2> HIDE DEF ran, found
  <2>2. call' = [v \in Workers |-> IF v = w THEN ran ELSE call[v]]
    BY <1>3 DEF IInv, Take
  <2>3. Touches(c)
    BY <1>1 DEF Touches, PagesInv
  <2>4. OnlyCall(w, c)
    <3>1. \A v \in Busy : v # w /\ call[v].conn = c => c \in overlapped'
      BY <1>1 DEF IInv, Alone
    <3>2. Busy' \subseteq Busy \cup {w} /\ \A v \in Busy' : v # w => call'[v] = call[v]
      BY <2>2 DEF Busy
    <3>3. call'[w].conn = c
      BY <2>1, <2>2
    <3> QED BY <3>1, <3>2, <3>3 DEF OnlyCall
  <2>5. c \notin overlapped' /\ c \in DOMAIN connections' =>
            SessionRight(connections'[c], book'[c])
    BY <1>1 DEF PagesInv
  <2>6. ASSUME c \notin overlapped' PROVE CallRight(w)'
    <3>1. CallRight(w)
      BY <1>1, <2>6, ReturnKnows
    <3>2. CASE ~Started(c)
      BY <1>1, <2>1, <2>2, <3>2 DEF CallRight, Started
    <3>3. CASE Started(c) /\ call[w].at = "collect"
      BY <1>1, <2>1, <2>2, <3>3 DEF CallRight
    <3>4. CASE Started(c) /\ call[w].at \in {"tool", "next"}
      <4>1. SessionRight(connections[c], book[c])
        BY <1>1, <2>6, <3>4 DEF PagesInv, Started
      <4>2. call[w].chain = connections[c].query_chain
        BY <3>1, <3>4 DEF CallRight, ToolRight, NextRight
      <4>3. call[w].chain \in Seq(Tools) /\ Len(call[w].chain) <= MaxChain
        BY <4>1, <4>2 DEF SessionRight, Shaped
      <4>4. db \in Graphs
        BY DEF PagesInv
      <4>5. found = [ok |-> TRUE, items |-> found.items]
        BY <1>3, <4>3, <4>4, ResultIs DEF found
      <4>6. HasRun(ran)
        BY <2>1, <4>4, <4>5 DEF HasRun, found
      <4>7. call'[w] = ran
        BY <2>2
      <4>8. CASE call[w].at = "tool"
        <5>1. ToolRight(ran, connections[c], book[c])
          BY <2>1, <3>1, <3>4, <4>6, <4>8 DEF CallRight, ToolRight
        <5> QED BY <1>1, <2>1, <4>7, <4>8, <5>1 DEF CallRight
      <4>9. CASE call[w].at = "next"
        <5>1. NextRight(ran, connections[c])
          BY <2>1, <3>1, <3>4, <4>6, <4>9 DEF CallRight, NextRight
        <5> QED BY <1>1, <2>1, <4>7, <4>9, <5>1 DEF CallRight
      <4> QED BY <3>4, <4>8, <4>9
    <3> QED BY <1>1, <3>2, <3>3, <3>4
  <2> HIDE DEF c
  <2> QED BY <2>3, <2>4, <2>5, <2>6, PagesFrame
<1> HIDE DEF c, found, ran
<1> QED BY <1>1, <1>2, <1>3

(* A call that ends well, and leaves conn and what b is known of it.         *)
LEMMA EndPages ==
    ASSUME IInv, PagesInv, NEW w \in Workers, NEW at \in {"tool", "next", "hit", "collect", "search"},
           Returns(w, at), NEW conn, NEW b,
           Keep(call[w].conn, conn), Noted(call[w].conn, b),
           call[w].conn \notin overlapped => SessionRight(conn, b)
    PROVE  PagesInv'
<1> DEFINE c == call[w].conn
<1>1. /\ w \in Busy /\ Leave(w) /\ overlapped' = overlapped /\ db' = db
      /\ c \in DOMAIN connections
  BY AtWork DEF Returns, Started
<1>2. Touches(c) /\ OnlyCall(w, c) /\ w \notin Busy'
  BY <1>1, ReturnTouches DEF Stores
<1>3. c \in DOMAIN book
  BY <1>1 DEF IInv, Known
<1>4. connections'[c] = conn /\ (c \notin overlapped' => book'[c] = b)
  BY <1>1, <1>3 DEF Keep, Noted
<1>5. c \notin overlapped' => SessionRight(connections'[c], book'[c])
  BY <1>1, <1>4
<1> HIDE DEF c
<1> QED BY <1>2, <1>5, PagesFrame

(* The next page, from the cache.                                            *)
LEMMA HitAnswered ==
    ASSUME NEW conn, NEW b, NEW k, SessionRight(conn, b), HitRight(k, conn)
    PROVE  SessionRight(IF k.position < Len(conn.cached_results)
                        THEN [conn EXCEPT !.current_position = @ + 1] ELSE conn,
                        Turned(b, conn.cached_results, k.position))
<1> DEFINE cached == conn.cached_results
           p == k.position
           q == conn.current_position
<1>1. /\ cached # None /\ CacheRight(conn, b) /\ q \in Nat
      /\ p = IF q < Len(cached) THEN q ELSE Len(cached)
  BY DEF SessionRight, HitRight, Shaped
<1>2. IsList(cached) /\ Len(cached) \in Nat
  <2>1. PICK g \in Graphs : execute_query_chain(g, conn.query_chain) =
                               [ok |-> TRUE, items |-> cached]
    BY <1>1 DEF CacheRight
  <2>2. execute_query_chain(g, conn.query_chain).items = cached
    BY <2>1
  <2> HIDE DEF cached
  <2> QED BY <2>2, ResultIs, ListFacts DEF SessionRight, Shaped
<1> HIDE DEF cached, p, q
<1>3. CASE ~ (p < Len(cached))
  <2>1. Turned(b, cached, p) = b
    BY <1>3 DEF Turned
  <2> QED BY <1>3, <2>1 DEF cached, p
<1>4. CASE p < Len(cached)
  <2> DEFINE c2 == [conn EXCEPT !.current_position = @ + 1]
             b2 == Turned(b, cached, p)
  <2>1. p = q /\ q < Len(cached) /\ q + 1 <= Len(cached) /\ q + 1 \in Nat
    BY <1>1, <1>2, <1>4
  <2>2. /\ c2.query_chain = conn.query_chain /\ c2.cached_results = cached
        /\ c2.current_position = q + 1
        /\ c2 = [query_chain |-> c2.query_chain, current_position |-> c2.current_position,
                 cached_results |-> c2.cached_results]
    BY DEF SessionRight, Shaped, cached, q
  <2>3. /\ b2 = [pages |-> b2.pages, seen |-> b2.seen, moved |-> b2.moved,
                 searched |-> b2.searched]
        /\ b2.moved = b.moved /\ b2.searched = b.searched
        /\ ~b.searched => b2.pages = Append(b.pages, cached[p + 1])
    <3>1. b2 = IF ~b.searched THEN [b EXCEPT !.pages = Append(b.pages, cached[p + 1])] ELSE b
      BY <1>4 DEF Turned
    <3> HIDE DEF b2
    <3>2. CASE b.searched
      BY <3>1, <3>2 DEF SessionRight, Shaped
    <3>3. CASE ~b.searched
      BY <3>1, <3>3 DEF SessionRight, Shaped
    <3> QED BY <3>2, <3>3
  <2> HIDE DEF c2, b2
  <2>4. Shaped(c2, b2)
    BY <2>1, <2>2, <2>3 DEF SessionRight, Shaped
  <2>5. ASSUME ~b.moved, ~b.searched
        PROVE  b2.pages = SubSeq(cached, 1, q + 1)
    <3>1. b.pages = SubSeq(cached, 1, q)
      BY <1>1, <2>5 DEF CacheRight, cached, q
    <3>2. b2.pages = Append(SubSeq(cached, 1, q), cached[q + 1])
      BY <2>1, <2>3, <2>5, <3>1
    <3>3. Append(SubSeq(cached, 1, q), cached[q + 1]) = SubSeq(cached, 1, q + 1)
      BY <1>1, <1>2, <2>1, PagePrefixes
    <3> QED BY <3>2, <3>3
  <2>6. CacheRight(c2, b2)
    <3>1. \E g \in Graphs : execute_query_chain(g, c2.query_chain) =
                               [ok |-> TRUE, items |-> c2.cached_results]
      BY <1>1, <2>2 DEF CacheRight, cached
    <3>2. ~b2.moved /\ ~b2.searched =>
             /\ c2.current_position <= Len(c2.cached_results)
             /\ b2.pages = SubSeq(c2.cached_results, 1, c2.current_position)
      BY <2>1, <2>2, <2>3, <2>5
    <3> QED BY <3>1, <3>2 DEF CacheRight
  <2>7. SessionRight(c2, b2)
    BY <1>1, <2>2, <2>4, <2>6 DEF SessionRight
  <2> QED BY <1>4, <2>7 DEF c2, b2, cached, p
<1> QED BY <1>3, <1>4

LEMMA ToolReturnPages ==
    ASSUME IInv, PagesInv, NEW w \in Workers, ToolReturn(w)
    PROVE  PagesInv'
<1> DEFINE c == call[w].conn
           k == call[w]
           conn == [connections[c] EXCEPT !.current_position = consumed_one(k.items)]
           b == Turned([book[c] EXCEPT !.seen = k.seen], k.items, 0)
<1>1. /\ Returns(w, "tool") /\ Keep(c, conn) /\ Noted(c, b)
      /\ k.at = "tool" /\ k.ran /\ w \in Busy /\ c \in DOMAIN connections
  BY AtWork DEF ToolReturn, Returns, Started
<1>2. ASSUME c \notin overlapped PROVE SessionRight(conn, b)
  <2>1. /\ SessionRight(connections[c], book[c])
        /\ ToolRight(k, connections[c], book[c])
    BY <1>1, <1>2, ReturnKnows DEF CallRight, Started
  <2>2. book[c] = NewBook /\ Shaped(connections[c], NewBook)
    BY <2>1 DEF ToolRight, SessionRight
  <2> HIDE DEF c, k
  <2> QED BY <1>1, <2>1, <2>2, ToolAnswered
<1> HIDE DEF conn, b
<1> QED BY <1>1, <1>2, EndPages

LEMMA NextReturnPages ==
    ASSUME IInv, PagesInv, NEW w \in Workers, NextReturn(w)
    PROVE  PagesInv'
<1> DEFINE c == call[w].conn
           k == call[w]
           conn == [connections[c] EXCEPT
                       !.cached_results = k.items,
                       !.current_position = IF k.position < Len(k.items) THEN @ + 1 ELSE @]
           b == Turned([book[c] EXCEPT !.moved = @ \/ book[c].seen \notin {None, k.seen}],
                       k.items, k.position)
<1>1. /\ Returns(w, "next") /\ Keep(c, conn) /\ Noted(c, b)
      /\ k.at = "next" /\ k.ran /\ w \in Busy /\ c \in DOMAIN connections
  BY AtWork DEF NextReturn, Returns, Started
<1>2. ASSUME c \notin overlapped PROVE SessionRight(conn, b)
  <2>1. SessionRight(connections[c], book[c]) /\ NextRight(k, connections[c])
    BY <1>1, <1>2, ReturnKnows DEF CallRight, Started
  <2> HIDE DEF c, k
  <2> QED BY <1>1, <2>1, NextAnswered
<1> HIDE DEF conn, b
<1> QED BY <1>1, <1>2, EndPages

LEMMA HitReturnPages ==
    ASSUME IInv, PagesInv, NEW w \in Workers, HitReturn(w)
    PROVE  PagesInv'
<1> DEFINE c == call[w].conn
           k == call[w]
           cached == connections[c].cached_results
           conn == IF k.position < Len(cached)
                   THEN [connections[c] EXCEPT !.current_position = @ + 1]
                   ELSE connections[c]
           b == Turned(book[c], cached, k.position)
<1>1. /\ Returns(w, "hit") /\ Keep(c, conn) /\ Noted(c, b)
      /\ k.at = "hit" /\ w \in Busy /\ c \in DOMAIN connections
  BY AtWork DEF HitReturn, Returns, Started
<1>2. ASSUME c \notin overlapped PROVE SessionRight(conn, b)
  <2>1. SessionRight(connections[c], book[c]) /\ HitRight(k, connections[c])
    BY <1>1, <1>2, ReturnKnows DEF CallRight, Started
  <2> HIDE DEF c, k
  <2> QED BY <2>1, HitAnswered
<1> HIDE DEF conn, b
<1> QED BY <1>1, <1>2, EndPages

LEMMA CollectReturnPages ==
    ASSUME IInv, PagesInv, NEW w \in Workers, CollectReturn(w)
    PROVE  PagesInv'
<1> DEFINE c == call[w].conn
<1>1. /\ Returns(w, "collect") /\ w \in Busy /\ Leave(w) /\ db' = db
      /\ overlapped' = overlapped
  BY AtWork DEF CollectReturn, Returns
<1>2. CASE Keep(c, clear_chain(connections[c])) /\ Noted(c, NewBook)
  BY <1>1, <1>2, ClearedRight, EndPages
<1>3. CASE UNCHANGED <<connections, book>>
  <2>1. Touches(c) /\ OnlyCall(w, c) /\ w \notin Busy'
    BY <1>1, <1>3, ReturnTouches DEF Stores
  <2>2. c \notin overlapped' /\ c \in DOMAIN connections' =>
            SessionRight(connections'[c], book'[c])
    BY <1>1, <1>3 DEF PagesInv
  <2> HIDE DEF c
  <2> QED BY <2>1, <2>2, PagesFrame
<1> QED BY <1>2, <1>3 DEF CollectReturn

LEMMA SearchReturnPages ==
    ASSUME IInv, PagesInv, NEW w \in Workers, NEW found \in BOOLEAN,
           SearchReturn(w, found)
    PROVE  PagesInv'
<1> DEFINE c == call[w].conn
           at == IF found THEN 1 ELSE 0
           conn == [connections[c] EXCEPT !.current_position = at]
           yes == TRUE
           b == [book[c] EXCEPT !.searched = yes]
<1>1. /\ Returns(w, "search") /\ Keep(c, conn) /\ Noted(c, b)
      /\ w \in Busy /\ c \in DOMAIN connections
  BY AtWork DEF SearchReturn, Returns, Started
<1>2. ASSUME c \notin overlapped PROVE SessionRight(conn, b)
  <2>1. SessionRight(connections[c], book[c])
    BY <1>1, <1>2, ReturnKnows
  <2>2. at \in Nat
    OBVIOUS
  <2> HIDE DEF c, at
  <2>3. /\ conn.query_chain = connections[c].query_chain
        /\ conn.cached_results = connections[c].cached_results
        /\ conn = [query_chain |-> conn.query_chain, current_position |-> conn.current_position,
                   cached_results |-> conn.cached_results]
        /\ conn.current_position = at
    BY <2>1 DEF SessionRight, Shaped
  <2>4. /\ b = [pages |-> b.pages, seen |-> b.seen, moved |-> b.moved,
                searched |-> b.searched]
        /\ b.searched = yes
    <3> HIDE DEF yes
    <3> QED BY <2>1 DEF SessionRight, Shaped
  <2> HIDE DEF conn, b
  <2> QED BY <2>1, <2>2, <2>3, <2>4 DEF SessionRight, Shaped, CacheRight
<1> HIDE DEF conn, b
<1> QED BY <1>1, <1>2, EndPages

(* A call that comes to nothing.                                             *)
LEMMA LeavePages ==
    ASSUME IInv, PagesInv, NEW w \in Workers,
           SearchFails(w) \/ ReturnToNothing(w) \/ QueryFails(w)
    PROVE  PagesInv'
<1> DEFINE c == call[w].conn
<1>1. /\ w \in Busy /\ Leave(w) /\ db' = db /\ overlapped' = overlapped
      /\ connections' = connections /\ book' = book
  BY AtWork DEF SearchFails, ReturnToNothing, QueryFails
<1>2. Touches(c) /\ OnlyCall(w, c) /\ w \notin Busy'
  BY <1>1, ReturnTouches DEF Stores
<1>3. c \notin overlapped' /\ c \in DOMAIN connections' =>
          SessionRight(connections'[c], book'[c])
  BY <1>1 DEF PagesInv
<1> HIDE DEF c
<1> QED BY <1>2, <1>3, PagesFrame

LEMMA QueryReturnPages ==
    ASSUME IInv, PagesInv, NEW w \in Workers, QueryReturn(w)
    PROVE  PagesInv'
<1> DEFINE c == call[w].conn
<1>1. /\ w \in Busy /\ Leave(w) /\ db' = db /\ overlapped' = overlapped
      /\ book' = book /\ call[w].at = "query"
      /\ connections' = [d \in DOMAIN connections \cup {c} |->
                            IF d = c THEN call[w].taken ELSE connections[d]]
  BY AtWork DEF QueryReturn
<1>2. Touches(c) /\ OnlyCall(w, c) /\ w \notin Busy'
  BY <1>1, ReturnTouches DEF Stores
<1>3. connections'[c] = call[w].taken
  BY <1>1
<1>4. c \notin overlapped' => SessionRight(connections'[c], book'[c])
  BY <1>1, <1>3, ReturnKnows DEF CallRight
<1> HIDE DEF c
<1> QED BY <1>2, <1>4, PagesFrame

LEMMA GoesKeepPages ==
    ASSUME IInv, PagesInv, NEW w \in Workers, Goes(w)
    PROVE  PagesInv'
<1>1. CASE HitPanics(w)
  <2>1. Busy' = {}
    BY <1>1 DEF HitPanics, Busy
  <2> QED BY <1>1, <2>1 DEF HitPanics, PagesInv
<1> QED BY <1>1, ExecutePages, ToolReturnPages, NextReturnPages, HitReturnPages,
           CollectReturnPages, SearchReturnPages, LeavePages, QueryReturnPages DEF Goes

LEMMA NextPages == IInv /\ PagesInv /\ [Next]_vars => PagesInv'
<1> SUFFICES ASSUME IInv, PagesInv, [Next]_vars PROVE PagesInv'
  OBVIOUS
<1>1. ASSUME NEW w \in Workers, Calls(w) \/ Goes(w) PROVE PagesInv'
  BY <1>1, CallsKeepPages, GoesKeepPages
<1>2. CASE Write
  <2>1. db' \in Graphs /\ UNCHANGED <<connections, call, book, overlapped>> /\ Busy' = Busy
    BY <1>2 DEF Write, Busy
  <2>2. \A v \in Busy : CallRight(v)' <=> CallRight(v)
    BY <2>1 DEF CallRight, Started
  <2> QED BY <2>1, <2>2 DEF PagesInv
<1>3. CASE UNCHANGED vars
  <2>1. Busy' = Busy /\ UNCHANGED <<connections, call, db, book, overlapped>>
    BY <1>3 DEF vars, Busy
  <2>2. \A v \in Busy : CallRight(v)' <=> CallRight(v)
    BY <2>1 DEF CallRight, Started
  <2> QED BY <2>1, <2>2 DEF PagesInv
<1> QED BY <1>1, <1>2, <1>3 DEF Next

LEMMA InitPages == Init => PagesInv
  BY DEF Init, PagesInv, Busy, Idle, Dead

(* The pages of next, collect and the tool calls (mcp.rs): an agent that     *)
(* waits for each answer before it calls again is given the result of its    *)
(* chain from the beginning, each item once and none left out, and what the  *)
(* session caches is what its chain yields on some committed graph.          *)
THEOREM SerialAgentsPageInOrder == Spec => []PagesInOrder
<1>1. IInv /\ PagesInv => PagesInOrder
  BY DEF PagesInv, PagesInOrder, SessionRight, CacheRight
<1> QED BY <1>1, InitSerial, NextSerial, InitPages, NextPages, PTL DEF Spec

-----------------------------------------------------------------------------
(* The shortest-path searches.                                              *)

(* A set that holds 0 and with every number the next holds all of them.     *)
LEMMA AllNumbers ==
    ASSUME NEW S, 0 \in S, NEW N \in Nat, \A n \in 0 .. N : n < N /\ n \in S => n + 1 \in S
    PROVE  0 .. N \subseteq S
<1> DEFINE Bad == {n \in 0 .. N : n \notin S}
<1> SUFFICES ASSUME Bad # {} PROVE FALSE
    OBVIOUS
<1>1. Bad \in SUBSET Nat
    OBVIOUS
<1>2. PICK n \in Bad : \A m \in Bad : n <= m
    <2> HIDE DEF Bad
    <2> QED
        BY <1>1, LeastNumber
<1>3. n \in 1 .. N
    BY <1>2
<1>4. n - 1 \in 0 .. N /\ n - 1 \in S
    BY <1>2, <1>3
<1> QED
    BY <1>2, <1>3, <1>4

-----------------------------------------------------------------------------
(* Walks.  What CostsWithin and Total compute: the recursions they state.   *)

Longest == Cardinality(Ids)

LEMMA LongestType == Longest \in Nat
BY IdAssumption, FS_CardinalityType DEF Longest

NoArc(s) == [i \in Ids |-> IF i = s THEN {0} ELSE {}]

LEMMA CostsRecursion ==
    ASSUME NEW A, NEW s
    PROVE  /\ CostsWithin(A, s)[0] = NoArc(s)
           /\ \A k \in 1 .. Longest : CostsWithin(A, s)[k] = OneMore(A, CostsWithin(A, s)[k - 1])
<1> DEFINE Computes(f, n) ==
               f = [k \in 0 .. n |-> IF k = 0 THEN NoArc(s) ELSE OneMore(A, f[k - 1])]
           Good == {n \in Nat : \E f : Computes(f, n)}
<1>1. 0 \in Good
    <2> DEFINE f == [k \in 0 .. 0 |-> NoArc(s)]
    <2>1. Computes(f, 0)
        <3>1. 0 .. 0 = {0}
            OBVIOUS
        <3> QED
            BY <3>1
    <2> HIDE DEF f, Computes
    <2> QED
        BY <2>1
<1>2. ASSUME NEW n \in Nat, n \in Good PROVE n + 1 \in Good
    <2>1. PICK f : Computes(f, n)
        BY <1>2
    <2> DEFINE g == [k \in 0 .. n + 1 |-> IF k <= n THEN f[k] ELSE OneMore(A, f[n])]
    <2>2. \A k \in 0 .. n + 1 : g[k] = IF k = 0 THEN NoArc(s) ELSE OneMore(A, g[k - 1])
        <3> TAKE k \in 0 .. n + 1
        <3>1. CASE k = 0
            BY <2>1, <3>1
        <3>2. CASE k \in 1 .. n
            <4>1. k - 1 \in 0 .. n /\ k - 1 <= n /\ k \in 0 .. n /\ k <= n
                BY <3>2
            <4>2. f[k] = OneMore(A, f[k - 1])
                BY <2>1, <3>2, <4>1
            <4> QED
                BY <3>2, <4>1, <4>2
        <3>3. CASE k = n + 1
            <4>1. k - 1 = n /\ n \in 0 .. n + 1 /\ ~ (k <= n) /\ k # 0
                BY <3>3
            <4> QED
                BY <4>1
        <3> QED
            BY <3>1, <3>2, <3>3
    <2>3. Computes(g, n + 1)
        BY <2>2
    <2> HIDE DEF g, Computes
    <2> QED
        BY <2>3
<1>3. \A N \in Nat : N \in Good
    <2> TAKE N \in Nat
    <2> HIDE DEF Good
    <2>1. \A n \in 0 .. N : n < N /\ n \in Good => n + 1 \in Good
        BY <1>2
    <2>2. 0 .. N \subseteq Good
        BY <1>1, <2>1, AllNumbers
    <2> QED
        BY <2>2
<1>4. \E f : Computes(f, Longest)
    BY <1>3, LongestType
<1>5. Computes(CostsWithin(A, s), Longest)
    <2> DEFINE P(f) == Computes(f, Longest)
    <2>1. CostsWithin(A, s) = CHOOSE f : P(f)
        BY DEF CostsWithin, NoArc, Longest
    <2>2. \E f : P(f)
        BY <1>4
    <2> HIDE DEF P
    <2>3. P(CostsWithin(A, s))
        BY <2>1, <2>2
    <2> QED
        BY <2>3 DEF P
<1> DEFINE C == CostsWithin(A, s)
<1> HIDE DEF C
<1>6. C = [k \in 0 .. Longest |-> IF k = 0 THEN NoArc(s) ELSE OneMore(A, C[k - 1])]
    BY <1>5 DEF C
<1>7. \A k \in 0 .. Longest : C[k] = IF k = 0 THEN NoArc(s) ELSE OneMore(A, C[k - 1])
    BY <1>6, Zenon
<1> QED
    BY <1>7, LongestType DEF C

(* The partial sums behind Total.                                           *)
IsSum(f, costs, n) == f = [k \in 0 .. n |-> IF k = 0 THEN 0 ELSE f[k - 1] + costs[k]]

LEMMA TotalIsSum ==
    ASSUME NEW costs \in Seq(Nat)
    PROVE  \E f : IsSum(f, costs, Len(costs)) /\ Total(costs) = f[Len(costs)]
<1> DEFINE Good == {n \in Nat : \E f : IsSum(f, costs, n)}
<1>1. 0 \in Good
    <2> DEFINE f == [k \in 0 .. 0 |-> 0]
    <2>1. IsSum(f, costs, 0)
        <3>1. 0 .. 0 = {0}
            OBVIOUS
        <3> QED
            BY <3>1 DEF IsSum
    <2> HIDE DEF f
    <2> QED
        BY <2>1
<1>2. ASSUME NEW n \in Nat, n \in Good PROVE n + 1 \in Good
    <2>1. PICK f : IsSum(f, costs, n)
        BY <1>2
    <2> DEFINE g == [k \in 0 .. n + 1 |-> IF k <= n THEN f[k] ELSE f[n] + costs[n + 1]]
    <2>2. \A k \in 0 .. n + 1 : g[k] = IF k = 0 THEN 0 ELSE g[k - 1] + costs[k]
        <3> TAKE k \in 0 .. n + 1
        <3>1. CASE k = 0
            BY <2>1, <3>1 DEF IsSum
        <3>2. CASE k \in 1 .. n
            <4>1. k - 1 \in 0 .. n + 1 /\ k - 1 <= n /\ k \in 0 .. n /\ k <= n
                BY <3>2
            <4>2. f[k] = f[k - 1] + costs[k]
                BY <2>1, <3>2, <4>1 DEF IsSum
            <4> QED
                BY <3>2, <4>1, <4>2
        <3>3. CASE k = n + 1
            <4>1. k - 1 = n /\ n \in 0 .. n + 1 /\ ~ (k <= n) /\ k # 0
                BY <3>3
            <4> QED
                BY <3>3, <4>1
        <3> QED
            BY <3>1, <3>2, <3>3
    <2>3. IsSum(g, costs, n + 1)
        BY <2>2 DEF IsSum
    <2> HIDE DEF g
    <2> QED
        BY <2>3
<1>3. \A N \in Nat : N \in Good
    <2> TAKE N \in Nat
    <2> HIDE DEF Good
    <2>1. \A n \in 0 .. N : n < N /\ n \in Good => n + 1 \in Good
        BY <1>2
    <2>2. 0 .. N \subseteq Good
        BY <1>1, <2>1, AllNumbers
    <2> QED
        BY <2>2
<1> DEFINE P(f) == IsSum(f, costs, Len(costs))
           Sum == CHOOSE f : P(f)
<1>4. Total(costs) = Sum[Len(costs)]
    BY DEF Total, IsSum
<1>5. \E f : P(f)
    BY <1>3
<1> HIDE DEF P
<1>6. P(Sum)
    BY <1>5
<1> QED
    BY <1>4, <1>6 DEF P

LEMMA SumType ==
    ASSUME NEW costs \in Seq(Nat), NEW f, IsSum(f, costs, Len(costs))
    PROVE  /\ f[0] = 0
           /\ \A k \in 0 .. Len(costs) : f[k] \in Nat
           /\ \A k \in 1 .. Len(costs) : f[k] = f[k - 1] + costs[k]
<1>1. Len(costs) \in Nat /\ \A k \in 1 .. Len(costs) : costs[k] \in Nat
    OBVIOUS
<1>2. f[0] = 0
    BY <1>1 DEF IsSum
<1>3. \A k \in 1 .. Len(costs) : f[k] = f[k - 1] + costs[k]
    <2> TAKE k \in 1 .. Len(costs)
    <2>1. k \in 0 .. Len(costs) /\ k # 0
        BY <1>1
    <2> QED
        BY <2>1 DEF IsSum
<1> DEFINE S == {k \in 0 .. Len(costs) : f[k] \in Nat}
<1>4. 0 \in S
    BY <1>1, <1>2
<1>5. \A n \in 0 .. Len(costs) : n < Len(costs) /\ n \in S => n + 1 \in S
    <2> SUFFICES ASSUME NEW n \in 0 .. Len(costs), n < Len(costs), f[n] \in Nat
                 PROVE  n + 1 \in 0 .. Len(costs) /\ f[n + 1] \in Nat
        OBVIOUS
    <2>1. n + 1 \in 1 .. Len(costs) /\ (n + 1) - 1 = n
        BY <1>1
    <2>2. f[n + 1] = f[n] + costs[n + 1] /\ costs[n + 1] \in Nat
        BY <1>1, <1>3, <2>1
    <2> QED
        BY <2>1, <2>2
<1>6. 0 .. Len(costs) \subseteq S
    <2> HIDE DEF S
    <2> QED
        BY <1>1, <1>4, <1>5, AllNumbers
<1> QED
    BY <1>2, <1>3, <1>6

LEMMA TotalOfNone == Total(<<>>) = 0
<1>1. <<>> \in Seq(Nat) /\ Len(<<>>) = 0
    OBVIOUS
<1>2. PICK f : IsSum(f, <<>>, Len(<<>>)) /\ Total(<<>>) = f[Len(<<>>)]
    BY <1>1, TotalIsSum
<1> QED
    BY <1>1, <1>2, SumType

(* What an edge in front of a path adds to its cost.                         *)
LEMMA TotalOfOneMore ==
    ASSUME NEW s \in Seq(Nat), NEW t \in Seq(Nat), Len(t) = Len(s) + 1,
           \A k \in 1 .. Len(s) : t[k + 1] = s[k]
    PROVE  Total(s) \in Nat /\ Total(t) = t[1] + Total(s)
<1>1. PICK f : IsSum(f, s, Len(s)) /\ Total(s) = f[Len(s)]
    BY TotalIsSum
<1>2. PICK g : IsSum(g, t, Len(t)) /\ Total(t) = g[Len(t)]
    BY TotalIsSum
<1>3. Len(s) \in Nat /\ t[1] \in Nat
    OBVIOUS
<1>4. /\ f[0] = 0
      /\ \A k \in 0 .. Len(s) : f[k] \in Nat
      /\ \A k \in 1 .. Len(s) : f[k] = f[k - 1] + s[k]
    BY <1>1, SumType
<1>5. /\ g[0] = 0
      /\ \A k \in 1 .. Len(t) : g[k] = g[k - 1] + t[k]
    BY <1>2, SumType
<1> DEFINE S == {k \in 0 .. Len(s) : g[k + 1] = t[1] + f[k]}
<1>6. 0 \in S
    <2>1. g[1] = g[1 - 1] + t[1]
        BY <1>3, <1>5
    <2> QED
        BY <1>3, <1>4, <1>5, <2>1
<1>7. \A n \in 0 .. Len(s) : n < Len(s) /\ n \in S => n + 1 \in S
    <2> SUFFICES ASSUME NEW n \in 0 .. Len(s), n < Len(s), g[n + 1] = t[1] + f[n]
                 PROVE  n + 1 \in 0 .. Len(s) /\ g[(n + 1) + 1] = t[1] + f[n + 1]
        OBVIOUS
    <2>1. n + 1 \in 1 .. Len(s) /\ (n + 1) + 1 \in 1 .. Len(t) /\ (n + 1) - 1 = n
          /\ ((n + 1) + 1) - 1 = n + 1
        BY <1>3
    <2>2. g[(n + 1) + 1] = g[n + 1] + t[(n + 1) + 1]
        BY <1>5, <2>1
    <2>3. f[n + 1] = f[n] + s[n + 1] /\ t[(n + 1) + 1] = s[n + 1] /\ s[n + 1] \in Nat
        BY <1>4, <2>1
    <2>4. f[n] \in Nat
        BY <1>4
    <2> QED
        BY <1>3, <2>1, <2>2, <2>3, <2>4
<1>8. Len(s) \in S
    <2> HIDE DEF S
    <2>1. 0 .. Len(s) \subseteq S
        BY <1>3, <1>6, <1>7, AllNumbers
    <2> QED
        BY <1>3, <2>1
<1> QED
    BY <1>1, <1>2, <1>3, <1>4, <1>8

-----------------------------------------------------------------------------
(* What walks cost.  R holds the start, its arcs lead nowhere else, and none *)
(* of them costs less than nothing.                                         *)
Closed(A, R) ==
    /\ R \subseteq Ids
    /\ \A a \in A : a.from \in Ids /\ a.to \in Ids
    /\ \A a \in A : a.from \in R => a.to \in R /\ a.cost \in Nat

(* The costs after one more round.                                          *)
LEMMA CostsStep ==
    ASSUME NEW A, NEW s, NEW k \in Nat, k < Longest, NEW i \in Ids
    PROVE  CostsWithin(A, s)[k + 1][i] =
               CostsWithin(A, s)[k][i] \cup
                   UNION {{c + a.cost : c \in CostsWithin(A, s)[k][a.from]} :
                             a \in {b \in A : b.to = i}}
<1>1. k + 1 \in 1 .. Longest /\ (k + 1) - 1 = k
    BY LongestType
<1>2. CostsWithin(A, s)[k + 1] = OneMore(A, CostsWithin(A, s)[k])
    BY <1>1, CostsRecursion
<1> QED
    BY <1>2 DEF OneMore

(* The cost of a longer walk is that of a shorter one, or of one more arc.   *)
LEMMA LastArc ==
    ASSUME NEW A, NEW s, NEW k \in Nat, k < Longest, NEW i \in Ids,
           NEW c \in CostsWithin(A, s)[k + 1][i]
    PROVE  \/ c \in CostsWithin(A, s)[k][i]
           \/ \E a \in A : \E b \in CostsWithin(A, s)[k][a.from] : a.to = i /\ c = b + a.cost
BY CostsStep

LEMMA AddArc ==
    ASSUME NEW A, NEW s, NEW k \in Nat, k < Longest, NEW a \in A, a.to \in Ids,
           NEW c \in CostsWithin(A, s)[k][a.from]
    PROVE  c + a.cost \in CostsWithin(A, s)[k + 1][a.to]
BY CostsStep

LEMMA LongerWalk ==
    ASSUME NEW A, NEW s, NEW k \in Nat, k < Longest, NEW i \in Ids
    PROVE  CostsWithin(A, s)[k][i] \subseteq CostsWithin(A, s)[k + 1][i]
BY CostsStep

LEMMA NoWalk ==
    ASSUME NEW A, NEW s \in Ids, NEW i \in Ids
    PROVE  CostsWithin(A, s)[0][i] = IF i = s THEN {0} ELSE {}
<1>1. CostsWithin(A, s)[0] = NoArc(s)
    BY CostsRecursion
<1> QED
    BY <1>1 DEF NoArc

(* Walks stay among the items within reach and cost no less than nothing.    *)
LEMMA WalkType ==
    ASSUME NEW A, NEW R, Closed(A, R), NEW s \in R, NEW k \in 0 .. Longest, NEW i \in Ids,
           NEW c \in CostsWithin(A, s)[k][i]
    PROVE  i \in R /\ c \in Nat
<1> DEFINE S == {n \in 0 .. Longest :
                    \A j \in Ids : \A d \in CostsWithin(A, s)[n][j] : j \in R /\ d \in Nat}
<1>1. 0 \in S
    BY NoWalk, LongestType DEF Closed
<1>2. \A n \in 0 .. Longest : n < Longest /\ n \in S => n + 1 \in S
    <2> SUFFICES ASSUME NEW n \in 0 .. Longest, n < Longest, n \in S,
                        NEW j \in Ids, NEW d \in CostsWithin(A, s)[n + 1][j]
                 PROVE  j \in R /\ d \in Nat
        BY LongestType
    <2>1. n \in Nat
        BY LongestType
    <2>2. CASE d \in CostsWithin(A, s)[n][j]
        BY <2>2
    <2>3. ASSUME NEW a \in A, NEW b \in CostsWithin(A, s)[n][a.from], a.to = j, d = b + a.cost
          PROVE  j \in R /\ d \in Nat
        <3>1. a.from \in R /\ b \in Nat
            BY <2>3 DEF Closed
        <3> QED
            BY <2>3, <3>1 DEF Closed
    <2> QED
        BY <2>1, <2>2, <2>3, LastArc
<1>3. 0 .. Longest \subseteq S
    <2> HIDE DEF S
    <2> QED
        BY <1>1, <1>2, AllNumbers, LongestType
<1> QED
    BY <1>3

(* Standing still is a walk that costs nothing.                             *)
LEMMA EmptyWalk ==
    ASSUME NEW A, NEW s \in Ids, NEW k \in 0 .. Longest
    PROVE  0 \in CostsWithin(A, s)[k][s]
<1> DEFINE S == {n \in 0 .. Longest : 0 \in CostsWithin(A, s)[n][s]}
<1>1. 0 \in S
    BY NoWalk, LongestType
<1>2. \A n \in 0 .. Longest : n < Longest /\ n \in S => n + 1 \in S
    BY LongerWalk, LongestType
<1>3. 0 .. Longest \subseteq S
    <2> HIDE DEF S
    <2> QED
        BY <1>1, <1>2, AllNumbers, LongestType
<1> QED
    BY <1>3

(* A walk may be started one arc earlier.                                   *)
LEMMA FirstArc ==
    ASSUME NEW A, NEW R, Closed(A, R), NEW a \in A, a.from \in R,
           NEW k \in Nat, k < Longest, NEW i \in Ids,
           NEW c \in CostsWithin(A, a.to)[k][i]
    PROVE  a.cost + c \in CostsWithin(A, a.from)[k + 1][i]
<1> DEFINE S == {n \in 0 .. Longest - 1 :
                    \A j \in Ids : \A d \in CostsWithin(A, a.to)[n][j] :
                        a.cost + d \in CostsWithin(A, a.from)[n + 1][j]}
<1>0. a.from \in Ids /\ a.to \in Ids /\ a.to \in R /\ a.cost \in Nat
    BY DEF Closed
<1>1. 0 \in S
    <2> SUFFICES ASSUME NEW j \in Ids, NEW d \in CostsWithin(A, a.to)[0][j]
                 PROVE  a.cost + d \in CostsWithin(A, a.from)[0 + 1][j]
        BY LongestType
    <2>1. j = a.to /\ d = 0
        BY <1>0, NoWalk
    <2>2. 0 \in CostsWithin(A, a.from)[0][a.from] /\ 0 < Longest
        BY <1>0, NoWalk, LongestType
    <2>3. 0 + a.cost \in CostsWithin(A, a.from)[0 + 1][a.to]
        BY <1>0, <2>2, AddArc
    <2> QED
        BY <1>0, <2>1, <2>3
<1>2. \A n \in 0 .. Longest - 1 : n < Longest - 1 /\ n \in S => n + 1 \in S
    <2> SUFFICES ASSUME NEW n \in 0 .. Longest - 1, n < Longest - 1, n \in S,
                        NEW j \in Ids, NEW d \in CostsWithin(A, a.to)[n + 1][j]
                 PROVE  a.cost + d \in CostsWithin(A, a.from)[(n + 1) + 1][j]
        BY LongestType
    <2>1. n \in Nat /\ n < Longest /\ n + 1 \in Nat /\ n + 1 < Longest /\ n \in 0 .. Longest
        BY LongestType
    <2>2. CASE d \in CostsWithin(A, a.to)[n][j]
        <3>1. a.cost + d \in CostsWithin(A, a.from)[n + 1][j]
            BY <2>2
        <3> QED
            BY <2>1, <3>1, LongerWalk
    <2>3. ASSUME NEW b \in A, NEW e \in CostsWithin(A, a.to)[n][b.from], b.to = j, d = e + b.cost
          PROVE  a.cost + d \in CostsWithin(A, a.from)[(n + 1) + 1][j]
        <3>1. b.from \in Ids
            BY DEF Closed
        <3>2. b.from \in R /\ e \in Nat
            BY <1>0, <2>1, <3>1, WalkType
        <3>3. a.cost + e \in CostsWithin(A, a.from)[n + 1][b.from]
            BY <3>1
        <3>4. (a.cost + e) + b.cost \in CostsWithin(A, a.from)[(n + 1) + 1][b.to]
            BY <2>1, <2>3, <3>3, AddArc
        <3>5. b.cost \in Nat
            BY <3>2 DEF Closed
        <3> QED
            BY <1>0, <2>3, <3>2, <3>4, <3>5
    <2> QED
        BY <2>1, <2>2, <2>3, LastArc
<1>3. 0 .. Longest - 1 \subseteq S
    <2> HIDE DEF S
    <2>1. Longest - 1 \in Nat
        BY LongestType
    <2> QED
        BY <1>1, <1>2, <2>1, AllNumbers
<1>4. k \in 0 .. Longest - 1
    BY LongestType
<1> QED
    BY <1>3, <1>4

(* A walk remains one when more arcs are allowed.                           *)
LEMMA WalkGrows ==
    ASSUME NEW A, NEW s, NEW i \in Ids, NEW k \in 0 .. Longest, NEW c \in CostsWithin(A, s)[k][i]
    PROVE  c \in CostsWithin(A, s)[Longest][i]
<1> DEFINE S == {n \in 0 .. Longest : n >= k => c \in CostsWithin(A, s)[n][i]}
<1>1. 0 \in S
    BY LongestType
<1>2. \A n \in 0 .. Longest : n < Longest /\ n \in S => n + 1 \in S
    <2> SUFFICES ASSUME NEW n \in 0 .. Longest, n < Longest, n \in S, n + 1 >= k
                 PROVE  c \in CostsWithin(A, s)[n + 1][i]
        BY LongestType
    <2>1. CASE n + 1 = k
        BY <2>1
    <2>2. CASE n >= k
        BY <2>2, LongerWalk, LongestType
    <2> QED
        BY <2>1, <2>2, LongestType
<1>3. 0 .. Longest \subseteq S
    <2> HIDE DEF S
    <2> QED
        BY <1>1, <1>2, AllNumbers, LongestType
<1> QED
    BY <1>3, LongestType

-----------------------------------------------------------------------------
(* The graph.  A search changes neither the query nor the snapshot, so that  *)
(* whatever is said in terms of them stays as it is.                        *)

(* No two labels have the same hash: the prefix scan would mix their edges.  *)
NoCollision == \A k, l \in Labels : LabelHash[k] = LabelHash[l] => k = l

GraphOK ==
    /\ query \in Query
    /\ snapshot.nodes \subseteq Ids
    /\ snapshot.estimate \in [Ids -> Int \cup {Missing}]
    /\ \A e \in snapshot.edges :
          e.from \in Ids /\ e.to \in Ids /\ e.label \in Labels /\ e.weight \in Weights

LEMMA GraphStays == [PathsNext]_pathsVars => query' = query /\ snapshot' = snapshot
BY DEF PathsNext, pathsVars, StartBfs, StartDijkstra, StartAStar, Begin, PopQueue, PopHeap, Exhausted,
       Visit, Weigh, StepBack, YieldPath, Finish

LEMMA EdgesStay ==
    ASSUME query' = query, snapshot' = snapshot
    PROVE  /\ Followed' = Followed
           /\ \A i : OutEdges(i)' = OutEdges(i)
           /\ \A e : Cost(e)' = Cost(e)
           /\ GraphOK' = GraphOK
BY DEF Followed, OutEdges, Cost, GraphOK

LEMMA WalksStay ==
    ASSUME query' = query, snapshot' = snapshot
    PROVE  /\ Arcs' = Arcs
           /\ \A s : ReachedFrom(s)' = ReachedFrom(s)
           /\ \A s : WalkCosts(s)' = WalkCosts(s)
           /\ \A s, t : Weighable(s, t)' = Weighable(s, t)
           /\ \A p : PathCost(p)' = PathCost(p)
<1>1. Followed' = Followed /\ \A e : Cost(e)' = Cost(e)
    BY EdgesStay
<1>2. Arcs' = Arcs
    BY <1>1 DEF Arcs
<1>3. \A s : ReachedFrom(s)' = ReachedFrom(s)
    BY <1>1 DEF ReachedFrom
<1>4. \A s : WalkCosts(s)' = WalkCosts(s)
    BY <1>2 DEF WalkCosts
<1>5. \A s, t : Weighable(s, t)' = Weighable(s, t)
    BY <1>1, <1>3, <1>4 DEF Weighable, Leaving
<1>6. \A p : PathCost(p)' = PathCost(p)
    BY <1>1 DEF PathCost
<1> QED
    BY <1>2, <1>3, <1>4, <1>5, <1>6

LEMMA Instances ==
    ASSUME query' = query, snapshot' = snapshot, from' = from, to' = to, NEW p
    PROVE  ReachedFrom(from)' = ReachedFrom(from) /\ Weighable(from, to)' = Weighable(from, to)
           /\ Weighable(p.from, p.to)' = Weighable(p.from, p.to)
BY WalksStay

-----------------------------------------------------------------------------
(* The invariant.  What holds of the tables while a search runs and while    *)
(* its path is put together; of the frontier, by the algorithm; of the path. *)

(* Every entry of an item is still to come, or leads no further than known.  *)
Scanned(i) ==
    \A e \in OutEdges(i) :
        \/ here.id = i /\ e \in scan
        \/ e.to \in DOMAIN best /\ Cost(e) \in Nat /\ best[e.to] <= best[i] + Cost(e)

Typed ==
    /\ sources \in Seq(Ids)
    /\ from \in Ids /\ to \in Ids
    /\ scan \subseteq OutEdges(here.id)
    /\ phase \in {"next", "search", "rebuild", "done", "failed", "down"}
    /\ phase \in {"failed", "down"} <=> error # "none"

Tree ==
    phase \in {"search", "rebuild"} =>
        /\ DOMAIN best \subseteq ReachedFrom(from)
        /\ \A i \in DOMAIN best : best[i] \in Nat
        /\ from \in DOMAIN best /\ best[from] = 0
        /\ DOMAIN best = DOMAIN parent \cup {from}
        /\ \A i \in DOMAIN parent :
              /\ parent[i] \in Followed /\ parent[i].to = i
              /\ parent[i].from \in DOMAIN best
              /\ Cost(parent[i]) \in Nat
              /\ best[parent[i].from] + Cost(parent[i]) <= best[i]

Expanding ==
    phase = "search" /\ scan # {} => here.id \in DOMAIN best /\ here.g = best[here.id]

(* Breadth first: the queue holds items in the order of their distances,    *)
(* which differ by one at most, and nothing else is to be expanded.          *)
QueueOK ==
    phase = "search" /\ query.algorithm = "BFS" =>
        /\ heap = {}
        /\ queue \in Seq(DOMAIN best)
        /\ to \notin DOMAIN best
        /\ \A i \in DOMAIN best : (\E k \in DOMAIN queue : queue[k] = i) \/ Scanned(i)
        /\ \A j, k \in DOMAIN queue : j <= k => best[queue[j]] <= best[queue[k]]
        /\ \A k \in DOMAIN queue : \A i \in DOMAIN best : best[i] <= best[queue[k]] + 1
        /\ scan # {} => /\ \A k \in DOMAIN queue : here.g <= best[queue[k]]
                        /\ \A i \in DOMAIN best : best[i] <= here.g + 1

(* The other two: every item has an entry at its distance or was expanded    *)
(* at it, which the target never is.                                         *)
Guess(i) == IF query.algorithm = "AStar" THEN Estimate(i) ELSE 0

HeapOK ==
    phase = "search" /\ query.algorithm # "BFS" =>
        /\ queue = <<>>
        /\ IsFiniteSet(heap)
        /\ \A x \in heap :
              /\ x.id \in DOMAIN best /\ x.g \in Nat /\ best[x.id] <= x.g
              /\ Guess(x.id) \in Int /\ x = Entry(x.id, x.g, x.g + Guess(x.id))
        /\ \A i \in DOMAIN best :
              (\E x \in heap : x.id = i /\ x.g = best[i]) \/ (i # to /\ Scanned(i))

(* The part of the path that is there leads from the walk to the target, and *)
(* no walk to the target is cheaper than what the tables say.                *)
Leads ==
    /\ \A k \in DOMAIN path : path[k].to \in snapshot.nodes
    /\ \A k \in DOMAIN path : path[k].from = IF k = 1 THEN walk ELSE path[k - 1].to
    /\ to = IF path = <<>> THEN walk ELSE path[Len(path)].to

Cheapest ==
    Weighable(from, to) => \A c \in WalkCosts(from)[to] : best[to] <= c

PathOK ==
    phase = "rebuild" =>
        /\ walk \in DOMAIN best /\ to \in DOMAIN best
        /\ path \in Seq(Followed)
        /\ \A k \in DOMAIN path : Cost(path[k]) \in Nat
        /\ Leads
        /\ PathCost(path) + best[walk] <= best[to]
        /\ Cheapest

Collected ==
    /\ paths \in Seq([from : Ids, to : Ids, edges : Seq(Followed)])
    /\ \A k \in DOMAIN paths :
          /\ IsPath(paths[k])
          /\ Weighable(paths[k].from, paths[k].to) =>
                \A c \in WalkCosts(paths[k].from)[paths[k].to] : PathCost(paths[k].edges) <= c

Reasons ==
    /\ error = "not found" => to \notin ReachedFrom(from)
    /\ error = "node" => ~(ReachedFrom(from) \subseteq snapshot.nodes)
    /\ error \in {"weight", "estimate"} => ~Weighable(from, to)

PathsInv == GraphOK /\ Typed /\ Tree /\ Expanding /\ QueueOK /\ HeapOK /\ PathOK /\ Collected /\ Reasons

-----------------------------------------------------------------------------
(* What the search follows.                                                 *)

LEMMA FollowedType ==
    ASSUME GraphOK, NEW e \in Followed
    PROVE  e \in snapshot.edges /\ e.from \in Ids /\ e.to \in Ids /\ e.weight \in Weights
BY DEF Followed, GraphOK

(* The prefix scan of an item yields the edges that the step may follow.     *)
LEMMA ScanIsFollowed ==
    ASSUME NoCollision, GraphOK, NEW i, NEW e
    PROVE  e \in OutEdges(i) <=> e \in Followed /\ e.from = i
<1>1. query.label \in Labels \cup {NoLabel}
    BY DEF GraphOK, Query
<1>2. \A d \in snapshot.edges : d.label \in Labels
    BY DEF GraphOK
<1> QED
    BY <1>1, <1>2 DEF OutEdges, Followed, NoCollision

LEMMA ReachedStart ==
    ASSUME NEW s \in Ids
    PROVE  s \in ReachedFrom(s) /\ ReachedFrom(s) \subseteq Ids
BY DEF ReachedFrom

LEMMA ReachedStep ==
    ASSUME GraphOK, NEW s, NEW e \in Followed, e.from \in ReachedFrom(s)
    PROVE  e.to \in ReachedFrom(s)
<1>1. e.to \in Ids
    BY FollowedType
<1> SUFFICES ASSUME NEW I \in SUBSET Ids, s \in I,
                    \A d \in Followed : d.from \in I => d.to \in I
             PROVE  e.to \in I
    BY <1>1 DEF ReachedFrom
<1>2. e.from \in I
    BY DEF ReachedFrom
<1> QED
    BY <1>2

LEMMA ReachedLeast ==
    ASSUME NEW s, NEW I \in SUBSET Ids, s \in I,
           \A d \in Followed : d.from \in I => d.to \in I
    PROVE  ReachedFrom(s) \subseteq I
BY DEF ReachedFrom

(* Where no usable weight is negative, no walk costs less than nothing.      *)
LEMMA ArcsClosed ==
    ASSUME GraphOK, NEW s \in Ids, NEW t, Weighable(s, t)
    PROVE  Closed(Arcs, ReachedFrom(s))
<1>1. \A e \in Followed : e.from \in ReachedFrom(s) => Cost(e) \in Nat
    <2> TAKE e \in Followed
    <2> HAVE e.from \in ReachedFrom(s)
    <2>1. CASE query.algorithm = "BFS"
        BY <2>1 DEF Cost
    <2>2. CASE query.algorithm # "BFS"
        <3>1. e.weight \notin {Missing, Unreadable} /\ e.weight >= 0
            BY <2>2 DEF Weighable, Leaving
        <3>2. e.weight \in Int
            BY <3>1, FollowedType DEF Weights
        <3> QED
            BY <2>2, <3>1, <3>2 DEF Cost
    <2> QED
        BY <2>1, <2>2
<1>2. ASSUME NEW a \in Arcs
      PROVE  /\ a.from \in Ids /\ a.to \in Ids
             /\ a.from \in ReachedFrom(s) => a.to \in ReachedFrom(s) /\ a.cost \in Nat
    <2>1. PICK e \in Followed : a = [from |-> e.from, to |-> e.to, cost |-> Cost(e)]
        BY DEF Arcs
    <2>2. a.from = e.from /\ a.to = e.to /\ a.cost = Cost(e)
        BY <2>1
    <2>3. e.from \in Ids /\ e.to \in Ids
        BY FollowedType
    <2>4. e.from \in ReachedFrom(s) => e.to \in ReachedFrom(s) /\ Cost(e) \in Nat
        BY <1>1, ReachedStep
    <2> QED
        BY <2>2, <2>3, <2>4
<1> QED
    BY <1>2, ReachedStart DEF Closed

LEMMA ArcOfEdge ==
    ASSUME NEW a \in Arcs
    PROVE  \E e \in Followed : a.from = e.from /\ a.to = e.to /\ a.cost = Cost(e)
BY DEF Arcs

(* A scanned item has taken the distance over each of its arcs.              *)
LEMMA ScannedArc ==
    ASSUME NoCollision, GraphOK, NEW a \in Arcs, Scanned(a.from), ~(here.id = a.from /\ scan # {})
    PROVE  a.to \in DOMAIN best /\ a.cost \in Nat /\ best[a.to] <= best[a.from] + a.cost
<1>1. PICK e \in Followed : a.from = e.from /\ a.to = e.to /\ a.cost = Cost(e)
    BY ArcOfEdge
<1>2. e \in OutEdges(a.from)
    BY <1>1, ScanIsFollowed
<1>3. e.to \in DOMAIN best /\ Cost(e) \in Nat /\ best[e.to] <= best[a.from] + Cost(e)
    BY <1>2 DEF Scanned
<1> QED
    BY <1>1, <1>3

-----------------------------------------------------------------------------
(* Why an answer is the cheapest.  On every walk from the start there is an  *)
(* item from which the search has not gone on, unless it has found a way     *)
(* that costs no more.                                                      *)

(* Breadth first: the items of the queue, and the one whose entries are      *)
(* being read.                                                              *)
Waiting(i) == (\E k \in DOMAIN queue : queue[k] = i) \/ (here.id = i /\ scan # {})

LEMMA WalkWaits ==
    ASSUME NoCollision, GraphOK, Typed, Tree, QueueOK, phase = "search",
           query.algorithm = "BFS",
           NEW k \in 0 .. Longest, NEW i \in Ids, NEW c \in CostsWithin(Arcs, from)[k][i]
    PROVE  \/ i \in DOMAIN best /\ best[i] <= c
           \/ \E j \in DOMAIN best : Waiting(j) /\ best[j] < c
<1> DEFINE Near(j, d) == \/ j \in DOMAIN best /\ best[j] <= d
                         \/ \E y \in DOMAIN best : Waiting(y) /\ best[y] < d
           S == {n \in 0 .. Longest :
                    \A j \in Ids : \A d \in CostsWithin(Arcs, from)[n][j] : Near(j, d)}
<1>0. from \in Ids /\ Closed(Arcs, ReachedFrom(from)) /\ from \in ReachedFrom(from)
    <2>1. Weighable(from, to)
        BY DEF Weighable
    <2> QED
        BY <2>1, ArcsClosed, ReachedStart DEF Typed
<1>1. 0 \in S
    <2> SUFFICES ASSUME NEW j \in Ids, NEW d \in CostsWithin(Arcs, from)[0][j]
                 PROVE  Near(j, d)
        BY LongestType
    <2>1. j = from /\ d = 0
        BY <1>0, NoWalk
    <2> QED
        BY <2>1 DEF Tree
<1>2. \A n \in 0 .. Longest : n < Longest /\ n \in S => n + 1 \in S
    <2> SUFFICES ASSUME NEW n \in 0 .. Longest, n < Longest, n \in S,
                        NEW j \in Ids, NEW d \in CostsWithin(Arcs, from)[n + 1][j]
                 PROVE  Near(j, d)
        BY LongestType
    <2>1. n \in Nat
        BY LongestType
    <2>2. CASE d \in CostsWithin(Arcs, from)[n][j]
        BY <2>2
    <2>3. ASSUME NEW a \in Arcs, NEW b \in CostsWithin(Arcs, from)[n][a.from],
                 a.to = j, d = b + a.cost
          PROVE  Near(j, d)
        <3>1. a.from \in Ids
            BY <1>0 DEF Closed
        <3>2. a.from \in ReachedFrom(from) /\ b \in Nat
            BY <1>0, <2>1, <3>1, WalkType
        <3>3. a.cost = 1
            BY ArcOfEdge DEF Cost
        <3>4. Near(a.from, b)
            BY <3>1
        <3>5. \A y \in DOMAIN best : best[y] \in Nat
            BY DEF Tree
        <3>6. CASE \E y \in DOMAIN best : Waiting(y) /\ best[y] < b
            BY <2>3, <3>2, <3>3, <3>5, <3>6
        <3>7. CASE a.from \in DOMAIN best /\ best[a.from] <= b /\ Waiting(a.from)
            BY <2>3, <3>2, <3>3, <3>5, <3>7
        <3>8. CASE a.from \in DOMAIN best /\ best[a.from] <= b /\ ~Waiting(a.from)
            <4>1. Scanned(a.from)
                BY <3>8 DEF QueueOK, Waiting
            <4>2. a.to \in DOMAIN best /\ best[a.to] <= best[a.from] + 1
                BY <3>3, <3>8, <4>1, ScannedArc DEF Waiting
            <4> QED
                BY <2>3, <3>2, <3>3, <3>5, <3>8, <4>2
        <3> QED
            BY <3>4, <3>6, <3>7, <3>8
    <2> HIDE DEF Near
    <2> QED
        BY <2>1, <2>2, <2>3, LastArc
<1>3. 0 .. Longest \subseteq S
    <2> HIDE DEF S
    <2> QED
        BY <1>1, <1>2, AllNumbers, LongestType
<1> QED
    BY <1>3

(* The item that is found is one edge further than the one that is read, and *)
(* no walk to it has fewer edges.                                           *)
LEMMA FoundNearest ==
    ASSUME NoCollision, GraphOK, Typed, Tree, Expanding, QueueOK, phase = "search",
           query.algorithm = "BFS", scan # {},
           NEW c \in WalkCosts(from)[to]
    PROVE  here.g + 1 <= c
<1>1. from \in Ids /\ to \in Ids /\ Longest \in 0 .. Longest
    BY LongestType DEF Typed
<1>2. c \in CostsWithin(Arcs, from)[Longest][to]
    BY DEF WalkCosts, Longest
<1>3. PICK j \in DOMAIN best : Waiting(j) /\ best[j] < c
    BY <1>1, <1>2, WalkWaits DEF QueueOK
<1>4. here.g <= best[j]
    BY <1>3 DEF QueueOK, Expanding, Waiting, Tree
<1>5. c \in Nat
    <2>1. Weighable(from, to)
        BY DEF Weighable
    <2> QED
        BY <1>1, <1>2, <2>1, ArcsClosed, ReachedStart, WalkType
<1>6. here.g \in Nat /\ best[j] \in Nat
    BY DEF Expanding, Tree
<1> QED
    BY <1>3, <1>4, <1>5, <1>6

(* The entry at the top of a heap costs no more than any other: it is the    *)
(* one that the fewest come before.                                         *)
Ahead(x) == {y \in heap : Before(y, x)}

LEMMA FewerAhead ==
    ASSUME IsFiniteSet(heap),
           \A x \in heap : x.id \in Nat /\ x.f \in Int,
           NEW x \in heap, NEW y \in heap, Before(y, x)
    PROVE  /\ Cardinality(Ahead(y)) < Cardinality(Ahead(x))
           /\ Cardinality(Ahead(y)) \in Nat
<1>1. Ahead(y) \subseteq Ahead(x)
    <2> SUFFICES ASSUME NEW z \in heap, Before(z, y) PROVE Before(z, x)
        BY DEF Ahead
    <2>1. /\ x.id \in Nat /\ x.f \in Int /\ y.id \in Nat /\ y.f \in Int
          /\ z.id \in Nat /\ z.f \in Int
        OBVIOUS
    <2> QED
        BY <2>1 DEF Before
<1>2. y \in Ahead(x)
    BY DEF Ahead
<1>3. y \notin Ahead(y)
    BY DEF Ahead, Before
<1>4. IsFiniteSet(Ahead(x))
    BY FS_Subset DEF Ahead
<1>5. /\ IsFiniteSet(Ahead(y))
      /\ Cardinality(Ahead(y)) <= Cardinality(Ahead(x))
      /\ Cardinality(Ahead(y)) # Cardinality(Ahead(x))
    BY <1>1, <1>2, <1>3, <1>4, FS_Subset
<1>6. Cardinality(Ahead(x)) \in Nat /\ Cardinality(Ahead(y)) \in Nat
    BY <1>4, <1>5, FS_CardinalityType
<1> QED
    BY <1>5, <1>6

LEMMA TopIsLeast ==
    ASSUME IsFiniteSet(heap), heap # {},
           \A x \in heap : x.id \in Nat /\ x.f \in Int,
           \A x, y \in heap : x.id = y.id /\ x.f = y.f => x = y
    PROVE  Top \in heap /\ \A y \in heap : Top.f <= y.f
<1> DEFINE Counts == {Cardinality(Ahead(x)) : x \in heap}
<1>1. Counts \in SUBSET Nat /\ Counts # {}
    <2>1. ASSUME NEW x \in heap PROVE Cardinality(Ahead(x)) \in Nat
        <3>1. IsFiniteSet(Ahead(x))
            BY FS_Subset DEF Ahead
        <3> QED
            BY <3>1, FS_CardinalityType
    <2> QED
        BY <2>1
<1>2. PICK n \in Counts : \A m \in Counts : n <= m
    <2> HIDE DEF Counts
    <2> QED
        BY <1>1, LeastNumber
<1>3. PICK x \in heap : n = Cardinality(Ahead(x))
    BY <1>2
<1>4. \A y \in heap : ~Before(y, x)
    <2> SUFFICES ASSUME NEW y \in heap, Before(y, x) PROVE FALSE
        OBVIOUS
    <2>1. Cardinality(Ahead(y)) < n /\ Cardinality(Ahead(y)) \in Nat /\ n \in Nat
        BY <1>1, <1>3, FewerAhead
    <2>2. n <= Cardinality(Ahead(y))
        BY <1>2
    <2> QED
        BY <2>1, <2>2
<1>5. \A y \in heap \ {x} : Before(x, y)
    <2> TAKE y \in heap \ {x}
    <2>1. x.id # y.id \/ x.f # y.f
        OBVIOUS
    <2>2. x.id \in Nat /\ x.f \in Int /\ y.id \in Nat /\ y.f \in Int
        OBVIOUS
    <2>3. ~Before(y, x)
        BY <1>4
    <2> QED
        BY <2>1, <2>2, <2>3 DEF Before
<1>6. Top \in heap /\ \A y \in heap \ {Top} : Before(Top, y)
    <2> DEFINE P(z) == \A y \in heap \ {z} : Before(z, y)
    <2>1. \E z \in heap : P(z)
        BY <1>5
    <2>2. Top = CHOOSE z \in heap : P(z)
        BY DEF Top
    <2> HIDE DEF P
    <2>3. Top \in heap /\ P(Top)
        BY <2>1, <2>2
    <2> QED
        BY <2>3 DEF P
<1> QED
    BY <1>6 DEF Before

LEMMA HeapTop ==
    ASSUME GraphOK, Typed, Tree, HeapOK, phase = "search", query.algorithm # "BFS", heap # {}
    PROVE  Top \in heap /\ \A y \in heap : Top.f <= y.f
<1>1. IsFiniteSet(heap)
    BY DEF HeapOK
<1>2. DOMAIN best \subseteq Nat
    BY ReachedStart, IdAssumption DEF Tree, Typed
<1>3. \A x \in heap : x.id \in Nat /\ x.f = x.g + Guess(x.id) /\ x.g \in Nat /\ Guess(x.id) \in Int
                      /\ x = Entry(x.id, x.g, x.f)
    <2> TAKE x \in heap
    <2>1. x.id \in DOMAIN best /\ x.g \in Nat /\ Guess(x.id) \in Int
          /\ x = Entry(x.id, x.g, x.g + Guess(x.id))
        BY DEF HeapOK
    <2>2. x.f = x.g + Guess(x.id)
        BY <2>1 DEF Entry
    <2> QED
        BY <1>2, <2>1, <2>2
<1>4. \A x, y \in heap : x.id = y.id /\ x.f = y.f => x = y
    <2> TAKE x, y \in heap
    <2> HAVE x.id = y.id /\ x.f = y.f
    <2>1. x.g = y.g
        BY <1>3
    <2> QED
        BY <1>3, <2>1
<1>5. \A x \in heap : x.id \in Nat /\ x.f \in Int
    BY <1>3
<1> QED
    BY <1>1, <1>4, <1>5, TopIsLeast

(* The heaps: an entry of an item of the walk promises no more than what the *)
(* walk costs, whichever way it goes on to the target.                      *)
LEMMA WalkPromised ==
    ASSUME NoCollision, GraphOK, Typed, Tree, HeapOK, phase = "search",
           query.algorithm # "BFS", Weighable(from, to), scan = {},
           NEW k \in 0 .. Longest, NEW i \in Ids, NEW c \in CostsWithin(Arcs, from)[k][i],
           NEW m \in 0 .. Longest - k, NEW r \in CostsWithin(Arcs, i)[m][to]
    PROVE  \/ i \in DOMAIN best /\ best[i] <= c
           \/ \E x \in heap : x.f <= c + r
<1> DEFINE Near(j, d, q) == (j \in DOMAIN best /\ best[j] <= d) \/ \E x \in heap : x.f <= d + q
           S == {n \in 0 .. Longest :
                    \A j \in Ids : \A d \in CostsWithin(Arcs, from)[n][j] :
                        \A l \in 0 .. Longest - n : \A q \in CostsWithin(Arcs, j)[l][to] :
                            Near(j, d, q)}
<1>0. /\ from \in Ids /\ to \in Ids /\ from \in ReachedFrom(from)
      /\ Closed(Arcs, ReachedFrom(from)) /\ Longest \in Nat
    BY ArcsClosed, ReachedStart, LongestType DEF Typed
<1>1. 0 \in S
    <2> SUFFICES ASSUME NEW j \in Ids, NEW d \in CostsWithin(Arcs, from)[0][j]
                 PROVE  j \in DOMAIN best /\ best[j] <= d
        BY <1>0
    <2>1. j = from /\ d = 0
        BY <1>0, NoWalk
    <2> QED
        BY <2>1 DEF Tree
<1>2. \A n \in 0 .. Longest : n < Longest /\ n \in S => n + 1 \in S
    <2> SUFFICES ASSUME NEW n \in 0 .. Longest, n < Longest, n \in S,
                        NEW j \in Ids, NEW d \in CostsWithin(Arcs, from)[n + 1][j],
                        NEW l \in 0 .. Longest - (n + 1), NEW q \in CostsWithin(Arcs, j)[l][to]
                 PROVE  Near(j, d, q)
        BY <1>0
    <2>1. n \in Nat /\ l \in Nat /\ l < Longest /\ l \in 0 .. Longest - n
          /\ l + 1 \in 0 .. Longest - n /\ l \in 0 .. Longest /\ l + 1 \in 0 .. Longest
        BY <1>0
    <2>2. CASE d \in CostsWithin(Arcs, from)[n][j]
        BY <2>1, <2>2
    <2>3. ASSUME NEW a \in Arcs, NEW b \in CostsWithin(Arcs, from)[n][a.from],
                 a.to = j, d = b + a.cost
          PROVE  Near(j, d, q)
        <3>1. a.from \in Ids /\ a.to \in Ids
            BY <1>0 DEF Closed
        <3>2. a.from \in ReachedFrom(from) /\ b \in Nat
            BY <1>0, <2>1, <3>1, WalkType
        <3>3. a.cost \in Nat /\ a.to \in ReachedFrom(from)
            BY <1>0, <3>2 DEF Closed
        <3>4. a.cost + q \in CostsWithin(Arcs, a.from)[l + 1][to]
            BY <1>0, <2>1, <2>3, <3>2, FirstArc
        <3>5. q \in Nat
            BY <1>0, <2>1, <2>3, <3>3, WalkType
        <3>6. b + (a.cost + q) = d + q
            BY <2>3, <3>2, <3>3, <3>5
        <3>7. Near(a.from, b, a.cost + q)
            BY <2>1, <3>1, <3>4
        <3>8. CASE \E x \in heap : x.f <= b + (a.cost + q)
            BY <3>6, <3>8
        <3>9. CASE /\ a.from \in DOMAIN best /\ best[a.from] <= b
                   /\ \E x \in heap : x.id = a.from /\ x.g = best[a.from]
            <4>1. PICK x \in heap : x.id = a.from /\ x.g = best[a.from]
                BY <3>9
            <4>2. Guess(a.from) \in Int /\ x.f = best[a.from] + Guess(a.from)
                  /\ best[a.from] \in Nat
                BY <3>9, <4>1 DEF HeapOK, Entry, Tree
            <4>3. Guess(a.from) <= a.cost + q
                <5>1. CASE query.algorithm = "AStar"
                    <6>1. a.cost + q \in WalkCosts(a.from)[to]
                        BY <1>0, <2>1, <3>1, <3>4, WalkGrows DEF WalkCosts, Longest
                    <6> QED
                        BY <3>2, <5>1, <6>1 DEF Weighable, Guess, Estimate
                <5>2. CASE query.algorithm # "AStar"
                    BY <3>3, <3>5, <5>2 DEF Guess
                <5> QED
                    BY <5>1, <5>2
            <4>4. x.f <= b + (a.cost + q)
                BY <3>2, <3>3, <3>5, <3>9, <4>2, <4>3
            <4> QED
                BY <3>6, <4>4
        <3>10. CASE a.from \in DOMAIN best /\ best[a.from] <= b /\ Scanned(a.from)
            <4>1. a.to \in DOMAIN best /\ best[a.to] <= best[a.from] + a.cost
                BY <3>10, ScannedArc
            <4>2. best[a.to] \in Nat /\ best[a.from] \in Nat
                BY <3>10, <4>1 DEF Tree
            <4> QED
                BY <2>3, <3>2, <3>3, <3>10, <4>1, <4>2
        <3> QED
            BY <3>7, <3>8, <3>9, <3>10 DEF HeapOK
    <2> HIDE DEF Near
    <2> QED
        BY <2>1, <2>2, <2>3, LastArc
<1>3. 0 .. Longest \subseteq S
    <2> HIDE DEF S
    <2> QED
        BY <1>1, <1>2, AllNumbers, LongestType
<1> QED
    BY <1>3

(* Whatever entry of the target comes to the top, stale or not, no walk to   *)
(* the target is cheaper than its distance.                                  *)
LEMMA FoundCheapest ==
    ASSUME NoCollision, GraphOK, Typed, Tree, HeapOK, phase = "search",
           query.algorithm # "BFS", Weighable(from, to), scan = {}, heap # {}, Top.id = to,
           NEW c \in WalkCosts(from)[to]
    PROVE  best[to] <= c
<1>1. from \in Ids /\ to \in Ids /\ Longest \in 0 .. Longest /\ 0 \in 0 .. Longest - Longest
    BY LongestType DEF Typed
<1>2. c \in CostsWithin(Arcs, from)[Longest][to]
    BY DEF WalkCosts, Longest
<1>3. 0 \in CostsWithin(Arcs, to)[0][to]
    BY <1>1, NoWalk
<1>4. c \in Nat /\ to \in ReachedFrom(from)
    BY <1>1, <1>2, ArcsClosed, ReachedStart, WalkType
<1>5. (to \in DOMAIN best /\ best[to] <= c) \/ \E x \in heap : x.f <= c + 0
    BY <1>1, <1>2, <1>3, WalkPromised
<1>6. ASSUME NEW x \in heap, x.f <= c PROVE best[to] <= c
    <2>1. Top \in heap /\ Top.f <= x.f
        BY HeapTop
    <2>2. /\ Top.g \in Nat /\ best[to] <= Top.g /\ Guess(to) \in Int
          /\ Top.f = Top.g + Guess(to) /\ to \in DOMAIN best
        BY <2>1 DEF HeapOK, Entry
    <2>3. Guess(to) >= 0
        BY DEF Weighable, Guess, Estimate
    <2>4. best[to] \in Nat
        BY <2>2 DEF Tree
    <2>5. x.f \in Int
        BY DEF HeapOK, Entry
    <2> QED
        BY <1>4, <1>6, <2>1, <2>2, <2>3, <2>4, <2>5
<1> QED
    BY <1>4, <1>5, <1>6

-----------------------------------------------------------------------------
(* The steps.  First what most of them leave alone.                         *)

LEMMA CollectedStays ==
    ASSUME Collected, query' = query, snapshot' = snapshot, paths' = paths
    PROVE  Collected'
<1>1. Followed' = Followed
    BY EdgesStay
<1>2. \A p : IsPath(p)' = IsPath(p)
    BY <1>1 DEF IsPath
<1>3. /\ \A s : WalkCosts(s)' = WalkCosts(s)
      /\ \A s, t : Weighable(s, t)' = Weighable(s, t)
      /\ \A p : PathCost(p)' = PathCost(p)
    BY WalksStay
<1> QED
    BY <1>1, <1>2, <1>3 DEF Collected

LEMMA NoError ==
    ASSUME error' = "none"
    PROVE  Reasons'
BY DEF Reasons

(* No invariant of a search says anything once it has ended.                 *)
LEMMA SearchOver ==
    ASSUME GraphOK, Typed', Collected', Reasons', query' = query, snapshot' = snapshot,
           phase' \notin {"search", "rebuild"}
    PROVE  PathsInv'
BY EdgesStay DEF PathsInv, Tree, Expanding, QueueOK, HeapOK, PathOK

LEMMA PathCostOfNone == PathCost(<<>>) = 0
<1>1. [k \in 1 .. Len(<<>>) |-> Cost(<<>>[k])] = <<>>
    OBVIOUS
<1> QED
    BY <1>1, TotalOfNone DEF PathCost

(* A search begins with its start alone in the tables.                       *)
LEMMA Begun ==
    ASSUME PathsInv, [PathsNext]_pathsVars, NEW algorithm, Begin(algorithm)
    PROVE  /\ query' = query /\ snapshot' = snapshot /\ query.algorithm = algorithm
           /\ from' = Start /\ to' = Goal /\ Start \in Ids /\ Goal \in Ids
           /\ sources' \in Seq(Ids) /\ scan' = {} /\ error = "none"
           /\ DOMAIN best' = {Start} /\ best'[Start] = 0
           /\ Start \in ReachedFrom(from)'
           /\ GraphOK' /\ Tree' /\ Expanding'
<1>1. query' = query /\ snapshot' = snapshot
    BY GraphStays
<1>2. query.end \in Ids
    BY DEF PathsInv, GraphOK, Query
<1>3. Head(sources) \in Ids /\ Tail(sources) \in Seq(Ids)
    BY DEF Begin, PathsInv, Typed
<1>4. Start \in Ids /\ Goal \in Ids
    BY <1>2, <1>3 DEF Start, Goal
<1>5. DOMAIN best' = {Start} /\ best'[Start] = 0 /\ DOMAIN parent' = {} /\ scan' = {} /\ from' = Start
    BY DEF Begin, Put, EmptyTable
<1>6. ReachedFrom(from)' = ReachedFrom(Start)
    BY <1>1, <1>5, WalksStay
<1>7. Start \in ReachedFrom(from)'
    BY <1>4, <1>6, ReachedStart
<1>8. Tree' /\ Expanding'
    BY <1>5, <1>7 DEF Tree, Expanding
<1>9. error = "none"
    BY DEF Begin, PathsInv, Typed
<1> QED
    BY <1>1, <1>3, <1>4, <1>5, <1>7, <1>8, <1>9, EdgesStay DEF Begin, PathsInv

LEMMA StepStartBfs ==
    ASSUME NoCollision, PathsInv, [PathsNext]_pathsVars, StartBfs
    PROVE  PathsInv'
<1>1. Begin("BFS") /\ queue' = <<Start>> /\ heap' = {}
    BY DEF StartBfs
<1> DEFINE B == /\ query' = query /\ snapshot' = snapshot /\ query.algorithm = "BFS"
                /\ from' = Start /\ to' = Goal /\ Start \in Ids /\ Goal \in Ids
                /\ sources' \in Seq(Ids) /\ scan' = {} /\ error = "none"
                /\ DOMAIN best' = {Start} /\ best'[Start] = 0
                /\ GraphOK' /\ Tree' /\ Expanding'
<1>2. B
    BY <1>1, Begun
<1>3. paths' = paths /\ error' = "none"
    BY <1>2 DEF StartBfs, Rebuild, GoOn
<1>4. Collected' /\ Reasons'
    BY <1>2, <1>3, CollectedStays, NoError DEF PathsInv
<1>5. CASE Start = Goal
    <2>1. phase' = "rebuild" /\ walk' = Goal /\ path' = <<>>
        BY <1>5 DEF StartBfs, Rebuild
    <2>2. PathCost(path)' = 0
        BY <1>2, <2>1, WalksStay, PathCostOfNone
    <2>3. Cheapest'
        <3> SUFFICES ASSUME NEW c \in WalkCosts(Start)[Goal] PROVE 0 <= c
            BY <1>2, <1>5, WalksStay DEF Cheapest
        <3>1. Weighable(Start, Goal)
            BY <1>2 DEF Weighable
        <3>2. c \in CostsWithin(Arcs, Start)[Longest][Goal] /\ Longest \in 0 .. Longest
            BY LongestType DEF WalkCosts, Longest
        <3>3. c \in Nat
            BY <1>2, <3>1, <3>2, ArcsClosed, ReachedStart, WalkType DEF PathsInv
        <3> QED
            BY <3>3
    <2>4. PathOK'
        BY <1>2, <1>5, <2>1, <2>2, <2>3 DEF PathOK, Leads
    <2>5. QueueOK' /\ HeapOK'
        BY <2>1 DEF QueueOK, HeapOK
    <2>6. Typed'
        BY <1>2, <1>3, <2>1 DEF Typed
    <2> QED
        BY <1>2, <1>4, <2>4, <2>5, <2>6 DEF PathsInv
<1>6. CASE Start # Goal
    <2>1. phase' = "search"
        BY <1>6 DEF StartBfs, GoOn
    <2>2. QueueOK'
        <3>1. DOMAIN queue' = {1} /\ queue'[1] = Start /\ queue' \in Seq(DOMAIN best')
            BY <1>1, <1>2
        <3> QED
            BY <1>1, <1>2, <1>6, <3>1 DEF QueueOK
    <2>3. Typed' /\ HeapOK' /\ PathOK'
        BY <1>2, <1>3, <2>1 DEF Typed, HeapOK, PathOK
    <2> QED
        BY <1>2, <1>4, <2>2, <2>3 DEF PathsInv
<1> QED
    BY <1>5, <1>6

LEMMA StepStartDijkstra ==
    ASSUME NoCollision, PathsInv, [PathsNext]_pathsVars, StartDijkstra
    PROVE  PathsInv'
<1>1. Begin("Dijkstra") /\ queue' = <<>> /\ heap' = {Entry(Start, 0, 0)}
    BY DEF StartDijkstra
<1> DEFINE B == /\ query' = query /\ snapshot' = snapshot /\ query.algorithm = "Dijkstra"
                /\ from' = Start /\ to' = Goal /\ Start \in Ids /\ Goal \in Ids
                /\ sources' \in Seq(Ids) /\ scan' = {} /\ error = "none"
                /\ DOMAIN best' = {Start} /\ best'[Start] = 0
                /\ GraphOK' /\ Tree' /\ Expanding'
<1>2. B
    BY <1>1, Begun
<1>3. paths' = paths /\ error' = "none" /\ phase' = "search"
    BY <1>2 DEF StartDijkstra, GoOn
<1>4. Collected' /\ Reasons'
    BY <1>2, <1>3, CollectedStays, NoError DEF PathsInv
<1>5. HeapOK'
    <2>1. IsFiniteSet(heap')
        BY <1>1, FS_Singleton
    <2>2. \A i : Guess(i)' = 0
        BY <1>2 DEF Guess
    <2>3. \A x \in heap' : x.id = Start /\ x.g = 0 /\ x = Entry(Start, 0, 0 + 0)
        BY <1>1 DEF Entry
    <2>4. Entry(Start, 0, 0) \in heap' /\ Entry(Start, 0, 0).id = Start /\ Entry(Start, 0, 0).g = 0
        BY <1>1 DEF Entry
    <2> QED
        BY <1>1, <1>2, <2>1, <2>2, <2>3, <2>4 DEF HeapOK
<1>6. Typed' /\ QueueOK' /\ PathOK'
    BY <1>2, <1>3 DEF Typed, QueueOK, PathOK
<1> QED
    BY <1>2, <1>4, <1>5, <1>6 DEF PathsInv

LEMMA StepStartAStar ==
    ASSUME NoCollision, PathsInv, [PathsNext]_pathsVars, StartAStar
    PROVE  PathsInv'
<1>1. Begin("AStar") /\ queue' = <<>>
    BY DEF StartAStar
<1> DEFINE B == /\ query' = query /\ snapshot' = snapshot /\ query.algorithm = "AStar"
                /\ from' = Start /\ to' = Goal /\ Start \in Ids /\ Goal \in Ids
                /\ sources' \in Seq(Ids) /\ scan' = {} /\ error = "none"
                /\ DOMAIN best' = {Start} /\ best'[Start] = 0
                /\ Start \in ReachedFrom(from)'
                /\ GraphOK' /\ Tree' /\ Expanding'
<1>2. B
    BY <1>1, Begun
<1>3. paths' = paths
    BY DEF StartAStar, GoOn, Fail
<1>4. Collected'
    BY <1>2, <1>3, CollectedStays DEF PathsInv
<1>5. CASE Start \in snapshot.nodes /\ Estimate(Start) # Missing
    <2>1. heap' = {Entry(Start, 0, Estimate(Start))} /\ phase' = "search" /\ error' = "none"
        BY <1>2, <1>5 DEF StartAStar, GoOn
    <2>2. Estimate(Start) \in Int
        BY <1>2, <1>5 DEF PathsInv, GraphOK, Estimate
    <2>3. HeapOK'
        <3>1. IsFiniteSet(heap')
            BY <2>1, FS_Singleton
        <3>2. \A i : Guess(i)' = Estimate(i)
            BY <1>2 DEF Guess, Estimate
        <3>3. \A x \in heap' : x.id = Start /\ x.g = 0 /\ x = Entry(Start, 0, 0 + Estimate(Start))
            BY <2>1, <2>2 DEF Entry
        <3>4. \E x \in heap' : x.id = Start /\ x.g = 0
            BY <2>1 DEF Entry
        <3> QED
            BY <1>1, <1>2, <2>2, <3>1, <3>2, <3>3, <3>4 DEF HeapOK
    <2>4. Typed' /\ QueueOK' /\ PathOK' /\ Reasons'
        BY <1>2, <2>1 DEF Typed, QueueOK, PathOK, Reasons
    <2> QED
        BY <1>2, <1>4, <2>3, <2>4 DEF PathsInv
<1>6. CASE Start \notin snapshot.nodes
    <2>1. phase' = "failed" /\ error' = "node"
        BY <1>6 DEF StartAStar, Fail, GoOn
    <2>2. Reasons'
        BY <1>2, <1>6, <2>1 DEF Reasons
    <2>3. Typed'
        BY <1>2, <2>1 DEF Typed
    <2> QED
        BY <1>2, <1>4, <2>1, <2>2, <2>3, SearchOver DEF PathsInv
<1>7. CASE Start \in snapshot.nodes /\ Estimate(Start) = Missing
    <2>1. phase' = "failed" /\ error' = "estimate"
        BY <1>7 DEF StartAStar, Fail, GoOn
    <2>2. Reasons'
        BY <1>2, <1>7, <2>1 DEF Reasons, Weighable, Estimate
    <2>3. Typed'
        BY <1>2, <2>1 DEF Typed
    <2> QED
        BY <1>2, <1>4, <2>1, <2>2, <2>3, SearchOver DEF PathsInv
<1> QED
    BY <1>5, <1>6, <1>7

(* A pop from the queue: its head is what is being expanded.                 *)
LEMMA StepPopQueue ==
    ASSUME NoCollision, PathsInv, [PathsNext]_pathsVars, PopQueue
    PROVE  PathsInv'
<1>1. query' = query /\ snapshot' = snapshot
    BY GraphStays
<1>2. /\ phase = "search" /\ phase' = "search" /\ scan = {} /\ queue # <<>>
      /\ queue' = Tail(queue) /\ heap' = heap /\ best' = best /\ parent' = parent
      /\ from' = from /\ to' = to /\ sources' = sources /\ paths' = paths /\ error' = error
      /\ here' = Entry(Head(queue), best[Head(queue)], 0) /\ scan' = OutEdges(here'.id)
    BY DEF PopQueue, Searching, Expand, GoOn, Entry
<1>3. query.algorithm = "BFS"
    BY <1>2 DEF PathsInv, HeapOK
<1>4. queue \in Seq(DOMAIN best)
    BY <1>2, <1>3 DEF PathsInv, QueueOK
<1>5. /\ queue' \in Seq(DOMAIN best) /\ Len(queue) \in Nat /\ 1 \in DOMAIN queue
      /\ Head(queue) = queue[1] /\ DOMAIN queue = 1 .. Len(queue)
      /\ DOMAIN queue' = 1 .. Len(queue) - 1
      /\ \A k \in DOMAIN queue' : k + 1 \in DOMAIN queue /\ queue'[k] = queue[k + 1]
    BY <1>2, <1>4
<1>6. here'.id = queue[1] /\ here'.g = best[queue[1]]
    BY <1>2, <1>5 DEF Entry
<1>7. queue[1] \in DOMAIN best
    BY <1>4, <1>5
<1>8. Typed'
    BY <1>1, <1>2, EdgesStay DEF Typed, PathsInv
<1>9. Tree' /\ Expanding'
    BY <1>1, <1>2, <1>6, <1>7, EdgesStay, WalksStay DEF Tree, Expanding, PathsInv
<1>10. QueueOK'
    <2>1. \A i \in DOMAIN best : (\E k \in DOMAIN queue' : queue'[k] = i) \/ Scanned(i)'
        <3> TAKE i \in DOMAIN best
        <3>1. CASE i = queue[1]
            BY <1>1, <1>2, <1>6, <3>1, EdgesStay DEF Scanned
        <3>2. ASSUME NEW k \in DOMAIN queue, queue[k] = i, k # 1
              PROVE  \E l \in DOMAIN queue' : queue'[l] = i
            <4>1. k - 1 \in DOMAIN queue' /\ (k - 1) + 1 = k
                BY <1>5, <3>2
            <4>2. queue'[k - 1] = i
                BY <1>5, <3>2, <4>1
            <4> QED
                BY <4>1, <4>2
        <3>3. CASE Scanned(i)
            <4>1. \A e \in OutEdges(i) : e.to \in DOMAIN best /\ Cost(e) \in Nat
                                         /\ best[e.to] <= best[i] + Cost(e)
                BY <1>2, <3>3 DEF Scanned
            <4>2. OutEdges(i)' = OutEdges(i) /\ \A e : Cost(e)' = Cost(e)
                BY <1>1, EdgesStay
            <4> QED
                BY <1>2, <4>1, <4>2 DEF Scanned
        <3> QED
            BY <1>2, <1>3, <3>1, <3>2, <3>3 DEF PathsInv, QueueOK
    <2>2. \A j, k \in DOMAIN queue' : j <= k => best[queue'[j]] <= best[queue'[k]]
        <3> TAKE j, k \in DOMAIN queue'
        <3> HAVE j <= k
        <3>1. j + 1 \in DOMAIN queue /\ k + 1 \in DOMAIN queue /\ j + 1 <= k + 1
            BY <1>5
        <3>2. best[queue[j + 1]] <= best[queue[k + 1]]
            BY <1>2, <1>3, <3>1 DEF PathsInv, QueueOK
        <3> QED
            BY <1>5, <3>2
    <2>3. \A k \in DOMAIN queue' : \A i \in DOMAIN best : best[i] <= best[queue'[k]] + 1
        BY <1>2, <1>3, <1>5 DEF PathsInv, QueueOK
    <2>4. \A k \in DOMAIN queue' : here'.g <= best[queue'[k]]
        <3> TAKE k \in DOMAIN queue'
        <3>1. k + 1 \in DOMAIN queue /\ 1 <= k + 1
            BY <1>5
        <3>2. best[queue[1]] <= best[queue[k + 1]]
            BY <1>2, <1>3, <1>5, <3>1 DEF PathsInv, QueueOK
        <3> QED
            BY <1>5, <1>6, <3>2
    <2>5. \A i \in DOMAIN best : best[i] <= here'.g + 1
        BY <1>2, <1>3, <1>5, <1>6 DEF PathsInv, QueueOK
    <2>6. heap' = {} /\ to' \notin DOMAIN best
        BY <1>2, <1>3 DEF PathsInv, QueueOK
    <2> QED
        BY <1>2, <1>5, <2>1, <2>2, <2>3, <2>4, <2>5, <2>6 DEF QueueOK
<1>11. HeapOK' /\ PathOK' /\ Reasons'
    BY <1>1, <1>2, <1>3, WalksStay DEF HeapOK, PathOK, Reasons, PathsInv, Typed
<1>12. Collected' /\ GraphOK'
    BY <1>1, <1>2, CollectedStays, EdgesStay DEF PathsInv
<1> QED
    BY <1>8, <1>9, <1>10, <1>11, <1>12 DEF PathsInv

(* A pop from a heap.  An item without the entry that was popped either has  *)
(* another one or is what is being expanded.                                 *)
LEMMA StepPopHeap ==
    ASSUME NoCollision, PathsInv, [PathsNext]_pathsVars, PopHeap
    PROVE  PathsInv'
<1>1. query' = query /\ snapshot' = snapshot
    BY GraphStays
<1>2. /\ phase = "search" /\ scan = {} /\ heap # {} /\ heap' = heap \ {Top}
      /\ queue' = queue /\ best' = best /\ parent' = parent
      /\ from' = from /\ to' = to /\ sources' = sources /\ paths' = paths /\ error' = error
    BY DEF PopHeap, Searching, Rebuild, Expand, GoOn
<1>3. query.algorithm # "BFS"
    BY <1>2 DEF PathsInv, QueueOK
<1>4. /\ Top \in heap
      /\ Top.id \in DOMAIN best /\ Top.g \in Nat /\ best[Top.id] <= Top.g /\ best[Top.id] \in Nat
    BY <1>2, <1>3, HeapTop DEF PathsInv, HeapOK, Tree
<1>5. Collected' /\ GraphOK'
    BY <1>1, <1>2, CollectedStays, EdgesStay DEF PathsInv
<1>6. Reasons' /\ error' = "none"
    BY <1>1, <1>2, WalksStay DEF Reasons, PathsInv, Typed
<1>7. /\ Followed' = Followed /\ ReachedFrom(from)' = ReachedFrom(from)
      /\ \A e : Cost(e)' = Cost(e)
      /\ \A i : OutEdges(i)' = OutEdges(i)
      /\ \A i : Guess(i)' = Guess(i)
    BY <1>1, <1>2, EdgesStay, WalksStay DEF Guess, Estimate
<1>8. CASE Arrives(Top)
    <2>1. /\ Top.id = to /\ phase' = "rebuild" /\ walk' = to /\ path' = <<>>
          /\ here' = here /\ scan' = scan
        BY <1>8 DEF PopHeap, Arrives, Rebuild
    <2>2. Typed'
        BY <1>2, <1>7, <2>1 DEF Typed, PathsInv
    <2>3. Tree'
        BY <1>2, <1>7, <2>1 DEF Tree, PathsInv
    <2>4. PathCost(path)' = 0
        BY <1>1, <2>1, WalksStay, PathCostOfNone
    <2>5. Cheapest'
        <3>1. Weighable(from, to)' = Weighable(from, to) /\ WalkCosts(from)' = WalkCosts(from)
            BY <1>1, <1>2, WalksStay
        <3> SUFFICES ASSUME Weighable(from, to), NEW c \in WalkCosts(from)[to]
                     PROVE  best[to] <= c
            BY <1>2, <3>1 DEF Cheapest
        <3> QED
            BY <1>2, <1>3, <2>1, FoundCheapest DEF PathsInv
    <2>6. PathOK'
        BY <1>2, <1>4, <2>1, <2>4, <2>5 DEF PathOK, Leads
    <2>7. Expanding' /\ QueueOK' /\ HeapOK'
        BY <2>1 DEF Expanding, QueueOK, HeapOK
    <2> QED
        BY <1>5, <1>6, <2>2, <2>3, <2>6, <2>7 DEF PathsInv
<1>9. ASSUME phase' = "search", here' = here, scan' = scan, Stale(Top) PROVE PathsInv'
    <2>1. Typed' /\ Tree' /\ Expanding' /\ QueueOK' /\ PathOK'
        BY <1>1, <1>2, <1>3, <1>7, <1>9 DEF Typed, Tree, Expanding, QueueOK, PathOK, PathsInv
    <2>2. HeapOK'
        <3>1. ~(Top.g <= best[Top.id])
            BY <1>4, <1>9 DEF Stale
        <3>2. \A i \in DOMAIN best : \A x \in heap : x.id = i /\ x.g = best[i] => x \in heap'
            BY <1>2, <1>4, <3>1
        <3>3. \A i : Scanned(i)' = Scanned(i)
            BY <1>2, <1>7, <1>9 DEF Scanned
        <3>4. IsFiniteSet(heap')
            BY <1>2, <1>3, FS_Subset DEF PathsInv, HeapOK
        <3> QED
            BY <1>2, <1>3, <1>7, <3>2, <3>3, <3>4 DEF HeapOK, PathsInv
    <2> QED
        BY <1>5, <1>6, <2>1, <2>2 DEF PathsInv
<1>10. CASE ~Arrives(Top) /\ ~Stale(Top)
    <2>1. phase' = "search" /\ here' = Top /\ scan' = OutEdges(Top.id)
        BY <1>10 DEF PopHeap, Expand, GoOn
    <2>2. Top.g = best[Top.id] /\ Top.id # to
        BY <1>4, <1>10 DEF Stale, Arrives
    <2>3. Typed' /\ Tree' /\ Expanding' /\ QueueOK' /\ PathOK'
        BY <1>1, <1>2, <1>3, <1>4, <1>7, <2>1, <2>2 DEF Typed, Tree, Expanding, QueueOK, PathOK, PathsInv
    <2>4. HeapOK'
        <3>1. \A i \in DOMAIN best : \/ \E x \in heap' : x.id = i /\ x.g = best[i]
                                     \/ i # to /\ Scanned(i)'
            <4> TAKE i \in DOMAIN best
            <4>1. CASE i = Top.id
                BY <1>2, <1>7, <2>1, <2>2, <4>1 DEF Scanned
            <4>2. CASE i # Top.id /\ \E x \in heap : x.id = i /\ x.g = best[i]
                BY <1>2, <4>2
            <4>3. CASE i # to /\ Scanned(i)
                <5>1. \A e \in OutEdges(i) : e.to \in DOMAIN best /\ Cost(e) \in Nat
                                             /\ best[e.to] <= best[i] + Cost(e)
                    BY <1>2, <4>3 DEF Scanned
                <5> QED
                    BY <1>2, <1>7, <4>3, <5>1 DEF Scanned
            <4> QED
                BY <1>2, <1>3, <4>1, <4>2, <4>3 DEF PathsInv, HeapOK
        <3>2. IsFiniteSet(heap')
            BY <1>2, <1>3, FS_Subset DEF PathsInv, HeapOK
        <3> QED
            BY <1>2, <1>3, <1>7, <3>1, <3>2 DEF HeapOK, PathsInv
    <2> QED
        BY <1>5, <1>6, <2>3, <2>4 DEF PathsInv
<1> QED
    BY <1>8, <1>9, <1>10 DEF PopHeap, GoOn

(* When nothing is left the tables hold all that can be reached.             *)
LEMMA StepExhausted ==
    ASSUME NoCollision, PathsInv, [PathsNext]_pathsVars, Exhausted
    PROVE  PathsInv'
<1>1. query' = query /\ snapshot' = snapshot
    BY GraphStays
<1>2. /\ phase = "search" /\ scan = {} /\ queue = <<>> /\ heap = {}
      /\ phase' = "failed" /\ error' = "not found"
      /\ from' = from /\ to' = to /\ sources' = sources /\ paths' = paths
      /\ here' = here /\ scan' = scan
    BY DEF Exhausted, Searching, Fail, search
<1>3. to \notin DOMAIN best /\ \A i \in DOMAIN best : Scanned(i)
    <2>1. CASE query.algorithm = "BFS"
        <3>1. \A k \in DOMAIN <<>> : FALSE
            OBVIOUS
        <3>2. QueueOK
            BY DEF PathsInv
        <3> QED
            BY <1>2, <2>1, <3>1, <3>2 DEF QueueOK
    <2>2. CASE query.algorithm # "BFS"
        BY <1>2, <2>2 DEF PathsInv, HeapOK
    <2> QED
        BY <2>1, <2>2
<1>4. ReachedFrom(from) \subseteq DOMAIN best
    <2>1. DOMAIN best \in SUBSET Ids /\ from \in DOMAIN best
        BY <1>2, ReachedStart DEF PathsInv, Tree, Typed
    <2>2. ASSUME NEW e \in Followed, e.from \in DOMAIN best PROVE e.to \in DOMAIN best
        <3>1. e \in OutEdges(e.from)
            BY ScanIsFollowed DEF PathsInv
        <3> QED
            BY <1>2, <1>3, <2>2, <3>1 DEF Scanned
    <2> QED
        BY <2>1, <2>2, ReachedLeast
<1>5. Reasons'
    BY <1>1, <1>2, <1>3, <1>4, WalksStay DEF Reasons
<1>6. Typed'
    BY <1>1, <1>2, EdgesStay DEF Typed, PathsInv
<1> QED
    BY <1>1, <1>2, <1>5, <1>6, SearchOver, CollectedStays DEF PathsInv

(* A distance that is found or becomes less is one edge more than that of the *)
(* item whose entries are being read.  It is never the start's, whose own is  *)
(* 0, nor that of the item itself.                                           *)
LEMMA TreeGrows ==
    ASSUME NoCollision, PathsInv, phase = "search", NEW e \in scan, Cost(e) \in Nat,
           best' = Put(best, e.to, here.g + Cost(e)), parent' = Put(parent, e.to, e),
           e.to \in DOMAIN best => here.g + Cost(e) < best[e.to],
           from' = from, query' = query, snapshot' = snapshot
    PROVE  /\ e.to # from /\ e.to # here.id /\ e \in Followed /\ e.from = here.id
           /\ here.id \in DOMAIN best /\ here.g = best[here.id] /\ here.g \in Nat
           /\ DOMAIN best' = DOMAIN best \cup {e.to}
           /\ best'[e.to] = here.g + Cost(e)
           /\ \A i \in DOMAIN best : best'[i] \in Nat /\ best'[i] <= best[i]
           /\ \A i \in DOMAIN best \ {e.to} : best'[i] = best[i]
           /\ Tree'
<1>1. e \in Followed /\ e.from = here.id
    BY ScanIsFollowed DEF PathsInv, Typed
<1>2. here.id \in DOMAIN best /\ here.g = best[here.id] /\ here.g \in Nat
    BY DEF PathsInv, Expanding, Tree
<1>3. \A i \in DOMAIN best : best[i] \in Nat
    BY DEF PathsInv, Tree
<1>4. from \in DOMAIN best /\ best[from] = 0
    BY DEF PathsInv, Tree
<1>5. e.to # from /\ e.to # here.id
    BY <1>2, <1>3, <1>4
<1>6. /\ DOMAIN best' = DOMAIN best \cup {e.to}
      /\ best'[e.to] = here.g + Cost(e)
      /\ \A i \in DOMAIN best \ {e.to} : best'[i] = best[i]
    BY DEF Put
<1>7. \A i \in DOMAIN best : best'[i] \in Nat /\ best'[i] <= best[i]
    <2> TAKE i \in DOMAIN best
    <2>1. CASE i = e.to
        BY <1>2, <1>3, <1>6, <2>1
    <2>2. CASE i # e.to
        BY <1>3, <1>6, <2>2
    <2> QED
        BY <2>1, <2>2
<1>8. /\ DOMAIN parent' = DOMAIN parent \cup {e.to} /\ parent'[e.to] = e
      /\ \A i \in DOMAIN parent \ {e.to} : parent'[i] = parent[i]
    BY DEF Put
<1>9. Tree'
    <2>1. /\ Followed' = Followed /\ ReachedFrom(from)' = ReachedFrom(from)
          /\ \A d : Cost(d)' = Cost(d)
        BY EdgesStay, WalksStay
    <2>2. e.to \in ReachedFrom(from)
        BY <1>1, <1>2, ReachedStep DEF PathsInv, Tree
    <2>3. DOMAIN best' \subseteq ReachedFrom(from) /\ \A i \in DOMAIN best' : best'[i] \in Nat
        BY <1>2, <1>6, <1>7, <2>2 DEF PathsInv, Tree
    <2>4. DOMAIN best' = DOMAIN parent' \cup {from} /\ best'[from] = 0
        BY <1>4, <1>5, <1>6, <1>8 DEF PathsInv, Tree
    <2>5. ASSUME NEW i \in DOMAIN parent'
          PROVE  /\ parent'[i] \in Followed /\ parent'[i].to = i
                 /\ parent'[i].from \in DOMAIN best'
                 /\ Cost(parent'[i]) \in Nat
                 /\ best'[parent'[i].from] + Cost(parent'[i]) <= best'[i]
        <3>1. CASE i = e.to
            BY <1>1, <1>2, <1>5, <1>6, <1>8, <3>1
        <3>2. CASE i # e.to
            <4>1. i \in DOMAIN parent /\ parent'[i] = parent[i]
                BY <1>8, <3>2
            <4>2. /\ parent[i] \in Followed /\ parent[i].to = i
                  /\ parent[i].from \in DOMAIN best /\ Cost(parent[i]) \in Nat
                  /\ best[parent[i].from] + Cost(parent[i]) <= best[i]
                  /\ i \in DOMAIN best
                BY <4>1 DEF PathsInv, Tree
            <4>3. best'[i] = best[i] /\ best[i] \in Nat
                BY <1>3, <1>6, <3>2, <4>2
            <4>4. /\ best'[parent[i].from] \in Nat /\ best[parent[i].from] \in Nat
                  /\ best'[parent[i].from] <= best[parent[i].from]
                BY <1>3, <1>7, <4>2
            <4>5. best'[parent[i].from] + Cost(parent[i]) <= best'[i]
                BY <4>2, <4>3, <4>4
            <4> QED
                BY <1>6, <4>1, <4>2, <4>5
        <3> QED
            BY <3>1, <3>2
    <2>6. \A i \in DOMAIN parent' : Cost(parent[i])' = Cost(parent'[i])
        BY DEF Cost
    <2> QED
        BY <1>4, <1>6, <2>1, <2>3, <2>4, <2>5, <2>6 DEF Tree
<1> QED
    BY <1>1, <1>2, <1>5, <1>6, <1>7, <1>9

(* Items that were read keep the distances over their edges: those only get  *)
(* less.  The entry that is taken from the scan has its own.                 *)
LEMMA ScannedGrows ==
    ASSUME NoCollision, PathsInv, phase = "search", NEW e \in scan, Cost(e) \in Nat,
           scan' = scan \ {e}, here' = here, query' = query, snapshot' = snapshot,
           DOMAIN best \subseteq DOMAIN best', e.to \in DOMAIN best',
           \A i \in DOMAIN best : best'[i] \in Nat /\ best'[i] <= best[i],
           best'[e.to] \in Nat, best'[e.to] <= here.g + Cost(e),
           NEW i \in DOMAIN best, best'[i] = best[i], Scanned(i)
    PROVE  Scanned(i)'
<1>1. OutEdges(i)' = OutEdges(i) /\ \A d : Cost(d)' = Cost(d)
    BY EdgesStay
<1>2. here.id \in DOMAIN best /\ here.g = best[here.id]
    BY DEF PathsInv, Expanding
<1>3. best[i] \in Nat
    BY DEF PathsInv, Tree
<1> SUFFICES ASSUME NEW d \in OutEdges(i), ~(here.id = i /\ d \in scan')
             PROVE  d.to \in DOMAIN best' /\ Cost(d) \in Nat /\ best'[d.to] <= best'[i] + Cost(d)
    BY <1>1 DEF Scanned
<1>4. CASE here.id = i /\ d = e
    BY <1>2, <1>4
<1>5. CASE ~(here.id = i /\ d \in scan)
    <2>1. d.to \in DOMAIN best /\ Cost(d) \in Nat /\ best[d.to] <= best[i] + Cost(d)
        BY <1>5 DEF Scanned
    <2>2. best[d.to] \in Nat /\ best'[d.to] \in Nat /\ best'[d.to] <= best[d.to]
        BY <2>1 DEF PathsInv, Tree
    <2> QED
        BY <1>3, <2>1, <2>2
<1> QED
    BY <1>4, <1>5

LEMMA StepVisit ==
    ASSUME NoCollision, PathsInv, [PathsNext]_pathsVars, NEW e \in scan, Visit(e)
    PROVE  PathsInv'
<1>1. query' = query /\ snapshot' = snapshot
    BY GraphStays
<1>2. /\ phase = "search" /\ query.algorithm = "BFS" /\ scan' = scan \ {e}
      /\ from' = from /\ to' = to /\ sources' = sources /\ paths' = paths /\ error' = error
      /\ here' = here /\ heap' = heap
    BY DEF Visit, Rebuild, GoOn
<1>3. Cost(e) = 1
    BY <1>2 DEF Cost
<1>4. /\ here.id \in DOMAIN best /\ here.g = best[here.id] /\ here.g \in Nat
      /\ \A i \in DOMAIN best : best[i] \in Nat
    BY <1>2 DEF PathsInv, Expanding, Tree
<1>5. Collected' /\ GraphOK'
    BY <1>1, <1>2, CollectedStays, EdgesStay DEF PathsInv
<1>6. Reasons' /\ error' = "none"
    BY <1>1, <1>2, WalksStay DEF Reasons, PathsInv, Typed
<1>7. HeapOK'
    BY <1>1, <1>2 DEF HeapOK
<1>8. scan' \subseteq OutEdges(here.id)'
    BY <1>1, <1>2, EdgesStay DEF PathsInv, Typed
<1>9. CASE e.to \in DOMAIN best
    <2>1. phase' = "search" /\ best' = best /\ parent' = parent /\ queue' = queue
        BY <1>9 DEF Visit, GoOn
    <2>2. Typed' /\ Expanding' /\ PathOK'
        BY <1>2, <1>4, <1>8, <2>1 DEF Typed, Expanding, PathOK, PathsInv
    <2>3. Tree'
        BY <1>1, <1>2, <2>1, EdgesStay, WalksStay DEF Tree, PathsInv
    <2>4. QueueOK'
        <3>1. best[e.to] <= here.g + 1
            BY <1>2, <1>9 DEF PathsInv, QueueOK
        <3>2. ASSUME NEW i \in DOMAIN best, Scanned(i) PROVE Scanned(i)'
            BY <1>1, <1>2, <1>3, <1>4, <1>9, <2>1, <3>1, <3>2, ScannedGrows
        <3>3. QueueOK
            BY DEF PathsInv
        <3>4. \A i \in DOMAIN best : (\E k \in DOMAIN queue : queue[k] = i) \/ Scanned(i)'
            BY <1>2, <3>2, <3>3 DEF QueueOK
        <3> QED
            BY <1>1, <1>2, <2>1, <3>3, <3>4 DEF QueueOK
    <2> QED
        BY <1>5, <1>6, <1>7, <2>2, <2>3, <2>4 DEF PathsInv
<1>10. CASE e.to \notin DOMAIN best
    <2>1. best' = Put(best, e.to, here.g + 1) /\ parent' = Put(parent, e.to, e)
        BY <1>10 DEF Visit
    <2>2. /\ e.to # from /\ e.to # here.id /\ e \in Followed /\ e.from = here.id
          /\ DOMAIN best' = DOMAIN best \cup {e.to}
          /\ best'[e.to] = here.g + 1
          /\ \A i \in DOMAIN best : best'[i] = best[i]
          /\ Tree'
        BY <1>1, <1>2, <1>3, <1>10, <2>1, TreeGrows
    <2>3. CASE e.to = to
        <3>1. phase' = "rebuild" /\ walk' = to /\ path' = <<>>
            BY <1>10, <2>3 DEF Visit, Rebuild
        <3>2. Typed' /\ Expanding' /\ QueueOK'
            BY <1>2, <1>6, <1>8, <3>1 DEF Typed, Expanding, QueueOK, PathsInv
        <3>3. PathCost(path)' = 0
            BY <1>1, <3>1, WalksStay, PathCostOfNone
        <3>4. Cheapest'
            <4>1. Weighable(from, to)' = Weighable(from, to) /\ WalkCosts(from)' = WalkCosts(from)
                BY <1>1, <1>2, WalksStay
            <4> SUFFICES ASSUME NEW c \in WalkCosts(from)[to]
                         PROVE  here.g + 1 <= c
                BY <1>2, <2>2, <2>3, <4>1 DEF Cheapest
            <4> QED
                BY <1>2, FoundNearest DEF PathsInv
        <3>5. PathOK'
            BY <1>2, <1>4, <2>2, <2>3, <3>1, <3>3, <3>4 DEF PathOK, Leads
        <3> QED
            BY <1>5, <1>6, <1>7, <2>2, <3>2, <3>5 DEF PathsInv
    <2>4. CASE e.to # to
        <3>1. phase' = "search" /\ queue' = Append(queue, e.to)
            BY <1>10, <2>4 DEF Visit, GoOn
        <3>2. Typed' /\ Expanding' /\ PathOK'
            BY <1>2, <1>4, <1>8, <2>2, <3>1 DEF Typed, Expanding, PathOK, PathsInv
        <3>3. QueueOK
            BY DEF PathsInv
        <3>4. queue \in Seq(DOMAIN best)
            BY <1>2, <3>3 DEF QueueOK
        <3>5. /\ queue' \in Seq(DOMAIN best') /\ Len(queue) \in Nat
              /\ DOMAIN queue = 1 .. Len(queue) /\ DOMAIN queue' = 1 .. Len(queue) + 1
              /\ queue'[Len(queue) + 1] = e.to
              /\ \A k \in DOMAIN queue : queue'[k] = queue[k] /\ queue[k] \in DOMAIN best
            BY <2>2, <3>1, <3>4
        <3>6. ASSUME NEW i \in DOMAIN best, Scanned(i) PROVE Scanned(i)'
            BY <1>1, <1>2, <1>3, <1>4, <2>2, <3>6, ScannedGrows
        <3>7. \A i \in DOMAIN best' : (\E k \in DOMAIN queue' : queue'[k] = i) \/ Scanned(i)'
            <4> TAKE i \in DOMAIN best'
            <4>1. CASE i = e.to
                BY <3>5, <4>1
            <4>2. CASE i \in DOMAIN best
                BY <1>2, <3>3, <3>5, <3>6, <4>2 DEF QueueOK
            <4> QED
                BY <2>2, <4>1, <4>2
        <3>8. \A k \in DOMAIN queue : here.g <= best[queue[k]]
            BY <1>2, <3>3 DEF QueueOK
        <3>9. \A i \in DOMAIN best : best[i] <= here.g + 1
            BY <1>2, <3>3 DEF QueueOK
        <3>10. \A k \in DOMAIN queue' : here.g <= best'[queue'[k]] /\ best'[queue'[k]] <= here.g + 1
            <4> TAKE k \in DOMAIN queue'
            <4>1. CASE k = Len(queue) + 1
                BY <1>4, <2>2, <3>5, <4>1
            <4>2. CASE k \in DOMAIN queue
                BY <1>4, <2>2, <3>5, <3>8, <3>9, <4>2
            <4> QED
                BY <3>5, <4>1, <4>2
        <3>11. \A i \in DOMAIN best' : best'[i] <= here.g + 1 /\ best'[i] \in Nat
            BY <1>4, <2>2, <3>9
        <3>12. \A k \in DOMAIN queue' : queue'[k] \in DOMAIN best'
            BY <3>5
        <3>13. \A j, k \in DOMAIN queue' : j <= k => best'[queue'[j]] <= best'[queue'[k]]
            <4> TAKE j, k \in DOMAIN queue'
            <4> HAVE j <= k
            <4>1. CASE k = Len(queue) + 1
                BY <2>2, <3>5, <3>10, <4>1
            <4>2. CASE k \in DOMAIN queue
                <5>1. j \in DOMAIN queue
                    BY <3>5, <4>2
                <5>2. best[queue[j]] <= best[queue[k]]
                    BY <1>2, <3>3, <4>2, <5>1 DEF QueueOK
                <5> QED
                    BY <2>2, <3>5, <4>2, <5>1, <5>2
            <4> QED
                BY <3>5, <4>1, <4>2
        <3>14. \A k \in DOMAIN queue' : \A i \in DOMAIN best' : best'[i] <= best'[queue'[k]] + 1
            <4> TAKE k \in DOMAIN queue'
            <4> TAKE i \in DOMAIN best'
            <4>1. here.g <= best'[queue'[k]] /\ best'[i] <= here.g + 1 /\ best'[i] \in Nat
                  /\ best'[queue'[k]] \in Nat
                BY <3>10, <3>11, <3>12
            <4> QED
                BY <1>4, <4>1
        <3>15. heap' = {} /\ to \notin DOMAIN best'
            BY <1>2, <2>2, <2>4, <3>3 DEF QueueOK
        <3> QED
            <4>1. QueueOK'
                BY <1>2, <3>5, <3>7, <3>10, <3>11, <3>13, <3>14, <3>15 DEF QueueOK
            <4> QED
                BY <1>5, <1>6, <1>7, <2>2, <3>2, <4>1 DEF PathsInv
    <2> QED
        BY <2>3, <2>4
<1> QED
    BY <1>9, <1>10

(* One edge of the item that was popped from a heap.                         *)
LEMMA StepWeigh ==
    ASSUME NoCollision, PathsInv, [PathsNext]_pathsVars, NEW e \in scan, Weigh(e)
    PROVE  PathsInv'
<1>1. query' = query /\ snapshot' = snapshot
    BY GraphStays
<1>2. /\ phase = "search" /\ query.algorithm # "BFS" /\ scan' = scan \ {e}
      /\ from' = from /\ to' = to /\ sources' = sources /\ paths' = paths
      /\ here' = here /\ queue' = queue
    BY DEF Weigh, Relax, Unweighed, Fail, Panic, GoOn
<1>3. Cost(e) = e.weight
    BY <1>2 DEF Cost
<1>4. /\ here.id \in DOMAIN best /\ here.g = best[here.id] /\ here.g \in Nat
      /\ \A i \in DOMAIN best : best[i] \in Nat
    BY <1>2 DEF PathsInv, Expanding, Tree
<1>5. /\ e \in Followed /\ e.from = here.id /\ e.weight \in Weights /\ e.to \in Ids
      /\ here.id \in ReachedFrom(from) /\ e.to \in ReachedFrom(from)
    <2>1. e \in Followed /\ e.from = here.id
        BY ScanIsFollowed DEF PathsInv, Typed
    <2>2. here.id \in ReachedFrom(from)
        BY <1>2, <1>4 DEF PathsInv, Tree
    <2> QED
        BY <2>1, <2>2, FollowedType, ReachedStep DEF PathsInv
<1>6. Collected' /\ GraphOK'
    BY <1>1, <1>2, CollectedStays, EdgesStay DEF PathsInv
<1>7. scan' \subseteq OutEdges(here.id)'
    BY <1>1, <1>2, EdgesStay DEF PathsInv, Typed
<1>8. error = "none"
    BY <1>2 DEF PathsInv, Typed
<1>9. /\ ReachedFrom(from)' = ReachedFrom(from) /\ Weighable(from, to)' = Weighable(from, to)
      /\ \A i : Guess(i)' = Guess(i)
    BY <1>1, <1>2, WalksStay DEF Guess, Estimate
<1>10. ASSUME Fail("node"), ~NodesThere(e) PROVE PathsInv'
    <2>1. phase' = "failed" /\ error' = "node"
        BY <1>10 DEF Fail
    <2>2. Typed' /\ Reasons'
        BY <1>1, <1>2, <1>5, <1>7, <1>9, <1>10, <2>1 DEF Typed, Reasons, NodesThere, PathsInv
    <2> QED
        BY <1>1, <1>6, <2>1, <2>2, SearchOver DEF PathsInv
<1>11. ASSUME phase' \in {"failed", "down"}, error' = "weight",
              e.weight \in {Missing, Unreadable} \/ e.weight < 0
       PROVE  PathsInv'
    <2>1. ~(e.weight \notin {Missing, Unreadable} /\ e.weight >= 0)
        BY <1>5, <1>11 DEF Weights
    <2>2. e \in Leaving(ReachedFrom(from))
        BY <1>5 DEF Leaving
    <2>3. ~Weighable(from, to)
        BY <1>2, <2>1, <2>2 DEF Weighable
    <2>4. Typed' /\ Reasons'
        BY <1>1, <1>2, <1>7, <1>9, <1>11, <2>3 DEF Typed, Reasons, PathsInv
    <2> QED
        BY <1>1, <1>6, <1>11, <2>4, SearchOver DEF PathsInv
<1>12. ASSUME Fail("estimate"), query.algorithm = "AStar", Estimate(e.to) = Missing PROVE PathsInv'
    <2>1. ~Weighable(from, to)
        BY <1>2, <1>5, <1>12 DEF Weighable, Estimate
    <2>2. phase' = "failed" /\ error' = "estimate"
        BY <1>12 DEF Fail
    <2>3. Typed' /\ Reasons'
        BY <1>1, <1>2, <1>7, <1>9, <2>1, <2>2 DEF Typed, Reasons, PathsInv
    <2> QED
        BY <1>1, <1>6, <2>2, <2>3, SearchOver DEF PathsInv
<1>13. ASSUME GoOn, e.weight \in Int, e.weight >= 0, ~Improves(e.to, here.g + e.weight),
              best' = best, parent' = parent, heap' = heap
       PROVE  PathsInv'
    <2>1. phase' = "search" /\ error' = "none"
        BY <1>8, <1>13 DEF GoOn
    <2>2. e.to \in DOMAIN best /\ best[e.to] <= here.g + e.weight
        BY <1>4, <1>13 DEF Improves
    <2>3. Typed' /\ Expanding' /\ PathOK' /\ QueueOK'
        BY <1>1, <1>2, <1>4, <1>7, <1>13, <2>1 DEF Typed, Expanding, PathOK, QueueOK, PathsInv
    <2>4. Tree'
        BY <1>1, <1>2, <1>13, EdgesStay, WalksStay DEF Tree, PathsInv
    <2>5. HeapOK'
        <3>1. ASSUME NEW i \in DOMAIN best, Scanned(i) PROVE Scanned(i)'
            BY <1>1, <1>2, <1>3, <1>4, <1>13, <2>2, <3>1, ScannedGrows
        <3>2. HeapOK
            BY DEF PathsInv
        <3>3. \A i \in DOMAIN best : (\E x \in heap : x.id = i /\ x.g = best[i]) \/ (i # to /\ Scanned(i)')
            BY <1>2, <3>1, <3>2 DEF HeapOK
        <3> QED
            BY <1>1, <1>2, <1>9, <1>13, <3>2, <3>3 DEF HeapOK
    <2> QED
        BY <1>6, <2>1, <2>3, <2>4, <2>5, NoError DEF PathsInv
<1>14. ASSUME GoOn, e.weight \in Int, e.weight >= 0, Improves(e.to, here.g + e.weight),
              Guess(e.to) \in Int,
              best' = Put(best, e.to, here.g + e.weight), parent' = Put(parent, e.to, e),
              heap' = heap \cup {Entry(e.to, here.g + e.weight, (here.g + e.weight) + Guess(e.to))}
       PROVE  PathsInv'
    <2> DEFINE new == Entry(e.to, here.g + e.weight, (here.g + e.weight) + Guess(e.to))
    <2>1. phase' = "search" /\ error' = "none"
        BY <1>8, <1>14 DEF GoOn
    <2>2. /\ e.to # from /\ e.to # here.id
          /\ DOMAIN best' = DOMAIN best \cup {e.to}
          /\ best'[e.to] = here.g + e.weight
          /\ \A i \in DOMAIN best : best'[i] \in Nat /\ best'[i] <= best[i]
          /\ \A i \in DOMAIN best \ {e.to} : best'[i] = best[i]
          /\ Tree'
        BY <1>1, <1>2, <1>3, <1>14, TreeGrows DEF Improves
    <2>3. Typed' /\ Expanding' /\ PathOK' /\ QueueOK'
        BY <1>1, <1>2, <1>4, <1>7, <2>1, <2>2 DEF Typed, Expanding, PathOK, QueueOK, PathsInv
    <2>4. HeapOK
        BY DEF PathsInv
    <2>5. new.id = e.to /\ new.g = here.g + e.weight /\ new \in heap' /\ heap' = heap \cup {new}
        BY <1>14 DEF Entry
    <2>6. \A x \in heap' :
              /\ x.id \in DOMAIN best' /\ x.g \in Nat /\ best'[x.id] <= x.g
              /\ Guess(x.id) \in Int /\ x = Entry(x.id, x.g, x.g + Guess(x.id))
        <3> TAKE x \in heap'
        <3>1. CASE x = new
            BY <1>4, <1>14, <2>2, <2>5, <3>1
        <3>2. CASE x \in heap
            <4>1. /\ x.id \in DOMAIN best /\ x.g \in Nat /\ best[x.id] <= x.g
                  /\ Guess(x.id) \in Int /\ x = Entry(x.id, x.g, x.g + Guess(x.id))
                BY <1>2, <2>4, <3>2 DEF HeapOK
            <4>2. best'[x.id] <= x.g
                BY <1>4, <2>2, <4>1
            <4> QED
                BY <2>2, <4>1, <4>2
        <3> QED
            BY <2>5, <3>1, <3>2
    <2>7. \A i \in DOMAIN best' :
              (\E x \in heap' : x.id = i /\ x.g = best'[i]) \/ (i # to /\ Scanned(i)')
        <3> TAKE i \in DOMAIN best'
        <3>1. CASE i = e.to
            BY <2>2, <2>5, <3>1
        <3>2. CASE i # e.to /\ \E x \in heap : x.id = i /\ x.g = best[i]
            BY <2>2, <2>5, <3>2
        <3>3. CASE i # e.to /\ i # to /\ Scanned(i)
            <4>1. i \in DOMAIN best /\ best'[i] = best[i]
                BY <2>2, <3>3
            <4>2. best'[e.to] \in Nat /\ best'[e.to] <= here.g + Cost(e) /\ e.to \in DOMAIN best'
                BY <1>3, <1>4, <1>14, <2>2
            <4> QED
                BY <1>1, <1>2, <1>3, <1>14, <2>2, <3>3, <4>1, <4>2, ScannedGrows
        <3> QED
            BY <1>2, <2>2, <2>4, <3>1, <3>2, <3>3 DEF HeapOK
    <2>8. IsFiniteSet(heap')
        BY <1>2, <2>4, <2>5, FS_AddElement DEF HeapOK
    <2>9. HeapOK'
        BY <1>1, <1>2, <1>9, <2>4, <2>6, <2>7, <2>8 DEF HeapOK
    <2> QED
        BY <1>6, <2>1, <2>2, <2>3, <2>9, NoError DEF PathsInv
<1>15. CASE ~NodesThere(e)
    BY <1>10, <1>15 DEF Weigh
<1>16. CASE NodesThere(e) /\ Unweighed(e)
    BY <1>11, <1>16 DEF Unweighed, Fail, Panic
<1>17. CASE NodesThere(e) /\ e.weight \notin {Missing, Unreadable} /\ Relax(e)
    <2>1. e.weight \in Int
        BY <1>5, <1>17 DEF Weights
    <2>2. snapshot.estimate[e.to] \in Int \cup {Missing}
        BY <1>5 DEF PathsInv, GraphOK
    <2>3. CASE e.weight < 0
        BY <1>11, <1>17, <2>1, <2>3 DEF Relax, Fail
    <2>4. CASE e.weight >= 0 /\ ~Improves(e.to, here.g + e.weight)
        BY <1>13, <1>17, <2>1, <2>4 DEF Relax
    <2>5. CASE e.weight >= 0 /\ Improves(e.to, here.g + e.weight)
        <3>1. CASE Guess(e.to) = Missing
            <4>1. query.algorithm = "AStar" /\ Estimate(e.to) = Missing
                BY <3>1, ValueAssumption DEF Guess
            <4> QED
                BY <1>12, <1>17, <2>1, <2>5, <4>1 DEF Relax
        <3>2. CASE Guess(e.to) # Missing
            <4>1. Guess(e.to) \in Int
                BY <2>2, <3>2 DEF Guess, Estimate
            <4>2. Guess(e.to) = IF query.algorithm = "AStar" THEN Estimate(e.to) ELSE 0
                BY DEF Guess
            <4> QED
                BY <1>14, <1>17, <2>1, <2>5, <3>2, <4>1, <4>2 DEF Relax
        <3> QED
            BY <3>1, <3>2
    <2> QED
        BY <2>1, <2>3, <2>4, <2>5
<1> QED
    BY <1>15, <1>16, <1>17 DEF Weigh

(* The path.  One edge in front of it costs what the edge costs.             *)
LEMMA PathCostOfOneMore ==
    ASSUME NEW p \in Seq(Followed), \A k \in DOMAIN p : Cost(p[k]) \in Nat,
           NEW e \in Followed, Cost(e) \in Nat
    PROVE  PathCost(p) \in Nat /\ PathCost(<<e>> \o p) = Cost(e) + PathCost(p)
<1> DEFINE q == <<e>> \o p
           s == [k \in 1 .. Len(p) |-> Cost(p[k])]
           t == [k \in 1 .. Len(q) |-> Cost(q[k])]
<1>1. /\ Len(p) \in Nat /\ DOMAIN p = 1 .. Len(p) /\ Len(q) = Len(p) + 1 /\ q[1] = e
      /\ \A k \in 1 .. Len(p) : q[k + 1] = p[k]
    OBVIOUS
<1> HIDE DEF q
<1>2. s \in Seq(Nat) /\ Len(s) = Len(p)
    BY <1>1
<1>3. \A k \in 1 .. Len(q) : Cost(q[k]) \in Nat
    <2> TAKE k \in 1 .. Len(q)
    <2>1. CASE k = 1
        BY <1>1, <2>1
    <2>2. CASE k # 1
        <3>1. k - 1 \in 1 .. Len(p) /\ (k - 1) + 1 = k
            BY <1>1, <2>2
        <3>2. q[k] = p[k - 1]
            BY <1>1, <3>1
        <3> QED
            BY <1>1, <3>1, <3>2
    <2> QED
        BY <2>1, <2>2
<1>4. t \in Seq(Nat) /\ Len(t) = Len(q) /\ t[1] = Cost(e)
    BY <1>1, <1>3
<1>5. \A k \in 1 .. Len(s) : t[k + 1] = s[k]
    <2> TAKE k \in 1 .. Len(s)
    <2>1. k \in 1 .. Len(p) /\ k + 1 \in 1 .. Len(q)
        BY <1>1, <1>2
    <2> QED
        BY <1>1, <2>1
<1> HIDE DEF s, t
<1>6. Total(s) \in Nat /\ Total(t) = t[1] + Total(s)
    BY <1>1, <1>2, <1>4, <1>5, TotalOfOneMore
<1>7. PathCost(p) = Total(s) /\ PathCost(q) = Total(t)
    BY DEF PathCost, s, t
<1> QED
    BY <1>4, <1>6, <1>7 DEF q

LEMMA StepStepBack ==
    ASSUME NoCollision, PathsInv, [PathsNext]_pathsVars, StepBack
    PROVE  PathsInv'
<1>1. query' = query /\ snapshot' = snapshot
    BY GraphStays
<1>2. /\ phase = "rebuild" /\ walk # from
      /\ from' = from /\ to' = to /\ sources' = sources /\ paths' = paths
      /\ here' = here /\ scan' = scan /\ best' = best /\ parent' = parent
    BY DEF StepBack, Fail, search
<1>3. /\ walk \in DOMAIN best /\ walk \in ReachedFrom(from) /\ error = "none"
      /\ walk \in DOMAIN parent
    BY <1>2 DEF PathsInv, PathOK, Tree, Typed
<1>4. Collected' /\ GraphOK'
    BY <1>1, <1>2, CollectedStays, EdgesStay DEF PathsInv
<1>5. /\ ReachedFrom(from)' = ReachedFrom(from) /\ Weighable(from, to)' = Weighable(from, to)
      /\ WalkCosts(from)' = WalkCosts(from) /\ Followed' = Followed
      /\ \A i : OutEdges(i)' = OutEdges(i)
      /\ \A e : Cost(e)' = Cost(e)
      /\ \A p : PathCost(p)' = PathCost(p)
    BY <1>1, <1>2, WalksStay, EdgesStay
<1>6. CASE walk \notin snapshot.nodes
    <2>1. phase' = "failed" /\ error' = "node"
        BY <1>6 DEF StepBack, Fail
    <2>2. Typed' /\ Reasons'
        BY <1>1, <1>2, <1>3, <1>5, <1>6, <2>1 DEF Typed, Reasons, PathsInv
    <2> QED
        BY <1>1, <1>4, <2>1, <2>2, SearchOver DEF PathsInv
<1>7. CASE walk \in snapshot.nodes
    <2> DEFINE e == parent[walk]
    <2>1. /\ phase' = "rebuild" /\ error' = "none"
          /\ path' = <<e>> \o path /\ walk' = e.from
        BY <1>3, <1>7 DEF StepBack, Fail
    <2>2. /\ e \in Followed /\ e.to = walk /\ e.from \in DOMAIN best /\ Cost(e) \in Nat
          /\ best[e.from] + Cost(e) <= best[walk]
          /\ best[e.from] \in Nat /\ best[walk] \in Nat /\ best[to] \in Nat
        BY <1>2, <1>3 DEF PathsInv, Tree, PathOK
    <2> HIDE DEF e
    <2>3. Typed' /\ Reasons'
        BY <1>2, <1>5, <2>1, NoError DEF Typed, PathsInv
    <2>4. Tree'
        BY <1>2, <1>5, <2>1 DEF Tree, PathsInv
    <2>5. Expanding' /\ QueueOK' /\ HeapOK'
        BY <2>1 DEF Expanding, QueueOK, HeapOK
    <2>6. /\ to \in DOMAIN best /\ path \in Seq(Followed)
          /\ \A k \in DOMAIN path : Cost(path[k]) \in Nat
          /\ Leads /\ Cheapest /\ PathCost(path) + best[walk] <= best[to]
        BY <1>2 DEF PathsInv, PathOK
    <2>7. PathCost(path) \in Nat /\ PathCost(path') = Cost(e) + PathCost(path)
        BY <2>1, <2>2, <2>6, PathCostOfOneMore
    <2>8. PathCost(path') + best[e.from] <= best[to]
        BY <2>2, <2>6, <2>7
    <2>9. /\ path' \in Seq(Followed) /\ Len(path) \in Nat /\ Len(path') = Len(path) + 1
          /\ DOMAIN path = 1 .. Len(path) /\ DOMAIN path' = 1 .. Len(path) + 1
          /\ path'[1] = e
          /\ \A k \in DOMAIN path : path'[k + 1] = path[k]
        BY <2>1, <2>2, <2>6
    <2>10. \A k \in DOMAIN path' : k = 1 \/ (k - 1 \in DOMAIN path /\ path'[k] = path[k - 1])
        <3> TAKE k \in DOMAIN path'
        <3>1. CASE k # 1
            <4>1. k - 1 \in DOMAIN path /\ (k - 1) + 1 = k
                BY <2>9, <3>1
            <4> QED
                BY <2>9, <4>1
        <3> QED
            BY <3>1
    <2>11. \A k \in DOMAIN path' : Cost(path'[k]) \in Nat /\ path'[k].to \in snapshot.nodes
        BY <1>7, <2>2, <2>6, <2>9, <2>10 DEF Leads
    <2>12. \A k \in DOMAIN path' : path'[k].from = IF k = 1 THEN e.from ELSE path'[k - 1].to
        <3> TAKE k \in DOMAIN path'
        <3>1. CASE k = 1
            BY <2>9, <3>1
        <3>2. CASE k = 2
            <4>1. 1 \in DOMAIN path /\ path'[k] = path[1] /\ path'[k - 1] = e
                BY <2>9, <2>10, <3>2
            <4>2. path[1].from = walk
                BY <2>6, <4>1 DEF Leads
            <4> QED
                BY <2>2, <3>2, <4>1, <4>2
        <3>3. CASE k # 1 /\ k # 2
            <4>1. k - 1 \in DOMAIN path' /\ k - 1 # 1 /\ k - 1 \in DOMAIN path
                BY <2>9, <3>3
            <4>2. path'[k] = path[k - 1] /\ path'[k - 1] = path[(k - 1) - 1]
                BY <2>10, <3>3, <4>1
            <4> QED
                BY <2>6, <3>3, <4>1, <4>2 DEF Leads
        <3> QED
            BY <3>1, <3>2, <3>3
    <2>13. path' # <<>> /\ to = path'[Len(path')].to
        <3>1. CASE path = <<>>
            <4>1. Len(path) = 0 /\ path'[Len(path')] = e
                BY <2>9, <3>1
            <4>2. walk = to
                BY <2>6, <3>1 DEF Leads
            <4>3. path' # <<>>
                BY <2>9
            <4>4. to = path'[Len(path')].to
                BY <2>2, <4>1, <4>2, Zenon
            <4> QED
                BY <4>3, <4>4
        <3>2. CASE path # <<>>
            <4>1. Len(path) \in DOMAIN path
                BY <2>6, <2>9, <3>2
            <4> QED
                BY <2>6, <2>9, <3>2, <4>1 DEF Leads
        <3> QED
            BY <2>9, <3>1, <3>2
    <2>14. Leads' /\ Cheapest'
        BY <1>1, <1>2, <1>5, <2>1, <2>6, <2>11, <2>12, <2>13 DEF Leads, Cheapest
    <2>15. PathOK'
        <3>1. PathCost(path)' = PathCost(path') /\ \A k \in DOMAIN path' : Cost(path[k])' = Cost(path'[k])
            BY <1>1, WalksStay DEF Cost
        <3> QED
            BY <1>2, <1>5, <2>1, <2>2, <2>6, <2>8, <2>9, <2>11, <2>14, <3>1 DEF PathOK
    <2> QED
        BY <1>4, <2>3, <2>4, <2>5, <2>15 DEF PathsInv
<1> QED
    BY <1>6, <1>7

(* The path is complete when it has come back to the start.                  *)
LEMMA StepYieldPath ==
    ASSUME NoCollision, PathsInv, [PathsNext]_pathsVars, YieldPath
    PROVE  PathsInv'
<1>1. query' = query /\ snapshot' = snapshot
    BY GraphStays
<1>2. /\ phase = "rebuild" /\ walk = from
      /\ from' = from /\ to' = to /\ sources' = sources
      /\ here' = here /\ scan' = scan /\ best' = best /\ parent' = parent
    BY DEF YieldPath, Fail, search
<1>3. from \in ReachedFrom(from) /\ error = "none" /\ best[from] = 0 /\ from \in Ids /\ to \in Ids
    BY <1>2, ReachedStart DEF PathsInv, Tree, Typed
<1>4. /\ ReachedFrom(from)' = ReachedFrom(from)
      /\ \A i : OutEdges(i)' = OutEdges(i)
    BY <1>1, <1>2, WalksStay, EdgesStay
<1>5. CASE from \notin snapshot.nodes
    <2>1. phase' = "failed" /\ error' = "node" /\ paths' = paths
        BY <1>5 DEF YieldPath, Fail
    <2>2. Typed' /\ Reasons'
        BY <1>1, <1>2, <1>3, <1>4, <1>5, <2>1 DEF Typed, Reasons, PathsInv
    <2> QED
        BY <1>1, <2>1, <2>2, SearchOver, CollectedStays DEF PathsInv
<1>6. CASE from \in snapshot.nodes
    <2> DEFINE p == [from |-> from, to |-> to, edges |-> path]
    <2>1. phase' = "next" /\ error' = "none" /\ paths' = Append(paths, p)
        BY <1>3, <1>6 DEF YieldPath, Fail
    <2>2. Typed' /\ Reasons'
        BY <1>2, <1>4, <2>1, NoError DEF Typed, PathsInv
    <2>3. /\ path \in Seq(Followed) /\ Leads /\ Cheapest
          /\ \A k \in DOMAIN path : Cost(path[k]) \in Nat
          /\ PathCost(path) + best[walk] <= best[to]
          /\ best[to] \in Nat
        BY <1>2 DEF PathsInv, PathOK, Tree
    <2>4. PathCost(path) \in Nat
        <3>1. CASE path = <<>>
            BY <3>1, PathCostOfNone
        <3>2. CASE path # <<>>
            <4>1. path[1] \in Followed /\ Cost(path[1]) \in Nat
                BY <2>3, <3>2
            <4> QED
                BY <2>3, <4>1, PathCostOfOneMore
        <3> QED
            BY <3>1, <3>2
    <2>5. p.from = from /\ p.to = to /\ p.edges = path
        OBVIOUS
    <2>6. p \in [from : Ids, to : Ids, edges : Seq(Followed)]
        BY <1>3, <2>3
    <2> HIDE DEF p
    <2>7. IsPath(p)
        <3>1. \A k \in DOMAIN path : path[k] \in Followed
            BY <2>3
        <3> QED
            BY <1>2, <1>6, <2>3, <2>5, <3>1 DEF IsPath, Leads
    <2>8. Weighable(p.from, p.to) => \A c \in WalkCosts(p.from)[p.to] : PathCost(p.edges) <= c
        <3>1. PathCost(path) <= best[to]
            BY <1>2, <1>3, <2>3, <2>4
        <3> SUFFICES ASSUME Weighable(from, to), NEW c \in WalkCosts(from)[to]
                     PROVE  PathCost(path) <= c
            BY <2>5
        <3>2. best[to] <= c
            BY <2>3 DEF Cheapest
        <3>3. c \in Nat
            <4>1. c \in CostsWithin(Arcs, from)[Longest][to] /\ Longest \in 0 .. Longest
                BY LongestType DEF WalkCosts, Longest
            <4> QED
                BY <1>3, <4>1, ArcsClosed, WalkType DEF PathsInv
        <3> QED
            BY <2>3, <2>4, <3>1, <3>2, <3>3
    <2>9. Collected'
        <3>1. /\ Followed' = Followed
              /\ \A s : WalkCosts(s)' = WalkCosts(s)
              /\ \A s, t : Weighable(s, t)' = Weighable(s, t)
              /\ \A r : PathCost(r)' = PathCost(r)
            BY <1>1, WalksStay, EdgesStay
        <3>2. \A r : IsPath(r)' = IsPath(r)
            BY <1>1, <3>1 DEF IsPath
        <3>3. paths \in Seq([from : Ids, to : Ids, edges : Seq(Followed)])
            BY DEF PathsInv, Collected
        <3>4. /\ paths' \in Seq([from : Ids, to : Ids, edges : Seq(Followed)])
              /\ \A k \in DOMAIN paths' : paths'[k] = p \/ (k \in DOMAIN paths /\ paths'[k] = paths[k])
            BY <2>1, <2>6, <3>3
        <3> DEFINE Good(r) == /\ IsPath(r)
                              /\ Weighable(r.from, r.to) =>
                                    \A c \in WalkCosts(r.from)[r.to] : PathCost(r.edges) <= c
        <3>5. Good(p)
            BY <2>7, <2>8
        <3>6. \A k \in DOMAIN paths : Good(paths[k])
            BY DEF PathsInv, Collected
        <3> HIDE DEF Good
        <3>7. \A k \in DOMAIN paths' : Good(paths'[k])
            BY <3>4, <3>5, <3>6
        <3> QED
            BY <3>1, <3>2, <3>4, <3>7 DEF Good, Collected
    <2> QED
        BY <1>1, <2>1, <2>2, <2>9, SearchOver DEF PathsInv
<1> QED
    BY <1>5, <1>6

-----------------------------------------------------------------------------
(* The theorem.                                                             *)

LEMMA PathsInitInv == PathsInit => PathsInv
<1> SUFFICES ASSUME PathsInit PROVE PathsInv
    OBVIOUS
<1>1. PICK f \in Families :
          /\ query \in f.queries
          /\ \E N \in f.nodes, h \in f.estimates,
                P \in {Q \in SUBSET f.pairs : Cardinality(Q) <= f.most} :
                \E c \in [P -> f.labels \X f.weights] :
                    snapshot =
                        [nodes |-> N, estimate |-> h,
                         edges |-> {[from |-> p[1], to |-> p[2],
                                     label |-> c[p][1], weight |-> c[p][2]] : p \in P}]
    BY DEF PathsInit
<1>2. PICK N \in f.nodes, h \in f.estimates, P \in SUBSET f.pairs :
          \E c \in [P -> f.labels \X f.weights] :
              snapshot =
                  [nodes |-> N, estimate |-> h,
                   edges |-> {[from |-> p[1], to |-> p[2],
                               label |-> c[p][1], weight |-> c[p][2]] : p \in P}]
    BY <1>1
<1>20. PICK c \in [P -> f.labels \X f.weights] :
          snapshot = [nodes |-> N, estimate |-> h,
                      edges |-> {[from |-> p[1], to |-> p[2],
                                  label |-> c[p][1], weight |-> c[p][2]] : p \in P}]
    BY <1>2
<1>3. query \in Query /\ N \subseteq Ids /\ h \in [Ids -> Int \cup {Missing}]
      /\ f.pairs \subseteq Ids \X Ids /\ f.labels \subseteq Labels /\ f.weights \subseteq Weights
    BY <1>1, FamilyAssumption
<1>4. GraphOK
    <2>1. ASSUME NEW p \in P
          PROVE  p[1] \in Ids /\ p[2] \in Ids /\ c[p][1] \in Labels /\ c[p][2] \in Weights
        BY <1>3
    <2>2. /\ snapshot.nodes = N /\ snapshot.estimate = h
          /\ snapshot.edges = {[from |-> p[1], to |-> p[2],
                                label |-> c[p][1], weight |-> c[p][2]] : p \in P}
        BY <1>20
    <2> QED
        BY <1>3, <2>1, <2>2 DEF GraphOK
<1>5. query.end \in Ids /\ query.sources \in Seq(Ids)
    BY <1>3 DEF Query
<1>6. Typed
    BY <1>5 DEF PathsInit, Typed
<1>7. Collected
    BY DEF PathsInit, Collected
<1>8. Tree /\ Expanding /\ QueueOK /\ HeapOK /\ PathOK /\ Reasons
    BY DEF PathsInit, Tree, Expanding, QueueOK, HeapOK, PathOK, Reasons
<1> QED
    BY <1>4, <1>6, <1>7, <1>8 DEF PathsInv

LEMMA PathsNextInv ==
    ASSUME NoCollision, PathsInv, [PathsNext]_pathsVars
    PROVE  PathsInv'
<1>1. CASE StartBfs
    BY <1>1, StepStartBfs
<1>2. CASE StartDijkstra
    BY <1>2, StepStartDijkstra
<1>3. CASE StartAStar
    BY <1>3, StepStartAStar
<1>4. CASE PopQueue
    BY <1>4, StepPopQueue
<1>5. CASE PopHeap
    BY <1>5, StepPopHeap
<1>6. CASE Exhausted
    BY <1>6, StepExhausted
<1>7. ASSUME NEW e \in scan, Visit(e) PROVE PathsInv'
    BY <1>7, StepVisit
<1>8. ASSUME NEW e \in scan, Weigh(e) PROVE PathsInv'
    BY <1>8, StepWeigh
<1>9. CASE StepBack
    BY <1>9, StepStepBack
<1>10. CASE YieldPath
    BY <1>10, StepYieldPath
<1>11. CASE Finish
    <2>1. /\ phase' = "done" /\ error' = error /\ error = "none" /\ paths' = paths
          /\ sources' = sources /\ from' = from /\ to' = to /\ here' = here /\ scan' = scan
        BY <1>11 DEF Finish, search, PathsInv, Typed
    <2>2. query' = query /\ snapshot' = snapshot
        BY GraphStays
    <2>3. Typed'
        BY <2>1, <2>2, EdgesStay DEF Typed, PathsInv
    <2> QED
        BY <2>1, <2>2, <2>3, SearchOver, CollectedStays, NoError DEF PathsInv
<1>12. CASE UNCHANGED pathsVars
    <2>1. query' = query /\ snapshot' = snapshot /\ from' = from /\ to' = to
          /\ sources' = sources /\ phase' = phase /\ queue' = queue /\ heap' = heap
          /\ best' = best /\ parent' = parent /\ here' = here /\ scan' = scan
          /\ walk' = walk /\ path' = path /\ paths' = paths /\ error' = error
        BY <1>12 DEF pathsVars, search
    <2>2. /\ Followed' = Followed /\ GraphOK' = GraphOK
          /\ \A i : OutEdges(i)' = OutEdges(i)
          /\ \A e : Cost(e)' = Cost(e)
          /\ \A i : Guess(i)' = Guess(i)
        BY <2>1, EdgesStay DEF Guess, Estimate
    <2>3. /\ \A s : ReachedFrom(s)' = ReachedFrom(s)
          /\ \A s : WalkCosts(s)' = WalkCosts(s)
          /\ \A s, t : Weighable(s, t)' = Weighable(s, t)
          /\ \A p : PathCost(p)' = PathCost(p)
        BY <2>1, WalksStay
    <2>4. \A i : Scanned(i)' = Scanned(i)
        BY <2>1, <2>2 DEF Scanned
    <2>5. Typed' /\ Tree' /\ Expanding' /\ Reasons'
        BY <2>1, <2>2, <2>3 DEF Typed, Tree, Expanding, Reasons, PathsInv
    <2>6. QueueOK' /\ HeapOK'
        BY <2>1, <2>2, <2>4 DEF QueueOK, HeapOK, PathsInv
    <2>7. PathOK'
        BY <2>1, <2>2, <2>3 DEF PathOK, Leads, Cheapest, PathsInv
    <2> QED
        BY <2>1, <2>2, <2>5, <2>6, <2>7, CollectedStays DEF PathsInv
<1> QED
    BY <1>1, <1>2, <1>3, <1>4, <1>5, <1>6, <1>7, <1>8, <1>9, <1>10, <1>11, <1>12 DEF PathsNext

LEMMA AnswersFollow == PathsInv => AnswerRight
<1> SUFFICES ASSUME PathsInv PROVE AnswerRight
    OBVIOUS
<1>1. phase = "rebuild" /\ walk \in snapshot.nodes \ {from} => walk \in DOMAIN parent
    BY DEF PathsInv, PathOK, Tree
<1> QED
    BY <1>1 DEF PathsInv, Collected, Reasons, AnswerRight

(* Where no two labels share a hash: every path that is collected joins its  *)
(* ends and is a cheapest one, whatever the weights and estimates, and every *)
(* failure has the reason it states.                                        *)
THEOREM AnswersHold ==
    ASSUME NoCollision
    PROVE  PathsSpec => []AnswerRight
<1>1. PathsInv /\ [PathsNext]_pathsVars => PathsInv'
    BY PathsNextInv
<1> QED
    BY <1>1, PathsInitInv, AnswersFollow, PTL DEF PathsSpec
=============================================================================
