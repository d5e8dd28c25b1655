----------------------------- MODULE WorkerPool -----------------------------
(***************************************************************************)
(* The threads that run queries: sparrow_gateway/worker_pool/mod.rs.       *)
(*                                                                         *)
(* A request goes either to the channel of the pool or, for a write route, *)
(* to the channel of the one writer thread.  A handler that needs an       *)
(* embedding returns IoNeeded: its future runs on the tokio runtime, asks  *)
(* the provider and sends a closure, the rest of the query, back on a      *)
(* continuation channel.  Pool workers have no select: an even worker      *)
(* polls continuations and then blocks on requests, an odd one polls       *)
(* requests and then blocks on continuations.  The writer takes no further *)
(* request until the future of the current one has ended.                  *)
(*                                                                         *)
(* A channel is one sequence.  Its first Capacity elements are in the      *)
(* channel; the rest are senders awaiting send_async, which flume serves   *)
(* in order as elements leave.                                             *)
(***************************************************************************)
EXTENDS Integers, Sequences, SequencesExt

CONSTANTS
    Requests,       \* client slots; a slot always asks for the same route
    WriteRoutes,    \* slots whose route is in router.write_routes
    Async,          \* slots whose handler returns IoNeeded
    Mutators,       \* slots whose handler opens an LMDB write transaction
    TextSearch,     \* slots of search_vector_text: embedded before queueing
    NumWorkers,     \* CoreSetter::num_threads
    Capacity,       \* 1000 in the code, for requests, writes, continuations
    NoRequest,
    Writer,         \* the writer thread
    NoThread

ASSUME PoolAssumption ==
    /\ WriteRoutes \subseteq Requests
    /\ Async \subseteq Requests
    /\ WriteRoutes \subseteq Mutators
    /\ Mutators \subseteq Requests
    /\ TextSearch \subseteq Requests \ (Mutators \union Async)
    /\ NumWorkers \in Nat /\ NumWorkers >= 2 /\ NumWorkers % 2 = 0
    /\ Capacity \in Nat \ {0}
    /\ NoRequest \notin Requests

Workers == 0 .. NumWorkers - 1
Threads == Workers \union {Writer}

ASSUME ThreadAssumption ==
    /\ Writer \notin Workers
    /\ NoThread \notin Threads

VARIABLES
    client,     \* what the task in WorkerPool::process is doing for the slot
    reqQ,       \* req_tx / rx
    writeQ,     \* write_tx / rx
    contQ,      \* cont_tx / cont_rx of the pool
    writerQ,    \* the per-request continuation channel of the writer
    future,     \* the future spawned for the slot, by the channel it holds
    at,         \* the receive of its loop a pool worker comes to next
    hand,       \* what a thread is working on
    current,    \* the request whose continuations the writer still awaits
    txn         \* the thread in LMDB's write transaction

vars == <<client, reqQ, writeQ, contQ, writerQ, future, at, hand, current, txn>>
queues == <<reqQ, writeQ, contQ, writerQ>>

Idle == [does |-> "nothing", req |-> NoRequest]
Doing(what, r) == [does |-> what, req |-> r]

Init ==
    /\ client = [r \in Requests |-> "idle"]
    /\ reqQ = <<>> /\ writeQ = <<>> /\ contQ = <<>> /\ writerQ = <<>>
    /\ future = [r \in Requests |-> "none"]
    /\ at = [w \in Workers |-> "poll"]
    /\ hand = [t \in Threads |-> Idle]
    /\ current = NoRequest
    /\ txn = NoThread

-----------------------------------------------------------------------------
(* Channels *)

\* A message in the sequence is in the channel; a later one is still with a
\* sender that awaits room.
InChannel(q, r) == \E i \in DOMAIN q : i <= Capacity /\ q[i] = r
AwaitsRoom(q, r) == \E i \in DOMAIN q : i > Capacity /\ q[i] = r

\* The channel when the sender that awaits room for r is dropped.
Withdraw(q, r) ==
    IF AwaitsRoom(q, r) THEN RemoveAt(q, CHOOSE i \in DOMAIN q : i > Capacity /\ q[i] = r)
    ELSE q

-----------------------------------------------------------------------------
(* The client's task: WorkerPool::process *)

\* Mutant: process() ignores is_write_route.
Enqueue(r) ==
    /\ client' = [client EXCEPT ![r] = "waiting"]
    /\ IF r \in WriteRoutes
       THEN writeQ' = Append(writeQ, r) /\ UNCHANGED reqQ
       ELSE reqQ' = Append(reqQ, r) /\ UNCHANGED writeQ

Submit(r) ==
    /\ client[r] \in {"idle", "answered"}
    /\ IF r \in TextSearch
       THEN client' = [client EXCEPT ![r] = "embedding"] /\ UNCHANGED <<reqQ, writeQ>>
       ELSE Enqueue(r)
    /\ UNCHANGED <<contQ, writerQ, future, at, hand, current, txn>>

\* The embedding of a text search is fetched before the request is queued; if
\* that fails the client gets the error and nothing is queued.
Precompute(r) ==
    /\ client[r] = "embedding"
    /\ \/ Enqueue(r)
       \/ client' = [client EXCEPT ![r] = "answered"] /\ UNCHANGED <<reqQ, writeQ>>
    /\ UNCHANGED <<contQ, writerQ, future, at, hand, current, txn>>

\* The connection closes and the task is dropped, at whichever await it is:
\* a message still with its sender is withdrawn, one in a channel stays.
Disconnect(r) ==
    /\ client[r] \in {"embedding", "waiting"}
    /\ LET withdrawn == AwaitsRoom(reqQ, r) \/ AwaitsRoom(writeQ, r)
       IN  client' = [client EXCEPT ![r] =
                          IF client[r] = "embedding" \/ withdrawn THEN "idle" ELSE "gone"]
    /\ reqQ' = Withdraw(reqQ, r)
    /\ writeQ' = Withdraw(writeQ, r)
    /\ UNCHANGED <<contQ, writerQ, future, at, hand, current, txn>>

-----------------------------------------------------------------------------
(* The loop of a pool worker *)

\* Mutants: every worker of one parity.
AllEven(w) == w \in Workers
AllOdd(w) == w \notin Workers

Even(w) == w % 2 = 0

TakeRequest(w) ==
    /\ reqQ # <<>>
    /\ hand' = [hand EXCEPT ![w] = Doing("request", Head(reqQ))]
    /\ reqQ' = Tail(reqQ)
    /\ UNCHANGED contQ

TakeContinuation(w) ==
    /\ contQ # <<>>
    /\ hand' = [hand EXCEPT ![w] = Doing("closure", Head(contQ))]
    /\ contQ' = Tail(contQ)
    /\ UNCHANGED reqQ

\* try_recv on the first channel: the worker goes on at once if it is empty.
Poll(w) ==
    /\ at[w] = "poll" /\ hand[w] = Idle
    /\ at' = [at EXCEPT ![w] = "block"]
    /\ \/ Even(w) /\ TakeContinuation(w)
       \/ Even(w) /\ contQ = <<>> /\ UNCHANGED <<reqQ, contQ, hand>>
       \/ ~Even(w) /\ TakeRequest(w)
       \/ ~Even(w) /\ reqQ = <<>> /\ UNCHANGED <<reqQ, contQ, hand>>
    /\ UNCHANGED <<client, writeQ, writerQ, future, current, txn>>

\* recv on the other channel: the worker sleeps while it is empty.
Receive(w) ==
    /\ at[w] = "block" /\ hand[w] = Idle
    /\ at' = [at EXCEPT ![w] = "poll"]
    /\ IF Even(w) THEN TakeRequest(w) ELSE TakeContinuation(w)
    /\ UNCHANGED <<client, writeQ, writerQ, future, current, txn>>

-----------------------------------------------------------------------------
(* The loop of the writer *)

WriterReceive ==
    /\ current = NoRequest
    /\ writeQ # <<>>
    /\ current' = Head(writeQ)
    /\ hand' = [hand EXCEPT ![Writer] = Doing("request", Head(writeQ))]
    /\ writeQ' = Tail(writeQ)
    /\ UNCHANGED <<client, reqQ, contQ, writerQ, future, at, txn>>

WriterContinue ==
    /\ hand[Writer] = Idle
    /\ writerQ # <<>>
    /\ hand' = [hand EXCEPT ![Writer] = Doing("closure", Head(writerQ))]
    /\ writerQ' = Tail(writerQ)
    /\ UNCHANGED <<client, reqQ, writeQ, contQ, future, at, current, txn>>

\* Mutant: the writer looks into the channel once, without waiting for the
\* future to end.
ChannelEmpty == writerQ = <<>>

\* The per-request channel is empty and no future holds a sender of it.
ChannelClosed == writerQ = <<>> /\ \A r \in Requests : future[r] \notin {"writer", "sent"}

WriterNextRequest ==
    /\ current # NoRequest
    /\ hand[Writer] = Idle
    /\ ChannelClosed
    /\ current' = NoRequest
    /\ UNCHANGED <<client, queues, future, at, hand, txn>>

-----------------------------------------------------------------------------
(* What a thread does with a message: request_mapper, or the closure *)

\* Mutant: the thread answers as well when the handler returns IoNeeded.
SpawnAndReply(t) ==
    /\ hand[t].does = "request" /\ hand[t].req \in Async
    /\ future' = [future EXCEPT ![hand[t].req] = IF t = Writer THEN "writer" ELSE "pool"]
    /\ hand' = [hand EXCEPT ![t] = Doing("reply", hand[t].req)]
    /\ UNCHANGED <<client, queues, at, current, txn>>

\* The handler returns IoNeeded: its future is spawned with a clone of this
\* thread's continuation sender, and the thread is free again.
Spawn(t) ==
    /\ hand[t].does = "request" /\ hand[t].req \in Async
    /\ future' = [future EXCEPT ![hand[t].req] = IF t = Writer THEN "writer" ELSE "pool"]
    /\ hand' = [hand EXCEPT ![t] = Idle]
    /\ UNCHANGED <<client, queues, at, current, txn>>

Runnable(t) ==
    \/ hand[t].does = "closure"
    \/ hand[t].does = "request" /\ hand[t].req \notin Async

\* A name without a route is answered NotFound; a handler that only reads
\* needs no lock.
Serve(t) ==
    /\ Runnable(t) /\ hand[t].req \notin Mutators
    /\ hand' = [hand EXCEPT ![t] = Doing("reply", hand[t].req)]
    /\ UNCHANGED <<client, queues, future, at, current, txn>>

\* write_txn() waits for LMDB's writer mutex ...
Begin(t) ==
    /\ Runnable(t) /\ hand[t].req \in Mutators
    /\ txn = NoThread
    /\ txn' = t
    /\ hand' = [hand EXCEPT ![t] = Doing("query", hand[t].req)]
    /\ UNCHANGED <<client, queues, future, at, current>>

\* ... and commit, or the drop of the transaction after an error, releases it.
Commit(t) ==
    /\ hand[t].does = "query"
    /\ txn' = NoThread
    /\ hand' = [hand EXCEPT ![t] = Doing("reply", hand[t].req)]
    /\ UNCHANGED <<client, queues, future, at, current>>

\* ret_chan.send: it fails, silently, when the client has left.
Reply(t) ==
    /\ hand[t].does = "reply"
    /\ client' = [client EXCEPT ![hand[t].req] = IF @ = "gone" THEN "idle" ELSE "answered"]
    /\ hand' = [hand EXCEPT ![t] = Idle]
    /\ UNCHANGED <<queues, future, at, current, txn>>

-----------------------------------------------------------------------------
(* The future of an asynchronous handler *)

\* The provider answers, with an embedding or an error that the closure will
\* return; send_async of the closure.  The future of a pool request ends with
\* it.
Embedded(r) ==
    /\ \/ /\ future[r] = "pool"
          /\ contQ' = Append(contQ, r)
          /\ future' = [future EXCEPT ![r] = "none"]
          /\ UNCHANGED writerQ
       \/ /\ future[r] = "writer"
          /\ writerQ' = Append(writerQ, r)
          /\ future' = [future EXCEPT ![r] = "sent"]
          /\ UNCHANGED contQ
    /\ UNCHANGED <<client, reqQ, writeQ, at, hand, current, txn>>

\* The future is dropped, and with it its clone of the writer's sender.
FutureEnds(r) ==
    /\ future[r] = "sent"
    /\ future' = [future EXCEPT ![r] = "none"]
    /\ UNCHANGED <<client, queues, at, hand, current, txn>>

-----------------------------------------------------------------------------

ThreadStep(t) ==
    \/ /\ t \in Workers
       /\ Poll(t) \/ Receive(t)
    \/ /\ t = Writer
       /\ WriterReceive \/ WriterContinue \/ WriterNextRequest
    \/ Spawn(t) \/ Serve(t) \/ Begin(t) \/ Commit(t) \/ Reply(t)

Next ==
    \/ \E r \in Requests : Submit(r) \/ Precompute(r) \/ Disconnect(r)
    \/ \E t \in Threads : ThreadStep(t)
    \/ \E r \in Requests : Embedded(r) \/ FutureEnds(r)

\* The operating system runs every thread and tokio runs every future that is
\* ready.
RuntimeFairness ==
    /\ \A t \in Threads : WF_vars(ThreadStep(t))
    /\ \A r \in Requests : WF_vars(FutureEnds(r))

\* The embedding provider answers every call.
ProviderFairness == \A r \in Requests : WF_vars(Precompute(r)) /\ WF_vars(Embedded(r))

\* LMDB's writer mutex, released again and again, is not kept for ever from a
\* thread that waits for it: a pthread mutex makes no such promise, so that it
\* is an antecedent of what needs it.
MutexFairness == \A t \in Threads : SF_vars(Begin(t))

Spec == Init /\ [][Next]_vars
FairSpec == Spec /\ RuntimeFairness

-----------------------------------------------------------------------------
(* Properties *)

InWork(r) ==
    \/ \E t \in Threads : hand[t].req = r /\ hand[t].does # "reply"
    \/ future[r] \in {"pool", "writer"}
    \/ Contains(contQ, r) \/ Contains(writerQ, r)

\* Every request a client waits for, or has left behind in a channel, is in
\* exactly one place: a channel, a thread's hands or a future.  Nothing else
\* is anywhere: what was withdrawn or answered is gone from every channel.
Places(r) ==
    {<<"requests", i>> : i \in {j \in DOMAIN reqQ : reqQ[j] = r}}
    \union {<<"writes", i>> : i \in {j \in DOMAIN writeQ : writeQ[j] = r}}
    \union {<<"continuations", i>> : i \in {j \in DOMAIN contQ : contQ[j] = r}}
    \union {<<"writer", i>> : i \in {j \in DOMAIN writerQ : writerQ[j] = r}}
    \union {<<"hand", t>> : t \in {u \in Threads : hand[u].req = r}}
    \union (IF future[r] \in {"pool", "writer"} THEN {<<"future", r>>} ELSE {})

NothingLost ==
    \A r \in Requests :
        IF client[r] \in {"waiting", "gone"}
        THEN \E p \in Places(r) : Places(r) = {p}
        ELSE Places(r) = {}

\* The pool implements the service: accepted requests are performed once and
\* then finished, the requests of write routes in the order of acceptance and
\* one at a time, also while the embedding of one is under way; a request that is
\* withdrawn before it was accepted is never performed.
Phase ==
    [r \in Requests |->
        IF \E t \in Threads : hand[t] = Doing("reply", r) THEN "performed"
        ELSE IF InWork(r) \/ InChannel(reqQ, r) \/ InChannel(writeQ, r) THEN "accepted"
        ELSE "new"]

Order ==
    (IF current # NoRequest /\ InWork(current) THEN <<current>> ELSE <<>>)
    \o [i \in DOMAIN writeQ \intersect 1 .. Capacity |-> writeQ[i]]

Service == INSTANCE RequestService WITH phase <- Phase, order <- Order
ImplementsService == Service!Spec

\* If the provider answers and the writer mutex is not kept from anyone, whoever
\* waits is answered, or leaves: with workers of both parities neither requests
\* nor continuations starve, however busy the other channel is kept, writes get
\* their turn, and a worker and the writer that want the mutex both get it.
EveryoneAnswered ==
    ProviderFairness /\ MutexFairness =>
        \A r \in Requests : client[r] = "waiting" ~> client[r] # "waiting"

\* A provider that never answers holds up only those who need it: requests of
\* the pool without an embedding are answered all the same, because no worker
\* waits for a future.  A read that opens a write transaction waits for the
\* mutex, and what is queued behind its worker with it.
PlainReads == Requests \ (WriteRoutes \union Async)
ReadsProceed ==
    MutexFairness =>
        \A r \in PlainReads : client[r] = "waiting" ~> client[r] # "waiting"
=============================================================================
