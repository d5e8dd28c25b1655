-------------------------- MODULE WorkerPoolProofs --------------------------
(***************************************************************************)
(* Theorems about WorkerPool, for any number of clients and workers and    *)
(* any capacity of the channels.                                           *)
(***************************************************************************)
EXTENDS WorkerPool, SequenceTheorems, TLAPS

-----------------------------------------------------------------------------
(* Channels.                                                               *)

LEMMA AppendChannel ==
    ASSUME NEW S, NEW q \in Seq(S), NEW r \in S
    PROVE  /\ Append(q, r) \in Seq(S)
           /\ \A s : Contains(Append(q, r), s) <=> Contains(q, s) \/ s = r
           /\ IsInjective(q) /\ ~Contains(q, r) => IsInjective(Append(q, r))
<1> DEFINE p == Append(q, r)
<1>1. /\ p \in Seq(S) /\ Len(p) = Len(q) + 1 /\ Len(q) \in Nat
      /\ \A i \in 1 .. Len(q) : p[i] = q[i]
      /\ p[Len(q) + 1] = r
      /\ DOMAIN p = 1 .. Len(p) /\ DOMAIN q = 1 .. Len(q)
    BY AppendProperties, LenProperties
<1> HIDE DEF p
<1>2. \A s : Contains(p, s) <=> Contains(q, s) \/ s = r
    BY <1>1 DEF Contains
<1>3. IsInjective(q) /\ ~Contains(q, r) => IsInjective(p)
    BY <1>1 DEF Contains, IsInjective
<1> QED
    BY <1>1, <1>2, <1>3 DEF p

LEMMA TailChannel ==
    ASSUME NEW S, NEW q \in Seq(S), q # <<>>, IsInjective(q)
    PROVE  /\ Head(q) \in S /\ Contains(q, Head(q))
           /\ Tail(q) \in Seq(S)
           /\ \A s : Contains(Tail(q), s) <=> Contains(q, s) /\ s # Head(q)
           /\ IsInjective(Tail(q))
<1> DEFINE p == Tail(q)
<1>1. /\ p \in Seq(S) /\ Len(p) = Len(q) - 1 /\ Len(q) \in Nat \ {0}
      /\ \A i \in 1 .. Len(p) : p[i] = q[i + 1]
      /\ Head(q) = q[1] /\ q[1] \in S
      /\ DOMAIN p = 1 .. Len(p) /\ DOMAIN q = 1 .. Len(q)
    BY HeadTailProperties, LenProperties, EmptySeq
<1> HIDE DEF p
<1>2. ASSUME NEW s PROVE Contains(p, s) <=> Contains(q, s) /\ s # q[1]
    <2>1. ASSUME NEW i \in 1 .. Len(p), p[i] = s PROVE Contains(q, s) /\ s # q[1]
        BY <1>1, <2>1 DEF Contains, IsInjective
    <2>2. ASSUME NEW i \in 1 .. Len(q), q[i] = s, s # q[1] PROVE Contains(p, s)
        <3>1. i - 1 \in 1 .. Len(p) /\ p[i - 1] = q[i]
            BY <1>1, <2>2
        <3> QED
            BY <2>2, <3>1 DEF Contains
    <2> QED
        BY <2>1, <2>2 DEF Contains
<1>3. IsInjective(p)
    BY SMTT(60), <1>1 DEF IsInjective
<1>4. Contains(q, q[1])
    BY <1>1 DEF Contains
<1> QED
    BY <1>1, <1>2, <1>3, <1>4 DEF p

(* A sender that leaves takes its own message and moves those behind it.    *)
LEMMA RemoveProperties ==
    ASSUME NEW S, NEW q \in Seq(S), NEW k \in 1 .. Len(q)
    PROVE  /\ RemoveAt(q, k) \in Seq(S)
           /\ Len(RemoveAt(q, k)) = Len(q) - 1
           /\ \A i \in 1 .. Len(q) - 1 : RemoveAt(q, k)[i] = IF i < k THEN q[i] ELSE q[i + 1]
<1> DEFINE a == SubSeq(q, 1, k - 1)
           b == SubSeq(q, k + 1, Len(q))
<1>1. Len(q) \in Nat /\ \A i \in 1 .. Len(q) : q[i] \in S
    BY LenProperties, ElementOfSeq
<1>2. a \in Seq(S) /\ Len(a) = k - 1 /\ \A i \in 1 .. k - 1 : a[i] = q[i]
    BY <1>1, SubSeqProperties
<1>3. b \in Seq(S) /\ Len(b) = Len(q) - k /\ \A i \in 1 .. Len(q) - k : b[i] = q[k + i]
    <2>1. \A i \in k + 1 .. Len(q) : q[i] \in S
        BY <1>1
    <2>2. /\ b \in Seq(S)
          /\ Len(b) = IF k + 1 <= Len(q) THEN Len(q) - (k + 1) + 1 ELSE 0
          /\ \A i \in 1 .. Len(q) - (k + 1) + 1 : b[i] = q[k + 1 + i - 1]
        BY <1>1, <2>1, SubSeqProperties
    <2>3. k \in Int /\ k <= Len(q)
        BY <1>1
    <2> HIDE DEF b
    <2>4. \A i \in 1 .. Len(q) - k : i \in 1 .. Len(q) - (k + 1) + 1 /\ k + 1 + i - 1 = k + i
        BY <1>1, <2>3
    <2> QED
        BY <1>1, <2>2, <2>3, <2>4
<1> HIDE DEF a, b
<1>4. /\ a \o b \in Seq(S)
      /\ Len(a \o b) = Len(a) + Len(b)
      /\ \A i \in 1 .. Len(a) + Len(b) : (a \o b)[i] = IF i <= Len(a) THEN a[i] ELSE b[i - Len(a)]
    BY <1>2, <1>3, ConcatProperties
<1>5. RemoveAt(q, k) = a \o b
    BY DEF RemoveAt, a, b
<1>6. Len(a \o b) = Len(q) - 1
    BY <1>1, <1>2, <1>3, <1>4
<1>7. ASSUME NEW i \in 1 .. Len(q) - 1
      PROVE  (a \o b)[i] = IF i < k THEN q[i] ELSE q[i + 1]
    <2>1. CASE i < k
        <3>1. i \in 1 .. Len(a) + Len(b) /\ i <= Len(a) /\ i \in 1 .. k - 1
            BY <1>1, <1>2, <1>3, <2>1
        <3> QED
            BY <1>2, <1>4, <2>1, <3>1
    <2>2. CASE ~ (i < k)
        <3>1. /\ i \in 1 .. Len(a) + Len(b) /\ ~ (i <= Len(a))
              /\ i - Len(a) \in 1 .. Len(q) - k /\ k + (i - Len(a)) = i + 1
            BY <1>1, <1>2, <1>3, <2>2
        <3> QED
            BY <1>3, <1>4, <2>2, <3>1
    <2> QED
        BY <2>1, <2>2
<1> QED
    BY <1>4, <1>5, <1>6, <1>7

LEMMA WithdrawChannel ==
    ASSUME NEW S, NEW q \in Seq(S), NEW r, IsInjective(q), AwaitsRoom(q, r)
    PROVE  \E k \in 1 .. Len(q) :
              /\ k > Capacity /\ q[k] = r
              /\ Withdraw(q, r) = RemoveAt(q, k)
              /\ Withdraw(q, r) \in Seq(S)
              /\ \A s : Contains(Withdraw(q, r), s) <=> Contains(q, s) /\ s # r
              /\ IsInjective(Withdraw(q, r))
<1> DEFINE k == CHOOSE i \in DOMAIN q : i > Capacity /\ q[i] = r
<1>1. Len(q) \in Nat /\ DOMAIN q = 1 .. Len(q)
    BY LenProperties
<1>2. k \in 1 .. Len(q) /\ k > Capacity /\ q[k] = r
    BY <1>1 DEF AwaitsRoom
<1>3. Withdraw(q, r) = RemoveAt(q, k)
    BY DEF Withdraw
<1> HIDE DEF k
<1> DEFINE p == RemoveAt(q, k)
<1>4. /\ p \in Seq(S) /\ Len(p) = Len(q) - 1
      /\ \A i \in 1 .. Len(q) - 1 : p[i] = IF i < k THEN q[i] ELSE q[i + 1]
    BY <1>2, RemoveProperties
<1>5. DOMAIN p = 1 .. Len(p)
    BY <1>4, LenProperties
<1> HIDE DEF p
<1>6. ASSUME NEW s PROVE Contains(p, s) <=> Contains(q, s) /\ s # r
    <2>1. ASSUME NEW i \in 1 .. Len(p), p[i] = s PROVE Contains(q, s) /\ s # r
        <3>1. i \in 1 .. Len(q) /\ i + 1 \in 1 .. Len(q) /\ i \in 1 .. Len(q) - 1
            BY <1>1, <1>4
        <3>2. \E j \in 1 .. Len(q) : j # k /\ q[j] = s
            BY <1>1, <1>2, <1>4, <2>1, <3>1
        <3> QED
            BY <1>1, <1>2, <3>2 DEF Contains, IsInjective
    <2>2. ASSUME NEW i \in 1 .. Len(q), q[i] = s, s # r PROVE Contains(p, s)
        <3>1. CASE i < k
            BY <1>1, <1>2, <1>4, <2>2, <3>1 DEF Contains
        <3>2. CASE i > k
            <4>1. i - 1 \in 1 .. Len(p) /\ ~ (i - 1 < k) /\ i - 1 + 1 = i
                BY <1>1, <1>2, <1>4, <3>2
            <4>2. p[i - 1] = s
                BY <1>4, <2>2, <4>1
            <4> QED
                BY <4>1, <4>2 DEF Contains
        <3> QED
            BY <1>1, <1>2, <2>2, <3>1, <3>2
    <2> QED
        BY <2>1, <2>2 DEF Contains
<1>7. IsInjective(p)
    <2> SUFFICES ASSUME NEW i \in 1 .. Len(p), NEW j \in 1 .. Len(p), p[i] = p[j] PROVE i = j
        BY <1>5 DEF IsInjective
    <2>1. /\ i \in 1 .. Len(q) /\ i + 1 \in 1 .. Len(q) /\ i \in 1 .. Len(q) - 1
          /\ j \in 1 .. Len(q) /\ j + 1 \in 1 .. Len(q) /\ j \in 1 .. Len(q) - 1
        BY <1>1, <1>4
    <2>2. \A m, n \in 1 .. Len(q) : q[m] = q[n] => m = n
        BY <1>1 DEF IsInjective
    <2>3. CASE i < k /\ j < k
        BY <1>4, <2>1, <2>2, <2>3
    <2>4. CASE i < k /\ ~ (j < k)
        <3>1. i = j + 1
            BY <1>4, <2>1, <2>2, <2>4
        <3> QED
            BY <1>2, <2>4, <3>1
    <2>5. CASE ~ (i < k) /\ j < k
        <3>1. i + 1 = j
            BY <1>4, <2>1, <2>2, <2>5
        <3> QED
            BY <1>2, <2>5, <3>1
    <2>6. CASE ~ (i < k) /\ ~ (j < k)
        BY <1>4, <2>1, <2>2, <2>6
    <2> QED
        BY <2>3, <2>4, <2>5, <2>6
<1> QED
    BY <1>2, <1>3, <1>4, <1>6, <1>7 DEF p

-----------------------------------------------------------------------------
(* The inductive invariant.                                                *)

PlainRoutes == Requests \ WriteRoutes
Work(routes) == {Idle} \union [does : {"request", "closure", "query", "reply"}, req : routes]

(* The two halves of the pool never exchange a request: what has a write    *)
(* route is only ever with the writer, its channels and its futures.        *)
TypeOK ==
    /\ client \in [Requests -> {"idle", "embedding", "waiting", "gone", "answered"}]
    /\ reqQ \in Seq(PlainRoutes) /\ contQ \in Seq(PlainRoutes)
    /\ writeQ \in Seq(WriteRoutes) /\ writerQ \in Seq(WriteRoutes)
    /\ future \in [Requests -> {"none", "pool", "writer", "sent"}]
    /\ \A r \in WriteRoutes : future[r] # "pool"
    /\ \A r \in PlainRoutes : future[r] \in {"none", "pool"}
    /\ at \in [Workers -> {"poll", "block"}]
    /\ DOMAIN hand = Threads
    /\ \A w \in Workers : hand[w] \in Work(PlainRoutes)
    /\ hand[Writer] \in Work(WriteRoutes)
    /\ current \in WriteRoutes \union {NoRequest}
    /\ txn \in Threads \union {NoThread}

(* The writer has one request at a time.                                    *)
OneWrite ==
    /\ hand[Writer] # Idle => hand[Writer].req = current
    /\ \A r \in Requests : Contains(writerQ, r) => r = current
    /\ \A r \in Requests : future[r] \in {"writer", "sent"} => r = current

Held(r) == \E t \in Threads : hand[t].req = r
Pending(r) == future[r] \in {"pool", "writer"}
Queued(r) == Contains(reqQ, r) \/ Contains(writeQ, r)
Returned(r) == Contains(contQ, r) \/ Contains(writerQ, r)

(* No two threads work on one request.                                      *)
Alone == \A t \in Threads, u \in Threads : hand[t] # Idle /\ hand[t].req = hand[u].req => t = u

(* A request is queued, held, pending or returned while its client waits or *)
(* is gone, and only one of these, and once.                                *)
Placed ==
    /\ IsInjective(reqQ) /\ IsInjective(writeQ) /\ IsInjective(contQ) /\ IsInjective(writerQ)
    /\ Alone
    /\ \A r \in Requests :
        /\ client[r] \in {"waiting", "gone"} <=> Queued(r) \/ Held(r) \/ Pending(r) \/ Returned(r)
        /\ Queued(r) => ~Held(r) /\ ~Pending(r) /\ ~Returned(r)
        /\ Held(r) => ~Pending(r) /\ ~Returned(r)
        /\ Pending(r) => ~Returned(r)

PoolInv == TypeOK /\ OneWrite /\ Placed

LEMMA InitPool == Init => PoolInv
<1> SUFFICES ASSUME Init PROVE PoolInv
    OBVIOUS
<1>1. TypeOK
    <2>1. \A S : <<>> \in Seq(S)
        BY EmptySeq
    <2> QED
        BY <2>1, PoolAssumption, ThreadAssumption DEF Init, TypeOK, Work, Threads, PlainRoutes
<1>2. \A r : ~Contains(<<>>, r)
    BY DEF Contains
<1>3. OneWrite
    BY <1>2, ThreadAssumption DEF Init, OneWrite, Threads
<1>4. IsInjective(<<>>)
    BY DEF IsInjective
<1>5. Placed
    BY <1>2, <1>4, PoolAssumption
       DEF Init, Placed, Alone, Queued, Held, Pending, Returned, Idle
<1> QED
    BY <1>1, <1>3, <1>5 DEF PoolInv

(* What a thread holds is a request of its half of the pool.                *)
LEMMA HandType ==
    ASSUME TypeOK, NEW t \in Threads
    PROVE  /\ t = Writer => hand[t] \in Work(WriteRoutes)
           /\ t # Writer => t \in Workers /\ hand[t] \in Work(PlainRoutes)
           /\ hand[t] # Idle => /\ hand[t].req \in Requests
                                /\ hand[t].req \in WriteRoutes <=> t = Writer
           /\ hand[t] = Idle <=> hand[t].does = "nothing"
           /\ hand[t] = Idle <=> hand[t].req = NoRequest
           /\ hand[t] = Idle <=> hand[t].req \notin Requests
BY PoolAssumption, ThreadAssumption DEF TypeOK, Threads, Work, PlainRoutes, Idle

LEMMA Takes ==
    ASSUME TypeOK, Alone, NEW t \in Threads, NEW r \in Requests, NEW what,
           hand' = [hand EXCEPT ![t] = Doing(what, r)], hand[t] = Idle, ~Held(r)
    PROVE  /\ \A s \in Requests : Held(s)' <=> Held(s) \/ s = r
           /\ Alone'
<1>1. /\ hand'[t] = Doing(what, r) /\ Doing(what, r).req = r
      /\ \A u \in Threads : u # t => hand'[u] = hand[u]
    BY DEF TypeOK, Doing
<1>2. hand[t].req \notin Requests
    BY HandType
<1>3. \A s \in Requests : (\E u \in Threads : hand'[u].req = s) <=> Held(s) \/ s = r
    BY <1>1, <1>2 DEF Held
<1>4. \A u \in Threads : u # t => hand[u].req # r
    BY DEF Held
<1>5. Alone'
    BY <1>1, <1>4 DEF Alone
<1> QED
    BY <1>3, <1>5 DEF Held

LEMMA Releases ==
    ASSUME TypeOK, Alone, NEW t \in Threads, hand' = [hand EXCEPT ![t] = Idle], hand[t] # Idle
    PROVE  /\ \A s \in Requests : Held(s)' <=> Held(s) /\ s # hand[t].req
           /\ Alone'
<1>1. hand'[t] = Idle /\ \A u \in Threads : u # t => hand'[u] = hand[u]
    BY DEF TypeOK
<1>2. Idle.req \notin Requests
    BY PoolAssumption DEF Idle
<1>3. \A u \in Threads : u # t => hand[u].req # hand[t].req
    BY DEF Alone
<1>4. \A s \in Requests : (\E u \in Threads : hand'[u].req = s) <=> Held(s) /\ s # hand[t].req
    BY <1>1, <1>2, <1>3 DEF Held
<1>5. \A u \in Threads : hand[u] # Idle => hand[u].req # Idle.req
    BY <1>2, HandType
<1>6. Alone'
    BY <1>1, <1>5 DEF Alone
<1> QED
    BY <1>4, <1>6 DEF Held

LEMMA Turns ==
    ASSUME TypeOK, Alone, NEW t \in Threads, NEW what,
           hand' = [hand EXCEPT ![t] = Doing(what, hand[t].req)], hand[t] # Idle
    PROVE  /\ \A s \in Requests : Held(s)' <=> Held(s)
           /\ Alone'
<1>1. \A u \in Threads : hand'[u].req = hand[u].req
    BY DEF TypeOK, Doing
<1>2. \A u \in Threads : hand'[u] # Idle => hand[u] # Idle
    BY HandType DEF TypeOK
<1>3. \A s \in Requests : (\E u \in Threads : hand'[u].req = s) <=> Held(s)
    BY <1>1 DEF Held
<1> QED
    BY <1>1, <1>2, <1>3 DEF Held, Alone

(* Of two routes, one queue only has the request.                            *)
LEMMA Halves ==
    ASSUME TypeOK, NEW r \in Requests
    PROVE  /\ Contains(reqQ, r) \/ Contains(contQ, r) => r \notin WriteRoutes
           /\ Contains(writeQ, r) \/ Contains(writerQ, r) => r \in WriteRoutes
<1>1. ASSUME NEW S, NEW q \in Seq(S), Contains(q, r) PROVE r \in S
    BY <1>1, ElementOfSeq DEF Contains
<1> QED
    BY <1>1 DEF TypeOK, PlainRoutes

LEMMA EnqueueStep ==
    ASSUME PoolInv, NEW r \in Requests, Enqueue(r), client[r] \in {"idle", "answered", "embedding"},
           UNCHANGED <<contQ, writerQ, future, at, hand, current, txn>>
    PROVE  PoolInv'
<1> USE DEF PoolInv
<1>1. ~Queued(r) /\ ~Held(r) /\ ~Pending(r) /\ ~Returned(r)
    BY DEF Placed
<1>2. /\ \A s \in Requests : Queued(s)' <=> Queued(s) \/ s = r
      /\ reqQ' \in Seq(PlainRoutes) /\ writeQ' \in Seq(WriteRoutes)
      /\ IsInjective(reqQ') /\ IsInjective(writeQ')
    <2>1. CASE r \in WriteRoutes
        <3>1. writeQ' = Append(writeQ, r) /\ reqQ' = reqQ /\ writeQ \in Seq(WriteRoutes)
            BY <2>1 DEF Enqueue, TypeOK
        <3>2. IsInjective(writeQ) /\ ~Contains(writeQ, r)
            BY <1>1 DEF Placed, Queued
        <3>3. /\ writeQ' \in Seq(WriteRoutes) /\ IsInjective(writeQ')
              /\ \A s : Contains(writeQ', s) <=> Contains(writeQ, s) \/ s = r
            BY <2>1, <3>1, <3>2, AppendChannel
        <3> QED
            BY <3>1, <3>3 DEF Queued, TypeOK, Placed
    <2>2. CASE r \notin WriteRoutes
        <3>1. reqQ' = Append(reqQ, r) /\ writeQ' = writeQ /\ reqQ \in Seq(PlainRoutes) /\ r \in PlainRoutes
            BY <2>2 DEF Enqueue, TypeOK, PlainRoutes
        <3>2. IsInjective(reqQ) /\ ~Contains(reqQ, r)
            BY <1>1 DEF Placed, Queued
        <3>3. /\ reqQ' \in Seq(PlainRoutes) /\ IsInjective(reqQ')
              /\ \A s : Contains(reqQ', s) <=> Contains(reqQ, s) \/ s = r
            BY <3>1, <3>2, AppendChannel
        <3> QED
            BY <3>1, <3>3 DEF Queued, TypeOK, Placed
    <2> QED
        BY <2>1, <2>2
<1>3. /\ client' \in [Requests -> {"idle", "embedding", "waiting", "gone", "answered"}]
      /\ client'[r] = "waiting" /\ \A s \in Requests : s # r => client'[s] = client[s]
    BY DEF Enqueue, TypeOK
<1>4. TypeOK'
    BY <1>2, <1>3 DEF TypeOK
<1>5. OneWrite'
    BY DEF OneWrite
<1>6. Placed'
    <2>1. \A s \in Requests : /\ Held(s)' <=> Held(s) 
                              /\ Pending(s)' <=> Pending(s)
                              /\ Returned(s)' <=> Returned(s)
        BY DEF Held, Pending, Returned
    <2>2. Alone'
        BY DEF Alone, Placed
    <2> QED
        BY <1>1, <1>2, <1>3, <2>1, <2>2 DEF Placed
<1> QED
    BY <1>4, <1>5, <1>6

LEMMA SubmitStep == ASSUME PoolInv, NEW r \in Requests, Submit(r) PROVE PoolInv'
<1>1. CASE r \in TextSearch
    <2>1. /\ UNCHANGED <<reqQ, writeQ, contQ, writerQ, future, at, hand, current, txn>>
          /\ client[r] \in {"idle", "answered"} /\ client' = [client EXCEPT ![r] = "embedding"]
        BY <1>1 DEF Submit
    <2>2. /\ client' \in [Requests -> {"idle", "embedding", "waiting", "gone", "answered"}]
          /\ \A s \in Requests : client'[s] \in {"waiting", "gone"} <=> client[s] \in {"waiting", "gone"}
        BY <2>1 DEF PoolInv, TypeOK
    <2>3. TypeOK' /\ OneWrite'
        BY <2>1, <2>2 DEF PoolInv, TypeOK, OneWrite
    <2>4. Placed'
        BY <2>1, <2>2 DEF PoolInv, Placed, Alone, Queued, Held, Pending, Returned
    <2> QED
        BY <2>3, <2>4 DEF PoolInv
<1>2. CASE r \notin TextSearch
    BY <1>2, EnqueueStep DEF Submit
<1> QED
    BY <1>1, <1>2

LEMMA PrecomputeStep == ASSUME PoolInv, NEW r \in Requests, Precompute(r) PROVE PoolInv'
<1>1. CASE Enqueue(r)
    BY <1>1, EnqueueStep DEF Precompute
<1>2. CASE client' = [client EXCEPT ![r] = "answered"] /\ UNCHANGED <<reqQ, writeQ>>
    <2>1. /\ UNCHANGED <<reqQ, writeQ, contQ, writerQ, future, at, hand, current, txn>>
          /\ client[r] = "embedding"
        BY <1>2 DEF Precompute
    <2>2. /\ client' \in [Requests -> {"idle", "embedding", "waiting", "gone", "answered"}]
          /\ \A s \in Requests : client'[s] \in {"waiting", "gone"} <=> client[s] \in {"waiting", "gone"}
        BY <1>2, <2>1 DEF PoolInv, TypeOK
    <2>3. TypeOK' /\ OneWrite'
        BY <2>1, <2>2 DEF PoolInv, TypeOK, OneWrite
    <2>4. Placed'
        BY <2>1, <2>2 DEF PoolInv, Placed, Alone, Queued, Held, Pending, Returned
    <2> QED
        BY <2>3, <2>4 DEF PoolInv
<1> QED
    BY <1>1, <1>2 DEF Precompute

(* Of the two request channels at most one has a message that is withdrawn.  *)
LEMMA DisconnectStep == ASSUME PoolInv, NEW r \in Requests, Disconnect(r) PROVE PoolInv'
<1> USE DEF PoolInv
<1> DEFINE withdrawn == AwaitsRoom(reqQ, r) \/ AwaitsRoom(writeQ, r)
<1>1. \A q : AwaitsRoom(q, r) => \E i \in DOMAIN q : q[i] = r
    BY DEF AwaitsRoom
<1>2. /\ AwaitsRoom(reqQ, r) => Contains(reqQ, r)
      /\ AwaitsRoom(writeQ, r) => Contains(writeQ, r)
    BY <1>1, LenProperties DEF TypeOK, Contains
<1>3. /\ reqQ' = Withdraw(reqQ, r) /\ writeQ' = Withdraw(writeQ, r)
      /\ UNCHANGED <<contQ, writerQ, future, at, hand, current, txn>>
      /\ client[r] \in {"embedding", "waiting"}
      /\ client' = [client EXCEPT ![r] = IF client[r] = "embedding" \/ withdrawn THEN "idle" ELSE "gone"]
    BY DEF Disconnect
<1> HIDE DEF withdrawn
<1>4. /\ reqQ' \in Seq(PlainRoutes) /\ writeQ' \in Seq(WriteRoutes)
      /\ IsInjective(reqQ') /\ IsInjective(writeQ')
      /\ \A s : Contains(reqQ', s) <=> Contains(reqQ, s) /\ ~ (s = r /\ AwaitsRoom(reqQ, r))
      /\ \A s : Contains(writeQ', s) <=> Contains(writeQ, s) /\ ~ (s = r /\ AwaitsRoom(writeQ, r))
    <2>1. ASSUME NEW S, NEW q \in Seq(S), IsInjective(q)
          PROVE  /\ Withdraw(q, r) \in Seq(S)
                 /\ IsInjective(Withdraw(q, r))
                 /\ \A s : Contains(Withdraw(q, r), s) <=> Contains(q, s) /\ ~ (s = r /\ AwaitsRoom(q, r))
        <3>1. CASE AwaitsRoom(q, r)
            BY <2>1, <3>1, WithdrawChannel
        <3>2. CASE ~AwaitsRoom(q, r)
            BY <2>1, <3>2 DEF Withdraw
        <3> QED
            BY <3>1, <3>2
    <2>2. reqQ \in Seq(PlainRoutes) /\ writeQ \in Seq(WriteRoutes) /\ IsInjective(reqQ) /\ IsInjective(writeQ)
        BY DEF TypeOK, Placed
    <2> QED
        BY <1>3, <2>1, <2>2
<1>5. \A s \in Requests : Queued(s)' <=> Queued(s) /\ ~ (s = r /\ withdrawn)
    <2>1. Contains(reqQ, r) => ~Contains(writeQ, r)
        BY Halves
    <2> QED
        BY <1>2, <1>4, <2>1 DEF Queued, withdrawn
<1>6. \A s \in Requests : /\ Held(s)' <=> Held(s) 
                          /\ Pending(s)' <=> Pending(s)
                          /\ Returned(s)' <=> Returned(s)
    BY <1>3 DEF Held, Pending, Returned
<1>7. /\ client' \in [Requests -> {"idle", "embedding", "waiting", "gone", "answered"}]
      /\ client'[r] = IF client[r] = "embedding" \/ withdrawn THEN "idle" ELSE "gone"
      /\ \A s \in Requests : s # r => client'[s] = client[s]
    BY <1>3 DEF TypeOK
<1>8. TypeOK' /\ OneWrite'
    BY <1>3, <1>4, <1>7 DEF TypeOK, OneWrite
<1>9. withdrawn => Queued(r)
    BY <1>2 DEF Queued, withdrawn
<1>10. Placed'
    <2>1. Alone'
        BY <1>3 DEF Alone, Placed
    <2>2. IsInjective(contQ') /\ IsInjective(writerQ')
        BY <1>3 DEF Placed
    <2>3. ASSUME NEW s \in Requests
          PROVE  (/\ client[s] \in {"waiting", "gone"} <=> Queued(s) \/ Held(s) \/ Pending(s) \/ Returned(s)
                  /\ Queued(s) => ~Held(s) /\ ~Pending(s) /\ ~Returned(s)
                  /\ Held(s) => ~Pending(s) /\ ~Returned(s)
                  /\ Pending(s) => ~Returned(s))'
        <3>1. CASE s = r
            BY <1>3, <1>5, <1>6, <1>7, <1>9, <3>1 DEF Placed
        <3>2. CASE s # r
            BY <1>5, <1>6, <1>7, <3>2 DEF Placed
        <3> QED
            BY <3>1, <3>2
    <2> QED
        BY <1>4, <2>1, <2>2, <2>3 DEF Placed
<1> QED
    BY <1>8, <1>10

LEMMA TakeRequestStep ==
    ASSUME PoolInv, NEW w \in Workers, TakeRequest(w), hand[w] = Idle,
           at' \in [Workers -> {"poll", "block"}],
           UNCHANGED <<client, writeQ, writerQ, future, current, txn>>
    PROVE  PoolInv'
<1> USE DEF PoolInv
<1>1. /\ reqQ # <<>> /\ contQ' = contQ
      /\ hand' = [hand EXCEPT ![w] = Doing("request", Head(reqQ))]
    BY DEF TakeRequest
<1>2. PICK r : r = Head(reqQ)
    OBVIOUS
<1>3. /\ r \in PlainRoutes /\ Contains(reqQ, r)
      /\ reqQ' \in Seq(PlainRoutes) /\ IsInjective(reqQ')
      /\ \A s : Contains(reqQ', s) <=> Contains(reqQ, s) /\ s # r
    BY <1>1, <1>2, TailChannel DEF TakeRequest, TypeOK, Placed
<1>4. r \in Requests /\ r \notin WriteRoutes /\ Queued(r) /\ w \in Threads /\ w # Writer
    BY <1>3, ThreadAssumption DEF PlainRoutes, Queued, Threads
<1>5. (\A s \in Requests : Held(s)' <=> Held(s) \/ s = r) /\ Alone'
    BY <1>1, <1>2, <1>4, Takes DEF Placed
<1>6. TypeOK'
    <2>1. /\ DOMAIN hand' = Threads /\ hand'[Writer] = hand[Writer]
          /\ \A u \in Workers : hand'[u] \in Work(PlainRoutes)
        BY <1>1, <1>2, <1>3, <1>4 DEF TypeOK, Work, Doing, Threads
    <2> QED
        BY <1>1, <1>3, <2>1 DEF TypeOK
<1>7. OneWrite'
    BY <1>1, <1>4 DEF OneWrite, TypeOK
<1>8. Placed'
    <2>1. ~Contains(writeQ, r)
        BY <1>4, Halves
    <2>2. \A s \in Requests : /\ Queued(s)' <=> Queued(s) /\ s # r
                              /\ Pending(s)' <=> Pending(s)
                              /\ Returned(s)' <=> Returned(s)
        BY <1>1, <1>3, <2>1 DEF Queued, Pending, Returned
    <2> QED
        BY <1>1, <1>3, <1>4, <1>5, <2>2 DEF Placed
<1> QED
    BY <1>6, <1>7, <1>8

LEMMA TakeContinuationStep ==
    ASSUME PoolInv, NEW w \in Workers, TakeContinuation(w), hand[w] = Idle,
           at' \in [Workers -> {"poll", "block"}],
           UNCHANGED <<client, writeQ, writerQ, future, current, txn>>
    PROVE  PoolInv'
<1> USE DEF PoolInv
<1>1. /\ contQ # <<>> /\ reqQ' = reqQ
      /\ hand' = [hand EXCEPT ![w] = Doing("closure", Head(contQ))]
    BY DEF TakeContinuation
<1>2. PICK r : r = Head(contQ)
    OBVIOUS
<1>3. /\ r \in PlainRoutes /\ Contains(contQ, r)
      /\ contQ' \in Seq(PlainRoutes) /\ IsInjective(contQ')
      /\ \A s : Contains(contQ', s) <=> Contains(contQ, s) /\ s # r
    BY <1>1, <1>2, TailChannel DEF TakeContinuation, TypeOK, Placed
<1>4. r \in Requests /\ r \notin WriteRoutes /\ Returned(r) /\ w \in Threads /\ w # Writer
    BY <1>3, ThreadAssumption DEF PlainRoutes, Returned, Threads
<1>5. (\A s \in Requests : Held(s)' <=> Held(s) \/ s = r) /\ Alone'
    BY <1>1, <1>2, <1>4, Takes DEF Placed
<1>6. TypeOK'
    <2>1. /\ DOMAIN hand' = Threads /\ hand'[Writer] = hand[Writer]
          /\ \A u \in Workers : hand'[u] \in Work(PlainRoutes)
        BY <1>1, <1>2, <1>3, <1>4 DEF TypeOK, Work, Doing, Threads
    <2> QED
        BY <1>1, <1>3, <2>1 DEF TypeOK
<1>7. OneWrite'
    BY <1>1, <1>4 DEF OneWrite, TypeOK
<1>8. Placed'
    <2>1. ~Contains(writerQ, r)
        BY <1>4, Halves
    <2>2. \A s \in Requests : /\ Returned(s)' <=> Returned(s) /\ s # r
                              /\ Pending(s)' <=> Pending(s)
                              /\ Queued(s)' <=> Queued(s)
        BY <1>1, <1>3, <2>1 DEF Queued, Pending, Returned
    <2> QED
        BY <1>1, <1>3, <1>4, <1>5, <2>2 DEF Placed
<1> QED
    BY <1>6, <1>7, <1>8

LEMMA PollStep == ASSUME PoolInv, NEW w \in Workers, Poll(w) PROVE PoolInv'
<1>1. at' \in [Workers -> {"poll", "block"}] /\ hand[w] = Idle
      /\ UNCHANGED <<client, writeQ, writerQ, future, current, txn>>
    BY DEF Poll, PoolInv, TypeOK
<1>2. CASE TakeContinuation(w)
    BY <1>1, <1>2, TakeContinuationStep
<1>3. CASE TakeRequest(w)
    BY <1>1, <1>3, TakeRequestStep
<1>4. CASE UNCHANGED <<reqQ, contQ, hand>>
    BY <1>1, <1>4 DEF PoolInv, TypeOK, OneWrite, Placed, Alone, Queued, Held, Pending, Returned
<1> QED
    BY <1>2, <1>3, <1>4 DEF Poll

LEMMA ReceiveStep == ASSUME PoolInv, NEW w \in Workers, Receive(w) PROVE PoolInv'
<1>1. at' \in [Workers -> {"poll", "block"}] /\ hand[w] = Idle
      /\ UNCHANGED <<client, writeQ, writerQ, future, current, txn>>
    BY DEF Receive, PoolInv, TypeOK
<1> QED
    BY <1>1, TakeContinuationStep, TakeRequestStep DEF Receive

LEMMA WriterReceiveStep == ASSUME PoolInv, WriterReceive PROVE PoolInv'
<1> USE DEF PoolInv
<1>1. /\ current = NoRequest /\ writeQ # <<>> /\ current' = Head(writeQ)
      /\ hand' = [hand EXCEPT ![Writer] = Doing("request", Head(writeQ))]
      /\ UNCHANGED <<client, reqQ, contQ, writerQ, future, at, txn>>
    BY DEF WriterReceive
<1>2. PICK r : r = Head(writeQ)
    OBVIOUS
<1>3. /\ r \in WriteRoutes /\ Contains(writeQ, r)
      /\ writeQ' \in Seq(WriteRoutes) /\ IsInjective(writeQ')
      /\ \A s : Contains(writeQ', s) <=> Contains(writeQ, s) /\ s # r
    BY <1>1, <1>2, TailChannel DEF WriterReceive, TypeOK, Placed
<1>4. r \in Requests /\ Queued(r) /\ Writer \in Threads
    BY <1>3, PoolAssumption DEF Queued, Threads
<1>5. hand[Writer] = Idle
    BY <1>1, <1>4, HandType DEF OneWrite
<1>6. (\A s \in Requests : Held(s)' <=> Held(s) \/ s = r) /\ Alone'
    BY <1>1, <1>2, <1>4, <1>5, Takes DEF Placed
<1>7. TypeOK'
    <2>1. /\ DOMAIN hand' = Threads /\ hand'[Writer] = Doing("request", r)
          /\ \A u \in Workers : hand'[u] = hand[u]
        BY <1>1, <1>2, ThreadAssumption DEF TypeOK, Threads
    <2>2. Doing("request", r) \in Work(WriteRoutes)
        BY <1>3 DEF Work, Doing
    <2> QED
        BY <1>1, <1>2, <1>3, <2>1, <2>2 DEF TypeOK
<1>8. OneWrite'
    <2>1. hand'[Writer].req = r
        BY <1>1, <1>2, <1>4 DEF Doing, TypeOK
    <2>2. \A s \in Requests : ~Contains(writerQ, s) /\ future[s] \notin {"writer", "sent"}
        BY <1>1, PoolAssumption DEF OneWrite
    <2> QED
        BY <1>1, <1>2, <2>1, <2>2 DEF OneWrite
<1>9. Placed'
    <2>1. ~Contains(reqQ, r)
        BY <1>3, <1>4, Halves
    <2>2. \A s \in Requests : /\ Queued(s)' <=> Queued(s) /\ s # r
                              /\ Pending(s)' <=> Pending(s)
                              /\ Returned(s)' <=> Returned(s)
        BY <1>1, <1>3, <2>1 DEF Queued, Pending, Returned
    <2> QED
        BY <1>1, <1>3, <1>4, <1>6, <2>2 DEF Placed
<1> QED
    BY <1>7, <1>8, <1>9

LEMMA WriterContinueStep == ASSUME PoolInv, WriterContinue PROVE PoolInv'
<1> USE DEF PoolInv
<1>1. /\ hand[Writer] = Idle /\ writerQ # <<>>
      /\ hand' = [hand EXCEPT ![Writer] = Doing("closure", Head(writerQ))]
      /\ UNCHANGED <<client, reqQ, writeQ, contQ, future, at, current, txn>>
    BY DEF WriterContinue
<1>2. PICK r : r = Head(writerQ)
    OBVIOUS
<1>3. /\ r \in WriteRoutes /\ Contains(writerQ, r)
      /\ writerQ' \in Seq(WriteRoutes) /\ IsInjective(writerQ')
      /\ \A s : Contains(writerQ', s) <=> Contains(writerQ, s) /\ s # r
    BY <1>1, <1>2, TailChannel DEF WriterContinue, TypeOK, Placed
<1>4. r \in Requests /\ Returned(r) /\ Writer \in Threads
    BY <1>3, PoolAssumption DEF Returned, Threads
<1>5. (\A s \in Requests : Held(s)' <=> Held(s) \/ s = r) /\ Alone'
    BY <1>1, <1>2, <1>4, Takes DEF Placed
<1>6. TypeOK'
    <2>1. /\ DOMAIN hand' = Threads /\ hand'[Writer] = Doing("closure", r)
          /\ \A u \in Workers : hand'[u] = hand[u]
        BY <1>1, <1>2, ThreadAssumption DEF TypeOK, Threads
    <2>2. Doing("closure", r) \in Work(WriteRoutes)
        BY <1>3 DEF Work, Doing
    <2> QED
        BY <1>1, <1>2, <1>3, <2>1, <2>2 DEF TypeOK
<1>7. OneWrite'
    <2>1. hand'[Writer].req = r
        BY <1>1, <1>2, <1>4 DEF Doing, TypeOK
    <2> QED
        BY <1>1, <1>3, <1>4, <2>1 DEF OneWrite
<1>8. Placed'
    <2>1. ~Contains(contQ, r)
        BY <1>3, <1>4, Halves
    <2>2. \A s \in Requests : /\ Queued(s)' <=> Queued(s)
                              /\ Pending(s)' <=> Pending(s)
                              /\ Returned(s)' <=> Returned(s) /\ s # r
        BY <1>1, <1>3, <2>1 DEF Queued, Pending, Returned
    <2> QED
        BY <1>1, <1>3, <1>4, <1>5, <2>2 DEF Placed
<1> QED
    BY <1>6, <1>7, <1>8

LEMMA WriterNextRequestStep == ASSUME PoolInv, WriterNextRequest PROVE PoolInv'
<1> USE DEF PoolInv
<1>1. /\ hand[Writer] = Idle /\ writerQ = <<>> /\ current' = NoRequest
      /\ \A r \in Requests : future[r] \notin {"writer", "sent"}
      /\ UNCHANGED <<client, reqQ, writeQ, contQ, writerQ, future, at, hand, txn>>
    BY DEF WriterNextRequest, ChannelClosed, queues
<1>2. \A r : ~Contains(writerQ, r)
    BY <1>1 DEF Contains
<1> QED
    BY <1>1, <1>2 DEF TypeOK, OneWrite, Placed, Alone, Queued, Held, Pending, Returned

LEMMA SpawnStep == ASSUME PoolInv, NEW t \in Threads, Spawn(t) PROVE PoolInv'
<1> USE DEF PoolInv
<1>1. PICK r : r = hand[t].req
    OBVIOUS
<1>2. /\ hand[t] # Idle /\ hand' = [hand EXCEPT ![t] = Idle]
      /\ future' = [future EXCEPT ![r] = IF t = Writer THEN "writer" ELSE "pool"]
      /\ UNCHANGED <<client, reqQ, writeQ, contQ, writerQ, at, current, txn>>
    BY <1>1 DEF Spawn, queues, Idle
<1>3. r \in Requests /\ (r \in WriteRoutes <=> t = Writer) /\ Held(r)
    BY <1>1, <1>2, HandType DEF Held
<1>4. (\A s \in Requests : Held(s)' <=> Held(s) /\ s # r) /\ Alone'
    BY <1>1, <1>2, Releases DEF Placed
<1>5. /\ future' \in [Requests -> {"none", "pool", "writer", "sent"}]
      /\ future'[r] = IF t = Writer THEN "writer" ELSE "pool"
      /\ \A s \in Requests : s # r => future'[s] = future[s]
    BY <1>2, <1>3 DEF TypeOK
<1>6. TypeOK'
    <2>1. /\ DOMAIN hand' = Threads
          /\ \A u \in Threads : hand'[u] = IF u = t THEN Idle ELSE hand[u]
        BY <1>2 DEF TypeOK
    <2>2. (\A w \in Workers : hand'[w] \in Work(PlainRoutes)) /\ hand'[Writer] \in Work(WriteRoutes)
        BY <2>1 DEF TypeOK, Work, Threads
    <2>3. (\A s \in WriteRoutes : future'[s] # "pool") /\ \A s \in PlainRoutes : future'[s] \in {"none", "pool"}
        BY <1>3, <1>5, PoolAssumption DEF TypeOK, PlainRoutes
    <2> QED
        BY <1>2, <1>5, <2>1, <2>2, <2>3 DEF TypeOK
<1>7. OneWrite'
    <2>1. hand'[Writer] # Idle => hand'[Writer] = hand[Writer]
        BY <1>2 DEF TypeOK, Threads
    <2>2. t = Writer => r = current
        BY <1>1, <1>2 DEF OneWrite
    <2> QED
        BY <1>2, <1>5, <2>1, <2>2 DEF OneWrite
<1>8. Placed'
    <2>1. \A s \in Requests : /\ Queued(s)' <=> Queued(s)
                              /\ Pending(s)' <=> Pending(s) \/ s = r
                              /\ Returned(s)' <=> Returned(s)
        BY <1>2, <1>5 DEF Queued, Pending, Returned
    <2> QED
        BY <1>2, <1>3, <1>4, <2>1 DEF Placed
<1> QED
    BY <1>6, <1>7, <1>8

(* A thread goes on with the request it holds.                              *)
LEMMA TurnStep ==
    ASSUME PoolInv, NEW t \in Threads, hand[t] # Idle, NEW what \in {"query", "reply"},
           hand' = [hand EXCEPT ![t] = Doing(what, hand[t].req)],
           txn' \in Threads \union {NoThread},
           UNCHANGED <<client, queues, future, at, current>>
    PROVE  PoolInv'
<1> USE DEF PoolInv
<1>1. (\A s \in Requests : Held(s)' <=> Held(s)) /\ Alone'
    BY Turns DEF Placed
<1>2. /\ DOMAIN hand' = Threads
      /\ \A u \in Threads : hand'[u] = IF u = t THEN Doing(what, hand[t].req) ELSE hand[u]
    BY DEF TypeOK
<1>3. TypeOK'
    <2>1. (\A w \in Workers : hand'[w] \in Work(PlainRoutes)) /\ hand'[Writer] \in Work(WriteRoutes)
        BY <1>2, HandType DEF TypeOK, Work, Doing, Threads, Idle
    <2> QED
        BY <1>2, <2>1 DEF TypeOK, queues
<1>4. OneWrite'
    <2>1. hand'[Writer].req = hand[Writer].req /\ (hand'[Writer] # Idle => hand[Writer] # Idle)
        BY <1>2 DEF Doing, Threads
    <2> QED
        BY <2>1 DEF OneWrite, queues
<1>5. Placed'
    <2>1. \A s \in Requests : /\ Queued(s)' <=> Queued(s)
                              /\ Pending(s)' <=> Pending(s)
                              /\ Returned(s)' <=> Returned(s)
        BY DEF Queued, Pending, Returned, queues
    <2> QED
        BY <1>1, <2>1 DEF Placed, queues
<1> QED
    BY <1>3, <1>4, <1>5

LEMMA ServeStep == ASSUME PoolInv, NEW t \in Threads, Serve(t) PROVE PoolInv'
<1>1. /\ hand[t] # Idle /\ hand' = [hand EXCEPT ![t] = Doing("reply", hand[t].req)]
      /\ txn' \in Threads \union {NoThread}
      /\ UNCHANGED <<client, queues, future, at, current>>
    BY DEF Serve, Runnable, Idle, PoolInv, TypeOK
<1> QED
    BY <1>1, TurnStep

LEMMA BeginStep == ASSUME PoolInv, NEW t \in Threads, Begin(t) PROVE PoolInv'
<1>1. /\ hand[t] # Idle /\ hand' = [hand EXCEPT ![t] = Doing("query", hand[t].req)]
      /\ txn' \in Threads \union {NoThread}
      /\ UNCHANGED <<client, queues, future, at, current>>
    BY DEF Begin, Runnable, Idle, PoolInv, TypeOK
<1> QED
    BY <1>1, TurnStep

LEMMA CommitStep == ASSUME PoolInv, NEW t \in Threads, Commit(t) PROVE PoolInv'
<1>1. /\ hand[t] # Idle /\ hand' = [hand EXCEPT ![t] = Doing("reply", hand[t].req)]
      /\ txn' \in Threads \union {NoThread}
      /\ UNCHANGED <<client, queues, future, at, current>>
    BY DEF Commit, Idle, PoolInv, TypeOK
<1> QED
    BY <1>1, TurnStep

LEMMA ReplyStep == ASSUME PoolInv, NEW t \in Threads, Reply(t) PROVE PoolInv'
<1> USE DEF PoolInv
<1>1. PICK r : r = hand[t].req
    OBVIOUS
<1>2. /\ hand[t] # Idle /\ hand' = [hand EXCEPT ![t] = Idle]
      /\ client' = [client EXCEPT ![r] = IF client[r] = "gone" THEN "idle" ELSE "answered"]
      /\ UNCHANGED <<reqQ, writeQ, contQ, writerQ, future, at, current, txn>>
    BY <1>1 DEF Reply, queues, Idle
<1>3. r \in Requests /\ Held(r)
    BY <1>1, <1>2, HandType DEF Held
<1>4. (\A s \in Requests : Held(s)' <=> Held(s) /\ s # r) /\ Alone'
    BY <1>1, <1>2, Releases DEF Placed
<1>5. /\ client' \in [Requests -> {"idle", "embedding", "waiting", "gone", "answered"}]
      /\ client'[r] \in {"idle", "answered"}
      /\ \A s \in Requests : s # r => client'[s] = client[s]
    BY <1>2, <1>3 DEF TypeOK
<1>6. /\ DOMAIN hand' = Threads
      /\ \A u \in Threads : hand'[u] = IF u = t THEN Idle ELSE hand[u]
    BY <1>2 DEF TypeOK
<1>7. TypeOK'
    <2>1. (\A w \in Workers : hand'[w] \in Work(PlainRoutes)) /\ hand'[Writer] \in Work(WriteRoutes)
        BY <1>6 DEF TypeOK, Work, Threads
    <2> QED
        BY <1>2, <1>5, <1>6, <2>1 DEF TypeOK
<1>8. OneWrite'
    <2>1. hand'[Writer] # Idle => hand'[Writer] = hand[Writer]
        BY <1>6 DEF Threads
    <2> QED
        BY <1>2, <2>1 DEF OneWrite
<1>9. Placed'
    <2>1. \A s \in Requests : /\ Queued(s)' <=> Queued(s)
                              /\ Pending(s)' <=> Pending(s)
                              /\ Returned(s)' <=> Returned(s)
        BY <1>2 DEF Queued, Pending, Returned
    <2> QED
        BY <1>2, <1>3, <1>4, <1>5, <2>1 DEF Placed
<1> QED
    BY <1>7, <1>8, <1>9

LEMMA EmbeddedStep == ASSUME PoolInv, NEW r \in Requests, Embedded(r) PROVE PoolInv'
<1> USE DEF PoolInv
<1>1. UNCHANGED <<client, reqQ, writeQ, at, hand, current, txn>> /\ Pending(r)
    BY DEF Embedded, Pending
<1>2. ~Queued(r) /\ ~Held(r) /\ ~Returned(r)
    BY <1>1 DEF Placed
<1>3. /\ contQ' \in Seq(PlainRoutes) /\ writerQ' \in Seq(WriteRoutes)
      /\ IsInjective(contQ') /\ IsInjective(writerQ')
      /\ \A s \in Requests : Returned(s)' <=> Returned(s) \/ s = r
      /\ \A s \in Requests : Contains(writerQ', s) => Contains(writerQ, s) \/ (s = r /\ future[r] = "writer")
    <2>1. CASE future[r] = "pool"
        <3>1. contQ' = Append(contQ, r) /\ writerQ' = writerQ /\ contQ \in Seq(PlainRoutes) /\ r \in PlainRoutes
            BY <2>1 DEF Embedded, TypeOK, PlainRoutes
        <3>2. IsInjective(contQ) /\ ~Contains(contQ, r)
            BY <1>2 DEF Placed, Returned
        <3>3. /\ contQ' \in Seq(PlainRoutes) /\ IsInjective(contQ')
              /\ \A s : Contains(contQ', s) <=> Contains(contQ, s) \/ s = r
            BY <3>1, <3>2, AppendChannel
        <3> QED
            BY <3>1, <3>3 DEF Returned, TypeOK, Placed
    <2>2. CASE future[r] = "writer"
        <3>1. writerQ' = Append(writerQ, r) /\ contQ' = contQ /\ writerQ \in Seq(WriteRoutes) /\ r \in WriteRoutes
            BY <2>2 DEF Embedded, TypeOK, PlainRoutes
        <3>2. IsInjective(writerQ) /\ ~Contains(writerQ, r)
            BY <1>2 DEF Placed, Returned
        <3>3. /\ writerQ' \in Seq(WriteRoutes) /\ IsInjective(writerQ')
              /\ \A s : Contains(writerQ', s) <=> Contains(writerQ, s) \/ s = r
            BY <3>1, <3>2, AppendChannel
        <3> QED
            BY <2>2, <3>1, <3>3 DEF Returned, TypeOK, Placed
    <2> QED
        BY <2>1, <2>2 DEF Embedded
<1>4. /\ future' \in [Requests -> {"none", "pool", "writer", "sent"}]
      /\ future'[r] = IF future[r] = "writer" THEN "sent" ELSE "none"
      /\ \A s \in Requests : s # r => future'[s] = future[s]
    BY DEF Embedded, TypeOK
<1>5. TypeOK'
    <2>1. (\A s \in WriteRoutes : future'[s] # "pool") /\ \A s \in PlainRoutes : future'[s] \in {"none", "pool"}
        BY <1>4, PoolAssumption DEF TypeOK, PlainRoutes
    <2> QED
        BY <1>1, <1>3, <1>4, <2>1 DEF TypeOK
<1>6. OneWrite'
    BY <1>1, <1>3, <1>4 DEF OneWrite
<1>7. Placed'
    <2>1. \A s \in Requests : /\ Queued(s)' <=> Queued(s)
                              /\ Held(s)' <=> Held(s)
                              /\ Pending(s)' <=> Pending(s) /\ s # r
        BY <1>1, <1>4 DEF Queued, Held, Pending
    <2>2. Alone'
        BY <1>1 DEF Placed, Alone
    <2> QED
        BY <1>1, <1>2, <1>3, <2>1, <2>2 DEF Placed
<1> QED
    BY <1>5, <1>6, <1>7

LEMMA FutureEndsStep == ASSUME PoolInv, NEW r \in Requests, FutureEnds(r) PROVE PoolInv'
<1> USE DEF PoolInv
<1>1. UNCHANGED <<client, reqQ, writeQ, contQ, writerQ, at, hand, current, txn>> /\ future[r] = "sent"
    BY DEF FutureEnds, queues
<1>2. /\ future' \in [Requests -> {"none", "pool", "writer", "sent"}]
      /\ future'[r] = "none" /\ \A s \in Requests : s # r => future'[s] = future[s]
    BY DEF FutureEnds, TypeOK
<1>3. TypeOK'
    BY <1>1, <1>2, PoolAssumption DEF TypeOK, PlainRoutes
<1>4. OneWrite'
    BY <1>1, <1>2 DEF OneWrite
<1>5. Placed'
    <2>1. \A s \in Requests : /\ Queued(s)' <=> Queued(s)
                              /\ Held(s)' <=> Held(s)
                              /\ Pending(s)' <=> Pending(s)
                              /\ Returned(s)' <=> Returned(s)
        BY <1>1, <1>2 DEF Queued, Held, Pending, Returned
    <2> QED
        BY <1>1, <2>1 DEF Placed, Alone
<1> QED
    BY <1>3, <1>4, <1>5

LEMMA NextPool == PoolInv /\ [Next]_vars => PoolInv'
<1> SUFFICES ASSUME PoolInv, [Next]_vars PROVE PoolInv'
    OBVIOUS
<1>1. ASSUME NEW r \in Requests, Submit(r) \/ Precompute(r) \/ Disconnect(r) PROVE PoolInv'
    BY <1>1, SubmitStep, PrecomputeStep, DisconnectStep
<1>2. ASSUME NEW t \in Threads, ThreadStep(t) PROVE PoolInv'
    BY <1>2, PollStep, ReceiveStep, WriterReceiveStep, WriterContinueStep, WriterNextRequestStep,
       SpawnStep, ServeStep, BeginStep, CommitStep, ReplyStep DEF ThreadStep
<1>3. ASSUME NEW r \in Requests, Embedded(r) \/ FutureEnds(r) PROVE PoolInv'
    BY <1>3, EmbeddedStep, FutureEndsStep
<1>4. CASE UNCHANGED vars
    BY <1>4 DEF vars, PoolInv, TypeOK, OneWrite, Placed, Alone, Queued, Held, Pending, Returned
<1> QED
    BY <1>1, <1>2, <1>3, <1>4 DEF Next

(* A request of a write route is only ever with the writer, its channels     *)
(* and its futures, any other with the pool, and the writer works on one     *)
(* request at a time, to the end of its embedding.                          *)
THEOREM HalvesApart == Spec => [](TypeOK /\ OneWrite)
<1>1. Init => PoolInv
    BY InitPool
<1>2. PoolInv /\ [Next]_vars => PoolInv'
    BY NextPool
<1>3. PoolInv => TypeOK /\ OneWrite
    BY DEF PoolInv
<1> QED
    BY <1>1, <1>2, <1>3, PTL DEF Spec

-----------------------------------------------------------------------------
(* No request is lost or doubled.                                           *)

LEMMA PlacesFound == ASSUME PoolInv PROVE NothingLost
<1> USE DEF PoolInv
<1> SUFFICES ASSUME NEW r \in Requests
             PROVE  IF client[r] \in {"waiting", "gone"}
                    THEN \E p \in Places(r) : Places(r) = {p}
                    ELSE Places(r) = {}
    BY DEF NothingLost
<1> DEFINE At(name, q) == {<<name, i>> : i \in {j \in DOMAIN q : q[j] = r}}
           Hands == {<<"hand", t>> : t \in {u \in Threads : hand[u].req = r}}
           Futures == IF future[r] \in {"pool", "writer"} THEN {<<"future", r>>} ELSE {}
<1>1. Places(r) = At("requests", reqQ) \union At("writes", writeQ) \union At("continuations", contQ)
                     \union At("writer", writerQ) \union Hands \union Futures
    BY DEF Places
<1>2. ASSUME NEW name, NEW S, NEW q \in Seq(S), IsInjective(q)
      PROVE  /\ ~Contains(q, r) => At(name, q) = {}
             /\ Contains(q, r) => \E p : At(name, q) = {p}
    <2>1. DOMAIN q = 1 .. Len(q)
        BY LenProperties
    <2>2. ASSUME ~Contains(q, r) PROVE At(name, q) = {}
        BY <2>1, <2>2 DEF Contains
    <2>3. ASSUME Contains(q, r) PROVE \E p : At(name, q) = {p}
        <3>1. PICK i \in DOMAIN q : q[i] = r
            BY <2>1, <2>3 DEF Contains
        <3>2. {j \in DOMAIN q : q[j] = r} = {i}
            BY <1>2, <3>1 DEF IsInjective
        <3>3. At(name, q) = {<<name, i>>}
            BY <3>2
        <3> QED
            BY <3>3
    <2> QED
        BY <2>2, <2>3
<1>3. (~Held(r) => Hands = {}) /\ (Held(r) => \E p : Hands = {p})
    <2>1. ASSUME ~Held(r) PROVE Hands = {}
        BY <2>1 DEF Held
    <2>2. ASSUME Held(r) PROVE \E p : Hands = {p}
        <3>1. PICK t \in Threads : hand[t].req = r
            BY <2>2 DEF Held
        <3>2. {u \in Threads : hand[u].req = r} = {t}
            BY <3>1, HandType DEF Placed, Alone
        <3>3. Hands = {<<"hand", t>>}
            BY <3>2
        <3> QED
            BY <3>3
    <2> QED
        BY <2>1, <2>2
<1>4. (~Pending(r) => Futures = {}) /\ (Pending(r) => \E p : Futures = {p})
    BY DEF Pending
<1>5. /\ ~Contains(reqQ, r) => At("requests", reqQ) = {}
      /\ Contains(reqQ, r) => \E p : At("requests", reqQ) = {p}
    BY ZenonT(60), <1>2 DEF TypeOK, Placed
<1>6. /\ ~Contains(writeQ, r) => At("writes", writeQ) = {}
      /\ Contains(writeQ, r) => \E p : At("writes", writeQ) = {p}
    BY ZenonT(60), <1>2 DEF TypeOK, Placed
<1>7. /\ ~Contains(contQ, r) => At("continuations", contQ) = {}
      /\ Contains(contQ, r) => \E p : At("continuations", contQ) = {p}
    BY ZenonT(60), <1>2 DEF TypeOK, Placed
<1>8. /\ ~Contains(writerQ, r) => At("writer", writerQ) = {}
      /\ Contains(writerQ, r) => \E p : At("writer", writerQ) = {p}
    BY ZenonT(60), <1>2 DEF TypeOK, Placed
<1> HIDE DEF At, Hands, Futures
<1>9. (Contains(reqQ, r) => ~Contains(writeQ, r)) /\ (Contains(contQ, r) => ~Contains(writerQ, r))
    BY Halves
<1>10. CASE client[r] \in {"waiting", "gone"}
    <2>1. \E p : Places(r) = {p}
        <3>1. CASE Queued(r)
            BY <1>1, <1>3, <1>4, <1>5, <1>6, <1>7, <1>8, <1>9, <3>1 DEF Placed, Queued, Returned
        <3>2. CASE Held(r)
            BY <1>1, <1>3, <1>4, <1>5, <1>6, <1>7, <1>8, <3>2 DEF Placed, Queued, Returned
        <3>3. CASE Pending(r)
            BY <1>1, <1>3, <1>4, <1>5, <1>6, <1>7, <1>8, <3>3 DEF Placed, Queued, Returned
        <3>4. CASE Returned(r)
            BY <1>1, <1>3, <1>4, <1>5, <1>6, <1>7, <1>8, <1>9, <3>4 DEF Placed, Queued, Returned
        <3> QED
            BY <1>10, <3>1, <3>2, <3>3, <3>4 DEF Placed
    <2> QED
        BY <1>10, <2>1
<1>11. CASE client[r] \notin {"waiting", "gone"}
    <2>1. ~Queued(r) /\ ~Held(r) /\ ~Pending(r) /\ ~Returned(r)
        BY <1>11 DEF Placed
    <2>2. Places(r) = {}
        BY <1>1, <1>3, <1>4, <1>5, <1>6, <1>7, <1>8, <2>1 DEF Queued, Returned
    <2> QED
        BY <1>11, <2>2
<1> QED
    BY <1>10, <1>11

(* Every request that a client waits for, or has left behind, is in exactly *)
(* one channel, thread or future, and what was withdrawn or answered is in   *)
(* none: whatever the interleaving of clients, workers, writer and futures.  *)
THEOREM NoRequestLost == Spec => []NothingLost
<1>1. Init => PoolInv
    BY InitPool
<1>2. PoolInv /\ [Next]_vars => PoolInv'
    BY NextPool
<1>3. PoolInv => NothingLost
    BY PlacesFound
<1> QED
    BY <1>1, <1>2, <1>3, PTL DEF Spec

-----------------------------------------------------------------------------
(* The pool implements the service.                                         *)

(* The messages that are in a channel, and not with senders.                *)
Accepted(q) == [i \in DOMAIN q \intersect 1 .. Capacity |-> q[i]]

Working(r) == \E t \in Threads : hand[t].req = r /\ hand[t].does # "reply"
Replying(r) == \E t \in Threads : hand[t] = Doing("reply", r)
Owed(r) == InWork(r) \/ InChannel(reqQ, r) \/ InChannel(writeQ, r)
Underway == IF current # NoRequest /\ InWork(current) THEN <<current>> ELSE <<>>

LEMMA AcceptedProperties ==
    ASSUME NEW S, NEW q \in Seq(S)
    PROVE  /\ Accepted(q) \in Seq(S)
           /\ Len(Accepted(q)) = IF Len(q) <= Capacity THEN Len(q) ELSE Capacity
           /\ \A i \in 1 .. Len(Accepted(q)) : Accepted(q)[i] = q[i]
<1> DEFINE n == IF Len(q) <= Capacity THEN Len(q) ELSE Capacity
<1>1. /\ Len(q) \in Nat /\ DOMAIN q = 1 .. Len(q) /\ q \in [1 .. Len(q) -> S]
      /\ Capacity \in Nat \ {0}
    BY LenProperties, PoolAssumption
<1>2. n \in Nat /\ (DOMAIN q \intersect 1 .. Capacity) = 1 .. n
    BY <1>1
<1>3. Accepted(q) \in [1 .. n -> S] /\ \A i \in 1 .. n : Accepted(q)[i] = q[i]
    BY <1>1, <1>2 DEF Accepted
<1> HIDE DEF n
<1>4. Accepted(q) \in Seq(S)
    BY <1>2, <1>3, SeqDef
<1>5. Len(Accepted(q)) = n
    BY <1>2, <1>3, <1>4, LenProperties
<1> QED
    BY <1>3, <1>4, <1>5 DEF n

LEMMA AcceptedAppend ==
    ASSUME NEW S, NEW q \in Seq(S), NEW r \in S
    PROVE  /\ Accepted(Append(q, r)) = IF Len(q) < Capacity THEN Append(Accepted(q), r) ELSE Accepted(q)
           /\ \A s : InChannel(Append(q, r), s) <=> InChannel(q, s) \/ (s = r /\ Len(q) < Capacity)
<1> DEFINE p == Append(q, r)
<1>1. /\ p \in Seq(S) /\ Len(p) = Len(q) + 1 /\ Len(q) \in Nat
      /\ \A i \in 1 .. Len(q) : p[i] = q[i]
      /\ p[Len(q) + 1] = r
      /\ DOMAIN p = 1 .. Len(p) /\ DOMAIN q = 1 .. Len(q)
      /\ Capacity \in Nat \ {0}
    BY AppendProperties, LenProperties, PoolAssumption
<1> HIDE DEF p
<1> DEFINE f == Accepted(p)
           g == Accepted(q)
<1>2. /\ f \in Seq(S) /\ Len(f) = (IF Len(p) <= Capacity THEN Len(p) ELSE Capacity)
      /\ \A i \in 1 .. Len(f) : f[i] = p[i]
      /\ g \in Seq(S) /\ Len(g) = (IF Len(q) <= Capacity THEN Len(q) ELSE Capacity)
      /\ \A i \in 1 .. Len(g) : g[i] = q[i]
    BY <1>1, AcceptedProperties
<1> HIDE DEF f, g
<1>3. CASE Len(q) < Capacity
    <2> DEFINE h == Append(g, r)
    <2>1. /\ h \in Seq(S) /\ Len(h) = Len(g) + 1 /\ h[Len(g) + 1] = r
          /\ \A i \in 1 .. Len(g) : h[i] = g[i]
        BY <1>2, AppendProperties
    <2> HIDE DEF h
    <2>2. Len(f) = Len(h) /\ \A i \in 1 .. Len(f) : f[i] = h[i]
        BY <1>1, <1>2, <1>3, <2>1
    <2>3. f = h
        BY <1>2, <2>1, <2>2, SeqEqual
    <2>4. \A s : InChannel(p, s) <=> InChannel(q, s) \/ s = r
        BY <1>1, <1>3 DEF InChannel
    <2> QED
        BY <1>3, <2>3, <2>4 DEF p, f, g, h
<1>4. CASE ~ (Len(q) < Capacity)
    <2>1. Len(f) = Len(g) /\ \A i \in 1 .. Len(f) : f[i] = g[i]
        BY <1>1, <1>2, <1>4
    <2>2. f = g
        BY <1>2, <2>1, SeqEqual
    <2>3. \A s : InChannel(p, s) <=> InChannel(q, s)
        BY <1>1, <1>4 DEF InChannel
    <2> QED
        BY <1>4, <2>2, <2>3 DEF p, f, g
<1> QED
    BY <1>3, <1>4

(* Taking a message lets the first sender that awaits room into the channel.*)
LEMMA AcceptedTail ==
    ASSUME NEW S, NEW q \in Seq(S), q # <<>>, IsInjective(q)
    PROVE  /\ InChannel(q, Head(q))
           /\ Len(q) <= Capacity =>
                 /\ <<Head(q)>> \o Accepted(Tail(q)) = Accepted(q)
                 /\ \A s : InChannel(Tail(q), s) <=> InChannel(q, s) /\ s # Head(q)
           /\ Len(q) > Capacity => \E x \in S :
                 /\ Contains(q, x) /\ ~InChannel(q, x) /\ x # Head(q)
                 /\ <<Head(q)>> \o Accepted(Tail(q)) = Append(Accepted(q), x)
                 /\ \A s : InChannel(Tail(q), s) <=> (InChannel(q, s) /\ s # Head(q)) \/ s = x
<1> DEFINE p == Tail(q)
<1>1. /\ p \in Seq(S) /\ Len(p) = Len(q) - 1 /\ Len(q) \in Nat \ {0}
      /\ \A i \in 1 .. Len(p) : p[i] = q[i + 1]
      /\ \A i \in 1 .. Len(q) : q[i] \in S
      /\ DOMAIN p = 1 .. Len(p) /\ DOMAIN q = 1 .. Len(q)
      /\ Capacity \in Nat \ {0}
    BY HeadTailProperties, LenProperties, EmptySeq, ElementOfSeq, PoolAssumption
<1>2. PICK a : a = Head(q) /\ a = q[1] /\ a \in S
    BY <1>1
<1> HIDE DEF p
<1> DEFINE f == Accepted(p)
           g == Accepted(q)
           c == <<a>> \o f
<1>3. /\ f \in Seq(S) /\ Len(f) = (IF Len(p) <= Capacity THEN Len(p) ELSE Capacity)
      /\ \A i \in 1 .. Len(f) : f[i] = p[i]
      /\ g \in Seq(S) /\ Len(g) = (IF Len(q) <= Capacity THEN Len(q) ELSE Capacity)
      /\ \A i \in 1 .. Len(g) : g[i] = q[i]
    BY <1>1, AcceptedProperties
<1>4. <<a>> \in Seq(S) /\ Len(<<a>>) = 1 /\ <<a>>[1] = a
    BY <1>2
<1> HIDE DEF f, g
<1>5. /\ c \in Seq(S) /\ Len(c) = Len(f) + 1
      /\ \A i \in 1 .. Len(f) + 1 : c[i] = IF i <= 1 THEN <<a>>[i] ELSE f[i - 1]
    <2>1. /\ c \in Seq(S) /\ Len(c) = Len(<<a>>) + Len(f)
          /\ \A i \in 1 .. Len(<<a>>) + Len(f) :
                c[i] = IF i <= Len(<<a>>) THEN <<a>>[i] ELSE f[i - Len(<<a>>)]
        BY <1>3, <1>4, ConcatProperties
    <2>2. Len(f) \in Nat
        BY <1>3, LenProperties
    <2> HIDE DEF c
    <2> QED
        BY <1>4, <2>1, <2>2
<1> HIDE DEF c
<1>6. \A i \in 1 .. Len(c) : c[i] = q[i]
    <2> SUFFICES ASSUME NEW i \in 1 .. Len(c) PROVE c[i] = q[i]
        OBVIOUS
    <2>1. CASE i = 1
        BY <1>1, <1>2, <1>3, <1>4, <1>5, <2>1
    <2>2. CASE i # 1
        <3>1. i - 1 \in 1 .. Len(f) /\ i \in 1 .. Len(f) + 1 /\ ~ (i <= 1)
            BY <1>1, <1>3, <1>5, <2>2
        <3>2. c[i] = f[i - 1] /\ f[i - 1] = p[i - 1] /\ i - 1 \in 1 .. Len(p)
            BY <1>1, <1>3, <1>5, <3>1
        <3> QED
            BY <1>1, <3>1, <3>2
    <2> QED
        BY <2>1, <2>2
<1>7. InChannel(q, a)
    BY <1>1, <1>2 DEF InChannel
<1>8. \A m, n \in 1 .. Len(q) : q[m] = q[n] => m = n
    BY <1>1 DEF IsInjective
<1>9. ASSUME Len(q) <= Capacity
      PROVE  c = g /\ \A s : InChannel(p, s) <=> InChannel(q, s) /\ s # a
    <2>1. Len(c) = Len(g) /\ \A i \in 1 .. Len(c) : c[i] = g[i]
        BY <1>1, <1>3, <1>5, <1>6, <1>9
    <2>2. c = g
        BY <1>3, <1>5, <2>1, SeqEqual
    <2>3. \A s : InChannel(p, s) <=> Contains(p, s)
        BY <1>1, <1>9 DEF InChannel, Contains
    <2>4. \A s : InChannel(q, s) <=> Contains(q, s)
        BY <1>1, <1>9 DEF InChannel, Contains
    <2>5. \A s : Contains(p, s) <=> Contains(q, s) /\ s # a
        BY <1>2, TailChannel DEF p
    <2> QED
        BY <2>2, <2>3, <2>4, <2>5
<1>10. ASSUME Len(q) > Capacity
       PROVE  \E x \in S : /\ Contains(q, x) /\ ~InChannel(q, x) /\ x # a
                           /\ c = Append(g, x)
                           /\ \A s : InChannel(p, s) <=> (InChannel(q, s) /\ s # a) \/ s = x
    <2>1. Capacity + 1 \in 1 .. Len(q)
        BY <1>1, <1>10
    <2>2. PICK x \in S : x = q[Capacity + 1]
        BY <1>1, <2>1
    <2>3. Contains(q, x) /\ ~InChannel(q, x) /\ x # a
        BY <1>1, <1>2, <1>8, <2>1, <2>2 DEF Contains, InChannel
    <2> DEFINE h == Append(g, x)
    <2>4. /\ h \in Seq(S) /\ Len(h) = Len(g) + 1 /\ h[Len(g) + 1] = x
          /\ \A i \in 1 .. Len(g) : h[i] = g[i]
        <3>1. g \in Seq(S)
            BY <1>3
        <3> QED
            BY <3>1, AppendProperties
    <2> HIDE DEF h
    <2>5. Len(c) = Len(h) /\ \A i \in 1 .. Len(c) : c[i] = h[i]
        BY <1>1, <1>3, <1>5, <1>6, <1>10, <2>2, <2>4
    <2>6. c = h
        BY <1>5, <2>4, <2>5, SeqEqual
    <2>7. ASSUME NEW s, InChannel(p, s) PROVE (InChannel(q, s) /\ s # a) \/ s = x
        <3>1. PICK i \in 1 .. Len(p) : i <= Capacity /\ p[i] = s
            BY <1>1, <2>7 DEF InChannel
        <3>2. i + 1 \in 1 .. Len(q) /\ q[i + 1] = s /\ i + 1 # 1
            BY <1>1, <3>1
        <3>3. s # a
            BY <1>1, <1>2, <1>8, <3>2
        <3>4. i + 1 <= Capacity \/ i + 1 = Capacity + 1
            BY <1>1, <3>1
        <3> QED
            BY <1>1, <2>2, <3>2, <3>3, <3>4 DEF InChannel
    <2>8. ASSUME NEW s, InChannel(q, s), s # a PROVE InChannel(p, s)
        <3>1. PICK i \in 1 .. Len(q) : i <= Capacity /\ q[i] = s
            BY <1>1, <2>8 DEF InChannel
        <3>2. i - 1 \in 1 .. Len(p) /\ i - 1 <= Capacity /\ p[i - 1] = s
            BY <1>1, <1>2, <2>8, <3>1
        <3> QED
            BY <1>1, <3>2 DEF InChannel
    <2>9. InChannel(p, x)
        <3>1. Capacity \in 1 .. Len(p) /\ p[Capacity] = x
            BY <1>1, <2>1, <2>2
        <3> QED
            BY <1>1, <3>1 DEF InChannel
    <2> QED
        BY <2>3, <2>6, <2>7, <2>8, <2>9 DEF h
<1> QED
    BY <1>2, <1>7, <1>9, <1>10 DEF p, f, g, c

LEMMA AcceptedWithdraw ==
    ASSUME NEW S, NEW q \in Seq(S), NEW r, IsInjective(q)
    PROVE  /\ Accepted(Withdraw(q, r)) = Accepted(q)
           /\ \A s : InChannel(Withdraw(q, r), s) <=> InChannel(q, s)
<1>1. CASE ~AwaitsRoom(q, r)
    BY <1>1 DEF Withdraw
<1>2. CASE AwaitsRoom(q, r)
    <2>1. PICK k \in 1 .. Len(q) : k > Capacity /\ Withdraw(q, r) = RemoveAt(q, k)
        BY <1>2, WithdrawChannel
    <2> DEFINE p == RemoveAt(q, k)
    <2>2. /\ p \in Seq(S) /\ Len(p) = Len(q) - 1
          /\ \A i \in 1 .. Len(q) - 1 : p[i] = IF i < k THEN q[i] ELSE q[i + 1]
        BY RemoveProperties
    <2>3. /\ DOMAIN p = 1 .. Len(p) /\ DOMAIN q = 1 .. Len(q) /\ Len(q) \in Nat
          /\ Capacity \in Nat \ {0}
        BY <2>2, LenProperties, PoolAssumption
    <2> HIDE DEF p
    <2>4. Len(q) > Capacity /\ Len(p) >= Capacity /\ \A i \in 1 .. Capacity : p[i] = q[i]
        BY <2>1, <2>2, <2>3
    <2>5. (DOMAIN p \intersect 1 .. Capacity) = 1 .. Capacity /\ (DOMAIN q \intersect 1 .. Capacity) = 1 .. Capacity
        BY <2>2, <2>3, <2>4
    <2>6. Accepted(p) = Accepted(q)
        BY <2>4, <2>5 DEF Accepted
    <2>7. \A s : InChannel(p, s) <=> InChannel(q, s)
        BY <2>3, <2>4 DEF InChannel
    <2> QED
        BY <2>1, <2>6, <2>7 DEF p
<1> QED
    BY <1>1, <1>2

LEMMA HandWorks ==
    ASSUME TypeOK, Alone, NEW t \in Threads, NEW h \in Work(Requests), hand' = [hand EXCEPT ![t] = h]
    PROVE  \A s \in Requests :
              /\ Working(s)' <=> (Working(s) /\ s # hand[t].req) \/ (h.req = s /\ h.does # "reply")
              /\ Replying(s)' <=> (Replying(s) /\ s # hand[t].req) \/ h = Doing("reply", s)
<1>1. hand'[t] = h /\ \A u \in Threads : u # t => hand'[u] = hand[u]
    BY DEF TypeOK
<1>2. \A u \in Threads : u # t /\ hand[u].req \in Requests => hand[u].req # hand[t].req
    BY HandType DEF Alone
<1> SUFFICES ASSUME NEW s \in Requests
             PROVE /\ Working(s)' <=> (Working(s) /\ s # hand[t].req) \/ (h.req = s /\ h.does # "reply")
                   /\ Replying(s)' <=> (Replying(s) /\ s # hand[t].req) \/ h = Doing("reply", s)
    OBVIOUS
<1>3. (\E u \in Threads : hand'[u].req = s /\ hand'[u].does # "reply")
        <=> (Working(s) /\ s # hand[t].req) \/ (h.req = s /\ h.does # "reply")
    BY <1>1, <1>2 DEF Working
<1>4. (\E u \in Threads : hand'[u] = Doing("reply", s))
        <=> (Replying(s) /\ s # hand[t].req) \/ h = Doing("reply", s)
    BY <1>1, <1>2 DEF Replying, Doing
<1> QED
    BY <1>3, <1>4 DEF Working, Replying

(* What PoolInv says of a request, by phase.                                *)
LEMMA PhaseFacts ==
    ASSUME PoolInv, NEW r \in Requests
    PROVE  /\ Held(r) <=> Working(r) \/ Replying(r)
           /\ Replying(r) => ~Owed(r)
           /\ InChannel(reqQ, r) => Contains(reqQ, r)
           /\ InChannel(writeQ, r) => Contains(writeQ, r)
           /\ InWork(r) <=> Working(r) \/ Pending(r) \/ Returned(r)
           /\ Owed(r) => Queued(r) \/ Held(r) \/ Pending(r) \/ Returned(r)
<1> USE DEF PoolInv
<1>1. Held(r) <=> Working(r) \/ Replying(r)
    <2>1. ASSUME NEW t \in Threads
          PROVE  hand[t] = Doing("reply", r) <=> hand[t].req = r /\ hand[t].does = "reply"
        <3>1. hand[t] \in Work(WriteRoutes) \/ hand[t] \in Work(PlainRoutes)
            BY HandType
        <3> QED
            BY <3>1 DEF Work, Doing, Idle
    <2> QED
        BY <2>1 DEF Held, Working, Replying
<1>2. /\ InChannel(reqQ, r) => Contains(reqQ, r)
      /\ InChannel(writeQ, r) => Contains(writeQ, r)
    <2>1. DOMAIN reqQ = 1 .. Len(reqQ) /\ DOMAIN writeQ = 1 .. Len(writeQ)
        BY LenProperties DEF TypeOK
    <2> QED
        BY <2>1 DEF InChannel, Contains
<1>3. Replying(r) => ~Working(r)
    <2>1. \A t \in Threads : hand[t].req = r => hand[t] # Idle
        BY HandType
    <2> QED
        BY <2>1 DEF Placed, Alone, Working, Replying, Doing
<1>4. InWork(r) <=> Working(r) \/ Pending(r) \/ Returned(r)
    BY DEF InWork, Working, Pending, Returned
<1>5. Replying(r) => ~Owed(r)
    BY <1>1, <1>2, <1>3, <1>4 DEF Placed, Owed, Queued
<1>6. Owed(r) => Queued(r) \/ Held(r) \/ Pending(r) \/ Returned(r)
    BY <1>1, <1>2, <1>4 DEF Owed, Queued
<1> QED
    BY <1>1, <1>2, <1>4, <1>5, <1>6

(* Only what the writer works on can be under way.                          *)
LEMMA OrderOf ==
    ASSUME TypeOK
    PROVE  /\ Order = Underway \o Accepted(writeQ)
           /\ Underway \in Seq(WriteRoutes)
           /\ Accepted(writeQ) \in Seq(WriteRoutes)
<1>1. Order = Underway \o Accepted(writeQ)
    BY DEF Order, Underway, Accepted
<1>2. Underway \in Seq(WriteRoutes)
    <2>1. <<>> \in Seq(WriteRoutes)
        BY EmptySeq
    <2>2. ASSUME NEW r \in WriteRoutes PROVE <<r>> \in Seq(WriteRoutes)
        OBVIOUS
    <2> QED
        BY <2>1, <2>2 DEF Underway, TypeOK
<1>3. Accepted(writeQ) \in Seq(WriteRoutes)
    BY AcceptedProperties DEF TypeOK
<1> QED
    BY <1>1, <1>2, <1>3

(* How phases change when those of the other requests do not.               *)
LEMMA PhaseChange ==
    ASSUME NEW r \in Requests,
           \A s \in Requests : s # r => /\ Replying(s)' <=> Replying(s)
                                        /\ Owed(s)' <=> Owed(s)
    PROVE  Phase' = [Phase EXCEPT ![r] = IF Replying(r)' THEN "performed"
                                         ELSE IF Owed(r)' THEN "accepted" ELSE "new"]
<1>1. Phase = [s \in Requests |-> IF Replying(s) THEN "performed"
                                  ELSE IF Owed(s) THEN "accepted" ELSE "new"]
    BY DEF Phase, Replying, Owed
<1>2. Phase' = [s \in Requests |-> IF Replying(s)' THEN "performed"
                                   ELSE IF Owed(s)' THEN "accepted" ELSE "new"]
    BY DEF Phase, Replying, Owed
<1> QED
    BY <1>1, <1>2

LEMMA PhaseKept ==
    ASSUME \A s \in Requests : (Replying(s)' <=> Replying(s)) /\ (Owed(s)' <=> Owed(s))
    PROVE  Phase' = Phase
<1>1. Phase = [s \in Requests |-> IF Replying(s) THEN "performed"
                                  ELSE IF Owed(s) THEN "accepted" ELSE "new"]
    BY DEF Phase, Replying, Owed
<1>2. Phase' = [s \in Requests |-> IF Replying(s)' THEN "performed"
                                   ELSE IF Owed(s)' THEN "accepted" ELSE "new"]
    BY DEF Phase, Replying, Owed
<1> QED
    BY <1>1, <1>2

LEMMA UnderwayKept ==
    ASSUME TypeOK, current' = current,
           \A s \in Requests : s = current => (InWork(s)' <=> InWork(s))
    PROVE  Underway' = Underway
<1>1. PICK c : c = current
    OBVIOUS
<1>2. c # NoRequest => c \in Requests
    BY <1>1, PoolAssumption DEF TypeOK
<1>3. Underway = IF c # NoRequest /\ InWork(c) THEN <<c>> ELSE <<>>
    BY <1>1 DEF Underway
<1>4. current' = c
    BY <1>1
<1>5. Underway' = IF c # NoRequest /\ InWork(c)' THEN <<c>> ELSE <<>>
    BY <1>4 DEF Underway, InWork
<1>6. c \in Requests => (InWork(c)' <=> InWork(c))
    BY <1>1
<1> QED
    BY <1>2, <1>3, <1>5, <1>6

(* A step of the service, or of the pool alone.                             *)
Served == Service!Next \/ UNCHANGED <<Phase, Order>>

LEMMA Stutter ==
    ASSUME TypeOK, current' = current, Accepted(writeQ') = Accepted(writeQ),
           \A s \in Requests : /\ Replying(s)' <=> Replying(s)
                               /\ InWork(s)' <=> InWork(s)
                               /\ Owed(s)' <=> Owed(s)
    PROVE  Served
<1>1. Phase' = Phase
    BY PhaseKept
<1>2. Underway' = Underway
    BY UnderwayKept
<1>3. Order = Underway \o Accepted(writeQ) /\ Order' = Underway' \o Accepted(writeQ')
    BY DEF Order, Underway, Accepted
<1> QED
    BY <1>1, <1>2, <1>3 DEF Served

LEMMA AcceptPlain ==
    ASSUME TypeOK, current' = current, Accepted(writeQ') = Accepted(writeQ), NEW r \in PlainRoutes,
           ~Replying(r), ~Owed(r), ~Replying(r)', Owed(r)',
           \A s \in Requests : s = current => (InWork(s)' <=> InWork(s)),
           \A s \in Requests : s # r => /\ Replying(s)' <=> Replying(s)
                                        /\ Owed(s)' <=> Owed(s)
    PROVE  Served
<1>1. r \in Requests /\ r \notin WriteRoutes
    BY DEF PlainRoutes
<1>2. Phase' = [Phase EXCEPT ![r] = "accepted"]
    BY <1>1, PhaseChange
<1>3. Phase[r] = "new"
    BY <1>1 DEF Phase, Replying, Owed
<1>4. Underway' = Underway
    BY UnderwayKept
<1>5. Order = Underway \o Accepted(writeQ) /\ Order' = Underway' \o Accepted(writeQ')
    BY DEF Order, Underway, Accepted
<1>6. Service!Accept(r)
    BY <1>1, <1>2, <1>3, <1>4, <1>5 DEF Service!Accept
<1> QED
    BY <1>1, <1>6 DEF Served, Service!Next

LEMMA AcceptWrite ==
    ASSUME NEW r \in WriteRoutes, Order' = Append(Order, r),
           ~Replying(r), ~Owed(r), ~Replying(r)', Owed(r)',
           \A s \in Requests : s # r => /\ Replying(s)' <=> Replying(s)
                                        /\ Owed(s)' <=> Owed(s)
    PROVE  Served
<1>1. r \in Requests
    BY PoolAssumption
<1>2. Phase' = [Phase EXCEPT ![r] = "accepted"]
    BY <1>1, PhaseChange
<1>3. Phase[r] = "new"
    BY <1>1 DEF Phase, Replying, Owed
<1>4. Service!Accept(r)
    BY <1>2, <1>3 DEF Service!Accept
<1> QED
    BY <1>1, <1>4 DEF Served, Service!Next

LEMMA EnqueueServed ==
    ASSUME PoolInv, NEW r \in Requests, Enqueue(r), client[r] \in {"idle", "answered", "embedding"},
           UNCHANGED <<contQ, writerQ, future, at, hand, current, txn>>
    PROVE  Served
<1> USE DEF PoolInv
<1>1. ~Queued(r) /\ ~Held(r) /\ ~Pending(r) /\ ~Returned(r)
    BY DEF Placed
<1>2. ~Replying(r) /\ ~Owed(r)
    BY <1>1, PhaseFacts
<1>3. \A s : (InWork(s)' <=> InWork(s)) /\ (Replying(s)' <=> Replying(s))
    BY DEF InWork, Replying
<1>4. CASE r \in WriteRoutes
    <2>1. writeQ' = Append(writeQ, r) /\ reqQ' = reqQ /\ writeQ \in Seq(WriteRoutes)
        BY <1>4 DEF Enqueue, TypeOK
    <2>2. /\ Accepted(writeQ') = IF Len(writeQ) < Capacity THEN Append(Accepted(writeQ), r) ELSE Accepted(writeQ)
          /\ \A s : InChannel(writeQ', s) <=> InChannel(writeQ, s) \/ (s = r /\ Len(writeQ) < Capacity)
        BY <1>4, <2>1, AcceptedAppend
    <2>3. \A s \in Requests : Owed(s)' <=> Owed(s) \/ (s = r /\ Len(writeQ) < Capacity)
        BY <1>3, <2>1, <2>2 DEF Owed
    <2>4. CASE Len(writeQ) < Capacity
        <3>1. Underway' = Underway
            BY <1>3, UnderwayKept
        <3>2. Order' = Underway \o Append(Accepted(writeQ), r)
            BY <2>2, <2>4, <3>1 DEF Order, Underway, Accepted
        <3>3. PICK u \in Seq(WriteRoutes) : u = Underway
            BY OrderOf
        <3>4. PICK f \in Seq(WriteRoutes) : f = Accepted(writeQ)
            BY OrderOf
        <3>5. u \o Append(f, r) = Append(u \o f, r)
            <4>1. Append(f, r) = f \o <<r>> /\ u \o f \in Seq(WriteRoutes) /\ <<r>> \in Seq(WriteRoutes)
                BY <1>4, AppendIsConcat, ConcatProperties
            <4>2. Append(u \o f, r) = (u \o f) \o <<r>>
                BY <1>4, <4>1, AppendIsConcat
            <4> QED
                BY <4>1, <4>2, ConcatAssociative
        <3>6. Order' = Append(Order, r)
            BY <3>2, <3>3, <3>4, <3>5, OrderOf
        <3> QED
            BY <1>2, <1>3, <1>4, <2>3, <2>4, <3>6, AcceptWrite
    <2>5. CASE ~ (Len(writeQ) < Capacity)
        BY <1>3, <2>2, <2>3, <2>5, Stutter
    <2> QED
        BY <2>4, <2>5
<1>5. CASE r \notin WriteRoutes
    <2>1. reqQ' = Append(reqQ, r) /\ writeQ' = writeQ /\ reqQ \in Seq(PlainRoutes) /\ r \in PlainRoutes
        BY <1>5 DEF Enqueue, TypeOK, PlainRoutes
    <2>2. \A s : InChannel(reqQ', s) <=> InChannel(reqQ, s) \/ (s = r /\ Len(reqQ) < Capacity)
        BY <2>1, AcceptedAppend
    <2>3. \A s \in Requests : Owed(s)' <=> Owed(s) \/ (s = r /\ Len(reqQ) < Capacity)
        BY <1>3, <2>1, <2>2 DEF Owed
    <2>4. CASE Len(reqQ) < Capacity
        BY <1>2, <1>3, <2>1, <2>3, <2>4, AcceptPlain
    <2>5. CASE ~ (Len(reqQ) < Capacity)
        BY <1>3, <2>1, <2>3, <2>5, Stutter
    <2> QED
        BY <2>4, <2>5
<1> QED
    BY <1>4, <1>5

(* Neither a client that asks for an embedding, nor a worker that finds      *)
(* nothing, nor a future that ends is seen by the service.                  *)
LEMMA OnlyQueuesServed ==
    ASSUME PoolInv, UNCHANGED <<reqQ, writeQ, contQ, writerQ, hand, current>>,
           \A s \in Requests : Pending(s)' <=> Pending(s)
    PROVE  Served
<1>1. \A s \in Requests : /\ Replying(s)' <=> Replying(s)
                          /\ InWork(s)' <=> InWork(s)
    BY DEF Replying, InWork, Pending
<1>2. \A s \in Requests : Owed(s)' <=> Owed(s)
    BY <1>1 DEF Owed
<1> QED
    BY <1>1, <1>2, Stutter DEF PoolInv

LEMMA ClientServed ==
    ASSUME PoolInv, NEW r \in Requests, Submit(r) \/ Precompute(r) \/ Disconnect(r)
    PROVE  Served
<1>1. CASE Submit(r)
    <2>1. CASE r \in TextSearch
        BY <1>1, <2>1, OnlyQueuesServed DEF Submit, Pending
    <2>2. CASE r \notin TextSearch
        BY <1>1, <2>2, EnqueueServed DEF Submit
    <2> QED
        BY <2>1, <2>2
<1>2. CASE Precompute(r)
    <2>1. CASE Enqueue(r)
        BY <1>2, <2>1, EnqueueServed DEF Precompute
    <2>2. CASE UNCHANGED <<reqQ, writeQ>>
        BY <1>2, <2>2, OnlyQueuesServed DEF Precompute, Pending
    <2> QED
        BY <1>2, <2>1, <2>2 DEF Precompute
<1>3. CASE Disconnect(r)
    <2>1. /\ reqQ' = Withdraw(reqQ, r) /\ writeQ' = Withdraw(writeQ, r)
          /\ UNCHANGED <<contQ, writerQ, future, hand, current>>
        BY <1>3 DEF Disconnect
    <2>2. /\ Accepted(writeQ') = Accepted(writeQ)
          /\ \A s : InChannel(writeQ', s) <=> InChannel(writeQ, s)
          /\ \A s : InChannel(reqQ', s) <=> InChannel(reqQ, s)
        BY <2>1, AcceptedWithdraw DEF PoolInv, TypeOK, Placed
    <2>3. \A s \in Requests : /\ Replying(s)' <=> Replying(s)
                              /\ InWork(s)' <=> InWork(s)
        BY <2>1 DEF Replying, InWork
    <2>4. \A s \in Requests : Owed(s)' <=> Owed(s)
        BY <2>2, <2>3 DEF Owed
    <2> QED
        BY <2>1, <2>2, <2>3, <2>4, Stutter DEF PoolInv
<1> QED
    BY <1>1, <1>2, <1>3

LEMMA TakeRequestServed ==
    ASSUME PoolInv, NEW w \in Workers, TakeRequest(w), hand[w] = Idle,
           UNCHANGED <<client, writeQ, writerQ, future, current, txn>>
    PROVE  Served
<1> USE DEF PoolInv
<1>1. /\ reqQ # <<>> /\ contQ' = contQ /\ reqQ' = Tail(reqQ)
      /\ hand' = [hand EXCEPT ![w] = Doing("request", Head(reqQ))]
    BY DEF TakeRequest
<1>2. PICK r : r = Head(reqQ)
    OBVIOUS
<1>3. reqQ \in Seq(PlainRoutes) /\ IsInjective(reqQ)
    BY DEF TypeOK, Placed
<1>4. /\ InChannel(reqQ, r)
      /\ Len(reqQ) <= Capacity => \A s : InChannel(reqQ', s) <=> InChannel(reqQ, s) /\ s # r
      /\ Len(reqQ) > Capacity => \E x \in PlainRoutes :
            /\ Contains(reqQ, x) /\ ~InChannel(reqQ, x) /\ x # r
            /\ \A s : InChannel(reqQ', s) <=> (InChannel(reqQ, s) /\ s # r) \/ s = x
    <2>1. /\ InChannel(reqQ, Head(reqQ))
          /\ Len(reqQ) <= Capacity =>
                \A s : InChannel(Tail(reqQ), s) <=> InChannel(reqQ, s) /\ s # Head(reqQ)
          /\ Len(reqQ) > Capacity => \E x \in PlainRoutes :
                /\ Contains(reqQ, x) /\ ~InChannel(reqQ, x) /\ x # Head(reqQ)
                /\ <<Head(reqQ)>> \o Accepted(Tail(reqQ)) = Append(Accepted(reqQ), x)
                /\ \A s : InChannel(Tail(reqQ), s) <=> (InChannel(reqQ, s) /\ s # Head(reqQ)) \/ s = x
        BY <1>1, <1>3, AcceptedTail
    <2>2. Len(reqQ) > Capacity => \E x \in PlainRoutes :
                /\ Contains(reqQ, x) /\ ~InChannel(reqQ, x) /\ x # Head(reqQ)
                /\ \A s : InChannel(Tail(reqQ), s) <=> (InChannel(reqQ, s) /\ s # Head(reqQ)) \/ s = x
        BY <2>1
    <2> QED
        BY <1>1, <1>2, <2>1, <2>2
<1>5. r \in PlainRoutes /\ r \in Requests /\ w \in Threads
    BY <1>1, <1>2, <1>3, TailChannel DEF PlainRoutes, Threads
<1>6. /\ Doing("request", r) \in Work(Requests)
      /\ Doing("request", r).req = r /\ Doing("request", r).does # "reply"
      /\ \A s : Doing("request", r) # Doing("reply", s)
      /\ hand[w].req \notin Requests
    BY <1>5, HandType DEF Work, Doing
<1>7. \A s \in Requests : /\ Working(s)' <=> Working(s) \/ s = r
                          /\ Replying(s)' <=> Replying(s)
    BY ZenonT(60), <1>1, <1>2, <1>5, <1>6, HandWorks DEF Placed
<1>8. \A s \in Requests : InWork(s)' <=> InWork(s) \/ s = r
    <2>1. \A s \in Requests : (Pending(s)' <=> Pending(s)) /\ (Returned(s)' <=> Returned(s))
        BY <1>1 DEF Pending, Returned
    <2>2. \A s \in Requests : InWork(s)' <=> Working(s)' \/ Pending(s)' \/ Returned(s)'
        BY DEF InWork, Working, Pending, Returned
    <2> QED
        BY <1>7, <2>1, <2>2, PhaseFacts
<1>9. Owed(r)
    BY <1>4 DEF Owed
<1>10. \A s \in Requests : s = current => (InWork(s)' <=> InWork(s))
    BY <1>5, <1>8, PoolAssumption DEF TypeOK, PlainRoutes
<1>11. CASE Len(reqQ) <= Capacity
    <2>1. \A s \in Requests : Owed(s)' <=> Owed(s)
        BY <1>4, <1>8, <1>9, <1>11 DEF Owed
    <2>2. Phase' = Phase
        BY <1>7, <2>1, PhaseKept
    <2>3. Underway' = Underway
        BY <1>10, UnderwayKept
    <2>4. Order = Underway \o Accepted(writeQ) /\ Order' = Underway' \o Accepted(writeQ')
        BY DEF Order, Underway, Accepted
    <2> QED
        BY <2>2, <2>3, <2>4 DEF Served
<1>12. CASE Len(reqQ) > Capacity
    <2>1. PICK x \in PlainRoutes :
            /\ Contains(reqQ, x) /\ ~InChannel(reqQ, x) /\ x # r
            /\ \A s : InChannel(reqQ', s) <=> (InChannel(reqQ, s) /\ s # r) \/ s = x
        BY <1>4, <1>12
    <2>2. x \in Requests /\ Queued(x)
        BY <2>1 DEF PlainRoutes, Queued
    <2>3. ~Replying(x) /\ ~Owed(x)
        <3>1. ~Contains(writeQ, x)
            BY <2>1, <2>2, Halves DEF PlainRoutes
        <3> QED
            BY <2>1, <2>2, <3>1, PhaseFacts DEF Placed, Owed
    <2>4. \A s \in Requests : Owed(s)' <=> Owed(s) \/ s = x
        BY <1>4, <1>8, <1>9, <2>1 DEF Owed
    <2>5. ~Replying(x)' /\ Owed(x)'
        BY <1>7, <2>2, <2>3, <2>4
    <2> QED
        BY <1>7, <1>10, <2>1, <2>3, <2>4, <2>5, AcceptPlain
<1> QED
    <2>1. Len(reqQ) \in Nat /\ Capacity \in Nat
        BY <1>3, LenProperties, PoolAssumption
    <2> QED
        BY <1>11, <1>12, <2>1

(* A thread goes on with a closure that was returned to it.                 *)
LEMMA ReturnedServed ==
    ASSUME PoolInv, NEW t \in Threads, NEW r \in Requests, hand[t] = Idle,
           hand' = [hand EXCEPT ![t] = Doing("closure", r)],
           Returned(r), \A s \in Requests : Returned(s)' <=> Returned(s) /\ s # r,
           UNCHANGED <<reqQ, writeQ, future, current>>
    PROVE  Served
<1> USE DEF PoolInv
<1>1. /\ Doing("closure", r) \in Work(Requests)
      /\ Doing("closure", r).req = r /\ Doing("closure", r).does # "reply"
      /\ \A s : Doing("closure", r) # Doing("reply", s)
      /\ hand[t].req \notin Requests
    BY HandType DEF Work, Doing
<1>2. \A s \in Requests : /\ Working(s)' <=> Working(s) \/ s = r
                          /\ Replying(s)' <=> Replying(s)
    <2>1. PICK h \in Work(Requests) : h = Doing("closure", r)
        BY <1>1
    <2>2. \A s \in Requests :
             /\ Working(s)' <=> (Working(s) /\ s # hand[t].req) \/ (h.req = s /\ h.does # "reply")
             /\ Replying(s)' <=> (Replying(s) /\ s # hand[t].req) \/ h = Doing("reply", s)
        BY <2>1, HandWorks DEF Placed
    <2> QED
        BY <1>1, <2>1, <2>2
<1>3. \A s \in Requests : InWork(s)' <=> InWork(s)
    <2>1. \A s \in Requests : Pending(s)' <=> Pending(s)
        BY DEF Pending
    <2>2. \A s \in Requests : InWork(s)' <=> Working(s)' \/ Pending(s)' \/ Returned(s)'
        BY DEF InWork, Working, Pending, Returned
    <2> QED
        BY <1>2, <2>1, <2>2, PhaseFacts
<1>4. \A s \in Requests : Owed(s)' <=> Owed(s)
    BY <1>3 DEF Owed
<1> QED
    BY <1>2, <1>3, <1>4, Stutter

LEMMA TakeContinuationServed ==
    ASSUME PoolInv, NEW w \in Workers, TakeContinuation(w), hand[w] = Idle,
           UNCHANGED <<client, writeQ, writerQ, future, current, txn>>
    PROVE  Served
<1> USE DEF PoolInv
<1>1. /\ contQ # <<>> /\ reqQ' = reqQ
      /\ hand' = [hand EXCEPT ![w] = Doing("closure", Head(contQ))]
    BY DEF TakeContinuation
<1>2. PICK r : r = Head(contQ)
    OBVIOUS
<1>3. /\ r \in PlainRoutes /\ Contains(contQ, r)
      /\ \A s : Contains(contQ', s) <=> Contains(contQ, s) /\ s # r
    BY <1>1, <1>2, TailChannel DEF TakeContinuation, TypeOK, Placed
<1>4. r \in Requests /\ Returned(r) /\ w \in Threads /\ ~Contains(writerQ, r)
    BY <1>3, Halves DEF PlainRoutes, Returned, Threads
<1>5. \A s \in Requests : Returned(s)' <=> Returned(s) /\ s # r
    BY <1>3, <1>4 DEF Returned
<1> QED
    BY <1>1, <1>2, <1>4, <1>5, ReturnedServed

LEMMA WriterContinueServed == ASSUME PoolInv, WriterContinue PROVE Served
<1> USE DEF PoolInv
<1>1. /\ hand[Writer] = Idle /\ writerQ # <<>>
      /\ hand' = [hand EXCEPT ![Writer] = Doing("closure", Head(writerQ))]
      /\ UNCHANGED <<reqQ, writeQ, contQ, future, current>>
    BY DEF WriterContinue
<1>2. PICK r : r = Head(writerQ)
    OBVIOUS
<1>3. /\ r \in WriteRoutes /\ Contains(writerQ, r)
      /\ \A s : Contains(writerQ', s) <=> Contains(writerQ, s) /\ s # r
    BY <1>1, <1>2, TailChannel DEF WriterContinue, TypeOK, Placed
<1>4. r \in Requests /\ Returned(r) /\ Writer \in Threads /\ ~Contains(contQ, r)
    BY <1>3, Halves, PoolAssumption DEF Returned, Threads
<1>5. \A s \in Requests : Returned(s)' <=> Returned(s) /\ s # r
    BY <1>1, <1>3, <1>4 DEF Returned
<1> QED
    BY <1>1, <1>2, <1>4, <1>5, ReturnedServed

LEMMA WorkerServed ==
    ASSUME PoolInv, NEW w \in Workers, Poll(w) \/ Receive(w)
    PROVE  Served
<1>1. hand[w] = Idle /\ UNCHANGED <<client, writeQ, writerQ, future, current, txn>>
    BY DEF Poll, Receive
<1>2. CASE TakeRequest(w)
    BY <1>1, <1>2, TakeRequestServed
<1>3. CASE TakeContinuation(w)
    BY <1>1, <1>3, TakeContinuationServed
<1>4. CASE UNCHANGED <<reqQ, contQ, hand>>
    BY <1>1, <1>4, OnlyQueuesServed DEF Pending
<1> QED
    BY <1>2, <1>3, <1>4 DEF Poll, Receive

(* The write that the writer takes was the first in the order, and stays so *)
(* while its query and its embedding are under way.                         *)
LEMMA WriterReceiveServed == ASSUME PoolInv, WriterReceive PROVE Served
<1> USE DEF PoolInv
<1>1. /\ current = NoRequest /\ writeQ # <<>> /\ current' = Head(writeQ) /\ writeQ' = Tail(writeQ)
      /\ hand' = [hand EXCEPT ![Writer] = Doing("request", Head(writeQ))]
      /\ UNCHANGED <<reqQ, contQ, writerQ, future>>
    BY DEF WriterReceive
<1>2. PICK r : r = Head(writeQ)
    OBVIOUS
<1>3. writeQ \in Seq(WriteRoutes) /\ IsInjective(writeQ)
    BY DEF TypeOK, Placed
<1>4. /\ InChannel(writeQ, r)
      /\ Len(writeQ) <= Capacity =>
            /\ <<r>> \o Accepted(writeQ') = Accepted(writeQ)
            /\ \A s : InChannel(writeQ', s) <=> InChannel(writeQ, s) /\ s # r
      /\ Len(writeQ) > Capacity => \E x \in WriteRoutes :
            /\ Contains(writeQ, x) /\ ~InChannel(writeQ, x) /\ x # r
            /\ <<r>> \o Accepted(writeQ') = Append(Accepted(writeQ), x)
            /\ \A s : InChannel(writeQ', s) <=> (InChannel(writeQ, s) /\ s # r) \/ s = x
    BY <1>1, <1>2, <1>3, AcceptedTail
<1>5. r \in WriteRoutes /\ r \in Requests /\ Writer \in Threads /\ r # NoRequest
    BY <1>1, <1>2, <1>3, TailChannel, PoolAssumption DEF Threads
<1>6. hand[Writer].req \notin Requests
    BY <1>1, <1>5, HandType, PoolAssumption DEF OneWrite
<1>7. /\ Doing("request", r) \in Work(Requests)
      /\ Doing("request", r).req = r /\ Doing("request", r).does # "reply"
      /\ \A s : Doing("request", r) # Doing("reply", s)
    BY <1>5 DEF Work, Doing
<1>8. \A s \in Requests : /\ Working(s)' <=> Working(s) \/ s = r
                          /\ Replying(s)' <=> Replying(s)
    BY ZenonT(60), <1>1, <1>2, <1>5, <1>6, <1>7, HandWorks DEF Placed
<1>9. \A s \in Requests : InWork(s)' <=> InWork(s) \/ s = r
    <2>1. \A s \in Requests : (Pending(s)' <=> Pending(s)) /\ (Returned(s)' <=> Returned(s))
        BY <1>1 DEF Pending, Returned
    <2>2. \A s \in Requests : InWork(s)' <=> Working(s)' \/ Pending(s)' \/ Returned(s)'
        BY DEF InWork, Working, Pending, Returned
    <2> QED
        BY <1>8, <2>1, <2>2, PhaseFacts
<1>10. Owed(r)
    BY <1>4 DEF Owed
<1>11. Order = Accepted(writeQ)
    BY <1>1, OrderOf, ConcatEmptySeq DEF Underway
<1>12. Order' = <<r>> \o Accepted(writeQ')
    <2>1. InWork(r)'
        BY <1>5, <1>9
    <2>2. current' = r
        BY <1>1, <1>2
    <2>3. Underway' = <<r>>
        BY <1>5, <2>1, <2>2 DEF Underway, InWork
    <2> QED
        BY <2>3 DEF Order, Underway, Accepted
<1>13. CASE Len(writeQ) <= Capacity
    <2>1. \A s \in Requests : Owed(s)' <=> Owed(s)
        BY <1>1, <1>4, <1>9, <1>10, <1>13 DEF Owed
    <2>2. Phase' = Phase
        BY <1>8, <2>1, PhaseKept
    <2> QED
        BY <1>4, <1>11, <1>12, <1>13, <2>2 DEF Served
<1>14. CASE Len(writeQ) > Capacity
    <2>1. PICK x \in WriteRoutes :
            /\ Contains(writeQ, x) /\ ~InChannel(writeQ, x) /\ x # r
            /\ <<r>> \o Accepted(writeQ') = Append(Accepted(writeQ), x)
            /\ \A s : InChannel(writeQ', s) <=> (InChannel(writeQ, s) /\ s # r) \/ s = x
        BY <1>4, <1>14
    <2>2. x \in Requests /\ Queued(x)
        BY <2>1, PoolAssumption DEF Queued
    <2>3. ~Replying(x) /\ ~Owed(x)
        <3>1. ~Contains(reqQ, x)
            BY <2>1, <2>2, Halves
        <3> QED
            BY <2>1, <2>2, <3>1, PhaseFacts DEF Placed, Owed
    <2>4. \A s \in Requests : Owed(s)' <=> Owed(s) \/ s = x
        BY <1>1, <1>4, <1>9, <1>10, <2>1 DEF Owed
    <2>5. ~Replying(x)' /\ Owed(x)'
        BY <1>8, <2>2, <2>3, <2>4
    <2>6. Order' = Append(Order, x)
        BY <1>11, <1>12, <2>1
    <2> QED
        BY <1>8, <2>1, <2>3, <2>4, <2>5, <2>6, AcceptWrite
<1> QED
    <2>1. Len(writeQ) \in Nat /\ Capacity \in Nat
        BY <1>3, LenProperties, PoolAssumption
    <2> QED
        BY <1>13, <1>14, <2>1

LEMMA WriterNextRequestServed == ASSUME PoolInv, WriterNextRequest PROVE Served
<1> USE DEF PoolInv
<1>1. /\ hand[Writer] = Idle /\ writerQ = <<>> /\ current' = NoRequest /\ current # NoRequest
      /\ \A r \in Requests : future[r] \notin {"writer", "sent"}
      /\ UNCHANGED <<reqQ, writeQ, contQ, writerQ, future, hand>>
    BY DEF WriterNextRequest, ChannelClosed, queues
<1>2. PICK c \in WriteRoutes : c = current
    BY <1>1 DEF TypeOK
<1>3. c \in Requests
    BY PoolAssumption
<1>4. ~InWork(c)
    <2>1. ~Working(c)
        BY <1>1, <1>3, HandType, PoolAssumption DEF Working, Idle
    <2>2. ~Pending(c)
        BY <1>1, <1>3 DEF Pending, TypeOK
    <2>3. ~Returned(c)
        BY <1>1, <1>2, <1>3, Halves DEF Returned, Contains
    <2> QED
        BY <1>3, <2>1, <2>2, <2>3, PhaseFacts
<1>5. \A s \in Requests : (Replying(s)' <=> Replying(s)) /\ (Owed(s)' <=> Owed(s))
    BY <1>1 DEF Replying, Owed, InWork, InChannel
<1>6. Phase' = Phase
    BY <1>5, PhaseKept
<1>7. Underway = <<>> /\ Underway' = <<>>
    BY <1>1, <1>2, <1>4 DEF Underway
<1>8. Order = Underway \o Accepted(writeQ) /\ Order' = Underway' \o Accepted(writeQ')
    BY DEF Order, Underway, Accepted
<1> QED
    BY <1>1, <1>6, <1>7, <1>8 DEF Served

LEMMA SpawnServed == ASSUME PoolInv, NEW t \in Threads, Spawn(t) PROVE Served
<1> USE DEF PoolInv
<1>1. PICK r : r = hand[t].req
    OBVIOUS
<1>2. /\ hand[t] # Idle /\ hand[t].does = "request" /\ hand' = [hand EXCEPT ![t] = Idle]
      /\ future' = [future EXCEPT ![r] = IF t = Writer THEN "writer" ELSE "pool"]
      /\ UNCHANGED <<reqQ, writeQ, contQ, writerQ, current>>
    BY <1>1 DEF Spawn, queues, Idle
<1>3. r \in Requests /\ Working(r)
    BY <1>1, <1>2, HandType DEF Working
<1>4. PICK h \in Work(Requests) : h = Idle
    BY DEF Work
<1>5. h.req \notin Requests /\ \A s : h # Doing("reply", s)
    BY <1>4, PoolAssumption DEF Idle, Doing
<1>6. \A s \in Requests : /\ Working(s)' <=> Working(s) /\ s # r
                          /\ Replying(s)' <=> Replying(s) /\ s # r
    <2>1. hand' = [hand EXCEPT ![t] = h] /\ TypeOK /\ Alone
        BY <1>2, <1>4 DEF Placed
    <2>2. \A s \in Requests :
             /\ Working(s)' <=> (Working(s) /\ s # hand[t].req) \/ (h.req = s /\ h.does # "reply")
             /\ Replying(s)' <=> (Replying(s) /\ s # hand[t].req) \/ h = Doing("reply", s)
        BY <2>1, HandWorks
    <2> QED
        BY <1>1, <1>5, <2>2
<1>7. ~Replying(r)
    BY <1>3, PhaseFacts DEF Owed
<1>8. \A s \in Requests : Pending(s)' <=> Pending(s) \/ s = r
    BY <1>2, <1>3 DEF TypeOK, Pending
<1>9. \A s \in Requests : InWork(s)' <=> InWork(s)
    <2>1. \A s \in Requests : Returned(s)' <=> Returned(s)
        BY <1>2 DEF Returned
    <2>2. \A s \in Requests : InWork(s)' <=> Working(s)' \/ Pending(s)' \/ Returned(s)'
        BY DEF InWork, Working, Pending, Returned
    <2> QED
        BY <1>3, <1>6, <1>8, <2>1, <2>2, PhaseFacts
<1>10. \A s \in Requests : Owed(s)' <=> Owed(s)
    BY <1>2, <1>9 DEF Owed
<1>11. \A s \in Requests : Replying(s)' <=> Replying(s)
    BY <1>6, <1>7
<1> QED
    BY <1>2, <1>9, <1>10, <1>11, Stutter

(* A thread goes on to its transaction, or is done with it.                 *)
LEMMA BeginServed == ASSUME PoolInv, NEW t \in Threads, Begin(t) PROVE Served
<1> USE DEF PoolInv
<1>1. PICK r : r = hand[t].req
    OBVIOUS
<1>2. /\ hand[t] # Idle /\ hand[t].does # "reply" /\ hand' = [hand EXCEPT ![t] = Doing("query", r)]
      /\ UNCHANGED <<reqQ, writeQ, contQ, writerQ, future, current>>
    BY <1>1 DEF Begin, Runnable, queues, Idle
<1>3. r \in Requests /\ Working(r)
    BY <1>1, <1>2, HandType DEF Working
<1>4. PICK h \in Work(Requests) : h = Doing("query", r)
    BY <1>3 DEF Work, Doing
<1>5. h.req = r /\ h.does # "reply" /\ \A s : h # Doing("reply", s)
    BY <1>4 DEF Doing
<1>6. ~Replying(r)
    BY <1>3, PhaseFacts DEF Owed
<1>7. \A s \in Requests : /\ Working(s)' <=> Working(s)
                          /\ Replying(s)' <=> Replying(s)
    <2>1. \A s \in Requests :
             /\ Working(s)' <=> (Working(s) /\ s # r) \/ (h.req = s /\ h.does # "reply")
             /\ Replying(s)' <=> (Replying(s) /\ s # r) \/ h = Doing("reply", s)
        <3>1. hand' = [hand EXCEPT ![t] = h] /\ TypeOK /\ Alone
            BY <1>2, <1>4 DEF Placed
        <3>2. \A s \in Requests :
                 /\ Working(s)' <=> (Working(s) /\ s # hand[t].req) \/ (h.req = s /\ h.does # "reply")
                 /\ Replying(s)' <=> (Replying(s) /\ s # hand[t].req) \/ h = Doing("reply", s)
            BY <3>1, HandWorks
        <3> QED
            BY <1>1, <3>2
    <2> QED
        BY <1>3, <1>5, <1>6, <2>1
<1>8. \A s \in Requests : InWork(s)' <=> InWork(s)
    <2>1. \A s \in Requests : (Pending(s)' <=> Pending(s)) /\ (Returned(s)' <=> Returned(s))
        BY <1>2 DEF Pending, Returned
    <2>2. \A s \in Requests : InWork(s)' <=> Working(s)' \/ Pending(s)' \/ Returned(s)'
        BY DEF InWork, Working, Pending, Returned
    <2> QED
        BY <1>7, <2>1, <2>2, PhaseFacts
<1>9. \A s \in Requests : Owed(s)' <=> Owed(s)
    BY <1>2, <1>8 DEF Owed
<1> QED
    BY <1>2, <1>7, <1>8, <1>9, Stutter

(* The query of a write route was the first of the order: the writer holds  *)
(* it, and holds nothing else.                                              *)
LEMMA PerformServed ==
    ASSUME PoolInv, NEW t \in Threads, hand[t] # Idle, hand[t].does # "reply",
           hand' = [hand EXCEPT ![t] = Doing("reply", hand[t].req)],
           UNCHANGED <<client, queues, future, at, current>>
    PROVE  Served
<1> USE DEF PoolInv
<1>1. PICK r : r = hand[t].req
    OBVIOUS
<1>2. /\ hand' = [hand EXCEPT ![t] = Doing("reply", r)]
      /\ UNCHANGED <<reqQ, writeQ, contQ, writerQ, future, current>>
    BY <1>1 DEF queues
<1>3. r \in Requests /\ Working(r) /\ (r \in WriteRoutes <=> t = Writer)
    BY <1>1, HandType DEF Working
<1>4. PICK h \in Work(Requests) : h = Doing("reply", r)
    BY <1>3 DEF Work, Doing
<1>5. h.req = r /\ h.does = "reply" /\ \A s : h = Doing("reply", s) <=> s = r
    BY <1>4 DEF Doing
<1>6. \A s \in Requests : /\ Working(s)' <=> Working(s) /\ s # r
                          /\ Replying(s)' <=> Replying(s) \/ s = r
    <2>1. \A s \in Requests :
             /\ Working(s)' <=> (Working(s) /\ s # r) \/ (h.req = s /\ h.does # "reply")
             /\ Replying(s)' <=> (Replying(s) /\ s # r) \/ h = Doing("reply", s)
        <3>1. hand' = [hand EXCEPT ![t] = h] /\ TypeOK /\ Alone
            BY <1>2, <1>4 DEF Placed
        <3>2. \A s \in Requests :
                 /\ Working(s)' <=> (Working(s) /\ s # hand[t].req) \/ (h.req = s /\ h.does # "reply")
                 /\ Replying(s)' <=> (Replying(s) /\ s # hand[t].req) \/ h = Doing("reply", s)
            BY <3>1, HandWorks
        <3> QED
            BY <1>1, <3>2
    <2> QED
        BY <1>5, <2>1
<1>7. ~Pending(r) /\ ~Returned(r) /\ ~Queued(r) /\ InWork(r) /\ ~Replying(r) /\ Owed(r)
    BY <1>3, PhaseFacts DEF Placed, Owed
<1>8. \A s \in Requests : InWork(s)' <=> InWork(s) /\ s # r
    <2>1. \A s \in Requests : (Pending(s)' <=> Pending(s)) /\ (Returned(s)' <=> Returned(s))
        BY <1>2 DEF Pending, Returned
    <2>2. \A s \in Requests : InWork(s)' <=> Working(s)' \/ Pending(s)' \/ Returned(s)'
        BY DEF InWork, Working, Pending, Returned
    <2> QED
        BY <1>6, <1>7, <2>1, <2>2, PhaseFacts
<1>9. \A s \in Requests : s # r => (Replying(s)' <=> Replying(s)) /\ (Owed(s)' <=> Owed(s))
    BY <1>2, <1>6, <1>8 DEF Owed
<1>10. Phase' = [Phase EXCEPT ![r] = "performed"] /\ Phase[r] = "accepted"
    <2>1. Replying(r)'
        BY <1>3, <1>6
    <2>2. Phase' = [Phase EXCEPT ![r] = "performed"]
        BY <1>3, <1>9, <2>1, PhaseChange
    <2>3. Phase[r] = "accepted"
        BY <1>3, <1>7 DEF Phase, Replying, Owed
    <2> QED
        BY <2>2, <2>3
<1>11. CASE r \in WriteRoutes
    <2>1. current = r /\ r # NoRequest
        BY <1>1, <1>3, <1>11, PoolAssumption DEF OneWrite
    <2>2. Underway = <<r>>
        BY <1>7, <2>1 DEF Underway
    <2>3. Underway' = <<>>
        <3>1. ~InWork(r)'
            BY <1>3, <1>8
        <3>2. current' = r
            BY <1>2, <2>1
        <3> QED
            BY <3>1, <3>2 DEF Underway, InWork
    <2>4. PICK f \in Seq(WriteRoutes) : f = Accepted(writeQ) /\ Order = <<r>> \o f
        BY <2>2, OrderOf
    <2>5. Order' = f
        <3>1. Order' = Underway' \o Accepted(writeQ')
            BY DEF Order, Underway, Accepted
        <3> QED
            BY <1>2, <2>3, <2>4, <3>1, ConcatEmptySeq
    <2>6. Head(<<r>> \o f) = r /\ Tail(<<r>> \o f) = f
        <3> DEFINE o == <<r>> \o f
        <3>1. /\ o \in Seq(WriteRoutes) /\ Len(o) = 1 + Len(f) /\ Len(f) \in Nat
              /\ \A i \in 1 .. 1 + Len(f) : o[i] = IF i <= 1 THEN r ELSE f[i - 1]
            <4>1. <<r>> \in Seq(WriteRoutes) /\ Len(<<r>>) = 1 /\ <<r>>[1] = r
                BY <1>11
            <4>2. /\ o \in Seq(WriteRoutes) /\ Len(o) = Len(<<r>>) + Len(f)
                  /\ \A i \in 1 .. Len(<<r>>) + Len(f) :
                        o[i] = IF i <= Len(<<r>>) THEN <<r>>[i] ELSE f[i - Len(<<r>>)]
                BY <4>1, ConcatProperties
            <4>3. Len(f) \in Nat
                BY LenProperties
            <4> HIDE DEF o
            <4> QED
                BY <4>1, <4>2, <4>3
        <3> HIDE DEF o
        <3>2. o # <<>> /\ Head(o) = o[1]
            BY <3>1, EmptySeq
        <3>3. /\ Tail(o) \in Seq(WriteRoutes) /\ Len(Tail(o)) = Len(f)
              /\ \A i \in 1 .. Len(Tail(o)) : Tail(o)[i] = o[i + 1]
            BY <3>1, <3>2, HeadTailProperties
        <3>4. \A i \in 1 .. Len(Tail(o)) : Tail(o)[i] = f[i]
            BY <3>1, <3>3
        <3>5. Tail(o) = f
            BY <3>3, <3>4, SeqEqual
        <3> QED
            BY <3>1, <3>2, <3>5 DEF o
    <2>7. Service!Perform(r)
        BY <1>10, <1>11, <2>4, <2>5, <2>6 DEF Service!Perform
    <2> QED
        BY <1>3, <2>7 DEF Served, Service!Next
<1>12. CASE r \notin WriteRoutes
    <2>1. \A s \in Requests : s = current => (InWork(s)' <=> InWork(s))
        BY <1>8, <1>12, PoolAssumption DEF TypeOK
    <2>2. Underway' = Underway
        BY <1>2, <2>1, UnderwayKept
    <2>3. Order = Underway \o Accepted(writeQ) /\ Order' = Underway' \o Accepted(writeQ')
        BY DEF Order, Underway, Accepted
    <2>4. Service!Perform(r)
        BY <1>2, <1>10, <1>12, <2>2, <2>3 DEF Service!Perform
    <2> QED
        BY <1>3, <2>4 DEF Served, Service!Next
<1> QED
    BY <1>11, <1>12

LEMMA ReplyServed == ASSUME PoolInv, NEW t \in Threads, Reply(t) PROVE Served
<1> USE DEF PoolInv
<1>1. PICK r : r = hand[t].req
    OBVIOUS
<1>2. /\ hand[t] # Idle /\ hand[t].does = "reply" /\ hand' = [hand EXCEPT ![t] = Idle]
      /\ UNCHANGED <<reqQ, writeQ, contQ, writerQ, future, current>>
    BY <1>1 DEF Reply, queues, Idle
<1>3. r \in Requests /\ hand[t] = Doing("reply", r)
    <2>1. hand[t] \in Work(WriteRoutes) \/ hand[t] \in Work(PlainRoutes)
        BY HandType
    <2> QED
        BY <1>1, <1>2, <2>1, HandType DEF Work, Doing
<1>4. Replying(r)
    BY <1>3 DEF Replying
<1>5. PICK h \in Work(Requests) : h = Idle
    BY DEF Work
<1>6. h.req \notin Requests /\ \A s : h # Doing("reply", s)
    BY <1>5, PoolAssumption DEF Idle, Doing
<1>7. \A s \in Requests : /\ Working(s)' <=> Working(s) /\ s # r
                          /\ Replying(s)' <=> Replying(s) /\ s # r
    <2>1. hand' = [hand EXCEPT ![t] = h] /\ TypeOK /\ Alone
        BY <1>2, <1>5 DEF Placed
    <2>2. \A s \in Requests :
             /\ Working(s)' <=> (Working(s) /\ s # hand[t].req) \/ (h.req = s /\ h.does # "reply")
             /\ Replying(s)' <=> (Replying(s) /\ s # hand[t].req) \/ h = Doing("reply", s)
        BY <2>1, HandWorks
    <2> QED
        BY <1>1, <1>6, <2>2
<1>8. ~Owed(r) /\ ~Working(r)
    BY <1>3, <1>4, PhaseFacts DEF Owed
<1>9. \A s \in Requests : InWork(s)' <=> InWork(s)
    <2>1. \A s \in Requests : (Pending(s)' <=> Pending(s)) /\ (Returned(s)' <=> Returned(s))
        BY <1>2 DEF Pending, Returned
    <2>2. \A s \in Requests : InWork(s)' <=> Working(s)' \/ Pending(s)' \/ Returned(s)'
        BY DEF InWork, Working, Pending, Returned
    <2> QED
        BY <1>7, <1>8, <2>1, <2>2, PhaseFacts
<1>10. \A s \in Requests : Owed(s)' <=> Owed(s)
    BY <1>2, <1>9 DEF Owed
<1>11. Phase' = [Phase EXCEPT ![r] = "new"] /\ Phase[r] = "performed"
    <2>1. ~Replying(r)' /\ ~Owed(r)'
        BY <1>3, <1>7, <1>8, <1>10
    <2>2. Phase' = [Phase EXCEPT ![r] = "new"]
        BY <1>3, <1>7, <1>10, <2>1, PhaseChange
    <2>3. Phase[r] = "performed"
        BY <1>3, <1>4 DEF Phase, Replying
    <2> QED
        BY <2>2, <2>3
<1>12. Order' = Order
    <2>1. Underway' = Underway
        BY <1>2, <1>9, UnderwayKept
    <2> QED
        BY <1>2, <2>1 DEF Order, Underway, Accepted
<1>13. Service!Finish(r)
    BY <1>11, <1>12 DEF Service!Finish
<1> QED
    BY <1>3, <1>13 DEF Served, Service!Next

LEMMA FutureServed ==
    ASSUME PoolInv, NEW r \in Requests, Embedded(r) \/ FutureEnds(r)
    PROVE  Served
<1> USE DEF PoolInv
<1>1. CASE FutureEnds(r)
    <2>1. \A s \in Requests : Pending(s)' <=> Pending(s)
        BY <1>1 DEF FutureEnds, Pending, TypeOK
    <2> QED
        BY <1>1, <2>1, OnlyQueuesServed DEF FutureEnds, queues
<1>2. CASE Embedded(r)
    <2>1. UNCHANGED <<reqQ, writeQ, hand, current>> /\ Pending(r)
        BY <1>2 DEF Embedded, Pending
    <2>2. \A s \in Requests : Pending(s)' <=> Pending(s) /\ s # r
        BY <1>2 DEF Embedded, Pending, TypeOK
    <2>3. \A s \in Requests : Returned(s)' <=> Returned(s) \/ s = r
        <3>1. CASE future[r] = "pool"
            <4>1. contQ' = Append(contQ, r) /\ writerQ' = writerQ /\ contQ \in Seq(PlainRoutes) /\ r \in PlainRoutes
                BY <1>2, <3>1 DEF Embedded, TypeOK, PlainRoutes
            <4>2. \A s : Contains(contQ', s) <=> Contains(contQ, s) \/ s = r
                BY <4>1, AppendChannel
            <4> QED
                BY <4>1, <4>2 DEF Returned
        <3>2. CASE future[r] = "writer"
            <4>1. writerQ' = Append(writerQ, r) /\ contQ' = contQ /\ writerQ \in Seq(WriteRoutes) /\ r \in WriteRoutes
                BY <1>2, <3>2 DEF Embedded, TypeOK, PlainRoutes
            <4>2. \A s : Contains(writerQ', s) <=> Contains(writerQ, s) \/ s = r
                BY <4>1, AppendChannel
            <4> QED
                BY <4>1, <4>2 DEF Returned
        <3> QED
            BY <1>2, <3>1, <3>2 DEF Embedded
    <2>4. \A s \in Requests : (Working(s)' <=> Working(s)) /\ (Replying(s)' <=> Replying(s))
        BY <2>1 DEF Working, Replying
    <2>5. \A s \in Requests : InWork(s)' <=> InWork(s)
        <3>1. \A s \in Requests : InWork(s)' <=> Working(s)' \/ Pending(s)' \/ Returned(s)'
            BY DEF InWork, Working, Pending, Returned
        <3> QED
            BY <2>1, <2>2, <2>3, <2>4, <3>1, PhaseFacts
    <2>6. \A s \in Requests : Owed(s)' <=> Owed(s)
        BY <2>1, <2>5 DEF Owed
    <2> QED
        BY <2>1, <2>4, <2>5, <2>6, Stutter
<1> QED
    BY <1>1, <1>2

LEMMA InitServed == Init => Service!Init
<1> SUFFICES ASSUME Init PROVE Service!Init
    OBVIOUS
<1>1. /\ \A r \in Requests : ~InWork(r)
      /\ \A r \in Requests : ~InChannel(reqQ, r) /\ ~InChannel(writeQ, r)
      /\ \A r \in Requests : ~Replying(r)
    BY PoolAssumption DEF Init, InWork, InChannel, Replying, Contains, Idle, Doing
<1>2. Phase = [r \in Requests |-> "new"]
    BY <1>1 DEF Phase, Replying
<1>3. Order = <<>>
    <2>1. Underway = <<>>
        BY DEF Init, Underway
    <2>2. Accepted(writeQ) = <<>>
        BY DEF Init, Accepted
    <2> QED
        BY <2>1, <2>2, EmptySeq, ConcatEmptySeq DEF Order, Underway, Accepted
<1> QED
    BY <1>2, <1>3 DEF Service!Init

LEMMA NextServed == PoolInv /\ [Next]_vars => [Service!Next]_(Service!vars)
<1> SUFFICES ASSUME PoolInv, [Next]_vars PROVE Served
    BY DEF Served, Service!vars
<1>1. ASSUME NEW r \in Requests, Submit(r) \/ Precompute(r) \/ Disconnect(r) PROVE Served
    BY <1>1, ClientServed
<1>2. ASSUME NEW t \in Threads, ThreadStep(t) PROVE Served
    <2>1. CASE Serve(t)
        <3>1. /\ hand[t] # Idle /\ hand[t].does # "reply"
              /\ hand' = [hand EXCEPT ![t] = Doing("reply", hand[t].req)]
              /\ UNCHANGED <<client, queues, future, at, current>>
            BY <2>1 DEF Serve, Runnable, Idle
        <3> QED
            BY <3>1, PerformServed
    <2>2. CASE Commit(t)
        <3>1. /\ hand[t] # Idle /\ hand[t].does # "reply"
              /\ hand' = [hand EXCEPT ![t] = Doing("reply", hand[t].req)]
              /\ UNCHANGED <<client, queues, future, at, current>>
            BY <2>2 DEF Commit, Idle
        <3> QED
            BY <3>1, PerformServed
    <2> QED
        BY <1>2, <2>1, <2>2, WorkerServed, WriterReceiveServed, WriterContinueServed,
           WriterNextRequestServed, SpawnServed, BeginServed, ReplyServed DEF ThreadStep
<1>3. ASSUME NEW r \in Requests, Embedded(r) \/ FutureEnds(r) PROVE Served
    BY <1>3, FutureServed
<1>4. CASE UNCHANGED vars
    BY <1>4, OnlyQueuesServed DEF vars, Pending
<1> QED
    BY <1>1, <1>2, <1>3, <1>4 DEF Next

(* The pool implements the service: whatever the interleaving of clients,    *)
(* workers, writer and embeddings, an accepted request is performed once and *)
(* then finished, and the requests of write routes one at a time and in the  *)
(* order in which they were accepted.                                       *)
THEOREM PoolImplementsService == Spec => ImplementsService
<1>1. Init => PoolInv
    BY InitPool
<1>2. PoolInv /\ [Next]_vars => PoolInv'
    BY NextPool
<1>3. Init => Service!Init
    BY InitServed
<1>4. PoolInv /\ [Next]_vars => [Service!Next]_(Service!vars)
    BY NextServed
<1> QED
    BY <1>1, <1>2, <1>3, <1>4, PTL DEF Spec, ImplementsService, Service!Spec
=============================================================================
