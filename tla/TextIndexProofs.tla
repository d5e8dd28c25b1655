--------------------------- MODULE TextIndexProofs ---------------------------
(***************************************************************************)
(* Theorems about TextIndex, for any nodes, terms, documents, sizes of a    *)
(* chunk or a query, and numbers of crashes and intruding requests.         *)
(***************************************************************************)
EXTENDS TextIndex, FiniteSetTheorems, WellFoundedInduction, TLAPS

-----------------------------------------------------------------------------
(* Sums.  Length is a fold, that is, a recursive function on the subsets of *)
(* a domain.  The library's theorems about recursion take the recursive     *)
(* definition as an operator, which the provers cannot instantiate; for     *)
(* this one a least size without such a function, and a smallest set for    *)
(* which an equation fails, give the same facts.                            *)

(* A nonempty set of natural numbers has a least element.                   *)
LEMMA LeastNumber ==
    ASSUME NEW S \in SUBSET Nat, S # {}
    PROVE  \E n \in S : \A m \in S : n <= m
<1> DEFINE R == {p \in Nat \X Nat : p[1] < p[2]}
<1>1. IsWellFoundedOn(R, Nat)
    BY NatLessThanWellFounded DEF OpToRel
<1> HIDE DEF R
<1>2. PICK n \in S : \A m \in S : <<m, n>> \notin R
    BY <1>1, WFMin
<1>3. \A m \in S : ~ (m < n)
    BY <1>2 DEF R
<1> QED
    BY <1>3

LEMMA SmallestSet ==
    ASSUME NEW S, IsFiniteSet(S), NEW B \in SUBSET SUBSET S, B # {}
    PROVE  \E s \in B : \A x \in s : s \ {x} \notin B
<1> DEFINE N == {Cardinality(s) : s \in B}
<1>1. \A s \in B : IsFiniteSet(s) /\ Cardinality(s) \in Nat
    BY FS_Subset, FS_CardinalityType
<1>2. N \in SUBSET Nat /\ N # {}
    BY <1>1
<1>3. PICK n \in N : \A m \in N : n <= m
    <2> HIDE DEF N
    <2> QED
        BY <1>2, LeastNumber
<1>4. PICK s \in B : Cardinality(s) = n
    BY <1>3
<1>5. ASSUME NEW x \in s, s \ {x} \in B PROVE FALSE
    <2>1. Cardinality(s \ {x}) = Cardinality(s) - 1
        BY <1>1, FS_RemoveElement
    <2>2. n <= Cardinality(s \ {x})
        BY <1>3, <1>5
    <2> QED
        BY <1>1, <1>4, <2>1, <2>2
<1> QED
    BY <1>5

Choice(s) == CHOOSE x \in s : TRUE
SumStep(c, s, g) == IF s = {} THEN 0 ELSE c[Choice(s)] + g[s \ {Choice(s)}]
IsSum(c, g, D) == g = [s \in D |-> SumStep(c, s, g)]
Sum(c) == CHOOSE g : IsSum(c, g, SUBSET DOMAIN c)

LEMMA LengthIsSum ==
    ASSUME NEW c
    PROVE  Length(c) = Sum(c)[DOMAIN c]
BY DEF Length, MapThenSumSet, MapThenFoldSet, Sum, IsSum, SumStep, Choice

LEMMA SumExists ==
    ASSUME NEW c, IsFiniteSet(DOMAIN c)
    PROVE  IsSum(c, Sum(c), SUBSET DOMAIN c)
<1> DEFINE Upto(n) == {s \in SUBSET DOMAIN c : Cardinality(s) <= n}
           Bad == {n \in Nat : ~ \E g : IsSum(c, g, Upto(n))}
<1>1. \A s \in SUBSET DOMAIN c : IsFiniteSet(s) /\ Cardinality(s) \in Nat
    BY FS_Subset, FS_CardinalityType
<1>2. ASSUME Bad # {} PROVE FALSE
    <2>1. PICK n \in Bad : \A m \in Bad : n <= m
        <3>1. Bad \in SUBSET Nat
            OBVIOUS
        <3> HIDE DEF Bad
        <3> QED
            BY <1>2, <3>1, LeastNumber
    <2>2. n \in Nat /\ ~ \E g : IsSum(c, g, Upto(n))
        BY <2>1
    <2>3. CASE n = 0
        <3> DEFINE z == [s \in Upto(0) |-> 0]
        <3>1. \A s \in Upto(0) : s = {}
            BY <1>1, FS_EmptySet
        <3>2. IsSum(c, z, Upto(0))
            BY <3>1 DEF IsSum, SumStep
        <3> QED
            BY <2>2, <2>3, <3>2
    <2>4. CASE n # 0
        <3>1. n - 1 \in Nat /\ n - 1 \notin Bad
            <4>1. n - 1 \in Nat /\ ~ (n <= n - 1)
                BY <2>2, <2>4
            <4> HIDE DEF Bad
            <4> QED
                BY <2>1, <4>1
        <3>2. PICK g : IsSum(c, g, Upto(n - 1))
            BY <3>1
        <3> DEFINE h == [s \in Upto(n) |-> SumStep(c, s, g)]
        <3>3. ASSUME NEW s \in Upto(n), s # {}
              PROVE  s \ {Choice(s)} \in Upto(n - 1)
            <4>1. Choice(s) \in s
                BY <3>3 DEF Choice
            <4>2. Cardinality(s \ {Choice(s)}) = Cardinality(s) - 1
                BY <1>1, <4>1, FS_RemoveElement
            <4> QED
                BY <1>1, <2>2, <4>2
        <3>4. ASSUME NEW s \in Upto(n - 1) PROVE s \in Upto(n) /\ h[s] = g[s]
            <4>1. s \in Upto(n)
                BY <1>1, <2>2
            <4>2. g[s] = SumStep(c, s, g)
                BY <3>2 DEF IsSum
            <4> QED
                BY <4>1, <4>2
        <3>5. ASSUME NEW s \in Upto(n) PROVE SumStep(c, s, g) = SumStep(c, s, h)
            <4>1. s # {} => h[s \ {Choice(s)}] = g[s \ {Choice(s)}]
                BY <3>3, <3>4
            <4> HIDE DEF h
            <4> QED
                BY <4>1 DEF SumStep
        <3>6. h = [s \in Upto(n) |-> SumStep(c, s, h)]
            BY <3>5
        <3> QED
            BY <2>2, <3>6 DEF IsSum
    <2> QED
        BY <2>3, <2>4
<1>3. Cardinality(DOMAIN c) \in Nat
    BY <1>1
<1>4. PICK g : IsSum(c, g, Upto(Cardinality(DOMAIN c)))
    BY <1>2, <1>3
<1>5. Upto(Cardinality(DOMAIN c)) = SUBSET DOMAIN c
    BY FS_Subset
<1>6. IsSum(c, g, SUBSET DOMAIN c)
    BY <1>4, <1>5
<1> QED
    BY <1>6 DEF Sum

LEMMA SumOf ==
    ASSUME NEW c, IsFiniteSet(DOMAIN c), NEW s \in SUBSET DOMAIN c
    PROVE  Sum(c)[s] = SumStep(c, s, Sum(c))
BY SumExists DEF IsSum

LEMMA SumType ==
    ASSUME NEW c, IsFiniteSet(DOMAIN c), \A x \in DOMAIN c : c[x] \in Nat,
           NEW s \in SUBSET DOMAIN c
    PROVE  Sum(c)[s] \in Nat
<1> DEFINE B == {u \in SUBSET DOMAIN c : Sum(c)[u] \notin Nat}
<1>1. ASSUME B # {} PROVE FALSE
    <2>1. PICK u \in B : \A x \in u : u \ {x} \notin B
        <3>1. B \in SUBSET SUBSET DOMAIN c
            OBVIOUS
        <3> HIDE DEF B
        <3> QED
            BY <1>1, <3>1, SmallestSet
    <2>2. Sum(c)[u] = SumStep(c, u, Sum(c))
        BY SumOf
    <2>3. CASE u = {}
        BY <2>2, <2>3 DEF SumStep
    <2>4. CASE u # {}
        <3>1. Choice(u) \in u
            BY <2>4 DEF Choice
        <3>2. Sum(c)[u \ {Choice(u)}] \in Nat
            BY <2>1, <3>1
        <3> QED
            BY <2>2, <2>4, <3>1, <3>2 DEF SumStep
    <2> QED
        BY <2>3, <2>4
<1> QED
    BY <1>1

(* The order in which a sum takes its elements does not matter.             *)
LEMMA SumRemove ==
    ASSUME NEW c, IsFiniteSet(DOMAIN c), \A x \in DOMAIN c : c[x] \in Nat,
           NEW s \in SUBSET DOMAIN c, NEW x \in s
    PROVE  Sum(c)[s] = c[x] + Sum(c)[s \ {x}]
<1> DEFINE B == {u \in SUBSET DOMAIN c : \E y \in u : Sum(c)[u] # c[y] + Sum(c)[u \ {y}]}
<1>1. ASSUME B # {} PROVE FALSE
    <2>1. PICK u \in B : \A y \in u : u \ {y} \notin B
        <3>1. B \in SUBSET SUBSET DOMAIN c
            OBVIOUS
        <3> HIDE DEF B
        <3> QED
            BY <1>1, <3>1, SmallestSet
    <2>2. PICK y \in u : Sum(c)[u] # c[y] + Sum(c)[u \ {y}]
        OBVIOUS
    <2>3. PICK z \in u : z = Choice(u)
        BY DEF Choice
    <2>4. Sum(c)[u] = c[z] + Sum(c)[u \ {z}]
        BY <2>3, SumOf DEF SumStep
    <2>5. y # z
        BY <2>2, <2>4
    <2>6. Sum(c)[u \ {z}] = c[y] + Sum(c)[(u \ {z}) \ {y}]
        <3>1. u \ {z} \in SUBSET DOMAIN c /\ u \ {z} \notin B /\ y \in u \ {z}
            BY <2>1, <2>5
        <3> QED
            BY <3>1
    <2>7. Sum(c)[u \ {y}] = c[z] + Sum(c)[(u \ {y}) \ {z}]
        <3>1. u \ {y} \in SUBSET DOMAIN c /\ u \ {y} \notin B /\ z \in u \ {y}
            BY <2>1, <2>5
        <3> QED
            BY <3>1
    <2>8. (u \ {z}) \ {y} = (u \ {y}) \ {z}
        OBVIOUS
    <2>9. c[y] \in Nat /\ c[z] \in Nat /\ Sum(c)[(u \ {y}) \ {z}] \in Nat
        <3>1. u \in SUBSET DOMAIN c /\ (u \ {y}) \ {z} \in SUBSET DOMAIN c
            OBVIOUS
        <3> HIDE DEF B
        <3> QED
            BY <3>1, SumType
    <2>10. \A m, n, k \in Nat : n + (m + k) = m + (n + k)
        OBVIOUS
    <2>11. Sum(c)[u] = c[z] + (c[y] + Sum(c)[(u \ {y}) \ {z}])
        BY <2>4, <2>6, <2>8
    <2>12. Sum(c)[u] = c[y] + (c[z] + Sum(c)[(u \ {y}) \ {z}])
        BY <2>9, <2>10, <2>11
    <2> QED
        BY <2>2, <2>7, <2>12
<1> QED
    BY <1>1

(* A sum depends on the values in its set only.                             *)
LEMMA SumSame ==
    ASSUME NEW c, IsFiniteSet(DOMAIN c), NEW d, IsFiniteSet(DOMAIN d),
           NEW s \in SUBSET DOMAIN c, s \subseteq DOMAIN d, \A x \in s : c[x] = d[x]
    PROVE  Sum(c)[s] = Sum(d)[s]
<1> DEFINE B == {u \in SUBSET s : Sum(c)[u] # Sum(d)[u]}
<1>1. ASSUME B # {} PROVE FALSE
    <2>1. PICK u \in B : \A x \in u : u \ {x} \notin B
        <3>1. B \in SUBSET SUBSET DOMAIN c
            OBVIOUS
        <3> HIDE DEF B
        <3> QED
            BY <1>1, <3>1, SmallestSet
    <2>2. Sum(c)[u] = SumStep(c, u, Sum(c)) /\ Sum(d)[u] = SumStep(d, u, Sum(d))
        <3>1. u \in SUBSET DOMAIN c /\ u \in SUBSET DOMAIN d
            OBVIOUS
        <3> HIDE DEF B
        <3> QED
            BY <3>1, SumOf
    <2>3. CASE u = {}
        BY <2>2, <2>3 DEF SumStep
    <2>4. CASE u # {}
        <3>1. PICK z \in u : z = Choice(u)
            BY <2>4 DEF Choice
        <3>2. Sum(c)[u \ {z}] = Sum(d)[u \ {z}] /\ c[z] = d[z]
            BY <2>1
        <3> QED
            BY <2>2, <2>4, <3>1, <3>2 DEF SumStep
    <2> QED
        BY <2>3, <2>4
<1> QED
    BY <1>1

LEMMA LengthType ==
    ASSUME NEW c, IsFiniteSet(DOMAIN c), \A x \in DOMAIN c : c[x] \in Nat
    PROVE  Length(c) \in Nat
BY LengthIsSum, SumType

LEMMA LengthEmpty ==
    ASSUME NEW c, DOMAIN c = {}
    PROVE  Length(c) = 0
BY LengthIsSum, SumOf, FS_EmptySet DEF SumStep

LEMMA LengthDelete ==
    ASSUME NEW c, IsFiniteSet(DOMAIN c), \A x \in DOMAIN c : c[x] \in Nat,
           NEW k \in DOMAIN c
    PROVE  Length(c) = c[k] + Length(Delete(c, k))
<1> DEFINE e == Delete(c, k)
<1>1. DOMAIN e = DOMAIN c \ {k} /\ \A x \in DOMAIN e : e[x] = c[x]
    BY DEF Delete, Restrict
<1>2. IsFiniteSet(DOMAIN e)
    BY <1>1, FS_Subset
<1> HIDE DEF e
<1>3. Sum(c)[DOMAIN c] = c[k] + Sum(c)[DOMAIN c \ {k}]
    BY SumRemove
<1>4. Sum(c)[DOMAIN e] = Sum(e)[DOMAIN e]
    BY <1>1, <1>2, SumSame
<1>5. Length(c) = Sum(c)[DOMAIN c] /\ Length(e) = Sum(e)[DOMAIN e]
    BY LengthIsSum
<1> QED
    BY <1>1, <1>3, <1>4, <1>5 DEF e

LEMMA LengthAdd ==
    ASSUME NEW c, IsFiniteSet(DOMAIN c), \A x \in DOMAIN c : c[x] \in Nat,
           NEW k, k \notin DOMAIN c, NEW n \in Nat
    PROVE  Length(Put(c, k, n)) = n + Length(c)
<1> DEFINE e == Put(c, k, n)
<1>1. DOMAIN e = DOMAIN c \cup {k} /\ e[k] = n /\ \A x \in DOMAIN c : e[x] = c[x]
    BY DEF Put
<1>2. IsFiniteSet(DOMAIN e)
    BY <1>1, FS_AddElement
<1> HIDE DEF e
<1>3. Sum(e)[DOMAIN e] = n + Sum(e)[DOMAIN e \ {k}]
    BY <1>1, <1>2, SumRemove
<1>4. DOMAIN e \ {k} = DOMAIN c
    BY <1>1
<1>5. Sum(c)[DOMAIN c] = Sum(e)[DOMAIN c]
    BY <1>1, <1>2, SumSame
<1> QED
    BY <1>3, <1>4, <1>5, LengthIsSum DEF e

LEMMA LengthChange ==
    ASSUME NEW c, IsFiniteSet(DOMAIN c), \A x \in DOMAIN c : c[x] \in Nat,
           NEW k \in DOMAIN c, NEW n \in Nat
    PROVE  Length(Put(c, k, n)) = n + Length(Delete(c, k))
<1> DEFINE e == Delete(c, k)
<1>1. /\ DOMAIN e = DOMAIN c \ {k} /\ \A x \in DOMAIN e : e[x] = c[x]
      /\ Put(e, k, n) = Put(c, k, n)
    BY DEF Delete, Restrict, Put
<1>2. IsFiniteSet(DOMAIN e)
    BY <1>1, FS_Subset
<1> HIDE DEF e
<1>3. Length(Put(e, k, n)) = n + Length(e)
    BY <1>1, <1>2, LengthAdd
<1> QED
    BY <1>1, <1>3 DEF e

LEMMA LengthPositive ==
    ASSUME NEW c, IsFiniteSet(DOMAIN c), \A x \in DOMAIN c : c[x] \in Nat \ {0},
           DOMAIN c # {}
    PROVE  Length(c) > 0
<1>1. PICK k : k \in DOMAIN c
    OBVIOUS
<1>2. IsFiniteSet(DOMAIN Delete(c, k)) /\ \A x \in DOMAIN Delete(c, k) : Delete(c, k)[x] \in Nat
    BY FS_Subset DEF Delete, Restrict
<1>3. Length(Delete(c, k)) \in Nat
    BY <1>2, LengthType
<1>4. Length(c) = c[k] + Length(Delete(c, k))
    BY <1>1, LengthDelete
<1> QED
    BY <1>1, <1>3, <1>4
-----------------------------------------------------------------------------
(* Types.  A reverse entry is never empty: a document without terms has     *)
(* none (replace_reverse_entries).                                          *)

Filled(r) == \A d \in DOMAIN r : DOMAIN r[d] # {}

TablesTyped ==
    /\ nodes \in Tables(Nodes, Contents)
    /\ post \subseteq Terms \X Nodes \X Counts
    /\ df \in Tables(Terms, Counts)
    /\ rev \in Tables(Nodes, TermCounts) /\ Filled(rev)
    /\ lens \in Tables(Nodes, Nat)
    /\ meta \in [docs : Nat, sum : Int]
    /\ stamped \in BOOLEAN /\ partial \in BOOLEAN
    /\ bypassed \subseteq Nodes /\ spoiled \subseteq Nodes

Jobs == {"none", "clear", "gap", "chunk"}

(* An error leaves its transaction open and ends its walk, and a walk is    *)
(* under way in a transaction only: what each of them reads is there.       *)
Control ==
    /\ walk # None \/ failed => saved # None
    /\ failed => walk = None
    /\ job = "chunk" => saved # None
    /\ DOMAIN nodes \cup DOMAIN todo \cup bypassed \cup spoiled \subseteq issued
    /\ walk # None => walk.doc \in issued
    /\ saved # None =>
         DOMAIN saved.nodes \cup saved.bypassed \cup saved.spoiled \subseteq issued

TypeOK ==
    /\ TablesTyped
    /\ saved # None => saved \in Copies /\ Filled(saved.rev)
    /\ walk # None => walk \in Walks /\ ~(walk.fresh /\ walk.gone)
    /\ todo \in Tables(Nodes, Contents)
    /\ issued \subseteq Nodes
    /\ failed \in BOOLEAN /\ skip \in BOOLEAN /\ up \in BOOLEAN
    /\ job \in Jobs
    /\ room \in Nat /\ crashes \in Nat /\ intruded \in Nat
    /\ Control

-----------------------------------------------------------------------------
(* The documents.  Of each one that is not spoiled, the postings are its    *)
(* reverse entries and the length is their sum.                             *)

Content(r, d) == IF d \in DOMAIN r THEN r[d] ELSE EmptyTable

(* The postings p hold for document d what the term counts f say.           *)
Posted(p, d, f) ==
    \A t \in Terms, n \in Counts :
        <<t, d, n>> \in p <=> t \in DOMAIN f /\ f[t] = n

DocOK(p, r, l, d) ==
    /\ Posted(p, d, Content(r, d))
    /\ d \in DOMAIN l => l[d] = Length(Content(r, d))
    /\ d \in DOMAIN r => d \in DOMAIN l

(* What a walk has made of its document so far: what it has yet to leave    *)
(* behind, and what it has already reached.                                 *)
Halfway(w) ==
    [t \in DOMAIN w.old \cup (DOMAIN w.target \ DOMAIN w.new) |->
        IF t \in DOMAIN w.old THEN w.old[t] ELSE w.target[t]]

(* The lists of a walk are what is left of both documents.                  *)
WalkShape(w) ==
    /\ DOMAIN w.new \subseteq DOMAIN w.target
    /\ \A t \in DOMAIN w.new : w.new[t] = w.target[t]
    /\ DOMAIN w.old \cap (DOMAIN w.target \ DOMAIN w.new) = {}
    /\ w.length = Length(w.target)
    /\ w.gone => DOMAIN w.target = {}
    /\ w.doc \in DOMAIN lens
    /\ w.fresh => w.doc \notin DOMAIN rev
    /\ lens[w.doc] = IF w.fresh THEN w.length ELSE w.was

Agree(p, r, l, s) == \A d \in Nodes \ s : DocOK(p, r, l, d)

DocsInv ==
    /\ saved # None => Agree(saved.post, saved.rev, saved.lens, saved.spoiled)
    /\ walk = None /\ ~failed => Agree(post, rev, lens, spoiled)
    /\ walk # None =>
         /\ WalkShape(walk)
         /\ Agree(post, rev, lens, spoiled \cup {walk.doc})
         /\ walk.doc \notin spoiled => Posted(post, walk.doc, Halfway(walk))

-----------------------------------------------------------------------------
(* The frequencies.                                                         *)

Frequency(f, t) == IF t \in DOMAIN f THEN f[t] ELSE 0
Frequent(p, f) ==
    /\ IsFiniteSet(p)
    /\ \A t \in Terms : Frequency(f, t) = Cardinality({q \in p : q[1] = t})

FreqInv ==
    /\ saved # None /\ saved.spoiled = {} => Frequent(saved.post, saved.df)
    /\ ~failed /\ spoiled = {} => Frequent(post, df)

-----------------------------------------------------------------------------
(* The totals.                                                              *)

Totalled(l, m) == m.docs = Cardinality(DOMAIN l) /\ m.sum = Length(l)

TotalsInv ==
    /\ saved # None /\ saved.spoiled = {} => Totalled(saved.lens, saved.meta)
    /\ ~failed /\ spoiled = {} =>
         IF walk # None /\ walk.fresh
         THEN Totalled(Delete(lens, walk.doc), meta)
         ELSE Totalled(lens, meta)

-----------------------------------------------------------------------------
(* The nodes.                                                               *)

Apart(b, s) == Nodes \ (b \cup s \cup Excluded)

(* What an index with reverse entries r and lengths l has of document d when *)
(* the nodes are n and a rebuild has yet to index those of z.               *)
Says(n, r, l, d) == d \in DOMAIN l => d \in DOMAIN n /\ Content(r, d) = n[d]
Has(n, l, d) == d \in DOMAIN n /\ n[d] # NoProps => d \in DOMAIN l
Awaits(n, l, z, d) ==
    d \in DOMAIN n /\ n[d] # NoProps =>
        d \in DOMAIN l \/ (d \in DOMAIN z /\ z[d] = n[d])

(* A walk that is under way will say it.                                    *)
Follows(d) ==
    /\ ~partial => Has(nodes, lens, d)
    /\ job \in {"gap", "chunk"} => Awaits(nodes, lens, todo, d)
    /\ IF walk # None /\ walk.doc = d
       THEN IF walk.gone THEN d \notin DOMAIN nodes
            ELSE d \in DOMAIN nodes /\ nodes[d] = walk.target
       ELSE Says(nodes, rev, lens, d)

SavedFollows ==
    saved # None =>
      /\ saved.partial = partial
      /\ \A d \in Apart(saved.bypassed, saved.spoiled) :
           /\ Says(saved.nodes, saved.rev, saved.lens, d)
           /\ ~partial => Has(saved.nodes, saved.lens, d)
           /\ job = "gap" => Awaits(saved.nodes, saved.lens, todo, d)

FollowInv ==
    /\ SavedFollows
    /\ job \in {"gap", "chunk"} => partial
    /\ ~failed => \A d \in Apart(bypassed, spoiled) : Follows(d)

StampInv ==
    /\ partial => ~stamped
    /\ saved # None => (saved.partial => ~saved.stamped)

-----------------------------------------------------------------------------
(* Tables.                                                                  *)

LEMMA TableIs ==
    ASSUME NEW K, NEW V, NEW f
    PROVE  f \in Tables(K, V) <=> DOMAIN f \subseteq K /\ f \in [DOMAIN f -> V]
BY DEF Tables

LEMMA TableEmpty ==
    ASSUME NEW K, NEW V
    PROVE  EmptyTable \in Tables(K, V) /\ DOMAIN EmptyTable = {}
BY TableIs DEF EmptyTable

LEMMA TableAt ==
    ASSUME NEW K, NEW V, NEW f \in Tables(K, V), NEW k \in DOMAIN f
    PROVE  k \in K /\ f[k] \in V
BY TableIs

LEMMA TablePut ==
    ASSUME NEW K, NEW V, NEW f \in Tables(K, V), NEW k \in K, NEW v \in V
    PROVE  Put(f, k, v) \in Tables(K, V)
<1> DEFINE g == Put(f, k, v)
<1>1. DOMAIN f \subseteq K /\ \A x \in DOMAIN f : f[x] \in V
    BY TableIs
<1>2. DOMAIN g \subseteq K /\ \A x \in DOMAIN g : g[x] \in V
    BY <1>1 DEF Put
<1>3. g = [x \in DOMAIN g |-> g[x]]
    BY DEF Put
<1> HIDE DEF g
<1>4. g \in [DOMAIN g -> V]
    BY <1>2, <1>3
<1> QED
    BY <1>2, <1>4, TableIs DEF g

LEMMA TableRestrict ==
    ASSUME NEW K, NEW V, NEW f \in Tables(K, V), NEW S \in SUBSET DOMAIN f
    PROVE  Restrict(f, S) \in Tables(K, V)
<1> DEFINE g == Restrict(f, S)
<1>1. DOMAIN f \subseteq K /\ \A x \in DOMAIN f : f[x] \in V
    BY TableIs
<1>2. DOMAIN g \subseteq K /\ \A x \in DOMAIN g : g[x] \in V
    BY <1>1 DEF Restrict
<1>3. g = [x \in DOMAIN g |-> g[x]]
    BY DEF Restrict
<1> HIDE DEF g
<1>4. g \in [DOMAIN g -> V]
    BY <1>2, <1>3
<1> QED
    BY <1>2, <1>4, TableIs DEF g

LEMMA TableDelete ==
    ASSUME NEW K, NEW V, NEW f \in Tables(K, V), NEW k
    PROVE  Delete(f, k) \in Tables(K, V)
BY TableRestrict DEF Delete

LEMMA PutFacts ==
    ASSUME NEW f, NEW k, NEW v
    PROVE  /\ DOMAIN Put(f, k, v) = DOMAIN f \cup {k}
           /\ Put(f, k, v)[k] = v
           /\ \A x \in DOMAIN f \ {k} : Put(f, k, v)[x] = f[x]
BY DEF Put

LEMMA DeleteFacts ==
    ASSUME NEW f, NEW k
    PROVE  /\ DOMAIN Delete(f, k) = DOMAIN f \ {k}
           /\ \A x \in DOMAIN f \ {k} : Delete(f, k)[x] = f[x]
BY DEF Delete, Restrict

LEMMA FilledPut ==
    ASSUME NEW r, Filled(r), NEW d, NEW c, DOMAIN c # {}
    PROVE  Filled(Put(r, d, c))
BY DEF Filled, Put

LEMMA FilledDelete ==
    ASSUME NEW r, Filled(r), NEW d
    PROVE  Filled(Delete(r, d))
BY DEF Filled, Delete, Restrict

(* The terms of a document, and their number.                               *)
LEMMA DocumentTyped ==
    ASSUME NEW c \in Documents
    PROVE  c \in TermCounts
BY TermAssumption, TableIs DEF IsTable, TermCounts

LEMMA CountsTyped ==
    ASSUME NEW c \in TermCounts
    PROVE  /\ IsFiniteSet(DOMAIN c) /\ DOMAIN c \subseteq Terms
           /\ \A t \in DOMAIN c : c[t] \in Counts
           /\ \A t \in DOMAIN c : c[t] \in Nat
           /\ Length(c) \in Nat
<1>1. DOMAIN c \subseteq Terms /\ \A t \in DOMAIN c : c[t] \in Counts
    BY TableIs DEF TermCounts
<1>2. IsFiniteSet(DOMAIN c)
    BY <1>1, TermAssumption, FS_Subset
<1>3. \A t \in DOMAIN c : c[t] \in Nat
    BY <1>1 DEF Counts
<1>4. Length(c) \in Nat
    BY <1>2, <1>3, LengthType
<1> QED
    BY <1>1, <1>2, <1>3, <1>4

LEMMA StoredTyped ==
    ASSUME NEW c \in TermCounts
    PROVE  Stored(c) \in TermCounts /\ DOMAIN Stored(c) \subseteq DOMAIN c
<1>1. PICK S \in SUBSET DOMAIN c : Stored(c) = c \/ Stored(c) = Restrict(c, S)
    <2>1. CASE DOMAIN c \cap WideTerms = {}
        BY <2>1 DEF Stored
    <2>2. CASE DOMAIN c \cap WideTerms # {}
        <3>1. PICK S : S = {t \in DOMAIN c : t < Min(DOMAIN c \cap WideTerms)}
            OBVIOUS
        <3> QED
            BY <2>2, <3>1 DEF Stored
    <2> QED
        BY <2>1, <2>2
<1>2. Restrict(c, S) \in TermCounts /\ DOMAIN Restrict(c, S) = S
    BY TableRestrict DEF TermCounts, Restrict
<1> QED
    BY <1>1, <1>2

LEMMA LeastTodo ==
    ASSUME NEW S \in SUBSET Nodes, S # {}
    PROVE  Min(S) \in S
<1>1. S \in SUBSET Nat
    BY TermAssumption
<1>2. \E n \in S : \A m \in S : n <= m
    BY <1>1, LeastNumber
<1> QED
    BY <1>2 DEF Min

-----------------------------------------------------------------------------
(* Type correctness.                                                        *)

LEMMA CopyTyped ==
    ASSUME TablesTyped
    PROVE  Copy \in Copies /\ Copy # None
<1>1. Copy \in Copies
    BY DEF TablesTyped, Copy, Copies
<1> QED
    BY <1>1, NoneAssumption

LEMMA RestoreTyped ==
    ASSUME NEW c \in Copies, Filled(c.rev), Restore(c)
    PROVE  TablesTyped'
<1>1. PICK n, p, f, r, l, m, s, b, x, y :
        c = [nodes |-> n, post |-> p, df |-> f, rev |-> r, lens |-> l, meta |-> m,
             stamped |-> s, bypassed |-> b, spoiled |-> x, partial |-> y]
    BY DEF Copies
<1> QED
    BY <1>1 DEF Copies, Restore, TablesTyped

LEMMA WalkTyped ==
    ASSUME TablesTyped, NEW d \in Nodes, NEW old \in TermCounts,
           NEW new \in TermCounts, NEW fresh \in BOOLEAN, NEW gone \in BOOLEAN,
           NEW lenient \in BOOLEAN
    PROVE  /\ Walk(d, old, new, fresh, gone, lenient) \in Walks
           /\ Walk(d, old, new, fresh, gone, lenient) # None
<1>1. Length(new) \in Nat
    BY CountsTyped
<1>2. d \in DOMAIN lens => lens[d] \in Nat
    BY TableAt DEF TablesTyped
<1>3. Walk(d, old, new, fresh, gone, lenient) \in Walks
    BY <1>1, <1>2 DEF Walk, Walks
<1> QED
    BY <1>3, NoneAssumption

LEMMA IndexedTyped ==
    ASSUME TablesTyped, NEW d
    PROVE  Indexed(d) \in TermCounts
BY TableAt, TableEmpty DEF TablesTyped, Indexed, TermCounts

(* The tables a posting, a length or a walk may change.                     *)
LEMMA InsertTyped ==
    ASSUME TablesTyped, walk = None, failed \in BOOLEAN, NEW d \in Nodes,
           NEW c \in TermCounts, NEW lenient \in BOOLEAN, InsertDoc(d, c, lenient)
    PROVE  /\ lens' \in Tables(Nodes, Nat)
           /\ walk' # None => walk' \in Walks /\ ~(walk'.fresh /\ walk'.gone)
                              /\ walk'.doc = d /\ failed' = failed
           /\ spoiled' = spoiled
           /\ failed' \in BOOLEAN
<1>1. CASE Presence(d, lens, rev) = "absent"
    <2>1. /\ lens' = Put(lens, d, Length(c))
          /\ walk' = Walk(d, EmptyTable, c, TRUE, FALSE, lenient)
          /\ UNCHANGED <<failed, spoiled>>
        BY <1>1 DEF InsertDoc
    <2>2. lens' \in Tables(Nodes, Nat)
        BY <2>1, CountsTyped, TablePut DEF TablesTyped
    <2>3. EmptyTable \in TermCounts
        BY TableEmpty DEF TermCounts
    <2>4. walk' \in Walks
        BY <2>1, <2>3, WalkTyped
    <2>5. walk'.doc = d /\ walk'.gone = FALSE
        BY <2>1 DEF Walk
    <2> QED
        BY <2>1, <2>2, <2>4, <2>5
<1>2. CASE Presence(d, lens, rev) # "absent"
    BY <1>2 DEF InsertDoc, TablesTyped
<1> QED
    BY <1>1, <1>2

LEMMA UpdateTyped ==
    ASSUME TablesTyped, walk = None, failed \in BOOLEAN, NEW d \in Nodes,
           NEW c \in TermCounts, NEW lenient \in BOOLEAN, UpdateDoc(d, c, lenient)
    PROVE  /\ lens' \in Tables(Nodes, Nat)
           /\ walk' # None => walk' \in Walks /\ ~(walk'.fresh /\ walk'.gone)
                              /\ walk'.doc = d /\ failed' = failed
           /\ spoiled' = spoiled \/ spoiled' = spoiled \cup {d}
           /\ failed' \in BOOLEAN
<1>1. CASE InsertDoc(d, c, lenient)
    BY <1>1, InsertTyped
<1>2. CASE /\ walk' = IF Indexed(d) = c THEN None
                      ELSE Walk(d, Indexed(d), c, FALSE, FALSE, lenient)
           /\ UNCHANGED <<lens, failed, spoiled>>
    <2>1. Walk(d, Indexed(d), c, FALSE, FALSE, lenient) \in Walks
        BY WalkTyped, IndexedTyped
    <2>2. /\ Walk(d, Indexed(d), c, FALSE, FALSE, lenient).doc = d
          /\ Walk(d, Indexed(d), c, FALSE, FALSE, lenient).gone = FALSE
        BY DEF Walk
    <2> QED
        BY <1>2, <2>1, <2>2 DEF TablesTyped
<1>3. CASE Fail(d, lenient) /\ UNCHANGED lens
    BY <1>3 DEF Fail, TablesTyped
<1> QED
    BY <1>1, <1>2, <1>3 DEF UpdateDoc

LEMMA DeleteTyped ==
    ASSUME TablesTyped, walk = None, failed \in BOOLEAN, NEW d \in Nodes,
           NEW lenient \in BOOLEAN, DeleteDoc(d, lenient)
    PROVE  /\ walk' # None => walk' \in Walks /\ ~(walk'.fresh /\ walk'.gone)
                              /\ walk'.doc = d /\ failed' = failed
           /\ spoiled' = spoiled \/ spoiled' = spoiled \cup {d}
           /\ failed' \in BOOLEAN
<1>1. CASE UNCHANGED <<walk, failed, spoiled>>
    BY <1>1
<1>2. CASE /\ walk' = Walk(d, Indexed(d), EmptyTable, FALSE, TRUE, lenient)
           /\ UNCHANGED <<failed, spoiled>>
    <2>1. Walk(d, Indexed(d), EmptyTable, FALSE, TRUE, lenient) \in Walks
        BY WalkTyped, IndexedTyped, TableEmpty DEF TermCounts
    <2>2. /\ Walk(d, Indexed(d), EmptyTable, FALSE, TRUE, lenient).doc = d
          /\ Walk(d, Indexed(d), EmptyTable, FALSE, TRUE, lenient).fresh = FALSE
        BY DEF Walk
    <2> QED
        BY <1>2, <2>1, <2>2
<1>3. CASE Fail(d, lenient)
    BY <1>3 DEF Fail
<1> QED
    BY <1>1, <1>2, <1>3 DEF DeleteDoc

LEMMA TypeInit ==
    ASSUME Init
    PROVE  TypeOK
<1>1. TablesTyped
    <2>1. /\ EmptyTable \in Tables(Nodes, Contents) /\ EmptyTable \in Tables(Terms, Counts)
          /\ EmptyTable \in Tables(Nodes, TermCounts) /\ EmptyTable \in Tables(Nodes, Nat)
          /\ Filled(EmptyTable)
        BY TableEmpty DEF Filled
    <2>2. NoMeta \in [docs : Nat, sum : Int]
        BY DEF NoMeta
    <2> QED
        BY <2>1, <2>2 DEF Init, TablesTyped
<1>2. todo \in Tables(Nodes, Contents) /\ DOMAIN todo = {} /\ DOMAIN nodes = {}
    BY TableEmpty DEF Init
<1> QED
    BY <1>1, <1>2 DEF Init, TypeOK, Control, Jobs

(* Steps that leave the index and its walk alone.                           *)
LEMMA TypeStatement ==
    ASSUME TypeOK, Begin \/ Commit \/ Abort \/ SetSkip
    PROVE  TypeOK'
<1>1. CASE Begin
    <2>1. TablesTyped'
        BY <1>1 DEF Begin, tables, history, TypeOK, TablesTyped
    <2>2. Copy \in Copies /\ Copy # None /\ Filled(Copy.rev)
        BY CopyTyped DEF TypeOK, TablesTyped, Copy
    <2>3. Control'
        BY <1>1, <2>2 DEF Begin, tables, history, TypeOK, Control, Copy
    <2>4. room' \in Nat /\ intruded' \in Nat
        BY <1>1, JobAssumption DEF Begin, TypeOK
    <2> QED
        BY <1>1, <2>1, <2>2, <2>3, <2>4 DEF Begin, tables, history, TypeOK
<1>2. CASE Commit
    BY <1>2 DEF Commit, Ready, InChunk, tables, history, TypeOK, TablesTyped, Control
<1>3. CASE Abort
    <2>1. TablesTyped'
        BY <1>3, RestoreTyped DEF Abort, TypeOK
    <2>2. Control'
        BY <1>3 DEF Abort, TypeOK, Control, Restore, InChunk
    <2> QED
        BY <1>3, <2>1, <2>2 DEF Abort, TypeOK
<1>4. CASE SetSkip
    BY <1>4 DEF SetSkip, tables, history, TypeOK, TablesTyped, Control
<1> QED
    BY <1>1, <1>2, <1>3, <1>4

LEMMA TypeAdd ==
    ASSUME TypeOK, AddNode
    PROVE  TypeOK'
<1>1. PICK d \in Nodes \ issued, c \in Contents :
       /\ nodes' = Put(nodes, d, c)
       /\ issued' = issued \cup {d}
       /\ \/ /\ ~Skips(d) /\ c # NoProps
             /\ InsertDoc(d, c, FALSE)
             /\ UNCHANGED bypassed
          \/ /\ Skips(d) \/ c = NoProps
             /\ bypassed' = IF Bypasses(d) /\ c # NoProps
                            THEN bypassed \cup {d} ELSE bypassed
             /\ UNCHANGED <<lens, walk, failed, spoiled>>
    BY DEF AddNode
<1>2. saved # None /\ ~failed /\ walk = None /\ room' \in Nat
    BY DEF AddNode, Ready, TypeOK
<1>3. /\ lens' \in Tables(Nodes, Nat)
      /\ walk' # None => walk' \in Walks /\ ~(walk'.fresh /\ walk'.gone)
                         /\ walk'.doc = d /\ ~failed'
      /\ spoiled' = spoiled /\ failed' \in BOOLEAN
      /\ failed' => walk' = None
    <2>1. CASE c # NoProps /\ InsertDoc(d, c, FALSE)
        <3>1. c \in TermCounts
            BY <2>1, DocumentTyped DEF Contents
        <3> QED
            BY <1>2, <2>1, <3>1, InsertTyped DEF TypeOK
    <2>2. CASE UNCHANGED <<lens, walk, failed, spoiled>>
        BY <1>2, <2>2 DEF TypeOK, TablesTyped
    <2> QED
        BY <1>1, <2>1, <2>2
<1>4. nodes' \in Tables(Nodes, Contents) /\ DOMAIN nodes' = DOMAIN nodes \cup {d}
    <2>1. nodes' = Put(nodes, d, c) /\ nodes \in Tables(Nodes, Contents)
        BY <1>1 DEF TypeOK, TablesTyped
    <2> QED
        BY <2>1, TablePut, PutFacts
<1>5. bypassed' \subseteq bypassed \cup {d}
    BY <1>1
<1>6. TablesTyped'
    BY <1>3, <1>4, <1>5 DEF AddNode, TypeOK, TablesTyped
<1>7. Control'
    BY <1>1, <1>2, <1>3, <1>4, <1>5 DEF AddNode, TypeOK, Control
<1> QED
    BY <1>1, <1>2, <1>3, <1>6, <1>7 DEF AddNode, TypeOK

LEMMA TypeUpdate ==
    ASSUME TypeOK, UpdateNode
    PROVE  TypeOK'
<1>1. PICK d \in DOMAIN nodes, c \in Documents :
       /\ nodes' = Put(nodes, d, c)
       /\ \/ /\ ~Skips(d)
             /\ UpdateDoc(d, c, FALSE)
             /\ bypassed' = bypassed \ {d}
          \/ /\ Skips(d)
             /\ bypassed' = IF Bypasses(d) THEN bypassed \cup {d} ELSE bypassed
             /\ UNCHANGED <<lens, walk, failed, spoiled>>
    BY DEF UpdateNode
<1>2. saved # None /\ ~failed /\ walk = None /\ room' \in Nat
    BY DEF UpdateNode, Ready, TypeOK
<1>3. d \in Nodes /\ d \in issued
    BY TableAt DEF TypeOK, TablesTyped, Control
<1>4. /\ lens' \in Tables(Nodes, Nat)
      /\ walk' # None => walk' \in Walks /\ ~(walk'.fresh /\ walk'.gone)
                         /\ walk'.doc = d /\ ~failed'
      /\ spoiled' \subseteq spoiled \cup {d} /\ failed' \in BOOLEAN
      /\ failed' => walk' = None
    <2>1. CASE UpdateDoc(d, c, FALSE)
        BY <1>2, <1>3, <2>1, UpdateTyped, DocumentTyped DEF TypeOK
    <2>2. CASE UNCHANGED <<lens, walk, failed, spoiled>>
        BY <1>2, <2>2 DEF TypeOK, TablesTyped
    <2> QED
        BY <1>1, <2>1, <2>2
<1>5. nodes' \in Tables(Nodes, Contents) /\ DOMAIN nodes' = DOMAIN nodes \cup {d}
    <2>1. /\ nodes' = Put(nodes, d, c) /\ nodes \in Tables(Nodes, Contents)
          /\ c \in Contents
        BY <1>1 DEF TypeOK, TablesTyped, Contents
    <2> QED
        BY <1>3, <2>1, TablePut, PutFacts
<1>6. bypassed' \subseteq bypassed \cup {d}
    BY <1>1
<1>7. TablesTyped'
    BY <1>3, <1>4, <1>5, <1>6 DEF UpdateNode, TypeOK, TablesTyped
<1>8. Control'
    BY <1>2, <1>3, <1>4, <1>5, <1>6 DEF UpdateNode, TypeOK, Control
<1> QED
    BY <1>2, <1>4, <1>7, <1>8 DEF UpdateNode, TypeOK

LEMMA TypeDrop ==
    ASSUME TypeOK, DropNode \/ DropNodeOnly
    PROVE  TypeOK'
<1>1. PICK d \in DOMAIN nodes, lenient \in BOOLEAN :
       /\ nodes' = Delete(nodes, d)
       /\ DeleteDoc(d, lenient) \/ UNCHANGED <<walk, failed, spoiled>>
       /\ bypassed' \subseteq bypassed \cup {d}
    <2>1. CASE DropNode
        <3>1. PICK d \in DOMAIN nodes, lenient \in {FALSE, CompatWrites > 0} :
                 /\ nodes' = Delete(nodes, d)
                 /\ \/ /\ ~Skips(d)
                       /\ DeleteDoc(d, lenient)
                       /\ bypassed' = bypassed \ {d}
                    \/ /\ Skips(d)
                       /\ bypassed' = IF Bypasses(d) THEN bypassed \cup {d}
                                      ELSE bypassed
                       /\ UNCHANGED <<walk, failed, spoiled>>
            BY <2>1 DEF DropNode
        <3>2. bypassed' \subseteq bypassed \cup {d}
            BY <3>1
        <3>3. lenient \in BOOLEAN
            <4>1. (CompatWrites > 0) \in BOOLEAN
                <5>1. CASE CompatWrites > 0
                    BY <5>1
                <5>2. CASE ~ (CompatWrites > 0)
                    BY <5>2
                <5> QED
                    BY <5>1, <5>2
            <4> QED
                BY <4>1
        <3> QED
            BY <3>1, <3>2, <3>3
    <2>2. CASE DropNodeOnly
        BY <2>2 DEF DropNodeOnly
    <2> QED
        BY <2>1, <2>2
<1>2. /\ saved # None /\ ~failed /\ walk = None /\ room' \in Nat
      /\ UNCHANGED <<post, df, rev, lens, meta, stamped, issued, saved, skip,
                     up, job, todo, crashes, intruded, partial>>
    <2>1. /\ Ready /\ room > 0 /\ room' = room - 1
          /\ UNCHANGED <<post, df, rev, lens, meta, stamped, issued, saved, skip,
                         up, job, todo, crashes, intruded, partial>>
        BY DEF DropNode, DropNodeOnly
    <2>2. room \in Nat
        BY DEF TypeOK
    <2>3. room' \in Nat
        BY <2>1, <2>2
    <2> QED
        BY <2>1, <2>3 DEF Ready
<1>3. d \in Nodes /\ d \in issued
    BY TableAt DEF TypeOK, TablesTyped, Control
<1>4. /\ walk' # None => walk' \in Walks /\ ~(walk'.fresh /\ walk'.gone)
                         /\ walk'.doc = d /\ ~failed'
      /\ spoiled' \subseteq spoiled \cup {d} /\ failed' \in BOOLEAN
      /\ failed' => walk' = None
    <2>1. CASE DeleteDoc(d, lenient)
        BY <1>2, <1>3, <2>1, DeleteTyped DEF TypeOK
    <2>2. CASE UNCHANGED <<walk, failed, spoiled>>
        BY <1>2, <2>2 DEF TypeOK
    <2> QED
        BY <1>1, <2>1, <2>2
<1>5. nodes' \in Tables(Nodes, Contents) /\ DOMAIN nodes' \subseteq DOMAIN nodes
    BY <1>1, TableDelete, DeleteFacts DEF TypeOK, TablesTyped
<1>6. TablesTyped'
    BY <1>1, <1>2, <1>3, <1>4, <1>5 DEF TypeOK, TablesTyped
<1>7. Control'
    BY <1>1, <1>2, <1>3, <1>4, <1>5 DEF TypeOK, Control
<1> QED
    BY <1>2, <1>4, <1>6, <1>7 DEF TypeOK

(* A posting written or removed.                                            *)
LEMMA WithTyped ==
    ASSUME NEW p \in SUBSET (Terms \X Nodes \X Counts), NEW f \in Tables(Terms, Counts),
           NEW d \in Nodes, NEW t \in Terms, NEW n \in Counts
    PROVE  /\ WithPosting(d, t, n, p, f).post \in SUBSET (Terms \X Nodes \X Counts)
           /\ WithPosting(d, t, n, p, f).df \in Tables(Terms, Counts)
<1>1. (IF t \in DOMAIN f THEN f[t] + 1 ELSE 1) \in Counts
    <2>1. t \in DOMAIN f => f[t] \in Counts
        BY TableAt
    <2> QED
        BY <2>1 DEF Counts
<1> QED
    BY <1>1, TablePut DEF WithPosting

LEMMA WithoutTyped ==
    ASSUME NEW p \in SUBSET (Terms \X Nodes \X Counts), NEW f \in Tables(Terms, Counts),
           NEW d \in Nodes, NEW t \in DOMAIN f, NEW n \in Counts
    PROVE  /\ WithoutPosting(d, t, n, p, f).post \in SUBSET (Terms \X Nodes \X Counts)
           /\ WithoutPosting(d, t, n, p, f).df \in Tables(Terms, Counts)
<1>1. t \in Terms /\ f[t] \in Counts
    BY TableAt
<1>2. f[t] <= 1 \/ f[t] - 1 \in Counts
    BY <1>1 DEF Counts
<1> QED
    BY <1>1, <1>2, TablePut, TableDelete DEF WithoutPosting

LEMMA AdvanceTyped ==
    ASSUME walk \in Walks, NEW t, Advance(t)
    PROVE  /\ walk' \in Walks /\ walk' # None /\ walk'.doc = walk.doc
           /\ walk'.fresh = walk.fresh /\ walk'.gone = walk.gone
<1>1. Delete(walk.old, t) \in TermCounts /\ Delete(walk.new, t) \in TermCounts
    BY TableDelete DEF Walks, TermCounts
<1>2. /\ walk' \in Walks /\ walk'.doc = walk.doc
      /\ walk'.fresh = walk.fresh /\ walk'.gone = walk.gone
    BY <1>1 DEF Advance, Walks
<1> QED
    BY <1>2, NoneAssumption

LEMMA PendingTyped ==
    ASSUME walk \in Walks, NEW t \in Pending(walk)
    PROVE  /\ t \in Terms
           /\ t \in DOMAIN walk.old => walk.old[t] \in Counts
           /\ t \in DOMAIN walk.new => walk.new[t] \in Counts
BY CountsTyped DEF Walks, Pending

LEMMA TypePosting ==
    ASSUME TypeOK,
           RemovePosting \/ AddPosting \/ KeepPosting \/ ReplacePosting \/ PostingFails
    PROVE  TypeOK'
<1>1. /\ walk \in Walks /\ ~(walk.fresh /\ walk.gone) /\ walk # None /\ saved # None /\ ~failed /\ walk.doc \in Nodes
      /\ UNCHANGED aside
    BY DEF TypeOK, Control, Walks, RemovePosting, AddPosting, KeepPosting,
           ReplacePosting, PostingFails
<1>2. /\ post' \in SUBSET (Terms \X Nodes \X Counts)
      /\ df' \in Tables(Terms, Counts)
      /\ walk' = None \/ (walk' \in Walks /\ ~(walk'.fresh /\ walk'.gone) /\ walk'.doc = walk.doc)
      /\ failed' => walk' = None
      /\ failed' \in BOOLEAN
      /\ spoiled' \subseteq spoiled \cup {walk.doc}
    <2>1. CASE RemovePosting
        <3>1. PICK t \in Pending(walk) :
                 /\ OnlyOld(walk, t) /\ Removable(walk.doc, t, walk.old[t])
                 /\ post' = WithoutPosting(walk.doc, t, walk.old[t], post, df).post
                 /\ df' = WithoutPosting(walk.doc, t, walk.old[t], post, df).df
                 /\ Advance(t)
            BY <2>1 DEF RemovePosting
        <3>2. walk.old[t] \in Counts /\ t \in DOMAIN df
            BY <1>1, <3>1, PendingTyped DEF OnlyOld, Removable
        <3>3. walk' \in Walks /\ ~(walk'.fresh /\ walk'.gone) /\ walk'.doc = walk.doc
            BY <1>1, <3>1, AdvanceTyped
        <3> QED
            BY <1>1, <2>1, <3>1, <3>2, <3>3, WithoutTyped
                DEF RemovePosting, TypeOK, TablesTyped
    <2>2. CASE AddPosting
        <3>1. PICK t \in Pending(walk) :
                 /\ OnlyNew(walk, t)
                 /\ post' = WithPosting(walk.doc, t, walk.new[t], post, df).post
                 /\ df' = WithPosting(walk.doc, t, walk.new[t], post, df).df
                 /\ Advance(t)
            BY <2>2 DEF AddPosting
        <3>2. walk.new[t] \in Counts /\ t \in Terms
            BY <1>1, <3>1, PendingTyped DEF OnlyNew
        <3>3. walk' \in Walks /\ ~(walk'.fresh /\ walk'.gone) /\ walk'.doc = walk.doc
            BY <1>1, <3>1, AdvanceTyped
        <3> QED
            BY <1>1, <2>2, <3>1, <3>2, <3>3, WithTyped
                DEF AddPosting, TypeOK, TablesTyped
    <2>3. CASE KeepPosting
        <3>1. PICK t \in Pending(walk) : Advance(t)
            BY <2>3 DEF KeepPosting
        <3>2. walk' \in Walks /\ ~(walk'.fresh /\ walk'.gone) /\ walk'.doc = walk.doc
            BY <1>1, <3>1, AdvanceTyped
        <3> QED
            BY <1>1, <2>3, <3>2 DEF KeepPosting, TypeOK, TablesTyped
    <2>4. CASE ReplacePosting
        <3>1. PICK t, x :
                 /\ t \in Pending(walk)
                 /\ Changed(walk, t) /\ Removable(walk.doc, t, walk.old[t])
                 /\ x = WithoutPosting(walk.doc, t, walk.old[t], post, df)
                 /\ post' = WithPosting(walk.doc, t, walk.new[t], x.post, x.df).post
                 /\ df' = WithPosting(walk.doc, t, walk.new[t], x.post, x.df).df
                 /\ Advance(t)
            BY <2>4 DEF ReplacePosting
        <3>2. /\ t \in Terms /\ t \in DOMAIN df
              /\ walk.new[t] \in Counts /\ walk.old[t] \in Counts
            BY <1>1, <3>1, PendingTyped DEF Changed, Removable
        <3>3. walk' \in Walks /\ ~(walk'.fresh /\ walk'.gone) /\ walk'.doc = walk.doc
            BY <1>1, <3>1, AdvanceTyped
        <3>4. /\ x.post \in SUBSET (Terms \X Nodes \X Counts)
              /\ x.df \in Tables(Terms, Counts)
            BY <1>1, <3>1, <3>2, WithoutTyped DEF TypeOK, TablesTyped
        <3> QED
            BY <1>1, <2>4, <3>1, <3>2, <3>3, <3>4, WithTyped
                DEF ReplacePosting, TypeOK
    <2>5. CASE PostingFails
        BY <1>1, <2>5 DEF PostingFails, Fail, TypeOK, TablesTyped, Walks
    <2> QED
        BY <2>1, <2>2, <2>3, <2>4, <2>5
<1>3. TablesTyped'
    BY <1>1, <1>2 DEF aside, TypeOK, TablesTyped
<1>4. Control'
    BY <1>1, <1>2 DEF aside, TypeOK, Control
<1> QED
    BY <1>1, <1>2, <1>3, <1>4 DEF aside, TypeOK

LEMMA TypeEnd ==
    ASSUME TypeOK, EndWalk \/ ReverseFails
    PROVE  TypeOK'
<1>w. PICK w : w = walk
    OBVIOUS
<1>1. /\ w \in Walks /\ ~(w.fresh /\ w.gone) /\ w # None /\ saved # None /\ ~failed
      /\ w.doc \in Nodes /\ w.doc \in issued
    BY <1>w DEF TypeOK, Control, Walks, EndWalk, ReverseFails, Finishing
<1>2. Stored(w.target) \in TermCounts
    BY <1>1, StoredTyped DEF Walks
<1>3. rev' \in Tables(Nodes, TermCounts) /\ Filled(rev')
    <2>1. rev' = IF DOMAIN Stored(w.target) = {} THEN Delete(rev, w.doc)
                 ELSE Put(rev, w.doc, Stored(w.target))
        BY <1>w DEF EndWalk, ReverseFails, StoreReverse
    <2>2. rev' \in Tables(Nodes, TermCounts)
        BY <1>1, <1>2, <2>1, TablePut, TableDelete DEF TypeOK, TablesTyped
    <2>3. Filled(rev')
        <3>1. Filled(rev)
            BY DEF TypeOK, TablesTyped
        <3> QED
            BY <2>1, <3>1, FilledPut, FilledDelete
    <2> QED
        BY <2>2, <2>3
<1>4. lens' \in Tables(Nodes, Nat)
    <2>1. w.length \in Nat
        BY <1>1 DEF Walks
    <2>2. \/ lens' = lens \/ lens' = Delete(lens, w.doc)
          \/ lens' = Put(lens, w.doc, w.length)
        BY <1>w DEF EndWalk, ReverseFails
    <2> QED
        BY <1>1, <2>1, <2>2, TablePut, TableDelete DEF TypeOK, TablesTyped
<1>5. meta' \in [docs : Nat, sum : Int]
    <2>1. meta' = meta \/ (Records(w) /\ Recordable(w) /\ meta' = Recorded(w))
        BY <1>w DEF EndWalk, ReverseFails
    <2>2. w.length \in Int /\ w.was \in Int
        BY <1>1 DEF Walks
    <2>3. meta.docs \in Nat /\ meta.sum \in Int /\ meta \in [docs : Nat, sum : Int]
        BY DEF TypeOK, TablesTyped
    <2>4. Records(w) /\ Recordable(w) => Recorded(w) \in [docs : Nat, sum : Int]
        <3>1. CASE w.fresh
            <4>1. Recorded(w) = [docs |-> meta.docs + 1, sum |-> meta.sum + w.length]
                BY <1>1, <3>1 DEF Recorded
            <4> QED
                BY <2>2, <2>3, <4>1
        <3>2. CASE ~w.fresh /\ w.gone
            <4>1. Records(w) /\ Recordable(w) => meta.docs - 1 \in Nat
                BY <2>3, <3>2 DEF Recordable
            <4> QED
                BY <2>2, <2>3, <3>2, <4>1 DEF Recorded
        <3>3. CASE ~w.fresh /\ ~w.gone
            <4>1. Recorded(w) = [meta EXCEPT !.sum = @ - w.was + w.length]
                BY <3>3 DEF Recorded
            <4> QED
                BY <2>2, <2>3, <4>1
        <3> QED
            BY <3>1, <3>2, <3>3
    <2> QED
        BY <2>1, <2>3, <2>4
<1>6. /\ walk' = None /\ failed' \in BOOLEAN
      /\ spoiled' \subseteq spoiled \cup {w.doc}
    BY <1>w, <1>1 DEF EndWalk, ReverseFails, Fail, TypeOK, TablesTyped, Walks
<1>7. UNCHANGED <<nodes, post, df, stamped, issued, saved, skip, up, job, todo,
                  room, crashes, intruded, bypassed, partial>>
    BY DEF EndWalk, ReverseFails
<1>8. TablesTyped'
    BY <1>1, <1>3, <1>4, <1>5, <1>6, <1>7 DEF TypeOK, TablesTyped
<1>9. Control'
    BY <1>w, <1>1, <1>6, <1>7 DEF TypeOK, Control
<1> QED
    BY <1>6, <1>7, <1>8, <1>9 DEF TypeOK

LEMMA TypeRebuild ==
    ASSUME TypeOK, StartRebuild \/ Start \/ ClearIndex \/ EndRebuild
    PROVE  TypeOK'
<1>1. CASE StartRebuild
    BY <1>1 DEF StartRebuild, tables, history, TypeOK, TablesTyped, Control, Jobs
<1>2. CASE Start
    BY <1>2 DEF Start, tables, history, TypeOK, TablesTyped, Control, Jobs
<1>3. CASE ClearIndex
    <2>1. /\ EmptyTable \in Tables(Terms, Counts)
          /\ EmptyTable \in Tables(Nodes, TermCounts) /\ EmptyTable \in Tables(Nodes, Nat)
          /\ Filled(EmptyTable)
        BY TableEmpty DEF Filled
    <2>2. NoMeta \in [docs : Nat, sum : Int]
        BY DEF NoMeta
    <2>3. /\ bypassed' = {d \in issued : Stale(d)}
          /\ bypassed' \subseteq issued /\ issued \subseteq Nodes
        BY <1>3 DEF ClearIndex, TypeOK
    <2>4. TablesTyped'
        BY <1>3, <2>1, <2>2, <2>3 DEF ClearIndex, TypeOK, TablesTyped
    <2>5. Control'
        BY <1>3, <2>3 DEF ClearIndex, TypeOK, Control
    <2> QED
        BY <1>3, <2>4, <2>5 DEF ClearIndex, TypeOK, Jobs
<1>4. CASE EndRebuild
    <2>1. stamped' \in BOOLEAN
        BY <1>4 DEF EndRebuild, TypeOK, TablesTyped
    <2>2. partial' \in BOOLEAN /\ up' \in BOOLEAN /\ job' \in Jobs
        BY <1>4 DEF EndRebuild, Jobs
    <2> QED
        BY <1>4, <2>1, <2>2 DEF EndRebuild, TypeOK, TablesTyped, Control
<1> QED
    BY <1>1, <1>2, <1>3, <1>4

LEMMA TypeChunk ==
    ASSUME TypeOK, OpenChunk \/ IndexNode \/ CloseChunk
    PROVE  TypeOK'
<1>1. CASE OpenChunk
    <2>1. TablesTyped'
        BY <1>1 DEF OpenChunk, tables, history, TypeOK, TablesTyped
    <2>2. Copy \in Copies /\ Copy # None /\ Filled(Copy.rev)
        BY CopyTyped DEF TypeOK, TablesTyped, Copy
    <2>3. Control'
        BY <1>1, <2>2 DEF OpenChunk, tables, history, TypeOK, Control, Copy
    <2>4. room' \in Nat
        BY <1>1, JobAssumption DEF OpenChunk
    <2> QED
        BY <1>1, <2>1, <2>2, <2>3, <2>4 DEF OpenChunk, tables, history, TypeOK, Jobs
<1>2. CASE CloseChunk
    BY <1>2 DEF CloseChunk, InChunk, tables, history, TypeOK, TablesTyped, Control, Jobs
<1>3. CASE IndexNode
    <2>1. PICK d : /\ d = Min(DOMAIN todo)
                   /\ \/ /\ todo[d] # NoProps
                         /\ InsertDoc(d, todo[d], up)
                      \/ UNCHANGED <<lens, walk, failed, spoiled>>
                   /\ bypassed' \subseteq bypassed \cup {d}
                   /\ todo' = Delete(todo, d)
        BY <1>3 DEF IndexNode
    <2>2. d \in DOMAIN todo /\ d \in Nodes /\ d \in issued /\ todo[d] \in Contents
        <3>1. DOMAIN todo \in SUBSET Nodes
            BY TableIs DEF TypeOK
        <3>2. d \in DOMAIN todo
            BY <1>3, <2>1, <3>1, LeastTodo DEF IndexNode
        <3> QED
            BY <3>1, <3>2, TableAt DEF TypeOK, Control
    <2>3. saved # None /\ ~failed /\ walk = None
        BY <1>3 DEF IndexNode, InChunk, TypeOK, Control
    <2>4. room' \in Nat
        BY <1>3 DEF IndexNode, TypeOK
    <2>5. /\ lens' \in Tables(Nodes, Nat)
          /\ walk' # None => walk' \in Walks /\ ~(walk'.fresh /\ walk'.gone)
                             /\ walk'.doc = d
                             /\ ~failed'
          /\ spoiled' = spoiled /\ failed' \in BOOLEAN
          /\ failed' => walk' = None
        <3>1. CASE todo[d] # NoProps /\ InsertDoc(d, todo[d], up)
            <4>1. todo[d] \in TermCounts
                BY <2>2, <3>1, DocumentTyped DEF Contents
            <4>2. PICK c \in TermCounts, u \in BOOLEAN : c = todo[d] /\ u = up
                BY <4>1 DEF TypeOK
            <4>3. /\ lens' \in Tables(Nodes, Nat)
                  /\ walk' # None => walk' \in Walks /\ ~(walk'.fresh /\ walk'.gone)
                                     /\ walk'.doc = d /\ failed' = failed
                  /\ spoiled' = spoiled
                  /\ failed' \in BOOLEAN
                <5>1. InsertDoc(d, c, u) /\ TablesTyped /\ failed \in BOOLEAN
                    BY <3>1, <4>2 DEF TypeOK
                <5> QED
                    BY <2>2, <2>3, <5>1, InsertTyped
            <4> QED
                BY <2>3, <4>3
        <3>2. CASE UNCHANGED <<lens, walk, failed, spoiled>>
            BY <2>3, <3>2 DEF TypeOK, TablesTyped
        <3> QED
            BY <2>1, <3>1, <3>2
    <2>6. todo' \in Tables(Nodes, Contents) /\ DOMAIN todo' \subseteq DOMAIN todo
        BY <2>1, TableDelete, DeleteFacts DEF TypeOK
    <2>7. TablesTyped'
        BY <1>3, <2>1, <2>2, <2>5 DEF IndexNode, TypeOK, TablesTyped
    <2>8. Control'
        BY <1>3, <2>1, <2>2, <2>3, <2>5, <2>6 DEF IndexNode, TypeOK, Control
    <2> QED
        BY <1>3, <2>4, <2>5, <2>6, <2>7, <2>8 DEF IndexNode, TypeOK
<1> QED
    BY <1>1, <1>2, <1>3

LEMMA TypeFailure ==
    ASSUME TypeOK, StartFails \/ Crash
    PROVE  TypeOK'
<1>0. EmptyTable \in Tables(Nodes, Contents) /\ DOMAIN EmptyTable = {}
    BY TableEmpty
<1>1. CASE StartFails
    <2>1. saved # None
        BY <1>1 DEF StartFails, InChunk, TypeOK, Control
    <2>2. TablesTyped'
        BY <1>1, <2>1, RestoreTyped DEF StartFails, TypeOK
    <2>3. Control'
        BY <1>0, <1>1, <2>1 DEF StartFails, TypeOK, Control, Restore
    <2> QED
        BY <1>0, <1>1, <2>2, <2>3 DEF StartFails, TypeOK, Jobs
<1>2. CASE Crash
    <2>1. TablesTyped' /\ DOMAIN nodes' \cup bypassed' \cup spoiled' \subseteq issued
        <3>1. CASE saved # None
            <4>1. Restore(saved)
                BY <1>2, <3>1 DEF Crash, Visible
            <4>2. TablesTyped'
                BY <3>1, <4>1, RestoreTyped DEF TypeOK
            <4> QED
                BY <3>1, <4>1, <4>2 DEF Restore, TypeOK, Control
        <3>2. CASE saved = None
            <4>1. Restore(Copy)
                BY <1>2, <3>2 DEF Crash, Visible
            <4>2. UNCHANGED <<tables, history>>
                BY <4>1 DEF Restore, Copy, tables, history
            <4> QED
                BY <4>2 DEF tables, history, TypeOK, TablesTyped, Control
        <3> QED
            BY <3>1, <3>2
    <2>2. crashes' \in Nat
        BY <1>2 DEF Crash, TypeOK
    <2>3. Control'
        BY <1>0, <1>2, <2>1 DEF Crash, TypeOK, Control
    <2> QED
        BY <1>0, <1>2, <2>1, <2>2, <2>3 DEF Crash, TypeOK, Jobs
<1> QED
    BY <1>1, <1>2

LEMMA TypeStep ==
    ASSUME TypeOK, [Next]_vars
    PROVE  TypeOK'
<1>1. CASE UNCHANGED vars
    BY <1>1 DEF vars, tables, history, TypeOK, TablesTyped, Control
<1>2. CASE Next
    BY <1>2, TypeStatement, TypeAdd, TypeUpdate, TypeDrop, TypePosting, TypeEnd,
       TypeRebuild, TypeChunk, TypeFailure DEF Next
<1> QED
    BY <1>1, <1>2

(* Every table, copy, walk and list of the rebuild holds values of its own   *)
(* kind, no reverse entry is empty, an error ends its walk and leaves its    *)
(* transaction open, and no walk goes on outside a transaction.             *)
THEOREM TypeCorrect == Spec => []TypeOK
<1>1. Init => TypeOK
    BY TypeInit
<1>2. TypeOK /\ [Next]_vars => TypeOK'
    BY TypeStep
<1> QED
    BY <1>1, <1>2, PTL DEF Spec

-----------------------------------------------------------------------------
(* A cleared index.                                                         *)

(* A kill, an abort or a failed start, whatever the rebuild had reached,     *)
(* leaves no index that was cleared and not filled with the stamp of a       *)
(* current one.                                                             *)
THEOREM NoHalfRebuildStamped == Spec => []PartialIsUnstamped
<1>1. Init => StampInv
    BY DEF Init, StampInv
<1>2. TypeOK /\ StampInv /\ [Next]_vars => StampInv'
    <2> SUFFICES ASSUME TypeOK, StampInv, [Next]_vars
                 PROVE  StampInv'
        OBVIOUS
    <2>1. CASE UNCHANGED <<stamped, partial, saved>>
        BY <2>1 DEF StampInv
    <2>2. CASE Begin \/ OpenChunk
        BY <2>2 DEF Begin, OpenChunk, tables, history, Copy, StampInv
    <2>3. CASE UNCHANGED <<stamped, partial>> /\ saved' = None
        BY <2>3 DEF StampInv
    <2>4. CASE Restore(Visible) /\ saved' = None
        BY <2>4 DEF Restore, Visible, Copy, StampInv
    <2>5. CASE ClearIndex
        BY <2>5 DEF ClearIndex, StampInv
    <2>6. CASE EndRebuild
        BY <2>6 DEF EndRebuild, StampInv
    <2>7. CASE UNCHANGED vars
        BY <2>1, <2>7 DEF vars, tables, history
    <2>8. CASE Next
        <3>1. Commit \/ CloseChunk => UNCHANGED <<stamped, partial>> /\ saved' = None
            BY DEF Commit, CloseChunk, tables, history
        <3>2. Abort \/ StartFails \/ Crash => Restore(Visible) /\ saved' = None
            BY DEF Abort, StartFails, Crash, Visible, InChunk, TypeOK, Control
        <3>3. AddNode \/ UpdateNode \/ DropNode \/ DropNodeOnly \/ SetSkip
                => UNCHANGED <<stamped, partial, saved>>
            BY DEF AddNode, UpdateNode, DropNode, DropNodeOnly, SetSkip, tables, history
        <3>4. RemovePosting \/ AddPosting \/ KeepPosting \/ ReplacePosting \/ PostingFails
                => UNCHANGED <<stamped, partial, saved>>
            BY DEF RemovePosting, AddPosting, KeepPosting, ReplacePosting,
                   PostingFails, aside
        <3>5. EndWalk \/ ReverseFails \/ StartRebuild \/ Start \/ IndexNode
                => UNCHANGED <<stamped, partial, saved>>
            BY DEF EndWalk, ReverseFails, StartRebuild, Start, IndexNode, tables,
                   history
        <3> QED
            BY <2>1, <2>2, <2>3, <2>4, <2>5, <2>6, <2>8, <3>1, <3>2, <3>3, <3>4,
               <3>5 DEF Next
    <2> QED
        BY <2>7, <2>8
<1>3. StampInv => PartialIsUnstamped
    BY DEF StampInv, PartialIsUnstamped, Visible, Copy
<1> QED
    BY <1>1, <1>2, <1>3, TypeCorrect, PTL DEF Spec

-----------------------------------------------------------------------------
(* What a step does to the index.  All the statements, and the rebuild,     *)
(* reach it in these ways.                                                  *)

index == <<post, df, rev, lens, meta>>

Quiet ==
    /\ UNCHANGED <<index, spoiled, walk, failed>>
    /\ saved' = saved \/ saved' = None

Opened ==
    /\ walk = None /\ ~failed /\ ~failed'
    /\ UNCHANGED <<index, spoiled, walk>>
    /\ saved' = Copy

RolledBack ==
    /\ Restore(Visible)
    /\ saved' = None /\ walk' = None /\ ~failed'

Cleared ==
    /\ saved = None /\ walk = None /\ ~failed
    /\ post' = {} /\ df' = EmptyTable /\ rev' = EmptyTable /\ lens' = EmptyTable
    /\ meta' = NoMeta /\ spoiled' = {}
    /\ UNCHANGED <<saved, walk, failed>>

(* An error before the first posting or at one.                             *)
GivenUp ==
    /\ ~failed /\ walk' = None
    /\ UNCHANGED <<index, saved>>
    /\ spoiled \subseteq spoiled'
    /\ walk # None => failed' \/ walk.doc \in spoiled'

NewDoc(d, c, lenient) ==
    /\ walk = None /\ ~failed
    /\ d \notin DOMAIN lens /\ d \notin DOMAIN rev
    /\ lens' = Put(lens, d, Length(c))
    /\ walk' = Walk(d, EmptyTable, c, TRUE, FALSE, lenient)
    /\ UNCHANGED <<post, df, rev, meta, spoiled, failed, saved>>

OldDoc(d, c, gone, lenient) ==
    /\ walk = None /\ ~failed
    /\ d \in DOMAIN lens
    /\ gone => c = EmptyTable
    /\ walk' = Walk(d, Indexed(d), c, FALSE, gone, lenient)
    /\ UNCHANGED <<index, spoiled, failed, saved>>

DocStarts ==
    \E d \in Nodes, c \in TermCounts, lenient \in BOOLEAN :
        NewDoc(d, c, lenient) \/ \E gone \in BOOLEAN : OldDoc(d, c, gone, lenient)

LEMMA PresenceIs ==
    ASSUME NEW d
    PROVE  /\ Presence(d, lens, rev) = "absent" <=> d \notin DOMAIN lens /\ d \notin DOMAIN rev
           /\ Presence(d, lens, rev) \in {"empty", "indexed"} => d \in DOMAIN lens
           /\ Presence(d, lens, rev) \in {"absent", "empty", "indexed", "broken"}
<1>1. CASE d \notin DOMAIN lens /\ d \notin DOMAIN rev
    BY <1>1 DEF Presence
<1>2. CASE d \notin DOMAIN lens /\ d \in DOMAIN rev
    BY <1>2 DEF Presence
<1>3. CASE d \in DOMAIN lens /\ d \notin DOMAIN rev
    BY <1>3 DEF Presence
<1>4. CASE d \in DOMAIN lens /\ d \in DOMAIN rev
    BY <1>4 DEF Presence
<1> QED
    BY <1>1, <1>2, <1>3, <1>4

LEMMA InsertKind ==
    ASSUME walk = None, ~failed, NEW d \in Nodes, NEW c \in TermCounts,
           NEW lenient \in BOOLEAN, InsertDoc(d, c, lenient),
           UNCHANGED <<post, df, rev, meta, saved>>
    PROVE  DocStarts \/ GivenUp
<1>1. CASE Presence(d, lens, rev) = "absent"
    <2>1. NewDoc(d, c, lenient)
        BY <1>1, PresenceIs DEF InsertDoc, NewDoc
    <2> QED
        BY <2>1 DEF DocStarts
<1>2. CASE Presence(d, lens, rev) # "absent"
    BY <1>2 DEF InsertDoc, GivenUp, index
<1> QED
    BY <1>1, <1>2

LEMMA UpdateKind ==
    ASSUME walk = None, ~failed, NEW d \in Nodes, NEW c \in TermCounts,
           NEW lenient \in BOOLEAN, UpdateDoc(d, c, lenient),
           UNCHANGED <<post, df, rev, meta, saved>>
    PROVE  DocStarts \/ GivenUp
<1>1. CASE InsertDoc(d, c, lenient)
    BY <1>1, InsertKind
<1>2. CASE /\ Presence(d, lens, rev) \in {"empty", "indexed"}
           /\ walk' = IF Indexed(d) = c THEN None
                      ELSE Walk(d, Indexed(d), c, FALSE, FALSE, lenient)
           /\ UNCHANGED <<lens, failed, spoiled>>
    <2>1. CASE Indexed(d) = c
        BY <1>2, <2>1 DEF GivenUp, index
    <2>2. CASE Indexed(d) # c
        <3>1. OldDoc(d, c, FALSE, lenient)
            BY <1>2, <2>2, PresenceIs DEF OldDoc, index
        <3> QED
            BY <3>1 DEF DocStarts
    <2> QED
        BY <2>1, <2>2
<1>3. CASE Fail(d, lenient) /\ UNCHANGED lens
    BY <1>3 DEF Fail, GivenUp, index
<1> QED
    BY <1>1, <1>2, <1>3 DEF UpdateDoc

LEMMA DeleteKind ==
    ASSUME walk = None, ~failed, NEW d \in Nodes,
           NEW lenient \in BOOLEAN, DeleteDoc(d, lenient),
           UNCHANGED <<index, saved>>
    PROVE  DocStarts \/ GivenUp
<1>1. CASE UNCHANGED <<walk, failed, spoiled>>
    BY <1>1 DEF GivenUp, index
<1>2. CASE /\ Presence(d, lens, rev) \in {"empty", "indexed"}
           /\ walk' = Walk(d, Indexed(d), EmptyTable, FALSE, TRUE, lenient)
           /\ UNCHANGED <<failed, spoiled>>
    <2>1. OldDoc(d, EmptyTable, TRUE, lenient)
        BY <1>2, PresenceIs DEF OldDoc, index
    <2>2. EmptyTable \in TermCounts
        BY TableEmpty DEF TermCounts
    <2> QED
        BY <2>1, <2>2 DEF DocStarts
<1>3. CASE Fail(d, lenient)
    BY <1>3 DEF Fail, GivenUp, index
<1> QED
    BY <1>1, <1>2, <1>3 DEF DeleteDoc

Kinds ==
    \/ Quiet \/ Opened \/ RolledBack \/ Cleared \/ GivenUp \/ DocStarts
    \/ RemovePosting \/ AddPosting \/ KeepPosting \/ ReplacePosting
    \/ EndWalk \/ ReverseFails

LEMMA StatementKind ==
    ASSUME TypeOK, AddNode \/ UpdateNode \/ DropNode \/ DropNodeOnly \/ IndexNode
    PROVE  Kinds
<1>1. CASE AddNode
    <2>1. PICK d \in Nodes, c \in Contents :
             \/ c # NoProps /\ InsertDoc(d, c, FALSE)
             \/ UNCHANGED <<lens, walk, failed, spoiled>>
        BY <1>1 DEF AddNode
    <2>2. walk = None /\ ~failed /\ UNCHANGED <<post, df, rev, meta, saved>>
        BY <1>1 DEF AddNode, Ready
    <2>3. CASE c # NoProps /\ InsertDoc(d, c, FALSE)
        <3>1. c \in TermCounts
            BY <2>3, DocumentTyped DEF Contents
        <3> QED
            BY <2>2, <2>3, <3>1, InsertKind DEF Kinds
    <2>4. CASE UNCHANGED <<lens, walk, failed, spoiled>>
        BY <2>2, <2>4 DEF Kinds, Quiet, index
    <2> QED
        BY <2>1, <2>3, <2>4
<1>2. CASE UpdateNode
    <2>1. PICK d \in DOMAIN nodes, c \in Documents :
             UpdateDoc(d, c, FALSE) \/ UNCHANGED <<lens, walk, failed, spoiled>>
        BY <1>2 DEF UpdateNode
    <2>2. walk = None /\ ~failed /\ UNCHANGED <<post, df, rev, meta, saved>>
        BY <1>2 DEF UpdateNode, Ready
    <2>3. d \in Nodes /\ c \in TermCounts
        BY TableAt, DocumentTyped DEF TypeOK, TablesTyped
    <2>4. CASE UpdateDoc(d, c, FALSE)
        BY <2>2, <2>3, <2>4, UpdateKind DEF Kinds
    <2>5. CASE UNCHANGED <<lens, walk, failed, spoiled>>
        BY <2>2, <2>5 DEF Kinds, Quiet, index
    <2> QED
        BY <2>1, <2>4, <2>5
<1>3. CASE DropNode
    <2>1. PICK d \in DOMAIN nodes, lenient \in {FALSE, CompatWrites > 0} :
             DeleteDoc(d, lenient) \/ UNCHANGED <<walk, failed, spoiled>>
        BY <1>3 DEF DropNode
    <2>2. walk = None /\ ~failed /\ UNCHANGED <<index, saved>>
        BY <1>3 DEF DropNode, Ready, index
    <2>3. d \in Nodes
        BY TableAt DEF TypeOK, TablesTyped
    <2>4. (CompatWrites > 0) \in BOOLEAN
        <3>1. CASE CompatWrites > 0
            BY <3>1
        <3>2. CASE ~ (CompatWrites > 0)
            BY <3>2
        <3> QED
            BY <3>1, <3>2
    <2>5. lenient \in BOOLEAN
        BY <2>4
    <2>6. CASE DeleteDoc(d, lenient)
        BY <2>2, <2>3, <2>5, <2>6, DeleteKind DEF Kinds
    <2>7. CASE UNCHANGED <<walk, failed, spoiled>>
        BY <2>2, <2>7 DEF Kinds, Quiet
    <2> QED
        BY <2>1, <2>6, <2>7
<1>4. CASE DropNodeOnly
    BY <1>4 DEF DropNodeOnly, Kinds, Quiet, index
<1>5. CASE IndexNode
    <2>1. PICK d, c, u : /\ d = Min(DOMAIN todo) /\ c = todo[d] /\ u = up
        OBVIOUS
    <2>2. \/ c # NoProps /\ InsertDoc(d, c, u)
          \/ UNCHANGED <<lens, walk, failed, spoiled>>
        BY <1>5, <2>1 DEF IndexNode
    <2>3. walk = None /\ ~failed /\ UNCHANGED <<post, df, rev, meta, saved>>
        BY <1>5 DEF IndexNode
    <2>4. d \in Nodes /\ c \in Contents /\ u \in BOOLEAN
        <3>1. DOMAIN todo \in SUBSET Nodes
            BY TableIs DEF TypeOK
        <3>2. d \in DOMAIN todo
            BY <1>5, <2>1, <3>1, LeastTodo DEF IndexNode
        <3> QED
            BY <2>1, <3>1, <3>2, TableAt DEF TypeOK
    <2>5. CASE c # NoProps /\ InsertDoc(d, c, u)
        <3>1. c \in TermCounts
            BY <2>4, <2>5, DocumentTyped DEF Contents
        <3> QED
            BY <2>3, <2>4, <2>5, <3>1, InsertKind DEF Kinds
    <2>6. CASE UNCHANGED <<lens, walk, failed, spoiled>>
        BY <2>3, <2>6 DEF Kinds, Quiet, index
    <2> QED
        BY <2>2, <2>5, <2>6
<1> QED
    BY <1>1, <1>2, <1>3, <1>4, <1>5

LEMMA StepKinds ==
    ASSUME TypeOK, [Next]_vars
    PROVE  Kinds
<1>1. CASE UNCHANGED vars
    BY <1>1 DEF vars, tables, Kinds, Quiet, index, history
<1>2. CASE Next
    <2>1. Begin \/ OpenChunk => Opened
        BY DEF Begin, OpenChunk, Opened, tables, history, index, TypeOK, Control
    <2>2. Commit \/ CloseChunk \/ SetSkip \/ StartRebuild \/ Start \/ EndRebuild => Quiet
        BY DEF Commit, CloseChunk, SetSkip, StartRebuild, Start, EndRebuild, Quiet,
               tables, history, index
    <2>3. Abort \/ StartFails \/ Crash => RolledBack
        BY DEF Abort, StartFails, Crash, RolledBack, Visible, InChunk, TypeOK, Control
    <2>4. ClearIndex => Cleared
        BY DEF ClearIndex, Cleared, TypeOK, Control
    <2>5. PostingFails => GivenUp
        <3> SUFFICES ASSUME PostingFails PROVE GivenUp
            OBVIOUS
        <3>1. /\ walk # None /\ Fail(walk.doc, walk.lenient)
              /\ UNCHANGED <<index, saved>>
            BY DEF PostingFails, aside, index
        <3>2. walk.lenient \in BOOLEAN /\ ~failed
            BY <3>1 DEF TypeOK, Walks, Control
        <3> QED
            BY <3>1, <3>2 DEF GivenUp, Fail
    <2> QED
        BY <1>2, <2>1, <2>2, <2>3, <2>4, <2>5, StatementKind DEF Next, Kinds
<1> QED
    BY <1>1, <1>2

-----------------------------------------------------------------------------
(* The documents.                                                           *)

LEMMA PostedSame ==
    ASSUME NEW p, NEW q, NEW d, NEW f, NEW g, Posted(p, d, f),
           \A t \in Terms, n \in Counts : <<t, d, n>> \in p <=> <<t, d, n>> \in q,
           DOMAIN f = DOMAIN g, \A t \in DOMAIN f : f[t] = g[t]
    PROVE  Posted(q, d, g)
BY DEF Posted

LEMMA DocSame ==
    ASSUME NEW p, NEW q, NEW r, NEW x, NEW l, NEW k, NEW d, DocOK(p, r, l, d),
           \A t \in Terms, n \in Counts : <<t, d, n>> \in p <=> <<t, d, n>> \in q,
           Content(r, d) = Content(x, d), d \in DOMAIN x => d \in DOMAIN r,
           d \in DOMAIN k <=> d \in DOMAIN l, d \in DOMAIN l => k[d] = l[d]
    PROVE  DocOK(q, x, k, d)
BY DEF DocOK, Posted

LEMMA AgreeMore ==
    ASSUME NEW p, NEW r, NEW l, NEW s, NEW u, Agree(p, r, l, s), s \subseteq u
    PROVE  Agree(p, r, l, u)
BY DEF Agree

LEMMA ContentIs ==
    ASSUME NEW d
    PROVE  Content(rev, d) = Indexed(d)
BY DEF Content, Indexed

LEMMA DocsRest ==
    ASSUME TypeOK, DocsInv, Quiet \/ Opened \/ RolledBack \/ Cleared \/ GivenUp
    PROVE  DocsInv'
<1>1. CASE Quiet
    BY <1>1 DEF Quiet, index, DocsInv, WalkShape
<1>2. CASE Opened
    <2>1. Agree(post, rev, lens, spoiled)
        BY <1>2 DEF Opened, DocsInv
    <2>2. /\ saved'.post = post /\ saved'.rev = rev /\ saved'.lens = lens
          /\ saved'.spoiled = spoiled
        BY <1>2 DEF Opened, Copy
    <2> QED
        BY <1>2, <2>1, <2>2 DEF Opened, index, DocsInv
<1>3. CASE RolledBack
    <2>1. CASE saved = None
        <3>1. Agree(post, rev, lens, spoiled)
            BY <2>1 DEF DocsInv, TypeOK, Control
        <3>2. UNCHANGED <<post, rev, lens, spoiled>>
            BY <1>3, <2>1 DEF RolledBack, Visible, Restore, Copy
        <3> QED
            BY <1>3, <3>1, <3>2 DEF RolledBack, DocsInv
    <2>2. CASE saved # None
        <3>1. Agree(saved.post, saved.rev, saved.lens, saved.spoiled)
            BY <2>2 DEF DocsInv
        <3>2. /\ post' = saved.post /\ rev' = saved.rev /\ lens' = saved.lens
              /\ spoiled' = saved.spoiled
            BY <1>3, <2>2 DEF RolledBack, Visible, Restore
        <3> QED
            BY <1>3, <3>1, <3>2 DEF RolledBack, DocsInv
    <2> QED
        BY <2>1, <2>2
<1>4. CASE Cleared
    <2>1. Agree({}, EmptyTable, EmptyTable, {})
        BY TableEmpty DEF Agree, DocOK, Posted, Content
    <2> QED
        BY <1>4, <2>1 DEF Cleared, DocsInv
<1>5. CASE GivenUp
    <2>1. saved # None => Agree(saved.post, saved.rev, saved.lens, saved.spoiled)
        BY DEF DocsInv
    <2>2. ~failed' => Agree(post, rev, lens, spoiled')
        <3>1. CASE walk = None
            BY <1>5, <3>1, AgreeMore DEF GivenUp, DocsInv
        <3>2. CASE walk # None
            <4>1. Agree(post, rev, lens, spoiled \cup {walk.doc})
                BY <3>2 DEF DocsInv
            <4>2. ~failed' => spoiled \cup {walk.doc} \subseteq spoiled'
                BY <1>5, <3>2 DEF GivenUp
            <4> QED
                BY <4>1, <4>2, AgreeMore
        <3> QED
            BY <3>1, <3>2
    <2> QED
        BY <1>5, <2>1, <2>2 DEF GivenUp, index, DocsInv
<1> QED
    BY <1>1, <1>2, <1>3, <1>4, <1>5

LEMMA DocsStart ==
    ASSUME TypeOK, DocsInv, DocStarts
    PROVE  DocsInv'
<1>1. PICK d \in Nodes, c \in TermCounts, lenient \in BOOLEAN :
         NewDoc(d, c, lenient) \/ \E gone \in BOOLEAN : OldDoc(d, c, gone, lenient)
    BY DEF DocStarts
<1>2. walk = None /\ ~failed /\ UNCHANGED <<post, rev, spoiled, failed, saved>>
    BY <1>1 DEF NewDoc, OldDoc, index
<1>3. Agree(post, rev, lens, spoiled)
    BY <1>2 DEF DocsInv
<1>4. CASE NewDoc(d, c, lenient)
    <2>1. PICK w : w = walk'
        OBVIOUS
    <2>2. w = Walk(d, EmptyTable, c, TRUE, FALSE, lenient)
        BY <1>4, <2>1 DEF NewDoc
    <2>3. /\ w.doc = d /\ w.old = EmptyTable /\ w.new = c /\ w.target = c /\ w.fresh = TRUE
          /\ w.gone = FALSE /\ w.length = Length(c)
        BY <2>2 DEF Walk
    <2>4. PICK l : l = lens'
        OBVIOUS
    <2>5. /\ d \notin DOMAIN lens /\ d \notin DOMAIN rev
          /\ DOMAIN l = DOMAIN lens \cup {d} /\ l[d] = Length(c)
          /\ \A x \in DOMAIN lens : l[x] = lens[x]
        BY <1>4, <2>4 DEF NewDoc, Put
    <2>6. Agree(post, rev, l, spoiled \cup {d})
        <3> SUFFICES ASSUME NEW x \in Nodes \ (spoiled \cup {d}) PROVE DocOK(post, rev, l, x)
            BY DEF Agree
        <3>1. DocOK(post, rev, lens, x)
            BY <1>3 DEF Agree
        <3> QED
            BY <2>5, <3>1 DEF DocOK
    <2>7. d \notin spoiled => Posted(post, d, Halfway(w))
        <3>1. d \notin spoiled => Posted(post, d, EmptyTable)
            BY <1>3, <2>5 DEF Agree, DocOK, Content
        <3>2. DOMAIN Halfway(w) = {} /\ DOMAIN EmptyTable = {}
            BY <2>3, TableEmpty DEF Halfway
        <3> QED
            BY <3>1, <3>2 DEF Posted
    <2>8. WalkShape(walk)'
        <3>1. DOMAIN w.old = {}
            BY <2>3, TableEmpty
        <3> QED
            BY <1>2, <2>1, <2>3, <2>4, <2>5, <3>1 DEF WalkShape
    <2>9. w # None
        <3>1. EmptyTable \in TermCounts /\ TablesTyped
            BY TableEmpty DEF TermCounts, TypeOK
        <3> QED
            BY <2>2, <3>1, WalkTyped
    <2> QED
        BY <1>2, <2>1, <2>3, <2>4, <2>6, <2>7, <2>8, <2>9 DEF DocsInv
<1>5. ASSUME NEW gone \in BOOLEAN, OldDoc(d, c, gone, lenient)
      PROVE  DocsInv'
    <2>1. PICK w : w = walk'
        OBVIOUS
    <2>2. w = Walk(d, Indexed(d), c, FALSE, gone, lenient)
        BY <1>5, <2>1 DEF OldDoc
    <2>3. /\ w.doc = d /\ w.old = Indexed(d) /\ w.new = c /\ w.target = c
          /\ w.fresh = FALSE /\ w.gone = gone /\ w.length = Length(c)
          /\ d \in DOMAIN lens => w.was = lens[d]
        BY <2>2 DEF Walk
    <2>4. d \in DOMAIN lens /\ lens' = lens /\ (gone => DOMAIN c = {})
        BY <1>5, TableEmpty DEF OldDoc, index
    <2>5. Agree(post, rev, lens, spoiled \cup {d})
        BY <1>3, AgreeMore
    <2>6. d \notin spoiled => Posted(post, d, Halfway(w))
        <3>1. d \notin spoiled => Posted(post, d, Indexed(d))
            BY <1>3, ContentIs DEF Agree, DocOK
        <3>2. DOMAIN Halfway(w) = DOMAIN w.old /\ \A t \in DOMAIN w.old : Halfway(w)[t] = w.old[t]
            BY <2>3 DEF Halfway
        <3> QED
            BY <2>3, <3>1, <3>2, PostedSame
    <2>7. WalkShape(walk)'
        BY <1>2, <2>1, <2>3, <2>4 DEF WalkShape
    <2> QED
        BY <1>2, <2>1, <2>3, <2>4, <2>5, <2>6, <2>7 DEF DocsInv
<1> QED
    BY <1>1, <1>4, <1>5

(* What is half way done moves on by the term of a step.                    *)
Moved(w, t) == [w EXCEPT !.old = Delete(@, t), !.new = Delete(@, t)]

Moves(w, v, t) ==
    /\ WalkShape(v) /\ v.doc = w.doc
    /\ DOMAIN Halfway(v) = IF t \in DOMAIN w.new THEN DOMAIN Halfway(w) \cup {t}
                           ELSE DOMAIN Halfway(w) \ {t}
    /\ \A x \in DOMAIN Halfway(v) \ {t} : Halfway(v)[x] = Halfway(w)[x]
    /\ t \in DOMAIN w.new => Halfway(v)[t] = w.new[t]
    /\ t \in DOMAIN w.old => t \in DOMAIN Halfway(w) /\ Halfway(w)[t] = w.old[t]
    /\ t \notin DOMAIN w.old => t \notin DOMAIN Halfway(w)

LEMMA HalfwayMoves ==
    ASSUME NEW w \in Walks, WalkShape(w), NEW t \in Pending(w), NEW v,
           v = Moved(w, t)
    PROVE  Moves(w, v, t)
<1>3. /\ v.old = Delete(w.old, t) /\ v.new = Delete(w.new, t)
      /\ v.target = w.target /\ v.doc = w.doc /\ v.fresh = w.fresh /\ v.gone = w.gone
      /\ v.length = w.length /\ v.was = w.was
    BY DEF Walks, Moved
<1>4. /\ DOMAIN v.old = DOMAIN w.old \ {t} /\ DOMAIN v.new = DOMAIN w.new \ {t}
      /\ \A x \in DOMAIN v.old : v.old[x] = w.old[x]
      /\ \A x \in DOMAIN v.new : v.new[x] = w.new[x]
    BY <1>3 DEF Delete, Restrict
<1>5. WalkShape(v)
    BY <1>3, <1>4 DEF WalkShape
<1>6. /\ DOMAIN w.new \subseteq DOMAIN w.target
      /\ \A x \in DOMAIN w.new : w.new[x] = w.target[x]
      /\ DOMAIN w.old \cap (DOMAIN w.target \ DOMAIN w.new) = {}
      /\ t \in DOMAIN w.old \cup DOMAIN w.new
    BY DEF WalkShape, Pending
<1> DEFINE h == Halfway(w)
           g == Halfway(v)
<1>7. /\ DOMAIN h = DOMAIN w.old \cup (DOMAIN w.target \ DOMAIN w.new)
      /\ \A x \in DOMAIN h : h[x] = IF x \in DOMAIN w.old THEN w.old[x] ELSE w.target[x]
    BY DEF Halfway
<1>8. /\ DOMAIN g = DOMAIN v.old \cup (DOMAIN v.target \ DOMAIN v.new)
      /\ \A x \in DOMAIN g : g[x] = IF x \in DOMAIN v.old THEN v.old[x] ELSE v.target[x]
    BY DEF Halfway
<1> HIDE DEF h, g
<1>9. DOMAIN g = IF t \in DOMAIN w.new THEN DOMAIN h \cup {t} ELSE DOMAIN h \ {t}
    BY <1>3, <1>4, <1>6, <1>7, <1>8
<1>10. \A x \in DOMAIN g \ {t} : g[x] = h[x]
    BY <1>3, <1>4, <1>7, <1>8, <1>9
<1>11. t \in DOMAIN w.new => g[t] = w.new[t]
    BY <1>3, <1>4, <1>6, <1>8, <1>9
<1>12. /\ t \in DOMAIN w.old => t \in DOMAIN h /\ h[t] = w.old[t]
       /\ t \notin DOMAIN w.old => t \notin DOMAIN h
    BY <1>6, <1>7
<1> QED
    BY <1>3, <1>5, <1>9, <1>10, <1>11, <1>12 DEF h, g, Moves

(* The postings of a document after one of them has been written or removed. *)
PostedAs(p, q, d, t, here) ==
    \A u \in Terms, n \in Counts :
        <<u, d, n>> \in q <=> IF u = t THEN n \in here ELSE <<u, d, n>> \in p

LEMMA PostingStep ==
    ASSUME TypeOK, DocsInv, walk # None, NEW t \in Pending(walk), Advance(t),
           UNCHANGED <<rev, lens, failed, spoiled, saved>>,
           \A d \in Nodes \ {walk.doc} : \A u \in Terms, n \in Counts :
                <<u, d, n>> \in post <=> <<u, d, n>> \in post',
           walk.doc \notin spoiled =>
                PostedAs(post, post', walk.doc, t,
                         IF t \in DOMAIN walk.new THEN {walk.new[t]} ELSE {})
    PROVE  DocsInv'
<1>1. PICK w, v, q : w = walk /\ v = walk' /\ q = post'
    OBVIOUS
<1>2. /\ w \in Walks /\ WalkShape(w) /\ t \in Pending(w) /\ v # None /\ v.doc \in Nodes
      /\ v = Moved(w, t) /\ v.doc = w.doc
    <2>1. w \in Walks /\ WalkShape(w) /\ t \in Pending(w)
        BY <1>1 DEF TypeOK, DocsInv
    <2>2. v = Moved(w, t)
        BY <1>1 DEF Advance, Moved
    <2>3. v # None /\ v \in Walks /\ v.doc = w.doc
        BY <1>1, <2>1, AdvanceTyped
    <2> QED
        BY <2>1, <2>2, <2>3 DEF Walks
<1>3. /\ WalkShape(v)
      /\ DOMAIN Halfway(v) = IF t \in DOMAIN w.new THEN DOMAIN Halfway(w) \cup {t}
                             ELSE DOMAIN Halfway(w) \ {t}
      /\ \A x \in DOMAIN Halfway(v) \ {t} : Halfway(v)[x] = Halfway(w)[x]
      /\ t \in DOMAIN w.new => Halfway(v)[t] = w.new[t]
    <2>1. Moves(w, v, t)
        BY <1>2, HalfwayMoves
    <2> QED
        BY <2>1 DEF Moves
<1>4. WalkShape(walk)'
    BY <1>1, <1>3 DEF WalkShape
<1>5. Agree(q, rev, lens, spoiled \cup {w.doc})
    <2> SUFFICES ASSUME NEW d \in Nodes \ (spoiled \cup {w.doc})
                 PROVE  DocOK(q, rev, lens, d)
        BY DEF Agree
    <2>1. DocOK(post, rev, lens, d)
        BY <1>1 DEF DocsInv, Agree
    <2>2. \A u \in Terms, n \in Counts : <<u, d, n>> \in post <=> <<u, d, n>> \in q
        BY <1>1
    <2> QED
        BY <2>1, <2>2, DocSame
<1>6. ASSUME w.doc \notin spoiled PROVE Posted(q, w.doc, Halfway(v))
    <2>1. Posted(post, w.doc, Halfway(w))
        BY <1>1, <1>6 DEF DocsInv
    <2>2. PostedAs(post, q, w.doc, t, IF t \in DOMAIN w.new THEN {w.new[t]} ELSE {})
        BY <1>1, <1>6
    <2> QED
        BY <1>3, <2>1, <2>2 DEF Posted, PostedAs
<1> QED
    BY <1>1, <1>2, <1>4, <1>5, <1>6 DEF DocsInv

LEMMA DocsPosting ==
    ASSUME TypeOK, DocsInv, RemovePosting \/ AddPosting \/ KeepPosting \/ ReplacePosting
    PROVE  DocsInv'
<1>1. PICK w : w = walk
    OBVIOUS
<1>2. /\ walk # None /\ w \in Walks /\ w.doc \in Nodes /\ WalkShape(w)
      /\ UNCHANGED <<rev, lens, failed, spoiled, saved>>
    BY <1>1 DEF RemovePosting, AddPosting, KeepPosting, ReplacePosting, aside, DocsInv,
           TypeOK, Walks
<1>3. ASSUME NEW t \in Pending(w), w.doc \notin spoiled, NEW u \in Terms, NEW n \in Counts
      PROVE  <<t, w.doc, n>> \in post <=> t \in DOMAIN w.old /\ n = w.old[t]
    <2>1. PICK v : v = Moved(w, t)
        OBVIOUS
    <2>2. /\ t \in DOMAIN w.old => t \in DOMAIN Halfway(w) /\ Halfway(w)[t] = w.old[t]
          /\ t \notin DOMAIN w.old => t \notin DOMAIN Halfway(w)
        <3>1. Moves(w, v, t)
            BY <1>2, <2>1, HalfwayMoves
        <3> QED
            BY <3>1 DEF Moves
    <2>3. Posted(post, w.doc, Halfway(w)) /\ t \in Terms
        BY <1>1, <1>2, <1>3, PendingTyped DEF DocsInv
    <2> QED
        BY <2>2, <2>3 DEF Posted
<1>4. CASE RemovePosting
    <2>1. PICK t \in Pending(w) :
             /\ OnlyOld(w, t)
             /\ post' = WithoutPosting(w.doc, t, w.old[t], post, df).post
             /\ Advance(t)
        BY <1>1, <1>4 DEF RemovePosting
    <2>2. post' = post \ {<<t, w.doc, w.old[t]>>} /\ t \in DOMAIN w.old /\ t \notin DOMAIN w.new
        BY <2>1 DEF WithoutPosting, OnlyOld
    <2>3. w.doc \notin spoiled => PostedAs(post, post', w.doc, t, {})
        BY <1>3, <2>2 DEF PostedAs
    <2> QED
        BY <1>1, <1>2, <2>1, <2>2, <2>3, PostingStep
<1>5. CASE AddPosting
    <2>1. PICK t \in Pending(w) :
             /\ OnlyNew(w, t)
             /\ post' = WithPosting(w.doc, t, w.new[t], post, df).post
             /\ Advance(t)
        BY <1>1, <1>5 DEF AddPosting
    <2>2. post' = post \cup {<<t, w.doc, w.new[t]>>} /\ t \notin DOMAIN w.old /\ t \in DOMAIN w.new
        BY <2>1 DEF WithPosting, OnlyNew
    <2>3. w.doc \notin spoiled => PostedAs(post, post', w.doc, t, {w.new[t]})
        BY <1>3, <2>2 DEF PostedAs
    <2> QED
        BY <1>1, <1>2, <2>1, <2>2, <2>3, PostingStep
<1>6. CASE KeepPosting
    <2>1. PICK t \in Pending(w) :
             /\ t \in DOMAIN w.old /\ t \in DOMAIN w.new /\ w.old[t] = w.new[t]
             /\ Advance(t) /\ post' = post
        BY <1>1, <1>6 DEF KeepPosting
    <2>2. w.doc \notin spoiled => PostedAs(post, post', w.doc, t, {w.new[t]})
        BY <1>3, <2>1 DEF PostedAs
    <2> QED
        BY <1>1, <1>2, <2>1, <2>2, PostingStep
<1>7. CASE ReplacePosting
    <2>1. PICK t, x :
             /\ t \in Pending(w)
             /\ Changed(w, t)
             /\ x = WithoutPosting(w.doc, t, w.old[t], post, df)
             /\ post' = WithPosting(w.doc, t, w.new[t], x.post, x.df).post
             /\ Advance(t)
        BY <1>1, <1>7 DEF ReplacePosting
    <2>2. /\ x.post = post \ {<<t, w.doc, w.old[t]>>}
          /\ post' = x.post \cup {<<t, w.doc, w.new[t]>>}
          /\ t \in DOMAIN w.old /\ t \in DOMAIN w.new
        BY <2>1 DEF WithPosting, WithoutPosting, Changed
    <2>3. w.doc \notin spoiled => PostedAs(post, post', w.doc, t, {w.new[t]})
        BY <1>3, <2>1, <2>2 DEF PostedAs
    <2> QED
        BY <1>1, <1>2, <2>1, <2>2, <2>3, PostingStep
<1> QED
    BY <1>4, <1>5, <1>6, <1>7

LEMMA DocsEnd ==
    ASSUME TypeOK, DocsInv, EndWalk \/ ReverseFails
    PROVE  DocsInv'
<1>1. PICK w, r, l : w = walk /\ r = rev' /\ l = lens'
    OBVIOUS
<1>2. /\ walk # None /\ w \in Walks /\ w.doc \in Nodes /\ WalkShape(w) /\ Pending(w) = {}
      /\ w.lenient \in BOOLEAN /\ w.target \in TermCounts
      /\ UNCHANGED <<post, saved>> /\ walk' = None
      /\ ~failed /\ Agree(post, rev, lens, spoiled \cup {w.doc})
    BY <1>1 DEF EndWalk, ReverseFails, Fail, Finishing, DocsInv, TypeOK, Control, Walks
<1>3. r = IF DOMAIN Stored(w.target) = {} THEN Delete(rev, w.doc)
          ELSE Put(rev, w.doc, Stored(w.target))
    BY <1>1 DEF EndWalk, ReverseFails, StoreReverse
<1>4. \/ l = lens \/ l = Delete(lens, w.doc) \/ l = Put(lens, w.doc, w.length)
    BY <1>1 DEF EndWalk, ReverseFails
<1>5. Agree(post, r, l, spoiled \cup {w.doc})
    <2> SUFFICES ASSUME NEW d \in Nodes \ (spoiled \cup {w.doc}) PROVE DocOK(post, r, l, d)
        BY DEF Agree
    <2>1. DocOK(post, rev, lens, d)
        BY <1>2 DEF Agree
    <2>2. Content(rev, d) = Content(r, d) /\ (d \in DOMAIN r <=> d \in DOMAIN rev)
        BY <1>3 DEF Content, Put, Delete, Restrict
    <2>3. (d \in DOMAIN l <=> d \in DOMAIN lens) /\ (d \in DOMAIN lens => l[d] = lens[d])
        BY <1>4 DEF Put, Delete, Restrict
    <2> QED
        BY <2>1, <2>2, <2>3, DocSame
<1>6. CASE Fail(w.doc, w.lenient)
    <2>1. ~failed' => spoiled' = spoiled \cup {w.doc}
        BY <1>2, <1>6 DEF Fail
    <2> QED
        BY <1>1, <1>2, <1>5, <2>1 DEF DocsInv
<1>7. CASE /\ Stored(w.target) = w.target /\ UNCHANGED spoiled
           /\ l = IF w.gone THEN Delete(lens, w.doc) ELSE Put(lens, w.doc, w.length)
    <2>1. w.doc \notin spoiled => DocOK(post, r, l, w.doc)
        <3> SUFFICES ASSUME w.doc \notin spoiled PROVE DocOK(post, r, l, w.doc)
            OBVIOUS
        <3>1. Posted(post, w.doc, Halfway(w))
            BY <1>1, <1>2 DEF DocsInv
        <3>2. /\ DOMAIN Halfway(w) = DOMAIN w.target
              /\ \A t \in DOMAIN w.target : Halfway(w)[t] = w.target[t]
            BY <1>2 DEF Halfway, Pending
        <3>3. /\ DOMAIN Content(r, w.doc) = DOMAIN w.target
              /\ \A t \in DOMAIN w.target : Content(r, w.doc)[t] = w.target[t]
              /\ w.doc \in DOMAIN r => DOMAIN w.target # {}
              /\ w.doc \in DOMAIN r => Content(r, w.doc) = w.target
              /\ w.doc \notin DOMAIN r => Content(r, w.doc) = EmptyTable
                                          /\ DOMAIN w.target = {}
            BY <1>3, <1>7, TableEmpty DEF Content, Put, Delete, Restrict
        <3>4. Posted(post, w.doc, Content(r, w.doc))
            BY <3>1, <3>2, <3>3 DEF Posted
        <3>5. Length(Content(r, w.doc)) = Length(w.target)
            BY <3>3, LengthEmpty, TableEmpty
        <3>6. w.doc \in DOMAIN l => l[w.doc] = Length(w.target)
            BY <1>2, <1>7 DEF WalkShape, Put, Delete, Restrict
        <3>7. w.doc \in DOMAIN r => w.doc \in DOMAIN l
            BY <1>2, <1>7, <3>3 DEF WalkShape, Put
        <3> QED
            BY <3>4, <3>5, <3>6, <3>7 DEF DocOK
    <2>2. Agree(post, r, l, spoiled)
        BY <1>5, <2>1 DEF Agree
    <2> QED
        BY <1>1, <1>2, <1>7, <2>2 DEF DocsInv
<1> QED
    BY <1>1, <1>6, <1>7 DEF EndWalk, ReverseFails

LEMMA DocsStep ==
    ASSUME TypeOK, DocsInv, [Next]_vars
    PROVE  DocsInv'
BY StepKinds, DocsRest, DocsStart, DocsPosting, DocsEnd DEF Kinds

LEMMA DocsHold == Spec => []DocsInv
<1>1. Init => DocsInv
    <2>1. Agree({}, EmptyTable, EmptyTable, {})
        BY TableEmpty DEF Agree, DocOK, Posted, Content
    <2> QED
        BY <2>1 DEF Init, DocsInv
<1>2. TypeOK /\ DocsInv /\ [Next]_vars => DocsInv'
    BY DocsStep
<1> QED
    BY <1>1, <1>2, TypeCorrect, PTL DEF Spec

(* A search, in whatever it finds open, committed or rolled back, meets no    *)
(* posting of a document that is not fully there.                           *)
THEOREM SearchNeverBroken == Spec => []SearchSucceeds
<1>1. TypeOK /\ DocsInv => SearchSucceeds
    <2> SUFFICES ASSUME TypeOK, DocsInv,
                        NEW x \in Visible.post, x[2] \notin Visible.spoiled
                 PROVE  Presence(x[2], Visible.lens, Visible.rev) = "indexed"
        BY DEF SearchSucceeds
    <2>1. PICK p, r, l, s : p = Visible.post /\ r = Visible.rev /\ l = Visible.lens
                            /\ s = Visible.spoiled
        OBVIOUS
    <2>2. /\ Agree(p, r, l, s) /\ p \subseteq Terms \X Nodes \X Counts
          /\ r \in Tables(Nodes, TermCounts) /\ Filled(r)
        <3>1. CASE saved = None
            BY <2>1, <3>1 DEF Visible, Copy, DocsInv, TypeOK, TablesTyped, Control
        <3>2. CASE saved # None
            BY <2>1, <3>2 DEF Visible, DocsInv, TypeOK, Copies
        <3> QED
            BY <3>1, <3>2
    <2>3. PICK t \in Terms, d \in Nodes, n \in Counts : x = <<t, d, n>> /\ d \notin s
        BY <2>1, <2>2
    <2>4. Posted(p, d, Content(r, d)) /\ DocOK(p, r, l, d)
        BY <2>2, <2>3 DEF Agree, DocOK
    <2>5. d \in DOMAIN r
        BY <2>1, <2>3, <2>4, TableEmpty DEF Posted, Content
    <2>6. d \in DOMAIN l /\ l[d] = Length(r[d])
        BY <2>4, <2>5 DEF DocOK, Content
    <2>7. r[d] \in TermCounts /\ DOMAIN r[d] # {}
        BY <2>2, <2>5, TableAt DEF Filled
    <2>8. l[d] > 0
        <3>1. IsFiniteSet(DOMAIN r[d]) /\ \A u \in DOMAIN r[d] : r[d][u] \in Nat \ {0}
            BY <2>7, CountsTyped DEF Counts
        <3> QED
            BY <2>6, <2>7, <3>1, LengthPositive
    <2>9. Presence(d, l, r) = "indexed"
        BY <2>5, <2>6, <2>8 DEF Presence
    <2> QED
        BY <2>1, <2>3, <2>9
<1> QED
    BY <1>1, TypeCorrect, DocsHold, PTL

-----------------------------------------------------------------------------
(* The frequencies.                                                         *)

LEMMA FrequentAdd ==
    ASSUME NEW p \in SUBSET (Terms \X Nodes \X Counts), NEW f \in Tables(Terms, Counts),
           Frequent(p, f), NEW d \in Nodes, NEW t \in Terms, NEW n \in Counts,
           <<t, d, n>> \notin p
    PROVE  Frequent(WithPosting(d, t, n, p, f).post, WithPosting(d, t, n, p, f).df)
<1> DEFINE q == p \cup {<<t, d, n>>}
           g == Put(f, t, IF t \in DOMAIN f THEN f[t] + 1 ELSE 1)
           Of(s, u) == {e \in s : e[1] = u}
<1>1. IsFiniteSet(q)
    BY FS_AddElement DEF Frequent
<1>2. \A u \in Terms : IsFiniteSet(Of(p, u)) /\ Cardinality(Of(p, u)) = Frequency(f, u)
    BY FS_Subset DEF Frequent
<1>3. ASSUME NEW u \in Terms PROVE Frequency(g, u) = Cardinality(Of(q, u))
    <2>1. CASE u = t
        <3>1. Of(q, u) = Of(p, u) \cup {<<t, d, n>>} /\ <<t, d, n>> \notin Of(p, u)
            BY <2>1
        <3>2. Cardinality(Of(q, u)) = Cardinality(Of(p, u)) + 1
            <4> HIDE DEF Of
            <4> QED
                BY <1>2, <3>1, FS_AddElement
        <3>3. Frequency(g, u) = Frequency(f, u) + 1
            <4>1. t \in DOMAIN f => f[t] \in Nat
                BY TableAt DEF Counts
            <4> QED
                BY <2>1, <4>1 DEF Frequency, Put
        <3> HIDE DEF Of, g
        <3> QED
            BY <1>2, <3>2, <3>3
    <2>2. CASE u # t
        <3>1. Of(q, u) = Of(p, u)
            BY <2>2
        <3>2. Frequency(g, u) = Frequency(f, u)
            BY <2>2 DEF Frequency, Put
        <3> HIDE DEF Of, g
        <3> QED
            BY <1>2, <3>1, <3>2
    <2> QED
        BY <2>1, <2>2
<1>4. Frequent(q, g)
    <2> HIDE DEF q, g
    <2> QED
        BY <1>1, <1>3 DEF Frequent
<1> QED
    BY <1>4 DEF WithPosting

LEMMA FrequentRemove ==
    ASSUME NEW p \in SUBSET (Terms \X Nodes \X Counts), NEW f \in Tables(Terms, Counts),
           Frequent(p, f), NEW d \in Nodes, NEW t \in DOMAIN f, NEW n \in Counts,
           <<t, d, n>> \in p
    PROVE  Frequent(WithoutPosting(d, t, n, p, f).post, WithoutPosting(d, t, n, p, f).df)
<1> DEFINE q == p \ {<<t, d, n>>}
           g == IF f[t] <= 1 THEN Delete(f, t) ELSE Put(f, t, f[t] - 1)
           Of(s, u) == {e \in s : e[1] = u}
<1>1. IsFiniteSet(q)
    BY FS_RemoveElement DEF Frequent
<1>2. \A u \in Terms : IsFiniteSet(Of(p, u)) /\ Cardinality(Of(p, u)) = Frequency(f, u)
    BY FS_Subset DEF Frequent
<1>3. ASSUME NEW u \in Terms PROVE Frequency(g, u) = Cardinality(Of(q, u))
    <2>1. CASE u = t
        <3>1. Of(q, u) = Of(p, u) \ {<<t, d, n>>} /\ <<t, d, n>> \in Of(p, u)
            BY <2>1
        <3>2. Cardinality(Of(q, u)) = Cardinality(Of(p, u)) - 1
            <4>1. PICK a, x : a = Of(p, u) /\ x = <<t, d, n>>
                OBVIOUS
            <4>2. IsFiniteSet(a) /\ Of(q, u) = a \ {x} /\ x \in a
                BY <1>2, <3>1, <4>1
            <4>3. Cardinality(a \ {x}) = Cardinality(a) - 1
                BY <4>2, FS_RemoveElement
            <4> HIDE DEF Of
            <4> QED
                BY <4>1, <4>2, <4>3
        <3>3. Frequency(g, u) = Frequency(f, u) - 1
            <4>1. f[t] \in Nat \ {0} /\ Frequency(f, u) = f[t]
                BY <2>1, TableAt DEF Counts, Frequency
            <4>2. CASE f[t] <= 1
                <5>1. f[t] = 1 /\ g = Delete(f, t)
                    BY <4>1, <4>2
                <5>2. t \notin DOMAIN g
                    BY <5>1 DEF Delete, Restrict
                <5> HIDE DEF g
                <5> QED
                    BY <2>1, <4>1, <5>1, <5>2 DEF Frequency
            <4>3. CASE ~ (f[t] <= 1)
                <5>1. g = Put(f, t, f[t] - 1)
                    BY <4>3
                <5>2. t \in DOMAIN g /\ g[t] = f[t] - 1
                    BY <5>1 DEF Put
                <5> HIDE DEF g
                <5> QED
                    BY <2>1, <4>1, <5>2 DEF Frequency
            <4> QED
                BY <4>2, <4>3
        <3> HIDE DEF Of, g
        <3> QED
            BY <1>2, <3>2, <3>3
    <2>2. CASE u # t
        <3>1. Of(q, u) = Of(p, u)
            BY <2>2
        <3>2. Frequency(g, u) = Frequency(f, u)
            BY <2>2 DEF Frequency, Put, Delete, Restrict
        <3> HIDE DEF Of, g
        <3> QED
            BY <1>2, <3>1, <3>2
    <2> QED
        BY <2>1, <2>2
<1>4. Frequent(q, g)
    <2> HIDE DEF q, g
    <2> QED
        BY <1>1, <1>3 DEF Frequent
<1> QED
    BY <1>4 DEF WithoutPosting

LEMMA FreqRest ==
    ASSUME TypeOK, FreqInv, Quiet \/ Opened \/ RolledBack \/ Cleared \/ GivenUp \/ DocStarts
    PROVE  FreqInv'
<1>1. CASE Quiet
    BY <1>1 DEF Quiet, index, FreqInv
<1>2. CASE Opened
    <2>1. spoiled = {} => Frequent(post, df)
        BY <1>2 DEF Opened, FreqInv
    <2>2. saved'.post = post /\ saved'.df = df /\ saved'.spoiled = spoiled
        BY <1>2 DEF Opened, Copy
    <2> QED
        BY <1>2, <2>1, <2>2 DEF Opened, index, FreqInv
<1>3. CASE RolledBack
    <2>1. CASE saved = None
        <3>1. spoiled = {} => Frequent(post, df)
            BY <2>1 DEF FreqInv, TypeOK, Control
        <3>2. UNCHANGED <<post, df, spoiled>>
            BY <1>3, <2>1 DEF RolledBack, Visible, Restore, Copy
        <3> QED
            BY <1>3, <3>1, <3>2 DEF RolledBack, FreqInv
    <2>2. CASE saved # None
        <3>1. saved.spoiled = {} => Frequent(saved.post, saved.df)
            BY <2>2 DEF FreqInv
        <3>2. post' = saved.post /\ df' = saved.df /\ spoiled' = saved.spoiled
            BY <1>3, <2>2 DEF RolledBack, Visible, Restore
        <3> QED
            BY <1>3, <3>1, <3>2 DEF RolledBack, FreqInv
    <2> QED
        BY <2>1, <2>2
<1>4. CASE Cleared
    <2>1. Frequent({}, EmptyTable)
        <3>1. IsFiniteSet({}) /\ Cardinality({}) = 0
            BY FS_EmptySet
        <3>2. \A t \in Terms : {q \in {} : q[1] = t} = {} /\ Frequency(EmptyTable, t) = 0
            BY TableEmpty DEF Frequency
        <3> QED
            BY <3>1, <3>2 DEF Frequent
    <2> QED
        BY <1>4, <2>1 DEF Cleared, FreqInv
<1>5. CASE GivenUp
    BY <1>5 DEF GivenUp, index, FreqInv
<1>6. CASE DocStarts
    BY <1>6 DEF DocStarts, NewDoc, OldDoc, index, FreqInv
<1> QED
    BY <1>1, <1>2, <1>3, <1>4, <1>5, <1>6

LEMMA FreqPosting ==
    ASSUME TypeOK, DocsInv, FreqInv,
           RemovePosting \/ AddPosting \/ KeepPosting \/ ReplacePosting
    PROVE  FreqInv'
<1>1. PICK w : w = walk
    OBVIOUS
<1>2. /\ walk # None /\ w \in Walks /\ w.doc \in Nodes /\ WalkShape(w) /\ ~failed
      /\ UNCHANGED <<failed, spoiled, saved>>
    BY <1>1 DEF RemovePosting, AddPosting, KeepPosting, ReplacePosting, aside, DocsInv,
           TypeOK, Walks, Control
<1>3. /\ post \in SUBSET (Terms \X Nodes \X Counts) /\ df \in Tables(Terms, Counts)
      /\ spoiled = {} => Frequent(post, df)
    BY <1>2 DEF TypeOK, TablesTyped, FreqInv
<1>4. ASSUME NEW t \in Pending(w), w.doc \notin spoiled, NEW n \in Counts
      PROVE  <<t, w.doc, n>> \in post <=> t \in DOMAIN w.old /\ n = w.old[t]
    <2>1. PICK v : v = Moved(w, t)
        OBVIOUS
    <2>2. /\ t \in DOMAIN w.old => t \in DOMAIN Halfway(w) /\ Halfway(w)[t] = w.old[t]
          /\ t \notin DOMAIN w.old => t \notin DOMAIN Halfway(w)
        <3>1. Moves(w, v, t)
            BY <1>2, <2>1, HalfwayMoves
        <3> QED
            BY <3>1 DEF Moves
    <2>3. Posted(post, w.doc, Halfway(w)) /\ t \in Terms
        BY <1>1, <1>2, <1>4, PendingTyped DEF DocsInv
    <2> QED
        BY <2>2, <2>3 DEF Posted
<1>5. ASSUME spoiled = {} PROVE Frequent(post', df')
    <2>1. CASE RemovePosting
        <3>1. PICK t \in Pending(w) :
                 /\ OnlyOld(w, t) /\ Removable(w.doc, t, w.old[t])
                 /\ post' = WithoutPosting(w.doc, t, w.old[t], post, df).post
                 /\ df' = WithoutPosting(w.doc, t, w.old[t], post, df).df
            BY <1>1, <2>1 DEF RemovePosting
        <3>2. /\ w.old[t] \in Counts /\ t \in DOMAIN df
              /\ <<t, w.doc, w.old[t]>> \in post
            BY <1>1, <1>2, <3>1, PendingTyped DEF OnlyOld, Removable
        <3> QED
            BY <1>2, <1>3, <1>5, <3>1, <3>2, FrequentRemove
    <2>2. CASE AddPosting
        <3>1. PICK t \in Pending(w) :
                 /\ OnlyNew(w, t)
                 /\ post' = WithPosting(w.doc, t, w.new[t], post, df).post
                 /\ df' = WithPosting(w.doc, t, w.new[t], post, df).df
            BY <1>1, <2>2 DEF AddPosting
        <3>2. w.new[t] \in Counts /\ t \in Terms
            BY <1>1, <1>2, <3>1, PendingTyped DEF OnlyNew
        <3>3. <<t, w.doc, w.new[t]>> \notin post
            BY <1>4, <1>5, <3>1, <3>2 DEF OnlyNew
        <3> QED
            BY <1>2, <1>3, <1>5, <3>1, <3>2, <3>3, FrequentAdd
    <2>3. CASE KeepPosting
        BY <1>3, <1>5, <2>3 DEF KeepPosting
    <2>4. CASE ReplacePosting
        <3>1. PICK t, x :
                 /\ t \in Pending(w)
                 /\ Changed(w, t) /\ Removable(w.doc, t, w.old[t])
                 /\ x = WithoutPosting(w.doc, t, w.old[t], post, df)
                 /\ post' = WithPosting(w.doc, t, w.new[t], x.post, x.df).post
                 /\ df' = WithPosting(w.doc, t, w.new[t], x.post, x.df).df
            BY <1>1, <2>4 DEF ReplacePosting
        <3>2. /\ t \in Terms /\ t \in DOMAIN df /\ <<t, w.doc, w.old[t]>> \in post
              /\ w.new[t] \in Counts /\ w.old[t] \in Counts /\ w.old[t] # w.new[t]
            BY <1>1, <1>2, <3>1, PendingTyped DEF Changed, Removable
        <3>3. /\ x.post \in SUBSET (Terms \X Nodes \X Counts)
              /\ x.df \in Tables(Terms, Counts)
            BY <1>2, <1>3, <3>1, <3>2, WithoutTyped
        <3>4. Frequent(x.post, x.df)
            BY <1>2, <1>3, <1>5, <3>1, <3>2, FrequentRemove
        <3>5. <<t, w.doc, w.new[t]>> \notin x.post
            <4>1. x.post \subseteq post
                BY <3>1 DEF WithoutPosting
            <4> QED
                BY <1>4, <1>5, <3>1, <3>2, <4>1
        <3>6. PICK y, g : y = x.post /\ g = x.df
            OBVIOUS
        <3> QED
            BY <1>2, <3>1, <3>2, <3>3, <3>4, <3>5, <3>6, FrequentAdd
    <2> QED
        BY <2>1, <2>2, <2>3, <2>4
<1> QED
    BY <1>2, <1>5 DEF FreqInv

LEMMA FreqHold == Spec => []FreqInv
<1>1. Init => FreqInv
    <2>1. Frequent({}, EmptyTable)
        <3>1. IsFiniteSet({}) /\ Cardinality({}) = 0
            BY FS_EmptySet
        <3>2. \A t \in Terms : {q \in {} : q[1] = t} = {} /\ Frequency(EmptyTable, t) = 0
            BY TableEmpty DEF Frequency
        <3> QED
            BY <3>1, <3>2 DEF Frequent
    <2> QED
        BY <2>1 DEF Init, FreqInv
<1>2. TypeOK /\ DocsInv /\ FreqInv /\ [Next]_vars => FreqInv'
    <2> SUFFICES ASSUME TypeOK, DocsInv, FreqInv, [Next]_vars PROVE FreqInv'
        OBVIOUS
    <2>1. EndWalk \/ ReverseFails => FreqInv'
        BY DEF EndWalk, ReverseFails, Fail, FreqInv, DocsInv, TypeOK, Control, Finishing
    <2> QED
        BY <2>1, StepKinds, FreqRest, FreqPosting DEF Kinds
<1> QED
    BY <1>1, <1>2, TypeCorrect, DocsHold, PTL DEF Spec

(* Between two operations, after any sequence of statements, aborts, errors,  *)
(* kills and rebuilds: postings, reverse entries, lengths and frequencies of  *)
(* the documents tell the same.                                             *)
THEOREM TablesStayTogether == Spec => []TablesAgree
<1>1. TypeOK /\ DocsInv /\ FreqInv => TablesAgree
    <2> SUFFICES ASSUME TypeOK, DocsInv, FreqInv, walk = None, ~failed
                 PROVE
          /\ \A d \in Nodes \ spoiled :
             /\ {<<p[1], p[3]>> : p \in {q \in post : q[2] = d}} =
                {<<t, Indexed(d)[t]>> : t \in DOMAIN Indexed(d)}
             /\ d \in DOMAIN lens => lens[d] = Length(Indexed(d))
          /\ spoiled = {} => \A t \in Terms :
                (IF t \in DOMAIN df THEN df[t] ELSE 0) =
                Cardinality({p \in post : p[1] = t})
        BY DEF TablesAgree, Settled
    <2>1. ASSUME NEW d \in Nodes \ spoiled
          PROVE  /\ {<<p[1], p[3]>> : p \in {q \in post : q[2] = d}} =
                    {<<t, Indexed(d)[t]>> : t \in DOMAIN Indexed(d)}
                 /\ d \in DOMAIN lens => lens[d] = Length(Indexed(d))
        <3>1. PICK c : c = Indexed(d)
            OBVIOUS
        <3>2. DocOK(post, rev, lens, d) /\ c = Content(rev, d)
            BY <3>1, ContentIs DEF DocsInv, Agree
        <3>3. \A t \in Terms, n \in Counts : <<t, d, n>> \in post <=> t \in DOMAIN c /\ c[t] = n
            BY <3>2 DEF DocOK, Posted
        <3>4. post \subseteq Terms \X Nodes \X Counts
            BY DEF TypeOK, TablesTyped
        <3>5. DOMAIN c \subseteq Terms /\ \A t \in DOMAIN c : c[t] \in Counts
            BY <3>1, IndexedTyped, CountsTyped DEF TypeOK
        <3>6. ASSUME NEW e \in {<<p[1], p[3]>> : p \in {q \in post : q[2] = d}}
              PROVE  e \in {<<t, c[t]>> : t \in DOMAIN c}
            <4>1. PICK t \in Terms, n \in Counts : <<t, d, n>> \in post /\ e = <<t, n>>
                BY <3>4
            <4> QED
                BY <3>3, <4>1
        <3>7. ASSUME NEW t \in DOMAIN c
              PROVE  <<t, c[t]>> \in {<<p[1], p[3]>> : p \in {q \in post : q[2] = d}}
            <4>1. <<t, d, c[t]>> \in {q \in post : q[2] = d}
                BY <3>3, <3>5
            <4> QED
                BY <4>1
        <3>8. {<<p[1], p[3]>> : p \in {q \in post : q[2] = d}} = {<<t, c[t]>> : t \in DOMAIN c}
            BY <3>6, <3>7
        <3> QED
            BY <3>1, <3>2, <3>8 DEF DocOK
    <2>2. ASSUME spoiled = {}, NEW t \in Terms
          PROVE  (IF t \in DOMAIN df THEN df[t] ELSE 0) = Cardinality({p \in post : p[1] = t})
        BY <2>2 DEF FreqInv, Frequent, Frequency
    <2> QED
        BY <2>1, <2>2
<1> QED
    BY <1>1, TypeCorrect, DocsHold, FreqHold, PTL

-----------------------------------------------------------------------------
(* The totals.                                                              *)

LEMMA LensFinite ==
    ASSUME NEW l \in Tables(Nodes, Nat)
    PROVE  IsFiniteSet(DOMAIN l) /\ \A d \in DOMAIN l : l[d] \in Nat
<1>1. DOMAIN l \subseteq Nodes /\ \A d \in DOMAIN l : l[d] \in Nat
    BY TableIs
<1> QED
    BY <1>1, TermAssumption, FS_Subset

LEMMA DeleteAdded ==
    ASSUME NEW f \in Tables(Nodes, Nat), NEW k, k \notin DOMAIN f, NEW n
    PROVE  Delete(Put(f, k, n), k) = f
<1>1. f = [x \in DOMAIN f |-> f[x]]
    BY TableIs
<1>2. PICK g : g = Delete(Put(f, k, n), k)
    OBVIOUS
<1>3. g = [x \in DOMAIN f |-> f[x]]
    BY <1>2 DEF Delete, Put, Restrict
<1> QED
    BY <1>1, <1>2, <1>3

(* What the totals say of the lengths without one document, and with it.    *)
LEMMA LensWithout ==
    ASSUME NEW l \in Tables(Nodes, Nat), NEW d \in DOMAIN l
    PROVE  /\ Cardinality(DOMAIN l) = Cardinality(DOMAIN Delete(l, d)) + 1
           /\ Cardinality(DOMAIN Delete(l, d)) \in Nat
           /\ Length(l) = l[d] + Length(Delete(l, d))
           /\ Length(Delete(l, d)) \in Nat
           /\ l[d] \in Nat
<1>1. IsFiniteSet(DOMAIN l) /\ \A x \in DOMAIN l : l[x] \in Nat
    BY LensFinite
<1>2. PICK k : k = Delete(l, d)
    OBVIOUS
<1>3. DOMAIN k = DOMAIN l \ {d} /\ k \in Tables(Nodes, Nat)
    BY <1>2, DeleteFacts, TableDelete
<1>4. IsFiniteSet(DOMAIN k) /\ \A x \in DOMAIN k : k[x] \in Nat
    BY <1>3, LensFinite
<1>5. Cardinality(DOMAIN l \ {d}) = Cardinality(DOMAIN l) - 1
    BY <1>1, FS_RemoveElement
<1>6. Cardinality(DOMAIN l) \in Nat /\ Cardinality(DOMAIN k) \in Nat
    BY <1>1, <1>4, FS_CardinalityType
<1>7. Length(k) \in Nat
    BY <1>4, LengthType
<1>8. Length(l) = l[d] + Length(k)
    BY <1>1, <1>2, LengthDelete
<1> QED
    BY <1>1, <1>2, <1>3, <1>5, <1>6, <1>7, <1>8

LEMMA LensChanged ==
    ASSUME NEW l \in Tables(Nodes, Nat), NEW d \in DOMAIN l, NEW n \in Nat
    PROVE  /\ DOMAIN Put(l, d, n) = DOMAIN l
           /\ Length(Put(l, d, n)) = n + Length(Delete(l, d))
<1>1. IsFiniteSet(DOMAIN l) /\ \A x \in DOMAIN l : l[x] \in Nat
    BY LensFinite
<1>2. Length(Put(l, d, n)) = n + Length(Delete(l, d))
    BY <1>1, LengthChange
<1>3. DOMAIN Put(l, d, n) = DOMAIN l
    BY DEF Put
<1> QED
    BY <1>2, <1>3

LEMMA TotalsRest ==
    ASSUME TypeOK, TotalsInv,
           Quiet \/ Opened \/ RolledBack \/ Cleared \/ GivenUp \/ DocStarts
    PROVE  TotalsInv'
<1>1. CASE Quiet
    BY <1>1 DEF Quiet, index, TotalsInv
<1>2. CASE Opened
    <2>1. spoiled = {} => Totalled(lens, meta)
        BY <1>2 DEF Opened, TotalsInv
    <2>2. saved'.lens = lens /\ saved'.meta = meta /\ saved'.spoiled = spoiled
        BY <1>2 DEF Opened, Copy
    <2> QED
        BY <1>2, <2>1, <2>2 DEF Opened, index, TotalsInv
<1>3. CASE RolledBack
    <2>1. CASE saved = None
        <3>1. spoiled = {} => Totalled(lens, meta)
            BY <2>1 DEF TotalsInv, TypeOK, Control
        <3>2. UNCHANGED <<lens, meta, spoiled>>
            BY <1>3, <2>1 DEF RolledBack, Visible, Restore, Copy
        <3> QED
            BY <1>3, <3>1, <3>2 DEF RolledBack, TotalsInv
    <2>2. CASE saved # None
        <3>1. saved.spoiled = {} => Totalled(saved.lens, saved.meta)
            BY <2>2 DEF TotalsInv
        <3>2. lens' = saved.lens /\ meta' = saved.meta /\ spoiled' = saved.spoiled
            BY <1>3, <2>2 DEF RolledBack, Visible, Restore
        <3> QED
            BY <1>3, <3>1, <3>2 DEF RolledBack, TotalsInv
    <2> QED
        BY <2>1, <2>2
<1>4. CASE Cleared
    <2>1. Totalled(EmptyTable, NoMeta)
        BY LengthEmpty, FS_EmptySet, TableEmpty DEF Totalled, NoMeta
    <2> QED
        BY <1>4, <2>1 DEF Cleared, TotalsInv
<1>5. CASE GivenUp
    <2>1. walk # None /\ ~failed' => spoiled' # {}
        BY <1>5 DEF GivenUp
    <2>2. spoiled' = {} => spoiled = {}
        BY <1>5 DEF GivenUp
    <2> QED
        BY <1>5, <2>1, <2>2 DEF GivenUp, index, TotalsInv
<1>6. CASE DocStarts
    <2>1. PICK d \in Nodes, c \in TermCounts, lenient \in BOOLEAN :
             NewDoc(d, c, lenient) \/ \E gone \in BOOLEAN : OldDoc(d, c, gone, lenient)
        BY <1>6 DEF DocStarts
    <2>2. /\ walk = None /\ ~failed /\ UNCHANGED <<meta, spoiled, failed, saved>>
          /\ spoiled = {} => Totalled(lens, meta)
        BY <2>1 DEF NewDoc, OldDoc, index, TotalsInv
    <2>3. CASE NewDoc(d, c, lenient)
        <3>1. d \notin DOMAIN lens /\ lens' = Put(lens, d, Length(c))
            BY <2>3 DEF NewDoc
        <3>2. Delete(lens', d) = lens
            BY <3>1, DeleteAdded DEF TypeOK, TablesTyped
        <3>3. walk' # None /\ walk'.fresh = TRUE /\ walk'.doc = d
            <4>1. EmptyTable \in TermCounts /\ TablesTyped
                BY TableEmpty DEF TermCounts, TypeOK
            <4>2. walk' = Walk(d, EmptyTable, c, TRUE, FALSE, lenient)
                BY <2>3 DEF NewDoc
            <4>3. Walk(d, EmptyTable, c, TRUE, FALSE, lenient) # None
                BY <4>1, WalkTyped
            <4> QED
                BY <4>2, <4>3 DEF Walk
        <3> QED
            BY <2>2, <3>2, <3>3 DEF TotalsInv
    <2>4. ASSUME NEW gone \in BOOLEAN, OldDoc(d, c, gone, lenient) PROVE TotalsInv'
        <3>1. walk'.fresh = FALSE /\ lens' = lens
            BY <2>4 DEF OldDoc, Walk, index
        <3> QED
            BY <2>2, <3>1 DEF TotalsInv
    <2> QED
        BY <2>1, <2>3, <2>4
<1> QED
    BY <1>1, <1>2, <1>3, <1>4, <1>5, <1>6

LEMMA TotalsPosting ==
    ASSUME TypeOK, TotalsInv, RemovePosting \/ AddPosting \/ KeepPosting \/ ReplacePosting
    PROVE  TotalsInv'
<1>1. walk # None /\ walk \in Walks /\ \E t \in Pending(walk) : Advance(t)
    BY DEF RemovePosting, AddPosting, KeepPosting, ReplacePosting, TypeOK
<1>2. walk' # None /\ walk'.fresh = walk.fresh /\ walk'.doc = walk.doc
    BY <1>1, AdvanceTyped
<1>3. UNCHANGED <<lens, meta, failed, spoiled, saved>>
    BY DEF RemovePosting, AddPosting, KeepPosting, ReplacePosting, aside
<1> QED
    BY <1>1, <1>2, <1>3 DEF TotalsInv

LEMMA TotalsEnd ==
    ASSUME TypeOK, DocsInv, TotalsInv, EndWalk \/ ReverseFails
    PROVE  TotalsInv'
<1>1. PICK w, l, m : w = walk /\ l = lens' /\ m = meta'
    OBVIOUS
<1>2. /\ walk # None /\ w \in Walks /\ w.doc \in Nodes /\ ~failed /\ walk' = None
      /\ w.lenient \in BOOLEAN /\ saved' = saved
      /\ w.length \in Nat /\ w.was \in Nat /\ ~(w.fresh /\ w.gone)
      /\ w.fresh \in BOOLEAN /\ w.gone \in BOOLEAN
    BY <1>1 DEF EndWalk, ReverseFails, Fail, Finishing, TypeOK, Control, Walks
<1>3. CASE Fail(w.doc, w.lenient)
    <2>1. ~failed' => spoiled' = spoiled \cup {w.doc}
        BY <1>2, <1>3 DEF Fail
    <2> QED
        BY <1>2, <2>1 DEF TotalsInv
<1>4. CASE /\ l = IF w.gone THEN Delete(lens, w.doc) ELSE Put(lens, w.doc, w.length)
           /\ Recordable(w)
           /\ m = IF Records(w) THEN Recorded(w) ELSE meta
           /\ UNCHANGED <<failed, spoiled>>
    <2> SUFFICES ASSUME spoiled = {} PROVE Totalled(l, m)
        BY <1>1, <1>2, <1>4 DEF TotalsInv
    <2> DEFINE k == Delete(lens, w.doc)
    <2>1. /\ w.doc \in DOMAIN lens
          /\ lens[w.doc] = IF w.fresh THEN w.length ELSE w.was
          /\ lens \in Tables(Nodes, Nat)
          /\ meta \in [docs : Nat, sum : Int] /\ meta.docs \in Nat /\ meta.sum \in Int
        BY <1>1, <1>2 DEF DocsInv, WalkShape, TypeOK, TablesTyped
    <2>2. /\ Cardinality(DOMAIN lens) = Cardinality(DOMAIN k) + 1
          /\ Cardinality(DOMAIN k) \in Nat
          /\ Length(lens) = lens[w.doc] + Length(k)
          /\ Length(k) \in Nat
        BY <2>1, LensWithout
    <2>3. DOMAIN Put(lens, w.doc, w.length) = DOMAIN lens
          /\ Length(Put(lens, w.doc, w.length)) = w.length + Length(k)
        BY <1>2, <2>1, LensChanged
    <2>4. IF w.fresh THEN Totalled(k, meta) ELSE Totalled(lens, meta)
        BY <1>1, <1>2 DEF TotalsInv
    <2> HIDE DEF k
    <2>5. CASE w.fresh
        <3>1. m = [docs |-> meta.docs + 1, sum |-> meta.sum + w.length]
            BY <1>2, <1>4, <2>5 DEF Records, Recorded
        <3>2. l = Put(lens, w.doc, w.length)
            BY <1>2, <1>4, <2>5
        <3>3. m.docs = meta.docs + 1 /\ m.sum = meta.sum + w.length
            BY <3>1
        <3> QED
            BY <1>2, <2>1, <2>2, <2>3, <2>4, <2>5, <3>2, <3>3 DEF Totalled
    <2>6. CASE w.gone
        <3>1. m = [docs |-> meta.docs - 1,
                   sum |-> IF meta.docs > 1 THEN meta.sum - w.was ELSE 0]
            BY <1>2, <1>4, <2>6 DEF Records, Recorded
        <3>2. l = k
            BY <1>4, <2>6 DEF k
        <3>3. /\ m.docs = meta.docs - 1
              /\ m.sum = IF meta.docs > 1 THEN meta.sum - w.was ELSE 0
            BY <3>1
        <3>4. meta.docs = Cardinality(DOMAIN k) + 1 /\ meta.sum = w.was + Length(k)
            BY <1>2, <2>1, <2>2, <2>4, <2>6 DEF Totalled
        <3>5. Cardinality(DOMAIN k) = 0 => Length(k) = 0
            <4>1. IsFiniteSet(DOMAIN k)
                <5>1. k \in Tables(Nodes, Nat)
                    BY <2>1, TableDelete DEF k
                <5> QED
                    BY <5>1, LensFinite
            <4>2. Cardinality(DOMAIN k) = 0 => DOMAIN k = {}
                BY <4>1, FS_EmptySet
            <4> QED
                BY <4>2, LengthEmpty
        <3> QED
            BY <1>2, <2>2, <3>2, <3>3, <3>4, <3>5 DEF Totalled
    <2>7. CASE ~w.fresh /\ ~w.gone
        <3>1. l = Put(lens, w.doc, w.length)
            BY <1>4, <2>7
        <3>2. m.docs = meta.docs /\ m.sum = meta.sum - w.was + w.length
            <4>1. CASE Records(w)
                <5>1. m = [meta EXCEPT !.sum = @ - w.was + w.length]
                    BY <1>4, <2>7, <4>1 DEF Recorded
                <5> QED
                    BY <2>1, <5>1
            <4>2. CASE ~Records(w)
                <5>1. m = meta /\ w.was = w.length
                    BY <1>4, <4>2 DEF Records
                <5> QED
                    BY <1>2, <2>1, <5>1
            <4> QED
                BY <4>1, <4>2
        <3> QED
            BY <1>2, <2>1, <2>2, <2>3, <2>4, <2>7, <3>1, <3>2 DEF Totalled
    <2> QED
        BY <1>2, <2>5, <2>6, <2>7
<1> QED
    BY <1>1, <1>3, <1>4 DEF EndWalk, ReverseFails

LEMMA TotalsHold == Spec => []TotalsInv
<1>1. Init => TotalsInv
    BY LengthEmpty, FS_EmptySet, TableEmpty DEF Init, TotalsInv, Totalled, NoMeta
<1>2. TypeOK /\ DocsInv /\ TotalsInv /\ [Next]_vars => TotalsInv'
    BY StepKinds, TotalsRest, TotalsPosting, TotalsEnd DEF Kinds
<1> QED
    BY <1>1, <1>2, TypeCorrect, DocsHold, PTL DEF Spec

(* The totals that every score is computed from count the documents and      *)
(* their tokens, through any sequence of inserts, updates, deletes, aborts,  *)
(* kills and rebuilds of which none was logged as failed.                   *)
THEOREM TotalsRight == Spec => []TotalsMatch
<1>1. TotalsInv => TotalsMatch
    <2>1. Length(lens) = MapThenSumSet(LAMBDA d : lens[d], DOMAIN lens)
        BY DEF Length
    <2> QED
        BY <2>1 DEF TotalsInv, TotalsMatch, Totalled, Settled
<1> QED
    BY <1>1, TotalsHold, PTL

-----------------------------------------------------------------------------
(* The nodes.                                                               *)

(* Steps that leave nodes and index alone.                                  *)
LEMMA FollowQuiet ==
    ASSUME TypeOK, FollowInv,
           \/ Begin \/ Commit \/ SetSkip \/ StartRebuild \/ Start \/ OpenChunk
           \/ CloseChunk \/ EndRebuild \/ UNCHANGED vars
    PROVE  FollowInv'
<1>1. UNCHANGED <<nodes, rev, lens, bypassed, spoiled, walk>>
    BY DEF Begin, Commit, SetSkip, StartRebuild, Start, OpenChunk, CloseChunk,
           EndRebuild, vars, tables, history
<1>2. CASE Commit \/ SetSkip \/ CloseChunk \/ UNCHANGED vars
    <2>1. /\ UNCHANGED <<partial, failed, todo>>
          /\ (saved' = saved /\ job' = job) \/ saved' = None
          /\ job' = job \/ (job = "chunk" /\ job' = "gap")
        BY <1>2 DEF Commit, SetSkip, CloseChunk, InChunk, vars, tables, history
    <2>2. SavedFollows'
        BY <2>1 DEF FollowInv, SavedFollows
    <2>3. ~failed' => \A d \in Apart(bypassed, spoiled) : Follows(d)'
        BY <1>1, <2>1 DEF FollowInv, Follows
    <2> QED
        BY <1>1, <2>1, <2>2, <2>3 DEF FollowInv
<1>3. CASE StartRebuild \/ Start
    <2>1. /\ UNCHANGED <<partial, failed, saved>> /\ job = "none"
          /\ job' \in {"none", "clear"}
        BY <1>3 DEF StartRebuild, Start, tables, history
    <2>2. SavedFollows'
        BY <2>1 DEF FollowInv, SavedFollows
    <2>3. ~failed' => \A d \in Apart(bypassed, spoiled) : Follows(d)'
        BY <1>1, <2>1 DEF FollowInv, Follows
    <2> QED
        BY <1>1, <2>1, <2>2, <2>3 DEF FollowInv
<1>4. CASE Begin \/ OpenChunk
    <2>1. /\ UNCHANGED <<partial, todo>> /\ ~failed /\ ~failed' /\ walk = None
          /\ saved' = Copy
          /\ job' = job \/ (job = "gap" /\ job' = "chunk")
        BY <1>4 DEF Begin, OpenChunk, tables, history, TypeOK, Control
    <2>2. \A d \in Apart(bypassed, spoiled) : Follows(d)
        BY <2>1 DEF FollowInv
    <2>3. SavedFollows'
        <3>1. /\ saved'.nodes = nodes /\ saved'.rev = rev /\ saved'.lens = lens
              /\ saved'.bypassed = bypassed /\ saved'.spoiled = spoiled
              /\ saved'.partial = partial
            BY <2>1 DEF Copy
        <3>2. \A d \in Apart(bypassed, spoiled) :
                /\ Says(nodes, rev, lens, d)
                /\ ~partial => Has(nodes, lens, d)
                /\ job = "gap" => Awaits(nodes, lens, todo, d)
            BY <2>1, <2>2 DEF Follows
        <3> QED
            BY <2>1, <3>1, <3>2 DEF SavedFollows
    <2>4. \A d \in Apart(bypassed, spoiled) : Follows(d)'
        BY <1>1, <2>1, <2>2 DEF Follows
    <2> QED
        BY <1>1, <2>1, <2>3, <2>4 DEF FollowInv
<1>5. CASE EndRebuild
    <2>1. /\ job = "gap" /\ saved = None /\ DOMAIN todo = {} /\ walk = None /\ ~failed
          /\ job' = "none" /\ UNCHANGED <<saved, failed>>
        BY <1>5 DEF EndRebuild, TypeOK, Control
    <2>2. \A d \in Apart(bypassed, spoiled) : Follows(d)
        BY <2>1 DEF FollowInv
    <2>3. \A d \in Apart(bypassed, spoiled) : Has(nodes, lens, d)
        BY <2>1, <2>2 DEF Follows, Awaits, Has
    <2>4. \A d \in Apart(bypassed, spoiled) : Follows(d)'
        BY <1>1, <2>1, <2>2, <2>3 DEF Follows
    <2> QED
        BY <1>1, <2>1, <2>4 DEF FollowInv, SavedFollows
<1> QED
    BY <1>2, <1>3, <1>4, <1>5

LEMMA FollowBack ==
    ASSUME TypeOK, FollowInv, Abort \/ StartFails \/ Crash
    PROVE  FollowInv'
<1>1. /\ Restore(Visible) /\ saved' = None /\ walk' = None /\ ~failed'
      /\ (job' = job /\ job # "chunk" /\ todo' = todo /\ saved # None) \/ job' = "none"
    BY DEF Abort, StartFails, Crash, Visible, InChunk, TypeOK, Control
<1>2. CASE saved = None
    <2>1. /\ ~failed /\ walk = None /\ job' = "none"
          /\ UNCHANGED <<nodes, rev, lens, bypassed, spoiled, partial>>
        BY <1>1, <1>2 DEF Visible, Restore, Copy, TypeOK, Control
    <2>2. \A d \in Apart(bypassed, spoiled) : Follows(d)'
        BY <1>1, <2>1 DEF FollowInv, Follows
    <2> QED
        BY <1>1, <2>1, <2>2 DEF FollowInv, SavedFollows
<1>3. CASE saved # None
    <2>1. /\ nodes' = saved.nodes /\ rev' = saved.rev /\ lens' = saved.lens
          /\ bypassed' = saved.bypassed /\ spoiled' = saved.spoiled
          /\ partial' = saved.partial /\ saved.partial = partial
        BY <1>1, <1>3 DEF Visible, Restore, FollowInv, SavedFollows
    <2>2. \A d \in Apart(saved.bypassed, saved.spoiled) :
             /\ Says(saved.nodes, saved.rev, saved.lens, d)
             /\ ~partial => Has(saved.nodes, saved.lens, d)
             /\ job = "gap" => Awaits(saved.nodes, saved.lens, todo, d)
        BY <1>3 DEF FollowInv, SavedFollows
    <2>3. \A d \in Apart(bypassed', spoiled') : Follows(d)'
        BY <1>1, <2>1, <2>2 DEF Follows
    <2>4. job' \in {"gap", "chunk"} => partial'
        BY <1>1, <2>1 DEF FollowInv
    <2> QED
        BY <1>1, <2>3, <2>4 DEF FollowInv, SavedFollows
<1> QED
    BY <1>2, <1>3

LEMMA FollowClear ==
    ASSUME TypeOK, FollowInv, ClearIndex
    PROVE  FollowInv'
<1>1. /\ saved = None /\ walk = None /\ ~failed
      /\ UNCHANGED <<nodes, saved, walk, failed, todo>>
      /\ lens' = EmptyTable /\ partial' = TRUE /\ spoiled' = {}
      /\ bypassed' = {d \in issued : Stale(d)}
    BY DEF ClearIndex, TypeOK, Control
<1>2. ASSUME NEW d \in Apart(bypassed', spoiled') PROVE Follows(d)'
    <2>1. d \in DOMAIN nodes => d \in issued /\ ~Stale(d)
        BY <1>1, <1>2 DEF Apart, TypeOK, Control
    <2>2. d \in DOMAIN nodes => d \in DOMAIN todo /\ todo[d] = nodes[d]
        BY <2>1 DEF Stale
    <2> QED
        BY <1>1, <2>2, TableEmpty DEF Follows, Says, Awaits
<1> QED
    BY <1>1, <1>2 DEF FollowInv, SavedFollows

(* A statement, or a step of the rebuild, that is about one document.        *)
Beside(d) ==
    /\ UNCHANGED <<rev, saved, partial, job>>
    /\ job = "gap" => todo' = todo
    /\ walk = None /\ ~failed
    /\ walk' # None => walk'.doc = d
    /\ \A x \in Nodes \ {d} :
         /\ x \in DOMAIN nodes' <=> x \in DOMAIN nodes
         /\ x \in DOMAIN nodes => nodes'[x] = nodes[x]
         /\ x \in DOMAIN lens' <=> x \in DOMAIN lens
         /\ x \in DOMAIN todo' <=> x \in DOMAIN todo
         /\ x \in DOMAIN todo => todo'[x] = todo[x]
         /\ x \in bypassed' <=> x \in bypassed
         /\ x \in spoiled' <=> x \in spoiled

LEMMA FollowOne ==
    ASSUME FollowInv, NEW d \in Nodes, Beside(d),
           ~failed' /\ d \in Apart(bypassed', spoiled') => Follows(d)'
    PROVE  FollowInv'
<1>1. SavedFollows'
    BY DEF Beside, FollowInv, SavedFollows
<1>2. ASSUME ~failed', NEW x \in Apart(bypassed', spoiled') PROVE Follows(x)'
    <2>1. CASE x = d
        BY <1>2, <2>1
    <2>2. CASE x # d
        <3>1. x \in Apart(bypassed, spoiled) /\ x \in Nodes
            BY <1>2, <2>2 DEF Beside, Apart
        <3>2. Follows(x)
            BY <3>1 DEF FollowInv, Beside
        <3>3. (walk' # None /\ walk'.doc = x) <=> FALSE
            BY <2>2 DEF Beside
        <3>4. Says(nodes, rev, lens, x) => Says(nodes, rev, lens, x)'
            BY <2>2, <3>1 DEF Beside, Says
        <3>5. Has(nodes, lens, x) => Has(nodes, lens, x)'
            BY <2>2, <3>1 DEF Beside, Has
        <3>6. Awaits(nodes, lens, todo, x) => Awaits(nodes, lens, todo, x)'
            BY <2>2, <3>1 DEF Beside, Awaits
        <3> QED
            BY <3>2, <3>3, <3>4, <3>5, <3>6 DEF Beside, Follows
    <2> QED
        BY <2>1, <2>2
<1> QED
    BY <1>1, <1>2 DEF Beside, FollowInv

(* What an insert, an update and a delete leave of their document.          *)
LEMMA InsertOutcome ==
    ASSUME TypeOK, walk = None, ~failed, NEW d \in Nodes, NEW c \in TermCounts,
           NEW lenient \in BOOLEAN, InsertDoc(d, c, lenient)
    PROVE  /\ \A x \in Nodes \ {d} : x \in DOMAIN lens' <=> x \in DOMAIN lens
           /\ spoiled' = spoiled
           /\ \/ /\ d \notin DOMAIN lens /\ d \notin DOMAIN rev /\ d \in DOMAIN lens'
                 /\ walk' # None /\ walk'.doc = d /\ ~walk'.gone /\ walk'.target = c
              \/ /\ d \in DOMAIN lens \/ d \in DOMAIN rev
                 /\ lens' = lens /\ walk' = None
                 /\ ~failed' => lenient
<1>1. CASE Presence(d, lens, rev) = "absent"
    <2>1. /\ d \notin DOMAIN lens /\ d \notin DOMAIN rev
          /\ lens' = Put(lens, d, Length(c)) /\ spoiled' = spoiled
          /\ walk' = Walk(d, EmptyTable, c, TRUE, FALSE, lenient)
        BY <1>1, PresenceIs DEF InsertDoc
    <2>2. walk' # None
        <3>1. EmptyTable \in TermCounts /\ TablesTyped
            BY TableEmpty DEF TermCounts, TypeOK
        <3>2. Walk(d, EmptyTable, c, TRUE, FALSE, lenient) # None
            BY <3>1, WalkTyped
        <3> QED
            BY <2>1, <3>2
    <2>3. walk'.doc = d /\ ~walk'.gone /\ walk'.target = c
        BY <2>1 DEF Walk
    <2>4. DOMAIN lens' = DOMAIN lens \cup {d}
        BY <2>1, PutFacts
    <2> QED
        BY <2>1, <2>2, <2>3, <2>4
<1>2. CASE Presence(d, lens, rev) # "absent"
    <2>1. d \in DOMAIN lens \/ d \in DOMAIN rev
        BY <1>2, PresenceIs
    <2>2. lens' = lens /\ walk' = None /\ failed' = ~lenient /\ spoiled' = spoiled
        BY <1>2 DEF InsertDoc
    <2>3. ~failed' => lenient
        BY <2>2
    <2> QED
        BY <2>1, <2>2, <2>3
<1> QED
    BY <1>1, <1>2

LEMMA UpdateOutcome ==
    ASSUME TypeOK, walk = None, ~failed, NEW d \in Nodes, NEW c \in TermCounts,
           UpdateDoc(d, c, FALSE)
    PROVE  /\ \A x \in Nodes \ {d} : x \in DOMAIN lens' <=> x \in DOMAIN lens
           /\ spoiled' = spoiled
           /\ ~failed' =>
                /\ d \in DOMAIN lens'
                /\ \/ /\ walk' # None /\ walk'.doc = d /\ ~walk'.gone /\ walk'.target = c
                   \/ walk' = None /\ Indexed(d) = c
           /\ failed' => walk' = None
<1>1. CASE Presence(d, lens, rev) = "absent" /\ InsertDoc(d, c, FALSE)
    <2>1. FALSE \in BOOLEAN
        OBVIOUS
    <2>2. /\ \A x \in Nodes \ {d} : x \in DOMAIN lens' <=> x \in DOMAIN lens
          /\ spoiled' = spoiled
          /\ \/ /\ d \in DOMAIN lens'
                /\ walk' # None /\ walk'.doc = d /\ ~walk'.gone /\ walk'.target = c
             \/ walk' = None /\ failed'
        BY <1>1, <2>1, InsertOutcome
    <2>3. walk' # None => ~failed'
        BY <1>1 DEF InsertDoc
    <2> QED
        BY <2>2, <2>3
<1>2. CASE /\ Presence(d, lens, rev) \in {"empty", "indexed"}
           /\ walk' = IF Indexed(d) = c THEN None
                      ELSE Walk(d, Indexed(d), c, FALSE, FALSE, FALSE)
           /\ UNCHANGED <<lens, failed, spoiled>>
    <2>1. d \in DOMAIN lens
        BY <1>2, PresenceIs
    <2>2. CASE Indexed(d) = c
        BY <1>2, <2>1, <2>2
    <2>3. CASE Indexed(d) # c
        <3>1. walk' = Walk(d, Indexed(d), c, FALSE, FALSE, FALSE)
            BY <1>2, <2>3
        <3>2. Walk(d, Indexed(d), c, FALSE, FALSE, FALSE) # None
            BY WalkTyped, IndexedTyped DEF TypeOK
        <3>3. walk'.doc = d /\ ~walk'.gone /\ walk'.target = c
            BY <3>1 DEF Walk
        <3> QED
            BY <1>2, <2>1, <3>1, <3>2, <3>3
    <2> QED
        BY <2>2, <2>3
<1>3. CASE Fail(d, FALSE) /\ UNCHANGED lens
    BY <1>3 DEF Fail
<1> QED
    BY <1>1, <1>2, <1>3 DEF UpdateDoc

LEMMA DeleteOutcome ==
    ASSUME TypeOK, walk = None, ~failed, NEW d \in Nodes, NEW lenient \in BOOLEAN,
           DeleteDoc(d, lenient)
    PROVE  /\ \A x \in Nodes \ {d} : x \in spoiled' <=> x \in spoiled
           /\ walk' # None => walk'.doc = d
           /\ ~failed' /\ d \notin spoiled' =>
                \/ walk' = None /\ d \notin DOMAIN lens
                \/ walk' # None /\ walk'.gone
<1>1. CASE Presence(d, lens, rev) = "absent" /\ UNCHANGED <<walk, failed, spoiled>>
    BY <1>1, PresenceIs
<1>2. CASE /\ walk' = Walk(d, Indexed(d), EmptyTable, FALSE, TRUE, lenient)
           /\ UNCHANGED <<failed, spoiled>>
    <2>1. Walk(d, Indexed(d), EmptyTable, FALSE, TRUE, lenient) # None
        <3>1. EmptyTable \in TermCounts /\ Indexed(d) \in TermCounts /\ TablesTyped
            BY TableEmpty, IndexedTyped DEF TermCounts, TypeOK
        <3> QED
            BY <3>1, WalkTyped
    <2>2. walk'.doc = d /\ walk'.gone
        BY <1>2 DEF Walk
    <2> QED
        BY <1>2, <2>1, <2>2
<1>3. CASE Fail(d, lenient)
    BY <1>3 DEF Fail
<1> QED
    BY <1>1, <1>2, <1>3 DEF DeleteDoc

LEMMA FollowAdd ==
    ASSUME TypeOK, FollowInv, AddNode
    PROVE  FollowInv'
<1>1. PICK d \in Nodes \ issued, c \in Contents :
       /\ nodes' = Put(nodes, d, c)
       /\ \/ /\ ~Skips(d) /\ c # NoProps
             /\ InsertDoc(d, c, FALSE)
             /\ UNCHANGED bypassed
          \/ /\ Skips(d) \/ c = NoProps
             /\ bypassed' = IF Bypasses(d) /\ c # NoProps
                            THEN bypassed \cup {d} ELSE bypassed
             /\ UNCHANGED <<lens, walk, failed, spoiled>>
    BY DEF AddNode
<1>2. walk = None /\ ~failed /\ UNCHANGED <<rev, saved, partial, job, todo>>
    BY DEF AddNode, Ready
<1>3. d \notin DOMAIN nodes \cup bypassed \cup spoiled /\ d \in Nodes
    BY DEF TypeOK, Control
<1>4. DOMAIN nodes' = DOMAIN nodes \cup {d} /\ nodes'[d] = c
      /\ \A x \in DOMAIN nodes \ {d} : nodes'[x] = nodes[x]
    <2>1. nodes' = Put(nodes, d, c)
        BY <1>1
    <2> QED
        BY <2>1 DEF Put
<1>5. d \notin Excluded => d \notin DOMAIN lens
    <2>1. d \notin Excluded => Follows(d)
        BY <1>2, <1>3 DEF FollowInv, Apart
    <2> QED
        BY <1>2, <1>3, <2>1 DEF Follows, Says
<1>6. CASE ~Skips(d) /\ c # NoProps /\ InsertDoc(d, c, FALSE) /\ UNCHANGED bypassed
    <2>1. c \in TermCounts /\ FALSE \in BOOLEAN
        BY <1>6, DocumentTyped DEF Contents
    <2>2. /\ \A x \in Nodes \ {d} : x \in DOMAIN lens' <=> x \in DOMAIN lens
          /\ spoiled' = spoiled
          /\ \/ /\ d \in DOMAIN lens'
                /\ walk' # None /\ walk'.doc = d /\ ~walk'.gone /\ walk'.target = c
             \/ walk' = None /\ failed'
        BY <1>2, <1>3, <1>6, <2>1, InsertOutcome
    <2>3. Beside(d)
        BY <1>2, <1>4, <1>6, <2>2 DEF Beside
    <2>4. ~failed' => Follows(d)'
        BY <1>4, <2>2 DEF Follows, Has, Awaits
    <2> QED
        BY <1>3, <2>3, <2>4, FollowOne
<1>7. CASE /\ Skips(d) \/ c = NoProps
           /\ bypassed' = IF Bypasses(d) /\ c # NoProps
                          THEN bypassed \cup {d} ELSE bypassed
           /\ UNCHANGED <<lens, walk, failed, spoiled>>
    <2>1. Beside(d)
        BY <1>2, <1>4, <1>7 DEF Beside
    <2>2. d \in Apart(bypassed', spoiled') => Follows(d)'
        <3> SUFFICES ASSUME d \in Apart(bypassed', spoiled') PROVE Follows(d)'
            OBVIOUS
        <3>1. d \notin Excluded /\ d \notin bypassed'
            BY DEF Apart
        <3>2. c = NoProps
            BY <1>7, <3>1 DEF Skips, Bypasses
        <3>3. d \notin DOMAIN lens' /\ walk' = None
            BY <1>2, <1>5, <1>7, <3>1
        <3> QED
            BY <1>4, <3>2, <3>3 DEF Follows, Has, Awaits, Says
    <2> QED
        BY <1>3, <2>1, <2>2, FollowOne
<1> QED
    BY <1>1, <1>6, <1>7

LEMMA FollowUpdate ==
    ASSUME TypeOK, FollowInv, UpdateNode
    PROVE  FollowInv'
<1>1. PICK d \in DOMAIN nodes, c \in Documents :
       /\ nodes' = Put(nodes, d, c)
       /\ \/ /\ ~Skips(d)
             /\ UpdateDoc(d, c, FALSE)
             /\ bypassed' = bypassed \ {d}
          \/ /\ Skips(d)
             /\ bypassed' = IF Bypasses(d) THEN bypassed \cup {d} ELSE bypassed
             /\ UNCHANGED <<lens, walk, failed, spoiled>>
    BY DEF UpdateNode
<1>2. walk = None /\ ~failed /\ UNCHANGED <<rev, saved, partial, job, todo>>
    BY DEF UpdateNode, Ready
<1>3. d \in Nodes /\ c \in TermCounts
    BY TableAt, DocumentTyped DEF TypeOK, TablesTyped
<1>4. DOMAIN nodes' = DOMAIN nodes \cup {d} /\ nodes'[d] = c
      /\ \A x \in DOMAIN nodes \ {d} : nodes'[x] = nodes[x]
    <2>1. nodes' = Put(nodes, d, c)
        BY <1>1
    <2> QED
        BY <2>1 DEF Put
<1>5. CASE UpdateDoc(d, c, FALSE) /\ bypassed' = bypassed \ {d}
    <2>1. /\ \A x \in Nodes \ {d} : x \in DOMAIN lens' <=> x \in DOMAIN lens
          /\ spoiled' = spoiled
          /\ ~failed' =>
               /\ d \in DOMAIN lens'
               /\ \/ /\ walk' # None /\ walk'.doc = d /\ ~walk'.gone /\ walk'.target = c
                  \/ walk' = None /\ Indexed(d) = c
          /\ failed' => walk' = None
        BY <1>2, <1>3, <1>5, UpdateOutcome
    <2>2. Beside(d)
        BY <1>2, <1>4, <1>5, <2>1 DEF Beside
    <2>3. ~failed' => Follows(d)'
        <3>1. Content(rev', d) = Indexed(d)
            BY <1>2, ContentIs
        <3> QED
            BY <1>4, <2>1, <3>1 DEF Follows, Has, Awaits, Says
    <2> QED
        BY <1>3, <2>2, <2>3, FollowOne
<1>6. CASE /\ Skips(d)
           /\ bypassed' = IF Bypasses(d) THEN bypassed \cup {d} ELSE bypassed
           /\ UNCHANGED <<lens, walk, failed, spoiled>>
    <2>1. Beside(d)
        BY <1>2, <1>4, <1>6 DEF Beside
    <2>2. d \notin Apart(bypassed', spoiled')
        BY <1>6 DEF Apart, Skips, Bypasses
    <2> QED
        BY <1>3, <2>1, <2>2, FollowOne
<1> QED
    BY <1>1, <1>5, <1>6

LEMMA FollowDrop ==
    ASSUME TypeOK, FollowInv, DropNode \/ DropNodeOnly
    PROVE  FollowInv'
<1>1. CASE DropNode
    <2>1. PICK d \in DOMAIN nodes, lenient \in {FALSE, CompatWrites > 0} :
             /\ nodes' = Delete(nodes, d)
             /\ \/ /\ ~Skips(d)
                   /\ DeleteDoc(d, lenient)
                   /\ bypassed' = bypassed \ {d}
                \/ /\ Skips(d)
                   /\ bypassed' = IF Bypasses(d) THEN bypassed \cup {d}
                                  ELSE bypassed
                   /\ UNCHANGED <<walk, failed, spoiled>>
        BY <1>1 DEF DropNode
    <2>2. walk = None /\ ~failed /\ UNCHANGED <<rev, lens, saved, partial, job, todo>>
        BY <1>1 DEF DropNode, Ready
    <2>3. d \in Nodes
        BY TableAt DEF TypeOK, TablesTyped
    <2>4. lenient \in BOOLEAN
        <3>1. (CompatWrites > 0) \in BOOLEAN
            <4>1. CASE CompatWrites > 0
                BY <4>1
            <4>2. CASE ~ (CompatWrites > 0)
                BY <4>2
            <4> QED
                BY <4>1, <4>2
        <3> QED
            BY <3>1
    <2>5. DOMAIN nodes' = DOMAIN nodes \ {d}
          /\ \A x \in DOMAIN nodes \ {d} : nodes'[x] = nodes[x]
        BY <2>1, DeleteFacts
    <2>6. CASE DeleteDoc(d, lenient) /\ bypassed' = bypassed \ {d}
        <3>1. /\ \A x \in Nodes \ {d} : x \in spoiled' <=> x \in spoiled
              /\ walk' # None => walk'.doc = d
              /\ ~failed' /\ d \notin spoiled' =>
                   \/ walk' = None /\ d \notin DOMAIN lens
                   \/ walk' # None /\ walk'.gone
            BY <2>2, <2>3, <2>4, <2>6, DeleteOutcome
        <3>2. Beside(d)
            BY <2>2, <2>5, <2>6, <3>1 DEF Beside
        <3>3. ~failed' /\ d \in Apart(bypassed', spoiled') => Follows(d)'
            BY <2>2, <2>5, <3>1 DEF Apart, Follows, Has, Awaits, Says
        <3> QED
            BY <2>3, <3>2, <3>3, FollowOne
    <2>7. CASE /\ Skips(d)
               /\ bypassed' = IF Bypasses(d) THEN bypassed \cup {d} ELSE bypassed
               /\ UNCHANGED <<walk, failed, spoiled>>
        <3>1. Beside(d)
            BY <2>2, <2>5, <2>7 DEF Beside
        <3>2. d \notin Apart(bypassed', spoiled')
            BY <2>7 DEF Apart, Skips, Bypasses
        <3> QED
            BY <2>3, <3>1, <3>2, FollowOne
    <2> QED
        BY <2>1, <2>6, <2>7
<1>2. CASE DropNodeOnly
    <2>1. PICK d \in DOMAIN nodes :
             nodes' = Delete(nodes, d) /\ bypassed' = bypassed \cup {d}
        BY <1>2 DEF DropNodeOnly
    <2>2. /\ walk = None /\ ~failed
          /\ UNCHANGED <<rev, lens, saved, partial, job, todo, walk, failed, spoiled>>
        BY <1>2 DEF DropNodeOnly, Ready
    <2>3. d \in Nodes
        BY TableAt DEF TypeOK, TablesTyped
    <2>4. DOMAIN nodes' = DOMAIN nodes \ {d}
          /\ \A x \in DOMAIN nodes \ {d} : nodes'[x] = nodes[x]
        BY <2>1, DeleteFacts
    <2>5. Beside(d)
        BY <2>1, <2>2, <2>4 DEF Beside
    <2>6. d \notin Apart(bypassed', spoiled')
        BY <2>1 DEF Apart
    <2> QED
        BY <2>3, <2>5, <2>6, FollowOne
<1> QED
    BY <1>1, <1>2

LEMMA FollowIndex ==
    ASSUME TypeOK, DocsInv, FollowInv, IndexNode
    PROVE  FollowInv'
<1>1. PICK d, c, u : d = Min(DOMAIN todo) /\ c = todo[d] /\ u = up
    OBVIOUS
<1>2. /\ todo' = Delete(todo, d)
      /\ \/ /\ c # NoProps
            /\ InsertDoc(d, c, u)
            /\ bypassed' = IF Stale(d) /\ walk' # None
                           THEN bypassed \cup {d} ELSE bypassed
         \/ /\ d \in Excluded \/ c = NoProps
            /\ UNCHANGED <<lens, walk, failed, spoiled, bypassed>>
    BY <1>1 DEF IndexNode
<1>3. /\ walk = None /\ ~failed /\ job = "chunk"
      /\ UNCHANGED <<nodes, rev, saved, partial, job>>
    BY DEF IndexNode, InChunk
<1>4. d \in Nodes /\ d \in DOMAIN todo /\ c \in Contents /\ u \in BOOLEAN
    <2>1. DOMAIN todo \in SUBSET Nodes
        BY TableIs DEF TypeOK
    <2>2. d \in DOMAIN todo
        BY <1>1, <2>1, LeastTodo DEF IndexNode
    <2> QED
        BY <1>1, <2>1, <2>2, TableAt DEF TypeOK
<1>5. DOMAIN todo' = DOMAIN todo \ {d}
      /\ \A x \in DOMAIN todo \ {d} : todo'[x] = todo[x]
    BY <1>2 DEF Delete, Restrict
<1>6. CASE /\ c # NoProps
           /\ InsertDoc(d, c, u)
           /\ bypassed' = IF Stale(d) /\ walk' # None
                          THEN bypassed \cup {d} ELSE bypassed
    <2>1. c \in TermCounts
        BY <1>4, <1>6, DocumentTyped DEF Contents
    <2>2. /\ \A x \in Nodes \ {d} : x \in DOMAIN lens' <=> x \in DOMAIN lens
          /\ spoiled' = spoiled
          /\ \/ /\ d \notin DOMAIN lens /\ d \notin DOMAIN rev /\ d \in DOMAIN lens'
                /\ walk' # None /\ walk'.doc = d /\ ~walk'.gone /\ walk'.target = c
             \/ /\ d \in DOMAIN lens \/ d \in DOMAIN rev
                /\ lens' = lens /\ walk' = None
        BY <1>3, <1>4, <1>6, <2>1, InsertOutcome
    <2>3. Beside(d)
        BY <1>3, <1>5, <1>6, <2>2 DEF Beside
    <2>4. d \in Apart(bypassed', spoiled') => Follows(d)'
        <3> SUFFICES ASSUME d \in Apart(bypassed', spoiled') PROVE Follows(d)'
            OBVIOUS
        <3>1. CASE walk' # None
            <4>1. d \in DOMAIN nodes /\ nodes[d] = c
                BY <1>1, <1>4, <1>6, <3>1 DEF Apart, Stale
            <4> QED
                BY <1>3, <2>2, <3>1, <4>1 DEF Follows, Has, Awaits
        <3>2. CASE walk' = None
            <4>1. d \in Apart(bypassed, spoiled)
                BY <1>6, <2>2, <3>2 DEF Apart
            <4>2. d \in DOMAIN lens
                <5>1. DocOK(post, rev, lens, d)
                    BY <1>3, <1>4, <4>1 DEF DocsInv, Agree, Apart
                <5> QED
                    BY <2>2, <3>2, <5>1 DEF DocOK
            <4>3. Says(nodes, rev, lens, d)
                BY <1>3, <4>1 DEF FollowInv, Follows
            <4> QED
                BY <1>3, <2>2, <3>2, <4>2, <4>3 DEF Follows, Has, Awaits, Says
        <3> QED
            BY <3>1, <3>2
    <2> QED
        BY <1>4, <2>3, <2>4, FollowOne
<1>7. CASE /\ d \in Excluded \/ c = NoProps
           /\ UNCHANGED <<lens, walk, failed, spoiled, bypassed>>
    <2>1. Beside(d)
        BY <1>3, <1>5, <1>7 DEF Beside
    <2>2. d \in Apart(bypassed', spoiled') => Follows(d)'
        <3> SUFFICES ASSUME d \in Apart(bypassed', spoiled') PROVE Follows(d)'
            OBVIOUS
        <3>1. d \in Apart(bypassed, spoiled) /\ c = NoProps
            BY <1>7 DEF Apart
        <3>2. Follows(d)
            BY <1>3, <3>1 DEF FollowInv
        <3>3. d \in DOMAIN nodes /\ nodes[d] # NoProps => d \in DOMAIN lens
            BY <1>1, <1>3, <3>1, <3>2 DEF Follows, Awaits
        <3> QED
            BY <1>3, <1>7, <3>2, <3>3 DEF Follows, Has, Awaits, Says
    <2> QED
        BY <1>4, <2>1, <2>2, FollowOne
<1> QED
    BY <1>2, <1>6, <1>7

LEMMA FollowPosting ==
    ASSUME TypeOK, FollowInv,
           RemovePosting \/ AddPosting \/ KeepPosting \/ ReplacePosting
    PROVE  FollowInv'
<1>1. PICK t \in Pending(walk) : Advance(t)
    BY DEF RemovePosting, AddPosting, KeepPosting, ReplacePosting
<1>2. /\ walk # None /\ walk \in Walks
      /\ UNCHANGED <<nodes, rev, lens, saved, job, todo, bypassed, spoiled, partial, failed>>
    BY DEF RemovePosting, AddPosting, KeepPosting, ReplacePosting, aside, TypeOK
<1>3. walk' # None /\ walk'.doc = walk.doc /\ walk'.gone = walk.gone
    BY <1>1, <1>2, AdvanceTyped
<1>4. walk'.target = walk.target
    BY <1>1, <1>2 DEF Advance, Walks
<1>5. \A d : Follows(d) => Follows(d)'
    BY <1>2, <1>3, <1>4 DEF Follows
<1> QED
    BY <1>2, <1>5 DEF FollowInv, SavedFollows

LEMMA FollowEnd ==
    ASSUME TypeOK, DocsInv, FollowInv, EndWalk \/ ReverseFails \/ PostingFails
    PROVE  FollowInv'
<1>1. PICK w : w = walk
    OBVIOUS
<1>2. /\ walk # None /\ w \in Walks /\ w.doc \in Nodes /\ ~failed /\ walk' = None
      /\ w.lenient \in BOOLEAN /\ w.target \in TermCounts /\ w.gone \in BOOLEAN
      /\ UNCHANGED <<nodes, saved, job, todo, bypassed, partial>>
    BY <1>1 DEF EndWalk, ReverseFails, PostingFails, aside, Fail, Finishing, TypeOK,
                Control, Walks
<1>3. /\ spoiled \subseteq spoiled'
      /\ \/ UNCHANGED rev
         \/ rev' = Delete(rev, w.doc) \/ rev' = Put(rev, w.doc, Stored(w.target))
      /\ \/ UNCHANGED lens
         \/ lens' = Delete(lens, w.doc) \/ lens' = Put(lens, w.doc, w.length)
    BY <1>1, <1>2 DEF EndWalk, ReverseFails, PostingFails, aside, Fail, StoreReverse
<1>4. SavedFollows'
    BY <1>2 DEF FollowInv, SavedFollows
<1>5. ASSUME NEW d \in Apart(bypassed', spoiled'), d # w.doc PROVE Follows(d)'
    <2>1. d \in Apart(bypassed, spoiled)
        BY <1>2, <1>3 DEF Apart
    <2>2. Follows(d)
        BY <1>2, <2>1 DEF FollowInv
    <2>3. Content(rev, d) = Content(rev', d)
        BY <1>3, <1>5 DEF Content, Put, Delete, Restrict
    <2>4. d \in DOMAIN lens' <=> d \in DOMAIN lens
        BY <1>3, <1>5 DEF Put, Delete, Restrict
    <2> QED
        BY <1>1, <1>2, <1>5, <2>2, <2>3, <2>4 DEF Follows, Has, Awaits, Says
<1>6. CASE Fail(w.doc, w.lenient)
    <2>1. ~failed' => w.doc \in spoiled'
        BY <1>2, <1>6 DEF Fail
    <2>2. ~failed' => \A d \in Apart(bypassed', spoiled') : Follows(d)'
        BY <1>5, <2>1 DEF Apart
    <2> QED
        BY <1>2, <1>4, <2>2 DEF FollowInv
<1>7. CASE /\ EndWalk /\ UNCHANGED spoiled
    <2>1. ASSUME w.doc \in Apart(bypassed', spoiled') PROVE Follows(w.doc)'
        <3>1. Follows(w.doc)
            BY <1>2, <1>7, <2>1 DEF FollowInv, Apart
        <3>2. /\ Stored(w.target) = w.target
              /\ rev' = IF DOMAIN w.target = {} THEN Delete(rev, w.doc)
                        ELSE Put(rev, w.doc, w.target)
              /\ lens' = IF w.gone THEN Delete(lens, w.doc)
                         ELSE Put(lens, w.doc, w.length)
            BY <1>1, <1>7 DEF EndWalk, StoreReverse
        <3>3. CASE w.gone
            <4>1. w.doc \notin DOMAIN nodes
                BY <1>1, <1>2, <3>1, <3>3 DEF Follows
            <4>2. w.doc \notin DOMAIN lens'
                BY <3>2, <3>3 DEF Delete, Restrict
            <4> QED
                BY <1>2, <4>1, <4>2 DEF Follows, Has, Awaits, Says
        <3>4. CASE ~w.gone
            <4>1. w.doc \in DOMAIN nodes /\ nodes[w.doc] = w.target
                BY <1>1, <1>2, <3>1, <3>4 DEF Follows
            <4>2. w.doc \in DOMAIN lens'
                BY <3>2, <3>4 DEF Put
            <4>3. Content(rev', w.doc) = w.target
                <5>1. CASE DOMAIN w.target = {}
                    <6>1. w.target = [t \in DOMAIN w.target |-> w.target[t]]
                        BY <1>2, TableIs DEF TermCounts
                    <6>2. w.target = EmptyTable
                        BY <5>1, <6>1 DEF EmptyTable
                    <6> QED
                        BY <3>2, <5>1, <6>2 DEF Content, Delete, Restrict
                <5>2. CASE DOMAIN w.target # {}
                    BY <3>2, <5>2 DEF Content, Put
                <5> QED
                    BY <5>1, <5>2
            <4> QED
                BY <1>2, <4>1, <4>2, <4>3 DEF Follows, Has, Awaits, Says
        <3> QED
            BY <3>3, <3>4
    <2>2. \A d \in Apart(bypassed', spoiled') : Follows(d)'
        BY <1>5, <2>1
    <2> QED
        BY <1>2, <1>4, <2>2 DEF FollowInv
<1> QED
    BY <1>1, <1>6, <1>7 DEF EndWalk, ReverseFails, PostingFails

LEMMA FollowHold == Spec => []FollowInv
<1>1. Init => FollowInv
    BY TableEmpty DEF Init, FollowInv, SavedFollows, Follows, Has, Says
<1>2. TypeOK /\ DocsInv /\ FollowInv /\ [Next]_vars => FollowInv'
    BY FollowQuiet, FollowBack, FollowClear, FollowAdd, FollowUpdate, FollowDrop,
       FollowIndex, FollowPosting, FollowEnd DEF Next
<1> QED
    BY <1>1, <1>2, TypeCorrect, DocsHold, PTL DEF Spec

(* A document that is in the index says what the properties of its node say,  *)
(* and outside a rebuild every node that has some is in it: through           *)
(* statements, aborts, kills and rebuilds that v1 requests write between.    *)
THEOREM IndexTracksNodes == Spec => []IndexFollowsNodes
<1>1. FollowInv => IndexFollowsNodes
    <2> SUFFICES ASSUME FollowInv, walk = None, ~failed,
                        NEW d \in Nodes \ (bypassed \cup spoiled \cup Excluded)
                 PROVE  /\ d \in DOMAIN lens =>
                              d \in DOMAIN nodes /\ Indexed(d) = nodes[d]
                        /\ d \in DOMAIN nodes /\ nodes[d] # NoProps /\ ~partial =>
                              d \in DOMAIN lens
        BY DEF IndexFollowsNodes, Settled
    <2>1. Follows(d)
        BY DEF FollowInv, Apart
    <2> QED
        BY <2>1, ContentIs DEF Follows, Has, Says
<1> QED
    BY <1>1, FollowHold, PTL
=============================================================================
