----------------------------- MODULE RagSearch -----------------------------
(***************************************************************************)
(* Retrieval: Search, BuildContext and IndexDocument of                    *)
(* internal/rag/service.go over the caches of internal/cache/ttl_cache.go, *)
(* golang.org/x/sync/singleflight and Milvus.                              *)
(*                                                                         *)
(* Processes: one goroutine per retrieval, a search or the building of a   *)
(* context, which runs a search inside; one per document being indexed;    *)
(* Milvus, which lets searches see an inserted document some time later.   *)
(*                                                                         *)
(* A result is the set of documents the vector search could see: ranking,  *)
(* filtering and the text made of them come after it and lose nothing but  *)
(* by their own rules. A query's embedding does not change, and the flight *)
(* that computes it has the key of the search flight it is inside of, so   *)
(* never a follower: embedding is part of the step that searches.          *)
(***************************************************************************)
EXTENDS Naturals, FiniteSets

CONSTANTS Requests, \* retrievals
          Queries,  \* what they ask, trimmed
          Docs,     \* documents being indexed
          Quitters, \* retrievals whose context may be cancelled or time out
          Boundless,\* those that, if they search, do it for HandleSearch, without a deadline
          None

ASSUME DocsAssumption == IsFiniteSet(Docs)
ASSUME QuitAssumption == Quitters \subseteq Requests
ASSUME BoundlessAssumption == Boundless \subseteq Requests
ASSUME NoneAssumption == None \notin Requests

VARIABLES
    kind,       \* "search" or "context"
    query,      \* what each retrieval asks
    pc,         \* where each retrieval is
    cgen,       \* the generation BuildContext read
    sgen,       \* the generation Search read
    leader,     \* whose flight a retrieval waits for, or None
    result,     \* the documents it has been given so far
    error,      \* the error it has been given: None, "backend", or the
                \* retrieval whose context was cancelled or timed out
    scache,     \* searchCache, as a set of entries, one for each key
    ccache,     \* contextCache
    generation, \* s.indexGeneration
    indexing,   \* where each IndexDocument call is
    visible,    \* documents a vector search sees
    base        \* history: what it saw when each generation was reached

frameVars == <<kind, query, pc, cgen, sgen, leader, result, error>>
cacheVars == <<scache, ccache>>
indexVars == <<generation, indexing, visible, base>>

vars == <<frameVars, cacheVars, indexVars>>

-----------------------------------------------------------------------------
Generations == 0..Cardinality(Docs)
Entries     == [query : Queries, gen : Generations, docs : SUBSET Docs]

\* In a flight of Search, and in one of BuildContext, that the retrieval leads.
InSearch  == {"again", "set", "landing"}
Searching == {"get", "join", "wait"} \cup InSearch
InContext == {"cagain", "cset", "clanding", "closing"} \cup Searching
Over      == {"answered", "failed"}
PCs == {"idle", "cget", "cjoin", "cwait", "return", "fail"} \cup InContext \cup Over

Init == /\ kind \in [Requests -> {"search", "context"}]
        /\ query \in [Requests -> Queries]
        /\ pc = [r \in Requests |-> "idle"]
        /\ cgen = [r \in Requests |-> 0]
        /\ sgen = [r \in Requests |-> 0]
        /\ leader = [r \in Requests |-> None]
        /\ result = [r \in Requests |-> {}]
        /\ error = [r \in Requests |-> None]
        /\ scache = {}
        /\ ccache = {}
        /\ generation = 0
        /\ indexing = [d \in Docs |-> "new"]
        /\ visible = {}
        /\ base = [g \in Generations |-> {}]

-----------------------------------------------------------------------------
(* TTLCache: one entry per key, whatever its generation; an entry of       *)
(* another generation, or one past its time, is a miss.                    *)

HitsAny(c, q, g) == {e \in c : e.query = q} \* Variant: the generation is not compared.
Hits(c, q, g)    == {e \in c : e.query = q /\ e.gen = g}
PutBeside(c, q, g, D) == \* Variant: the old entry stays.
    c \cup {[query |-> q, gen |-> g, docs |-> D]}
Put(c, q, g, D)  == {e \in c : e.query # q} \cup {[query |-> q, gen |-> g, docs |-> D]}

\* An entry expires, or is evicted to make room for another key.
Drop == /\ \/ \E e \in scache : scache' = scache \ {e} /\ UNCHANGED ccache
           \/ \E e \in ccache : ccache' = ccache \ {e} /\ UNCHANGED scache
        /\ UNCHANGED <<frameVars, indexVars>>

-----------------------------------------------------------------------------
(* Steps of a retrieval.                                                   *)

Quiet == UNCHANGED <<kind, query, indexVars>>

\* A step that only moves r.
Go(r, where) == pc' = [pc EXCEPT ![r] = where]

\* Where a retrieval goes with the value or the error of its search: it returns
\* it, or goes on in its flight of BuildContext.
Found == [r \in Requests |-> IF kind[r] = "context" THEN "cset" ELSE "return"]
Lost  == [r \in Requests |-> IF kind[r] = "context" THEN "closing" ELSE "fail"]

\* The retrieval comes in: BuildContext, or Search at once. Either begins by
\* reading the generation.
ComeIn(r) ==
    /\ pc[r] = "idle"
    /\ IF kind[r] = "context"
       THEN /\ cgen' = [cgen EXCEPT ![r] = generation]
            /\ Go(r, "cget")
            /\ UNCHANGED sgen
       ELSE /\ sgen' = [sgen EXCEPT ![r] = generation]
            /\ Go(r, "get")
            /\ UNCHANGED cgen
    /\ UNCHANGED <<leader, result, error, cacheVars>>
    /\ Quiet

\* A look into a cache before a flight.
LookUp(r, hits, hit, miss) ==
    /\ IF hits # {}
       THEN /\ \E e \in hits : result' = [result EXCEPT ![r] = e.docs]
            /\ Go(r, hit)
       ELSE Go(r, miss) /\ UNCHANGED result
    /\ UNCHANGED <<cgen, sgen, leader, error, cacheVars>>
    /\ Quiet

Get(r)    == pc[r] = "get"  /\ LookUp(r, Hits(scache, query[r], sgen[r]), Found[r], "join")
CtxGet(r) == pc[r] = "cget" /\ LookUp(r, Hits(ccache, query[r], cgen[r]), "return", "cjoin")

\* singleflight.Group.Do: one flight at a time for each query and generation.
SearchFlightsAnyGen(r) == \* Variant: the generation is not in the key.
    {l \in Requests : pc[l] \in InSearch /\ query[l] = query[r]}
SearchFlights(r)  == {l \in Requests : /\ pc[l] \in InSearch
                                       /\ query[l] = query[r] /\ sgen[l] = sgen[r]}
ContextFlights(r) == {l \in Requests : /\ kind[l] = "context" /\ pc[l] \in InContext
                                       /\ query[l] = query[r] /\ cgen[l] = cgen[r]}

Do(r, flights, lead, follow) ==
    /\ IF flights = {}
       THEN Go(r, lead) /\ UNCHANGED leader
       ELSE \E l \in flights : Go(r, follow) /\ leader' = [leader EXCEPT ![r] = l]
    /\ UNCHANGED <<cgen, sgen, result, error, cacheVars>>
    /\ Quiet

Join(r)    == pc[r] = "join"  /\ Do(r, SearchFlights(r), "again", "wait")
CtxJoin(r) == pc[r] = "cjoin" /\ Do(r, ContextFlights(r), "cagain", "cwait")

\* A flight ends: leader and followers go on together, with its value and no
\* error, or with its error.
Crew(r, waiting) == {r} \cup {f \in Requests : pc[f] = waiting /\ leader[f] = r}

Land(r, crew, place, docs, err) ==
    /\ pc' = [q \in Requests |-> IF q \in crew THEN place[q] ELSE pc[q]]
    /\ result' = [q \in Requests |-> IF q \in crew THEN docs ELSE result[q]]
    /\ error' = [q \in Requests |-> IF q \in crew THEN err ELSE error[q]]
    /\ leader' = [q \in Requests |-> IF q \in crew THEN None ELSE leader[q]]
    /\ UNCHANGED <<cgen, sgen>>
    /\ Quiet

\* The leader of a search looks into the cache again, ...
HitInFlight(r) ==
    /\ pc[r] = "again"
    /\ \E e \in Hits(scache, query[r], sgen[r]) :
          Land(r, Crew(r, "wait"), Found, e.docs, None)
    /\ UNCHANGED cacheVars

\* ... and embeds and searches under its own context, ...
VectorSearch(r) ==
    /\ pc[r] = "again"
    /\ Hits(scache, query[r], sgen[r]) = {}
    /\ result' = [result EXCEPT ![r] = visible]
    /\ Go(r, "set")
    /\ UNCHANGED <<cgen, sgen, leader, error, cacheVars>>
    /\ Quiet

\* ... which fails when that context ends, and may for reasons of its own.
Reasons(r) == {"backend"} \cup ({r} \cap Quitters)

VectorSearchFailsAlone(r) == \* Variant: on an error nobody wakes the followers.
    /\ pc[r] = "again"
    /\ Hits(scache, query[r], sgen[r]) = {}
    /\ \E why \in Reasons(r) : Land(r, {r}, Lost, {}, why)
    /\ UNCHANGED cacheVars

VectorSearchFails(r) ==
    /\ pc[r] = "again"
    /\ Hits(scache, query[r], sgen[r]) = {}
    /\ \E why \in Reasons(r) : Land(r, Crew(r, "wait"), Lost, {}, why)
    /\ UNCHANGED cacheVars

\* What was found is stored under the generation read before the flight.
SetNow(r) == \* Variant: under the generation of the moment.
    /\ pc[r] = "set"
    /\ scache' = Put(scache, query[r], generation, result[r])
    /\ Go(r, "landing")
    /\ UNCHANGED <<cgen, sgen, leader, result, error, ccache>>
    /\ Quiet

Set(r) ==
    /\ pc[r] = "set"
    /\ scache' = Put(scache, query[r], sgen[r], result[r])
    /\ Go(r, "landing")
    /\ UNCHANGED <<cgen, sgen, leader, result, error, ccache>>
    /\ Quiet

LandSearch(r) ==
    /\ pc[r] = "landing"
    /\ Land(r, Crew(r, "wait"), Found, result[r], None)
    /\ UNCHANGED cacheVars

\* The leader of a BuildContext flight looks into the cache again; its search
\* begins by reading the generation again.
Return == [r \in Requests |-> "return"]
Fail   == [r \in Requests |-> "fail"]

CtxHitInFlight(r) ==
    /\ pc[r] = "cagain"
    /\ \E e \in Hits(ccache, query[r], cgen[r]) :
          Land(r, Crew(r, "cwait"), Return, e.docs, None)
    /\ UNCHANGED cacheVars

CtxSearch(r) ==
    /\ pc[r] = "cagain"
    /\ Hits(ccache, query[r], cgen[r]) = {}
    /\ sgen' = [sgen EXCEPT ![r] = generation]
    /\ Go(r, "get")
    /\ UNCHANGED <<cgen, leader, result, error, cacheVars>>
    /\ Quiet

\* The context is stored under the generation BuildContext read, which may be
\* older than the one its search read.
CtxSet(r) ==
    /\ pc[r] = "cset"
    /\ ccache' = Put(ccache, query[r], cgen[r], result[r])
    /\ Go(r, "clanding")
    /\ UNCHANGED <<cgen, sgen, leader, result, error, scache>>
    /\ Quiet

LandContext(r) ==
    /\ \/ pc[r] = "clanding" /\ Land(r, Crew(r, "cwait"), Return, result[r], None)
       \/ pc[r] = "closing"  /\ Land(r, Crew(r, "cwait"), Fail, {}, error[r])
    /\ UNCHANGED cacheVars

\* The retrieval is over.
Finish(r) ==
    /\ \/ pc[r] = "return" /\ Go(r, "answered")
       \/ pc[r] = "fail"   /\ Go(r, "failed")
    /\ UNCHANGED <<cgen, sgen, leader, result, error, cacheVars>>
    /\ Quiet

-----------------------------------------------------------------------------
(* IndexDocument: Milvus takes the vectors, then the generation advances.  *)

Insert(d) ==
    /\ indexing[d] = "new"
    /\ indexing' = [indexing EXCEPT ![d] = "inserted"]
    /\ UNCHANGED <<frameVars, cacheVars, generation, visible, base>>

\* The generation advances, unless the call reported an error all the same.
Bump(d) ==
    /\ indexing[d] = "inserted"
    /\ indexing' = [indexing EXCEPT ![d] = "indexed"]
    /\ generation' = generation + 1
    /\ base' = [base EXCEPT ![generation + 1] = visible]
    /\ UNCHANGED <<frameVars, cacheVars, visible>>

\* A vector search sees the document from now on: after a flush, or before.
Show(d) ==
    /\ indexing[d] # "new"
    /\ d \notin visible
    /\ visible' = visible \cup {d}
    /\ UNCHANGED <<frameVars, cacheVars, generation, indexing, base>>

-----------------------------------------------------------------------------
Step(r) ==
    \/ Get(r) \/ Join(r) \/ HitInFlight(r) \/ VectorSearch(r) \/ VectorSearchFails(r)
    \/ Set(r) \/ LandSearch(r)
    \/ CtxGet(r) \/ CtxJoin(r) \/ CtxHitInFlight(r) \/ CtxSearch(r) \/ CtxSet(r)
    \/ LandContext(r) \/ Finish(r)

IndexStep(d) == Insert(d) \/ Bump(d) \/ Show(d)

Next == \/ \E r \in Requests : ComeIn(r) \/ Step(r)
        \/ \E d \in Docs : IndexStep(d)
        \/ Drop

\* A search that need not ever come back: the retrieval that leads it has no deadline,
\* and neither the vector search nor the embedding has one of its own.
Unanswered == {r \in Boundless : /\ kind[r] = "search" /\ pc[r] = "again"
                                 /\ Hits(scache, query[r], sgen[r]) = {}}

\* A goroutine that can run does; any other embedding or vector search returns, at the
\* latest when the query deadline of the retrieval that leads it cancels it.
Fairness == \A r \in Requests : WF_vars(r \notin Unanswered /\ Step(r))

Spec == Init /\ [][Next]_vars /\ Fairness

-----------------------------------------------------------------------------
(* Properties.                                                             *)

RequestsOK == /\ kind \in [Requests -> {"search", "context"}]
              /\ query \in [Requests -> Queries]
              /\ pc \in [Requests -> PCs]
              /\ cgen \in [Requests -> Generations]
              /\ sgen \in [Requests -> Generations]
              /\ leader \in [Requests -> Requests \cup {None}]
              /\ result \in [Requests -> SUBSET Docs]
              /\ error \in [Requests -> {None, "backend"} \cup Requests]

CachesOK == scache \in SUBSET Entries /\ ccache \in SUBSET Entries

IndexOK == /\ generation \in Generations
           /\ indexing \in [Docs -> {"new", "inserted", "indexed"}]
           /\ visible \in SUBSET Docs
           /\ base \in [Generations -> SUBSET Docs]

\* Types; the generation counts the documents indexed; each cache has one entry
\* for a key.
TypeOK == /\ RequestsOK /\ CachesOK /\ IndexOK
          /\ generation = Cardinality({d \in Docs : indexing[d] = "indexed"})
          /\ \A c \in {scache, ccache} : \A e, f \in c : e.query = f.query => e = f

\* Nothing in a cache is older than the generation it is filed under: an entry
\* has every document that was searchable when that generation was reached,
\* whoever stored it, and however late.
CacheFresh == \A e \in scache \cup ccache : base[e.gen] \subseteq e.docs

\* What makes it inductive: a generation once reached keeps its base, bases only
\* grow, nobody has read a generation not reached yet, BuildContext's search has
\* read one no older than BuildContext did, and what a retrieval carries is as
\* fresh as the generation it will be filed under or answered for.
FirstGen(r) == IF kind[r] = "context" THEN cgen[r] ELSE sgen[r]

BasesGrow == /\ \A g \in 0..generation : base[g] \subseteq visible
             /\ \A g, h \in 0..generation : g <= h => base[g] \subseteq base[h]

GensRead == /\ \A r \in Requests : cgen[r] <= generation /\ sgen[r] <= generation
            /\ \A e \in scache \cup ccache : e.gen <= generation /\ e.docs \subseteq visible
            /\ \A r \in Requests : pc[r] \in Searching => FirstGen(r) <= sgen[r]
            /\ \A r \in Requests : pc[r] \in {"cget", "cjoin", "cwait", "cagain", "cset",
                                               "clanding", "closing"} => kind[r] = "context"

CarriedFresh ==
    \A r \in Requests :
       /\ result[r] \subseteq visible
       /\ pc[r] \in {"set", "landing"} => base[sgen[r]] \subseteq result[r]
       /\ pc[r] \in {"cset", "clanding", "return", "answered"}
             => base[FirstGen(r)] \subseteq result[r]

FreshInv == CacheFresh /\ BasesGrow /\ GensRead /\ CarriedFresh

\* Who waits for a flight waits for a leader that is in one, of the same query
\* and generation: nobody is left behind when a flight ends.
WaitersHaveLeader ==
    \A r \in Requests :
       /\ pc[r] = "wait"  => leader[r] \in SearchFlights(r)
       /\ pc[r] = "cwait" => leader[r] \in ContextFlights(r)

\* What FreshIndex sees: a retrieval is asked when it has come in, and may not miss
\* what was searchable when the generation it read first was reached.
Floor == [r \in Requests |-> IF pc[r] = "idle" THEN {} ELSE base[FirstGen(r)]]
Phase == [r \in Requests |-> IF pc[r] \in {"idle"} \cup Over THEN pc[r] ELSE "asked"]
Given == [r \in Requests |-> IF pc[r] = "answered" THEN result[r] ELSE {}]

\* A retrieval is held by a search that need not come back: its own, that of the flight it
\* waits for, or the one its BuildContext flight waits for in turn. Who waits in a flight
\* does not look at its own context.
ContextLeader(r) == IF pc[r] = "cwait" THEN leader[r] ELSE r
SearchLeader(r)  == IF pc[r] = "wait" THEN leader[r] ELSE r
Held == {r \in Requests : SearchLeader(ContextLeader(r)) \in Unanswered}

Fresh == INSTANCE FreshIndex
            WITH published <- base[generation], floor <- Floor, phase <- Phase, docs <- Given,
                 held <- Held

\* Retrieval implements FreshIndex: no answer, cached, shared or searched, misses
\* what was searchable when its generation was reached, and each retrieval ends, but for
\* those held by a search without a deadline, for as long as it holds them.
ImplementsFreshIndex == Fresh!Spec

\* The hint of upload_tasks.go:183: after the task's success it takes a flush for the content
\* to be found. So a retrieval finds it that comes in once the document is indexed and
\* searchable, and every earlier retrieval is over.
Settled(d) == /\ indexing[d] = "indexed"
              /\ d \in visible
              /\ \A r \in Requests : pc[r] \in {"idle"} \cup Over

FoundAfterFlush ==
    \A r \in Requests, d \in Docs :
       [](pc[r] = "idle" /\ Settled(d) => [](pc[r] = "answered" => d \in result[r]))

\* What sse.go:157 tells the client: the request was cancelled. It is told so only
\* of a request that was.
OwnCancellation ==
    \A r \in Requests : pc[r] = "failed" /\ error[r] \in Requests => error[r] = r
=============================================================================
