-------------------------- MODULE RagSearchProofs --------------------------
(***************************************************************************)
(* Theorems about RagSearch for any retrievals, queries and documents: its *)
(* types, the freshness of the caches and of every answer, that nobody is  *)
(* left waiting for a flight that is over, and that each step is one of    *)
(* FreshIndex or stutters. Then about Passages, for any results, queries   *)
(* and limits: that the filter keeps what is asked for, and that the text  *)
(* made of what it keeps is sound.                                         *)
(***************************************************************************)
EXTENDS MCRagSearch, LoopLemmas, FiniteSetTheorems, SequenceTheorems, TLAPS

USE DEF frameVars, cacheVars, indexVars

-----------------------------------------------------------------------------
(* Types.                                                                  *)

UniqueKeys == \A c \in {scache, ccache} : \A e, f \in c : e.query = f.query => e = f
Indexed    == {d \in Docs : indexing[d] = "indexed"}

\* A step of a retrieval leaves the index alone.
LEMMA StepLeavesIndex ==
    ASSUME NEW r \in Requests, ComeIn(r) \/ Step(r)
    PROVE  UNCHANGED <<kind, query, generation, indexing, visible, base>>
BY DEF ComeIn, Step, Get, Join, HitInFlight, VectorSearch, VectorSearchFails, Set,
       LandSearch, CtxGet, CtxJoin, CtxHitInFlight, CtxSearch, CtxSet, LandContext,
       Finish, LookUp, Do, Land, Quiet

\* A flight's end keeps the types of the retrievals.
LEMMA LandTypes ==
    ASSUME RequestsOK, NEW r \in Requests, NEW crew, NEW place \in [Requests -> PCs],
           NEW docs \in SUBSET Docs, NEW err \in {None, "backend"} \cup Requests,
           Land(r, crew, place, docs, err)
    PROVE  RequestsOK'
<1>1. pc' \in [Requests -> PCs] /\ result' \in [Requests -> SUBSET Docs]
  BY DEF Land, RequestsOK
<1>2. error' \in [Requests -> {None, "backend"} \cup Requests]
      /\ leader' \in [Requests -> Requests \cup {None}]
  BY DEF Land, RequestsOK
<1> QED BY <1>1, <1>2 DEF Land, Quiet, RequestsOK

LEMMA Places ==
    /\ Found \in [Requests -> PCs]
    /\ Lost \in [Requests -> PCs]
    /\ Return \in [Requests -> PCs]
    /\ Fail \in [Requests -> PCs]
BY DEF Found, Lost, Return, Fail, PCs, InContext

\* What a cache gives and takes are entries, and Put keeps one for each key.
LEMMA HitTypes ==
    ASSUME NEW c \in SUBSET Entries, NEW q, NEW g, NEW e \in Hits(c, q, g)
    PROVE  e \in c /\ e.gen = g /\ e.query = q /\ e.docs \in SUBSET Docs
BY DEF Hits, Entries

LEMMA HitsTyped ==
    ASSUME CachesOK
    PROVE  \A q, g : /\ \A e \in Hits(scache, q, g) : e.docs \in SUBSET Docs
                     /\ \A e \in Hits(ccache, q, g) : e.docs \in SUBSET Docs
BY HitTypes DEF CachesOK

LEMMA PutTypes ==
    ASSUME NEW c \in SUBSET Entries, NEW q \in Queries, NEW g \in Generations,
           NEW D \in SUBSET Docs, \A e, f \in c : e.query = f.query => e = f
    PROVE  /\ Put(c, q, g, D) \in SUBSET Entries
           /\ \A e, f \in Put(c, q, g, D) : e.query = f.query => e = f
           /\ \A e \in Put(c, q, g, D) : e \in c \/ (e.gen = g /\ e.docs = D)
BY DEF Put, Entries

\* Every step of a retrieval keeps the types of the retrievals ...
LEMMA StepRequests ==
    ASSUME TypeOK, NEW r \in Requests, ComeIn(r) \/ Step(r)
    PROVE  RequestsOK'
<1>0. \A q, g : /\ \A e \in Hits(scache, q, g) : e.docs \in SUBSET Docs
                /\ \A e \in Hits(ccache, q, g) : e.docs \in SUBSET Docs
  BY HitsTyped DEF TypeOK
<1> USE DEF TypeOK, Quiet, Go, PCs, InContext, Searching, InSearch, Over
<1>1. CASE ComeIn(r)
  BY <1>1 DEF ComeIn, RequestsOK, IndexOK
<1>2. CASE Get(r) \/ CtxGet(r)
  <2>1. /\ \A e \in Hits(scache, query[r], sgen[r]) : e.docs \in SUBSET Docs
        /\ \A e \in Hits(ccache, query[r], cgen[r]) : e.docs \in SUBSET Docs
    BY ONLY <1>0
  <2>2. Found[r] \in PCs
    BY Places
  <2>3. CASE Get(r)
    BY <2>1, <2>2, <2>3 DEF Get, LookUp, RequestsOK
  <2>4. CASE CtxGet(r)
    BY <2>1, <2>4 DEF CtxGet, LookUp, RequestsOK
  <2> QED BY <1>2, <2>3, <2>4
<1>3. CASE Join(r) \/ CtxJoin(r)
  <2>1. PICK flights \in SUBSET Requests, lead \in PCs, follow \in PCs :
              Do(r, flights, lead, follow)
    BY <1>3 DEF Join, CtxJoin, SearchFlights, ContextFlights
  <2> QED BY <2>1 DEF Do, RequestsOK
<1>4. CASE HitInFlight(r)
  <2>1. PICK e \in Hits(scache, query[r], sgen[r]) :
              Land(r, Crew(r, "wait"), Found, e.docs, None)
    BY <1>4 DEF HitInFlight
  <2>2. e.docs \in SUBSET Docs
    BY <1>0, Zenon
  <2>3. None \in {None, "backend"} \cup Requests
    OBVIOUS
  <2> HIDE DEF PCs
  <2> QED BY <2>1, <2>2, <2>3, Places, LandTypes
<1>5. CASE VectorSearch(r)
  BY <1>5 DEF VectorSearch, RequestsOK, IndexOK
<1>6. CASE VectorSearchFails(r)
  <2>1. PICK why \in {"backend"} \cup Requests : Land(r, Crew(r, "wait"), Lost, {}, why)
    BY <1>6 DEF VectorSearchFails, Reasons
  <2> QED BY <2>1, Places, LandTypes
<1>7. CASE Set(r) \/ CtxSet(r)
  BY <1>7 DEF Set, CtxSet, RequestsOK
<1>8. CASE LandSearch(r)
  <2>1. result[r] \in SUBSET Docs
    BY DEF RequestsOK
  <2> QED BY <1>8, <2>1, Places, LandTypes DEF LandSearch
<1>9. CASE CtxHitInFlight(r)
  <2>1. PICK e \in Hits(ccache, query[r], cgen[r]) :
              Land(r, Crew(r, "cwait"), Return, e.docs, None)
    BY <1>9 DEF CtxHitInFlight
  <2>2. e.docs \in SUBSET Docs
    BY <1>0, Zenon
  <2>3. None \in {None, "backend"} \cup Requests
    OBVIOUS
  <2> HIDE DEF PCs
  <2> QED BY <2>1, <2>2, <2>3, Places, LandTypes
<1>10. CASE CtxSearch(r)
  BY <1>10 DEF CtxSearch, RequestsOK, IndexOK
<1>11. CASE LandContext(r)
  <2>1. result[r] \in SUBSET Docs /\ error[r] \in {None, "backend"} \cup Requests
    BY DEF RequestsOK
  <2> QED BY <1>11, <2>1, Places, LandTypes DEF LandContext
<1>12. CASE Finish(r)
  BY <1>12 DEF Finish, RequestsOK
<1> QED BY <1>1, <1>2, <1>3, <1>4, <1>5, <1>6, <1>7, <1>8, <1>9, <1>10, <1>11, <1>12 DEF Step

\* ... and of the caches.
LEMMA StepCaches ==
    ASSUME TypeOK, NEW r \in Requests, ComeIn(r) \/ Step(r)
    PROVE  CachesOK' /\ UniqueKeys'
<1> USE DEF TypeOK
<1>1. query[r] \in Queries /\ sgen[r] \in Generations /\ cgen[r] \in Generations
      /\ result[r] \in SUBSET Docs
  BY DEF RequestsOK
<1>2. CASE Set(r)
  BY <1>1, <1>2, PutTypes DEF Set, CachesOK, UniqueKeys
<1>3. CASE CtxSet(r)
  BY <1>1, <1>3, PutTypes DEF CtxSet, CachesOK, UniqueKeys
<1>4. CASE ~Set(r) /\ ~CtxSet(r)
  <2>1. UNCHANGED cacheVars
    BY <1>4 DEF ComeIn, Step, Get, Join, HitInFlight, VectorSearch, VectorSearchFails,
                LandSearch, CtxGet, CtxJoin, CtxHitInFlight, CtxSearch, LandContext,
                Finish, LookUp, Do
  <2> QED BY <2>1 DEF CachesOK, UniqueKeys
<1> QED BY <1>2, <1>3, <1>4

\* A step of the indexing keeps the types, and the generation stays the number of
\* documents indexed.
LEMMA IndexTypes ==
    ASSUME TypeOK, NEW d \in Docs, IndexStep(d)
    PROVE  IndexOK' /\ generation' = Cardinality(Indexed)' /\ (Bump(d) => generation' \in Generations)
<1> USE DEF TypeOK
<1>0. IsFiniteSet(Indexed) /\ Indexed \subseteq Docs /\ generation = Cardinality(Indexed)
  BY DocsAssumption, FS_Subset DEF Indexed
<1>1. CASE Insert(d) \/ Show(d)
  <2>1. Indexed' = Indexed /\ generation' = generation
    BY <1>1 DEF Insert, Show, Indexed, IndexOK
  <2> QED BY <1>0, <1>1, <2>1 DEF Insert, Show, IndexOK, Bump
<1>2. CASE Bump(d)
  <2>1. Indexed' = Indexed \cup {d} /\ d \notin Indexed
    BY <1>2 DEF Bump, Indexed, IndexOK
  <2>2. Cardinality(Indexed') = Cardinality(Indexed) + 1
    BY <1>0, <2>1, FS_AddElement
  <2>3. IsFiniteSet(Docs) /\ Indexed' \subseteq Docs
    BY <1>0, <2>1, DocsAssumption
  <2>4. Cardinality(Indexed') <= Cardinality(Docs) /\ Cardinality(Docs) \in Nat
    BY <2>3, FS_Subset, FS_CardinalityType
  <2>5. generation' = Cardinality(Indexed')
    BY <1>0, <1>2, <2>2 DEF Bump
  <2>6. generation' \in Generations
    BY <1>2, <2>4, <2>5 DEF Bump, Generations, IndexOK
  <2>7. base' \in [Generations -> SUBSET Docs]
        /\ indexing' \in [Docs -> {"new", "inserted", "indexed"}] /\ visible' = visible
    BY <1>2 DEF Bump, IndexOK
  <2> QED BY <2>5, <2>6, <2>7 DEF IndexOK
<1> QED BY <1>1, <1>2 DEF IndexStep

LEMMA TypesInit == Init => TypeOK
<1> SUFFICES ASSUME Init PROVE TypeOK
  OBVIOUS
<1>0. Cardinality(Docs) \in Nat
  BY DocsAssumption, FS_CardinalityType
<1>1. RequestsOK
  BY <1>0 DEF Init, RequestsOK, PCs, Generations
<1>2. CachesOK /\ UniqueKeys
  BY DEF Init, CachesOK, UniqueKeys
<1>3. IndexOK
  BY <1>0 DEF Init, IndexOK, Generations
<1>4. generation = Cardinality(Indexed)
  <2>1. Indexed = {} /\ generation = 0
    BY DEF Init, Indexed
  <2> QED BY <2>1, FS_EmptySet
<1> QED BY <1>1, <1>2, <1>3, <1>4 DEF TypeOK, UniqueKeys, Indexed

LEMMA TypesNext == TypeOK /\ [Next]_vars => TypeOK'
<1> SUFFICES ASSUME TypeOK, [Next]_vars PROVE TypeOK'
  OBVIOUS
<1>1. CASE \E r \in Requests : ComeIn(r) \/ Step(r)
  <2>1. RequestsOK' /\ CachesOK' /\ UniqueKeys'
    BY <1>1, StepRequests, StepCaches
  <2>2. UNCHANGED <<generation, indexing, visible, base>>
    BY <1>1, StepLeavesIndex
  <2>3. IndexOK' /\ generation' = Cardinality(Indexed)'
    BY <2>2 DEF TypeOK, IndexOK, Indexed
  <2> QED BY <2>1, <2>3 DEF TypeOK, UniqueKeys, Indexed
<1>2. CASE \E d \in Docs : IndexStep(d)
  <2>1. UNCHANGED <<frameVars, cacheVars>>
    BY <1>2 DEF IndexStep, Insert, Bump, Show
  <2>2. IndexOK' /\ generation' = Cardinality(Indexed)'
    BY <1>2, IndexTypes
  <2> QED BY <2>1, <2>2 DEF TypeOK, RequestsOK, CachesOK, UniqueKeys, Indexed
<1>3. CASE Drop
  <2>1. UNCHANGED <<frameVars, indexVars>> /\ scache' \subseteq scache /\ ccache' \subseteq ccache
    BY <1>3 DEF Drop
  <2>2. RequestsOK' /\ IndexOK' /\ generation' = Cardinality(Indexed)'
    BY <2>1 DEF TypeOK, RequestsOK, IndexOK, Indexed
  <2>3. CachesOK' /\ UniqueKeys'
    BY <2>1 DEF TypeOK, CachesOK, UniqueKeys
  <2> QED BY <2>2, <2>3 DEF TypeOK, UniqueKeys, Indexed
<1>4. CASE UNCHANGED vars
  BY <1>4 DEF vars, TypeOK, RequestsOK, CachesOK, IndexOK
<1> QED BY <1>1, <1>2, <1>3, <1>4 DEF Next

\* Type correctness; the generation counts the indexed documents, and each cache
\* has one entry for a key.
THEOREM Typing == Spec => []TypeOK
BY TypesInit, TypesNext, PTL DEF Spec

-----------------------------------------------------------------------------
(* Flights and those who wait for them.                                    *)

\* A flight that ends takes all its followers with it, and a flight of BuildContext
\* goes on when the search inside it ends.
LEMMA LandKeepsWaiters ==
    ASSUME TypeOK, WaitersHaveLeader, NEW r \in Requests,
           NEW waiting \in {"wait", "cwait"}, NEW docs, NEW err,
           NEW place \in [Requests -> {"cset", "closing", "return", "fail"}],
           waiting = "wait" => /\ pc[r] \in InSearch
                               /\ \A q \in Requests : kind[q] = "context"
                                                        => place[q] \in {"cset", "closing"},
           waiting = "cwait" => pc[r] \in {"cagain", "clanding", "closing"},
           Land(r, Crew(r, waiting), place, docs, err)
    PROVE  WaitersHaveLeader'
<1> DEFINE crew == Crew(r, waiting)
<1>1. /\ pc' = [q \in Requests |-> IF q \in crew THEN place[q] ELSE pc[q]]
      /\ leader' = [q \in Requests |-> IF q \in crew THEN None ELSE leader[q]]
      /\ UNCHANGED <<kind, query, cgen, sgen>>
  BY DEF Land, Quiet
<1>2. r \in crew /\ \A q \in Requests : q \in crew <=> q = r \/ (pc[q] = waiting /\ leader[q] = r)
  BY DEF Crew
<1> HIDE DEF crew
<1>3. ASSUME NEW q \in Requests, pc'[q] = "wait"
      PROVE  leader'[q] \in SearchFlights(q)'
  <2>1. q \notin crew /\ pc[q] = "wait" /\ leader'[q] = leader[q]
    BY <1>1, <1>3
  <2>2. PICK l \in Requests : /\ l = leader[q] /\ pc[l] \in InSearch
                              /\ query[l] = query[q] /\ sgen[l] = sgen[q]
    BY <2>1 DEF WaitersHaveLeader, SearchFlights
  <2>3. l \notin crew
    BY <1>2, <2>1, <2>2 DEF InSearch
  <2> QED BY <1>1, <2>1, <2>2, <2>3 DEF SearchFlights
<1>4. ASSUME NEW q \in Requests, pc'[q] = "cwait"
      PROVE  leader'[q] \in ContextFlights(q)'
  <2>1. q \notin crew /\ pc[q] = "cwait" /\ leader'[q] = leader[q]
    BY <1>1, <1>4
  <2>2. PICK l \in Requests : /\ l = leader[q] /\ kind[l] = "context" /\ pc[l] \in InContext
                              /\ query[l] = query[q] /\ cgen[l] = cgen[q]
    BY <2>1 DEF WaitersHaveLeader, ContextFlights
  <2>3. pc'[l] \in InContext
    <3>1. CASE l \in crew
      <4>1. waiting = "wait"
        BY <1>2, <2>1, <2>2, <3>1 DEF InContext, Searching, InSearch
      <4> QED BY <1>1, <2>2, <3>1, <4>1 DEF InContext
    <3>2. CASE l \notin crew
      BY <1>1, <2>2, <3>2
    <3> QED BY <3>1, <3>2
  <2> QED BY <1>1, <2>1, <2>2, <2>3 DEF ContextFlights
<1> QED BY <1>3, <1>4 DEF WaitersHaveLeader

LEMMA LandingPlaces ==
    /\ Found \in [Requests -> {"cset", "closing", "return", "fail"}]
    /\ Lost \in [Requests -> {"cset", "closing", "return", "fail"}]
    /\ Return \in [Requests -> {"cset", "closing", "return", "fail"}]
    /\ Fail \in [Requests -> {"cset", "closing", "return", "fail"}]
    /\ \A q \in Requests : kind[q] = "context" => Found[q] = "cset" /\ Lost[q] = "closing"
    /\ \A q \in Requests : kind[q] # "context" => Found[q] = "return" /\ Lost[q] = "fail"
BY DEF Found, Lost, Return, Fail

\* A step that only moves one retrieval, from a place to a place, and does not take
\* it out of a flight that others may wait for.
LEMMA MoveKeepsWaiters ==
    ASSUME TypeOK, WaitersHaveLeader, NEW r \in Requests, NEW where,
           pc' = [pc EXCEPT ![r] = where], UNCHANGED <<kind, query>>,
           where \notin {"wait", "cwait"},
           UNCHANGED leader,
           \A q \in Requests : q # r => cgen'[q] = cgen[q] /\ sgen'[q] = sgen[q],
           pc[r] \in InSearch => where \in InSearch /\ sgen'[r] = sgen[r],
           pc[r] \in InContext /\ kind[r] = "context" => where \in InContext /\ cgen'[r] = cgen[r]
    PROVE  WaitersHaveLeader'
<1>1. ASSUME NEW q \in Requests, pc'[q] = "wait"
      PROVE  leader'[q] \in SearchFlights(q)'
  <2>1. q # r /\ pc[q] = "wait"
    BY <1>1 DEF TypeOK, RequestsOK
  <2>2. PICK l \in Requests : /\ l = leader[q] /\ pc[l] \in InSearch
                              /\ query[l] = query[q] /\ sgen[l] = sgen[q]
    BY <2>1 DEF WaitersHaveLeader, SearchFlights
  <2>3. pc'[l] \in InSearch /\ sgen'[l] = sgen[l]
    BY <2>2 DEF TypeOK, RequestsOK
  <2> QED BY <2>1, <2>2, <2>3 DEF SearchFlights
<1>2. ASSUME NEW q \in Requests, pc'[q] = "cwait"
      PROVE  leader'[q] \in ContextFlights(q)'
  <2>1. q # r /\ pc[q] = "cwait"
    BY <1>2 DEF TypeOK, RequestsOK
  <2>2. PICK l \in Requests : /\ l = leader[q] /\ kind[l] = "context" /\ pc[l] \in InContext
                              /\ query[l] = query[q] /\ cgen[l] = cgen[q]
    BY <2>1 DEF WaitersHaveLeader, ContextFlights
  <2>3. pc'[l] \in InContext /\ cgen'[l] = cgen[l]
    BY <2>2 DEF TypeOK, RequestsOK
  <2> QED BY <2>1, <2>2, <2>3 DEF ContextFlights
<1> QED BY <1>1, <1>2 DEF WaitersHaveLeader

LEMMA WaitersStep ==
    ASSUME TypeOK, WaitersHaveLeader, NEW r \in Requests, ComeIn(r) \/ Step(r)
    PROVE  WaitersHaveLeader'
<1> USE DEF InSearch, Searching, InContext
<1>0. RequestsOK
  BY DEF TypeOK
<1>1. CASE ComeIn(r)
  BY <1>0, <1>1, MoveKeepsWaiters DEF ComeIn, Go, Quiet, RequestsOK
<1>2. CASE Get(r)
  <2>1. kind[r] = "context" => Found[r] = "cset"
    BY LandingPlaces
  <2>2. Found[r] \notin {"wait", "cwait"}
    BY LandingPlaces
  <2> QED BY <1>0, <1>2, <2>1, <2>2, MoveKeepsWaiters DEF Get, LookUp, Go, Quiet
<1>3. CASE CtxGet(r)
  BY <1>0, <1>3, MoveKeepsWaiters DEF CtxGet, LookUp, Go, Quiet
<1>4. CASE Join(r) \/ CtxJoin(r)
  <2>1. UNCHANGED <<kind, query, cgen, sgen>> /\ \A q \in Requests : q # r => pc'[q] = pc[q] /\ leader'[q] = leader[q]
    BY <1>4 DEF Join, CtxJoin, Do, Go, Quiet, TypeOK, RequestsOK
  <2>2. \A q \in Requests : /\ SearchFlights(q) \ {r} \subseteq SearchFlights(q)'
                            /\ r \notin SearchFlights(q)
    BY <1>4, <2>1 DEF SearchFlights, Join, CtxJoin
  <2>3. \A q \in Requests : ContextFlights(q) \subseteq ContextFlights(q)'
    <3>1. kind[r] = "context" /\ pc[r] \in InContext => pc'[r] \in InContext
      BY <1>4 DEF Join, CtxJoin, Do, Go, TypeOK, RequestsOK
    <3> QED BY <2>1, <3>1 DEF ContextFlights
  <2>4. pc'[r] = "wait" => leader'[r] \in SearchFlights(r) \ {r}
    BY <1>4, <2>2 DEF Join, CtxJoin, Do, Go, TypeOK, RequestsOK
  <2>5. pc'[r] = "cwait" => leader'[r] \in ContextFlights(r)
    BY <1>4 DEF Join, CtxJoin, Do, Go, TypeOK, RequestsOK
  <2> QED BY <2>1, <2>2, <2>3, <2>4, <2>5 DEF WaitersHaveLeader
<1>5. CASE VectorSearch(r) \/ Set(r) \/ CtxSearch(r) \/ CtxSet(r)
  BY <1>0, <1>5, MoveKeepsWaiters
     DEF VectorSearch, Set, CtxSearch, CtxSet, Go, Quiet, RequestsOK
<1>6. CASE Finish(r)
  BY <1>0, <1>6, MoveKeepsWaiters DEF Finish, Go, Quiet, Over
<1>7. CASE HitInFlight(r) \/ VectorSearchFails(r) \/ LandSearch(r)
  <2>1. PICK docs, err : \/ Land(r, Crew(r, "wait"), Found, docs, err)
                         \/ Land(r, Crew(r, "wait"), Lost, docs, err)
    BY <1>7 DEF HitInFlight, VectorSearchFails, LandSearch
  <2>2. pc[r] \in InSearch
    BY <1>7 DEF HitInFlight, VectorSearchFails, LandSearch
  <2> QED BY <2>1, <2>2, LandingPlaces, LandKeepsWaiters
<1>8. CASE CtxHitInFlight(r) \/ LandContext(r)
  <2>1. PICK docs, err : \/ Land(r, Crew(r, "cwait"), Return, docs, err)
                         \/ Land(r, Crew(r, "cwait"), Fail, docs, err)
    BY <1>8 DEF CtxHitInFlight, LandContext
  <2>2. pc[r] \in {"cagain", "clanding", "closing"}
    BY <1>8 DEF CtxHitInFlight, LandContext
  <2> QED BY <2>1, <2>2, LandingPlaces, LandKeepsWaiters
<1> QED BY <1>1, <1>2, <1>3, <1>4, <1>5, <1>6, <1>7, <1>8 DEF Step

LEMMA WaitersNext == TypeOK /\ WaitersHaveLeader /\ [Next]_vars => WaitersHaveLeader'
<1> SUFFICES ASSUME TypeOK, WaitersHaveLeader, [Next]_vars PROVE WaitersHaveLeader'
  OBVIOUS
<1>1. CASE \E r \in Requests : ComeIn(r) \/ Step(r)
  BY <1>1, WaitersStep
<1>2. CASE (\E d \in Docs : IndexStep(d)) \/ Drop \/ UNCHANGED vars
  <2>1. UNCHANGED frameVars
    BY <1>2 DEF IndexStep, Insert, Bump, Show, Drop, vars
  <2> QED BY <2>1 DEF WaitersHaveLeader, SearchFlights, ContextFlights
<1> QED BY <1>1, <1>2 DEF Next

LEMMA WaitersInit == Init => WaitersHaveLeader
BY DEF Init, WaitersHaveLeader

\* Nobody waits for a flight that is over: a flight that returns, hits or fails
\* takes all its followers along.
THEOREM NobodyLeftBehind == Spec => []WaitersHaveLeader
BY WaitersInit, WaitersNext, Typing, PTL DEF Spec

-----------------------------------------------------------------------------
(* Freshness: no cache and no answer is older than the generation it is    *)
(* filed under or answers for.                                             *)

LEMMA FreshInit == Init => FreshInv
<1> SUFFICES ASSUME Init PROVE FreshInv
  OBVIOUS
<1>0. 0 \in Generations /\ Cardinality(Docs) \in Nat
  BY DocsAssumption, FS_CardinalityType DEF Generations
<1>1. CacheFresh
  BY DEF Init, CacheFresh
<1>2. BasesGrow
  BY <1>0 DEF Init, BasesGrow, Generations
<1>3. GensRead
  BY DEF Init, GensRead, Searching, InSearch
<1>4. CarriedFresh
  BY DEF Init, CarriedFresh
<1> QED BY <1>1, <1>2, <1>3, <1>4 DEF FreshInv

\* The end of a flight: enough that what it gives is as fresh as the generation of
\* each retrieval it is given to.
LEMMA FreshLand ==
    ASSUME TypeOK, FreshInv, NEW r \in Requests, NEW crew \in SUBSET Requests,
           NEW place \in [Requests -> {"cset", "closing", "return", "fail"}],
           NEW docs \in SUBSET visible, NEW err,
           Land(r, crew, place, docs, err), UNCHANGED cacheVars,
           \A q \in crew : /\ place[q] \in {"cset", "return"} => base[FirstGen(q)] \subseteq docs
                           /\ place[q] \in {"cset", "closing"} => kind[q] = "context"
    PROVE  FreshInv'
<1>0. /\ UNCHANGED <<kind, query, cgen, sgen, scache, ccache, generation, visible, base>>
      /\ \A q \in Requests : FirstGen(q)' = FirstGen(q)
  BY DEF Land, Quiet, FirstGen
<1>1. \A q \in Requests :
         IF q \in crew
         THEN pc'[q] = place[q] /\ result'[q] = docs
         ELSE pc'[q] = pc[q] /\ result'[q] = result[q]
  BY DEF Land
<1>2. \A q \in crew : pc'[q] \in {"cset", "closing", "return", "fail"}
  BY <1>1
<1>3. CacheFresh' /\ BasesGrow'
  BY <1>0 DEF FreshInv, CacheFresh, BasesGrow
<1>4. GensRead'
  <2>1. \A q \in Requests : cgen'[q] <= generation' /\ sgen'[q] <= generation'
    BY <1>0 DEF FreshInv, GensRead
  <2>2. \A e \in (scache \cup ccache)' : e.gen <= generation' /\ e.docs \subseteq visible'
    BY <1>0 DEF FreshInv, GensRead
  <2>3. \A q \in Requests : pc'[q] \in Searching => FirstGen(q)' <= sgen'[q]
    BY <1>0, <1>1, <1>2 DEF FreshInv, GensRead, Searching, InSearch
  <2>4. \A q \in Requests : pc'[q] \in {"cget", "cjoin", "cwait", "cagain", "cset",
                                         "clanding", "closing"} => kind'[q] = "context"
    BY <1>0, <1>1, <1>2 DEF FreshInv, GensRead
  <2> QED BY <2>1, <2>2, <2>3, <2>4 DEF GensRead
<1>5. CarriedFresh'
  <2> SUFFICES ASSUME NEW q \in Requests
               PROVE  /\ result'[q] \subseteq visible'
                      /\ pc'[q] \in {"set", "landing"} => base'[sgen'[q]] \subseteq result'[q]
                      /\ pc'[q] \in {"cset", "clanding", "return", "answered"}
                            => base'[FirstGen(q)'] \subseteq result'[q]
    BY DEF CarriedFresh
  <2>1. CASE q \in crew
    BY <1>0, <1>1, <1>2, <2>1
  <2>2. CASE q \notin crew
    BY <1>0, <1>1, <2>2 DEF FreshInv, CarriedFresh
  <2> QED BY <2>1, <2>2
<1> QED BY <1>3, <1>4, <1>5 DEF FreshInv

\* A step that moves one retrieval: enough that its own generations, result and
\* place are in order and that what it stores is fresh.
OrderOf(r) ==
    /\ cgen[r] <= generation /\ sgen[r] <= generation
    /\ pc[r] \in Searching => FirstGen(r) <= sgen[r]
    /\ pc[r] \in {"cget", "cjoin", "cwait", "cagain", "cset", "clanding", "closing"}
          => kind[r] = "context"
    /\ result[r] \subseteq visible
    /\ pc[r] \in {"set", "landing"} => base[sgen[r]] \subseteq result[r]
    /\ pc[r] \in {"cset", "clanding", "return", "answered"} => base[FirstGen(r)] \subseteq result[r]

LEMMA FreshMove ==
    ASSUME FreshInv, NEW r \in Requests,
           UNCHANGED <<kind, generation, visible, base>>,
           \A q \in Requests : q # r => /\ pc'[q] = pc[q] /\ cgen'[q] = cgen[q]
                                        /\ sgen'[q] = sgen[q] /\ result'[q] = result[q],
           \A e \in (scache \cup ccache)' :
              e \in scache \cup ccache \/ ( /\ e.gen <= generation
                                            /\ e.docs \subseteq visible
                                            /\ base[e.gen] \subseteq e.docs ),
           OrderOf(r)'
    PROVE  FreshInv'
<1>0. \A q \in Requests : q # r => FirstGen(q)' = FirstGen(q)
  BY DEF FirstGen
<1>1. CacheFresh'
  BY DEF FreshInv, CacheFresh
<1>2. BasesGrow'
  BY DEF FreshInv, BasesGrow
<1>3. \A q \in Requests : OrderOf(q)'
  <2> SUFFICES ASSUME NEW q \in Requests, q # r PROVE OrderOf(q)'
    OBVIOUS
  <2>1. OrderOf(q)
    BY DEF OrderOf, FreshInv, GensRead, CarriedFresh
  <2> QED BY <1>0, <2>1 DEF OrderOf
<1>4. \A e \in (scache \cup ccache)' : e.gen <= generation' /\ e.docs \subseteq visible'
  BY DEF FreshInv, GensRead
<1>5. GensRead' /\ CarriedFresh'
  BY <1>3, <1>4 DEF OrderOf, GensRead, CarriedFresh
<1> QED BY <1>1, <1>2, <1>5 DEF FreshInv

LEMMA FreshStep ==
    ASSUME TypeOK, WaitersHaveLeader, FreshInv, NEW r \in Requests, ComeIn(r) \/ Step(r)
    PROVE  FreshInv'
<1> USE DEF InSearch, Searching
<1>0. RequestsOK /\ generation \in Nat /\ \A q \in Requests : cgen[q] \in Nat /\ sgen[q] \in Nat
  BY DEF TypeOK, RequestsOK, IndexOK, Generations
<1>1. UNCHANGED <<kind, query, generation, indexing, visible, base>>
  BY StepLeavesIndex
<1>2. OrderOf(r)
  BY DEF OrderOf, FreshInv, GensRead, CarriedFresh
<1>3. \A e \in scache \cup ccache : e.docs \subseteq visible /\ base[e.gen] \subseteq e.docs
  BY DEF FreshInv, GensRead, CacheFresh
<1>4. CASE ComeIn(r)
  <2>1. OrderOf(r)'
    BY <1>0, <1>1, <1>2, <1>4 DEF ComeIn, Go, OrderOf, FirstGen, RequestsOK
  <2> QED BY <1>0, <1>1, <1>4, <2>1, FreshMove DEF ComeIn, Go, RequestsOK
<1>5. CASE Get(r) \/ CtxGet(r)
  <2>1. CASE Get(r)
    <3>1. pc[r] = "get" /\ UNCHANGED <<cgen, sgen>> /\ Found[r] \in {"cset", "return"}
          /\ (Found[r] = "cset" <=> kind[r] = "context")
      BY <2>1, LandingPlaces DEF Get, LookUp
    <3>2. \/ /\ pc'[r] = Found[r] /\ result'[r] \subseteq visible
             /\ base[sgen[r]] \subseteq result'[r]
          \/ pc'[r] = "join" /\ result'[r] = result[r]
      <4>1. \A e \in Hits(scache, query[r], sgen[r]) : e \in scache /\ e.gen = sgen[r]
        BY DEF Hits
      <4> QED BY <1>0, <1>3, <2>1, <4>1 DEF Get, LookUp, Go, RequestsOK
    <3>3. base[FirstGen(r)] \subseteq base[sgen[r]]
      <4>1. FirstGen(r) <= sgen[r] /\ sgen[r] <= generation /\ FirstGen(r) \in Nat
        BY <1>0, <1>2, <3>1 DEF OrderOf, FirstGen
      <4> QED BY <1>0, <4>1 DEF FreshInv, BasesGrow
    <3>4. FirstGen(r)' = FirstGen(r)
      BY <1>1, <3>1 DEF FirstGen
    <3>5. OrderOf(r)'
      BY <1>1, <1>2, <3>1, <3>2, <3>3, <3>4 DEF OrderOf
    <3> QED BY <1>0, <1>1, <2>1, <3>5, FreshMove DEF Get, LookUp, Go, RequestsOK
  <2>2. CASE CtxGet(r)
    <3>1. pc[r] = "cget" /\ UNCHANGED <<cgen, sgen>> /\ kind[r] = "context" /\ FirstGen(r) = cgen[r]
      BY <1>2, <2>2 DEF CtxGet, LookUp, OrderOf, FirstGen
    <3>2. \/ /\ pc'[r] = "return" /\ result'[r] \subseteq visible
             /\ base[cgen[r]] \subseteq result'[r]
          \/ pc'[r] = "cjoin" /\ result'[r] = result[r]
      <4>1. \A e \in Hits(ccache, query[r], cgen[r]) : e \in ccache /\ e.gen = cgen[r]
        BY DEF Hits
      <4> QED BY <1>0, <1>3, <2>2, <4>1 DEF CtxGet, LookUp, Go, RequestsOK
    <3>4. FirstGen(r)' = FirstGen(r)
      BY <1>1, <3>1 DEF FirstGen
    <3>5. OrderOf(r)'
      BY <1>1, <1>2, <3>1, <3>2, <3>4 DEF OrderOf
    <3> QED BY <1>0, <1>1, <2>2, <3>5, FreshMove DEF CtxGet, LookUp, Go, RequestsOK
  <2> QED BY <1>5, <2>1, <2>2
<1>6. CASE Join(r) \/ CtxJoin(r)
  <2>1. /\ UNCHANGED <<cgen, sgen, result, scache, ccache>> /\ FirstGen(r)' = FirstGen(r)
        /\ \A q \in Requests : q # r => pc'[q] = pc[q]
    BY <1>0, <1>1, <1>6 DEF Join, CtxJoin, Do, Go, RequestsOK, FirstGen
  <2>2. \/ pc[r] = "join" /\ pc'[r] \in {"again", "wait"}
        \/ pc[r] = "cjoin" /\ pc'[r] \in {"cagain", "cwait"}
    BY <1>0, <1>6 DEF Join, CtxJoin, Do, Go, RequestsOK
  <2>3. OrderOf(r)'
    BY <1>1, <1>2, <2>1, <2>2 DEF OrderOf
  <2> QED BY <1>1, <2>1, <2>3, FreshMove
<1>7. CASE VectorSearch(r)
  <2>1. /\ UNCHANGED <<cgen, sgen, scache, ccache>> /\ FirstGen(r)' = FirstGen(r)
        /\ pc[r] = "again" /\ pc'[r] = "set" /\ result'[r] = visible
        /\ \A q \in Requests : q # r => pc'[q] = pc[q] /\ result'[q] = result[q]
    BY <1>0, <1>1, <1>7 DEF VectorSearch, Go, RequestsOK, FirstGen
  <2>2. base[sgen[r]] \subseteq visible
    BY <1>0, <1>2 DEF OrderOf, FreshInv, BasesGrow
  <2>3. OrderOf(r)'
    BY <1>1, <1>2, <2>1, <2>2 DEF OrderOf
  <2> QED BY <1>1, <2>1, <2>3, FreshMove
<1>8. CASE Set(r) \/ CtxSet(r)
  <2>1. /\ UNCHANGED <<cgen, sgen, result>> /\ FirstGen(r)' = FirstGen(r)
        /\ \A q \in Requests : q # r => pc'[q] = pc[q]
    BY <1>0, <1>1, <1>8 DEF Set, CtxSet, Go, RequestsOK, FirstGen
  <2>2. \/ pc[r] = "set" /\ pc'[r] = "landing" /\ scache' = Put(scache, query[r], sgen[r], result[r])
           /\ UNCHANGED ccache
        \/ pc[r] = "cset" /\ pc'[r] = "clanding" /\ ccache' = Put(ccache, query[r], cgen[r], result[r])
           /\ UNCHANGED scache
    BY <1>0, <1>8 DEF Set, CtxSet, Go, RequestsOK
  <2>3. OrderOf(r)'
    BY <1>1, <1>2, <2>1, <2>2 DEF OrderOf
  <2>4. pc[r] = "cset" => FirstGen(r) = cgen[r]
    BY <1>2 DEF OrderOf, FirstGen
  <2>5. \A e \in (scache \cup ccache)' :
           e \in scache \cup ccache \/ ( /\ e.gen <= generation
                                         /\ e.docs \subseteq visible
                                         /\ base[e.gen] \subseteq e.docs )
    <3> SUFFICES ASSUME NEW e \in (scache \cup ccache)', e \notin scache \cup ccache
                 PROVE  /\ e.gen <= generation
                        /\ e.docs \subseteq visible
                        /\ base[e.gen] \subseteq e.docs
      OBVIOUS
    <3>1. CASE pc[r] = "set"
      <4>1. e.gen = sgen[r] /\ e.docs = result[r]
        BY <2>2, <3>1 DEF Put
      <4> QED BY <1>2, <3>1, <4>1 DEF OrderOf
    <3>2. CASE pc[r] = "cset"
      <4>1. e.gen = cgen[r] /\ e.docs = result[r]
        BY <2>2, <3>2 DEF Put
      <4> QED BY <1>2, <2>4, <3>2, <4>1 DEF OrderOf
    <3> QED BY <2>2, <3>1, <3>2
  <2> QED BY <1>1, <2>1, <2>3, <2>5, FreshMove
<1>9. CASE CtxSearch(r)
  <2>1. /\ UNCHANGED <<cgen, result, scache, ccache>> /\ pc[r] = "cagain" /\ pc'[r] = "get"
        /\ sgen'[r] = generation
        /\ \A q \in Requests : q # r => pc'[q] = pc[q] /\ sgen'[q] = sgen[q]
    BY <1>0, <1>9 DEF CtxSearch, Go, RequestsOK
  <2>2. FirstGen(r)' = cgen[r]
    BY <1>1, <1>2, <2>1 DEF OrderOf, FirstGen
  <2>3. OrderOf(r)'
    BY <1>0, <1>1, <1>2, <2>1, <2>2 DEF OrderOf
  <2> QED BY <1>1, <2>1, <2>3, FreshMove
<1>10. CASE Finish(r)
  <2>1. /\ UNCHANGED <<cgen, sgen, result, scache, ccache>> /\ FirstGen(r)' = FirstGen(r)
        /\ \A q \in Requests : q # r => pc'[q] = pc[q]
        /\ \/ pc[r] = "return" /\ pc'[r] = "answered"
           \/ pc[r] = "fail" /\ pc'[r] = "failed"
    BY <1>0, <1>1, <1>10 DEF Finish, Go, RequestsOK, FirstGen
  <2>2. OrderOf(r)'
    BY <1>1, <1>2, <2>1 DEF OrderOf
  <2> QED BY <1>1, <2>1, <2>2, FreshMove
<1>11. CASE HitInFlight(r) \/ LandSearch(r) \/ VectorSearchFails(r)
  <2>1. pc[r] \in InSearch /\ UNCHANGED cacheVars
    BY <1>11 DEF HitInFlight, LandSearch, VectorSearchFails
  <2>2. \/ \E docs \in SUBSET visible : /\ base[sgen[r]] \subseteq docs
                                        /\ Land(r, Crew(r, "wait"), Found, docs, None)
        \/ \E why : Land(r, Crew(r, "wait"), Lost, {}, why)
    <3>1. CASE HitInFlight(r)
      <4>1. PICK e \in Hits(scache, query[r], sgen[r]) :
                  Land(r, Crew(r, "wait"), Found, e.docs, None)
        BY <3>1 DEF HitInFlight
      <4>2. e \in scache /\ e.gen = sgen[r]
        BY DEF Hits
      <4> QED BY <1>3, <4>1, <4>2
    <3>2. CASE LandSearch(r)
      BY <1>2, <3>2 DEF LandSearch, OrderOf
    <3>3. CASE VectorSearchFails(r)
      BY <3>3 DEF VectorSearchFails
    <3> QED BY <1>11, <3>1, <3>2, <3>3
  <2>3. \A q \in Crew(r, "wait") : pc[q] \in Searching /\ sgen[q] = sgen[r]
    BY <2>1 DEF Crew, WaitersHaveLeader, SearchFlights
  <2>4. Crew(r, "wait") \subseteq Requests
    BY DEF Crew
  <2>5. \A q \in Crew(r, "wait") : base[FirstGen(q)] \subseteq base[sgen[r]]
    <3> SUFFICES ASSUME NEW q \in Crew(r, "wait")
                 PROVE  base[FirstGen(q)] \subseteq base[sgen[r]]
      OBVIOUS
    <3>1. FirstGen(q) <= sgen[r] /\ sgen[r] <= generation
      BY <2>3, <2>4 DEF FreshInv, GensRead
    <3>2. FirstGen(q) \in Nat
      BY <1>0, <2>4 DEF FirstGen
    <3> QED BY <1>0, <3>1, <3>2 DEF FreshInv, BasesGrow
  <2> QED BY <2>1, <2>2, <2>4, <2>5, LandingPlaces, FreshLand
<1>12. CASE CtxHitInFlight(r) \/ LandContext(r)
  <2>1. pc[r] \in {"cagain", "clanding", "closing"} /\ UNCHANGED cacheVars
    BY <1>12 DEF CtxHitInFlight, LandContext
  <2>2. kind[r] = "context" /\ FirstGen(r) = cgen[r]
    BY <1>2, <2>1 DEF OrderOf, FirstGen
  <2>3. \/ \E docs \in SUBSET visible : /\ base[cgen[r]] \subseteq docs
                                        /\ Land(r, Crew(r, "cwait"), Return, docs, None)
        \/ \E why : Land(r, Crew(r, "cwait"), Fail, {}, why)
    <3>1. CASE CtxHitInFlight(r)
      <4>1. PICK e \in Hits(ccache, query[r], cgen[r]) :
                  Land(r, Crew(r, "cwait"), Return, e.docs, None)
        BY <3>1 DEF CtxHitInFlight
      <4>2. e \in ccache /\ e.gen = cgen[r]
        BY DEF Hits
      <4> QED BY <1>3, <4>1, <4>2
    <3>2. CASE LandContext(r)
      BY <1>2, <2>2, <3>2 DEF LandContext, OrderOf
    <3> QED BY <1>12, <3>1, <3>2
  <2>4. Crew(r, "cwait") \subseteq Requests
    BY DEF Crew
  <2>5. \A q \in Crew(r, "cwait") : FirstGen(q) = cgen[r]
    <3> SUFFICES ASSUME NEW q \in Crew(r, "cwait"), q # r
                 PROVE  FirstGen(q) = cgen[r]
      BY <2>2
    <3>1. pc[q] = "cwait" /\ leader[q] = r
      BY DEF Crew
    <3>2. cgen[q] = cgen[r]
      BY <2>4, <3>1 DEF WaitersHaveLeader, ContextFlights
    <3>3. kind[q] = "context"
      BY <2>4, <3>1 DEF FreshInv, GensRead
    <3> QED BY <3>2, <3>3 DEF FirstGen
  <2>6. \A q \in Requests : Return[q] = "return" /\ Fail[q] = "fail"
    BY DEF Return, Fail
  <2> QED BY <2>1, <2>3, <2>4, <2>5, <2>6, LandingPlaces, FreshLand
<1> QED BY <1>4, <1>5, <1>6, <1>7, <1>8, <1>9, <1>10, <1>11, <1>12 DEF Step

\* The bases of the generations reached stay.
LEMMA PastStays ==
    ASSUME TypeOK, NEW d \in Docs, IndexStep(d)
    PROVE  /\ generation \in Nat /\ generation' \in Nat /\ generation <= generation'
           /\ \A g \in 0..generation : base'[g] = base[g]
<1>1. generation \in Nat /\ 0..generation \subseteq Generations /\ base \in [Generations -> SUBSET Docs]
  <2>1. Cardinality(Docs) \in Nat
    BY DocsAssumption, FS_CardinalityType
  <2> QED BY <2>1 DEF TypeOK, IndexOK, Generations
<1>2. CASE Insert(d) \/ Show(d)
  BY <1>1, <1>2 DEF Insert, Show
<1>3. CASE Bump(d)
  <2>1. generation' = generation + 1 /\ base' = [base EXCEPT ![generation + 1] = visible]
    BY <1>3 DEF Bump
  <2> QED BY <1>1, <2>1
<1> QED BY <1>2, <1>3 DEF IndexStep

\* The generation that is reached is one nobody has read and nothing is filed under.
LEMMA FreshIndexStep ==
    ASSUME TypeOK, FreshInv, NEW d \in Docs, IndexStep(d)
    PROVE  FreshInv'
<1>0. /\ UNCHANGED <<frameVars, cacheVars>>
      /\ \A r \in Requests : FirstGen(r)' = FirstGen(r)
  BY DEF IndexStep, Insert, Bump, Show, FirstGen
<1>1. /\ generation \in Nat /\ visible \subseteq visible'
      /\ \A r \in Requests : cgen[r] \in Nat /\ sgen[r] \in Nat
      /\ \A e \in scache \cup ccache : e.gen \in Nat
  BY DEF IndexStep, Insert, Bump, Show, TypeOK, IndexOK, RequestsOK, CachesOK, Entries, Generations
<1>2. generation <= generation' /\ \A g \in 0..generation : base'[g] = base[g]
  BY PastStays
<1>3. \A r \in Requests : cgen[r] \in 0..generation /\ sgen[r] \in 0..generation
                          /\ FirstGen(r) \in 0..generation
  BY <1>1 DEF FreshInv, GensRead, FirstGen
<1>4. CacheFresh'
  <2>1. \A e \in scache \cup ccache : e.gen \in 0..generation
    BY <1>1 DEF FreshInv, GensRead
  <2> QED BY <1>0, <1>2, <2>1 DEF FreshInv, CacheFresh
<1>5. BasesGrow'
  <2>1. CASE Insert(d) \/ Show(d)
    <3>1. generation' = generation /\ base' = base
      BY <2>1 DEF Insert, Show
    <3> QED BY <1>1, <3>1 DEF FreshInv, BasesGrow
  <2>2. CASE Bump(d)
    <3>1. generation' = generation + 1 /\ visible' = visible
      BY <2>2 DEF Bump
    <3>2. generation' \in Generations
      BY <2>2, IndexTypes
    <3>3. base'[generation'] = visible
      BY <2>2, <3>1, <3>2 DEF Bump, TypeOK, IndexOK
    <3>4. \A g \in 0..generation' : g \in 0..generation \/ g = generation'
      BY <1>1, <3>1
    <3>5. \A g \in 0..generation' : base'[g] \subseteq visible'
      BY <1>2, <3>1, <3>3, <3>4 DEF FreshInv, BasesGrow
    <3>6. ASSUME NEW g \in 0..generation', NEW h \in 0..generation', g <= h
          PROVE  base'[g] \subseteq base'[h]
      <4>1. CASE h = generation'
        BY <3>1, <3>3, <3>5, <4>1
      <4>2. CASE h \in 0..generation
        <5>1. g \in 0..generation
          BY <1>1, <3>6, <4>2
        <5> QED BY <1>2, <3>6, <4>2, <5>1 DEF FreshInv, BasesGrow
      <4> QED BY <3>4, <4>1, <4>2
    <3> QED BY <3>5, <3>6 DEF BasesGrow
  <2> QED BY <2>1, <2>2 DEF IndexStep
<1>6. GensRead'
  <2>1. \A r \in Requests : cgen'[r] <= generation' /\ sgen'[r] <= generation'
    BY <1>0, <1>1, <1>2, <1>3, IndexTypes DEF IndexOK, Generations
  <2>2. \A e \in (scache \cup ccache)' : e.gen <= generation' /\ e.docs \subseteq visible'
    <3>1. generation' \in Nat
      BY IndexTypes DEF IndexOK, Generations
    <3> QED BY <1>0, <1>1, <1>2, <3>1 DEF FreshInv, GensRead
  <2> QED BY <1>0, <2>1, <2>2 DEF FreshInv, GensRead
<1>7. CarriedFresh'
  BY <1>0, <1>1, <1>2, <1>3 DEF FreshInv, CarriedFresh
<1> QED BY <1>4, <1>5, <1>6, <1>7 DEF FreshInv

LEMMA FreshNext == TypeOK /\ WaitersHaveLeader /\ FreshInv /\ [Next]_vars => FreshInv'
<1> SUFFICES ASSUME TypeOK, WaitersHaveLeader, FreshInv, [Next]_vars PROVE FreshInv'
  OBVIOUS
<1>1. CASE \E r \in Requests : ComeIn(r) \/ Step(r)
  BY <1>1, FreshStep
<1>2. CASE \E d \in Docs : IndexStep(d)
  BY <1>2, FreshIndexStep
<1>3. CASE Drop \/ UNCHANGED vars
  <2>1. UNCHANGED <<frameVars, indexVars>> /\ (scache \cup ccache)' \subseteq scache \cup ccache
    BY <1>3 DEF Drop, vars
  <2> QED BY <2>1 DEF FreshInv, CacheFresh, BasesGrow, GensRead, CarriedFresh, FirstGen
<1> QED BY <1>1, <1>2, <1>3 DEF Next

\* No cache holds an entry older than the generation it is filed under.
THEOREM CachesStayFresh == Spec => []CacheFresh
<1>1. FreshInv => CacheFresh
  BY DEF FreshInv
<1> QED BY <1>1, FreshInit, FreshNext, Typing, NobodyLeftBehind, PTL DEF Spec

-----------------------------------------------------------------------------
(* Refinement.                                                             *)

\* What FreshIndex sees of a retrieval stays as it is while it is under way.
LEMMA StepMapsToFresh ==
    ASSUME TypeOK, FreshInv, NEW r \in Requests, ComeIn(r) \/ Step(r)
    PROVE  [Fresh!Next]_Fresh!vars
<1> USE DEF Floor, Phase, Given, Over
<1>0. RequestsOK
  BY DEF TypeOK
<1>1. UNCHANGED <<kind, query, generation, indexing, visible, base>>
  BY StepLeavesIndex
<1>2. CASE ComeIn(r)
  <2>1. /\ pc[r] = "idle" /\ pc'[r] \in {"get", "cget"} /\ FirstGen(r)' = generation
        /\ \A q \in Requests : q # r => pc'[q] = pc[q] /\ FirstGen(q)' = FirstGen(q)
        /\ result' = result
    BY <1>0, <1>1, <1>2 DEF ComeIn, Go, FirstGen, RequestsOK
  <2>2. Phase[r] = "idle" /\ Phase' = [Phase EXCEPT ![r] = "asked"]
    BY <2>1
  <2>3. Floor' = [Floor EXCEPT ![r] = base[generation]]
    BY <1>1, <2>1
  <2>4. Given' = Given
    BY <2>1
  <2>5. Fresh!Ask(r)
    BY <1>1, <2>2, <2>3, <2>4 DEF Fresh!Ask
  <2> QED BY <2>5 DEF Fresh!Next
<1>3. CASE Finish(r)
  <2>1. /\ UNCHANGED <<cgen, sgen, result>>
        /\ \A q \in Requests : FirstGen(q)' = FirstGen(q)
        /\ \A q \in Requests : q # r => pc'[q] = pc[q]
    BY <1>0, <1>1, <1>3 DEF Finish, Go, FirstGen, RequestsOK
  <2>2. CASE pc[r] = "return" /\ pc'[r] = "answered"
    <3>1. Phase[r] = "asked" /\ Phase' = [Phase EXCEPT ![r] = "answered"]
      BY <2>1, <2>2
    <3>2. Floor' = Floor /\ Floor[r] = base[FirstGen(r)]
      BY <1>1, <2>1, <2>2
    <3>3. Given' = [Given EXCEPT ![r] = result[r]]
      BY <2>1, <2>2
    <3>4. base[FirstGen(r)] \subseteq result[r] /\ result[r] \subseteq visible
      BY <2>2 DEF FreshInv, CarriedFresh
    <3>5. Fresh!Answer(r)
      BY <1>1, <3>1, <3>2, <3>3, <3>4 DEF Fresh!Answer
    <3> QED BY <3>5 DEF Fresh!Next
  <2>3. CASE pc[r] = "fail" /\ pc'[r] = "failed"
    <3>1. Phase[r] = "asked" /\ Phase' = [Phase EXCEPT ![r] = "failed"]
      BY <2>1, <2>3
    <3>2. Floor' = Floor
      BY <1>1, <2>1, <2>3
    <3>3. Given' = Given
      BY <2>1, <2>3
    <3>4. Fresh!Fail(r)
      BY <1>1, <3>1, <3>2, <3>3 DEF Fresh!Fail
    <3> QED BY <3>4 DEF Fresh!Next
  <2> QED BY <1>0, <1>3, <2>2, <2>3 DEF Finish, Go, RequestsOK
<1>4. CASE ~ComeIn(r) /\ ~Finish(r)
  <2>1. Step(r) /\ pc[r] # "idle" /\ pc[r] \notin Over
    BY <1>4 DEF Step, Get, Join, HitInFlight, VectorSearch, VectorSearchFails, Set, LandSearch,
                CtxGet, CtxJoin, CtxHitInFlight, CtxSearch, CtxSet, LandContext
  <2>2. \A q \in Requests : \/ pc'[q] = pc[q] /\ (pc[q] \in Over => result'[q] = result[q])
                            \/ pc[q] \notin {"idle"} \cup Over /\ pc'[q] \notin {"idle"} \cup Over
    <3>1. CASE HitInFlight(r) \/ LandSearch(r) \/ VectorSearchFails(r) \/ CtxHitInFlight(r) \/ LandContext(r)
      <4>0. PICK docs, err : \/ Land(r, Crew(r, "wait"), Found, docs, err)
                             \/ Land(r, Crew(r, "wait"), Lost, docs, err)
                             \/ Land(r, Crew(r, "cwait"), Return, docs, err)
                             \/ Land(r, Crew(r, "cwait"), Fail, docs, err)
        BY <3>1 DEF HitInFlight, LandSearch, VectorSearchFails, CtxHitInFlight, LandContext
      <4>1. PICK waiting \in {"wait", "cwait"},
                 place \in [Requests -> {"cset", "closing", "return", "fail"}] :
                    Land(r, Crew(r, waiting), place, docs, err)
        BY <4>0, LandingPlaces
      <4>2. \A q \in Crew(r, waiting) : pc[q] \notin {"idle"} \cup Over
        BY <2>1, <4>1 DEF Crew
      <4> QED BY <4>1, <4>2 DEF Land
    <3>2. CASE ~(HitInFlight(r) \/ LandSearch(r) \/ VectorSearchFails(r) \/ CtxHitInFlight(r) \/ LandContext(r))
      <4>1. Found[r] \in {"cset", "return"}
        BY LandingPlaces
      <4>2. /\ \A q \in Requests : q # r => pc'[q] = pc[q] /\ result'[q] = result[q]
            /\ pc'[r] \notin {"idle"} \cup Over
        BY <1>0, <1>4, <2>1, <3>2, <4>1
           DEF Step, Get, Join, VectorSearch, Set, CtxGet, CtxJoin, CtxSearch, CtxSet,
               LookUp, Do, Go, RequestsOK
      <4> QED BY <2>1, <4>2
    <3> QED BY <3>1, <3>2
  <2>3. \A q \in Requests : FirstGen(q)' = FirstGen(q)
    <3>1. CASE CtxSearch(r)
      <4>1. kind[r] = "context"
        BY <3>1 DEF CtxSearch, FreshInv, GensRead
      <4> QED BY <1>0, <1>1, <3>1, <4>1 DEF CtxSearch, FirstGen, RequestsOK
    <3>2. CASE ~CtxSearch(r)
      <4>1. UNCHANGED <<cgen, sgen>>
        BY <1>4, <2>1, <3>2
           DEF Step, Get, Join, HitInFlight, VectorSearch, VectorSearchFails, Set, LandSearch,
               CtxGet, CtxJoin, CtxHitInFlight, CtxSet, LandContext, LookUp, Do, Land
      <4> QED BY <1>1, <4>1 DEF FirstGen
    <3> QED BY <3>1, <3>2
  <2>4. Floor' = Floor
    BY <1>1, <2>2, <2>3
  <2>5. Phase' = Phase
    BY <2>2
  <2>6. Given' = Given
    BY <2>2
  <2> QED BY <1>1, <2>4, <2>5, <2>6 DEF Fresh!vars
<1> QED BY <1>2, <1>3, <1>4

LEMMA MapsToFresh ==
    ASSUME TypeOK, FreshInv, [Next]_vars
    PROVE  [Fresh!Next]_Fresh!vars
<1>1. CASE \E r \in Requests : ComeIn(r) \/ Step(r)
  BY <1>1, StepMapsToFresh
<1>2. CASE \E d \in Docs : IndexStep(d)
  <2>1. PICK d \in Docs : IndexStep(d)
    BY <1>2
  <2>2. UNCHANGED <<frameVars, cacheVars>>
    BY <2>1 DEF IndexStep, Insert, Bump, Show
  <2>3. Phase' = Phase /\ Given' = Given
    BY <2>2 DEF Phase, Given
  <2>4. Floor' = Floor
    <3>1. \A r \in Requests : FirstGen(r)' = FirstGen(r) /\ FirstGen(r) <= generation
                              /\ FirstGen(r) \in Nat
      BY <2>2 DEF FirstGen, FreshInv, GensRead, TypeOK, RequestsOK, Generations
    <3>2. \A r \in Requests : base'[FirstGen(r)] = base[FirstGen(r)]
      BY <2>1, <3>1, PastStays
    <3> QED BY <2>2, <3>1, <3>2 DEF Floor
  <2>5. CASE Insert(d)
    BY <2>3, <2>4, <2>5 DEF Insert, Fresh!vars
  <2>6. CASE Show(d)
    BY <2>3, <2>4, <2>6 DEF Show, Fresh!Next, Fresh!Show
  <2>7. CASE Bump(d)
    <3>1. generation' \in Generations
      BY <2>1, <2>7, IndexTypes
    <3>2. base'[generation'] = visible /\ visible' = visible
      BY <2>7, <3>1 DEF Bump, TypeOK, IndexOK
    <3> QED BY <2>3, <2>4, <3>2 DEF Fresh!Next, Fresh!Publish
  <2> QED BY <2>1, <2>5, <2>6, <2>7 DEF IndexStep
<1>3. CASE Drop \/ UNCHANGED vars
  <2>1. UNCHANGED <<frameVars, indexVars>>
    BY <1>3 DEF Drop, vars
  <2>2. Floor' = Floor
    BY <2>1 DEF Floor, FirstGen
  <2>3. Phase' = Phase /\ Given' = Given
    BY <2>1 DEF Phase, Given
  <2> QED BY <2>1, <2>2, <2>3 DEF Fresh!vars
<1> QED BY <1>1, <1>2, <1>3 DEF Next

LEMMA InitMapsToFresh == Init => Fresh!Init
<1> SUFFICES ASSUME Init PROVE Fresh!Init
  OBVIOUS
<1>1. 0 \in Generations
  BY DocsAssumption, FS_CardinalityType DEF Generations
<1>2. visible = {} /\ base[generation] = {}
  BY <1>1 DEF Init
<1>3. Floor = [r \in Requests |-> {}] /\ Phase = [r \in Requests |-> "idle"]
      /\ Given = [r \in Requests |-> {}]
  BY DEF Init, Floor, Phase, Given
<1> QED BY <1>2, <1>3 DEF Fresh!Init

\* Every behaviour of retrieval, with its two caches, its shared flights and its
\* generations, is one of FreshIndex, as far as safety goes.
THEOREM RefinesFreshIndex == Spec => Fresh!Init /\ [][Fresh!Next]_Fresh!vars
<1>1. Init => FreshInv /\ TypeOK /\ WaitersHaveLeader
  BY FreshInit, TypesInit, WaitersInit
<1> QED BY <1>1, InitMapsToFresh, MapsToFresh, FreshNext, TypesNext, WaitersNext, PTL DEF Spec

-----------------------------------------------------------------------------
(* Passages: texts.                                                        *)

LEMMA TrimType ==
    ASSUME NEW C, NEW text \in Seq(C)
    PROVE  Trim(text) \in Seq(C)
<1> DEFINE inked == {i \in 1..Len(text) : text[i] # " "}
<1>1. Trim(text) = IF inked = {} THEN <<>> ELSE SubSeq(text, Min(inked), Max(inked))
  BY DEF Trim
<1>2. CASE inked # {}
  <2>1. Min(inked) \in 1..Len(text) /\ Max(inked) \in 1..Len(text)
    <3>1. inked \in SUBSET (1..Len(text))
      OBVIOUS
    <3>2. Len(text) \in Nat
      BY LenProperties
    <3> HIDE DEF inked
    <3>. QED
      BY <1>2, <3>1, <3>2, MinOf, MaxOf
  <2>2. SubSeq(text, Min(inked), Max(inked)) \in Seq(C)
    <3> HIDE DEF inked
    <3>. QED
      BY <2>1, SubSeqProperties
  <2>. QED
    BY <1>1, <1>2, <2>2, Zenon
<1>3. <<>> \in Seq(C)
  OBVIOUS
<1>. QED
  BY <1>1, <1>2, <1>3, Zenon

Budget == [docs : Nat \ {0}, chars : Nat, delta : Nat, hashed : Nat, token : Nat, header : Nat]

LEMMA PartCharsType ==
    ASSUME NEW r \in Result, NEW conf \in Budget
    PROVE  PartChars(r, conf) \in Nat
<1>1. r.content \in Seq(Chars) /\ conf.header \in Nat
  BY DEF Result, Budget
<1>2. Len(Trim(r.content)) \in Nat
  BY <1>1, TrimType
<1>. QED
  BY <1>1, <1>2 DEF PartChars

-----------------------------------------------------------------------------
(* A set in a strict order.                                                *)

StrictOrder(S, before) ==
    /\ \A i \in S : <<i, i>> \notin before
    /\ \A i, j, k \in S : <<i, j>> \in before /\ <<j, k>> \in before => <<i, k>> \in before
    /\ \A i, j \in S : i # j => <<i, j>> \in before \/ <<j, i>> \in before

\* Who comes before another has fewer before it, and everyone fewer than there are.
LEMMA Ranks ==
    ASSUME NEW S, IsFiniteSet(S), NEW before, StrictOrder(S, before),
           NEW rank, rank = [i \in S |-> Cardinality({j \in S : <<j, i>> \in before})]
    PROVE  /\ rank \in [S -> 0..(Cardinality(S) - 1)]
           /\ \A i, j \in S : <<i, j>> \in before => rank[i] < rank[j]
<1> DEFINE First(i) == {j \in S : <<j, i>> \in before}
<1>1. ASSUME NEW i \in S, NEW T \in SUBSET S, First(i) \cup {i} \subseteq T
      PROVE  rank[i] \in Nat /\ Cardinality(T) \in Nat /\ rank[i] < Cardinality(T)
  <2>1. rank[i] = Cardinality(First(i))
    OBVIOUS
  <2>2. i \notin First(i)
    BY DEF StrictOrder
  <2> HIDE DEF First
  <2>3. IsFiniteSet(T) /\ Cardinality(T) \in Nat
    BY FS_Subset, FS_CardinalityType
  <2>4. First(i) \cup {i} \in SUBSET T /\ First(i) \in SUBSET T
    BY <1>1
  <2>5. IsFiniteSet(First(i)) /\ Cardinality(First(i)) \in Nat
    BY <2>3, <2>4, FS_Subset, FS_CardinalityType
  <2>6. Cardinality(First(i) \cup {i}) = Cardinality(First(i)) + 1
    BY <2>2, <2>5, FS_AddElement
  <2>7. Cardinality(First(i) \cup {i}) <= Cardinality(T)
    BY <2>3, <2>4, FS_Subset
  <2>. QED
    BY <2>1, <2>3, <2>5, <2>6, <2>7
<1>2. ASSUME NEW i \in S, NEW j \in S, <<i, j>> \in before PROVE rank[i] < rank[j]
  <2>1. First(j) \in SUBSET S /\ First(i) \cup {i} \subseteq First(j)
    BY <1>2 DEF StrictOrder
  <2>2. rank[j] = Cardinality(First(j))
    OBVIOUS
  <2> HIDE DEF First
  <2>. QED
    BY <1>1, <2>1, <2>2
<1>3. ASSUME NEW i \in S PROVE rank[i] \in 0..(Cardinality(S) - 1)
  <2>1. S \in SUBSET S /\ First(i) \cup {i} \subseteq S
    OBVIOUS
  <2> HIDE DEF First
  <2>. QED
    BY <1>1, <2>1
<1>. QED
  BY <1>2, <1>3

\* Everyone has a place of its own, and who comes before another has the earlier one.
LEMMA PlacesInOrder ==
    ASSUME NEW S, IsFiniteSet(S), NEW before, StrictOrder(S, before)
    PROVE  /\ Cardinality(S) \in Nat
           /\ InOrder(S, before) \in [1..Cardinality(S) -> S]
           /\ \A i \in S : \E n \in 1..Cardinality(S) : InOrder(S, before)[n] = i
           /\ \A m, n \in 1..Cardinality(S) :
                m < n => <<InOrder(S, before)[m], InOrder(S, before)[n]>> \in before
<1> DEFINE N == Cardinality(S)
           order == InOrder(S, before)
           rank == [i \in S |-> Cardinality({j \in S : <<j, i>> \in before})]
<1>1. N \in Nat
  BY FS_CardinalityType
<1>2. rank \in [S -> 0..(N - 1)] /\ \A i, j \in S : <<i, j>> \in before => rank[i] < rank[j]
  <2> HIDE DEF rank
  <2>1. rank = [i \in S |-> Cardinality({j \in S : <<j, i>> \in before})]
    BY DEF rank
  <2>. QED
    BY <2>1, Ranks
<1>3. order = [n \in 1..N |-> CHOOSE i \in S : Cardinality({j \in S : <<j, i>> \in before}) = n - 1]
  BY DEF InOrder
<1>r. \A i \in S : rank[i] = Cardinality({j \in S : <<j, i>> \in before})
  OBVIOUS
<1> HIDE DEF rank, order
<1>4. ASSUME NEW i \in S, NEW j \in S, rank[i] = rank[j] PROVE i = j
  <2>1. ~ rank[i] < rank[j] /\ ~ rank[j] < rank[i]
    BY <1>1, <1>2, <1>4
  <2>. QED
    BY <1>2, <2>1 DEF StrictOrder
<1>5. \A n \in 1..N : \E i \in S : rank[i] = n - 1
  <2>1. rank \in Injection(S, 0..(N - 1))
    BY <1>2, <1>4 DEF Injection, IsInjective
  <2>2. IsFiniteSet(0..(N - 1)) /\ Cardinality(0..(N - 1)) = N
    BY <1>1, FS_Interval
  <2>3. rank \in Surjection(S, 0..(N - 1))
    BY <2>1, <2>2, FS_Injection
  <2>. QED
    BY <2>3, <1>1 DEF Surjection
<1>6. \A n \in 1..N : order[n] \in S /\ rank[order[n]] = n - 1
  <2> DEFINE Place(i) == Cardinality({j \in S : <<j, i>> \in before})
  <2>1. ASSUME NEW n \in 1..N PROVE order[n] \in S /\ rank[order[n]] = n - 1
    <3>1. order[n] = CHOOSE i \in S : Place(i) = n - 1
      BY <1>3
    <3>2. \E i \in S : Place(i) = n - 1
      BY <1>r, <1>5
    <3> HIDE DEF Place
    <3>3. order[n] \in S /\ Place(order[n]) = n - 1
      BY <3>1, <3>2, Zenon
    <3>. QED
      BY <1>r, <3>3 DEF Place
  <2>. QED
    BY <2>1
<1>7. ASSUME NEW i \in S PROVE \E n \in 1..N : order[n] = i
  <2>1. rank[i] + 1 \in 1..N /\ (rank[i] + 1) - 1 = rank[i]
    BY <1>1, <1>2
  <2>2. order[rank[i] + 1] = i
    BY <1>4, <1>6, <2>1
  <2>. QED
    BY <2>1, <2>2
<1>8. ASSUME NEW m \in 1..N, NEW n \in 1..N, m < n PROVE <<order[m], order[n]>> \in before
  <2>1. rank[order[m]] < rank[order[n]] /\ order[m] \in S /\ order[n] \in S
    BY <1>1, <1>6, <1>8
  <2>2. ~ rank[order[n]] < rank[order[m]] /\ order[m] # order[n]
    BY <1>1, <1>6, <1>8
  <2>. QED
    BY <1>2, <2>1, <2>2 DEF StrictOrder
<1>9. order \in [1..N -> S]
  BY <1>3, <1>6
<1>. QED
  BY <1>1, <1>7, <1>8, <1>9 DEF order

-----------------------------------------------------------------------------
(* limitSearchResultsByScore.                                              *)

\* What the loop keeps after n results comes from what it kept before the n-th.
LEMMA LimitStepsRun ==
    ASSUME NEW results \in Seq(Result), NEW conf
    PROVE  LET kept == LimitSteps(results, conf) IN
             /\ kept \in [0..Len(results) -> Seq(Result)]
             /\ kept[0] = <<>>
             /\ \A n \in 1..Len(results) :
                  kept[n] = IF Skip(results[n], kept[n - 1], results[1].score, conf) THEN kept[n - 1]
                            ELSE Append(kept[n - 1], results[n])
<1> DEFINE N == Len(results)
           Turn(q, n) == IF Skip(results[n], q, results[1].score, conf) THEN q ELSE Append(q, results[n])
           Fits(f) == f = [n \in 0..N |-> IF n = 0 THEN <<>> ELSE Turn(f[n - 1], n)]
           step == [z \in Seq(Result) \X (1..N) |-> Turn(z[1], z[2])]
           kept == LimitSteps(results, conf)
<1>1. N \in Nat /\ <<>> \in Seq(Result)
  BY EmptySeq, LenProperties
<1>2. \A q \in Seq(Result), n \in 1..N : Turn(q, n) \in Seq(Result)
  BY AppendProperties, ElementOfSeq
<1>3. kept = CHOOSE f : Fits(f)
  BY DEF LimitSteps
<1> HIDE DEF N, Turn, kept
<1>4. /\ step \in [Seq(Result) \X (1..N) -> Seq(Result)]
      /\ \A q \in Seq(Result), n \in 1..N : step[<<q, n>>] = Turn(q, n)
  BY <1>2
<1> HIDE DEF step
<1>5. PICK f \in [0..N -> Seq(Result)] : Follows(f, <<>>, N, step)
  <2>1. N \in Nat
    BY <1>1
  <2>2. <<>> \in Seq(Result)
    BY <1>1
  <2>3. step \in [Seq(Result) \X (1..N) -> Seq(Result)]
    BY <1>4
  <2>. QED
    BY ONLY <2>1, <2>2, <2>3, Loops
<1>6. Fits(f)
  <2>1. ASSUME NEW n \in 1..N PROVE f[n] = Turn(f[n - 1], n)
    <3>1. n - 1 \in 0..N
      BY <1>1
    <3>2. f[n - 1] \in Seq(Result)
      BY <1>5, <3>1
    <3>. QED
      BY <1>4, <1>5, <3>2 DEF Follows
  <2>. QED
    BY <1>1, <1>5, <2>1 DEF Follows
<1>7. Fits(kept)
  BY <1>3, <1>6, Zenon
<1>8. kept[0] = <<>> /\ \A n \in 1..N : kept[n] = Turn(kept[n - 1], n)
  BY <1>1, <1>7
<1>9. \A n \in 0..N : kept[n] \in Seq(Result)
  <2> DEFINE T == {n \in 0..N : kept[n] \in Seq(Result)}
  <2>z. 0 \in 0..N
    BY <1>1
  <2>1. 0 \in T
    BY <1>1, <1>8, <2>z
  <2>2. \A n \in 1..N : n - 1 \in T => n \in T
    BY <1>2, <1>8
  <2> HIDE DEF T
  <2>3. \A n \in 0..N : n \in T
    BY <1>1, <2>1, <2>2, UpTo
  <2>. QED
    BY <2>3 DEF T
<1>10. kept \in [0..N -> Seq(Result)]
  BY <1>7, <1>9
<1>. QED
  BY <1>8, <1>10 DEF N, Turn, kept

-----------------------------------------------------------------------------
(* The loop of buildContextFromResults.                                    *)

Account == [parts : Seq(Result), chars : Nat, left : BOOLEAN]

Nothing == [parts |-> <<>>, chars |-> 0, left |-> FALSE]

LEMMA ConsiderType ==
    ASSUME NEW c \in Account, NEW r \in Result, NEW best, NEW conf \in Budget
    PROVE  Consider(c, r, best, conf, TRUE) \in Account
<1>1. PartChars(r, conf) \in Nat
  BY PartCharsType
<1>2. Append(c.parts, r) \in Seq(Result)
  BY DEF Account
<1>3. c.chars + PartChars(r, conf) \in Nat
  BY <1>1 DEF Account
<1>4. [c EXCEPT !.left = TRUE] \in Account
  BY DEF Account
<1>5. [c EXCEPT !.parts = Append(c.parts, r), !.chars = c.chars + PartChars(r, conf)] \in Account
  BY <1>2, <1>3 DEF Account
<1>. QED
  BY <1>4, <1>5 DEF Consider

\* What the loop has after n results comes from what it had before the n-th.
LEMMA LoopRuns ==
    ASSUME NEW found \in Seq(Result), NEW conf \in Budget, NEW ranking \in Seq(DOMAIN found)
    PROVE  LET after == Loop(ranking, found, conf, TRUE) IN
             /\ after \in [0..Len(ranking) -> Account]
             /\ after[0] = Nothing
             /\ \A n \in 1..Len(ranking) :
                  after[n] = Consider(after[n - 1], found[ranking[n]], found[ranking[1]].score, conf, TRUE)
<1> DEFINE N == Len(ranking)
           Turn(c, n) == Consider(c, found[ranking[n]], found[ranking[1]].score, conf, TRUE)
           Fits(f) == f = [n \in 0..N |-> IF n = 0 THEN Nothing ELSE Turn(f[n - 1], n)]
           step == [z \in Account \X (1..N) |-> Turn(z[1], z[2])]
           after == Loop(ranking, found, conf, TRUE)
<1>1. N \in Nat /\ 0 \in 0..N
  BY LenProperties
<1>2. Nothing \in Account
  BY EmptySeq DEF Nothing, Account
<1>3. \A c \in Account, n \in 1..N : Turn(c, n) \in Account
  <2>1. ASSUME NEW n \in 1..N PROVE found[ranking[n]] \in Result
    BY ElementOfSeq, LenProperties
  <2>. QED
    BY <2>1, ConsiderType
<1>4. after = CHOOSE f : Fits(f)
  BY DEF Loop, Nothing
<1> HIDE DEF N, Turn, after
<1>5. step \in [Account \X (1..N) -> Account] /\ \A c \in Account, n \in 1..N : step[<<c, n>>] = Turn(c, n)
  BY <1>3
<1> HIDE DEF step
<1>6. PICK f \in [0..N -> Account] : Follows(f, Nothing, N, step)
  BY <1>1, <1>2, <1>5, Loops
<1>7. Fits(f)
  <2>1. ASSUME NEW n \in 1..N PROVE f[n] = Turn(f[n - 1], n)
    <3>1. n - 1 \in 0..N
      BY <1>1
    <3>2. f[n - 1] \in Account
      BY <1>6, <3>1
    <3>. QED
      BY <1>5, <1>6, <3>2 DEF Follows
  <2>2. \A n \in 0..N : f[n] = IF n = 0 THEN Nothing ELSE Turn(f[n - 1], n)
    BY <1>1, <1>6, <2>1 DEF Follows
  <2>3. f = [n \in 0..N |-> f[n]]
    BY <1>6
  <2>. QED
    BY <2>2, <2>3, Zenon
<1>8. Fits(after)
  BY <1>4, <1>7, Zenon
<1>9. after[0] = Nothing /\ \A n \in 1..N : after[n] = Turn(after[n - 1], n)
  BY <1>1, <1>8
<1>10. \A n \in 0..N : after[n] \in Account
  <2> DEFINE T == {n \in 0..N : after[n] \in Account}
  <2>1. 0 \in T
    BY <1>1, <1>2, <1>9
  <2>2. \A n \in 1..N : n - 1 \in T => n \in T
    BY <1>3, <1>9
  <2> HIDE DEF T
  <2>3. \A n \in 0..N : n \in T
    BY <1>1, <2>1, <2>2, UpTo
  <2>. QED
    BY <2>3 DEF T
<1>11. after \in [0..N -> Account]
  BY <1>8, <1>10
<1>. QED
  BY <1>9, <1>11 DEF N, Turn, after

\* The characters of n parts come from those of the parts before the n-th.
LEMMA PartsCharsRun ==
    ASSUME NEW parts \in Seq(Result), NEW conf \in Budget
    PROVE  LET sum == PartsChars(parts, conf) IN
             /\ sum \in [0..Len(parts) -> Nat]
             /\ sum[0] = 0
             /\ \A n \in 1..Len(parts) : sum[n] = sum[n - 1] + PartChars(parts[n], conf)
<1> DEFINE N == Len(parts)
           Turn(c, n) == c + PartChars(parts[n], conf)
           Fits(f) == f = [n \in 0..N |-> IF n = 0 THEN 0 ELSE Turn(f[n - 1], n)]
           step == [z \in Nat \X (1..N) |-> Turn(z[1], z[2])]
           sum == PartsChars(parts, conf)
<1>1. N \in Nat /\ 0 \in 0..N
  BY LenProperties
<1>2. 0 \in Nat
  OBVIOUS
<1>3. \A c \in Nat, n \in 1..N : Turn(c, n) \in Nat
  BY ElementOfSeq, PartCharsType
<1>4. sum = CHOOSE f : Fits(f)
  BY DEF PartsChars
<1> HIDE DEF N, Turn, sum
<1>5. step \in [Nat \X (1..N) -> Nat] /\ \A c \in Nat, n \in 1..N : step[<<c, n>>] = Turn(c, n)
  BY <1>3
<1> HIDE DEF step
<1>6. PICK f \in [0..N -> Nat] : Follows(f, 0, N, step)
  BY <1>1, <1>2, <1>5, Loops
<1>7. Fits(f)
  <2>1. ASSUME NEW n \in 1..N PROVE f[n] = Turn(f[n - 1], n)
    <3>1. n - 1 \in 0..N
      BY <1>1
    <3>2. f[n - 1] \in Nat
      BY <1>6, <3>1
    <3>. QED
      BY <1>5, <1>6, <3>2 DEF Follows
  <2>2. \A n \in 0..N : f[n] = IF n = 0 THEN 0 ELSE Turn(f[n - 1], n)
    BY <1>1, <1>6, <2>1 DEF Follows
  <2>3. f = [n \in 0..N |-> f[n]]
    BY <1>6
  <2>. QED
    BY <2>2, <2>3
<1>8. Fits(sum)
  BY <1>4, <1>7, Zenon
<1>9. sum[0] = 0 /\ \A n \in 1..N : sum[n] = Turn(sum[n - 1], n)
  BY <1>1, <1>8
<1>10. \A n \in 0..N : sum[n] \in Nat
  <2> DEFINE T == {n \in 0..N : sum[n] \in Nat}
  <2>1. 0 \in T
    BY <1>1, <1>2, <1>9
  <2>2. \A n \in 1..N : n - 1 \in T => n \in T
    BY <1>3, <1>9
  <2> HIDE DEF T
  <2>3. \A n \in 0..N : n \in T
    BY <1>1, <2>1, <2>2, UpTo
  <2>. QED
    BY <2>3 DEF T
<1>11. sum \in [0..N -> Nat]
  BY <1>8, <1>10
<1>. QED
  BY <1>9, <1>11 DEF N, Turn, sum

\* One part more counts for its own characters.
LEMMA PartsCharsAppend ==
    ASSUME NEW parts \in Seq(Result), NEW r \in Result, NEW conf \in Budget
    PROVE  PartsChars(Append(parts, r), conf)[Len(parts) + 1]
             = PartsChars(parts, conf)[Len(parts)] + PartChars(r, conf)
<1> DEFINE N == Len(parts)
           more == Append(parts, r)
           short == PartsChars(parts, conf)
           long == PartsChars(more, conf)
           T == {n \in 0..N : long[n] = short[n]}
<1>1. N \in Nat /\ more \in Seq(Result) /\ Len(more) = N + 1 /\ more[N + 1] = r
      /\ \A n \in 1..N : more[n] = parts[n]
  BY AppendProperties, LenProperties
<1>2. short[0] = 0 /\ \A n \in 1..N : short[n] = short[n - 1] + PartChars(parts[n], conf)
  BY PartsCharsRun
<1>3. long[0] = 0 /\ \A n \in 1..(N + 1) : long[n] = long[n - 1] + PartChars(more[n], conf)
  <2> HIDE DEF more
  <2>. QED
    BY <1>1, PartsCharsRun
<1> HIDE DEF N, more, short, long
<1>4. 0 \in T
  BY <1>1, <1>2, <1>3
<1>5. ASSUME NEW n \in 1..N, n - 1 \in T PROVE n \in T
  <2>1. n \in 1..(N + 1) /\ n \in 0..N /\ more[n] = parts[n]
    BY <1>1
  <2>. QED
    BY <1>2, <1>3, <1>5, <2>1
<1>6. N \in T
  <2> HIDE DEF T
  <2>1. \A n \in 0..N : n \in T
    BY <1>1, <1>4, <1>5, UpTo
  <2>. QED
    BY <1>1, <2>1
<1>7. N + 1 \in 1..(N + 1) /\ (N + 1) - 1 = N
  BY <1>1
<1>8. long[N + 1] = short[N] + PartChars(r, conf)
  BY <1>1, <1>3, <1>6, <1>7
<1>. QED
  BY <1>8 DEF N, more, short, long

\* A ranking has every result once, the closest first.
LEMMA Ranked ==
    ASSUME NEW found \in Seq(Result), NEW ranking \in Rankings(found)
    PROVE  /\ Len(ranking) = Len(found) /\ DOMAIN ranking = 1..Len(found)
           /\ ranking \in Seq(DOMAIN found)
           /\ \A m, n \in 1..Len(found) : m # n => ranking[m] # ranking[n]
           /\ \A i \in DOMAIN found : \E n \in 1..Len(found) : ranking[n] = i
           /\ \A m, n \in 1..Len(found) : m < n => found[ranking[m]].score <= found[ranking[n]].score
<1> DEFINE N == Len(found)
<1>1. N \in Nat /\ DOMAIN found = 1..N
  BY LenProperties
<1>2. IsFiniteSet(1..N) /\ Cardinality(1..N) = N
  BY <1>1, FS_Interval
<1>3. ranking \in [1..N -> 1..N] /\ \A m, n \in 1..N : m # n => ranking[m] # ranking[n]
  BY <1>1, <1>2 DEF Rankings, SetToSeqs
<1> HIDE DEF N
<1>4. DOMAIN ranking = 1..N /\ ranking \in Seq(1..N) /\ Len(ranking) = N
  BY <1>1, <1>3
<1>5. \A i \in 1..N : \E n \in 1..N : ranking[n] = i
  <2>1. ranking \in Injection(1..N, 1..N)
    BY <1>3 DEF Injection, IsInjective
  <2>2. ranking \in Surjection(1..N, 1..N)
    BY <1>2, <2>1, FS_Injection
  <2>. QED
    BY <2>2 DEF Surjection
<1>6. \A m, n \in 1..N : m < n => found[ranking[m]].score <= found[ranking[n]].score
  BY <1>4 DEF Rankings
<1>. QED
  BY <1>1, <1>3, <1>4, <1>5, <1>6 DEF N

\* What filterSearchResults gives: no blank and no two that count as one.
Clean(found, conf) ==
    /\ \A i \in DOMAIN found : ~ Blank(found[i])
    /\ \A i, j \in DOMAIN found : i # j => ~ Twins(found[i], found[j], conf)

\* What the loop has after n results: near ones from among them, no two of which count as one,
\* the first result first; as many as there may be, and as long; and of the n results those that
\* it has not are too far or, since the loop was left, no closer than any it has.
FromRanks(c, n, found, ranking, conf) ==
    \A m \in DOMAIN c.parts : \E k \in 1..n :
        c.parts[m] = found[ranking[k]] /\ ~ Far(c.parts[m], found[ranking[1]].score, conf)
Apart(c, conf) == \A m, l \in DOMAIN c.parts : m # l => ~ Twins(c.parts[m], c.parts[l], conf)
Bounded(c, conf) ==
    /\ Len(c.parts) <= conf.docs
    /\ c.chars = PartsChars(c.parts, conf)[Len(c.parts)] /\ c.chars <= conf.chars
Led(c, n, found, ranking) ==
    /\ c.parts # <<>> => c.parts[1] = found[ranking[1]]
    /\ n >= 1 => c.parts # <<>> \/ c.left
Looked(c, n, found, ranking, conf) ==
    \A k \in 1..n :
        \/ \E m \in DOMAIN c.parts : c.parts[m] = found[ranking[k]]
        \/ Far(found[ranking[k]], found[ranking[1]].score, conf)
        \/ c.left /\ \A m \in DOMAIN c.parts : c.parts[m].score <= found[ranking[k]].score

Carry(c, n, found, ranking, conf) ==
    /\ FromRanks(c, n, found, ranking, conf)
    /\ Apart(c, conf)
    /\ Bounded(c, conf)
    /\ Led(c, n, found, ranking)
    /\ Looked(c, n, found, ranking, conf)

\* One more result keeps it so.
LEMMA ConsiderCarries ==
    ASSUME NEW found \in Seq(Result), NEW conf \in Budget, NEW ranking \in Rankings(found),
           Clean(found, conf), NEW n \in 1..Len(found),
           NEW c \in Account, Carry(c, n - 1, found, ranking, conf)
    PROVE  Carry(Consider(c, found[ranking[n]], found[ranking[1]].score, conf, TRUE),
                 n, found, ranking, conf)
<1> DEFINE N == Len(found)
           r == found[ranking[n]]
           best == found[ranking[1]].score
           d == Consider(c, r, best, conf, TRUE)
<1>1. /\ N \in Nat /\ DOMAIN found = 1..N /\ n \in 1..N /\ 1 \in 1..N
      /\ \A k \in 1..N : ranking[k] \in DOMAIN found /\ found[ranking[k]] \in Result
  <2>1. N \in Nat /\ DOMAIN found = 1..N
    BY LenProperties
  <2>2. \A k \in 1..N : ranking[k] \in DOMAIN found
    BY Ranked, ElementOfSeq
  <2>. QED
    BY <2>1, <2>2, ElementOfSeq
<1>2. \A k \in 1..N : found[ranking[k]].score \in Int
  BY <1>1 DEF Result
<1>3. c.parts \in Seq(Result) /\ c.chars \in Nat /\ c.left \in BOOLEAN /\ Len(c.parts) \in Nat
      /\ DOMAIN c.parts = 1..Len(c.parts)
  BY LenProperties DEF Account
<1>4. \A k \in 1..(n - 1) : k \in 1..N /\ k < n /\ ranking[k] # ranking[n]
                             /\ found[ranking[k]].score <= r.score
  <2>1. \A k \in 1..(n - 1) : k \in 1..N /\ k < n /\ k # n
    BY <1>1
  <2>2. /\ \A k, m \in 1..N : k # m => ranking[k] # ranking[m]
        /\ \A k, m \in 1..N : k < m => found[ranking[k]].score <= found[ranking[m]].score
    BY Ranked
  <2>. QED
    BY <1>1, <2>1, <2>2
<1>5. conf.docs \in Nat \ {0} /\ conf.chars \in Nat /\ conf.delta \in Nat
  BY DEF Budget
<1> HIDE DEF N
<1>6. ASSUME d = [c EXCEPT !.left = TRUE] PROVE Carry(d, n, found, ranking, conf)
  <2>1. d.parts = c.parts /\ d.chars = c.chars /\ d.left = TRUE
    BY <1>6 DEF Account
  <2> HIDE DEF d, r, best
  <2>2. FromRanks(d, n, found, ranking, conf)
    BY <1>1, <2>1 DEF Carry, FromRanks
  <2>3. Apart(d, conf) /\ Bounded(d, conf) /\ Led(d, n, found, ranking)
    BY <2>1 DEF Carry, Apart, Bounded, Led
  <2>4. Looked(d, n, found, ranking, conf)
    <3>1. \A m \in DOMAIN c.parts : c.parts[m].score <= r.score
      BY <1>4 DEF Carry, FromRanks
    <3>. QED
      BY <1>1, <2>1, <3>1 DEF Carry, Looked, r
  <2>. QED
    BY <2>2, <2>3, <2>4 DEF Carry
<1>7. ASSUME Skip(r, c.parts, best, conf), d = c PROVE Carry(d, n, found, ranking, conf)
  <2>1. ~ Blank(r)
    BY <1>1 DEF Clean
  <2>2. ASSUME NEW k \in ToSet(c.parts) PROVE ~ Twins(r, k, conf)
    <3>1. PICK m \in DOMAIN c.parts : k = c.parts[m]
      BY DEF ToSet
    <3>2. PICK l \in 1..(n - 1) : k = found[ranking[l]]
      BY <3>1 DEF Carry, FromRanks
    <3>. QED
      BY <1>1, <1>4, <3>2 DEF Clean
  <2>3. Far(r, best, conf)
    BY <1>7, <2>1, <2>2 DEF Skip
  <2>4. n # 1
    BY <1>2, <1>1, <1>5, <2>3 DEF Far
  <2> HIDE DEF d, r, best
  <2>5. FromRanks(d, n, found, ranking, conf) /\ Apart(d, conf) /\ Bounded(d, conf)
    BY <1>1, <1>7 DEF Carry, FromRanks, Apart, Bounded
  <2>6. Led(d, n, found, ranking)
    BY <1>1, <1>7, <2>4 DEF Carry, Led
  <2>7. Looked(d, n, found, ranking, conf)
    BY <1>1, <1>7, <2>3 DEF Carry, Looked, r, best
  <2>. QED
    BY <2>5, <2>6, <2>7 DEF Carry
<1>8. ASSUME ~ c.left, Len(c.parts) < conf.docs, ~ Skip(r, c.parts, best, conf),
             c.chars + PartChars(r, conf) <= conf.chars,
             d = [c EXCEPT !.parts = Append(c.parts, r), !.chars = c.chars + PartChars(r, conf)]
      PROVE  Carry(d, n, found, ranking, conf)
  <2> DEFINE L == Len(c.parts)
  <2>1. d.parts = Append(c.parts, r) /\ d.chars = c.chars + PartChars(r, conf) /\ d.left = FALSE
    BY <1>3, <1>8 DEF Account
  <2>2. r \in Result
    BY <1>1
  <2>3. /\ Len(d.parts) = L + 1 /\ d.parts[L + 1] = r /\ DOMAIN d.parts = 1..(L + 1)
        /\ \A m \in 1..L : d.parts[m] = c.parts[m]
    <3>1. c.parts \in Seq(Result)
      BY <1>3
    <3> HIDE DEF r, d
    <3>2. /\ Append(c.parts, r) \in Seq(Result) /\ Len(Append(c.parts, r)) = Len(c.parts) + 1
          /\ Append(c.parts, r)[Len(c.parts) + 1] = r
          /\ \A m \in 1..Len(c.parts) : Append(c.parts, r)[m] = c.parts[m]
      BY <2>2, <3>1, AppendProperties
    <3>3. DOMAIN Append(c.parts, r) = 1..(Len(c.parts) + 1)
      BY <3>2, LenProperties
    <3>. QED
      BY <2>1, <3>2, <3>3
  <2>4. ~ Far(r, best, conf) /\ \A m \in 1..L : ~ Twins(r, c.parts[m], conf)
    BY <1>3, <1>8 DEF Skip, ToSet
  <2> HIDE DEF d, r, best, L
  <2>5. FromRanks(d, n, found, ranking, conf)
    <3>1. ASSUME NEW m \in 1..(L + 1)
          PROVE  \E k \in 1..n : d.parts[m] = found[ranking[k]] /\ ~ Far(d.parts[m], best, conf)
      <4>1. CASE m = L + 1
        BY <1>1, <2>3, <2>4, <4>1 DEF r
      <4>2. CASE m \in 1..L
        <5>1. PICK k \in 1..(n - 1) : c.parts[m] = found[ranking[k]] /\ ~ Far(c.parts[m], best, conf)
          BY <1>3, <4>2 DEF Carry, FromRanks, best, L
        <5>2. k \in 1..n /\ d.parts[m] = c.parts[m]
          BY <1>1, <2>3, <4>2
        <5>. QED
          BY <5>1, <5>2
      <4>. QED
        BY <1>3, <4>1, <4>2 DEF L
    <3>. QED
      BY <2>3, <3>1 DEF FromRanks, best
  <2>6. Apart(d, conf)
    <3>1. ASSUME NEW m \in 1..(L + 1), NEW l \in 1..(L + 1), m # l
          PROVE  ~ Twins(d.parts[m], d.parts[l], conf)
      <4>1. CASE m \in 1..L /\ l \in 1..L
        BY <1>3, <2>3, <3>1, <4>1 DEF Carry, Apart, L
      <4>2. CASE m = L + 1 /\ l \in 1..L
        BY <2>3, <2>4, <4>2
      <4>3. CASE m \in 1..L /\ l = L + 1
        BY <2>3, <2>4, <4>3 DEF Twins
      <4>. QED
        BY <1>3, <3>1, <4>1, <4>2, <4>3 DEF L
    <3>. QED
      BY <2>3, <3>1 DEF Apart
  <2>7. Bounded(d, conf)
    <3>1. PartsChars(d.parts, conf)[L + 1] = c.chars + PartChars(r, conf)
      BY <1>3, <2>1, <2>2, PartsCharsAppend DEF Carry, Bounded, L
    <3>. QED
      BY <1>3, <1>5, <1>8, <2>1, <2>3, <3>1 DEF Bounded, L
  <2>8. Led(d, n, found, ranking)
    <3>1. d.parts # <<>>
      <4>1. Len(d.parts) # 0
        BY <1>3, <2>3 DEF L
      <4>. QED
        BY <4>1, EmptySeq
    <3>2. CASE c.parts = <<>>
      <4>1. n = 1
        BY <1>1, <1>8, <3>2 DEF Carry, Led
      <4>2. L = 0
        BY <3>2 DEF L
      <4>. QED
        BY <2>3, <3>1, <4>1, <4>2 DEF Led, r
    <3>3. CASE c.parts # <<>>
      <4>1. 1 \in 1..L
        BY <1>3, <3>3, EmptySeq DEF L
      <4>. QED
        BY <2>3, <3>1, <3>3, <4>1 DEF Carry, Led
    <3>. QED
      BY <3>2, <3>3
  <2>9. Looked(d, n, found, ranking, conf)
    <3>1. ASSUME NEW k \in 1..n
          PROVE  (\E m \in 1..(L + 1) : d.parts[m] = found[ranking[k]]) \/ Far(found[ranking[k]], best, conf)
      <4>1. CASE k = n
        BY <1>3, <2>3, <4>1 DEF r, L
      <4>2. CASE k \in 1..(n - 1)
        <5>1. (\E m \in 1..L : c.parts[m] = found[ranking[k]]) \/ Far(found[ranking[k]], best, conf)
          BY <1>3, <1>8, <4>2 DEF Carry, Looked, best, L
        <5>. QED
          BY <1>3, <2>3, <5>1 DEF L
      <4>. QED
        BY <1>1, <4>1, <4>2
    <3>. QED
      BY <2>3, <3>1 DEF Looked, best
  <2>. QED
    BY <2>5, <2>6, <2>7, <2>8, <2>9 DEF Carry
<1>. QED
  <2>1. PartChars(r, conf) \in Nat
    BY <1>1, PartCharsType
  <2>2. d = IF c.left \/ Len(c.parts) >= conf.docs THEN [c EXCEPT !.left = TRUE]
            ELSE IF Skip(r, c.parts, best, conf) THEN c
            ELSE IF c.chars + PartChars(r, conf) > conf.chars THEN [c EXCEPT !.left = TRUE]
            ELSE [c EXCEPT !.parts = Append(c.parts, r), !.chars = c.chars + PartChars(r, conf)]
    BY DEF Consider
  <2>3. CASE c.left \/ Len(c.parts) >= conf.docs
    BY <1>6, <2>2, <2>3
  <2>4. CASE ~ (c.left \/ Len(c.parts) >= conf.docs)
    <3>1. ~ c.left /\ Len(c.parts) < conf.docs
      BY <1>3, <1>5, <2>4
    <3>2. CASE Skip(r, c.parts, best, conf)
      BY <1>7, <2>2, <2>4, <3>2
    <3>3. CASE ~ Skip(r, c.parts, best, conf)
      <4>1. CASE c.chars + PartChars(r, conf) > conf.chars
        BY <1>6, <2>2, <2>4, <3>3, <4>1
      <4>2. CASE ~ c.chars + PartChars(r, conf) > conf.chars
        <5>1. c.chars + PartChars(r, conf) <= conf.chars
          BY <1>3, <1>5, <2>1, <4>2
        <5>2. d = [c EXCEPT !.parts = Append(c.parts, r), !.chars = c.chars + PartChars(r, conf)]
          BY <2>2, <2>4, <3>3, <4>2
        <5>. QED
          BY <1>8, <3>1, <3>3, <5>1, <5>2
      <4>. QED
        BY <4>1, <4>2
    <3>. QED
      BY <3>2, <3>3
  <2>. QED
    BY <2>3, <2>4

\* It is so all along the loop.
LEMMA LoopCarries ==
    ASSUME NEW found \in Seq(Result), NEW conf \in Budget, NEW ranking \in Rankings(found),
           Clean(found, conf)
    PROVE  \A n \in 0..Len(found) : /\ Loop(ranking, found, conf, TRUE)[n] \in Account
                                    /\ Carry(Loop(ranking, found, conf, TRUE)[n], n, found, ranking, conf)
<1> DEFINE N == Len(found)
           after == Loop(ranking, found, conf, TRUE)
           T == {n \in 0..N : Carry(after[n], n, found, ranking, conf)}
<1>1. N \in Nat /\ 0 \in 0..N
  BY LenProperties
<1>2. /\ after \in [0..N -> Account]
      /\ after[0] = Nothing
      /\ \A n \in 1..N :
           after[n] = Consider(after[n - 1], found[ranking[n]], found[ranking[1]].score, conf, TRUE)
  <2>1. ranking \in Seq(DOMAIN found) /\ Len(ranking) = N
    BY Ranked
  <2>. QED
    BY <2>1, LoopRuns
<1> HIDE DEF N, after
<1>3. Carry(Nothing, 0, found, ranking, conf)
  <2>1. Nothing.parts = <<>> /\ Nothing.chars = 0 /\ Len(<<>>) = 0
    BY DEF Nothing
  <2>2. PartsChars(<<>>, conf)[0] = 0
    BY PartsCharsRun, EmptySeq
  <2>3. conf.docs \in Nat /\ conf.chars \in Nat
    BY DEF Budget
  <2>. QED
    BY <2>1, <2>2, <2>3 DEF Carry, FromRanks, Apart, Bounded, Led, Looked
<1>4. 0 \in T
  BY <1>1, <1>2, <1>3
<1>5. ASSUME NEW n \in 1..N, n - 1 \in T PROVE n \in T
  <2>1. n \in 0..N /\ n - 1 \in 0..N
    BY <1>1
  <2>2. after[n - 1] \in Account /\ Carry(after[n - 1], n - 1, found, ranking, conf)
    BY <1>2, <1>5, <2>1
  <2>3. n \in 1..Len(found)
    BY DEF N
  <2>4. Carry(Consider(after[n - 1], found[ranking[n]], found[ranking[1]].score, conf, TRUE),
              n, found, ranking, conf)
    BY <2>2, <2>3, ConsiderCarries
  <2>. QED
    BY <1>2, <2>1, <2>4
<1>6. \A n \in 0..N : n \in T
  <2> HIDE DEF T
  <2>. QED
    BY <1>1, <1>4, <1>5, UpTo
<1>. QED
  BY <1>2, <1>6 DEF N, after

\* buildContextFromResults makes of any clean list a text that begins with the closest result,
\* repeats nothing, keeps to its limits and leaves nothing out for something farther away.
THEOREM ContextOfClean ==
    ASSUME NEW found \in Seq(Result), NEW conf \in Budget, NEW ranking \in Rankings(found),
           Clean(found, conf)
    PROVE  ContextFits(found, ranking, conf)
<1> DEFINE N == Len(found)
           best == found[ranking[1]].score
           parts == BuildContext(ranking, found, conf)
           c == Loop(ranking, found, conf, TRUE)[N]
<1>1. N \in Nat /\ DOMAIN found = 1..N
  BY LenProperties
<1>2. /\ Len(ranking) = N
      /\ \A k \in 1..N : ranking[k] \in DOMAIN found
      /\ \A i \in DOMAIN found : \E n \in 1..N : ranking[n] = i
      /\ \A m, n \in 1..N : m < n => found[ranking[m]].score <= found[ranking[n]].score
  BY Ranked, ElementOfSeq
<1>3. \A k \in 1..N : found[ranking[k]] \in Result /\ found[ranking[k]].score \in Int
  <2>1. ASSUME NEW k \in 1..N PROVE found[ranking[k]] \in Result
    BY <1>1, <1>2, ElementOfSeq
  <2>. QED
    BY <2>1 DEF Result
<1>4. conf.docs \in Nat \ {0} /\ conf.chars \in Nat /\ conf.delta \in Nat
  BY DEF Budget
<1>5. c \in Account /\ Carry(c, N, found, ranking, conf)
  <2>1. N \in 0..Len(found)
    BY <1>1
  <2>2. \A n \in 0..Len(found) : /\ Loop(ranking, found, conf, TRUE)[n] \in Account
                                 /\ Carry(Loop(ranking, found, conf, TRUE)[n], n, found, ranking, conf)
    BY LoopCarries
  <2>. QED
    BY <2>1, <2>2
<1>6. Take(ranking, found, conf) = c.parts
  BY <1>2 DEF Take
<1>7. CASE found = <<>>
  <2>1. parts = <<>>
    BY <1>7 DEF BuildContext
  <2>2. N = 0 /\ ToSet(found) = {} /\ DOMAIN parts = {} /\ Len(parts) = 0
    BY <1>7, <1>1, <2>1, EmptySeq DEF ToSet
  <2> HIDE DEF parts
  <2>. QED
    BY <1>4, <1>7, <2>1, <2>2 DEF ContextFits, parts
<1>8. CASE found # <<>>
  <2>1. N >= 1 /\ 1 \in 1..N
    BY <1>1, <1>8, EmptySeq
  <2>2. Trim(found[ranking[1]].content) # <<>>
    BY <1>2, <2>1 DEF Clean, Blank
  <2>3. parts = IF c.parts = <<>> THEN <<found[ranking[1]]>> ELSE c.parts
    BY <1>6, <1>8, <2>2 DEF BuildContext
  <2>4. ASSUME NEW r \in ToSet(found)
        PROVE  \E k \in 1..N : r = found[ranking[k]] /\ best <= r.score
    <3>1. PICK k \in 1..N : r = found[ranking[k]]
      BY <1>2 DEF ToSet
    <3>2. k = 1 \/ 1 < k
      BY <1>1
    <3>3. found[ranking[1]].score <= found[ranking[k]].score
      BY <1>2, <1>3, <2>1, <3>2
    <3>. QED
      BY <3>1, <3>3
  <2> HIDE DEF N, parts, c
  <2>5. CASE c.parts = <<>>
    <3>1. parts = <<found[ranking[1]]>>
      BY <2>3, <2>5
    <3>2. Len(parts) = 1 /\ DOMAIN parts = {1} /\ parts[1] = found[ranking[1]] /\ parts # <<>>
          /\ ToSet(parts) = {found[ranking[1]]}
      BY <3>1 DEF ToSet
    <3>. QED
      BY <1>4, <2>4, <3>2 DEF ContextFits, parts
  <2>6. CASE c.parts # <<>>
    <3>1. parts = c.parts
      BY <2>3, <2>6
    <3>2. parts \in Seq(Result) /\ Len(parts) \in Nat /\ DOMAIN parts = 1..Len(parts)
      BY <1>5, <3>1, LenProperties DEF Account
    <3>3. parts[1] = found[ranking[1]]
      BY <1>5, <2>6, <3>1 DEF Carry, Led
    <3>4. Len(parts) <= conf.docs /\ PartsChars(parts, conf)[Len(parts)] <= conf.chars
      BY <1>5, <3>1 DEF Carry, Bounded
    <3>5. ContextChars(parts, conf) <= conf.chars + 2 * (Len(parts) - 1)
      <4>1. PartsChars(parts, conf)[Len(parts)] \in Nat
        BY <3>2, PartsCharsRun
      <4>. QED
        BY <1>4, <2>6, <3>1, <3>2, <3>4, <4>1 DEF ContextChars
    <3>6. \A m, l \in DOMAIN parts : m # l => ~ Twins(parts[m], parts[l], conf)
      BY <1>5, <3>1 DEF Carry, Apart
    <3>7. ASSUME NEW r \in ToSet(found) \ ToSet(parts), NEW p \in ToSet(parts) PROVE p.score <= r.score
      <4>1. PICK k \in 1..N : r = found[ranking[k]]
        BY <2>4
      <4>2. PICK m \in DOMAIN parts : p = parts[m]
        BY DEF ToSet
      <4>3. PICK l \in 1..N : p = found[ranking[l]] /\ ~ Far(p, best, conf)
        BY <1>5, <3>1, <4>2 DEF Carry, FromRanks
      <4>4. Far(r, best, conf) \/ p.score <= r.score
        BY <1>5, <3>1, <4>1, <4>2 DEF Carry, Looked, ToSet
      <4>. QED
        BY <1>3, <1>4, <2>1, <4>1, <4>3, <4>4 DEF Far
    <3>8. \A r \in ToSet(found) : parts[1].score <= r.score
      BY <2>4, <3>3
    <3>9. /\ found # <<>> => parts # <<>> /\ \A r \in ToSet(found) : parts[1].score <= r.score
          /\ Len(parts) <= conf.docs
          /\ Len(parts) > 1 => ContextChars(parts, conf) <= conf.chars + 2 * (Len(parts) - 1)
          /\ \A m, n \in DOMAIN parts : m # n => ~ Twins(parts[m], parts[n], conf)
          /\ \A r \in ToSet(found) \ ToSet(parts), p \in ToSet(parts) : p.score <= r.score
      BY <2>6, <3>1, <3>4, <3>5, <3>6, <3>7, <3>8
    <3>. QED
      BY <3>9 DEF ContextFits, parts
  <2>. QED
    BY <2>5, <2>6
<1>. QED
  BY <1>7, <1>8

-----------------------------------------------------------------------------
(* What limitSearchResultsByScore keeps, and filterSearchResults of that.  *)

\* Near enough and not blank, and those that are the first of their hash.
Fitting(results, conf, i) == ~ Far(results[i], results[1].score, conf) /\ ~ Blank(results[i])
Firsts(results, conf) ==
    {i \in DOMAIN results :
        Fitting(results, conf, i)
        /\ ~ \E j \in 1..(i - 1) : Fitting(results, conf, j) /\ Twins(results[i], results[j], conf)}

\* h says where in the results what is kept of the first n comes from: it is the firsts of them, in
\* their order.
Picks(h, q, n, results, conf) ==
    /\ h \in [1..Len(q) -> Firsts(results, conf) \cap (1..n)]
    /\ \A m, l \in 1..Len(q) : m < l => h[m] < h[l]
    /\ \A i \in Firsts(results, conf) \cap (1..n) : \E m \in 1..Len(q) : h[m] = i
    /\ \A m \in 1..Len(q) : q[m] = results[h[m]]

\* A fitting result that is not a first is a twin of what was kept before it.
Covered(q, n, results, conf) ==
    \A j \in 1..n : Fitting(results, conf, j) => \E m \in 1..Len(q) : Twins(results[j], q[m], conf)

LEMMA LimitPicks ==
    ASSUME NEW results \in Seq(Result), NEW conf
    PROVE  /\ LimitByScore(results, conf) \in Seq(Result)
           /\ \E h : Picks(h, LimitByScore(results, conf), Len(results), results, conf)
<1> DEFINE N == Len(results)
           kept == LimitSteps(results, conf)
           T == {n \in 0..N : /\ \E h : Picks(h, kept[n], n, results, conf)
                              /\ Covered(kept[n], n, results, conf)}
<1>1. N \in Nat /\ 0 \in 0..N /\ N \in 0..N /\ DOMAIN results = 1..N
  BY LenProperties
<1>2. /\ kept \in [0..N -> Seq(Result)]
      /\ kept[0] = <<>>
      /\ \A n \in 1..N : kept[n] = IF Skip(results[n], kept[n - 1], results[1].score, conf) THEN kept[n - 1]
                                   ELSE Append(kept[n - 1], results[n])
  BY LimitStepsRun
<1> HIDE DEF N, kept
<1>3. 0 \in T
  <2>1. Picks(<<>>, <<>>, 0, results, conf)
    <3>1. Len(<<>>) = 0 /\ 1..0 = {}
      OBVIOUS
    <3>. QED
      BY <3>1 DEF Picks
  <2>2. Covered(<<>>, 0, results, conf)
    BY DEF Covered
  <2>. QED
    BY <1>1, <1>2, <2>1, <2>2
<1>4. ASSUME NEW n \in 1..N, n - 1 \in T PROVE n \in T
  <2> DEFINE q == kept[n - 1]
             L == Len(q)
             r == results[n]
  <2>1. n \in 0..N /\ n - 1 \in 0..N /\ n \in Nat /\ n \in DOMAIN results
    BY <1>1
  <2>2. q \in Seq(Result) /\ L \in Nat /\ DOMAIN q = 1..L /\ r \in Result
    <3>1. q \in Seq(Result)
      BY <1>2, <2>1
    <3>2. r \in Result
      BY <2>1, <1>1, ElementOfSeq
    <3>. QED
      BY <3>1, <3>2, LenProperties
  <2>3. PICK h : Picks(h, q, n - 1, results, conf)
    BY <1>4
  <2>4. Covered(q, n - 1, results, conf)
    BY <1>4
  <2>5. kept[n] = IF Skip(r, q, results[1].score, conf) THEN q ELSE Append(q, r)
    BY <1>2
  <2> HIDE DEF q, L, T
  <2>6. ToSet(q) = {q[m] : m \in 1..L}
    BY <2>2 DEF ToSet
  <2>7. CASE Skip(r, q, results[1].score, conf)
    <3>1. kept[n] = q
      BY <2>5, <2>7
    <3>2. Fitting(results, conf, n) => \E m \in 1..L : Twins(r, q[m], conf)
      BY <2>6, <2>7 DEF Skip, Fitting
    <3>3. n \notin Firsts(results, conf)
      <4>1. SUFFICES ASSUME Fitting(results, conf, n)
                     PROVE  \E j \in 1..(n - 1) : Fitting(results, conf, j) /\ Twins(r, results[j], conf)
        BY DEF Firsts
      <4>2. PICK m \in 1..L : Twins(r, q[m], conf)
        BY <3>2, <4>1
      <4>3. h[m] \in Firsts(results, conf) \cap (1..(n - 1)) /\ q[m] = results[h[m]]
        BY <2>3, <4>2 DEF Picks, L
      <4>. QED
        BY <4>2, <4>3 DEF Firsts
    <3>4. Firsts(results, conf) \cap (1..n) = Firsts(results, conf) \cap (1..(n - 1))
      BY <2>1, <3>3
    <3>5. Picks(h, q, n, results, conf)
      BY <2>3, <3>4 DEF Picks
    <3>6. Covered(q, n, results, conf)
      <4>1. ASSUME NEW j \in 1..n, Fitting(results, conf, j)
            PROVE  \E m \in 1..L : Twins(results[j], q[m], conf)
        <5>1. CASE j = n
          BY <3>2, <4>1, <5>1
        <5>2. CASE j \in 1..(n - 1)
          BY <2>4, <4>1, <5>2 DEF Covered, L
        <5>. QED
          BY <2>1, <5>1, <5>2
      <4>. QED
        BY <4>1 DEF Covered, L
    <3>. QED
      BY <2>1, <3>1, <3>5, <3>6 DEF T
  <2>8. CASE ~ Skip(r, q, results[1].score, conf)
    <3> DEFINE d == Append(q, r)
               g == [m \in 1..(L + 1) |-> IF m = L + 1 THEN n ELSE h[m]]
    <3>1. kept[n] = d
      BY <2>5, <2>8
    <3>2. /\ Len(d) = L + 1 /\ d[L + 1] = r
          /\ \A m \in 1..L : d[m] = q[m]
      <4> HIDE DEF r
      <4>. QED
        BY <2>2, AppendProperties DEF L
    <3>3. Fitting(results, conf, n) /\ \A m \in 1..L : ~ Twins(r, q[m], conf)
      BY <2>6, <2>8 DEF Skip, Fitting
    <3>4. ASSUME NEW j \in 1..(n - 1), Fitting(results, conf, j) PROVE ~ Twins(r, results[j], conf)
      <4>1. PICK m \in 1..L : Twins(results[j], q[m], conf)
        BY <2>4, <3>4 DEF Covered, L
      <4>. QED
        BY <3>3, <4>1 DEF Twins
    <3>5. n \in Firsts(results, conf)
      BY <2>1, <3>3, <3>4 DEF Firsts
    <3>6. /\ \A m \in 1..L : h[m] \in Firsts(results, conf) \cap (1..(n - 1)) /\ q[m] = results[h[m]]
          /\ \A m, l \in 1..L : m < l => h[m] < h[l]
          /\ \A i \in Firsts(results, conf) \cap (1..(n - 1)) : \E m \in 1..L : h[m] = i
      BY <2>3 DEF Picks, L
    <3>7. g[L + 1] = n /\ \A m \in 1..L : g[m] = h[m]
      BY <2>2
    <3> HIDE DEF d, g, r
    <3>8. \A m \in 1..(L + 1) : m = L + 1 \/ m \in 1..L
      BY <2>2
    <3>9. L + 1 \in 1..(L + 1) /\ \A m \in 1..L : m \in 1..(L + 1)
      BY <2>2
    <3>10. g \in [1..(L + 1) -> Firsts(results, conf) \cap (1..n)]
      <4>1. \A m \in 1..(L + 1) : g[m] \in Firsts(results, conf) \cap (1..n)
        BY <2>1, <3>5, <3>6, <3>7, <3>8
      <4>. QED
        BY <4>1 DEF g
    <3>11. ASSUME NEW m \in 1..(L + 1), NEW l \in 1..(L + 1), m < l PROVE g[m] < g[l]
      <4>1. m \in 1..L
        BY <2>2, <3>11
      <4>2. CASE l = L + 1
        BY <2>1, <3>6, <3>7, <4>1, <4>2
      <4>3. CASE l \in 1..L
        BY <3>6, <3>7, <3>11, <4>1, <4>3
      <4>. QED
        BY <3>8, <4>2, <4>3
    <3>12. ASSUME NEW i \in Firsts(results, conf) \cap (1..n) PROVE \E m \in 1..(L + 1) : g[m] = i
      <4>1. CASE i = n
        BY <3>7, <3>9, <4>1
      <4>2. CASE i \in 1..(n - 1)
        BY <3>6, <3>7, <3>9, <4>2
      <4>. QED
        BY <2>1, <4>1, <4>2
    <3>13. \A m \in 1..(L + 1) : d[m] = results[g[m]]
      BY <3>2, <3>6, <3>7, <3>8 DEF r
    <3>14. Picks(g, d, n, results, conf)
      BY <3>2, <3>10, <3>11, <3>12, <3>13 DEF Picks
    <3>15. Covered(d, n, results, conf)
      <4>1. ASSUME NEW j \in 1..n, Fitting(results, conf, j)
            PROVE  \E m \in 1..(L + 1) : Twins(results[j], d[m], conf)
        <5>1. CASE j = n
          BY <3>2, <3>9, <5>1 DEF Twins, r
        <5>2. CASE j \in 1..(n - 1)
          <6>1. PICK m \in 1..L : Twins(results[j], q[m], conf)
            BY <2>4, <4>1, <5>2 DEF Covered, L
          <6>. QED
            BY <3>2, <3>9, <6>1
        <5>. QED
          BY <2>1, <5>1, <5>2
      <4>. QED
        BY <3>2, <4>1 DEF Covered
    <3>. QED
      BY <2>1, <3>1, <3>14, <3>15 DEF T
  <2>. QED
    BY <2>7, <2>8
<1>5. \A n \in 0..N : n \in T
  <2> HIDE DEF T
  <2>. QED
    BY <1>1, <1>3, <1>4, UpTo
<1>6. LimitByScore(results, conf) = kept[N]
  BY DEF LimitByScore, kept, N
<1>. QED
  BY <1>1, <1>2, <1>5, <1>6 DEF N

\* The terms of a query are finitely many.
LEMMA FiniteImage ==
    ASSUME NEW S, IsFiniteSet(S), NEW f, DOMAIN f = S, f = [x \in S |-> f[x]]
    PROVE  IsFiniteSet({f[x] : x \in S})
<1> DEFINE T == {f[x] : x \in S}
<1>1. f \in [S -> T]
  BY Zenon
<1>2. \A t \in T : \E x \in S : f[x] = t
  OBVIOUS
<1> HIDE DEF T
<1>3. f \in Surjection(S, T)
  BY <1>1, <1>2 DEF Surjection
<1>4. IsFiniteSet(T)
  BY <1>3, FS_Surjection
<1>. QED
  BY <1>4 DEF T

LEMMA FiniteTerms ==
    ASSUME NEW asked \in Seq(Chars)
    PROVE  IsFiniteSet(ChineseTerms(asked))
<1> DEFINE R == Runs(asked, Han)
           At(run, size) == {SubSeq(asked, i, i + size - 1) : i \in run[1]..(run[2] - size + 1)}
           f == [p \in R \X (2..4) |-> At(p[1], p[2])]
           All == {f[p] : p \in R \X (2..4)}
<1>1. Len(asked) \in Nat
  BY LenProperties
<1>2. IsFiniteSet(R) /\ R \in SUBSET ((1..Len(asked)) \X (1..Len(asked)))
  <2>1. R \in SUBSET ((1..Len(asked)) \X (1..Len(asked)))
    BY DEF Runs
  <2>2. IsFiniteSet((1..Len(asked)) \X (1..Len(asked)))
    <3>1. IsFiniteSet(1..Len(asked))
      BY <1>1, FS_Interval
    <3>. QED
      BY <3>1, FS_Product
  <2> HIDE DEF R
  <2>. QED
    BY <2>1, <2>2, FS_Subset
<1>3. ASSUME NEW run \in R, NEW size \in 2..4 PROVE IsFiniteSet(At(run, size))
  <2> DEFINE D == run[1]..(run[2] - size + 1)
             g == [i \in D |-> SubSeq(asked, i, i + size - 1)]
  <2>1. run[1] \in Int /\ run[2] - size + 1 \in Int
    BY <1>1, <1>2
  <2>2. IsFiniteSet(D)
    BY <2>1, FS_Interval
  <2>3. DOMAIN g = D /\ g = [i \in D |-> g[i]]
    OBVIOUS
  <2>4. At(run, size) = {g[i] : i \in D}
    OBVIOUS
  <2> HIDE DEF D, g, At
  <2>. QED
    BY <2>2, <2>3, <2>4, FiniteImage
<1>4. ChineseTerms(asked) \subseteq UNION All
  <2>1. ASSUME NEW t \in ChineseTerms(asked) PROVE \E T \in All : t \in T
    <3>1. PICK run \in R, size \in 2..4 : t \in At(run, size)
      BY DEF ChineseTerms
    <3>2. <<run, size>> \in R \X (2..4) /\ f[<<run, size>>] = At(run, size)
      OBVIOUS
    <3> HIDE DEF f, R, At
    <3>. QED
      BY <3>1, <3>2
  <2>. QED
    BY <2>1
<1>5. IsFiniteSet(All)
  <2>1. IsFiniteSet(2..4)
    <3>1. \A a, b \in Int : IsFiniteSet(a..b)
      BY FS_Interval, Zenon
    <3>2. 2 \in Int /\ 4 \in Int
      OBVIOUS
    <3>. QED
      BY <3>1, <3>2, Zenon
  <2>2. IsFiniteSet(R \X (2..4))
    BY <1>2, <2>1, FS_Product
  <2>3. DOMAIN f = R \X (2..4) /\ f = [p \in R \X (2..4) |-> f[p]]
    OBVIOUS
  <2> DEFINE D == R \X (2..4)
  <2>4. IsFiniteSet(D) /\ DOMAIN f = D /\ f = [p \in D |-> f[p]]
    BY <2>2, <2>3
  <2> HIDE DEF f, D
  <2>5. IsFiniteSet({f[p] : p \in D})
    BY <2>4, FiniteImage
  <2>. QED
    BY <2>5 DEF D
<1>6. \A T \in All : IsFiniteSet(T)
  <2> HIDE DEF At, R
  <2>. QED
    BY <1>3
<1> HIDE DEF All
<1>7. IsFiniteSet(UNION All)
  BY <1>5, <1>6, FS_UNION
<1>. QED
  BY <1>4, <1>7, FS_Subset

\* Of the places I of a list: those with a structured term if the query has any, of these those with
\* a Chinese one, and what filterSearchResults keeps; and how many Chinese terms a result has.
Matched(I, list, asked, conf) ==
    {i \in I : StructuredTerms(asked, conf) = {} \/ TermsIn(list[i], StructuredTerms(asked, conf)) # {}}
Evident(I, list, asked, conf) ==
    {i \in Matched(I, list, asked, conf) : TermsIn(list[i], ChineseTerms(asked)) # {}}
KeptOf(I, list, asked, conf) ==
    IF Evident(I, list, asked, conf) = {} THEN Matched(I, list, asked, conf)
    ELSE Evident(I, list, asked, conf)
Weight(r, asked) == Cardinality(TermsIn(r, ChineseTerms(asked)))

SiftOrder(closest, asked, conf) ==
    IF Evident(DOMAIN closest, closest, asked, conf) = {}
    THEN InOrder(Matched(DOMAIN closest, closest, asked, conf),
                 Earlier(Matched(DOMAIN closest, closest, asked, conf)))
    ELSE InOrder(Evident(DOMAIN closest, closest, asked, conf),
                 ByEvidence(Evident(DOMAIN closest, closest, asked, conf), closest, ChineseTerms(asked)))

LEMMA WeightType ==
    ASSUME NEW asked \in Seq(Chars), NEW r
    PROVE  Weight(r, asked) \in Nat
<1>1. TermsIn(r, ChineseTerms(asked)) \in SUBSET ChineseTerms(asked)
  BY DEF TermsIn
<1>2. IsFiniteSet(TermsIn(r, ChineseTerms(asked)))
  BY <1>1, FiniteTerms, FS_Subset
<1>. QED
  BY <1>2, FS_CardinalityType DEF Weight

LEMMA EarlierIsStrict ==
    ASSUME NEW n \in Nat, NEW S \in SUBSET (1..n)
    PROVE  StrictOrder(S, Earlier(S)) /\ \A i, j \in S : <<i, j>> \in Earlier(S) => i < j
<1>1. \A i, j \in S : <<i, j>> \in Earlier(S) <=> i < j
  BY DEF Earlier
<1>2. \A i \in S : i \in Int
  OBVIOUS
<1>. QED
  BY <1>1, <1>2 DEF StrictOrder

LEMMA ByEvidenceIsStrict ==
    ASSUME NEW closest \in Seq(Result), NEW asked \in Seq(Chars), NEW S \in SUBSET DOMAIN closest
    PROVE  /\ StrictOrder(S, ByEvidence(S, closest, ChineseTerms(asked)))
           /\ \A i, j \in S : <<i, j>> \in ByEvidence(S, closest, ChineseTerms(asked)) =>
                \/ Weight(closest[i], asked) > Weight(closest[j], asked)
                \/ /\ Weight(closest[i], asked) = Weight(closest[j], asked)
                   /\ closest[i].score <= closest[j].score
<1> DEFINE before == ByEvidence(S, closest, ChineseTerms(asked))
           W == [i \in S |-> Weight(closest[i], asked)]
           C == [i \in S |-> closest[i].score]
<1>1. \A i, j \in S : <<i, j>> \in before <=>
          \/ W[i] > W[j]
          \/ W[i] = W[j] /\ (C[i] < C[j] \/ (C[i] = C[j] /\ i < j))
  <2>1. ASSUME NEW i \in S, NEW j \in S
        PROVE  <<i, j>> \in before <=>
                 \/ Weight(closest[i], asked) > Weight(closest[j], asked)
                 \/ /\ Weight(closest[i], asked) = Weight(closest[j], asked)
                    /\ \/ closest[i].score < closest[j].score
                       \/ closest[i].score = closest[j].score /\ i < j
    BY DEF ByEvidence, Weight
  <2> HIDE DEF before
  <2>. QED
    BY <2>1
<1>2. \A i \in S : W[i] \in Int /\ C[i] \in Int /\ i \in Int
  <2>1. ASSUME NEW i \in S PROVE closest[i] \in Result /\ i \in Int
    BY ElementOfSeq, LenProperties
  <2>. QED
    BY <2>1, WeightType DEF Result
<1>3. \A i \in S : W[i] = Weight(closest[i], asked) /\ C[i] = closest[i].score
  OBVIOUS
<1> HIDE DEF before, W, C
<1>4. StrictOrder(S, before)
  <2>1. \A i \in S : <<i, i>> \notin before
    BY <1>1, <1>2
  <2>2. ASSUME NEW i \in S, NEW j \in S, NEW k \in S, <<i, j>> \in before, <<j, k>> \in before
        PROVE  <<i, k>> \in before
    <3>1. /\ W[i] \in Int /\ W[j] \in Int /\ W[k] \in Int /\ C[i] \in Int /\ C[j] \in Int
          /\ C[k] \in Int /\ i \in Int /\ j \in Int /\ k \in Int
      BY <1>2
    <3>2. W[i] > W[j] \/ (W[i] = W[j] /\ (C[i] < C[j] \/ (C[i] = C[j] /\ i < j)))
      BY <1>1, <2>2
    <3>3. W[j] > W[k] \/ (W[j] = W[k] /\ (C[j] < C[k] \/ (C[j] = C[k] /\ j < k)))
      BY <1>1, <2>2
    <3>4. W[i] > W[k] \/ (W[i] = W[k] /\ (C[i] < C[k] \/ (C[i] = C[k] /\ i < k)))
      BY <3>1, <3>2, <3>3
    <3>. QED
      BY <1>1, <3>4
  <2>3. ASSUME NEW i \in S, NEW j \in S, i # j PROVE <<i, j>> \in before \/ <<j, i>> \in before
    <3>1. W[i] \in Int /\ W[j] \in Int /\ C[i] \in Int /\ C[j] \in Int /\ i \in Int /\ j \in Int
      BY <1>2
    <3>2. \/ W[i] > W[j] \/ (W[i] = W[j] /\ (C[i] < C[j] \/ (C[i] = C[j] /\ i < j)))
          \/ W[j] > W[i] \/ (W[j] = W[i] /\ (C[j] < C[i] \/ (C[j] = C[i] /\ j < i)))
      BY <2>3, <3>1
    <3>. QED
      BY <1>1, <3>2
  <2>. QED
    BY <2>1, <2>2, <2>3 DEF StrictOrder
<1>5. ASSUME NEW i \in S, NEW j \in S, <<i, j>> \in before
      PROVE  W[i] > W[j] \/ (W[i] = W[j] /\ C[i] <= C[j])
  <2>1. W[i] > W[j] \/ (W[i] = W[j] /\ (C[i] < C[j] \/ (C[i] = C[j] /\ i < j)))
    BY <1>1, <1>5
  <2>2. C[i] \in Int /\ C[j] \in Int
    BY <1>2
  <2>. QED
    BY <2>1, <2>2
<1>. QED
  BY <1>3, <1>4, <1>5 DEF before

\* Each result kept has one place in the answer: with Chinese terms in the order of evidence,
\* without as it was found.
LEMMA Sifted ==
    ASSUME NEW closest \in Seq(Result), NEW asked \in Seq(Chars), NEW conf,
           NEW S, S = KeptOf(DOMAIN closest, closest, asked, conf),
           NEW order, order = SiftOrder(closest, asked, conf)
    PROVE  /\ S \subseteq DOMAIN closest /\ IsFiniteSet(S) /\ Cardinality(S) \in Nat
           /\ order \in [1..Cardinality(S) -> S]
           /\ \A i \in S : \E n \in 1..Cardinality(S) : order[n] = i
           /\ \A m, n \in 1..Cardinality(S) : m # n => order[m] # order[n]
           /\ \A m, n \in 1..Cardinality(S) : m < n =>
                \/ Weight(closest[order[m]], asked) > Weight(closest[order[n]], asked)
                \/ /\ Weight(closest[order[m]], asked) = Weight(closest[order[n]], asked)
                   /\ \/ closest[order[m]].score <= closest[order[n]].score
                      \/ order[m] < order[n]
<1> DEFINE E == Evident(DOMAIN closest, closest, asked, conf)
           M == Matched(DOMAIN closest, closest, asked, conf)
           before == IF E = {} THEN Earlier(S) ELSE ByEvidence(S, closest, ChineseTerms(asked))
           N == Cardinality(S)
<1>1. Len(closest) \in Nat /\ DOMAIN closest = 1..Len(closest) /\ IsFiniteSet(DOMAIN closest)
  <2>1. Len(closest) \in Nat /\ DOMAIN closest = 1..Len(closest)
    BY LenProperties
  <2>. QED
    BY <2>1, FS_Interval
<1>2. S = (IF E = {} THEN M ELSE E) /\ order = InOrder(S, before)
  BY DEF KeptOf, SiftOrder
<1>3. S \subseteq DOMAIN closest /\ IsFiniteSet(S)
  <2>1. M \subseteq DOMAIN closest /\ E \subseteq M
    BY DEF Matched, Evident
  <2> HIDE DEF M, E
  <2>2. S \in SUBSET DOMAIN closest
    BY <1>2, <2>1
  <2>. QED
    BY <1>1, <2>2, FS_Subset
<1> HIDE DEF before
<1>4. StrictOrder(S, before)
  BY <1>1, <1>3, EarlierIsStrict, ByEvidenceIsStrict DEF before
<1>5. /\ N \in Nat
      /\ order \in [1..N -> S]
      /\ \A i \in S : \E n \in 1..N : order[n] = i
      /\ \A m, n \in 1..N : m < n => <<order[m], order[n]>> \in before
  <2>1. /\ Cardinality(S) \in Nat
        /\ InOrder(S, before) \in [1..Cardinality(S) -> S]
        /\ \A i \in S : \E n \in 1..Cardinality(S) : InOrder(S, before)[n] = i
        /\ \A m, n \in 1..Cardinality(S) :
             m < n => <<InOrder(S, before)[m], InOrder(S, before)[n]>> \in before
    BY <1>3, <1>4, PlacesInOrder
  <2>. QED
    BY <1>2, <2>1
<1> HIDE DEF N
<1>6. ASSUME NEW m \in 1..N, NEW n \in 1..N, m # n PROVE order[m] # order[n]
  <2>1. m < n \/ n < m
    BY <1>5, <1>6
  <2>2. order[m] \in S /\ order[n] \in S
    BY <1>5
  <2>. QED
    BY <1>4, <1>5, <2>1, <2>2 DEF StrictOrder
<1>7. ASSUME NEW i \in S, NEW j \in S, <<i, j>> \in before
      PROVE  \/ Weight(closest[i], asked) > Weight(closest[j], asked)
             \/ /\ Weight(closest[i], asked) = Weight(closest[j], asked)
                /\ closest[i].score <= closest[j].score \/ i < j
  <2>1. CASE E = {}
    <3>1. i < j
      BY <1>1, <1>3, <1>7, <2>1, EarlierIsStrict DEF before
    <3>2. TermsIn(closest[i], ChineseTerms(asked)) = {} /\ TermsIn(closest[j], ChineseTerms(asked)) = {}
      BY <1>2, <2>1 DEF Evident
    <3>. QED
      BY <3>1, <3>2 DEF Weight
  <2>2. CASE E # {}
    BY <1>3, <1>7, <2>2, ByEvidenceIsStrict DEF before
  <2>. QED
    BY <2>1, <2>2
<1>. QED
  BY <1>3, <1>5, <1>6, <1>7 DEF N

\* What filterSearchResults returns, place by place.
LEMMA Returns ==
    ASSUME NEW results \in Seq(Result), NEW asked \in Seq(Chars), NEW conf,
           NEW closest, closest = LimitByScore(results, conf),
           NEW S, S = KeptOf(DOMAIN closest, closest, asked, conf),
           NEW order, order = SiftOrder(closest, asked, conf),
           NEW out, out = FilterSearchResults(asked, results, conf)
    PROVE  /\ out \in Seq(Result) /\ Len(out) = Cardinality(S) /\ DOMAIN out = 1..Cardinality(S)
           /\ \A n \in 1..Cardinality(S) : out[n] = closest[order[n]]
<1>1. closest \in Seq(Result)
  BY LimitPicks
<1>2. S \subseteq DOMAIN closest /\ Cardinality(S) \in Nat /\ order \in [1..Cardinality(S) -> S]
  BY <1>1, Sifted
<1>3. out = [n \in DOMAIN order |-> closest[order[n]]]
  BY DEF FilterSearchResults, SiftOrder, Matched, Evident
<1>4. \A n \in 1..Cardinality(S) : closest[order[n]] \in Result
  <2>1. ASSUME NEW i \in S PROVE closest[i] \in Result
    BY <1>1, <1>2, ElementOfSeq, LenProperties
  <2>. QED
    BY <1>2, <2>1
<1>5. out = [n \in 1..Cardinality(S) |-> closest[order[n]]]
  BY <1>2, <1>3
<1>6. out \in Seq(Result)
  BY <1>2, <1>4, <1>5
<1>. QED
  BY <1>2, <1>5, <1>6, LenProperties

\* It is clean.
LEMMA FilterCleans ==
    ASSUME NEW results \in Seq(Result), NEW asked \in Seq(Chars), NEW conf
    PROVE  /\ FilterSearchResults(asked, results, conf) \in Seq(Result)
           /\ Clean(FilterSearchResults(asked, results, conf), conf)
<1> DEFINE closest == LimitByScore(results, conf)
           S == KeptOf(DOMAIN closest, closest, asked, conf)
           order == SiftOrder(closest, asked, conf)
           out == FilterSearchResults(asked, results, conf)
           N == Cardinality(S)
<1>1. closest \in Seq(Result)
  BY LimitPicks
<1>2. PICK h : Picks(h, closest, Len(results), results, conf)
  BY LimitPicks
<1>3. DOMAIN closest = 1..Len(closest) /\ Len(closest) \in Nat /\ Len(results) \in Nat
  BY <1>1, LenProperties
<1>4. out \in Seq(Result) /\ DOMAIN out = 1..N /\ \A n \in 1..N : out[n] = closest[order[n]]
  BY Returns
<1>5. /\ S \subseteq DOMAIN closest /\ order \in [1..N -> S]
      /\ \A m, n \in 1..N : m # n => order[m] # order[n]
  <2> HIDE DEF closest
  <2>. QED
    BY <1>1, Sifted
<1> HIDE DEF closest, S, order, out, N
<1>6. ASSUME NEW m \in 1..Len(closest)
      PROVE  h[m] \in Firsts(results, conf) /\ h[m] \in 1..Len(results) /\ closest[m] = results[h[m]]
  BY <1>2 DEF Picks
<1>7. \A i \in Firsts(results, conf) : ~ Blank(results[i]) /\ Fitting(results, conf, i)
  BY DEF Firsts, Fitting
<1>8. ASSUME NEW m \in 1..Len(closest), NEW l \in 1..Len(closest), m # l
      PROVE  ~ Twins(closest[m], closest[l], conf)
  <2>1. \A i, j \in Firsts(results, conf) : i < j => ~ Twins(results[j], results[i], conf)
    <3>1. \A i, j \in Firsts(results, conf) : i < j => i \in 1..(j - 1)
      BY <1>3, LenProperties DEF Firsts
    <3>. QED
      BY <1>7, <3>1 DEF Firsts
  <2>2. m < l \/ l < m
    BY <1>3, <1>8
  <2>3. h[m] < h[l] \/ h[l] < h[m]
    BY <1>2, <2>2 DEF Picks
  <2>. QED
    BY <1>6, <2>1, <2>3 DEF Twins
<1>9. \A n \in 1..N : order[n] \in 1..Len(closest)
  BY <1>3, <1>5
<1>10. \A n \in 1..N : ~ Blank(out[n])
  BY <1>4, <1>6, <1>7, <1>9
<1>11. ASSUME NEW m \in 1..N, NEW n \in 1..N, m # n PROVE ~ Twins(out[m], out[n], conf)
  BY <1>4, <1>5, <1>8, <1>9, <1>11
<1>12. Clean(out, conf)
  BY <1>4, <1>10, <1>11 DEF Clean
<1>. QED
  BY <1>4, <1>12 DEF out

\* Whatever a search returns, whatever is asked and however the service is configured, the text made
\* of what filterSearchResults keeps is sound.
THEOREM AnyContextIsSound ==
    ASSUME NEW asked \in Seq(Chars), NEW results \in Seq(Result), NEW conf \in Budget
    PROVE  ContextIsSound(asked, results, conf)
BY FilterCleans, ContextOfClean DEF ContextIsSound

\* filterSearchResults keeps, of any results in the order of their distance, exactly those that are
\* asked for, and in the order that is asked for.
THEOREM AnyIsFilteredAsAsked ==
    ASSUME NEW asked \in Seq(Chars), NEW results \in Seq(Result), NEW conf,
           \A i, j \in DOMAIN results : i < j => results[i].score <= results[j].score
    PROVE  FilteredAsAsked(asked, results, conf)
<1> DEFINE closest == LimitByScore(results, conf)
           S == KeptOf(DOMAIN closest, closest, asked, conf)
           order == SiftOrder(closest, asked, conf)
           out == FilterSearchResults(asked, results, conf)
           N == Cardinality(S)
           fit == Firsts(results, conf)
           kept == KeptOf(fit, results, asked, conf)
<1>1. closest \in Seq(Result)
  BY LimitPicks
<1>2. PICK h : Picks(h, closest, Len(results), results, conf)
  BY LimitPicks
<1>3. /\ DOMAIN closest = 1..Len(closest) /\ Len(closest) \in Nat
      /\ DOMAIN results = 1..Len(results) /\ Len(results) \in Nat
  BY <1>1, LenProperties
<1>4. DOMAIN out = 1..N /\ Len(out) = N /\ \A n \in 1..N : out[n] = closest[order[n]]
  BY Returns
<1>5. /\ S \subseteq DOMAIN closest /\ IsFiniteSet(S) /\ N \in Nat
      /\ order \in [1..N -> S]
      /\ \A i \in S : \E n \in 1..N : order[n] = i
      /\ \A m, n \in 1..N : m < n =>
           \/ Weight(closest[order[m]], asked) > Weight(closest[order[n]], asked)
           \/ /\ Weight(closest[order[m]], asked) = Weight(closest[order[n]], asked)
              /\ \/ closest[order[m]].score <= closest[order[n]].score
                 \/ order[m] < order[n]
  <2> HIDE DEF closest
  <2>. QED
    BY <1>1, Sifted
<1> HIDE DEF closest, order, out, N
<1>6. /\ \A m \in 1..Len(closest) : h[m] \in fit /\ closest[m] = results[h[m]]
      /\ \A m, l \in 1..Len(closest) : m < l => h[m] < h[l]
      /\ \A i \in fit : \E m \in 1..Len(closest) : h[m] = i
  <2>1. fit \subseteq 1..Len(results)
    BY <1>3 DEF Firsts
  <2>. QED
    BY <1>2, <2>1 DEF Picks
<1> HIDE DEF fit
<1>7. \A m \in 1..Len(closest) : m \in S <=> h[m] \in kept
  <2>1. \A m \in 1..Len(closest) : m \in Matched(DOMAIN closest, closest, asked, conf)
                                 <=> h[m] \in Matched(fit, results, asked, conf)
    BY <1>3, <1>6 DEF Matched
  <2>2. \A m \in 1..Len(closest) : m \in Evident(DOMAIN closest, closest, asked, conf)
                                 <=> h[m] \in Evident(fit, results, asked, conf)
    BY <1>6, <2>1 DEF Evident
  <2>3. Evident(DOMAIN closest, closest, asked, conf) = {} <=> Evident(fit, results, asked, conf) = {}
    <3>1. Evident(DOMAIN closest, closest, asked, conf) \subseteq 1..Len(closest)
          /\ Evident(fit, results, asked, conf) \subseteq fit
      BY <1>3 DEF Evident, Matched
    <3>. QED
      BY <1>6, <2>2, <3>1
  <2>. QED
    BY <2>1, <2>2, <2>3 DEF KeptOf
<1>8. kept \subseteq fit
  BY DEF KeptOf, Evident, Matched
<1> HIDE DEF S, kept
<1>9. Cardinality(kept) = N
  <2> DEFINE g == [m \in S |-> h[m]]
  <2>1. g \in [S -> kept]
    BY <1>3, <1>5, <1>7
  <2>2. ASSUME NEW m \in S, NEW l \in S, m # l PROVE g[m] # g[l]
    <3>1. m \in 1..Len(closest) /\ l \in 1..Len(closest) /\ h[m] \in fit /\ h[l] \in fit
      BY <1>3, <1>5, <1>6
    <3>2. m < l \/ l < m
      BY <1>3, <2>2, <3>1
    <3>3. h[m] < h[l] \/ h[l] < h[m]
      BY <1>6, <3>1, <3>2
    <3>4. h[m] \in Int /\ h[l] \in Int
      BY <1>3, <3>1 DEF fit, Firsts
    <3>. QED
      BY <3>3, <3>4
  <2>3. ASSUME NEW i \in kept PROVE \E m \in S : g[m] = i
    BY <1>6, <1>7, <1>8
  <2> HIDE DEF g
  <2>4. g \in Bijection(S, kept)
    BY <2>1, <2>2, <2>3 DEF Bijection, Injection, Surjection, IsInjective
  <2>. QED
    BY <1>5, <2>4, FS_Bijection DEF ExistsBijection, N
<1>10. ToSet(out) = {results[i] : i \in kept}
  <2>1. ASSUME NEW n \in 1..N PROVE \E i \in kept : out[n] = results[i]
    <3>1. order[n] \in S /\ order[n] \in 1..Len(closest)
      BY <1>3, <1>5
    <3>2. h[order[n]] \in kept /\ out[n] = results[h[order[n]]]
      BY <1>4, <1>6, <1>7, <3>1
    <3>. QED
      BY <3>2
  <2>2. ASSUME NEW i \in kept PROVE \E n \in 1..N : out[n] = results[i]
    <3>1. PICK m \in 1..Len(closest) : h[m] = i
      BY <1>6, <1>8
    <3>2. m \in S /\ closest[m] = results[i]
      BY <1>6, <1>7, <3>1
    <3>. QED
      BY <1>4, <1>5, <3>2
  <2>3. ToSet(out) = {out[n] : n \in 1..N}
    BY <1>4 DEF ToSet
  <2>4. {out[n] : n \in 1..N} = {results[i] : i \in kept}
    <3>1. ASSUME NEW x \in {out[n] : n \in 1..N} PROVE x \in {results[i] : i \in kept}
      BY <2>1
    <3>2. ASSUME NEW x \in {results[i] : i \in kept} PROVE x \in {out[n] : n \in 1..N}
      <4>1. PICK i \in kept : x = results[i]
        OBVIOUS
      <4>2. PICK n \in 1..N : out[n] = results[i]
        BY <2>2
      <4>. QED
        BY <4>1, <4>2
    <3>. QED
      BY <3>1, <3>2
  <2>. QED
    BY <2>3, <2>4
<1>11. ASSUME NEW m \in DOMAIN out, NEW n \in DOMAIN out, m < n
       PROVE  \/ Weight(out[m], asked) > Weight(out[n], asked)
              \/ Weight(out[m], asked) = Weight(out[n], asked) /\ out[m].score <= out[n].score
  <2>1. m \in 1..N /\ n \in 1..N /\ order[m] \in 1..Len(closest) /\ order[n] \in 1..Len(closest)
    BY <1>3, <1>4, <1>5
  <2>2. order[m] < order[n] => out[m].score <= out[n].score
    <3>1. SUFFICES ASSUME order[m] < order[n] PROVE out[m].score <= out[n].score
      OBVIOUS
    <3>2. h[order[m]] < h[order[n]] /\ h[order[m]] \in fit /\ h[order[n]] \in fit
      BY <1>6, <2>1, <3>1
    <3>3. results[h[order[m]]].score <= results[h[order[n]]].score
      BY <3>2 DEF fit, Firsts
    <3>. QED
      BY <1>4, <1>6, <2>1, <3>3
  <2>3. \/ Weight(closest[order[m]], asked) > Weight(closest[order[n]], asked)
        \/ /\ Weight(closest[order[m]], asked) = Weight(closest[order[n]], asked)
           /\ \/ closest[order[m]].score <= closest[order[n]].score
              \/ order[m] < order[n]
    BY <1>5, <1>11, <2>1
  <2>4. out[m] = closest[order[m]] /\ out[n] = closest[order[n]]
    BY <1>4, <2>1
  <2>. QED
    BY <2>2, <2>3, <2>4
<1>12. FilteredAsAsked(asked, results, conf)
  BY <1>4, <1>9, <1>10, <1>11
     DEF FilteredAsAsked, out, kept, KeptOf, Evident, Matched, fit, Firsts, Fitting, Weight
<1>. QED
  BY <1>12

-----------------------------------------------------------------------------
(* The properties of the runs, for any queries, results and limits.        *)

\* FilteredRight: filterSearchResults keeps exactly what is near enough, not blank, the first of its
\* hash and, where the query has terms that any result has, with such terms; most evidence first.
THEOREM Filters == Spec => []FilteredRight
<1>1. ASSUME NEW asked \in Asked, NEW found \in Returned, NEW conf \in Limits
      PROVE  FilteredAsAsked(asked, found, conf)
  <2>1. asked \in Seq(Chars) /\ found \in Seq(Result)
        /\ \A i, j \in DOMAIN found : i < j => found[i].score <= found[j].score
    BY AskedAssumption, ReturnedAssumption
  <2>. QED
    BY <2>1, AnyIsFilteredAsAsked
<1>2. FilteredRight
  BY <1>1 DEF FilteredRight
<1>. QED
  BY <1>2, PTL

\* ContextSound: the text for the model begins with the closest result, repeats nothing, keeps to its
\* limits and leaves nothing out for something farther away, in whatever order sort.Slice leaves equals.
THEOREM Contexts == Spec => []ContextSound
<1>1. ASSUME NEW asked \in Asked, NEW found \in Returned, NEW conf \in Limits
      PROVE  ContextIsSound(asked, found, conf)
  <2>1. asked \in Seq(Chars) /\ found \in Seq(Result) /\ conf \in Budget
    BY AskedAssumption, ReturnedAssumption, LimitsAssumption DEF Budget
  <2>. QED
    BY <2>1, AnyContextIsSound
<1>2. ContextSound
  BY <1>1 DEF ContextSound
<1>. QED
  BY <1>2, PTL

=============================================================================
