------------------------ MODULE KnowledgeStoreProofs ------------------------
(***************************************************************************)
(* Theorems about KnowledgeStore for any requests, queries and answers,    *)
(* any queue capacity, and any number of uploads and kills: its types;     *)
(* that with the persist queue no document is indexed twice and every      *)
(* indexed document is whole on disk; that the counters of the queue add   *)
(* up and its Close leaves nothing behind; and that a query of one         *)
(* generation is searched once at a time.                                  *)
(***************************************************************************)
EXTENDS KnowledgeStore, SequenceTheorems, FiniteSetTheorems, TLAPS

USE DEF requestVars, queueVars, saverVars, storeVars, worldVars

-----------------------------------------------------------------------------
(* Types.                                                                  *)

\* The end of a flight keeps the types of the requests: who followed it does so
\* no longer.
LEMMA LandTypes ==
    ASSUME RequestsOK, NEW r \in Requests, NEW how \in Over,
           pc[r] # "following", Land(r, how)
    PROVE  /\ pc' \in [Requests -> RequestPCs]
           /\ leader' \in [Requests -> Requests \cup {None}]
           /\ \A q \in Requests : leader'[q] # None <=> pc'[q] = "following"
<1>1. pc' \in [Requests -> RequestPCs]
  BY DEF Land, RequestsOK, RequestPCs
<1>2. leader' \in [Requests -> Requests \cup {None}]
  BY DEF Land, RequestsOK
<1>3. \A q \in Requests : leader'[q] # None <=> pc'[q] = "following"
  BY DEF Land, RequestsOK, FollowersOf, Over
<1> QED BY <1>1, <1>2, <1>3

\* A step of a request keeps the types of what requests keep.
LEMMA RequestTypes ==
    ASSUME TypeOK, NEW r \in Requests, Request(r)
    PROVE  RequestsOK'
<1> USE DEF TypeOK
<1>1. CASE ReadGeneration(r)
  BY <1>1, NoneAssumption DEF ReadGeneration, RequestsOK, RequestPCs, StoreOK
<1>2. CASE Lead(r)
  BY <1>2 DEF Lead, RequestsOK, RequestPCs, Leading
<1>3. CASE Follow(r)
  <2>1. Flights(r) \subseteq Requests
    BY DEF Flights
  <2> QED BY <1>3, <2>1, NoneAssumption DEF Follow, RequestsOK, RequestPCs
<1>4. CASE AnswerFit(r)
  BY <1>4 DEF AnswerFit, RequestsOK, RequestPCs, Leading
<1>5. CASE EnqueueOpen(r) \/ Send(r)
  BY <1>5 DEF EnqueueOpen, Send, RequestsOK, RequestPCs, Leading
<1>6. CASE SaveHere(r)
  BY <1>6 DEF SaveHere, RequestsOK, RequestPCs, Leading
<1>7. CASE SavedHere(r)
  <2>1. Land(r, "returned") /\ UNCHANGED <<query, gen, answer>>
    BY <1>7 DEF SavedHere
  <2>2. "returned" \in Over /\ pc[r] # "following"
    BY <1>7 DEF SavedHere, SaversOK, Over
  <2> QED BY <2>1, <2>2, LandTypes DEF RequestsOK
<1>8. CASE \/ SearchFails(r) \/ AnswerUnfit(r) \/ EnqueueClosed(r) \/ Count(r)
           \/ QueueFull(r) \/ SendPanics(r)
  <2>1. PICK how \in Over : Land(r, how)
    BY <1>8 DEF SearchFails, AnswerUnfit, EnqueueClosed, Count, QueueFull, SendPanics, Over
  <2>2. pc[r] # "following" /\ UNCHANGED <<query, gen, answer>>
    BY <1>8 DEF SearchFails, AnswerUnfit, EnqueueClosed, Count, QueueFull, SendPanics
  <2> QED BY <2>1, <2>2, LandTypes DEF RequestsOK
<1> QED BY <1>1, <1>2, <1>3, <1>4, <1>5, <1>6, <1>7, <1>8 DEF Request

\* A step of the saving itself leaves requests and queue alone and moves one
\* saver, keeping its job.
LEMMA SaveTypes ==
    ASSUME TypeOK, NEW s \in Savers, Save(s)
    PROVE  TypeOK'
<1> USE DEF TypeOK
<1>1. PICK where \in Working, err \in BOOLEAN : Go(s, where, err)
  BY Zenon DEF Save, StatFails, Skip, StatAbsent, OpenFails, Open, WriteFails, Write,
               IndexFails, Insert, Bump, Working
<1>2. spc[s] \in Working
  BY DEF Save, StatFails, Skip, StatAbsent, OpenFails, Open, WriteFails, Write,
         IndexFails, Insert, Bump, Working
<1>3. SaversOK'
  <2>1. spc' = [spc EXCEPT ![s] = where] /\ bad' = [bad EXCEPT ![s] = err]
    BY <1>1 DEF Go
  <2>2. UNCHANGED <<job, fate, pc>>
    BY <1>1 DEF Go
  <2>3. spc' \in [Savers -> SaverPCs] /\ bad' \in [Savers -> BOOLEAN]
    BY <2>1 DEF SaversOK, SaverPCs, Working
  <2>4. \A t \in Savers : job'[t] # None <=> spc'[t] \in Working
    BY <1>2, <2>1, <2>2 DEF SaversOK
  <2>5. \A r \in Requests : spc'[r] # "idle" => pc'[r] = "saving"
    BY <1>2, <2>1, <2>2 DEF SaversOK, Working, Savers
  <2> QED BY <2>2, <2>3, <2>4, <2>5 DEF SaversOK
<1>4. StoreOK'
  <2>1. CASE StatFails(s) \/ Skip(s) \/ StatAbsent(s) \/ OpenFails(s) \/ WriteFails(s)
    BY <2>1 DEF StatFails, Skip, StatAbsent, OpenFails, WriteFails, StoreOK
  <2>2. CASE Open(s) \/ Write(s)
    BY <2>2 DEF Open, Write, StoreOK
  <2>3. CASE IndexFails(s) \/ Insert(s)
    <3>1. \/ inserted' = inserted
          \/ inserted' = [inserted EXCEPT ![Saved(s)] = inserted[Saved(s)] + 1]
      BY <2>3 DEF IndexFails, Insert
    <3>2. \A n \in Nat : n + 1 \in Nat
      OBVIOUS
    <3>3. inserted' \in [Documents -> Nat]
      BY <3>1, <3>2 DEF StoreOK
    <3> QED BY <2>3, <3>3 DEF IndexFails, Insert, StoreOK
  <2>4. CASE Bump(s)
    BY <2>4 DEF Bump, StoreOK
  <2> QED BY <2>1, <2>2, <2>3, <2>4 DEF Save
<1>5. RequestsOK' /\ QueueOK' /\ WorldOK'
  BY <1>1 DEF Go, RequestsOK, QueueOK, WorldOK
<1> QED BY <1>3, <1>4, <1>5

\* A step of a request keeps the types of the queue, the savers and the store.
LEMMA RequestRestTypes ==
    ASSUME TypeOK, NEW r \in Requests, Request(r)
    PROVE  QueueOK' /\ SaversOK' /\ StoreOK' /\ WorldOK'
<1> USE DEF TypeOK
<1>1. QueueOK'
  <2>1. CASE Send(r)
    <3>1. queue' \in Seq(Requests) /\ Len(queue') = Len(queue) + 1
      BY <2>1, AppendProperties DEF Send, QueueOK
    <3>2. Len(queue) \in Nat /\ Len(queue) < QueueSize
      BY <2>1, LenProperties DEF Send, QueueOK
    <3>3. Len(queue') <= QueueSize
      BY <3>1, <3>2, QueueAssumption
    <3> QED BY <2>1, <3>1, <3>3 DEF Send, QueueOK
  <2>2. CASE ~Send(r)
    BY <2>2 DEF Request, ReadGeneration, Lead, Follow, SearchFails, AnswerUnfit,
                AnswerFit, EnqueueClosed, EnqueueOpen, Count, QueueFull, SendPanics,
                SaveHere, SavedHere, QueueOK
  <2> QED BY <2>1, <2>2
<1>2. SaversOK'
  <2>1. CASE SaveHere(r)
    BY <2>1, NoneAssumption, WorkerAssumption
       DEF SaveHere, SaversOK, SaverPCs, Working, Savers, RequestsOK
  <2>2. CASE SavedHere(r)
    <3>1. job' = [job EXCEPT ![r] = None] /\ bad' = [bad EXCEPT ![r] = FALSE]
          /\ spc' = [spc EXCEPT ![r] = "idle"] /\ fate' = fate
      BY <2>2 DEF SavedHere
    <3>2. \A q \in Requests \ {r} : pc[q] = "saving" => pc'[q] = "saving"
      BY <2>2 DEF SavedHere, Land, FollowersOf
    <3> QED BY <3>1, <3>2 DEF SaversOK, SaverPCs, Working, Savers
  <2>3. CASE ~SaveHere(r) /\ ~SavedHere(r)
    <3>1. UNCHANGED saverVars
      BY <2>3 DEF Request, ReadGeneration, Lead, Follow, SearchFails, AnswerUnfit,
                  AnswerFit, EnqueueClosed, EnqueueOpen, Send, Count, QueueFull,
                  SendPanics
    <3>2. \A q \in Requests : pc[q] = "saving" => pc'[q] = "saving"
      BY <2>3 DEF Request, ReadGeneration, Lead, Follow, SearchFails, AnswerUnfit,
                  AnswerFit, EnqueueClosed, EnqueueOpen, Send, Count, QueueFull,
                  SendPanics, Land, FollowersOf, RequestsOK
    <3> QED BY <3>1, <3>2 DEF SaversOK
  <2> QED BY <2>1, <2>2, <2>3
<1>3. UNCHANGED <<storeVars, generation, worldVars>>
  BY DEF Request, ReadGeneration, Lead, Follow, SearchFails, AnswerUnfit, AnswerFit,
         EnqueueClosed, EnqueueOpen, Send, Count, QueueFull, SendPanics, SaveHere,
         SavedHere
<1> QED BY <1>1, <1>2, <1>3 DEF StoreOK, WorldOK

\* The worker's own steps.
LEMMA WorkerTypes ==
    ASSUME TypeOK, Receive \/ Exit \/ Record
    PROVE  TypeOK'
<1> USE DEF TypeOK
<1>0. Worker \in Savers /\ Worker \notin Requests
  BY WorkerAssumption DEF Savers
<1>1. CASE Receive
  <2>1. queue \in Seq(Requests) /\ queue # <<>>
    BY <1>1 DEF Receive, QueueOK
  <2>2. Head(queue) \in Requests /\ Tail(queue) \in Seq(Requests)
        /\ Len(Tail(queue)) = Len(queue) - 1
    BY <2>1, HeadTailProperties
  <2>3. QueueOK'
    <3>1. queue' = Tail(queue) /\ UNCHANGED <<closed, closer, enqueued, dropped, failed>>
      BY <1>1 DEF Receive
    <3>2. Len(queue) \in Nat /\ Len(queue) <= QueueSize
      BY <2>1, LenProperties DEF QueueOK
    <3>3. Len(queue') <= QueueSize
      BY <2>2, <3>1, <3>2, QueueAssumption
    <3> QED BY <2>2, <3>1, <3>3 DEF QueueOK
  <2>4. SaversOK'
    BY <1>0, <1>1, <2>2, NoneAssumption DEF Receive, SaversOK, SaverPCs, Working
  <2> QED BY <1>1, <2>3, <2>4 DEF Receive, RequestsOK, StoreOK, WorldOK
<1>2. CASE Exit
  <2>1. SaversOK'
    BY <1>0, <1>2 DEF Exit, SaversOK, SaverPCs, Working
  <2> QED BY <1>2, <2>1 DEF Exit, QueueOK, RequestsOK, StoreOK, WorldOK
<1>3. CASE Record
  <2>1. SaversOK'
    BY <1>0, <1>3 DEF Record, SaversOK, SaverPCs, Working
  <2>2. QueueOK'
    BY <1>3 DEF Record, QueueOK
  <2> QED BY <1>3, <2>1, <2>2 DEF Record, RequestsOK, StoreOK, WorldOK
<1> QED BY <1>1, <1>2, <1>3

\* Close, uploads and kills.
LEMMA WorldTypes ==
    ASSUME TypeOK, Close \/ CloseReturns \/ Upload \/ Kill
    PROVE  TypeOK'
<1> USE DEF TypeOK
<1>1. CASE Close \/ CloseReturns
  BY <1>1 DEF Close, CloseReturns, RequestsOK, QueueOK, SaversOK, StoreOK, WorldOK
<1>2. CASE Upload
  <2>1. StoreOK' /\ WorldOK'
    BY <1>2, BoundsAssumption DEF Upload, StoreOK, WorldOK
  <2> QED BY <1>2, <2>1 DEF Upload, RequestsOK, QueueOK, SaversOK
<1>3. CASE Kill
  <2>1. RequestsOK'
    BY <1>3 DEF Kill, RequestsOK, RequestPCs, Over
  <2>2. QueueOK'
    <3>1. queue' = <<>> /\ closed' = FALSE /\ closer' = "idle"
          /\ enqueued' = 0 /\ dropped' = 0 /\ failed' = 0
      BY <1>3 DEF Kill
    <3>2. queue' \in Seq(Requests) /\ Len(queue') = 0
      BY <3>1
    <3>3. Len(queue') <= QueueSize
      BY <3>2, QueueAssumption
    <3> QED BY <3>1, <3>2, <3>3 DEF QueueOK
  <2>3. SaversOK'
    BY <1>3 DEF Kill, SaversOK, SaverPCs, Working, Savers
  <2>4. StoreOK' /\ WorldOK'
    BY <1>3, BoundsAssumption DEF Kill, StoreOK, WorldOK
  <2> QED BY <2>1, <2>2, <2>3, <2>4
<1> QED BY <1>1, <1>2, <1>3

LEMMA InitTypes == Init => TypeOK
<1> SUFFICES ASSUME Init PROVE TypeOK
  OBVIOUS
<1>1. RequestsOK
  BY NoneAssumption DEF Init, RequestsOK, RequestPCs
<1>2. QueueOK
  <2>1. queue = <<>> /\ closed = FALSE /\ closer = "idle"
        /\ enqueued = 0 /\ dropped = 0 /\ failed = 0
    BY DEF Init
  <2>2. queue \in Seq(Requests) /\ Len(queue) = 0
    BY <2>1
  <2>3. Len(queue) <= QueueSize
    BY <2>2, QueueAssumption
  <2> QED BY <2>1, <2>2, <2>3 DEF QueueOK
<1>3. SaversOK
  BY DEF Init, SaversOK, SaverPCs, Working, Savers
<1>4. StoreOK /\ WorldOK
  BY ModesAssumption, BoundsAssumption DEF Init, StoreOK, WorldOK
<1> QED BY <1>1, <1>2, <1>3, <1>4 DEF TypeOK

\* Type correctness: of the Go types of the fields, of the queue's capacity, and
\* of what a saver's and a request's place says about its job and its leader.
THEOREM Typing == Spec => []TypeOK
<1>1. Init => TypeOK
  BY InitTypes
<1>2. TypeOK /\ [Next]_vars => TypeOK'
  <2> SUFFICES ASSUME TypeOK, [Next]_vars PROVE TypeOK'
    OBVIOUS
  <2>1. CASE \E r \in Requests : Request(r)
    BY <2>1, RequestTypes, RequestRestTypes DEF TypeOK
  <2>2. CASE \E s \in Savers : Save(s)
    BY <2>2, SaveTypes
  <2>3. CASE Receive \/ Exit \/ Record
    BY <2>3, WorkerTypes
  <2>4. CASE Close \/ CloseReturns \/ Upload \/ Kill
    BY <2>4, WorldTypes
  <2>5. CASE UNCHANGED vars
    BY <2>5 DEF vars, TypeOK, RequestsOK, QueueOK, SaversOK, StoreOK, WorldOK
  <2> QED BY <2>1, <2>2, <2>3, <2>4, <2>5 DEF Next
<1> QED BY <1>1, <1>2, PTL DEF Spec

-----------------------------------------------------------------------------
(* The answers that are handed over.                                       *)

\* An answer that went into the queue stays what it is whatever requests do.
LEMMA HandedStays ==
    ASSUME TypeOK, NEW r \in Requests, Request(r), NEW q \in Requests, pc[q] \in Handed
    PROVE  pc'[q] \in Handed /\ answer'[q] = answer[q]
<1> USE DEF TypeOK, RequestsOK, Handed
<1>1. CASE ReadGeneration(r) \/ Lead(r) \/ Follow(r)
  BY <1>1 DEF ReadGeneration, Lead, Follow
<1>2. CASE SearchFails(r) \/ AnswerUnfit(r) \/ AnswerFit(r)
  BY <1>2 DEF SearchFails, AnswerUnfit, AnswerFit, Land, FollowersOf
<1>3. CASE EnqueueClosed(r) \/ EnqueueOpen(r) \/ Send(r)
  BY <1>3 DEF EnqueueClosed, EnqueueOpen, Send, Land, FollowersOf
<1>4. CASE Count(r) \/ QueueFull(r) \/ SendPanics(r)
  BY <1>4 DEF Count, QueueFull, SendPanics, Land, FollowersOf
<1>5. CASE SaveHere(r)
  BY <1>5 DEF SaveHere
<1>6. CASE SavedHere(r)
  BY <1>6 DEF SavedHere, Land, FollowersOf, SaversOK
<1> QED BY <1>1, <1>2, <1>3, <1>4, <1>5, <1>6 DEF Request

\* A request that is about to hand over or save has an answer worth saving.
HasAnswer == \A r \in Requests : pc[r] \in {"answered", "offering", "sent", "saving"}
                                   => answer[r] \in Answers

LEMMA HasAnswerKept ==
    ASSUME TypeOK, NEW r \in Requests, Request(r), HasAnswer
    PROVE  HasAnswer'
<1> USE DEF TypeOK, RequestsOK, HasAnswer
<1>1. CASE ReadGeneration(r) \/ Lead(r) \/ Follow(r)
  BY <1>1 DEF ReadGeneration, Lead, Follow
<1>2. CASE SearchFails(r) \/ AnswerUnfit(r) \/ AnswerFit(r)
  BY <1>2 DEF SearchFails, AnswerUnfit, AnswerFit, Land
<1>3. CASE EnqueueClosed(r) \/ EnqueueOpen(r) \/ Send(r)
  BY <1>3 DEF EnqueueClosed, EnqueueOpen, Send, Land
<1>4. CASE Count(r) \/ QueueFull(r) \/ SendPanics(r)
  BY <1>4 DEF Count, QueueFull, SendPanics, Land
<1>5. CASE SaveHere(r) \/ SavedHere(r)
  BY <1>5 DEF SaveHere, SavedHere, Land
<1> QED BY <1>1, <1>2, <1>3, <1>4, <1>5 DEF Request

\* AnswersInv is inductive: step by step.
LEMMA AnswersRequest ==
    ASSUME TypeOK, AnswersInv, NEW r \in Requests, Request(r)
    PROVE  AnswersInv'
<1> USE DEF AnswersInv
<1>1. HasAnswer'
  BY HasAnswerKept DEF HasAnswer
<1>2. \A i \in 1..Len(queue') : pc'[queue'[i]] \in Handed /\ answer'[queue'[i]] \in Answers
  <2>0. queue \in Seq(Requests) /\ \A i \in 1..Len(queue) : queue[i] \in Requests
    BY ElementOfSeq DEF TypeOK, QueueOK
  <2>1. \A i \in 1..Len(queue) : pc'[queue[i]] \in Handed /\ answer'[queue[i]] \in Answers
    BY <2>0, HandedStays
  <2>2. CASE Send(r)
    <3>1. queue' = Append(queue, r) /\ pc'[r] \in Handed /\ answer'[r] \in Answers
      BY <2>2 DEF Send, Handed, TypeOK, RequestsOK
    <3>2. Len(queue') = Len(queue) + 1 /\ queue'[Len(queue) + 1] = r
          /\ \A i \in 1..Len(queue) : queue'[i] = queue[i]
      BY <2>0, <3>1, AppendProperties
    <3>3. Len(queue) \in Nat
      BY <2>0, LenProperties
    <3> QED BY <2>1, <3>1, <3>2, <3>3
  <2>3. CASE ~Send(r)
    <3>1. queue' = queue
      BY <2>3 DEF Request, ReadGeneration, Lead, Follow, SearchFails, AnswerUnfit,
                  AnswerFit, EnqueueClosed, EnqueueOpen, Count, QueueFull, SendPanics,
                  SaveHere, SavedHere
    <3> QED BY <2>1, <3>1
  <2> QED BY <2>2, <2>3
<1>3. job'[Worker] # None => pc'[job'[Worker]] \in Handed /\ answer'[job'[Worker]] \in Answers
  <2>1. job'[Worker] = job[Worker]
    BY WorkerAssumption
       DEF Request, ReadGeneration, Lead, Follow, SearchFails, AnswerUnfit, AnswerFit,
           EnqueueClosed, EnqueueOpen, Send, Count, QueueFull, SendPanics, SaveHere,
           SavedHere, TypeOK, SaversOK, Savers
  <2>2. job[Worker] \in Requests \cup {None}
    BY DEF TypeOK, SaversOK, Savers
  <2> QED BY <2>1, <2>2, HandedStays
<1> QED BY <1>1, <1>2, <1>3 DEF HasAnswer

LEMMA AnswersReceive ==
    ASSUME TypeOK, AnswersInv, Receive
    PROVE  AnswersInv'
<1> USE DEF AnswersInv
<1>1. queue \in Seq(Requests) /\ queue # <<>> /\ UNCHANGED <<pc, answer>>
      /\ job' = [job EXCEPT ![Worker] = Head(queue)] /\ queue' = Tail(queue)
  BY DEF Receive, TypeOK, QueueOK
<1>2. Len(queue) \in Nat \ {0} /\ Head(queue) = queue[1]
  BY <1>1, EmptySeq
<1>3. Len(Tail(queue)) = Len(queue) - 1
      /\ \A i \in 1..Len(Tail(queue)) : Tail(queue)[i] = queue[i + 1]
  BY <1>1, HeadTailProperties
<1>4. \A i \in 1..Len(queue') : pc'[queue'[i]] \in Handed /\ answer'[queue'[i]] \in Answers
  BY <1>1, <1>2, <1>3
<1>5. pc[queue[1]] \in Handed /\ answer[queue[1]] \in Answers
  BY <1>2
<1>6. job'[Worker] = queue[1]
  BY <1>1, <1>2 DEF TypeOK, SaversOK, Savers
<1> QED BY <1>1, <1>4, <1>5, <1>6

THEOREM AnswersInductive == TypeOK /\ AnswersInv /\ [Next]_vars => AnswersInv'
<1> SUFFICES ASSUME TypeOK, AnswersInv, [Next]_vars PROVE AnswersInv'
  OBVIOUS
<1>1. CASE \E r \in Requests : Request(r)
  BY <1>1, AnswersRequest
<1>2. CASE \E s \in Savers : Save(s)
  <2>1. UNCHANGED <<requestVars, queue, job>>
    BY <1>2 DEF Save, StatFails, Skip, StatAbsent, OpenFails, Open, WriteFails, Write,
                IndexFails, Insert, Bump, Go
  <2> QED BY <2>1 DEF AnswersInv
<1>3. CASE Receive
  BY <1>3, AnswersReceive
<1>4. CASE Exit \/ Close \/ CloseReturns \/ Upload
  BY <1>4 DEF Exit, Close, CloseReturns, Upload, AnswersInv
<1>5. CASE Record
  <2>1. UNCHANGED <<requestVars, queue>> /\ job'[Worker] = None
    BY <1>5 DEF Record, TypeOK, SaversOK, Savers
  <2> QED BY <2>1 DEF AnswersInv
<1>6. CASE Kill
  <2>1. queue' = <<>> /\ job'[Worker] = None
        /\ \A r \in Requests : pc'[r] \in {"idle", "lost"}
    BY <1>6 DEF Kill, Savers
  <2> QED BY <2>1 DEF AnswersInv
<1>7. CASE UNCHANGED vars
  BY <1>7 DEF vars, AnswersInv
<1> QED BY <1>1, <1>2, <1>3, <1>4, <1>5, <1>6, <1>7 DEF Next

-----------------------------------------------------------------------------
(* Deduplication.                                                          *)

\* What the worker saves is a document.
LEMMA SavedIsDocument ==
    ASSUME TypeOK, AnswersInv, job[Worker] # None
    PROVE  Saved(Worker) \in Documents
BY DEF TypeOK, RequestsOK, SaversOK, Savers, AnswersInv, Saved, Document, Documents

\* With the queue only the worker takes a step of the saving, and that step keeps
\* DedupInv: the check for the file, the file, the insertion, in this order.
LEMMA DedupSave ==
    ASSUME TypeOK, AnswersInv, DedupInv, async, NEW s \in Savers, Save(s)
    PROVE  DedupInv'
<1> DEFINE d == Saved(Worker)
<1>1. s = Worker /\ spc[Worker] \in Working
  BY DEF Save, StatFails, Skip, StatAbsent, OpenFails, Open, WriteFails, Write,
         IndexFails, Insert, Bump, Working, DedupInv, Savers
<1>2. d \in Documents
  BY <1>1, SavedIsDocument DEF TypeOK, SaversOK, Savers
<1>3. disk \in [Documents -> {"absent", "partial", "whole"}] /\ inserted \in [Documents -> Nat]
  BY DEF TypeOK, StoreOK
<1>4. UNCHANGED <<requestVars, job, async>>
  BY DEF Save, StatFails, Skip, StatAbsent, OpenFails, Open, WriteFails, Write,
         IndexFails, Insert, Bump, Go
<1>5. Saved(Worker)' = d
  BY <1>4 DEF Saved, Document
<1>6. \A r \in Requests : spc'[r] = "idle"
  <2>1. PICK where \in Working : spc' = [spc EXCEPT ![Worker] = where]
    BY <1>1 DEF Save, StatFails, Skip, StatAbsent, OpenFails, Open, WriteFails, Write,
                IndexFails, Insert, Bump, Go, Working
  <2> QED BY <2>1, WorkerAssumption DEF DedupInv, TypeOK, SaversOK, Savers
<1>7. /\ spc[Worker] = "open"    => disk[d] = "absent"
      /\ spc[Worker] = "writing" => disk[d] = "partial"
      /\ spc[Worker] = "index"   => disk[d] = "whole" /\ inserted[d] = 0
      /\ \A e \in Documents : inserted[e] <= 1
      /\ \A e \in Documents : inserted[e] > 0 => disk[e] = "whole"
  BY DEF DedupInv, IndexedOnce, IndexedIsOnDisk
<1>8. spc \in [Savers -> SaverPCs] /\ Worker \in Savers
  BY DEF TypeOK, SaversOK, Savers
<1> SUFFICES /\ spc'[Worker] = "open"    => disk'[d] = "absent"
             /\ spc'[Worker] = "writing" => disk'[d] = "partial"
             /\ spc'[Worker] = "index"   => disk'[d] = "whole" /\ inserted'[d] = 0
             /\ \A e \in Documents : inserted'[e] <= 1
             /\ \A e \in Documents : inserted'[e] > 0 => disk'[e] = "whole"
  BY <1>5, <1>6 DEF DedupInv, IndexedOnce, IndexedIsOnDisk
<1> HIDE DEF d
<1>9. CASE \/ StatFails(Worker) \/ Skip(Worker) \/ OpenFails(Worker)
           \/ WriteFails(Worker) \/ Bump(Worker)
  <2>1. spc'[Worker] = "done" /\ UNCHANGED <<disk, inserted>>
    BY <1>8, <1>9 DEF StatFails, Skip, OpenFails, WriteFails, Bump, Go
  <2> QED BY <1>7, <2>1
<1>10. CASE StatAbsent(Worker)
  <2>1. spc'[Worker] = "open" /\ disk[d] = "absent" /\ UNCHANGED <<disk, inserted>>
    BY <1>8, <1>10 DEF StatAbsent, Go, d
  <2> QED BY <1>7, <2>1
<1>11. CASE Open(Worker)
  <2>1. spc'[Worker] = "writing" /\ disk' = [disk EXCEPT ![d] = "partial"]
        /\ inserted' = inserted /\ disk[d] = "absent"
    BY <1>7, <1>8, <1>11 DEF Open, Go, d
  <2> QED BY <1>2, <1>3, <1>7, <2>1
<1>12. CASE Write(Worker)
  <2>1. spc'[Worker] = "index" /\ disk' = [disk EXCEPT ![d] = "whole"]
        /\ inserted' = inserted /\ disk[d] = "partial"
    BY <1>7, <1>8, <1>12 DEF Write, Go, d
  <2>2. inserted[d] \in Nat /\ ~(inserted[d] > 0)
    BY <1>2, <1>3, <1>7, <2>1
  <2> QED BY <1>2, <1>3, <1>7, <2>1, <2>2
<1>13. CASE IndexFails(Worker) \/ Insert(Worker)
  <2>1. spc'[Worker] \in {"done", "bump"} /\ disk' = disk
        /\ disk[d] = "whole" /\ inserted[d] = 0
    BY <1>7, <1>8, <1>13 DEF IndexFails, Insert, Go, d
  <2>2. inserted' = inserted \/ inserted' = [inserted EXCEPT ![d] = inserted[d] + 1]
    BY <1>13 DEF IndexFails, Insert, d
  <2> QED BY <1>2, <1>3, <1>7, <2>1, <2>2
<1> QED BY <1>1, <1>9, <1>10, <1>11, <1>12, <1>13 DEF Save

\* A step of a request does not disturb what the worker saves.
LEMMA DedupRequest ==
    ASSUME TypeOK, AnswersInv, DedupInv, async, NEW r \in Requests, Request(r)
    PROVE  DedupInv'
<1>1. UNCHANGED <<query, disk, inserted, async>>
  BY DEF Request, ReadGeneration, Lead, Follow, SearchFails, AnswerUnfit, AnswerFit,
         EnqueueClosed, EnqueueOpen, Send, Count, QueueFull, SendPanics, SaveHere,
         SavedHere
<1>2. ~SaveHere(r) /\ ~SavedHere(r)
  BY DEF SaveHere, SavedHere, DedupInv
<1>3. UNCHANGED <<spc, job>>
  BY <1>2 DEF Request, ReadGeneration, Lead, Follow, SearchFails, AnswerUnfit, AnswerFit,
              EnqueueClosed, EnqueueOpen, Send, Count, QueueFull, SendPanics
<1>4. job[Worker] # None => Saved(Worker)' = Saved(Worker)
  <2> SUFFICES ASSUME job[Worker] # None PROVE Saved(Worker)' = Saved(Worker)
    OBVIOUS
  <2>1. job[Worker] \in Requests /\ pc[job[Worker]] \in Handed
    BY DEF TypeOK, SaversOK, Savers, AnswersInv
  <2>2. answer'[job[Worker]] = answer[job[Worker]]
    BY <2>1, HandedStays
  <2> QED BY <1>1, <1>3, <2>2 DEF Saved, Document
<1>5. spc[Worker] \in {"open", "writing", "index"} => job[Worker] # None
  BY DEF TypeOK, SaversOK, Savers, Working
<1> QED BY <1>1, <1>3, <1>4, <1>5 DEF DedupInv, IndexedOnce, IndexedIsOnDisk

THEOREM DedupInductive == TypeOK /\ AnswersInv /\ DedupInv /\ [Next]_vars => DedupInv'
<1> SUFFICES ASSUME TypeOK, AnswersInv, DedupInv, [Next]_vars PROVE DedupInv'
  OBVIOUS
<1>1. CASE ~async
  <2>1. async' = async
    BY DEF Next, Request, ReadGeneration, Lead, Follow, SearchFails, AnswerUnfit, AnswerFit,
           EnqueueClosed, EnqueueOpen, Send, Count, QueueFull, SendPanics, SaveHere,
           SavedHere, Save, StatFails, Skip, StatAbsent, OpenFails, Open, WriteFails,
           Write, IndexFails, Insert, Bump, Go, Receive, Exit, Record, Close,
           CloseReturns, Upload, Kill, vars
  <2> QED BY <1>1, <2>1 DEF DedupInv
<1>2. CASE async /\ \E r \in Requests : Request(r)
  BY <1>2, DedupRequest
<1>3. CASE async /\ \E s \in Savers : Save(s)
  BY <1>3, DedupSave
<1>4. CASE async /\ (Receive \/ Exit \/ Record)
  <2>1. spc'[Worker] \in {"stat", "exited", "idle"} /\ UNCHANGED <<disk, inserted, async>>
        /\ \A r \in Requests : spc'[r] = spc[r]
    BY <1>4, WorkerAssumption DEF Receive, Exit, Record, TypeOK, SaversOK, Savers
  <2> QED BY <2>1 DEF DedupInv, IndexedOnce, IndexedIsOnDisk
<1>5. CASE async /\ (Close \/ CloseReturns \/ Upload)
  <2>1. UNCHANGED <<requestVars, saverVars, storeVars, async>>
    BY <1>5 DEF Close, CloseReturns, Upload
  <2> QED BY <2>1 DEF DedupInv, IndexedOnce, IndexedIsOnDisk, Saved, Document
<1>6. CASE async /\ Kill
  <2>1. UNCHANGED <<disk, inserted, async>> /\ \A s \in Savers : spc'[s] = "idle"
    BY <1>6 DEF Kill
  <2>2. Worker \in Savers /\ Requests \subseteq Savers
    BY DEF Savers
  <2> QED BY <2>1, <2>2 DEF DedupInv, IndexedOnce, IndexedIsOnDisk
<1>7. CASE UNCHANGED vars
  <2>1. UNCHANGED <<requestVars, saverVars, storeVars, async>>
    BY <1>7 DEF vars
  <2> QED BY <2>1 DEF DedupInv, IndexedOnce, IndexedIsOnDisk, Saved, Document
<1> QED BY <1>1, <1>2, <1>3, <1>4, <1>5, <1>6, <1>7 DEF Next

LEMMA InitDedup == Init => AnswersInv /\ DedupInv
<1> SUFFICES ASSUME Init PROVE AnswersInv /\ DedupInv
  OBVIOUS
<1>1. queue = <<>> /\ \A r \in Requests : pc[r] = "idle"
  BY DEF Init
<1>2. \A s \in Savers : spc[s] = "idle" /\ job[s] = None
  BY DEF Init
<1>3. \A d \in Documents : inserted[d] = 0
  BY DEF Init
<1>4. Worker \in Savers /\ Requests \subseteq Savers
  BY DEF Savers
<1>5. AnswersInv
  BY <1>1, <1>2, <1>4 DEF AnswersInv
<1>6. DedupInv
  BY <1>2, <1>3, <1>4 DEF DedupInv, IndexedOnce, IndexedIsOnDisk
<1> QED BY <1>5, <1>6

\* The inductive invariant holds throughout.
LEMMA DedupAlways == Spec => [](TypeOK /\ AnswersInv /\ DedupInv)
<1>1. Init => AnswersInv /\ DedupInv
  BY InitDedup
<1> QED BY <1>1, Typing, AnswersInductive, DedupInductive, PTL DEF Spec

\* With the persist queue no document is inserted twice, across failures of any
\* step and kills of the process.
THEOREM Once == Spec => []IndexedOnce
<1>1. DedupInv => IndexedOnce
  BY DEF DedupInv, IndexedOnce
<1> QED BY <1>1, DedupAlways, PTL

\* With the persist queue every inserted document is whole on disk, where the next
\* Stat finds it.
THEOREM OnDisk == Spec => []IndexedIsOnDisk
<1>1. DedupInv => IndexedIsOnDisk
  BY DEF DedupInv, IndexedIsOnDisk
<1> QED BY <1>1, DedupAlways, PTL

-----------------------------------------------------------------------------
(* Where an answer is on its way through the queue.                        *)

Fated(how) == {r \in Requests : fate[r] = how}

\* An answer handed over is once in the queue, or in the worker's hands, or has its fate; one that
\* was not is in none of these places.
PlaceInv ==
    /\ \A i, j \in 1..Len(queue) : queue[i] = queue[j] => i = j
    /\ \A i \in 1..Len(queue) : queue[i] # job[Worker] /\ fate[queue[i]] = None
    /\ job[Worker] # None => fate[job[Worker]] = None
    /\ \A r \in Requests : fate[r] # None => pc[r] \in Handed

\* Requests leave the worker, and what it has recorded, alone.
LEMMA RequestLeavesWorker ==
    ASSUME TypeOK, NEW r \in Requests, Request(r)
    PROVE  /\ job'[Worker] = job[Worker] /\ spc'[Worker] = spc[Worker]
           /\ UNCHANGED <<fate, failed, closed, closer>>
BY WorkerAssumption
   DEF Request, ReadGeneration, Lead, Follow, SearchFails, AnswerUnfit, AnswerFit, EnqueueClosed,
       EnqueueOpen, Send, Count, QueueFull, SendPanics, SaveHere, SavedHere, TypeOK, SaversOK, Savers

LEMMA OnlySendsQueue ==
    ASSUME NEW r \in Requests, Request(r), ~ Send(r)
    PROVE  queue' = queue
BY DEF Request, ReadGeneration, Lead, Follow, SearchFails, AnswerUnfit, AnswerFit, EnqueueClosed,
       EnqueueOpen, Count, QueueFull, SendPanics, SaveHere, SavedHere

LEMMA Appended ==
    ASSUME TypeOK, NEW r \in Requests, Send(r)
    PROVE  /\ Len(queue) \in Nat /\ Len(queue') = Len(queue) + 1
           /\ queue'[Len(queue) + 1] = r
           /\ \A i \in 1..Len(queue) : queue'[i] = queue[i]
<1>1. queue \in Seq(Requests) /\ queue' = Append(queue, r)
  BY DEF Send, TypeOK, QueueOK
<1> QED BY <1>1, AppendProperties, LenProperties

LEMMA Received ==
    ASSUME TypeOK, Receive
    PROVE  /\ Len(queue) \in Nat \ {0} /\ Len(queue') = Len(queue) - 1
           /\ queue[1] \in Requests /\ job'[Worker] = queue[1] /\ job[Worker] = None
           /\ \A i \in 1..Len(queue') : queue'[i] = queue[i + 1]
<1>1. queue \in Seq(Requests) /\ queue # <<>> /\ queue' = Tail(queue)
      /\ job' = [job EXCEPT ![Worker] = Head(queue)] /\ spc[Worker] = "idle"
  BY DEF Receive, TypeOK, QueueOK
<1>2. Len(queue) \in Nat \ {0} /\ Head(queue) = queue[1] /\ Head(queue) \in Requests
  BY <1>1, EmptySeq, HeadTailProperties
<1>3. Len(Tail(queue)) = Len(queue) - 1
      /\ \A i \in 1..Len(Tail(queue)) : Tail(queue)[i] = queue[i + 1]
  BY <1>1, HeadTailProperties
<1>4. job'[Worker] = queue[1] /\ job[Worker] = None
  BY <1>1, <1>2 DEF TypeOK, SaversOK, Savers, Working
<1> QED BY <1>1, <1>2, <1>3, <1>4

LEMMA PlaceRequest ==
    ASSUME TypeOK, AnswersInv, PlaceInv, NEW r \in Requests, Request(r)
    PROVE  PlaceInv'
<1>1. job'[Worker] = job[Worker] /\ fate' = fate
  BY RequestLeavesWorker
<1>2. \A q \in Requests : fate'[q] # None => pc'[q] \in Handed
  BY <1>1, HandedStays DEF PlaceInv
<1>3. CASE Send(r)
  <2>1. pc[r] \notin Handed
    BY <1>3 DEF Send, Handed
  <2>2. fate[r] = None /\ job[Worker] # r /\ \A i \in 1..Len(queue) : queue[i] # r
    BY <2>1, NoneAssumption DEF PlaceInv, AnswersInv
  <2> QED BY <1>1, <1>2, <1>3, <2>2, Appended DEF PlaceInv
<1>4. CASE ~ Send(r)
  BY <1>1, <1>2, <1>4, OnlySendsQueue DEF PlaceInv
<1> QED BY <1>3, <1>4

LEMMA PlaceWorker ==
    ASSUME TypeOK, AnswersInv, PlaceInv, Receive \/ Exit \/ Record
    PROVE  PlaceInv'
<1>1. CASE Receive
  <2>1. UNCHANGED <<pc, fate>>
    BY <1>1 DEF Receive
  <2>2. \A i \in 1..Len(queue') : i + 1 \in 1..Len(queue) /\ i + 1 # 1
    BY <1>1, Received
  <2>3. 1 \in 1..Len(queue)
    BY <1>1, Received
  <2>4. \A i \in 1..Len(queue') : queue'[i] # job'[Worker] /\ fate'[queue'[i]] = None
    BY <1>1, <2>1, <2>2, <2>3, Received DEF PlaceInv
  <2>5. \A i, j \in 1..Len(queue') : queue'[i] = queue'[j] => i = j
    BY <1>1, <2>2, Received DEF PlaceInv
  <2> QED BY <1>1, <2>1, <2>3, <2>4, <2>5, Received DEF PlaceInv
<1>2. CASE Exit
  BY <1>2 DEF Exit, PlaceInv
<1>3. CASE Record
  <2>1. job[Worker] \in Requests /\ pc[job[Worker]] \in Handed
    BY <1>3 DEF Record, AnswersInv, TypeOK, SaversOK, Savers, Working
  <2>2. UNCHANGED <<pc, queue>> /\ job'[Worker] = None
    BY <1>3 DEF Record, TypeOK, SaversOK, Savers
  <2>3. \A r \in Requests : r # job[Worker] => fate'[r] = fate[r]
    BY <1>3 DEF Record, TypeOK, SaversOK
  <2>4. \A i \in 1..Len(queue) : queue[i] \in Requests
    BY ElementOfSeq DEF TypeOK, QueueOK
  <2> QED BY <2>1, <2>2, <2>3, <2>4, NoneAssumption DEF PlaceInv
<1> QED BY <1>1, <1>2, <1>3

LEMMA PlaceInductive == TypeOK /\ AnswersInv /\ PlaceInv /\ [Next]_vars => PlaceInv'
<1> SUFFICES ASSUME TypeOK, AnswersInv, PlaceInv, [Next]_vars PROVE PlaceInv'
  OBVIOUS
<1>1. CASE \E r \in Requests : Request(r)
  BY <1>1, PlaceRequest
<1>2. CASE \E s \in Savers : Save(s)
  <2>1. UNCHANGED <<requestVars, queue, job, fate>>
    BY <1>2 DEF Save, StatFails, Skip, StatAbsent, OpenFails, Open, WriteFails, Write,
                IndexFails, Insert, Bump, Go
  <2> QED BY <2>1 DEF PlaceInv
<1>3. CASE Receive \/ Exit \/ Record
  BY <1>3, PlaceWorker
<1>4. CASE Close \/ CloseReturns \/ Upload \/ UNCHANGED vars
  BY <1>4 DEF Close, CloseReturns, Upload, vars, PlaceInv
<1>5. CASE Kill
  <2>1. Len(queue') = 0 /\ job'[Worker] = None /\ \A r \in Requests : fate'[r] = None
    BY <1>5 DEF Kill, Savers
  <2> QED BY <2>1 DEF PlaceInv
<1> QED BY <1>1, <1>2, <1>3, <1>4, <1>5 DEF Next

LEMMA InitPlace == Init => PlaceInv
<1> SUFFICES ASSUME Init PROVE PlaceInv
  OBVIOUS
<1>1. Len(queue) = 0 /\ job[Worker] = None /\ \A r \in Requests : fate[r] = None
  BY DEF Init, Savers
<1> QED BY <1>1 DEF PlaceInv

-----------------------------------------------------------------------------
(* The statistics.                                                         *)

\* A failure is counted with the fate it gives an answer.
CountInv == StatsAddUp /\ failed = Cardinality(Fated("failed"))

LEMMA FinitelyMany == \A S \in SUBSET Requests : IsFiniteSet(S) /\ Cardinality(S) \in Nat
BY RequestsAssumption, FS_Subset, FS_CardinalityType

\* The terms of the sum are numbers; the worker's is one or none.
LEMMA TermsAreNumbers ==
    ASSUME TypeOK
    PROVE  /\ Len(queue) \in Nat /\ enqueued \in Nat /\ failed \in Nat
           /\ Cardinality(Uncounted) \in Nat
           /\ \A how : Cardinality(Fated(how)) \in Nat
           /\ Cardinality(Busy) = IF spc[Worker] \in Working THEN 1 ELSE 0
<1>1. Uncounted \in SUBSET Requests /\ \A how : Fated(how) \in SUBSET Requests
  BY DEF Uncounted, Fated
<1>2. Busy = IF spc[Worker] \in Working THEN {Worker} ELSE {}
  BY DEF Busy
<1>3. Cardinality({Worker}) = 1 /\ Cardinality({}) = 0
  BY FS_Singleton, FS_EmptySet
<1> QED BY <1>1, <1>2, <1>3, FinitelyMany, LenProperties DEF TypeOK, QueueOK

\* What a step of a request does to who is sent and not yet counted.
LEMMA UncountedMoves ==
    ASSUME TypeOK, NEW r \in Requests, Request(r)
    PROVE  /\ Send(r) => r \notin Uncounted /\ Uncounted' = Uncounted \cup {r}
           /\ Count(r) => r \in Uncounted /\ Uncounted' = Uncounted \ {r}
           /\ ~ Send(r) /\ ~ Count(r) => Uncounted' = Uncounted
<1> USE DEF TypeOK, RequestsOK, Uncounted
<1>1. CASE Send(r)
  BY <1>1 DEF Send, Count
<1>2. CASE Count(r)
  BY <1>2 DEF Send, Count, Land, FollowersOf
<1>3. CASE ~ Send(r) /\ ~ Count(r)
  <2> SUFFICES \A q \in Requests : pc'[q] = "sent" <=> pc[q] = "sent"
    BY <1>3
  <2>1. CASE ReadGeneration(r) \/ Lead(r) \/ Follow(r) \/ AnswerFit(r) \/ EnqueueOpen(r) \/ SaveHere(r)
    BY <2>1 DEF ReadGeneration, Lead, Follow, AnswerFit, EnqueueOpen, SaveHere
  <2>2. CASE SearchFails(r) \/ AnswerUnfit(r) \/ EnqueueClosed(r) \/ QueueFull(r) \/ SendPanics(r) \/ SavedHere(r)
    <3>1. PICK how \in {"error", "returned", "panicked"} : Land(r, how)
      BY <2>2 DEF SearchFails, AnswerUnfit, EnqueueClosed, QueueFull, SendPanics, SavedHere
    <3>2. pc[r] # "sent"
      BY <2>2 DEF SearchFails, AnswerUnfit, EnqueueClosed, QueueFull, SendPanics, SavedHere, SaversOK
    <3> QED BY <3>1, <3>2 DEF Land, FollowersOf
  <2> QED BY <1>3, <2>1, <2>2 DEF Request
<1> QED BY <1>1, <1>2, <1>3

LEMMA CountRequest ==
    ASSUME TypeOK, TypeOK', CountInv, NEW r \in Requests, Request(r)
    PROVE  CountInv'
<1>1. fate' = fate /\ failed' = failed /\ spc'[Worker] = spc[Worker]
  BY RequestLeavesWorker
<1>2. Cardinality(Busy)' = Cardinality(Busy) /\ \A how : Fated(how)' = Fated(how)
  BY <1>1 DEF Busy, Fated
<1>3. IsFiniteSet(Uncounted)
  BY FinitelyMany DEF Uncounted
<1>4. enqueued + Cardinality(Uncounted) = Len(queue) + Cardinality(Busy) + failed
                                            + Cardinality(Fated("saved"))
  BY DEF CountInv, StatsAddUp, Fated
<1>5. enqueued' + Cardinality(Uncounted)' = Len(queue)' + Cardinality(Busy)' + failed'
                                              + Cardinality(Fated("saved"))'
  <2>1. CASE Send(r)
    <3>1. Cardinality(Uncounted)' = Cardinality(Uncounted) + 1
      BY <2>1, <1>3, UncountedMoves, FS_AddElement
    <3>2. Len(queue') = Len(queue) + 1 /\ enqueued' = enqueued
      BY <2>1, Appended DEF Send
    <3> QED BY <3>1, <3>2, <1>1, <1>2, <1>4, TermsAreNumbers
  <2>2. CASE Count(r)
    <3>1. Cardinality(Uncounted)' = Cardinality(Uncounted) - 1
      BY <2>2, <1>3, UncountedMoves, FS_RemoveElement
    <3>2. queue' = queue /\ enqueued' = enqueued + 1
      BY <2>2 DEF Count
    <3> QED BY <3>1, <3>2, <1>1, <1>2, <1>4, TermsAreNumbers
  <2>3. CASE ~ Send(r) /\ ~ Count(r)
    <3>1. queue' = queue /\ enqueued' = enqueued
      BY <2>3 DEF Request, ReadGeneration, Lead, Follow, SearchFails, AnswerUnfit, AnswerFit,
                  EnqueueClosed, EnqueueOpen, QueueFull, SendPanics, SaveHere, SavedHere
    <3> QED BY <3>1, <2>3, <1>1, <1>2, <1>4, UncountedMoves
  <2> QED BY <2>1, <2>2, <2>3
<1> QED BY <1>1, <1>2, <1>5 DEF CountInv, StatsAddUp, Fated

LEMMA CountWorker ==
    ASSUME TypeOK, TypeOK', PlaceInv, CountInv, Receive \/ Exit \/ Record
    PROVE  CountInv'
<1>1. pc' = pc /\ enqueued' = enqueued
  BY DEF Receive, Exit, Record
<1>2. Uncounted' = Uncounted
  BY <1>1 DEF Uncounted
<1>3. /\ enqueued + Cardinality(Uncounted) = Len(queue) + Cardinality(Busy) + failed
                                                + Cardinality(Fated("saved"))
      /\ failed = Cardinality(Fated("failed"))
  BY DEF CountInv, StatsAddUp, Fated
<1> SUFFICES /\ enqueued + Cardinality(Uncounted) = Len(queue') + Cardinality(Busy') + failed'
                                                       + Cardinality(Fated("saved")')
             /\ failed' = Cardinality(Fated("failed")')
  BY <1>1, <1>2 DEF CountInv, StatsAddUp, Fated
<1>4. /\ Len(queue) \in Nat /\ Cardinality(Busy) = IF spc[Worker] \in Working THEN 1 ELSE 0
      /\ Cardinality(Busy') = IF spc'[Worker] \in Working THEN 1 ELSE 0
      /\ failed \in Nat /\ Cardinality(Fated("saved")) \in Nat
  <2>1. Busy' = IF spc'[Worker] \in Working THEN {Worker} ELSE {}
    BY DEF Busy
  <2>2. Cardinality({Worker}) = 1 /\ Cardinality({}) = 0
    BY FS_Singleton, FS_EmptySet
  <2>3. Cardinality(Busy') = IF spc'[Worker] \in Working THEN 1 ELSE 0
    BY <2>1, <2>2
  <2> QED BY <2>3, TermsAreNumbers
<1>5. CASE Receive
  <2>1. fate' = fate /\ failed' = failed /\ spc[Worker] = "idle" /\ spc'[Worker] = "stat"
    BY <1>5 DEF Receive, TypeOK, SaversOK, Savers
  <2>2. Len(queue') = Len(queue) - 1
    BY <1>5, Received
  <2> QED BY <2>1, <2>2, <1>3, <1>4 DEF Fated, Working
<1>6. CASE Exit
  <2>1. UNCHANGED <<fate, failed, queue>> /\ spc[Worker] = "idle" /\ spc'[Worker] = "exited"
    BY <1>6 DEF Exit, TypeOK, SaversOK, Savers
  <2> QED BY <2>1, <1>3, <1>4 DEF Fated, Working
<1>7. CASE Record
  <2>1. /\ job[Worker] \in Requests /\ fate[job[Worker]] = None
        /\ spc[Worker] = "done" /\ spc'[Worker] = "idle" /\ queue' = queue
    BY <1>7 DEF Record, PlaceInv, TypeOK, SaversOK, Savers, Working
  <2>2. \A how : IsFiniteSet(Fated(how))
    BY FinitelyMany DEF Fated
  <2>3. CASE bad[Worker]
    <3>1. failed' = failed + 1 /\ fate' = [fate EXCEPT ![job[Worker]] = "failed"]
      BY <1>7, <2>3 DEF Record
    <3>2. /\ Fated("failed")' = Fated("failed") \cup {job[Worker]} /\ job[Worker] \notin Fated("failed")
          /\ Fated("saved")' = Fated("saved")
      BY <2>1, <3>1, NoneAssumption DEF Fated, TypeOK, SaversOK
    <3>3. Cardinality(Fated("failed")') = Cardinality(Fated("failed")) + 1
      BY <2>2, <3>2, FS_AddElement
    <3> QED BY <2>1, <3>1, <3>2, <3>3, <1>3, <1>4 DEF Working
  <2>4. CASE ~ bad[Worker]
    <3>1. failed' = failed /\ fate' = [fate EXCEPT ![job[Worker]] = "saved"]
      BY <1>7, <2>4 DEF Record
    <3>2. /\ Fated("saved")' = Fated("saved") \cup {job[Worker]} /\ job[Worker] \notin Fated("saved")
          /\ Fated("failed")' = Fated("failed")
      BY <2>1, <3>1, NoneAssumption DEF Fated, TypeOK, SaversOK
    <3>3. Cardinality(Fated("saved")') = Cardinality(Fated("saved")) + 1
      BY <2>2, <3>2, FS_AddElement
    <3> QED BY <2>1, <3>1, <3>2, <3>3, <1>3, <1>4 DEF Working
  <2> QED BY <2>3, <2>4
<1> QED BY <1>5, <1>6, <1>7

LEMMA CountInductive == TypeOK /\ TypeOK' /\ PlaceInv /\ CountInv /\ [Next]_vars => CountInv'
<1> SUFFICES ASSUME TypeOK, TypeOK', PlaceInv, CountInv, [Next]_vars PROVE CountInv'
  OBVIOUS
<1>1. CASE \E r \in Requests : Request(r)
  BY <1>1, CountRequest
<1>2. CASE \E s \in Savers : Save(s)
  <2> PICK s \in Savers : Save(s)
    BY <1>2
  <2>0. spc[s] \in Working /\ \E where \in Working, err \in BOOLEAN : Go(s, where, err)
    BY Zenon DEF Save, StatFails, Skip, StatAbsent, OpenFails, Open, WriteFails, Write,
                 IndexFails, Insert, Bump, Working
  <2>1. UNCHANGED <<pc, queue, enqueued, failed, fate>> /\ (spc[Worker] \in Working <=> spc'[Worker] \in Working)
    BY <2>0 DEF Go, TypeOK, SaversOK
  <2>2. Busy' = Busy
    BY <2>1 DEF Busy
  <2> QED BY <2>1, <2>2 DEF CountInv, StatsAddUp, Uncounted, Fated
<1>3. CASE Receive \/ Exit \/ Record
  BY <1>3, CountWorker
<1>4. CASE Close \/ CloseReturns \/ Upload \/ UNCHANGED vars
  BY <1>4 DEF Close, CloseReturns, Upload, vars, CountInv, StatsAddUp, Uncounted, Busy, Fated
<1>5. CASE Kill
  <2>1. enqueued' = 0 /\ failed' = 0 /\ Len(queue') = 0
    BY <1>5 DEF Kill
  <2>2. /\ \A r \in Requests : pc'[r] # "sent" /\ fate'[r] = None
        /\ spc'[Worker] = "idle"
    BY <1>5 DEF Kill, Savers
  <2>3. Uncounted' = {} /\ Busy' = {}
    BY <2>2 DEF Uncounted, Busy, Working
  <2>4. Fated("saved")' = {} /\ Fated("failed")' = {}
    BY <2>2, NoneAssumption DEF Fated
  <2>5. Cardinality({}) = 0
    BY FS_EmptySet
  <2>6. Cardinality(Uncounted)' = 0 /\ Cardinality(Busy)' = 0 /\ Cardinality(Fated("failed"))' = 0
        /\ Cardinality({r \in Requests : fate[r] = "saved"})' = 0
    BY <2>3, <2>4, <2>5 DEF Fated
  <2> QED BY <2>1, <2>6 DEF CountInv, StatsAddUp
<1> QED BY <1>1, <1>2, <1>3, <1>4, <1>5 DEF Next

LEMMA InitCount == Init => CountInv
<1> SUFFICES ASSUME Init PROVE CountInv
  OBVIOUS
<1>1. enqueued = 0 /\ failed = 0 /\ Len(queue) = 0
  BY DEF Init
<1>2. Uncounted = {} /\ Busy = {} /\ Fated("saved") = {} /\ Fated("failed") = {}
  BY NoneAssumption DEF Init, Uncounted, Busy, Fated, Savers, Working
<1> QED BY <1>1, <1>2, FS_EmptySet DEF CountInv, StatsAddUp, Fated

LEMMA CountAlways == Spec => [](TypeOK /\ PlaceInv /\ CountInv)
<1>1. Init => AnswersInv
  BY InitDedup
<1> QED BY <1>1, InitPlace, InitCount, Typing, AnswersInductive, PlaceInductive, CountInductive, PTL DEF Spec

\* Each answer that was taken in is accounted for by the statistics of the queue, in every state and
\* again after every kill.
THEOREM Balanced == Spec => []StatsAddUp
<1>1. CountInv => StatsAddUp
  BY DEF CountInv
<1> QED BY <1>1, CountAlways, PTL

-----------------------------------------------------------------------------
(* Shutdown.                                                               *)

\* The worker leaves a closed and empty channel, which stays so, and Close returns after it.
DrainInv ==
    /\ closed <=> closer # "idle"
    /\ spc[Worker] = "exited" => closed /\ queue = <<>>
    /\ closer = "returned" => spc[Worker] = "exited"

LEMMA DrainInductive == TypeOK /\ DrainInv /\ [Next]_vars => DrainInv'
<1> SUFFICES ASSUME TypeOK, DrainInv, [Next]_vars PROVE DrainInv'
  OBVIOUS
<1> USE DEF DrainInv
<1>1. ASSUME NEW r \in Requests, Request(r) PROVE DrainInv'
  <2>1. CASE Send(r)
    <3>1. ~ closed
      BY <2>1 DEF Send
    <3> QED BY <1>1, <3>1, RequestLeavesWorker
  <2>2. CASE ~ Send(r)
    BY <1>1, <2>2, RequestLeavesWorker, OnlySendsQueue
  <2> QED BY <2>1, <2>2
<1>2. ASSUME NEW s \in Savers, Save(s) PROVE DrainInv'
  <2>1. spc[s] \in Working /\ \E where \in Working, err \in BOOLEAN : Go(s, where, err)
    BY <1>2, Zenon DEF Save, StatFails, Skip, StatAbsent, OpenFails, Open, WriteFails, Write,
                       IndexFails, Insert, Bump, Working
  <2>2. UNCHANGED <<queue, closed, closer>> /\ (spc'[Worker] = "exited" <=> spc[Worker] = "exited")
    BY <2>1 DEF Go, TypeOK, SaversOK, Working
  <2> QED BY <2>2
<1>3. CASE Receive \/ Exit \/ Record
  BY <1>3 DEF Receive, Exit, Record, TypeOK, SaversOK, Savers
<1>4. CASE Close \/ CloseReturns \/ Upload \/ UNCHANGED vars
  BY <1>4 DEF Close, CloseReturns, Upload, vars, TypeOK, QueueOK
<1>5. CASE Kill
  BY <1>5 DEF Kill, Savers
<1> QED BY <1>1, <1>2, <1>3, <1>4, <1>5 DEF Next

\* Close comes back when each answer that was taken in has been saved or has failed, those that
\* waited when it was called and those sent while it was called included.
THEOREM Drained == Spec => []DrainedOnClose
<1>1. Init => DrainInv
  BY DEF Init, DrainInv, Savers
<1>2. TypeOK /\ CountInv /\ DrainInv => DrainedOnClose
  <2> SUFFICES ASSUME TypeOK, CountInv, DrainInv, closer = "returned"
               PROVE  Cardinality({r \in Requests : fate[r] # None}) = enqueued + Cardinality(Uncounted)
    BY DEF DrainedOnClose
  <2>1. Len(queue) = 0 /\ spc[Worker] \notin Working
    BY DEF DrainInv, Working
  <2>2. enqueued + Cardinality(Uncounted) = Cardinality(Fated("failed")) + Cardinality(Fated("saved"))
    BY <2>1, TermsAreNumbers DEF CountInv, StatsAddUp, Fated
  <2>3. {r \in Requests : fate[r] # None} = Fated("failed") \cup Fated("saved")
    BY NoneAssumption DEF Fated, TypeOK, SaversOK
  <2>4. IsFiniteSet(Fated("failed")) /\ IsFiniteSet(Fated("saved"))
    BY FinitelyMany DEF Fated
  <2>5. Fated("failed") \cap Fated("saved") = {} /\ Cardinality({}) = 0
    BY FS_EmptySet DEF Fated
  <2>6. Cardinality(Fated("failed") \cup Fated("saved"))
          = Cardinality(Fated("failed")) + Cardinality(Fated("saved")) - 0
    BY <2>4, <2>5, FS_Union
  <2>7. Cardinality(Fated("failed")) \in Nat /\ Cardinality(Fated("saved")) \in Nat
    BY TermsAreNumbers
  <2>8. Cardinality(Fated("failed") \cup Fated("saved")) = enqueued + Cardinality(Uncounted)
    BY <2>2, <2>6, <2>7
  <2> QED BY <2>3, <2>8, Zenon
<1> QED BY <1>1, <1>2, Typing, CountAlways, DrainInductive, PTL DEF Spec

-----------------------------------------------------------------------------
(* Flights.                                                                *)

SameKey(q, r) == query[q] = query[r] /\ gen[q] = gen[r]

\* webSearchGroup: a query of one generation is searched by one request at a time, and who waits
\* waits for a search that is under way, of what it asked itself.
FlightInv ==
    /\ \A l, m \in Requests : pc[l] \in Leading /\ pc[m] \in Leading /\ SameKey(l, m) => l = m
    /\ \A f \in Requests : leader[f] # None =>
         leader[f] \in Requests /\ pc[leader[f]] \in Leading /\ SameKey(leader[f], f)

\* The end of a flight ends it for all that are in it.
LEMMA LandKeepsFlights ==
    ASSUME TypeOK, FlightInv, NEW r \in Requests, NEW how \in Over, pc[r] \in Leading,
           Land(r, how), UNCHANGED <<query, gen>>
    PROVE  FlightInv'
<1>1. \A q \in Requests : pc'[q] \in Leading => pc[q] \in Leading /\ q # r
  BY DEF Land, Over, Leading
<1>2. \A l, m \in Requests : SameKey(l, m)' <=> SameKey(l, m)
  BY DEF SameKey
<1>3. ASSUME NEW f \in Requests, leader'[f] # None
      PROVE  leader'[f] = leader[f] /\ leader[f] # r
  BY <1>3 DEF Land, FollowersOf, TypeOK, RequestsOK
<1>4. ASSUME NEW f \in Requests, leader'[f] # None
      PROVE  pc'[leader'[f]] \in Leading
  <2>1. leader[f] \in Requests /\ leader[f] # r /\ pc[leader[f]] \in Leading /\ leader'[f] = leader[f]
    BY <1>3, <1>4 DEF FlightInv
  <2>2. leader[f] \notin FollowersOf(r)
    BY <2>1 DEF FollowersOf, Leading
  <2> QED BY <2>1, <2>2 DEF Land
<1> QED BY <1>1, <1>2, <1>3, <1>4 DEF FlightInv

LEMMA FlightRequest ==
    ASSUME TypeOK, FlightInv, NEW r \in Requests, Request(r)
    PROVE  FlightInv'
<1> USE DEF TypeOK, RequestsOK, SameKey
<1>1. CASE ReadGeneration(r)
  <2>1. \A f \in Requests : leader[f] # r
    BY <1>1, NoneAssumption DEF ReadGeneration, FlightInv, Leading
  <2> QED BY <1>1, <2>1 DEF ReadGeneration, FlightInv, Leading
<1>2. CASE Lead(r)
  BY <1>2 DEF Lead, Flights, FlightInv, Leading
<1>3. CASE Follow(r)
  BY <1>3 DEF Follow, Flights, FlightInv, Leading
<1>4. CASE AnswerFit(r) \/ EnqueueOpen(r) \/ Send(r) \/ SaveHere(r)
  <2>1. pc[r] \in Leading /\ (\E to \in Leading : pc' = [pc EXCEPT ![r] = to]) /\ UNCHANGED <<query, gen, leader>>
    BY <1>4 DEF AnswerFit, EnqueueOpen, Send, SaveHere, Leading
  <2> QED BY <2>1 DEF FlightInv
<1>5. CASE SearchFails(r) \/ AnswerUnfit(r) \/ EnqueueClosed(r) \/ Count(r) \/ QueueFull(r)
             \/ SendPanics(r) \/ SavedHere(r)
  <2>1. \E how \in Over : Land(r, how)
    BY <1>5 DEF SearchFails, AnswerUnfit, EnqueueClosed, Count, QueueFull, SendPanics, SavedHere, Over
  <2>2. pc[r] \in Leading /\ UNCHANGED <<query, gen>>
    BY <1>5 DEF SearchFails, AnswerUnfit, EnqueueClosed, Count, QueueFull, SendPanics, SavedHere,
                SaversOK, Leading
  <2> QED BY <2>1, <2>2, LandKeepsFlights
<1> QED BY <1>1, <1>2, <1>3, <1>4, <1>5 DEF Request

LEMMA FlightInductive == TypeOK /\ FlightInv /\ [Next]_vars => FlightInv'
<1> SUFFICES ASSUME TypeOK, FlightInv, [Next]_vars PROVE FlightInv'
  OBVIOUS
<1>1. CASE \E r \in Requests : Request(r)
  BY <1>1, FlightRequest
<1>2. CASE (\E s \in Savers : Save(s)) \/ Receive \/ Exit \/ Record
  <2>1. UNCHANGED <<query, pc, gen, leader>>
    BY <1>2 DEF Save, StatFails, Skip, StatAbsent, OpenFails, Open, WriteFails, Write, IndexFails,
                Insert, Bump, Go, Receive, Exit, Record
  <2> QED BY <2>1 DEF FlightInv, SameKey
<1>3. CASE Close \/ CloseReturns \/ Upload \/ UNCHANGED vars
  BY <1>3 DEF Close, CloseReturns, Upload, vars, FlightInv, SameKey
<1>4. CASE Kill
  <2>1. \A r \in Requests : pc'[r] \in {"idle", "lost"} /\ leader'[r] = None
    BY <1>4 DEF Kill
  <2> QED BY <2>1 DEF FlightInv, Leading
<1> QED BY <1>1, <1>2, <1>3, <1>4 DEF Next

\* The web is asked once at a time for a query of one generation, however many requests fall back to
\* it, and nobody waits for a search that is over, for another one or for one that was killed.
THEOREM OneFlight == Spec => []FlightInv
<1>1. Init => FlightInv
  BY DEF Init, FlightInv, Leading
<1> QED BY <1>1, Typing, FlightInductive, PTL DEF Spec
=============================================================================
