--------------------------- MODULE KnowledgeStore ---------------------------
(***************************************************************************)
(* How an answer of the web search becomes local knowledge: the web branch *)
(* of SmartRetrieve, persistSearchResult and saveSearchResult of           *)
(* internal/rag/service.go, and the persistQueue between them.             *)
(*                                                                         *)
(* Processes: one goroutine per request that fell back to the web, the     *)
(* worker of the persist queue, and the goroutine that closes it. With     *)
(* ASYNC_KNOWLEDGE_PERSIST off there is no queue and the request that led  *)
(* the search saves the answer itself. The process may be killed and       *)
(* started again: files and vectors stay, memory does not.                 *)
(*                                                                         *)
(* A document is a query with an answer to it, which is what its file name *)
(* is a hash of.                                                           *)
(***************************************************************************)
EXTENDS Naturals, Sequences, FiniteSets

CONSTANTS Requests,   \* requests whose local results were not good enough
          Queries,    \* what they ask, trimmed
          Answers,    \* answers of the web search worth saving
          Worker,     \* the goroutine of persistQueue.run
          QueueSize,  \* PERSIST_QUEUE_SIZE
          Modes,      \* the values ASYNC_KNOWLEDGE_PERSIST is given
          MaxUploads, \* bound on the uploads indexed meanwhile
          MaxKills,   \* bound on the kills of the process
          None

ASSUME QueueAssumption    == QueueSize \in Nat \ {0}
ASSUME ModesAssumption    == Modes \subseteq BOOLEAN
ASSUME BoundsAssumption   == MaxUploads \in Nat /\ MaxKills \in Nat
ASSUME WorkerAssumption   == Worker \notin Requests
ASSUME NoneAssumption     == None \notin Requests \cup {Worker} \cup Answers \cup {"saved", "failed"}
ASSUME RequestsAssumption == IsFiniteSet(Requests)

Documents == Queries \X Answers
Savers    == Requests \cup {Worker}

VARIABLES
    async,      \* whether answers go through the queue
    query,      \* what each request asks
    pc,         \* where each request is
    gen,        \* the generation a request has read, part of its flight's key
    leader,     \* whose flight of webSearchGroup a request waits for, or None
    answer,     \* the answer a flight's leader got and will save
    queue,      \* q.tasks: the requests whose answers wait
    closed,     \* q.closed, and the channel with it
    closer,     \* "idle", "waiting" in wg.Wait, "returned"
    enqueued,   \* q.enqueued
    dropped,    \* q.dropped
    failed,     \* q.failed
    spc,        \* where each saver is
    job,        \* the request whose answer a saver saves
    bad,        \* whether the save failed
    fate,       \* how the worker's save of a request's answer ended
    disk,       \* each document's file: "absent", "partial", "whole"
    inserted,   \* how often each document has been inserted into Milvus
    generation, \* s.indexGeneration
    uploads,    \* uploads indexed so far
    kills       \* kills so far

requestVars == <<query, pc, gen, leader, answer>>
queueVars   == <<queue, closed, closer, enqueued, dropped, failed>>
saverVars   == <<spc, job, bad, fate>>
storeVars   == <<disk, inserted>>
worldVars   == <<async, uploads, kills>>

vars == <<requestVars, queueVars, saverVars, storeVars, generation, worldVars>>

-----------------------------------------------------------------------------
\* Requests before, in and after their flight.
Leading == {"searching", "answered", "offering", "sent", "saving"}
Over    == {"returned", "error", "panicked", "lost"}
RequestPCs == {"idle", "joining", "following"} \cup Leading \cup Over

SaverPCs == {"idle", "stat", "open", "writing", "index", "bump", "done", "exited"}

Document(r) == <<query[r], answer[r]>>

Init == /\ async \in Modes
        /\ query \in [Requests -> Queries]
        /\ pc = [r \in Requests |-> "idle"]
        /\ gen = [r \in Requests |-> 0]
        /\ leader = [r \in Requests |-> None]
        /\ answer = [r \in Requests |-> None]
        /\ queue = <<>>
        /\ closed = FALSE
        /\ closer = "idle"
        /\ enqueued = 0
        /\ dropped = 0
        /\ failed = 0
        /\ spc = [s \in Savers |-> "idle"]
        /\ job = [s \in Savers |-> None]
        /\ bad = [s \in Savers |-> FALSE]
        /\ fate = [r \in Requests |-> None]
        /\ disk = [d \in Documents |-> "absent"]
        /\ inserted = [d \in Documents |-> 0]
        /\ generation = 0
        /\ uploads = 0
        /\ kills = 0

-----------------------------------------------------------------------------
(* SmartRetrieve, from the line that reads the generation on.              *)

ReadGeneration(r) ==
    /\ pc[r] = "idle"
    /\ gen' = [gen EXCEPT ![r] = generation]
    /\ pc' = [pc EXCEPT ![r] = "joining"]
    /\ UNCHANGED <<query, leader, answer, queueVars, saverVars, storeVars,
                   generation, worldVars>>

\* webSearchGroup.Do: one flight per query and generation. A flight ends for
\* its leader and its followers at once.
Flights(r) == {l \in Requests : pc[l] \in Leading /\ query[l] = query[r] /\ gen[l] = gen[r]}
FollowersOf(r) == {f \in Requests : pc[f] = "following" /\ leader[f] = r}
Land(r, how) ==
    /\ pc' = [q \in Requests |-> IF q = r \/ q \in FollowersOf(r) THEN how ELSE pc[q]]
    /\ leader' = [q \in Requests |-> IF q \in FollowersOf(r) THEN None ELSE leader[q]]
LandAlone(r, how) == \* Variant: a panic does not reach the followers.
    /\ pc' = [pc EXCEPT ![r] = how]
    /\ UNCHANGED leader

Lead(r) ==
    /\ pc[r] = "joining"
    /\ Flights(r) = {}
    /\ pc' = [pc EXCEPT ![r] = "searching"]
    /\ UNCHANGED <<query, gen, leader, answer, queueVars, saverVars, storeVars,
                   generation, worldVars>>

Follow(r) ==
    /\ pc[r] = "joining"
    /\ \E l \in Flights(r) : leader' = [leader EXCEPT ![r] = l]
    /\ pc' = [pc EXCEPT ![r] = "following"]
    /\ UNCHANGED <<query, gen, answer, queueVars, saverVars, storeVars,
                   generation, worldVars>>

\* The web search fails, ...
SearchFails(r) ==
    /\ pc[r] = "searching"
    /\ Land(r, "error")
    /\ UNCHANGED <<query, gen, answer, queueVars, saverVars, storeVars,
                   generation, worldVars>>

\* ... or it answers nothing shouldPersistKnowledge lets through, ...
AnswerUnfit(r) ==
    /\ pc[r] = "searching"
    /\ Land(r, "returned")
    /\ UNCHANGED <<query, gen, answer, queueVars, saverVars, storeVars,
                   generation, worldVars>>

\* ... or something worth saving: the flight goes on into persistSearchResult.
AnswerFit(r) ==
    /\ pc[r] = "searching"
    /\ \E a \in Answers : answer' = [answer EXCEPT ![r] = a]
    /\ pc' = [pc EXCEPT ![r] = "answered"]
    /\ UNCHANGED <<query, gen, leader, queueVars, saverVars, storeVars,
                   generation, worldVars>>

-----------------------------------------------------------------------------
(* persistQueue.Enqueue: the flag is read under the lock, the send is tried *)
(* outside it.                                                              *)

EnqueueClosed(r) ==
    /\ pc[r] = "answered"
    /\ async
    /\ closed
    /\ dropped' = dropped + 1
    /\ Land(r, "returned")
    /\ UNCHANGED <<query, gen, answer, queue, closed, closer, enqueued, failed,
                   saverVars, storeVars, generation, worldVars>>

EnqueueOpen(r) ==
    /\ pc[r] = "answered"
    /\ async
    /\ ~closed
    /\ pc' = [pc EXCEPT ![r] = "offering"]
    /\ UNCHANGED <<query, gen, leader, answer, queueVars, saverVars, storeVars,
                   generation, worldVars>>

SendUnbounded(r) == \* Variant: an unbounded queue.
    /\ pc[r] = "offering"
    /\ ~closed
    /\ queue' = Append(queue, r)
    /\ pc' = [pc EXCEPT ![r] = "sent"]
    /\ UNCHANGED <<query, gen, leader, answer, closed, closer, enqueued, dropped,
                   failed, saverVars, storeVars, generation, worldVars>>

Send(r) ==
    /\ pc[r] = "offering"
    /\ ~closed
    /\ Len(queue) < QueueSize
    /\ queue' = Append(queue, r)
    /\ pc' = [pc EXCEPT ![r] = "sent"]
    /\ UNCHANGED <<query, gen, leader, answer, closed, closer, enqueued, dropped,
                   failed, saverVars, storeVars, generation, worldVars>>

Count(r) ==
    /\ pc[r] = "sent"
    /\ enqueued' = enqueued + 1
    /\ Land(r, "returned")
    /\ UNCHANGED <<query, gen, answer, queue, closed, closer, dropped, failed,
                   saverVars, storeVars, generation, worldVars>>

QueueFull(r) ==
    /\ pc[r] = "offering"
    /\ ~closed
    /\ Len(queue) = QueueSize
    /\ dropped' = dropped + 1
    /\ Land(r, "returned")
    /\ UNCHANGED <<query, gen, answer, queue, closed, closer, enqueued, failed,
                   saverVars, storeVars, generation, worldVars>>

\* Close came between the flag and the send. The panic leaves the flight, which
\* hands it to every follower; each request is answered 500.
SendPanicsAlone(r) == \* Variant: only the leader panics.
    /\ pc[r] = "offering"
    /\ closed
    /\ LandAlone(r, "panicked")
    /\ UNCHANGED <<query, gen, answer, queueVars, saverVars, storeVars,
                   generation, worldVars>>

SendPanics(r) ==
    /\ pc[r] = "offering"
    /\ closed
    /\ Land(r, "panicked")
    /\ UNCHANGED <<query, gen, answer, queueVars, saverVars, storeVars,
                   generation, worldVars>>

-----------------------------------------------------------------------------
(* Who saves: the worker what it receives, or the request its own answer.  *)

ReceiveWhileOpen == \* Variant: the flag is looked at before the channel.
    /\ spc[Worker] = "idle"
    /\ ~closed
    /\ queue # <<>>
    /\ job' = [job EXCEPT ![Worker] = Head(queue)]
    /\ queue' = Tail(queue)
    /\ spc' = [spc EXCEPT ![Worker] = "stat"]
    /\ UNCHANGED <<requestVars, closed, closer, enqueued, dropped, failed, bad, fate,
                   storeVars, generation, worldVars>>

Receive ==
    /\ spc[Worker] = "idle"
    /\ queue # <<>>
    /\ job' = [job EXCEPT ![Worker] = Head(queue)]
    /\ queue' = Tail(queue)
    /\ spc' = [spc EXCEPT ![Worker] = "stat"]
    /\ UNCHANGED <<requestVars, closed, closer, enqueued, dropped, failed, bad, fate,
                   storeVars, generation, worldVars>>

ExitUndrained == \* Variant: leaves on the flag, not on the drained channel.
    /\ spc[Worker] = "idle"
    /\ closed
    /\ spc' = [spc EXCEPT ![Worker] = "exited"]
    /\ UNCHANGED <<requestVars, queueVars, job, bad, fate, storeVars, generation,
                   worldVars>>

Exit ==
    /\ spc[Worker] = "idle"
    /\ closed
    /\ queue = <<>>
    /\ spc' = [spc EXCEPT ![Worker] = "exited"]
    /\ UNCHANGED <<requestVars, queueVars, job, bad, fate, storeVars, generation,
                   worldVars>>

SaveHere(r) ==
    /\ pc[r] = "answered"
    /\ ~async
    /\ pc' = [pc EXCEPT ![r] = "saving"]
    /\ job' = [job EXCEPT ![r] = r]
    /\ spc' = [spc EXCEPT ![r] = "stat"]
    /\ UNCHANGED <<query, gen, leader, answer, queueVars, bad, fate, storeVars,
                   generation, worldVars>>

-----------------------------------------------------------------------------
(* saveSearchResult.                                                       *)

\* A step of saver s that only moves it, with or without an error.
Go(s, where, err) ==
    /\ spc' = [spc EXCEPT ![s] = where]
    /\ bad' = [bad EXCEPT ![s] = err]
    /\ UNCHANGED <<requestVars, queueVars, job, fate, worldVars>>

Saved(s) == Document(job[s])

\* MkdirAll or Stat fails, ...
StatFails(s) ==
    /\ spc[s] = "stat"
    /\ Go(s, "done", TRUE)
    /\ UNCHANGED <<storeVars, generation>>

\* ... or there is a file of that name already: nothing to do, no error, ...
Skip(s) ==
    /\ spc[s] = "stat"
    /\ disk[Saved(s)] # "absent"
    /\ Go(s, "done", FALSE)
    /\ UNCHANGED <<storeVars, generation>>

\* ... or there is none yet.
StatAbsentBlind(s) == \* Variant: no check for a duplicate.
    /\ spc[s] = "stat"
    /\ Go(s, "open", FALSE)
    /\ UNCHANGED <<storeVars, generation>>

StatAbsent(s) ==
    /\ spc[s] = "stat"
    /\ disk[Saved(s)] = "absent"
    /\ Go(s, "open", FALSE)
    /\ UNCHANGED <<storeVars, generation>>

\* WriteFile opens, creating or truncating, then writes; either may fail.
OpenFails(s) ==
    /\ spc[s] = "open"
    /\ Go(s, "done", TRUE)
    /\ UNCHANGED <<storeVars, generation>>

Open(s) ==
    /\ spc[s] = "open"
    /\ disk' = [disk EXCEPT ![Saved(s)] = "partial"]
    /\ Go(s, "writing", FALSE)
    /\ UNCHANGED <<inserted, generation>>

WriteFails(s) ==
    /\ spc[s] = "writing"
    /\ Go(s, "done", TRUE)
    /\ UNCHANGED <<storeVars, generation>>

WriteInBackground(s) == \* Variant: the file is finished after the answer is indexed.
    /\ spc[s] = "writing"
    /\ Go(s, "index", FALSE)
    /\ UNCHANGED <<storeVars, generation>>

Write(s) ==
    /\ spc[s] = "writing"
    /\ disk' = [disk EXCEPT ![Saved(s)] = "whole"]
    /\ Go(s, "index", FALSE)
    /\ UNCHANGED <<inserted, generation>>

\* IndexDocument: embedding or insertion fails or times out, in the latter case
\* perhaps after the vectors went in, ...
IndexFails(s) ==
    /\ spc[s] = "index"
    /\ \/ UNCHANGED inserted
       \/ inserted' = [inserted EXCEPT ![Saved(s)] = @ + 1]
    /\ Go(s, "done", TRUE)
    /\ UNCHANGED <<disk, generation>>

\* ... or they are in, and after them the generation is advanced.
Insert(s) ==
    /\ spc[s] = "index"
    /\ inserted' = [inserted EXCEPT ![Saved(s)] = @ + 1]
    /\ Go(s, "bump", FALSE)
    /\ UNCHANGED <<disk, generation>>

Bump(s) ==
    /\ spc[s] = "bump"
    /\ generation' = generation + 1
    /\ Go(s, "done", FALSE)
    /\ UNCHANGED storeVars

\* The end of a save: the worker records how it went ...
RecordUncounted == \* Variant: failures are not counted.
    /\ spc[Worker] = "done"
    /\ fate' = [fate EXCEPT ![job[Worker]] = IF bad[Worker] THEN "failed" ELSE "saved"]
    /\ job' = [job EXCEPT ![Worker] = None]
    /\ bad' = [bad EXCEPT ![Worker] = FALSE]
    /\ spc' = [spc EXCEPT ![Worker] = "idle"]
    /\ UNCHANGED <<requestVars, queueVars, storeVars, generation, worldVars>>

Record ==
    /\ spc[Worker] = "done"
    /\ failed' = IF bad[Worker] THEN failed + 1 ELSE failed
    /\ fate' = [fate EXCEPT ![job[Worker]] = IF bad[Worker] THEN "failed" ELSE "saved"]
    /\ job' = [job EXCEPT ![Worker] = None]
    /\ bad' = [bad EXCEPT ![Worker] = FALSE]
    /\ spc' = [spc EXCEPT ![Worker] = "idle"]
    /\ UNCHANGED <<requestVars, queue, closed, closer, enqueued, dropped, storeVars,
                   generation, worldVars>>

\* ... and a request, whatever the outcome, returns the answer.
SavedHere(r) ==
    /\ spc[r] = "done"
    /\ Land(r, "returned")
    /\ job' = [job EXCEPT ![r] = None]
    /\ bad' = [bad EXCEPT ![r] = FALSE]
    /\ spc' = [spc EXCEPT ![r] = "idle"]
    /\ UNCHANGED <<query, gen, answer, queueVars, fate, storeVars, generation,
                   worldVars>>

-----------------------------------------------------------------------------
(* Around it: Close, uploads, which advance the generation too, and kills. *)

Close ==
    /\ async
    /\ closer = "idle"
    /\ closed' = TRUE
    /\ closer' = "waiting"
    /\ UNCHANGED <<requestVars, queue, enqueued, dropped, failed, saverVars,
                   storeVars, generation, worldVars>>

CloseReturns ==
    /\ closer = "waiting"
    /\ spc[Worker] = "exited"
    /\ closer' = "returned"
    /\ UNCHANGED <<requestVars, queue, closed, enqueued, dropped, failed, saverVars,
                   storeVars, generation, worldVars>>

Upload ==
    /\ uploads < MaxUploads
    /\ uploads' = uploads + 1
    /\ generation' = generation + 1
    /\ UNCHANGED <<requestVars, queueVars, saverVars, storeVars, async, kills>>

\* Killed and started again; requests that had not come in yet still may.
Kill ==
    /\ kills < MaxKills
    /\ kills' = kills + 1
    /\ pc' = [r \in Requests |-> IF pc[r] = "idle" THEN "idle" ELSE "lost"]
    /\ leader' = [r \in Requests |-> None]
    /\ queue' = <<>>
    /\ closed' = FALSE
    /\ closer' = "idle"
    /\ enqueued' = 0
    /\ dropped' = 0
    /\ failed' = 0
    /\ spc' = [s \in Savers |-> "idle"]
    /\ job' = [s \in Savers |-> None]
    /\ bad' = [s \in Savers |-> FALSE]
    /\ fate' = [r \in Requests |-> None]
    /\ generation' = 0
    /\ UNCHANGED <<query, gen, answer, storeVars, async, uploads>>

-----------------------------------------------------------------------------
Request(r) ==
    \/ ReadGeneration(r) \/ Lead(r) \/ Follow(r)
    \/ SearchFails(r) \/ AnswerUnfit(r) \/ AnswerFit(r)
    \/ EnqueueClosed(r) \/ EnqueueOpen(r)
    \/ Send(r) \/ Count(r) \/ QueueFull(r) \/ SendPanics(r)
    \/ SaveHere(r) \/ SavedHere(r)

Save(s) == \/ StatFails(s) \/ Skip(s) \/ StatAbsent(s)
           \/ OpenFails(s) \/ Open(s) \/ WriteFails(s) \/ Write(s)
           \/ IndexFails(s) \/ Insert(s) \/ Bump(s)

Next == \/ \E r \in Requests : Request(r)
        \/ \E s \in Savers : Save(s)
        \/ Receive \/ Exit \/ Record
        \/ Close \/ CloseReturns
        \/ Upload
        \/ Kill

\* A goroutine that can run does, the web search ends by the deadline of its query
\* and the worker's save by its own of 30 seconds. A save by the request itself
\* runs under context.Background() and may take for ever; nothing makes requests
\* come, uploads happen or the process stop.
Fairness == /\ \A r \in Requests : WF_vars(pc[r] # "idle" /\ Request(r))
            /\ WF_vars(Save(Worker) \/ Receive \/ Exit \/ Record)
            /\ WF_vars(CloseReturns)

Spec == Init /\ [][Next]_vars /\ Fairness

-----------------------------------------------------------------------------
(* Properties.                                                             *)

Working == {"stat", "open", "writing", "index", "bump", "done"}

\* Every variable has its Go type; a saver has a job exactly while it works, a
\* request a leader exactly while it follows one, and it saves only inside its
\* own flight; the channel keeps its bound.
RequestsOK == /\ query \in [Requests -> Queries]
              /\ pc \in [Requests -> RequestPCs]
              /\ gen \in [Requests -> Nat]
              /\ leader \in [Requests -> Requests \cup {None}]
              /\ \A r \in Requests : leader[r] # None <=> pc[r] = "following"
              /\ answer \in [Requests -> Answers \cup {None}]

QueueOK == /\ queue \in Seq(Requests) /\ Len(queue) <= QueueSize
           /\ closed \in BOOLEAN
           /\ closer \in {"idle", "waiting", "returned"}
           /\ enqueued \in Nat /\ dropped \in Nat /\ failed \in Nat

SaversOK == /\ spc \in [Savers -> SaverPCs]
            /\ job \in [Savers -> Requests \cup {None}]
            /\ \A s \in Savers : job[s] # None <=> spc[s] \in Working
            /\ \A r \in Requests : spc[r] # "idle" => pc[r] = "saving"
            /\ bad \in [Savers -> BOOLEAN]
            /\ fate \in [Requests -> {None, "saved", "failed"}]

StoreOK == /\ disk \in [Documents -> {"absent", "partial", "whole"}]
           /\ inserted \in [Documents -> Nat]
           /\ generation \in Nat

WorldOK == async \in BOOLEAN /\ uploads \in 0..MaxUploads /\ kills \in 0..MaxKills

TypeOK == RequestsOK /\ QueueOK /\ SaversOK /\ StoreOK /\ WorldOK

\* The deduplication of README.md:179 as the queue gives it: whatever is killed or
\* fails in between, no document is ever inserted into the index twice.
IndexedOnce == async => \A d \in Documents : inserted[d] <= 1

\* What is in the index can be found again on disk, whole: the file is complete
\* before the insertion starts, and the queue's worker never touches it again.
IndexedIsOnDisk == async => \A d \in Documents : inserted[d] > 0 => disk[d] = "whole"

\* What makes the two inductive: an answer that is being handed over or saved is
\* fixed, with a queue only the worker saves, and a save knows what Stat told it.
Handed == {"sent", "returned"}
AnswersInv ==
    /\ \A r \in Requests : pc[r] \in {"answered", "offering", "sent", "saving"}
                            => answer[r] \in Answers
    /\ \A i \in 1..Len(queue) : pc[queue[i]] \in Handed /\ answer[queue[i]] \in Answers
    /\ job[Worker] # None => pc[job[Worker]] \in Handed /\ answer[job[Worker]] \in Answers

DedupInv ==
    async => /\ \A r \in Requests : spc[r] = "idle"
             /\ spc[Worker] = "open"    => disk[Saved(Worker)] = "absent"
             /\ spc[Worker] = "writing" => disk[Saved(Worker)] = "partial"
             /\ spc[Worker] = "index"   => disk[Saved(Worker)] = "whole"
                                            /\ inserted[Saved(Worker)] = 0
             /\ IndexedOnce /\ IndexedIsOnDisk

\* The statistics of GET /metrics: every answer counted in, or sent and about to
\* be counted, waits, is being saved, or was saved or counted as failed.
Uncounted == {r \in Requests : pc[r] = "sent"}
Busy      == {s \in {Worker} : spc[s] \in Working}
StatsAddUp ==
    enqueued + Cardinality(Uncounted)
      = Len(queue) + Cardinality(Busy) + failed
          + Cardinality({r \in Requests : fate[r] = "saved"})

\* Close of the queue returns only when every answer that went into it has been
\* saved or has failed, those waiting when it was called included.
DrainedOnClose ==
    closer = "returned" => Cardinality({r \in Requests : fate[r] # None})
                             = enqueued + Cardinality(Uncounted)

\* With the queue, every request that came in is answered, however slow or broken
\* the saving is: a flight ends for its followers too, whether it returns, fails
\* or panics.
Answered == \A r \in Requests : async /\ pc[r] = "joining" ~> pc[r] \in Over

\* Close does return: the worker gets through what is left.
CloseEnds == closer = "waiting" ~> closer # "waiting"

\* README.md:179 as it stands, for either setting: content that exists already is
\* recognised by its hash, and not written and indexed again.
NeverIndexedTwice == \A d \in Documents : inserted[d] <= 1
=============================================================================
