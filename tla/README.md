# A verification project for go-eino-agent

The repository is a Go service that answers questions from a local knowledge
base (Milvus), from the web, and with agents. Files are uploaded and indexed in
the background, answers of the web search are saved as local knowledge, and
retrieval runs through two levels of caches and of shared calls
(`golang.org/x/sync/singleflight`). This directory holds TLA+ modules translated
from that code, TLC configurations that check them, and proofs for TLAPS.

Run them here:

    tlc -workers 2 -config UploadTasks.cfg MCUploadTasks.tla
    tlapm UploadTasksProofs.tla

`PROJECT.json` lists the components, the runs, a mutant for each property (a
plausible bug of the code, as a definition beside the real one, that the property
must find), the source lines of each definition, the hazards and the theorems.

## The system

| component | state | operations | talks to |
|---|---|---|---|
| upload task queue (`handler/upload_tasks.go`, `upload.go`) | task map, channel, counters, tasks, saved files | `HandleUpload`, `HandleUploadStatus`, `Enqueue`, `Get`, `worker`, `Close` | `Service.IndexFile` as the indexer |
| knowledge persistence (`rag/service.go`, `persist_queue.go`) | queue, counters, files of `auto_knowledge`, vectors | web branch of `SmartRetrieve`, `persistSearchResult`, `saveSearchResult`, `Enqueue`, `run`, `Close` | web tool, disk, `IndexDocument` |
| retrieval (`rag/service.go`, `cache/ttl_cache.go`) | three caches, flights, `indexGeneration` | `Search`, `BuildContext`, `IndexDocument` | Milvus, embedding |
| Milvus client (`vectordb/milvus.go`) | flush signal, timer, `pending` | `Insert`, `Search`, `flushLoop`, `Close` | Milvus |
| query handler (`handler/query*.go`, `sse.go`) | limiter per client, request trace, event stream | `HandleQuery`, policies, fallback, streaming | retrieval, agents, graphs |
| agents (`agent/*`) and graphs (`graph/graph.go`) | plan, trace, step results, an `errgroup` | `PlanAndProcess`, `ReActAgent.Run`, `RAGAgent.Run`, `RAGGraph.Run`, `MultiStageGraph.Run`, `GuardedTool.InvokableRun` | models, tools, retrieval |
| tools (`tool/*`) | the hot word tool's cache | `InvokableRun` | Milvus, Baidu, a model |
| middleware (`cmd/server/middleware.go`) | counters, limiter per address | per request | everything |
| runtime status (`handler/runtime_status.go`) | component table | `SetComponent`, `Snapshot` | start-up, `/health` |
| chunking (`parser/chunk.go`), guards (`rag/search_guard.go`, `knowledge_guard.go`) | none | pure functions | retrieval |
| wiring, configuration, logging, embedding client, command line tools | set once, or none | | |

They share memory (caches, counters, the task map), channels (the two queues, the
flush signal), shared calls, and one number: `indexGeneration`, which every
insertion advances and which is part of every cache entry and flight key. Shutdown
is `http.Server.Shutdown` with a time limit, which requests may outlive, then
`Handler.Close`: the upload queue, the persist queue, the Milvus client.

What is hard, and what makes each part right:

- **Uploads.** Snapshots read tasks without the lock; Close may come between the
  check of `closed` and the send; ids come from the clock; files are named by the
  second. Right means: a task is in one place, accepted tasks finish once and are
  found under their ids, the statistics add up, Close leaves nothing behind.
- **Persistence.** Stat, write, embed, insert and advance are separate steps of
  several savers, each may fail, and the process may die between any two. Right
  means: an answer is indexed once, only with its file whole, and the request is
  answered whatever happens to the save.
- **Retrieval.** A result is computed, stored and handed on at different moments
  from the one its generation was read at, and to retrievals that did not compute
  it. Right means: no answer is older than the index its request met; a flight's
  end reaches everybody in it; errors go to whom they concern.
- **Flush.** Signals are dropped and coalesced, flushes fail, Close races with
  signals. Right means: no stored document is forgotten while the client is open.
- **Queries.** A mode and its fallback share a deadline and a stream; the mode is kept in
  three places; metrics are counted and read one by one. Right means: a
  stream is of one mode and ends once, only what was initialised runs, a report fits.
- **Limits.** Requests reach a mutex in another order than that of their times; buckets
  are forgotten. Right means: no client gets more than its rate and what forgetting its bucket
  gives, and none is refused for long.
- **Agents.** Plan steps run in parallel, whatever they depend on, share a trace, and the first
  error cancels the rest; a guard judges calls and results of tools, a validator answers. Right
  means: the request comes back after its last step with the first error or an answer that has
  what each step found, by its deadline if its retrieval has one, and the trace says what happened.
- **Texts.** Cutting, ranking, and packing into a budget are loops with early ends. Right
  means: no text is lost, nothing better is left out for something worse.

## Modules

| module | models | about |
|---|---|---|
| `UploadBoard` | | abstract: uploads are accepted or refused, finished once, within a bounded backlog, none after shutdown began |
| `UploadTasks` | `upload_tasks.go`, `upload.go` | one action between any two points where another goroutine can act; implements `UploadBoard` |
| `KnowledgeStore` | `persist_queue.go`, `service.go:231-361` | flights, queue, savers, disk, kills |
| `FreshIndex` | | abstract: an answer has everything that was searchable when the index was last published before the request |
| `RagSearch` | `service.go:137-229,435-463`, `ttl_cache.go` | caches, two levels of flights, generations; implements `FreshIndex` |
| `FlushLoop` | `milvus.go:146-280` | the debounced flush and its shutdown |
| `RateLimiter` | `query_policy.go:95-186`, `middleware.go:341-406` | the two token buckets a request passes |
| `AnswerStream` | | abstract: a response is refused, or a stream of one mode that ends once |
| `QueryHandler` | `query.go`, `sse.go`, `middleware.go:91-275`, `fallback.go`, `router.go` | a query from its counting in to its counting out, and reports of the metrics; implements `AnswerStream` |
| `ForkJoin` | | abstract: steps begin together, the group ends after the last one, with the first error, which is never an echo of itself |
| `Agents` | `agent.go`, `planner.go`, `guarded_tool.go`, `validator.go`, `graph.go`, `hotword_tools.go`, `types.go` | one request in a mode with agents or a graph; implements `ForkJoin` |
| `Passages` | `search_guard.go`, `service.go:363-426` | pure: what is kept of the results of a search, and the context made of it |
| `Chunking` | `chunk.go` | pure: how a document is cut |
| `*Proofs` | | the theorems about each module of that name; those about `Passages` are in `RagSearchProofs`, those about `Chunking` in `UploadTasksProofs` |
| `LoopLemmas` | | induction, loops and least numbers, for the proofs about both |
| `MC*` | | the modules the configurations run |

### UploadTasks

An upload names its task. `pc[u]` is the program counter of a `HandleUpload`
call, `wpc[w]` of a worker; `tasks` is `m.tasks` as a set of pairs of id and task,
`queue`/`closed` the channel, `state`, `errorText`, `started`, `ended` the fields of
a task. A worker holds `m.mu` (`mu = w`) across the two stores of a critical section
because `snapshot` loads the fields without it; critical sections nothing can look
into are one action. The race on a string field is modelled by `Torn`: a load that
overlaps the store may return a mixture. `path[u]`, the name a file is saved under, is
chosen in `Init`: two uploads may have the same. Counting a send and answering
202 are one step (`Accept`), as are reading, parsing and inserting (`Index`);
`snapshot` loads the state first and the rest in a second step. That a reader meets the worker's stores
in the order they were made in presumes sequential consistency; Go's memory model gives none to unlocked loads and
stores, so `FinishedHasEnd` and `StatusMovesForward` speak of builds and machines that keep that order. `StatusMovesForward`
compares each snapshot with the one before it. The clock does
not step back in the model; `StatusFound` rests on that, as the code does.

### KnowledgeStore

Starts where `SmartRetrieve` reads the generation for `webSearchGroup` (line 258):
the requests in the model are those whose local results were not good enough. A flight is
its leader; `Land` ends it for leader and followers, with a value, an error or a
panic. A document is a query and an answer, which is what its file's name hashes.
`disk` is `absent`, `partial` (created or truncated, not written) or `whole`. `Insert` counts
into `inserted`, so that a second insertion shows. `Kill` loses memory and keeps files
and vectors. `MkdirAll` and `Stat`, and embedding and insertion, are one step
each; an empty or unfit answer is one case.

### RagSearch

A result is the set of documents the vector search could see; filters, ranking and
the text made of it are the subject of `Passages`. `kind[r]` says whether a retrieval is a `Search` or a
`BuildContext`, which runs a `Search` inside its own flight. A cache is a set of
entries with one for each key, whatever its generation, as in `TTLCache`; `Drop` is expiry and
eviction. Milvus is `visible`: a document that was inserted becomes searchable at some
time, before or after the generation advances (`Show`). `base[g]` is history: what was searchable
when generation `g` was reached. An error is the name of the retrieval whose
context ended, or `"backend"`. The flight of the embedding has the key of the
search flight around it, so nobody else can be in it and it is part of that step.
`Boundless` are retrievals that, if they search, do it for `HandleSearch` (`query.go:102`), under the request's context, which has no deadline, as
the call of Milvus has none of its own: such a search need not come back (`Unanswered`). A follower waits for its flight whatever its own
context says, so it holds who shares the flight, and who follows a context flight whose leader does (`Held`).
`FreshIndex` reads `held` and promises an end to everybody else.

### FlushLoop

`flushSignals` is the channel of one slot, `lpc` the loop, `covering` what the flush
under way is certain to cover: what was stored when it was called. `Stragglers` are
documents inserted by requests that outlive `Shutdown`; all others are inserted by workers that
`Handler.Close` has waited for. There is no clock: the timer is armed, and fires at some
time. Insertions that never pause put the flush off for ever in the code;
the model has finitely many, and `FlushFollows` says what happens when they cease. A flush is due (`FlushDue`) only where
the loop cannot miss it: a signal left in the channel of a loop that is gone is none. So `Covered` promises a flush until `Close`
is called, and of the time after it only where a document not flushed may be: pending, or with its signal still in the
channel, which is what `FlushedByClose` finds. A flush that failed is not tried again; the next one covers its documents too.

### RateLimiter

Both limiters are one algorithm in the code, so they are in the model: `visitors[l][c]` is the bucket of client `c`
at limiter `l`, the server's or a mode's. A request reads the clock (`Arrive`, `ApplyPolicy`) and takes the mutex later (`Pass`,
`PassMode` and their refusals), so that `now` may be older than `lastSeen`. Tokens are
counted in the ticks they take to refill, which makes one token `Cost[l]` and the arithmetic
integer; rounding of floats is left out. `Tick` lets no request stay between clock and
mutex longer than `Skew`. `watched` and `window` are history: one client at one limiter, chosen
in `Init`, what it has spent since some admitted request of its own, and how often its bucket was forgotten and made
anew meanwhile (`anew`). `Lack(l)` is what an emptied bucket lacks of its burst when it is forgotten, after ten minutes
at the earliest. It is nothing for the defaults (40 tokens, 20 a second), and then `BurstBound` is the burst and the refill; but `config.Validate`
compares neither rps nor burst with the ten minutes, and a bucket of 40 tokens at 0.05 a second, which takes 800 seconds
to fill, gives a client ten more each time it is forgotten. `BurstBound` allows that much and no more.

### QueryHandler

`pc[r]` is where a request is; the middleware's steps are around the handler's. A limiter's refusal by
`rateLimiter` comes before the metrics and does not appear; that of a mode is `Limit`, a choice. `running[r]` is the
mode under way, `trace[r]` and `key[r]` are what the `RequestTrace` and the gin context say of it, and `stream[r]` is
the response, in the terms of `AnswerStream`: texts are left out, the mode they are from is not. `Receive` is
a chunk of the model's stream; which text is held back, shown or dropped as the description of a tool call is a choice.
Every mode may fail or answer at any time, under a live context or an ended one. Nothing says that a retrieval returns when its query's context
is over: it may follow a flight led by `HandleSearch`, or lead or follow one that saves an answer under `context.Background()`
(`service.go:304`). `Holdable` are queries that meet such a flight, `Held` those that are in a mode that retrieves then.
`report[r]` is what `handleMetrics` has read so far. Of its statuses there are two: all from 400 to
499 are `bad`, and none is 500 or more, as `prepareSSE` does not fail on gin's writer and a panic of a mode
is not modelled (`gin.Recovery` is outside the metrics, which then count no status).
A stream that ends with an error has status 200 and counts as `ok`: that is what the code does, as the status has been sent.

### Agents

`mode` is chosen at the start; the request (`pc`) retrieves, plans, forks, waits and makes its answer as its mode
does, each `step` is a ReAct agent: it asks its model, whose message calls up to `Width` guarded tools (`AskTools`), is handed their
results, answers or fails. `agent.go:258-266` leaves eino's default, so the calls of a message run side by side (`call`, `tool`, by
`Slots`); `ToolsReturn` waits for all of them and ends the agent with the first error in the order of the message, however many
failed. Each of them counts for itself, which `CountsFit` adds up. The
single agent of `react` and `rag_agent` is the step `solo`. A text is the set of
the marks its readers look for: whether it is long enough, shares a keyword with the question (or with the words
`executeStep` puts before it, which the validator of a step takes for keywords, too), holds a hedging phrase, or a
word the guard takes for a failure. `Judge` is the guard's look at a result, `ValidAnswer` the validator's at an
answer. The guard is content with `word` where the tools read `keyword` only; the tool then looks up an empty
word, so the cache `hot` has a key for it. What the database or Baidu returns is stored before the
guard has seen it, useless or not, for thirty minutes.

`fail` is the `errgroup`'s error and its cancelled context. `Reasons` is why a call
returns: an error of its own, the request's deadline (`over`) or the group's cancellation, `"echo"`, which only exists once there is
an error. `ImplementsForkJoin` says that no echo is ever what the request is told.
A tool may also refuse arguments that the guard let through (a number where it reads a text): `ToolFails`.
The RAG graph retrieves a second time to check its answer, and does not check at all if that fails:
`AnswerStands` cannot and does not speak of it. In `PlanAndProcess` the summary is
checked against the results it is made of, so that its grounding cannot fail; its length and hedges cannot
either, and the only check that bites is the one for a keyword of the question.

### Passages and Chunking

Pure functions, evaluated by the runs of the modules whose actions they are inside of: `RagSearch` and `UploadTasks`.
In `Passages` the two loops over results are recursive functions over 0..n, whose value at n is what the Go loop holds after n
results (`LimitSteps`, `Loop`), and the stable sort is `InOrder`: each result has its place by how many come before it. Its inputs
are constants: `Asked`, `Returned` (lists as Milvus returns them, closest first) and `Limits`, which `config.Validate` keeps from being zero.
`FilteredRight` compares the loops of `filterSearchResults` with a statement about each result
on its own; `ContextSound` says what a caller may expect of `buildContextFromResults`, for every order `sort.Slice` may leave:
that sort undoes the order by evidence, so evidence decides what is kept and the distance what comes first.
A context may exceed `MAX_CONTEXT_CHARS`: by the joints, which are not counted, or when not even one part fits and
the closest is taken whole; `ContextSound` allows these two and no other.

The loops of `Chunking` are such functions, too; what a loop has made and what it is at (`done`, `open`; for the parts of a long
segment `start`) is its value, and one turn is an operator (`ReadSentence`, `ReadParagraph`, `Cut`, `AppendChunk`, `TakeSegment`).
`for start := 0; ...; start += chunkSize` makes at most as many turns as the segment has characters; turns after its end change
nothing. A character carries its place in the document, so that the same letter at two places is two characters; prefixes
are compared by the letters, as in Go. Inputs are the constants `Documents`, `Sizes` (positive: `config.Validate` refuses
others) and `Overlaps` (any integers). `ChunksKeepText` says of each of them that every
character other than white space is in some chunk, that nothing is first held by a later chunk than something said after it,
that each chunk begins with the end of the one before, and bounds the length:
the size, one more if a sentence ends just there, and the overlap. A segment that is one character longer than
the size and ends a sentence yields its last character twice, once as a chunk of its own: the code does, so `TakePart` does.

## What the runs check

| run | instance | properties |
|---|---|---|
| `UploadTasks` | 2 uploads, 2 workers, 1 client, channel of 1, 1 path, clock 0..1; every text of up to 4 characters of 5 kinds or of 5 to 6 of 3 kinds, sizes 1..3, overlaps 0..3 | `TypeOK`, `OnePlacePerTask`, `StatsAddUp`, `StatusFound`, `FinishedHasEnd`, `DrainedOnClose`, `StatusMovesForward`, `ImplementsBoard`; `ChunksKeepText` |
| `UploadTasksSameName` | the same, clock 0 | `OwnBytesIndexed` is violated |
| `KnowledgeStore` | 2 requests, 1 query, 2 answers, queue of 1, both modes, 1 upload, 1 kill | `TypeOK`, `IndexedOnce`, `IndexedIsOnDisk`, `StatsAddUp`, `DrainedOnClose`, `Answered`, `CloseEnds` |
| `KnowledgeStoreSync` | the queue off, no kill | `NeverIndexedTwice` is violated |
| `RagSearch` | 2 retrievals, one of them without a deadline if it searches, 1 query, 2 documents; 4 questions, every list of up to 3 results of 5 contents and 3 distances, two sets of limits | `TypeOK`, `CacheFresh`, `WaitersHaveLeader`, `ImplementsFreshIndex`; `FilteredRight`, `ContextSound` |
| `RagSearchStale` | 1 document | `FoundAfterFlush` is violated |
| `RagSearchCancel` | 1 document, one retrieval may be cancelled | `OwnCancellation` is violated |
| `FlushLoop` | 3 documents, one of them a straggler | `TypeOK`, `Covered`, `FlushFollows`, `CloseEnds` |
| `FlushLoopLost` | 2 documents | `FlushedByClose` is violated |
| `RateLimiter` | 4 requests, 2 clients, 1 mode, clock 0..5; a token of the server costs 1 tick and its burst is 1, one of the mode 4 and 8; skew 1, forgotten after 3, cleaned up from 2 visitors | `TypeOK`, `BurstBound`, `RefusedOnlyEarly` |
| `QueryHandler` | 2 queries, one of which a retrieval may hold, 1 report; asked for are `rag`, `graph_multi` or an unknown mode; available are `rag` and one of `rag_agent`, `multi-agent` | `TypeOK`, `RunsAvailable`, `CountedAsTold`, `ReportsWhole`, `ModesWithinStatuses`, `ImplementsStream` |
| `Agents` | the five modes, 3 kinds of questions (plans of one, two and three steps), 6 texts, 2 contexts, messages of up to two tool calls; two calls for an agent that runs alone, one for each of a plan | `TypeOK`, `CountsFit`, `AnswerStands`, `ImplementsForkJoin`, `Ends` |

Why these bounds are enough to be worth something:

- Uploads: one slot and two uploads fill the channel, run both workers at once, and
  let the second upload be refused while the first is held, queued or finished. One path makes every
  pair of files collide. Two clock values let ids differ by the clock, the
  counter, or both. More uploads add no new pair of actors; the theorems are about any number.
- Knowledge: the generation can advance between two requests (by an upload or by the
  first save), so that they share a flight or not; the queue of one slot is full with one waiting
  answer; two answers to one query make both the same document and different ones. With three requests the safety
  properties were also checked (950 thousand states), without the liveness ones.
- Retrieval: two documents advance the generation twice, so that a retrieval can be
  overtaken once before and once inside its search. A second query would never meet the
  first one in a cache or a flight.
- Flush: three documents are one in a flush, one whose signal waits, and one whose
  signal is dropped.
- Limits: with two visitors a map is cleaned up as soon as both are known; a clock to 5 is more
  than an idle bucket is kept, so buckets are forgotten and made again. The server's is refilled by then; the mode's is not, and TLC finds
  a client that gets more than burst and refill through it, as much as `BurstBound` allows for that. A skew of 1 puts requests out of
  order. Four requests empty a bucket and are refused. The configuration uses symmetry of requests and of clients,
  which is sound for invariants and for a property of steps.
- Queries: one query may be in any place while the other moves, and the report reads between any two of their
  counts. The modes asked for have a fallback that is available, one that is not, or are not known; with `rag_agent` missing, `rag` cannot
  fall back. The other modes differ in the table only, and the theorems are about all.
- Agents: three steps are one that fails first, one that fails by its own fault after it, and one that is
  stopped by it. Two calls of a lone agent are in one message, one of them or both failing, or in two messages; with two calls
  for each agent of a plan as well the counts are a theorem's. There is one text
  for each way the validator decides, and one that the guard and the validator judge differently.
- Texts: three results are a closest, one of the same distance or hash, and one
  behind it that does not fit or does; four characters are two segments and a boundary in every
  order. Six hold a segment of two chunks and a half. Both hold of constants, so they are evaluated
  where a behaviour begins.

`CHECK_DEADLOCK` is off everywhere because each system may come to its end: all uploads
answered, all requests over, the client closed.

### What the violations show

- `OwnBytesIndexed`: `upload.go:61` names the file by the second and the safe name. Two
  uploads of `a.md` in one second share it; the first task succeeds with the bytes of the second, or
  the refusal of the second removes the file of the first (`upload.go:71`), after the client was told
  that it was received and is being ingested (`upload.go:78`).
- `NeverIndexedTwice`: `README.md:179` promises deduplication by hash. With
  `ASYNC_KNOWLEDGE_PERSIST=false` two flights of one query and different generations look for the file before either
  writes it. With the queue, one worker saves and `IndexedOnce` holds: it is proved.
- `FoundAfterFlush`: the hint of `upload_tasks.go:183` is that content is found after one
  batch flush. The generation advances before it: a search that reads the new generation and runs before the flush
  stores its result under it, without the document. The trace ends with a retrieval that comes in when the task has succeeded, the document
  is searchable and nothing else is under way, and misses it.
- `OwnCancellation`: the flight runs under its leader's context, so the followers of a leader whose client left get its
  error. The handler tries the fallback of their mode first; where that fails too, or there is none, `sse.go:157` tells them that their request was cancelled.
- `FlushedByClose`: the loop's `select` may take `closeCh` with a signal waiting, and leaves
  without the flush the hint promises.

### Fairness

Weak fairness of each goroutine that has begun: the Go scheduler lets a goroutine that can run do so.
Nothing makes requests arrive, clients poll, the process shut down, a kill or a cancellation happen. Beyond that:

- `UploadTasks`: `Index` ends, by the ten minutes of its context (`upload_tasks.go:158`); a
  goroutine that waits for `m.mu` gets it, as nobody keeps it (Go's mutex does not starve).
- `KnowledgeStore`: the web search ends by the deadline of its query; a save by the worker by its 30
  seconds. A save by the request itself runs under `context.Background()`: no fairness, and `Answered` says nothing about it.
- `RagSearch`: embedding and search end at the latest when the leader's deadline cancels them, unless it has none (`Unanswered`): those have no fairness. `Drop`, `Show` and the indexing have no fairness.
- `QueryHandler`: the context of a query ends (`config.Validate` wants positive timeouts), and then the
  call of the model, tool or graph it waits for returns, unless the query is `Held`. The handler's own steps are weakly fair.
- `Agents`: the request's context ends, as for `QueryHandler`, and only from then on is anything else certain to move: a
  model may keep an agent waiting until then, and `Ends` rests on nothing better. A retrieval (`Retrieving`) need not come back even then: `Ends`
  promises an end to every request that is not in one for ever.
- `FlushLoop`: a flush ends by its ten seconds; the loop's `select` is one weakly fair
  disjunction, which is all Go promises; the timer fires, once nobody resets it any more.

## What is proved

For every number of uploads, workers, requests, queries, documents, results and tool calls and every size of
queue, configuration of the limits and text of a result. The assumptions are those named in the modules: queues have a slot, sets of
processes whose members are counted are finite, `None` is no process. `tlapm` 1.4.5 checks each proof to its leaves.

| theorem | says | from |
|---|---|---|
| `UploadTasksProofs!Typing` | `[]TypeOK` | itself |
| `OnePlace` | `[]OnePlacePerTask` | `OnePlaceInv`: also that a held task's state follows from where its worker is |
| `AlwaysFound` | `[]StatusFound` | `IdsInv`: the map holds exactly the tasks put in and not taken out, under ids that differ and that clock plus counter have passed |
| `SnapshotsHaveEnd` | `[]FinishedHasEnd` | `EndInv`: the end time is stored before the state says so, and what a client has read of the state still stands |
| `Drained` | `[]DrainedOnClose` | `DrainInv`: a worker leaves only a closed and empty channel, which stays so |
| `Balanced` | `[]StatsAddUp` | each action moves one task from one term of the sum to another |
| `OnlyForward` | `StatusMovesForward` | `SeenInv`: what a client was last told of its task is what the task is or was on its way there, also while a load overlaps a store |
| `RefinesBoard` | initial states and steps map to those of `UploadBoard` | `OnePlaceInv`, `DrainInv`, and the backlog's bound: what is unfinished is in the channel or held |
| `KnowledgeStoreProofs!Typing` | `[]TypeOK` | itself |
| `Once`, `OnDisk` | `[]IndexedOnce`, `[]IndexedIsOnDisk` | `AnswersInv`: an answer handed over is fixed; `DedupInv`: only the worker saves, and its save knows what Stat told it |
| `KnowledgeStoreProofs!Balanced`, `Drained` | `[]StatsAddUp`, `[]DrainedOnClose` | `PlaceInv`: an answer handed over is in exactly one place, the queue, the worker's hands or its fate; `CountInv` and `DrainInv`: each counter is the size of such a set, and a loop that is gone leaves an empty queue |
| `OneFlight` | `[]FlightInv`: no two flights have one query and generation, and who follows a flight follows one under way, of its own | itself, with types |
| `RagSearchProofs!Typing` | `[]TypeOK` | the generation is the number of indexed documents |
| `NobodyLeftBehind` | `[]WaitersHaveLeader` | itself, with types: what ends a flight takes its followers along, and nothing else takes a leader out of it |
| `CachesStayFresh` | `[]CacheFresh` | `FreshInv`: bases only grow, nobody has read a generation not yet reached, an inner search has read one no older than the outer call, and what a retrieval carries is as fresh as what it will be filed under |
| `RefinesFreshIndex` | initial states and steps map to those of `FreshIndex` | `FreshInv` |
| `FlushLoopProofs!Typing`, `NoneForgotten` | `[]TypeOK`, `[]Covered` | with it, that what is pending has a timer running or run out, and that the loop leaves only after `Close` was called |
| `RateLimiterProofs!Typing`, `WithinBurst`, `RefusalsAreDue` | `[]TypeOK`, `[]BurstBound`, `RefusedOnlyEarly` | `KnownInv`: tokens minus `lastSeen`, which refilling never raises and a refusal leaves alone, bounds what was spent and when a token is due; `Granted`: what forgetting has given so far; `ForgottenInv`: a bucket is forgotten only when it would be full, but for `Lack` |
| `QueryHandlerProofs!Typing`, `OnlyAvailableModes`, `Attributed` | `[]TypeOK`, `[]RunsAvailable`, `[]CountedAsTold` | `QueryInv`: at each place, what trace, context and stream of a query agree on |
| `WholeReports` | `[]ReportsWhole` | `BalanceInv`: in flight and answered make up the total, but for requests between two counters; `Fits`: what has been read bounds what has not |
| `ModesFit` | `[]ModesWithinStatuses` | `ModesInv`: a query is counted by its status before it is by its mode, and a report has read the modes first |
| `RefinesStream` | initial states and steps map to those of `AnswerStream` | `QueryInv` |
| `RagSearchProofs!Filters` | `[]FilteredRight` | `LimitPicks`: what the loop holds after n results are the firsts of these n, in their order, and each fitting one has a twin among them; `PlacesInOrder`: a strict order gives each member of a finite set a place of its own |
| `ContextOfClean`, `Contexts` | `ContextFits` for any list without blanks and twins; `[]ContextSound` | `Carry`: what the loop has taken after n results, and that each of these it has not is too far or, since it was left, no closer than any taken; `FilterCleans`: the filter's answer is such a list |
| `UploadTasksProofs!AnyTextIsKept`, `Chunks` | `ChunkedWhole` for any document, size and overlap; `[]ChunksKeepText` | `Initial`: what is said so far, white space aside, is what the document says up to some place. `Steady`: of sentences and segments at each of their characters (`SegmentsSteady`); `Orderly`: of the parts of a long segment, one of which may repeat a character, and of chunks, which repeat an end, after each of them (`PartsOrderly`, `Fine`, `Takes`) |
| `AgentsProofs!Typing` | `[]TypeOK` | `CallsInv`, `BoundInv`: calls exist only where their agent waits for them or broke by one, and with the results handed over are no more than it may make |
| `Counted` | `[]CountsFit` | `ShapeInv`: steps run only while the request waits, so that a fork changes no count; then a call or a step moves from one state to another, which changes each number of those in some states by one at most (`CountOfOne`), and a return of calls moves the useful ones to the results |
| `AnswersStand` | `[]AnswerStands` | `FoundInv`: what a step has answered its validator let through, and when the results are put together every step of the planner's plan has answered |
| `RefinesForkJoin` | initial states and steps map to those of `ForkJoin` | `ShapeInv`: also that an agent stops without an answer only with an error in the group |

TLC checked each of the state machines' strengthened invariants, too. None of the
invariants is inductive alone: `CacheFresh`, for one, says nothing of a result that a
retrieval carries and has yet to store, perhaps after the generation has advanced twice.

What a tool call and an agent may do is brought down to a few ways to move first (`CallStepsAreMoves`, `AgentStepsAreMoves`), and each
invariant is proved of these.

Only model-checked: everything under fairness (the liveness half of `ImplementsBoard` and
`ImplementsFreshIndex`, of `ImplementsStream` and `ImplementsForkJoin`, `Answered`, `Ends`, `CloseEnds`, `FlushFollows`), which is beyond the prover, as is
`ENABLED`. Every other property of a passing run is proved; of the refinements, that the initial states and the steps map.

The loops of `Passages` and `Chunking` need induction over data. The library's induction theorems take an operator
as a parameter, which no installed prover can instantiate, so `LoopLemmas` has its own, over sets of
numbers, from the well-foundedness of the naturals (`Least`, `Induction`, `UpTo`), and with them that a recursive
function over 0..n satisfies its equation (`Loops`). Each loop is proved about in the same way: its turns keep its
values in a set, so it has one after each turn, and what holds of them is carried from turn to turn.

What the theorems about `Chunking` assume is what `DocumentsAssumption`, `SizesAssumption` and `OverlapsAssumption`
say: a document has each character at its own place, and a size is not zero (with none, `ChunkText` returns no chunks, and keeps
nothing). That a chunk begins with the end of the one before is not by construction: `AppendChunk`
trims what it has put together, and skips the end when the chunk seems to begin with it already. It holds because the end of a
trimmed chunk has white space at its beginning only (`BeginsSo`, `PutBefore`).

## What is not modelled, and the plan

Next: the choice of `SmartRetrieve` between its own results and the web (`service.go:237`). It looks at `results[0]`,
which after the sort by evidence need not be the closest result, and so may ask the web though a
closer result would have answered.

Left out:

- `shouldPersistKnowledge` and the buffer of `streamMessageReader` decide by the wording of an answer: a choice in the modules that meet them.
- `RuntimeStatus.Snapshot`: with a required and an optional component down, `status` is `down` or `degraded` by the
  order in which Go walks the map (`runtime_status.go:68-81`); `ready` is right in either case.
- What is read out of a document or a page for the hot word tool, the mock data of the other two, `Tokenize`, which nothing calls.
- Latencies, tool counts and the ranking of modes in the middleware.
- Configuration, logging, the embedding client and the command line tools: sequential input and output without state of
  their own that another part reads.
- A crash of the upload queue restores nothing, so there is nothing to check after it.
- The Milvus, errgroup, singleflight and eino libraries appear by what the code relies on, and are marked external in `PROJECT.json`.
