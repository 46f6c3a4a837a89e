---------------------------- MODULE QueryHandler ----------------------------
(***************************************************************************)
(* A query from HandleQuery to the end of its stream (query.go, sse.go),   *)
(* and what requestMetrics of middleware.go counts of it, next to requests *)
(* for a report of those metrics. Whether a client is over its limit is    *)
(* decided in RateLimiter, and is a choice here.                           *)
(*                                                                         *)
(* One goroutine per request. Counters are atomic; a report reads them one *)
(* by one. The modes' own work, the model and the tools are external: they *)
(* come back with a result or an error at any time, and at the latest when *)
(* the context of the request has ended, but for a retrieval that waits in *)
(* a flight nobody's deadline ends (RagSearch, KnowledgeStore).            *)
(***************************************************************************)
EXTENDS Integers, FiniteSets

CONSTANTS Queries,       \* requests to /api/query
          Reports,       \* requests to /api/metrics
          Holdable,      \* queries whose retrieval may wait in a flight without a deadline
          Requested,     \* what a client may ask for: modes, or Other
          Availabilities,\* sets of modes that may have been initialised
          NoMode

Modes == {"rag", "react", "rag_agent", "multi-agent", "graph_rag", "graph_multi"}
Other == "other"      \* a mode nobody knows
Unasked == ""         \* no mode: the router chooses
Unknown == "unknown"  \* the metrics' name for it

Requests == Queries \cup Reports

ASSUME RequestsAssumption ==
    /\ IsFiniteSet(Requests) /\ Queries \cap Reports = {} /\ Holdable \subseteq Queries
    /\ Requested \subseteq Modes \cup {Other, Unasked}

\* registerDefaultModes: rag is available without more; each other mode is if it could be
\* built, and nothing changes that once requests are served.
ASSUME AvailabilitiesAssumption ==
    \A available \in Availabilities : "rag" \in available /\ available \subseteq Modes

ASSUME NoModeAssumption == NoMode \notin Modes \cup {Unknown}

VARIABLES
    available, \* RuntimeStatus: the modes that are available
    pc,
    ctx,       \* the context of a request: "live" or "over" (deadline or client gone)
    running,   \* the mode under way
    buffered,  \* whether streamMessageReader holds back text
    trace,     \* RequestTrace: the mode resolved and whether there was a fallback
    key,       \* what the gin context holds of the two
    stream,    \* the response: refused, or the events written, as in AnswerStream
    total, inFlight, statuses, \* requestMetrics
    queryModes,                \*   .queryModes[mode]: requests, client errors
    agentModes,                \*   .agentModes[mode]: requests, fallbacks
    report,    \* what a report has read
    late       \* history: requests counted and not yet in flight when a report began

metrics == <<total, inFlight, statuses, queryModes, agentModes>>
answer  == <<ctx, running, buffered, trace, key, stream>>
reading == <<report, late>>
vars == <<available, pc, answer, metrics, reading>>

Names == Modes \cup {Unknown}
Blank == [total |-> 0, queries |-> [m \in Names |-> 0], inFlight |-> 0, ok |-> 0, bad |-> 0]

Init == /\ available \in Availabilities
        /\ pc = [r \in Requests |-> "new"]
        /\ ctx = [r \in Queries |-> "live"]
        /\ running = [r \in Queries |-> NoMode]
        /\ buffered = [r \in Queries |-> FALSE]
        /\ trace = [r \in Queries |-> [mode |-> NoMode, fallback |-> FALSE]]
        /\ key = [r \in Queries |-> [mode |-> Unknown, fallback |-> FALSE]]
        /\ stream = [r \in Queries |-> [state |-> "unopened", notice |-> FALSE, from |-> NoMode]]
        /\ total = 0 /\ inFlight = 0
        /\ statuses = [ok |-> 0, bad |-> 0]
        /\ queryModes = [m \in Names |-> [requests |-> 0, bad |-> 0]]
        /\ agentModes = [m \in Names |-> [requests |-> 0, fallbacks |-> 0]]
        /\ report = [r \in Reports |-> Blank]
        /\ late = [r \in Reports |-> 0]

Go(r, to) == pc' = [pc EXCEPT ![r] = to]

-----------------------------------------------------------------------------
(* requestMetrics.middleware, before and after the handler.                *)

CountIn(r) ==
    /\ pc[r] = "new"
    /\ total' = total + 1
    /\ Go(r, "counted")
    /\ UNCHANGED <<available, answer, inFlight, statuses, queryModes, agentModes, reading>>

FlyIn(r) ==
    /\ pc[r] = "counted"
    /\ inFlight' = inFlight + 1
    /\ Go(r, IF r \in Queries THEN "bind" ELSE "report")
    /\ UNCHANGED <<available, answer, total, statuses, queryModes, agentModes, reading>>

\* A stream has sent its 200 before it begins, however it ends. A report has been sent.
Refused(r) == r \in Queries /\ stream[r].state = "refused"

CountStatusOk(r) == \* Variant: no case for statuses from 400 on.
    /\ pc[r] = "handled"
    /\ statuses' = IF Refused(r) THEN statuses ELSE [statuses EXCEPT !.ok = @ + 1]
    /\ Go(r, IF r \in Queries THEN "observe" ELSE "exit")
    /\ report' = [q \in Reports |-> IF q = r THEN Blank ELSE report[q]]
    /\ late' = [q \in Reports |-> IF q = r THEN 0 ELSE late[q]]
    /\ UNCHANGED <<available, answer, total, inFlight, queryModes, agentModes>>

CountStatus(r) ==
    /\ pc[r] = "handled"
    /\ statuses' = IF Refused(r) THEN [statuses EXCEPT !.bad = @ + 1]
                   ELSE [statuses EXCEPT !.ok = @ + 1]
    /\ Go(r, IF r \in Queries THEN "observe" ELSE "exit")
    /\ report' = [q \in Reports |-> IF q = r THEN Blank ELSE report[q]]
    /\ late' = [q \in Reports |-> IF q = r THEN 0 ELSE late[q]]
    /\ UNCHANGED <<available, answer, total, inFlight, queryModes, agentModes>>

ObserveQuery(r) ==
    /\ pc[r] = "observe"
    /\ queryModes' = [queryModes EXCEPT
                        ![key[r].mode].requests = @ + 1,
                        ![key[r].mode].bad = @ + (IF Refused(r) THEN 1 ELSE 0)]
    /\ Go(r, "observed")
    /\ UNCHANGED <<available, answer, total, inFlight, statuses, agentModes, reading>>

ObserveAgent(r) ==
    /\ pc[r] = "observed"
    /\ agentModes' = [agentModes EXCEPT
                        ![key[r].mode].requests = @ + 1,
                        ![key[r].mode].fallbacks = @ + (IF key[r].fallback THEN 1 ELSE 0)]
    /\ Go(r, "exit")
    /\ UNCHANGED <<available, answer, total, inFlight, statuses, queryModes, reading>>

FlyOutTwice(r) == \* Variant: an Add(-1) beside the deferred one.
    /\ pc[r] = "exit"
    /\ inFlight' = inFlight - 2
    /\ Go(r, "gone")
    /\ UNCHANGED <<available, answer, total, statuses, queryModes, agentModes, reading>>

\* The deferred Add(-1).
FlyOut(r) ==
    /\ pc[r] = "exit"
    /\ inFlight' = inFlight - 1
    /\ Go(r, "gone")
    /\ UNCHANGED <<available, answer, total, statuses, queryModes, agentModes, reading>>

-----------------------------------------------------------------------------
(* HandleQuery up to the stream.                                           *)

unmeasured == <<available, metrics, reading>>

BadRequest(r) ==
    /\ pc[r] = "bind"
    /\ stream' = [stream EXCEPT ![r].state = "refused"]
    /\ Go(r, "handled")
    /\ UNCHANGED <<unmeasured, ctx, running, buffered, trace, key>>

\* FallbackController.
NextMode == [m \in Modes |-> CASE m = "rag"         -> "rag_agent"
                               [] m = "rag_agent"   -> "rag"
                               [] m = "multi-agent" -> "rag_agent"
                               [] m = "graph_multi" -> "multi-agent"
                               [] m = "graph_rag"   -> "rag"
                               [] m = "react"       -> "rag"]

\* DefaultRouter.Resolve: what was asked for, or a choice made from the words of the query.
Resolve(asked) == IF asked # Unasked THEN {asked}
                  ELSE {"graph_multi", "multi-agent", "rag_agent", "rag"}

\* Handler.resolveMode, with isSupportedQueryMode, ensureModeAvailable, resolveFallbackMode.
ResolveUnchecked(m) == \* Variant: the fallback of a mode need not be available.
    LET mode == IF m \in Modes THEN m ELSE "rag" IN
    IF mode \in available THEN mode ELSE NextMode[mode]

ResolveMode(m) ==
    LET mode == IF m \in Modes THEN m ELSE "rag" IN
    CASE mode \in available -> mode
      [] mode \notin available /\ NextMode[mode] \in available -> NextMode[mode]
      [] OTHER -> "rag"

Route(r) ==
    /\ pc[r] = "bind"
    /\ \E asked \in Requested : \E m \in Resolve(asked) :
         /\ running' = [running EXCEPT ![r] = ResolveMode(m)]
         /\ trace' = [trace EXCEPT ![r].mode = ResolveMode(m)]
         /\ key' = [key EXCEPT ![r].mode = ResolveMode(m)]
    /\ Go(r, "policy")
    /\ UNCHANGED <<unmeasured, ctx, buffered, stream>>

\* applyQueryPolicy: 429.
Limit(r) ==
    /\ pc[r] = "policy"
    /\ stream' = [stream EXCEPT ![r].state = "refused"]
    /\ Go(r, "return")
    /\ UNCHANGED <<unmeasured, ctx, running, buffered, trace, key>>

\* The deadline starts; prepareSSE cannot fail on a gin writer.
Start(r) ==
    /\ pc[r] = "policy"
    /\ stream' = [stream EXCEPT ![r].state = "open"]
    /\ Go(r, "run")
    /\ UNCHANGED <<unmeasured, ctx, running, buffered, trace, key>>

\* The deadline of the policy passes, or the client goes away.
ContextEnds(r) ==
    /\ ctx[r] = "live"
    /\ pc[r] \in {"run", "read", "failed"} \* afterwards nobody looks at it
    /\ ctx' = [ctx EXCEPT ![r] = "over"]
    /\ UNCHANGED <<unmeasured, pc, running, buffered, trace, key, stream>>

-----------------------------------------------------------------------------
(* executeMode, and runModeWithFallback around it.                         *)

\* What is written to the stream.
Write(r) == stream' = [stream EXCEPT ![r].from = running[r]]

\* writeTextMode: an agent or a graph has answered.
AnswerText(r) ==
    /\ pc[r] = "run" /\ running[r] # "rag"
    /\ Write(r)
    /\ Go(r, "finish")
    /\ UNCHANGED <<unmeasured, ctx, running, buffered, trace, key>>

\* handleRAGMode: the answer was found on the web.
AnswerWeb(r) ==
    /\ pc[r] = "run" /\ running[r] = "rag"
    /\ Write(r)
    /\ Go(r, "finish")
    /\ UNCHANGED <<unmeasured, ctx, running, buffered, trace, key>>

\* handleRAGMode: SmartRetrieve found a local context, and the model opens its stream.
OpenModel(r) ==
    /\ pc[r] = "run" /\ running[r] = "rag"
    /\ Go(r, "read")
    /\ UNCHANGED <<unmeasured, answer>>

\* Retrieval, the model's Stream, an agent or a graph return an error.
ModeFails(r) ==
    /\ pc[r] = "run"
    /\ Go(r, "failed")
    /\ UNCHANGED <<unmeasured, answer>>

\* streamMessageReader: a chunk. The text it holds back is kept, written or dropped (the
\* description of a tool call), and a tool call may be shown.
Receive(r) ==
    /\ pc[r] = "read"
    /\ \E held \in BOOLEAN : buffered' = [buffered EXCEPT ![r] = held]
    /\ Write(r) \/ UNCHANGED stream
    /\ UNCHANGED <<unmeasured, pc, ctx, running, trace, key>>

\* io.EOF: the text held back is written, and "done".
ReceiveEOF(r) ==
    /\ pc[r] = "read"
    /\ IF buffered[r] THEN Write(r) ELSE UNCHANGED stream
    /\ buffered' = [buffered EXCEPT ![r] = FALSE]
    /\ Go(r, "finish")
    /\ UNCHANGED <<unmeasured, ctx, running, trace, key>>

ReceiveFailsUpwards(r) == \* Variant: the error of the reader is returned and falls back.
    /\ pc[r] = "read"
    /\ Go(r, "failed")
    /\ UNCHANGED <<unmeasured, answer>>

\* Any other error is written, the text held back is lost; handleRAGMode returns nil.
ReceiveFails(r) ==
    /\ pc[r] = "read"
    /\ stream' = [stream EXCEPT ![r].state = "error"]
    /\ buffered' = [buffered EXCEPT ![r] = FALSE]
    /\ Go(r, "return")
    /\ UNCHANGED <<unmeasured, ctx, running, trace, key>>

Finish(r) ==
    /\ pc[r] = "finish"
    /\ stream' = [stream EXCEPT ![r].state = "done"]
    /\ Go(r, "return")
    /\ UNCHANGED <<unmeasured, ctx, running, buffered, trace, key>>

\* The first failure of a mode whose next is available: under the same context.
FallBack(r) ==
    /\ pc[r] = "failed"
    /\ NextMode[running[r]] \in available
    /\ ~ trace[r].fallback
    /\ trace' = [trace EXCEPT ![r] = [mode |-> NextMode[running[r]], fallback |-> TRUE]]
    /\ key' = [key EXCEPT ![r].mode = NextMode[running[r]]]
    /\ running' = [running EXCEPT ![r] = NextMode[running[r]]]
    /\ stream' = [stream EXCEPT ![r].notice = TRUE]
    /\ Go(r, "run")
    /\ UNCHANGED <<unmeasured, ctx, buffered>>

GiveUp(r) ==
    /\ pc[r] = "failed"
    /\ NextMode[running[r]] \notin available \/ trace[r].fallback
    /\ stream' = [stream EXCEPT ![r].state = "error"]
    /\ Go(r, "return")
    /\ UNCHANGED <<unmeasured, ctx, running, buffered, trace, key>>

ReturnUnsynced(r) == \* Variant: without the deferred syncTraceContext.
    /\ pc[r] = "return"
    /\ ctx' = [ctx EXCEPT ![r] = "over"]
    /\ Go(r, "handled")
    /\ UNCHANGED <<unmeasured, running, buffered, trace, key, stream>>

\* The deferred cancel and syncTraceContext.
Return(r) ==
    /\ pc[r] = "return"
    /\ ctx' = [ctx EXCEPT ![r] = "over"]
    /\ key' = [key EXCEPT ![r] = trace[r]]
    /\ Go(r, "handled")
    /\ UNCHANGED <<unmeasured, running, buffered, trace, stream>>

-----------------------------------------------------------------------------
(* handleMetrics: one load after the other, the modes under their lock.    *)

unread == <<available, answer, metrics>>

At(places) == {r \in Requests : pc[r] \in places}
Late == At({"counted"})

ReadTotal(r) ==
    /\ pc[r] = "report"
    /\ report' = [report EXCEPT ![r].total = total]
    /\ late' = [late EXCEPT ![r] = Cardinality(Late)]
    /\ Go(r, "totalled")
    /\ UNCHANGED unread

ReadModesLate(r) == \* Variant: the snapshot of the modes is taken after the statuses are read.
    \/ /\ pc[r] = "totalled"
       /\ Go(r, "moded")
       /\ UNCHANGED <<unread, reading>>
    \/ /\ pc[r] = "handled" /\ report[r].queries = Blank.queries
       /\ report' = [report EXCEPT ![r].queries = [m \in Names |-> queryModes[m].requests]]
       /\ UNCHANGED <<unread, pc, late>>

ReadModes(r) ==
    /\ pc[r] = "totalled"
    /\ report' = [report EXCEPT ![r].queries = [m \in Names |-> queryModes[m].requests]]
    /\ Go(r, "moded")
    /\ UNCHANGED <<unread, late>>

ReadInFlight(r) ==
    /\ pc[r] = "moded"
    /\ report' = [report EXCEPT ![r].inFlight = inFlight]
    /\ Go(r, "flown")
    /\ UNCHANGED <<unread, late>>

ReadOk(r) ==
    /\ pc[r] = "flown"
    /\ report' = [report EXCEPT ![r].ok = statuses.ok]
    /\ Go(r, "ok")
    /\ UNCHANGED <<unread, late>>

ReadBad(r) ==
    /\ pc[r] = "ok"
    /\ report' = [report EXCEPT ![r].bad = statuses.bad]
    /\ Go(r, "handled")
    /\ UNCHANGED <<unread, late>>

-----------------------------------------------------------------------------

Handle(r) ==
    \/ BadRequest(r) \/ Route(r) \/ Limit(r) \/ Start(r)
    \/ AnswerText(r) \/ AnswerWeb(r) \/ OpenModel(r) \/ ModeFails(r)
    \/ Receive(r) \/ ReceiveEOF(r) \/ ReceiveFails(r)
    \/ Finish(r) \/ FallBack(r) \/ GiveUp(r) \/ Return(r)

ReportStep(r) == ReadTotal(r) \/ ReadModes(r) \/ ReadInFlight(r) \/ ReadOk(r) \/ ReadBad(r)

Middleware(r) ==
    \/ CountIn(r) \/ FlyIn(r) \/ CountStatus(r) \/ ObserveQuery(r) \/ ObserveAgent(r) \/ FlyOut(r)

Next == \/ \E r \in Queries : Handle(r) \/ ContextEnds(r)
        \/ \E r \in Reports : ReportStep(r)
        \/ \E r \in Requests : Middleware(r)

\* A retrieval shares a flight that may be led by HandleSearch's, without a deadline, or that
\* saves an answer from the web under context.Background(); a follower waits for it to end, and
\* so does who leads the save, whatever their own contexts say. Held are the queries such a
\* flight may keep.
Retrieving == {"rag", "rag_agent", "graph_rag", "graph_multi"}
Held == {r \in Holdable : pc[r] = "run" /\ running[r] \in Retrieving}

\* Any other external call comes back at the latest when its context is over.
CallReturns(r) ==
    /\ ctx[r] = "over"
    /\ r \notin Held
    /\ \/ AnswerText(r) \/ AnswerWeb(r) \/ OpenModel(r) \/ ModeFails(r)
       \/ ReceiveEOF(r) \/ ReceiveFails(r)

\* Go runs what can run, and deadlines pass: config.Validate wants each to be positive.
Fairness ==
    \A r \in Queries : /\ WF_vars(ContextEnds(r))
                       /\ WF_vars(CallReturns(r))
                       /\ WF_vars(Finish(r) \/ FallBack(r) \/ GiveUp(r))

Spec == Init /\ [][Next]_vars /\ Fairness

-----------------------------------------------------------------------------
(* Properties.                                                             *)

Places == {"new", "counted", "bind", "policy", "run", "read", "failed", "finish", "return",
           "report", "totalled", "moded", "flown", "ok",
           "handled", "observe", "observed", "exit", "gone"}

Traces == [mode : Modes \cup {NoMode}, fallback : BOOLEAN]
Keys == [mode : Names, fallback : BOOLEAN]
Streams == [state : {"unopened", "refused", "open", "done", "error"},
            notice : BOOLEAN, from : Modes \cup {NoMode}]
Snapshots == [total : Nat, queries : [Names -> Nat], inFlight : Nat, ok : Nat, bad : Nat]

TypeOK ==
    /\ available \subseteq Modes /\ "rag" \in available
    /\ pc \in [Requests -> Places]
    /\ ctx \in [Queries -> {"live", "over"}]
    /\ running \in [Queries -> Modes \cup {NoMode}]
    /\ buffered \in [Queries -> BOOLEAN]
    /\ trace \in [Queries -> Traces]
    /\ key \in [Queries -> Keys]
    /\ stream \in [Queries -> Streams]
    /\ total \in Nat /\ inFlight \in Nat
    /\ statuses \in [ok : Nat, bad : Nat]
    /\ queryModes \in [Names -> [requests : Nat, bad : Nat]]
    /\ agentModes \in [Names -> [requests : Nat, fallbacks : Nat]]
    /\ report \in [Reports -> Snapshots]
    /\ late \in [Reports -> Nat]

\* A mode runs only if it was initialised (the others have no agent or graph behind
\* them), whatever was asked for, and after a fallback, too.
RunsAvailable == \A r \in Queries : running[r] # NoMode => running[r] \in available

\* A query whose stream is over counts under the mode that ran last, and as a fallback
\* exactly if its reader was told of one: through the trace, the gin context and the metrics.
Told(r) == IF running[r] = NoMode THEN Unknown ELSE running[r]
Observed(m) == {r \in Queries : pc[r] \in {"exit", "gone"} /\ Told(r) = m}

CountedAsTold ==
    \A m \in Names :
        /\ agentModes[m].requests = Cardinality(Observed(m))
        /\ agentModes[m].fallbacks = Cardinality({r \in Observed(m) : stream[r].notice})

\* A report loses nobody: each request of its total is in flight or answered, in the
\* report itself, but for those that were between the two counters when it began. The order
\* of its loads makes it so, and that the middleware counts an answer before it lands.
ReportsWhole ==
    \A r \in Reports : pc[r] = "handled" =>
        report[r].total <= report[r].inFlight + report[r].ok + report[r].bad + late[r]

\* Nor does it know more queries by their modes than it has answers: their snapshot is
\* taken before the statuses are read, which are counted before the mode is.
OverModes(of) == of["rag"] + of["react"] + of["rag_agent"] + of["multi-agent"]
                   + of["graph_rag"] + of["graph_multi"] + of[Unknown]

ModesWithinStatuses ==
    \A r \in Reports : pc[r] = "handled" =>
        OverModes(report[r].queries) <= report[r].ok + report[r].bad

\* The stream of a query is the one its reader was promised, and it ends, unless the query is
\* held by a retrieval that no deadline ends.
Stream == INSTANCE AnswerStream WITH Requests <- Queries, stream <- stream, held <- Held
ImplementsStream == Stream!Spec
=============================================================================
