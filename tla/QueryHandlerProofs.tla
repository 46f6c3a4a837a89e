------------------------- MODULE QueryHandlerProofs -------------------------
(***************************************************************************)
(* QueryHandler for any number of queries and reports, whatever clients    *)
(* ask for and whichever modes are available.                              *)
(*                                                                         *)
(* The counters are related by a balance: a request of the total is in     *)
(* flight, or answered, or between the two counters, and once only, but    *)
(* for those that have been answered and not left. A report reads the      *)
(* balance from left to right, while each step keeps or raises the right.  *)
(***************************************************************************)
EXTENDS QueryHandler, FiniteSetTheorems, TLAPS

Inside == {"bind", "policy", "run", "read", "failed", "finish", "return",
           "report", "totalled", "moded", "flown", "ok", "handled"}
Landing == {"observe", "observed", "exit"}
Flying == Inside \cup Landing

\* Where a request is in flight and a snapshot is not: the total, less those that are
\* between the two counters, is made of requests in flight and of answers, and each request
\* that has been answered and not left is both.
FlightInv == inFlight = Cardinality(At(Flying))

BalanceInv == inFlight + statuses.ok + statuses.bad + Cardinality(Late)
                = total + Cardinality(At(Landing))

\* What a report has read so far bounds its total by what it has yet to read.
Fits(r) ==
    /\ pc[r] \in {"totalled", "moded"} => report[r].total - late[r] <= total - Cardinality(Late)
    /\ pc[r] = "flown" => report[r].total <= report[r].inFlight + statuses.ok + statuses.bad + late[r]
    /\ pc[r] = "ok" => report[r].total <= report[r].inFlight + report[r].ok + statuses.bad + late[r]
    /\ pc[r] = "handled" => report[r].total <= report[r].inFlight + report[r].ok + report[r].bad + late[r]

ReportInv == \A r \in Reports : Fits(r)

\* A query that has been routed runs an available mode, and its trace says which mode that
\* is and whether the stream has told of a fallback; when it returns, the context does.
Routed(r) == /\ running[r] \in available
             /\ trace[r] = [mode |-> running[r], fallback |-> stream[r].notice]

Unopened == [state |-> "unopened", notice |-> FALSE, from |-> NoMode]

QueryInv(r) ==
    /\ pc[r] \in {"new", "counted", "bind", "policy", "run", "read", "failed", "finish", "return",
                  "handled", "observe", "observed", "exit", "gone"}
    /\ pc[r] \in {"new", "counted", "bind"} =>
         /\ running[r] = NoMode /\ ~ trace[r].fallback
         /\ key[r] = [mode |-> Unknown, fallback |-> FALSE]
    /\ pc[r] \in {"new", "counted", "bind", "policy"} => stream[r] = Unopened
    /\ pc[r] \in {"policy", "run", "failed", "read", "finish", "return"} => Routed(r)
    /\ pc[r] \in {"run", "failed", "read", "finish"} => stream[r].state = "open"
    /\ pc[r] \in {"run", "failed"} => stream[r].from = NoMode
    /\ pc[r] \in {"read", "finish"} => stream[r].from \in {NoMode, running[r]}
    /\ pc[r] \in {"handled", "observe", "observed", "exit", "gone"} =>
         /\ running[r] \in available \cup {NoMode}
         /\ key[r] = [mode |-> Told(r), fallback |-> stream[r].notice]

PlaceInv == /\ \A r \in Queries : QueryInv(r)
            /\ \A r \in Reports : pc[r] \in {"new", "counted", "report", "totalled", "moded",
                                             "flown", "ok", "handled", "exit", "gone"}

Inv == TypeOK /\ FlightInv /\ BalanceInv /\ ReportInv /\ PlaceInv /\ CountedAsTold

-----------------------------------------------------------------------------
(* Counting.                                                               *)

LEMMA Finite == \A S \in SUBSET Requests : IsFiniteSet(S) /\ Cardinality(S) \in Nat
  BY RequestsAssumption, FS_Subset, FS_CardinalityType

\* One request goes from one place to another.
LEMMA Moves ==
    ASSUME pc \in [Requests -> Places], NEW r \in Requests, NEW to, Go(r, to), NEW places
    PROVE  /\ Cardinality(At(places)) \in Nat
           /\ pc[r] \notin places /\ to \in places
                => Cardinality(At(places))' = Cardinality(At(places)) + 1
           /\ pc[r] \in places /\ to \notin places
                => Cardinality(At(places))' = Cardinality(At(places)) - 1
           /\ (pc[r] \in places <=> to \in places) => At(places)' = At(places)
<1>1. /\ pc'[r] = to
      /\ \A q \in Requests : q # r => pc'[q] = pc[q]
  BY DEF Go
<1>2. At(places) \in SUBSET Requests /\ IsFiniteSet(At(places)) /\ Cardinality(At(places)) \in Nat
  BY Finite DEF At
<1>3. ASSUME pc[r] \notin places, to \in places
      PROVE  Cardinality(At(places))' = Cardinality(At(places)) + 1
  <2>1. At(places)' = At(places) \cup {r} /\ r \notin At(places)
    BY <1>1, <1>3 DEF At
  <2> QED BY <2>1, <1>2, FS_AddElement
<1>4. ASSUME pc[r] \in places, to \notin places
      PROVE  Cardinality(At(places))' = Cardinality(At(places)) - 1
  <2>1. At(places)' = At(places) \ {r} /\ r \in At(places)
    BY <1>1, <1>4 DEF At
  <2> QED BY <2>1, <1>2, FS_RemoveElement
<1>5. (pc[r] \in places <=> to \in places) => At(places)' = At(places)
  BY <1>1 DEF At
<1> QED BY <1>2, <1>3, <1>4, <1>5

-----------------------------------------------------------------------------
(* What a query does between its counters.                                 *)

\* A step of request r leaves the others where and as they are.
Alone(r) ==
    /\ \A q \in Requests \ {r} : pc'[q] = pc[q]
    /\ \A q \in Queries \ {r} : /\ running'[q] = running[q] /\ trace'[q] = trace[q]
                              /\ key'[q] = key[q] /\ stream'[q] = stream[q]
    /\ available' = available

LEMMA StreamTypes ==
    ASSUME stream \in [Queries -> Streams], NEW r \in Queries
    PROVE  /\ \A e \in {"refused", "open", "done", "error"} :
                [stream EXCEPT ![r].state = e] \in [Queries -> Streams]
           /\ [stream EXCEPT ![r].notice = TRUE] \in [Queries -> Streams]
           /\ \A m \in Modes : [stream EXCEPT ![r].from = m] \in [Queries -> Streams]
  BY DEF Streams

LEMMA TraceTypes ==
    ASSUME trace \in [Queries -> Traces], key \in [Queries -> Keys], NEW r \in Queries, NEW m \in Modes
    PROVE  /\ [trace EXCEPT ![r].mode = m] \in [Queries -> Traces]
           /\ [trace EXCEPT ![r] = [mode |-> m, fallback |-> TRUE]] \in [Queries -> Traces]
           /\ [key EXCEPT ![r].mode = m] \in [Queries -> Keys]
  BY DEF Traces, Keys, Names

LEMMA HandleSteps ==
    ASSUME TypeOK, PlaceInv, NEW r \in Queries, Handle(r) \/ ContextEnds(r)
    PROVE  /\ TypeOK'
           /\ QueryInv(r)'
           /\ Alone(r) /\ UNCHANGED <<metrics, reading>>
           /\ pc[r] \in Inside /\ pc'[r] \in Inside
<1> USE DEF TypeOK, Go, vars, metrics, answer, reading, unmeasured, Places
<1>q. QueryInv(r) /\ r \in Requests
  BY DEF PlaceInv, Requests
<1>m. available \subseteq Modes /\ NoMode \notin Modes \cup {Unknown}
  BY NoModeAssumption
<1>1. CASE BadRequest(r)
  <2>1. TypeOK'
    BY <1>q, <1>m, <1>1, StreamTypes DEF BadRequest
  <2>2. QueryInv(r)'
    BY <1>q, <1>m, <1>1 DEF BadRequest, QueryInv, Routed, Told, Unopened, Streams, Traces, Keys, Names
  <2> QED BY <2>1, <2>2, <1>q, <1>1 DEF BadRequest, QueryInv, Alone, Inside
<1>2. CASE Route(r)
  <2>1. PICK asked \in Requested : \E m \in Resolve(asked) :
            /\ running' = [running EXCEPT ![r] = ResolveMode(m)]
            /\ trace' = [trace EXCEPT ![r].mode = ResolveMode(m)]
            /\ key' = [key EXCEPT ![r].mode = ResolveMode(m)]
    BY <1>2 DEF Route
  <2>2. PICK m \in Resolve(asked) :
            /\ running' = [running EXCEPT ![r] = ResolveMode(m)]
            /\ trace' = [trace EXCEPT ![r].mode = ResolveMode(m)]
            /\ key' = [key EXCEPT ![r].mode = ResolveMode(m)]
    BY <2>1
  <2>3. ResolveMode(m) \in available
    BY DEF ResolveMode, Modes
  <2>4. TypeOK'
    BY <1>q, <1>m, <1>2, <2>2, <2>3, TraceTypes DEF Route
  <2>5. trace[r].fallback = FALSE
    BY <1>q, <1>2 DEF Route, QueryInv
  <2>6. /\ pc'[r] = "policy" /\ stream'[r] = Unopened /\ available' = available
        /\ running'[r] = ResolveMode(m)
    BY <1>q, <1>2, <2>2 DEF Route, QueryInv
  <2>8. trace'[r] = [mode |-> ResolveMode(m), fallback |-> FALSE]
    BY <2>2, <2>5 DEF Traces
  <2>7. QueryInv(r)'
    BY <2>3, <2>6, <2>8 DEF QueryInv, Routed, Unopened
  <2> QED BY <2>4, <2>7, <1>q, <1>2, <2>2 DEF Route, QueryInv, Alone, Inside
<1>3. CASE Limit(r)
  <2>1. TypeOK'
    BY <1>q, <1>m, <1>3, StreamTypes DEF Limit
  <2>2. QueryInv(r)'
    BY <1>q, <1>m, <1>3 DEF Limit, QueryInv, Routed, Told, Unopened, Streams, Traces, Keys, Names
  <2> QED BY <2>1, <2>2, <1>q, <1>3 DEF Limit, QueryInv, Alone, Inside
<1>4. CASE Start(r)
  <2>1. TypeOK'
    BY <1>q, <1>m, <1>4, StreamTypes DEF Start
  <2>2. QueryInv(r)'
    BY <1>q, <1>m, <1>4 DEF Start, QueryInv, Routed, Told, Unopened, Streams, Traces, Keys, Names
  <2> QED BY <2>1, <2>2, <1>q, <1>4 DEF Start, QueryInv, Alone, Inside
<1>5. CASE AnswerText(r)
  <2>1. TypeOK'
    BY <1>q, <1>m, <1>5, StreamTypes DEF AnswerText, Write, QueryInv, Routed
  <2>2. QueryInv(r)'
    BY <1>q, <1>m, <1>5 DEF AnswerText, Write, QueryInv, Routed, Told, Unopened, Streams, Traces, Keys, Names
  <2> QED BY <2>1, <2>2, <1>q, <1>5 DEF AnswerText, Write, QueryInv, Alone, Inside
<1>6. CASE AnswerWeb(r)
  <2>1. TypeOK'
    BY <1>q, <1>m, <1>6, StreamTypes DEF AnswerWeb, Write, QueryInv, Routed
  <2>2. QueryInv(r)'
    BY <1>q, <1>m, <1>6 DEF AnswerWeb, Write, QueryInv, Routed, Told, Unopened, Streams, Traces, Keys, Names
  <2> QED BY <2>1, <2>2, <1>q, <1>6 DEF AnswerWeb, Write, QueryInv, Alone, Inside
<1>7. CASE OpenModel(r)
  <2>1. TypeOK'
    BY <1>q, <1>m, <1>7 DEF OpenModel
  <2>2. QueryInv(r)'
    BY <1>q, <1>m, <1>7 DEF OpenModel, QueryInv, Routed, Told, Unopened, Streams, Traces, Keys, Names
  <2> QED BY <2>1, <2>2, <1>q, <1>7 DEF OpenModel, QueryInv, Alone, Inside
<1>8. CASE ModeFails(r)
  <2>1. TypeOK'
    BY <1>q, <1>m, <1>8 DEF ModeFails
  <2>2. QueryInv(r)'
    BY <1>q, <1>m, <1>8 DEF ModeFails, QueryInv, Routed, Told, Unopened, Streams, Traces, Keys, Names
  <2> QED BY <2>1, <2>2, <1>q, <1>8 DEF ModeFails, QueryInv, Alone, Inside
<1>9. CASE Receive(r)
  <2>a. running[r] \in Modes
    BY <1>q, <1>m, <1>9 DEF Receive, QueryInv, Routed
  <2>b. stream' = [stream EXCEPT ![r].from = running[r]] \/ stream' = stream
    BY <1>9 DEF Receive, Write
  <2>c. [stream EXCEPT ![r].from = running[r]] \in [Queries -> Streams]
    BY <2>a, StreamTypes
  <2>0. stream' \in [Queries -> Streams]
    BY <2>b, <2>c
  <2>1. TypeOK'
    BY <1>q, <1>9, <2>0 DEF Receive
  <2>2. QueryInv(r)'
    BY <1>q, <1>m, <1>9 DEF Receive, Write, QueryInv, Routed, Told, Unopened, Streams, Traces, Keys, Names
  <2> QED BY <2>1, <2>2, <1>q, <1>9 DEF Receive, Write, QueryInv, Alone, Inside
<1>10. CASE ReceiveEOF(r)
  <2>a. running[r] \in Modes
    BY <1>q, <1>m, <1>10 DEF ReceiveEOF, QueryInv, Routed
  <2>b. stream' = [stream EXCEPT ![r].from = running[r]] \/ stream' = stream
    BY <1>10 DEF ReceiveEOF, Write
  <2>c. [stream EXCEPT ![r].from = running[r]] \in [Queries -> Streams]
    BY <2>a, StreamTypes
  <2>0. stream' \in [Queries -> Streams]
    BY <2>b, <2>c
  <2>1. TypeOK'
    BY <1>q, <1>10, <2>0 DEF ReceiveEOF
  <2>2. QueryInv(r)'
    BY <1>q, <1>m, <1>10 DEF ReceiveEOF, Write, QueryInv, Routed, Told, Unopened, Streams, Traces, Keys, Names
  <2> QED BY <2>1, <2>2, <1>q, <1>10 DEF ReceiveEOF, Write, QueryInv, Alone, Inside
<1>11. CASE ReceiveFails(r)
  <2>1. TypeOK'
    BY <1>q, <1>m, <1>11, StreamTypes DEF ReceiveFails
  <2>2. QueryInv(r)'
    BY <1>q, <1>m, <1>11 DEF ReceiveFails, QueryInv, Routed, Told, Unopened, Streams, Traces, Keys, Names
  <2> QED BY <2>1, <2>2, <1>q, <1>11 DEF ReceiveFails, QueryInv, Alone, Inside
<1>12. CASE Finish(r)
  <2>1. TypeOK'
    BY <1>q, <1>m, <1>12, StreamTypes DEF Finish
  <2>2. QueryInv(r)'
    BY <1>q, <1>m, <1>12 DEF Finish, QueryInv, Routed, Told, Unopened, Streams, Traces, Keys, Names
  <2> QED BY <2>1, <2>2, <1>q, <1>12 DEF Finish, QueryInv, Alone, Inside
<1>13. CASE FallBack(r)
  <2>1. TypeOK'
    BY <1>q, <1>m, <1>13, StreamTypes, TraceTypes DEF FallBack, QueryInv, Routed
  <2>2. QueryInv(r)'
    BY <1>q, <1>m, <1>13 DEF FallBack, QueryInv, Routed, Told, Unopened, Streams, Traces, Keys, Names
  <2> QED BY <2>1, <2>2, <1>q, <1>13 DEF FallBack, QueryInv, Alone, Inside
<1>14. CASE GiveUp(r)
  <2>1. TypeOK'
    BY <1>q, <1>m, <1>14, StreamTypes DEF GiveUp
  <2>2. QueryInv(r)'
    BY <1>q, <1>m, <1>14 DEF GiveUp, QueryInv, Routed, Told, Unopened, Streams, Traces, Keys, Names
  <2> QED BY <2>1, <2>2, <1>q, <1>14 DEF GiveUp, QueryInv, Alone, Inside
<1>15. CASE Return(r)
  <2>0. trace[r] \in Keys
    BY <1>q, <1>m, <1>15 DEF Return, QueryInv, Routed, Streams, Keys, Names
  <2>1. TypeOK'
    BY <1>q, <1>15, <2>0 DEF Return
  <2>2. QueryInv(r)'
    BY <1>q, <1>m, <1>15 DEF Return, QueryInv, Routed, Told, Unopened, Streams, Traces, Keys, Names
  <2> QED BY <2>1, <2>2, <1>q, <1>15 DEF Return, QueryInv, Alone, Inside
<1>16. CASE ContextEnds(r)
  <2>1. TypeOK'
    BY <1>q, <1>m, <1>16 DEF ContextEnds
  <2>2. QueryInv(r)'
    BY <1>q, <1>m, <1>16 DEF ContextEnds, QueryInv, Routed, Told, Unopened, Streams, Traces, Keys, Names
  <2> QED BY <2>1, <2>2, <1>q, <1>16 DEF ContextEnds, QueryInv, Alone, Inside
<1> QED BY <1>1, <1>2, <1>3, <1>4, <1>5, <1>6, <1>7, <1>8, <1>9, <1>10, <1>11, <1>12, <1>13,
           <1>14, <1>15, <1>16 DEF Handle

-----------------------------------------------------------------------------
(* The stream: each step of a query is one that AnswerStream allows.       *)

LEMMA StreamSteps ==
    ASSUME TypeOK, PlaceInv, NEW r \in Queries, Handle(r) \/ ContextEnds(r)
    PROVE  Stream!Next \/ UNCHANGED stream
<1>q. QueryInv(r)
  BY DEF PlaceInv
<1>m. available \subseteq Modes /\ NoMode \notin Modes
  BY NoModeAssumption DEF TypeOK
<1>1. CASE BadRequest(r) \/ Limit(r)
  <2>1. Stream!Refuse(r)
    BY <1>q, <1>1 DEF BadRequest, Limit, QueryInv, Unopened, Stream!Refuse
  <2> QED BY <2>1 DEF Stream!Next
<1>2. CASE Start(r)
  <2>1. Stream!Open(r)
    BY <1>q, <1>2 DEF Start, QueryInv, Unopened, Stream!Open
  <2> QED BY <2>1 DEF Stream!Next
<1>3. CASE FallBack(r)
  <2>1. Stream!Notice(r)
    BY <1>q, <1>3 DEF FallBack, QueryInv, Routed, Stream!Notice
  <2> QED BY <2>1 DEF Stream!Next
<1>4. CASE Finish(r) \/ GiveUp(r) \/ ReceiveFails(r)
  <2>1. Stream!End(r)
    BY <1>q, <1>4 DEF Finish, GiveUp, ReceiveFails, QueryInv, Stream!End
  <2> QED BY <2>1 DEF Stream!Next
<1>5. CASE AnswerText(r) \/ AnswerWeb(r) \/ Receive(r) \/ ReceiveEOF(r)
  <2>1. Write(r) \/ UNCHANGED stream
    BY <1>5 DEF AnswerText, AnswerWeb, Receive, ReceiveEOF
  <2>2. /\ stream[r].state = "open" /\ stream[r].from \in {NoMode, running[r]}
        /\ running[r] \in Modes
    BY <1>q, <1>m, <1>5 DEF AnswerText, AnswerWeb, Receive, ReceiveEOF, QueryInv, Routed
  <2>3. CASE Write(r)
    <3>1. Stream!Content(r, running[r])
      BY <2>2, <2>3 DEF Write, Stream!Content
    <3> QED BY <2>2, <3>1 DEF Stream!Next
  <2> QED BY <2>1, <2>3
<1>6. CASE Route(r) \/ OpenModel(r) \/ ModeFails(r) \/ Return(r) \/ ContextEnds(r)
  BY <1>6 DEF Route, OpenModel, ModeFails, Return, ContextEnds, answer
<1> QED BY <1>1, <1>2, <1>3, <1>4, <1>5, <1>6 DEF Handle

-----------------------------------------------------------------------------
(* The counters and the reports, while a query is handled.                 *)

LEMMA HandleKeepsInv ==
    ASSUME Inv, NEW r \in Queries, Handle(r) \/ ContextEnds(r)
    PROVE  Inv'
<1>1. /\ TypeOK' /\ QueryInv(r)' /\ Alone(r) /\ UNCHANGED <<metrics, reading>>
      /\ pc[r] \in Inside /\ pc'[r] \in Inside
  BY HandleSteps DEF Inv
<1>2. r \in Requests /\ r \notin Reports
  BY RequestsAssumption DEF Requests
<1>3. At(Flying)' = At(Flying) /\ At(Landing)' = At(Landing) /\ Late' = Late
  BY <1>1, <1>2 DEF At, Late, Alone, Inside, Landing, Flying
<1>4. FlightInv' /\ BalanceInv'
  BY <1>1, <1>3 DEF Inv, FlightInv, BalanceInv, metrics
<1>5. \A q \in Reports : pc'[q] = pc[q]
  BY <1>1, <1>2 DEF Alone, Requests
<1>6. ReportInv'
  BY <1>1, <1>3, <1>5 DEF Inv, ReportInv, Fits, metrics, reading
<1>7. ASSUME NEW q \in Queries \ {r} PROVE QueryInv(q)'
  <2>1. /\ pc'[q] = pc[q] /\ running'[q] = running[q] /\ trace'[q] = trace[q]
        /\ key'[q] = key[q] /\ stream'[q] = stream[q] /\ available' = available
    BY <1>1 DEF Alone, Requests
  <2>2. QueryInv(q)
    BY DEF Inv, PlaceInv
  <2>. QED
    BY <2>1, <2>2 DEF QueryInv, Routed, Told
<1>8. PlaceInv'
  BY <1>1, <1>5, <1>7 DEF Inv, PlaceInv
<1>9. ASSUME NEW m \in Names
      PROVE  /\ Observed(m)' = Observed(m)
             /\ {q \in Observed(m) : stream[q].notice}' = {q \in Observed(m) : stream[q].notice}
  BY <1>1 DEF Observed, Told, Alone, Inside, Requests
<1>10. CountedAsTold'
  BY <1>1, <1>9 DEF Inv, CountedAsTold, metrics
<1> QED BY <1>1, <1>4, <1>6, <1>8, <1>10 DEF Inv

-----------------------------------------------------------------------------
(* While a report is made.                                                 *)

\* Requests that have been answered and not left are in flight.
LEMMA LandingFly == Cardinality(At(Landing)) <= Cardinality(At(Flying))
<1>1. At(Landing) \subseteq At(Flying) /\ At(Flying) \in SUBSET Requests
  BY DEF At, Flying
<1> QED BY <1>1, Finite, FS_Subset

LEMMA ReportsKeepInv ==
    ASSUME Inv, NEW r \in Reports, ReportStep(r)
    PROVE  Inv'
<1>1. r \in Requests /\ r \notin Queries
  BY RequestsAssumption DEF Requests
<1>2. UNCHANGED unread
  BY DEF ReportStep, ReadTotal, ReadModes, ReadInFlight, ReadOk, ReadBad
<1>3. /\ pc[r] \in {"report", "totalled", "moded", "flown", "ok"}
      /\ pc'[r] \in {"totalled", "moded", "flown", "ok", "handled"}
      /\ \A q \in Requests \ {r} : pc'[q] = pc[q]
      /\ pc' \in [Requests -> Places]
  BY <1>1 DEF ReportStep, ReadTotal, ReadModes, ReadInFlight, ReadOk, ReadBad, Go, Inv, TypeOK, Places
<1>4. At(Flying)' = At(Flying) /\ At(Landing)' = At(Landing) /\ Late' = Late
  BY <1>3 DEF At, Late, Inside, Landing, Flying
<1>5. FlightInv' /\ BalanceInv'
  BY <1>2, <1>4 DEF Inv, FlightInv, BalanceInv, unread, metrics
<1>6. PlaceInv'
  <2>1. ASSUME NEW q \in Queries PROVE QueryInv(q)'
    <3>1. QueryInv(q) /\ pc'[q] = pc[q]
      BY <1>1, <1>3 DEF Inv, PlaceInv, Requests
    <3> QED BY <1>2, <3>1 DEF QueryInv, Routed, Told, unread, answer
  <2>2. \A q \in Reports : q # r => pc'[q] = pc[q]
    BY <1>3 DEF Requests
  <2> QED BY <1>3, <2>1, <2>2 DEF Inv, PlaceInv
<1>7. ASSUME NEW m \in Names
      PROVE  /\ Observed(m)' = Observed(m)
             /\ {q \in Observed(m) : stream[q].notice}' = {q \in Observed(m) : stream[q].notice}
  BY <1>1, <1>2, <1>3 DEF Observed, Told, unread, answer, Requests
<1>8. CountedAsTold'
  BY <1>2, <1>7 DEF Inv, CountedAsTold, unread, metrics
<1>9. /\ Cardinality(Late) \in Nat /\ Cardinality(At(Landing)) \in Nat
      /\ Cardinality(At(Landing)) <= inFlight
      /\ total \in Nat /\ inFlight \in Nat /\ statuses.ok \in Nat /\ statuses.bad \in Nat
  BY Finite, LandingFly DEF At, Late, Inv, TypeOK, FlightInv
<1>10. total - Cardinality(Late) <= inFlight + statuses.ok + statuses.bad
  BY <1>9 DEF Inv, BalanceInv
<1>11. report \in [Reports -> Snapshots] /\ late \in [Reports -> Nat] /\ queryModes \in [Names -> [requests : Nat, bad : Nat]]
  BY DEF Inv, TypeOK
<1>12. \A q \in Reports \ {r} : pc'[q] = pc[q]
  BY <1>3 DEF Requests
<1>13. /\ report' \in [Reports -> Snapshots] /\ late' \in [Reports -> Nat]
       /\ \A q \in Reports \ {r} : report'[q] = report[q] /\ late'[q] = late[q]
  <2>1. CASE ReadTotal(r)
    BY <1>9, <1>11, <2>1 DEF ReadTotal, Snapshots
  <2>2. CASE ReadModes(r)
    BY <1>9, <1>11, <2>2 DEF ReadModes, Snapshots
  <2>3. CASE ReadInFlight(r)
    BY <1>9, <1>11, <2>3 DEF ReadInFlight, Snapshots
  <2>4. CASE ReadOk(r)
    BY <1>9, <1>11, <2>4 DEF ReadOk, Snapshots
  <2>5. CASE ReadBad(r)
    BY <1>9, <1>11, <2>5 DEF ReadBad, Snapshots
  <2> QED BY <2>1, <2>2, <2>3, <2>4, <2>5 DEF ReportStep
<1>14. TypeOK'
  BY <1>2, <1>3, <1>13 DEF Inv, TypeOK, unread, answer, metrics
<1>15. ReportInv'
  <2>1. total' = total /\ statuses' = statuses /\ inFlight' = inFlight
    BY <1>2 DEF unread, metrics
  <2>2. \A q \in Reports : Fits(q)
    BY DEF Inv, ReportInv
  <2>3. \A q \in Reports \ {r} : Fits(q)'
    BY <1>4, <1>12, <1>13, <2>1, <2>2 DEF Fits
  <2>4. CASE ReadTotal(r)
    <3>1. pc'[r] = "totalled" /\ report'[r].total = total /\ late'[r] = Cardinality(Late)
      BY <1>1, <1>3, <1>11, <2>4 DEF ReadTotal, Go, Snapshots, Inv, TypeOK
    <3> QED BY <1>4, <1>9, <2>1, <2>3, <3>1 DEF ReportInv, Fits
  <2>5. CASE ReadModes(r)
    <3>1. /\ pc[r] = "totalled" /\ pc'[r] = "moded"
          /\ report'[r].total = report[r].total /\ late'[r] = late[r]
      BY <1>1, <1>3, <1>11, <2>5 DEF ReadModes, Go, Snapshots, Inv, TypeOK
    <3> QED BY <1>4, <2>1, <2>2, <2>3, <3>1 DEF ReportInv, Fits
  <2>6. CASE ReadInFlight(r)
    <3>1. /\ pc[r] = "moded" /\ pc'[r] = "flown" /\ report'[r].inFlight = inFlight
          /\ report'[r].total = report[r].total /\ late'[r] = late[r]
          /\ report[r].total \in Nat /\ late[r] \in Nat
      BY <1>1, <1>3, <1>11, <2>6 DEF ReadInFlight, Go, Snapshots, Inv, TypeOK
    <3>2. report[r].total - late[r] <= total - Cardinality(Late)
      BY <2>2, <3>1 DEF Fits
    <3>3. report'[r].total <= report'[r].inFlight + statuses'.ok + statuses'.bad + late'[r]
      BY <1>9, <1>10, <2>1, <3>1, <3>2
    <3> QED BY <2>3, <3>1, <3>3 DEF ReportInv, Fits
  <2>7. CASE ReadOk(r)
    <3>1. /\ pc[r] = "flown" /\ pc'[r] = "ok" /\ report'[r].ok = statuses.ok
          /\ report'[r].inFlight = report[r].inFlight
          /\ report'[r].total = report[r].total /\ late'[r] = late[r]
      BY <1>1, <1>3, <1>11, <2>7 DEF ReadOk, Go, Snapshots, Inv, TypeOK
    <3> QED BY <2>1, <2>2, <2>3, <3>1 DEF ReportInv, Fits
  <2>8. CASE ReadBad(r)
    <3>1. /\ pc[r] = "ok" /\ pc'[r] = "handled" /\ report'[r].bad = statuses.bad
          /\ report'[r].inFlight = report[r].inFlight /\ report'[r].ok = report[r].ok
          /\ report'[r].total = report[r].total /\ late'[r] = late[r]
      BY <1>1, <1>3, <1>11, <2>8 DEF ReadBad, Go, Snapshots, Inv, TypeOK
    <3> QED BY <2>1, <2>2, <2>3, <3>1 DEF ReportInv, Fits
  <2> QED BY <2>4, <2>5, <2>6, <2>7, <2>8 DEF ReportStep
<1> QED BY <1>5, <1>6, <1>8, <1>14, <1>15 DEF Inv

-----------------------------------------------------------------------------
(* At the counters.                                                        *)

One(place, places) == IF place \in places THEN 1 ELSE 0

LEMMA Passes ==
    ASSUME pc \in [Requests -> Places], NEW r \in Requests, NEW to, Go(r, to)
    PROVE  /\ Cardinality(At(Flying))' = Cardinality(At(Flying)) + One(to, Flying) - One(pc[r], Flying)
           /\ Cardinality(At(Landing))' = Cardinality(At(Landing)) + One(to, Landing) - One(pc[r], Landing)
           /\ Cardinality(Late)' = Cardinality(Late) + One(to, {"counted"}) - One(pc[r], {"counted"})
<1>1. ASSUME NEW places PROVE
        Cardinality(At(places))' = Cardinality(At(places)) + One(to, places) - One(pc[r], places)
  <2>1. Cardinality(At(places)) \in Nat
    BY Finite DEF At
  <2> QED BY <2>1, Moves DEF One
<1> QED BY <1>1 DEF Late

\* A step of the middleware takes request r on, and nothing else of it.
LEMMA MiddlewareMoves ==
    ASSUME TypeOK, PlaceInv, NEW r \in Requests, Middleware(r)
    PROVE  /\ pc' \in [Requests -> Places] /\ UNCHANGED <<available, answer>>
           /\ \A q \in Requests \ {r} : pc'[q] = pc[q]
           /\ PlaceInv'
<1>1. UNCHANGED <<available, answer>>
  BY DEF Middleware, CountIn, FlyIn, CountStatus, ObserveQuery, ObserveAgent, FlyOut
<1>2. /\ pc' \in [Requests -> Places] /\ \A q \in Requests \ {r} : pc'[q] = pc[q]
      /\ \/ pc[r] = "new" /\ pc'[r] = "counted"
         \/ pc[r] = "counted" /\ pc'[r] = IF r \in Queries THEN "bind" ELSE "report"
         \/ pc[r] = "handled" /\ pc'[r] = IF r \in Queries THEN "observe" ELSE "exit"
         \/ pc[r] = "observe" /\ pc'[r] = "observed"
         \/ pc[r] = "observed" /\ pc'[r] = "exit"
         \/ pc[r] = "exit" /\ pc'[r] = "gone"
  BY DEF Middleware, CountIn, FlyIn, CountStatus, ObserveQuery, ObserveAgent, FlyOut, Go, TypeOK, Places
<1>3. ASSUME NEW q \in Queries PROVE QueryInv(q)'
  <2>1. QueryInv(q) /\ q \in Requests
    BY DEF PlaceInv, Requests
  <2> QED BY <1>1, <1>2, <2>1 DEF QueryInv, Routed, Told, answer
<1>4. \A q \in Reports : q \in Requests /\ q \notin Queries
  BY RequestsAssumption DEF Requests
<1> QED BY <1>1, <1>2, <1>3, <1>4 DEF PlaceInv

LEMMA MiddlewareTypes ==
    ASSUME TypeOK, PlaceInv, FlightInv, NEW r \in Requests, Middleware(r)
    PROVE  TypeOK'
<1>1. pc' \in [Requests -> Places] /\ UNCHANGED <<available, answer>>
  BY MiddlewareMoves
<1>2. /\ total' \in Nat /\ inFlight' \in Nat /\ statuses' \in [ok : Nat, bad : Nat]
      /\ queryModes' \in [Names -> [requests : Nat, bad : Nat]]
      /\ agentModes' \in [Names -> [requests : Nat, fallbacks : Nat]]
      /\ report' \in [Reports -> Snapshots] /\ late' \in [Reports -> Nat]
  <2> USE DEF TypeOK
  <2>1. CASE CountIn(r)
    BY <2>1 DEF CountIn, reading
  <2>2. CASE FlyIn(r)
    BY <2>2 DEF FlyIn, reading
  <2>3. CASE CountStatus(r)
    <3>1. Blank \in Snapshots
      BY DEF Blank, Snapshots
    <3>2. statuses' \in [ok : Nat, bad : Nat]
      BY <2>3 DEF CountStatus
    <3> QED BY <2>3, <3>1, <3>2 DEF CountStatus
  <2>4. CASE ObserveQuery(r)
    <3>1. r \in Queries /\ key[r].mode \in Names
      BY <2>4 DEF ObserveQuery, PlaceInv, Requests, Keys
    <3>2. queryModes' \in [Names -> [requests : Nat, bad : Nat]]
      BY <2>4, <3>1 DEF ObserveQuery
    <3> QED BY <2>4, <3>2 DEF ObserveQuery, reading
  <2>5. CASE ObserveAgent(r)
    <3>1. r \in Queries /\ key[r].mode \in Names
      BY <2>5 DEF ObserveAgent, PlaceInv, Requests, Keys
    <3>2. agentModes' \in [Names -> [requests : Nat, fallbacks : Nat]]
      BY <2>5, <3>1 DEF ObserveAgent
    <3> QED BY <2>5, <3>2 DEF ObserveAgent, reading
  <2>6. CASE FlyOut(r)
    <3>1. At(Flying) # {} /\ At(Flying) \in SUBSET Requests
      BY <2>6 DEF FlyOut, At, Flying, Landing
    <3>2. inFlight # 0
      BY <3>1, Finite, FS_EmptySet DEF FlightInv
    <3> QED BY <2>6, <3>2 DEF FlyOut, reading
  <2> QED BY <2>1, <2>2, <2>3, <2>4, <2>5, <2>6 DEF Middleware
<1> QED BY <1>1, <1>2 DEF TypeOK, answer

LEMMA MiddlewareBalances ==
    ASSUME Inv, NEW r \in Requests, Middleware(r)
    PROVE  /\ FlightInv' /\ BalanceInv'
           /\ total' - Cardinality(Late)' >= total - Cardinality(Late)
<1>t. /\ pc \in [Requests -> Places]
      /\ Cardinality(At(Flying)) \in Nat /\ Cardinality(At(Landing)) \in Nat
      /\ Cardinality(Late) \in Nat
      /\ total \in Nat /\ inFlight \in Nat /\ statuses.ok \in Nat /\ statuses.bad \in Nat
  BY Finite DEF At, Late, Inv, TypeOK
<1>1. CASE CountIn(r)
  <2>a. pc[r] = "new" /\ Go(r, "counted")
    BY <1>1 DEF CountIn
  <2>1. /\ Cardinality(At(Flying))' = Cardinality(At(Flying))
        /\ Cardinality(At(Landing))' = Cardinality(At(Landing))
        /\ Cardinality(Late)' = Cardinality(Late) + 1
    BY <2>a, <1>t, Passes DEF Flying, Inside, Landing, One
  <2> QED BY <1>1, <2>1, <1>t DEF CountIn, Inv, FlightInv, BalanceInv
<1>2. CASE FlyIn(r)
  <2>a. pc[r] = "counted" /\ (Go(r, "bind") \/ Go(r, "report"))
    BY <1>2 DEF FlyIn
  <2>1. /\ Cardinality(At(Flying))' = Cardinality(At(Flying)) + 1
        /\ Cardinality(At(Landing))' = Cardinality(At(Landing))
        /\ Cardinality(Late)' = Cardinality(Late) - 1
    BY <2>a, <1>t, Passes DEF Flying, Inside, Landing, One
  <2> QED BY <1>2, <2>1, <1>t DEF FlyIn, Inv, FlightInv, BalanceInv
<1>3. CASE CountStatus(r)
  <2>a. pc[r] = "handled" /\ (Go(r, "observe") \/ Go(r, "exit"))
    BY <1>3 DEF CountStatus
  <2>1. /\ Cardinality(At(Flying))' = Cardinality(At(Flying))
        /\ Cardinality(At(Landing))' = Cardinality(At(Landing)) + 1
        /\ Cardinality(Late)' = Cardinality(Late)
    BY <2>a, <1>t, Passes DEF Flying, Inside, Landing, One
  <2>2. statuses'.ok + statuses'.bad = statuses.ok + statuses.bad + 1
    BY <1>3 DEF CountStatus, Inv, TypeOK
  <2>3. statuses'.ok \in Nat /\ statuses'.bad \in Nat
    BY <1>3 DEF CountStatus, Inv, TypeOK
  <2> QED BY <1>3, <2>1, <2>2, <2>3, <1>t DEF CountStatus, Inv, FlightInv, BalanceInv
<1>4. CASE ObserveQuery(r)
  <2>a. pc[r] = "observe" /\ Go(r, "observed")
    BY <1>4 DEF ObserveQuery
  <2>1. /\ Cardinality(At(Flying))' = Cardinality(At(Flying))
        /\ Cardinality(At(Landing))' = Cardinality(At(Landing))
        /\ Cardinality(Late)' = Cardinality(Late)
    BY <2>a, <1>t, Passes DEF Flying, Inside, Landing, One
  <2> QED BY <1>4, <2>1, <1>t DEF ObserveQuery, Inv, FlightInv, BalanceInv
<1>5. CASE ObserveAgent(r)
  <2>a. pc[r] = "observed" /\ Go(r, "exit")
    BY <1>5 DEF ObserveAgent
  <2>1. /\ Cardinality(At(Flying))' = Cardinality(At(Flying))
        /\ Cardinality(At(Landing))' = Cardinality(At(Landing))
        /\ Cardinality(Late)' = Cardinality(Late)
    BY <2>a, <1>t, Passes DEF Flying, Inside, Landing, One
  <2> QED BY <1>5, <2>1, <1>t DEF ObserveAgent, Inv, FlightInv, BalanceInv
<1>6. CASE FlyOut(r)
  <2>a. pc[r] = "exit" /\ Go(r, "gone")
    BY <1>6 DEF FlyOut
  <2>1. /\ Cardinality(At(Flying))' = Cardinality(At(Flying)) - 1
        /\ Cardinality(At(Landing))' = Cardinality(At(Landing)) - 1
        /\ Cardinality(Late)' = Cardinality(Late)
    BY <2>a, <1>t, Passes DEF Flying, Inside, Landing, One
  <2>2. inFlight' = inFlight - 1 /\ total' = total /\ statuses' = statuses
    BY <1>6 DEF FlyOut
  <2>3. inFlight = Cardinality(At(Flying)) /\ BalanceInv
    BY DEF Inv, FlightInv
  <2>4. FlightInv'
    BY <2>1, <2>2, <2>3 DEF FlightInv
  <2>5. BalanceInv'
    BY <2>1, <2>2, <2>3, <1>t DEF BalanceInv
  <2> QED BY <2>1, <2>2, <2>4, <2>5, <1>t
<1> QED BY <1>1, <1>2, <1>3, <1>4, <1>5, <1>6 DEF Middleware

LEMMA MiddlewareReports ==
    ASSUME Inv, NEW r \in Requests, Middleware(r)
    PROVE  ReportInv'
<1>1. ASSUME NEW q \in Reports PROVE Fits(q)'
  <2>1. /\ q \in Requests /\ (q # r => pc'[q] = pc[q])
        /\ q = r => pc'[q] \in {"counted", "report", "exit", "gone"}
    <3>1. q \in Requests /\ q \notin Queries
      BY RequestsAssumption DEF Requests
    <3>2. pc \in [Requests -> Places] /\ q = r => pc[q] \notin {"observe"}
      BY DEF Inv, TypeOK, PlaceInv
    <3> QED BY <3>1, <3>2 DEF Middleware, CountIn, FlyIn, CountStatus, ObserveQuery, ObserveAgent,
                              FlyOut, Go, Inv, TypeOK
  <2>2. total' - Cardinality(Late)' >= total - Cardinality(Late)
    BY MiddlewareBalances
  <2>3. q # r => report'[q] = report[q] /\ late'[q] = late[q]
    BY DEF Middleware, CountIn, FlyIn, CountStatus, ObserveQuery, ObserveAgent, FlyOut, reading
  <2>4. statuses'.ok >= statuses.ok /\ statuses'.bad >= statuses.bad
    BY DEF Middleware, CountIn, FlyIn, CountStatus, ObserveQuery, ObserveAgent, FlyOut, Inv, TypeOK
  <2>5. /\ Cardinality(Late) \in Nat /\ Cardinality(Late)' \in Nat
        /\ total \in Nat /\ total' \in Nat
        /\ statuses.ok \in Nat /\ statuses.bad \in Nat
        /\ statuses'.ok \in Nat /\ statuses'.bad \in Nat
        /\ report[q] \in Snapshots /\ late[q] \in Nat
    BY MiddlewareTypes, Finite DEF Inv, TypeOK, At, Late
  <2>6. report[q].total \in Nat /\ report[q].inFlight \in Nat /\ report[q].ok \in Nat
    BY <2>5 DEF Snapshots
  <2>7. Fits(q)
    BY DEF Inv, ReportInv
  <2>8. CASE q = r
    BY <2>1, <2>8 DEF Fits
  <2>9. CASE q # r
    BY <2>1, <2>2, <2>3, <2>4, <2>5, <2>6, <2>7, <2>9 DEF Fits
  <2> QED BY <2>8, <2>9
<1> QED BY <1>1 DEF ReportInv

\* A query is observed under what its context holds, which is what its reader was told.
LEMMA MiddlewareObserves ==
    ASSUME Inv, NEW r \in Requests, Middleware(r)
    PROVE  CountedAsTold'
<1> USE DEF Observed
<1>1. /\ UNCHANGED answer /\ pc \in [Requests -> Places] /\ Queries \subseteq Requests
      /\ \A q \in Requests \ {r} : pc'[q] = pc[q]
  BY MiddlewareMoves DEF Inv, TypeOK, Requests
<1>2. \A q \in Queries : Told(q)' = Told(q) /\ stream'[q] = stream[q]
  BY <1>1 DEF Told, answer
<1>3. CASE ObserveAgent(r)
  <2> DEFINE n == key[r].mode
  <2>1. /\ r \in Queries /\ pc[r] = "observed" /\ pc'[r] = "exit"
        /\ n = Told(r) /\ key[r].fallback = stream[r].notice /\ n \in Names
    <3>1. r \in Queries /\ pc[r] = "observed" /\ pc'[r] = "exit"
      BY <1>1, <1>3 DEF ObserveAgent, Go, Inv, PlaceInv, Requests
    <3>2. key[r] = [mode |-> Told(r), fallback |-> stream[r].notice] /\ key[r].mode \in Names
      BY <3>1 DEF Inv, TypeOK, Keys, PlaceInv, QueryInv
    <3> QED BY <3>1, <3>2
  <2>2. ASSUME NEW m \in Names
        PROVE  /\ agentModes'[m].requests = Cardinality(Observed(m)')
               /\ agentModes'[m].fallbacks = Cardinality({q \in Observed(m)' : stream'[q].notice})
    <3> DEFINE told == {q \in Observed(m) : stream[q].notice}
    <3>1. /\ agentModes[m].requests = Cardinality(Observed(m))
          /\ agentModes[m].fallbacks = Cardinality(told)
      BY DEF Inv, CountedAsTold
    <3>2. CASE m # n
      <4>1. Observed(m)' = Observed(m) /\ {q \in Observed(m)' : stream'[q].notice} = told
        BY <1>1, <1>2, <2>1, <3>2
      <4>2. agentModes'[m] = agentModes[m]
        BY <1>3, <3>2 DEF ObserveAgent, Inv, TypeOK
      <4> QED BY <3>1, <4>1, <4>2
    <3>3. CASE m = n
      <4>1. Observed(m)' = Observed(m) \cup {r} /\ r \notin Observed(m)
        BY <1>1, <1>2, <2>1, <3>3
      <4>2. {q \in Observed(m)' : stream'[q].notice}
              = IF stream[r].notice THEN told \cup {r} ELSE told
        BY <1>2, <2>1, <4>1
      <4>3. IsFiniteSet(Observed(m)) /\ IsFiniteSet(told)
        BY <1>1, Finite
      <4>4. /\ agentModes'[m].requests = agentModes[m].requests + 1
            /\ agentModes'[m].fallbacks = agentModes[m].fallbacks + (IF stream[r].notice THEN 1 ELSE 0)
        BY <1>3, <2>1, <3>3 DEF ObserveAgent, Inv, TypeOK
      <4>5. Cardinality(Observed(m)') = Cardinality(Observed(m)) + 1
        BY <4>1, <4>3, FS_AddElement
      <4>6. Cardinality({q \in Observed(m)' : stream'[q].notice})
              = Cardinality(told) + (IF stream[r].notice THEN 1 ELSE 0)
        <5>1. CASE stream[r].notice
          <6>1. r \notin told
            BY <4>1
          <6> QED BY <4>2, <4>3, <5>1, <6>1, FS_AddElement
        <5>2. CASE ~ stream[r].notice
          <6>1. Cardinality(told) \in Nat
            BY <4>3, FS_CardinalityType
          <6> QED BY <4>2, <5>2, <6>1
        <5> QED BY <5>1, <5>2
      <4> QED BY <3>1, <4>4, <4>5, <4>6
    <3> QED BY <3>2, <3>3
  <2> QED BY <2>2 DEF CountedAsTold
<1>4. CASE ~ ObserveAgent(r)
  <2>1. agentModes' = agentModes
    BY <1>4 DEF Middleware, CountIn, FlyIn, CountStatus, ObserveQuery, FlyOut
  <2>2. r \in Queries => (pc[r] \in {"exit", "gone"} <=> pc'[r] \in {"exit", "gone"})
    BY <1>1, <1>4 DEF Middleware, CountIn, FlyIn, CountStatus, ObserveQuery, FlyOut, Go
  <2>3. ASSUME NEW m \in Names
        PROVE  /\ Observed(m)' = Observed(m)
               /\ {q \in Observed(m) : stream[q].notice}' = {q \in Observed(m) : stream[q].notice}
    BY <1>1, <1>2, <2>2
  <2> QED BY <2>1, <2>3 DEF Inv, CountedAsTold
<1> QED BY <1>3, <1>4

-----------------------------------------------------------------------------
(* The invariant.                                                          *)

LEMMA Initially == Init => Inv
<1> SUFFICES ASSUME Init PROVE Inv
  OBVIOUS
<1>1. TypeOK
  BY AvailabilitiesAssumption DEF Init, TypeOK, Places, Traces, Keys, Streams, Snapshots, Blank, Names
<1>2. At(Flying) = {} /\ At(Landing) = {} /\ Late = {}
  BY DEF Init, At, Late, Flying, Inside, Landing
<1>3. Cardinality({}) = 0
  BY FS_EmptySet
<1>4. FlightInv /\ BalanceInv
  BY <1>2, <1>3 DEF Init, FlightInv, BalanceInv
<1>5. \A r \in Requests : pc[r] = "new"
  BY DEF Init
<1>6. ReportInv /\ PlaceInv
  BY <1>5 DEF Init, Requests, ReportInv, Fits, PlaceInv, QueryInv, Unopened
<1>7. \A m \in Names : Observed(m) = {} /\ {r \in Observed(m) : stream[r].notice} = {}
  BY <1>5 DEF Observed, Requests
<1>8. CountedAsTold
  BY <1>3, <1>7 DEF Init, CountedAsTold
<1> QED BY <1>1, <1>4, <1>6, <1>8 DEF Inv

LEMMA Stuttering == Inv /\ UNCHANGED vars => Inv'
<1> SUFFICES ASSUME Inv, UNCHANGED vars PROVE Inv'
  OBVIOUS
<1> USE DEF vars, answer, metrics, reading, Inv
<1>1. TypeOK'
  BY DEF TypeOK
<1>2. FlightInv' /\ BalanceInv' /\ ReportInv'
  BY DEF FlightInv, BalanceInv, ReportInv, Fits, At, Late
<1>3. PlaceInv'
  BY DEF PlaceInv, QueryInv, Routed, Told
<1>4. CountedAsTold'
  BY DEF CountedAsTold, Observed, Told
<1> QED BY <1>1, <1>2, <1>3, <1>4

\* The counters balance, what has been read of them bounds what is left to read, and each
\* query is where its stream, its trace and its context say it is.
THEOREM Always == Spec => []Inv
<1>1. Inv /\ [Next]_vars => Inv'
  <2> SUFFICES ASSUME Inv, [Next]_vars PROVE Inv'
    OBVIOUS
  <2>1. CASE \E r \in Queries : Handle(r) \/ ContextEnds(r)
    BY <2>1, HandleKeepsInv
  <2>2. CASE \E r \in Reports : ReportStep(r)
    BY <2>2, ReportsKeepInv
  <2>3. ASSUME NEW r \in Requests, Middleware(r) PROVE Inv'
    <3>1. TypeOK' /\ PlaceInv'
      BY <2>3, MiddlewareMoves, MiddlewareTypes DEF Inv
    <3>2. FlightInv' /\ BalanceInv'
      BY <2>3, MiddlewareBalances
    <3>3. ReportInv' /\ CountedAsTold'
      BY <2>3, MiddlewareReports, MiddlewareObserves
    <3> QED BY <3>1, <3>2, <3>3 DEF Inv
  <2>4. CASE UNCHANGED vars
    BY <2>4, Stuttering
  <2> QED BY <2>1, <2>2, <2>3, <2>4 DEF Next
<1> QED BY <1>1, Initially, PTL DEF Spec

\* Each variable keeps its type: in particular the gauge of requests in flight is never
\* decreased below zero.
THEOREM Typing == Spec => []TypeOK
<1>1. Inv => TypeOK
  BY DEF Inv
<1> QED BY <1>1, Always, PTL

\* Whatever clients ask for and whichever modes were initialised, only these run, after a
\* fallback, too: no request reaches an agent or a graph that does not exist.
THEOREM OnlyAvailableModes == Spec => []RunsAvailable
<1>1. Inv => RunsAvailable
  <2>1. ASSUME PlaceInv, NEW r \in Queries, running[r] # NoMode PROVE running[r] \in available
    BY <2>1 DEF PlaceInv, QueryInv, Routed
  <2> QED BY <2>1 DEF Inv, RunsAvailable
<1> QED BY <1>1, Always, PTL

\* The metrics attribute each answered query to the mode that ran last, and count a
\* fallback exactly if the reader of its stream was told of one.
THEOREM Attributed == Spec => []CountedAsTold
<1>1. Inv => CountedAsTold
  BY DEF Inv
<1> QED BY <1>1, Always, PTL

\* A report of the metrics accounts for each request of its total, but for those between
\* the two counters when it began, however many requests pass between its loads.
THEOREM WholeReports == Spec => []ReportsWhole
<1>1. Inv => ReportsWhole
  BY DEF Inv, ReportInv, Fits, ReportsWhole
<1> QED BY <1>1, Always, PTL

-----------------------------------------------------------------------------
(* The modes of a report against its statuses.                             *)

\* What is counted under the modes and what is about to be has a status already, and what a
\* report has read of the modes stays within the statuses it has read and has yet to read.
Counted == [m \in Names |-> queryModes[m].requests]

Within(r) ==
    /\ pc[r] \in {"moded", "flown"} => OverModes(report[r].queries) <= statuses.ok + statuses.bad
    /\ pc[r] = "ok" => OverModes(report[r].queries) <= report[r].ok + statuses.bad
    /\ pc[r] = "handled" => OverModes(report[r].queries) <= report[r].ok + report[r].bad

ModesInv == /\ OverModes(Counted) + Cardinality(At({"observe"})) <= statuses.ok + statuses.bad
            /\ \A r \in Reports : Within(r)

LEMMA OverModesNat == ASSUME NEW of \in [Names -> Nat] PROVE OverModes(of) \in Nat
  BY DEF OverModes, Names, Modes, Unknown

LEMMA OverModesAdds ==
    ASSUME NEW of \in [Names -> Nat], NEW m \in Names
    PROVE  OverModes([of EXCEPT ![m] = @ + 1]) = OverModes(of) + 1
<1> DEFINE more == [of EXCEPT ![m] = @ + 1]
<1>1. \A n \in Names : more[n] = IF n = m THEN of[n] + 1 ELSE of[n]
  OBVIOUS
<1>2. \A n \in Names : of[n] \in Nat
  OBVIOUS
<1> SUFFICES OverModes(more) = OverModes(of) + 1
  OBVIOUS
<1> HIDE DEF more
<1>3. /\ "rag" \in Names /\ "react" \in Names /\ "rag_agent" \in Names /\ "multi-agent" \in Names
      /\ "graph_rag" \in Names /\ "graph_multi" \in Names /\ Unknown \in Names
  BY DEF Names, Modes
<1>4. CASE m = "rag"
  BY <1>1, <1>2, <1>3, <1>4 DEF OverModes, Unknown
<1>5. CASE m = "react"
  BY <1>1, <1>2, <1>3, <1>5 DEF OverModes, Unknown
<1>6. CASE m = "rag_agent"
  BY <1>1, <1>2, <1>3, <1>6 DEF OverModes, Unknown
<1>7. CASE m = "multi-agent"
  BY <1>1, <1>2, <1>3, <1>7 DEF OverModes, Unknown
<1>8. CASE m = "graph_rag"
  BY <1>1, <1>2, <1>3, <1>8 DEF OverModes, Unknown
<1>9. CASE m = "graph_multi"
  BY <1>1, <1>2, <1>3, <1>9 DEF OverModes, Unknown
<1>10. CASE m = Unknown
  BY <1>1, <1>2, <1>3, <1>10 DEF OverModes, Unknown
<1> QED BY <1>4, <1>5, <1>6, <1>7, <1>8, <1>9, <1>10 DEF Names, Modes

\* A step that only reports, or only answers, leaves the counters alone.
LEMMA ReportsKeepModes ==
    ASSUME Inv, ModesInv, NEW r \in Reports, ReportStep(r)
    PROVE  ModesInv'
<1>1. r \in Requests /\ pc \in [Requests -> Places]
  BY DEF Requests, Inv, TypeOK
<1>2. statuses' = statuses /\ queryModes' = queryModes
  BY DEF ReportStep, ReadTotal, ReadModes, ReadInFlight, ReadOk, ReadBad, unread, metrics
<1>3. At({"observe"})' = At({"observe"}) /\ Counted' = Counted
  BY <1>1, <1>2 DEF At, Counted, ReportStep, ReadTotal, ReadModes, ReadInFlight, ReadOk, ReadBad, Go
<1>4. /\ OverModes(Counted) \in Nat /\ Cardinality(At({"observe"})) \in Nat
      /\ statuses.ok \in Nat /\ statuses.bad \in Nat
      /\ report \in [Reports -> Snapshots]
  <2>1. Counted \in [Names -> Nat]
    BY DEF Counted, Inv, TypeOK
  <2> QED BY <2>1, OverModesNat, Finite DEF At, Inv, TypeOK
<1>5. ASSUME NEW q \in Reports \ {r} PROVE Within(q)'
  <2>1. pc'[q] = pc[q] /\ report'[q] = report[q]
    BY <1>1, <1>4, <1>5 DEF Requests, ReportStep, ReadTotal, ReadModes, ReadInFlight, ReadOk, ReadBad, Go
  <2> QED BY <1>2, <2>1 DEF ModesInv, Within
<1>6. Within(r)'
  <2>1. CASE ReadTotal(r)
    BY <1>1, <2>1 DEF ReadTotal, Go, Within
  <2>2. CASE ReadModes(r)
    <3>1. pc'[r] = "moded" /\ report'[r].queries = Counted
      BY <1>1, <1>4, <2>2 DEF ReadModes, Go, Counted, Snapshots
    <3>2. OverModes(Counted) <= statuses.ok + statuses.bad
      BY <1>4 DEF ModesInv
    <3> QED BY <1>2, <3>1, <3>2 DEF Within
  <2>3. CASE ReadInFlight(r)
    <3>1. pc[r] = "moded" /\ pc'[r] = "flown" /\ report'[r].queries = report[r].queries
      BY <1>1, <1>4, <2>3 DEF ReadInFlight, Go, Snapshots
    <3> QED BY <1>2, <3>1 DEF ModesInv, Within
  <2>4. CASE ReadOk(r)
    <3>1. /\ pc[r] = "flown" /\ pc'[r] = "ok" /\ report'[r].queries = report[r].queries
          /\ report'[r].ok = statuses.ok
      BY <1>1, <1>4, <2>4 DEF ReadOk, Go, Snapshots
    <3> QED BY <1>2, <3>1 DEF ModesInv, Within
  <2>5. CASE ReadBad(r)
    <3>1. /\ pc[r] = "ok" /\ pc'[r] = "handled" /\ report'[r].queries = report[r].queries
          /\ report'[r].ok = report[r].ok /\ report'[r].bad = statuses.bad
      BY <1>1, <1>4, <2>5 DEF ReadBad, Go, Snapshots
    <3> QED BY <1>2, <3>1 DEF ModesInv, Within
  <2> QED BY <2>1, <2>2, <2>3, <2>4, <2>5 DEF ReportStep
<1> QED BY <1>2, <1>3, <1>5, <1>6 DEF ModesInv

\* The middleware counts the status of a query before its mode, and statuses only grow.
LEMMA MiddlewareKeepsModes ==
    ASSUME Inv, ModesInv, NEW r \in Requests, Middleware(r)
    PROVE  ModesInv'
<1>1. /\ pc \in [Requests -> Places] /\ queryModes \in [Names -> [requests : Nat, bad : Nat]]
      /\ statuses \in [ok : Nat, bad : Nat] /\ report \in [Reports -> Snapshots]
      /\ Counted \in [Names -> Nat] /\ OverModes(Counted) \in Nat
      /\ Cardinality(At({"observe"})) \in Nat
  <2>1. queryModes \in [Names -> [requests : Nat, bad : Nat]]
    BY DEF Inv, TypeOK
  <2>2. Counted \in [Names -> Nat]
    BY <2>1 DEF Counted
  <2> QED BY <2>1, <2>2, OverModesNat, Finite DEF At, Inv, TypeOK
<1>2. \/ /\ statuses' = statuses
         /\ OverModes(Counted') + Cardinality(At({"observe"}))'
               = OverModes(Counted) + Cardinality(At({"observe"}))
      \/ /\ OverModes(Counted') = OverModes(Counted)
         /\ Cardinality(At({"observe"}))' <= Cardinality(At({"observe"})) + 1
         /\ Cardinality(At({"observe"}))' \in Nat
         /\ \/ statuses'.ok = statuses.ok + 1 /\ statuses'.bad = statuses.bad
            \/ statuses'.ok = statuses.ok /\ statuses'.bad = statuses.bad + 1
  <2>1. CASE CountStatus(r)
    <3>1. /\ pc[r] = "handled" /\ queryModes' = queryModes
          /\ Go(r, IF r \in Queries THEN "observe" ELSE "exit")
          /\ \/ statuses' = [statuses EXCEPT !.bad = @ + 1]
             \/ statuses' = [statuses EXCEPT !.ok = @ + 1]
      BY <2>1 DEF CountStatus
    <3>2. /\ Cardinality(At({"observe"}))' <= Cardinality(At({"observe"})) + 1
          /\ Cardinality(At({"observe"}))' \in Nat
      <4>1. CASE r \in Queries
        <5>1. Cardinality(At({"observe"}))' = Cardinality(At({"observe"})) + 1
          BY <1>1, <3>1, <4>1, Moves
        <5> QED BY <1>1, <5>1
      <4>2. CASE r \notin Queries
        <5>1. At({"observe"})' = At({"observe"})
          BY <1>1, <3>1, <4>2 DEF Go, At
        <5> QED BY <1>1, <5>1
      <4> QED BY <4>1, <4>2
    <3>3. \/ statuses'.ok = statuses.ok + 1 /\ statuses'.bad = statuses.bad
          \/ statuses'.ok = statuses.ok /\ statuses'.bad = statuses.bad + 1
      BY <1>1, <3>1
    <3>4. Counted' = Counted
      BY <3>1 DEF Counted
    <3> QED BY <3>2, <3>3, <3>4
  <2>2. CASE ObserveQuery(r)
    <3>1. /\ pc[r] = "observe" /\ Go(r, "observed") /\ statuses' = statuses
          /\ queryModes' = [queryModes EXCEPT
                              ![key[r].mode].requests = @ + 1,
                              ![key[r].mode].bad = @ + (IF Refused(r) THEN 1 ELSE 0)]
      BY <2>2 DEF ObserveQuery
    <3>2. r \in Queries /\ key[r].mode \in Names
      BY <3>1 DEF Inv, TypeOK, PlaceInv, Requests, Keys
    <3>3. Counted' = [Counted EXCEPT ![key[r].mode] = @ + 1]
      BY <1>1, <3>1, <3>2 DEF Counted
    <3>4. OverModes(Counted') = OverModes(Counted) + 1
      BY <1>1, <3>2, <3>3, OverModesAdds
    <3>5. Cardinality(At({"observe"}))' = Cardinality(At({"observe"})) - 1
      BY <1>1, <3>1, Moves
    <3> QED BY <1>1, <3>1, <3>4, <3>5
  <2>3. CASE CountIn(r) \/ FlyIn(r) \/ ObserveAgent(r) \/ FlyOut(r)
    <3>1. statuses' = statuses /\ Counted' = Counted
      BY <2>3 DEF CountIn, FlyIn, ObserveAgent, FlyOut, Counted
    <3>2. At({"observe"})' = At({"observe"})
      BY <1>1, <2>3 DEF CountIn, FlyIn, ObserveAgent, FlyOut, At, Go
    <3> QED BY <3>1, <3>2
  <2> QED BY <2>1, <2>2, <2>3 DEF Middleware
<1>3. /\ statuses.ok \in Nat /\ statuses.bad \in Nat
      /\ statuses'.ok >= statuses.ok /\ statuses'.bad >= statuses.bad
      /\ statuses'.ok \in Nat /\ statuses'.bad \in Nat
  BY <1>1, <1>2
<1>4. ASSUME NEW q \in Reports PROVE Within(q)'
  <2>1. q \in Requests /\ q \notin Queries
    BY RequestsAssumption DEF Requests
  <2>2. CASE q = r
    <3>1. pc[q] # "observe" /\ pc[q] # "observed"
      BY DEF Inv, PlaceInv
    <3>2. pc'[q] \in {"counted", "report", "exit", "gone"}
      BY <1>1, <2>1, <2>2, <3>1 DEF Middleware, CountIn, FlyIn, CountStatus, ObserveQuery,
                                    ObserveAgent, FlyOut, Go
    <3> QED BY <3>2 DEF Within
  <2>3. CASE q # r
    <3>1. pc'[q] = pc[q] /\ report'[q] = report[q]
      BY <1>1, <2>1, <2>3 DEF Middleware, CountIn, FlyIn, CountStatus, ObserveQuery,
                              ObserveAgent, FlyOut, Go, reading
    <3>2. report[q].ok \in Nat /\ OverModes(report[q].queries) \in Nat
      BY <1>1, OverModesNat DEF Snapshots
    <3> QED BY <1>3, <3>1, <3>2 DEF ModesInv, Within
  <2> QED BY <2>2, <2>3
<1>5. OverModes(Counted)' + Cardinality(At({"observe"}))' <= statuses'.ok + statuses'.bad
  <2>1. OverModes(Counted)' = OverModes(Counted')
    BY DEF OverModes
  <2> QED BY <1>1, <1>2, <1>3, <2>1 DEF ModesInv
<1> QED BY <1>4, <1>5 DEF ModesInv

\* The modes a report shows never add up to more queries than it has answers, although
\* they are read at different moments and under different locks.
THEOREM ModesFit == Spec => []ModesWithinStatuses
<1>1. Init => ModesInv
  <2> SUFFICES ASSUME Init PROVE ModesInv
    OBVIOUS
  <2>1. At({"observe"}) = {}
    BY DEF Init, At
  <2>2. Counted = [m \in Names |-> 0]
    BY DEF Init, Counted
  <2>3. OverModes(Counted) = 0
    BY <2>2 DEF OverModes, Names, Modes, Unknown
  <2>4. statuses.ok = 0 /\ statuses.bad = 0
    BY DEF Init
  <2>5. \A r \in Reports : pc[r] = "new"
    BY DEF Init, Requests
  <2> QED BY <2>1, <2>3, <2>4, <2>5, FS_EmptySet DEF ModesInv, Within
<1>2. Inv /\ ModesInv /\ [Next]_vars => ModesInv'
  <2> SUFFICES ASSUME Inv, ModesInv, [Next]_vars PROVE ModesInv'
    OBVIOUS
  <2>1. ASSUME NEW r \in Queries, Handle(r) \/ ContextEnds(r) PROVE ModesInv'
    <3>1. /\ Alone(r) /\ UNCHANGED <<metrics, reading>>
          /\ pc[r] \in Inside /\ pc'[r] \in Inside
      BY <2>1, HandleSteps DEF Inv
    <3>2. r \in Requests /\ r \notin Reports
      BY RequestsAssumption DEF Requests
    <3>3. At({"observe"})' = At({"observe"})
      BY <3>1, <3>2 DEF At, Alone, Inside
    <3>4. \A q \in Reports : pc'[q] = pc[q]
      BY <3>1, <3>2 DEF Alone, Requests
    <3>5. UNCHANGED <<statuses, queryModes, report>>
      BY <3>1 DEF metrics, reading
    <3> QED BY <3>3, <3>4, <3>5 DEF ModesInv, Within, Counted
  <2>2. ASSUME NEW r \in Reports, ReportStep(r) PROVE ModesInv'
    BY <2>2, ReportsKeepModes
  <2>3. ASSUME NEW r \in Requests, Middleware(r) PROVE ModesInv'
    BY <2>3, MiddlewareKeepsModes
  <2>4. CASE UNCHANGED vars
    BY <2>4 DEF vars, metrics, reading, ModesInv, Within, Counted, At
  <2> QED BY <2>1, <2>2, <2>3, <2>4 DEF Next
<1>3. ModesInv => ModesWithinStatuses
  BY DEF ModesInv, Within, ModesWithinStatuses
<1> QED BY <1>1, <1>2, <1>3, Always, PTL DEF Spec

-----------------------------------------------------------------------------

\* The responses to queries are those AnswerStream allows (but for its fairness): refused
\* or opened, told of at most one change of mode before any content, of one mode, and
\* ended once, with nothing after it.
THEOREM RefinesStream == Spec => Stream!Init /\ [][Stream!Next]_stream
<1>1. Init => Stream!Init
  BY DEF Init, Stream!Init
<1>2. Inv /\ [Next]_vars => [Stream!Next]_stream
  <2> SUFFICES ASSUME Inv, [Next]_vars PROVE Stream!Next \/ UNCHANGED stream
    OBVIOUS
  <2>1. CASE \E r \in Queries : Handle(r) \/ ContextEnds(r)
    BY <2>1, StreamSteps DEF Inv
  <2>2. CASE \E r \in Reports : ReportStep(r)
    BY <2>2 DEF ReportStep, ReadTotal, ReadModes, ReadInFlight, ReadOk, ReadBad, unread, answer
  <2>3. CASE \E r \in Requests : Middleware(r)
    BY <2>3 DEF Middleware, CountIn, FlyIn, CountStatus, ObserveQuery, ObserveAgent, FlyOut, answer
  <2>4. CASE UNCHANGED vars
    BY <2>4 DEF vars, answer
  <2> QED BY <2>1, <2>2, <2>3, <2>4 DEF Next
<1> QED BY <1>1, <1>2, Always, PTL DEF Spec
=============================================================================
