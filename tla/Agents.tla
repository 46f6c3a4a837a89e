------------------------------- MODULE Agents -------------------------------
(***************************************************************************)
(* One request in a mode that has agents or a graph (agent.go, planner.go, *)
(* guarded_tool.go, validator.go, graph.go, hotword_tools.go): the plan,   *)
(* its steps side by side, each a ReAct agent that calls guarded tools,    *)
(* and the answer that is made of what they found.                         *)
(*                                                                         *)
(* A text is the set of what its readers look for in it: "long" (20        *)
(* characters), the keywords "query", "prefix" (executeStep puts words of  *)
(* its own before the question) and "fact", "hedge" (a phrase an answer    *)
(* may only have from its evidence), "junk" (a word of failure). The       *)
(* models, Milvus and the web are external: a call comes back with a       *)
(* result or an error at any time, at the latest when its context is over. *)
(***************************************************************************)
EXTENDS Integers, FiniteSets

CONSTANTS Modes,    \* modes of the request
          Questions,\* what a question may ask for
          Texts,    \* what a model may answer
          Contexts, \* what retrieval may return
          Arguments,\* what a model may pass to a tool: "keyword", "word" or "query"
          Width,    \* bound: tool calls of one message of a model
          MaxCalls, \* bound: tool calls of each agent (eino bounds its messages, MaxStep)
          None

Marks    == {"long", "query", "prefix", "fact", "hedge", "junk"}
Keywords == {"query", "prefix", "fact"}
Blank    == {}
Planned  == {"search", "analysis", "explanation"}
Steps    == Planned \cup {"solo"}      \* solo: the agent of react and of rag_agent
Tools    == {"hotword_search", "volcano_web_search", "trend_analysis", "explain_hotword"}
Keys     == {"keyword", "word"}         \* "word": the tools read no keyword, and look up ""
Slots    == Steps \X (1..Width)         \* the calls of the message an agent is at

ASSUME ModesAssumption ==
    Modes \subseteq {"react", "rag_agent", "multi-agent", "graph_rag", "graph_multi"}
ASSUME TextsAssumption == Texts \subseteq SUBSET Marks /\ Contexts \subseteq SUBSET Marks
ASSUME ArgumentsAssumption == Arguments \subseteq Keys \cup {"query"}
ASSUME BoundsAssumption == Width \in Nat /\ MaxCalls \in [Steps -> Nat]
ASSUME NoneAssumption == None \notin {"own", "over", "echo", "answer", "error"}

VARIABLES
    mode,
    signals,  \* what the planner finds in the question
    built,    \* whether the graph was given the agents as tools
    pc,       \* of the request
    over,     \* its context has ended
    context,  \* what retrieval returned
    plan,     \* the steps that run
    step,     \* where each agent is
    call,     \* where each call of its message is
    tool,     \* the tool that is called, and with what
    results,  \* useful results its model has been given
    res,      \* what it answered
    fail,     \* the group's first error, which cancels its context
    hot,      \* the hot word tool's cache
    trace,    \* RequestTrace: calls, failures, validation failures
    answer, outcome

request == <<mode, signals, built>>
toolCalls == <<call, tool>>
agents  == <<step, toolCalls, results, res, fail, hot>>
vars == <<request, pc, over, context, plan, agents, trace, answer, outcome>>

-----------------------------------------------------------------------------
(* validator.go.                                                           *)

SharesKeyword(source, target) == source \cap target \cap Keywords # {}

\* An argument object with the field that the tool is required to have.
ValidCall(name, argument) ==
    IF name = "volcano_web_search" THEN argument = "query" ELSE argument \in Keys

ValidResult(asked, result) ==
    /\ result # Blank /\ "long" \in result /\ "junk" \notin result
    /\ asked # Blank => SharesKeyword(asked, result)

ValidAnswerUnhedged(asked, text, evidence) == \* Variant: no look at the phrases.
    /\ text # Blank /\ "long" \in text
    /\ SharesKeyword(asked, text)
    /\ evidence # Blank => SharesKeyword(evidence, text)

ValidAnswer(asked, text, evidence) ==
    /\ text # Blank /\ "long" \in text
    /\ "hedge" \in text => "hedge" \in evidence
    /\ SharesKeyword(asked, text)
    /\ evidence # Blank => SharesKeyword(evidence, text)

-----------------------------------------------------------------------------
(* planner.go. A question for an analysis, with a word that asks for an    *)
(* explanation, complex.                                                   *)

Signals == [analysis : BOOLEAN, explanation : BOOLEAN, complex : BOOLEAN]

ASSUME QuestionsAssumption == Questions \subseteq Signals

BuildPlan(s) == {"search"} \cup (IF s.analysis THEN {"analysis"} ELSE {})
                    \cup (IF s.explanation \/ ~ s.complex THEN {"explanation"} ELSE {})

UsesPlan == mode \in {"multi-agent", "graph_multi"}

\* Only the graph looks at built.
Init == /\ mode \in Modes /\ signals \in Questions
        /\ built \in IF mode = "graph_multi" THEN BOOLEAN ELSE {TRUE}
        /\ pc = (IF UsesPlan THEN "plan" ELSE IF mode = "react" THEN "fork" ELSE "retrieve")
        /\ over = FALSE /\ context = Blank /\ plan = {}
        /\ step = [s \in Steps |-> "idle"]
        /\ call = [c \in Slots |-> "none"]
        /\ tool = [c \in Slots |-> None]
        /\ results = [s \in Steps |-> 0]
        /\ res = [s \in Steps |-> Blank]
        /\ fail = None
        /\ \E found \in {"none", "useful", "useless"} : hot = [k \in Keys |-> found]
        /\ trace = [calls |-> 0, failures |-> 0, invalid |-> 0]
        /\ answer = Blank /\ outcome = None

-----------------------------------------------------------------------------
(* The end of a step and of the request.                                   *)

\* Where an agent stops: with an answer; by the error of a tool call; with an answer the
\* validator refuses; by the model's error.
Stopped == {"answered", "broken", "invalid", "failed"}

\* A call ends with an error of its own, or because its context was over: that of the
\* request, or that of the group, which the first error cancels.
Reasons == {"own"} \cup (IF over THEN {"over"} ELSE {})
                   \cup (IF fail # None /\ mode \in {"multi-agent", "graph_multi"} THEN {"echo"} ELSE {})

LatestError(e) == e \* Variant: every error overwrites the one before.

FirstError(e) == IF fail = None THEN e ELSE fail

Stop(s, how, e) == /\ step' = [step EXCEPT ![s] = how]
                   /\ fail' = (IF how = "answered" THEN fail ELSE FirstError(e))

Count(calls, failures, invalid) ==
    trace' = [calls |-> trace.calls + calls, failures |-> trace.failures + failures,
              invalid |-> trace.invalid + invalid]

OnlySteps == UNCHANGED <<request, pc, over, context, plan, answer, outcome>>

Deliver(text) == answer' = text /\ outcome' = "answer" /\ pc' = "done"
GiveUp == answer' = Blank /\ outcome' = "error" /\ pc' = "done"

-----------------------------------------------------------------------------
(* The tool calls of a message: eino's tools node, GuardedTool.InvokableRun *)
(* and the tools under it.                                                 *)

Offered(s) == CASE s = "search"      -> {"hotword_search", "volcano_web_search"}
                [] s = "analysis"    -> {"trend_analysis"}
                [] s = "explanation" -> {"explain_hotword"}
                [] OTHER             -> Tools

\* A call ends with a result for the model, or with an error: by the guard's refusal of the
\* call or of its result, or with one of Reasons.
Failed == {"unfit", "own", "over", "echo"}
Ended  == {"useful"} \cup Failed

SlotsOf(s) == {s} \X (1..Width)

AskToolsAgain(s) == \* Variant: no limit to the calls of an agent.
    /\ step[s] = "model"
    /\ step' = [step EXCEPT ![s] = "tools"]
    /\ \E n \in 1..Width :
         call' = [c \in Slots |-> IF c[1] = s /\ c[2] <= n THEN "asked" ELSE call[c]]
    /\ UNCHANGED <<tool, results, res, fail, hot, trace>> /\ OnlySteps

\* The model's message calls tools: all of them at once, each in a goroutine of its own.
AskTools(s) ==
    /\ step[s] = "model"
    /\ step' = [step EXCEPT ![s] = "tools"]
    /\ \E n \in 1..Width :
         /\ results[s] + n <= MaxCalls[s]
         /\ call' = [c \in Slots |-> IF c[1] = s /\ c[2] <= n THEN "asked" ELSE call[c]]
    /\ UNCHANGED <<tool, results, res, fail, hot, trace>> /\ OnlySteps

\* The call goes on, or ends.
GoOn(c, to) == call' = [call EXCEPT ![c] = to]
End(c, how) == GoOn(c, how) /\ tool' = [tool EXCEPT ![c] = None]

OnlyCalls == UNCHANGED <<step, results, res, fail>> /\ OnlySteps

\* The guard counts the call and looks at its arguments.
CallTool(c) ==
    /\ call[c] = "asked"
    /\ \E name \in Offered(c[1]), argument \in Arguments :
         IF ValidCall(name, argument)
         THEN /\ Count(1, 0, 0) /\ GoOn(c, "called")
              /\ tool' = [tool EXCEPT ![c] = [name |-> name, argument |-> argument]]
         ELSE Count(1, 1, 1) /\ End(c, "unfit")
    /\ UNCHANGED hot /\ OnlyCalls

\* What ValidateToolResult, given no question, lets through is handed to the model.
JudgeUncounted(c, result) == \* Variant: a refused result is no failed call.
    IF result = "useful" THEN End(c, "useful") /\ UNCHANGED trace
    ELSE Count(0, 0, 1) /\ End(c, "unfit")

Judge(c, result) ==
    IF result = "useful" THEN End(c, "useful") /\ UNCHANGED trace
    ELSE Count(0, 1, 1) /\ End(c, "unfit")

\* A tool cannot read the arguments that the guard accepted, or the web search fails.
ToolFails(c) ==
    /\ call[c] = "called"
    /\ Count(0, 1, 0)
    /\ \E e \in IF tool[c].name = "volcano_web_search" THEN Reasons ELSE {"own"} : End(c, e)
    /\ UNCHANGED hot /\ OnlyCalls

RunTool(c) ==
    /\ call[c] = "called" /\ tool[c].name # "hotword_search"
    /\ \E result \in {"useful", "useless"} : Judge(c, result)
    /\ UNCHANGED hot /\ OnlyCalls

GetHot(c) ==
    /\ call[c] = "called" /\ tool[c].name = "hotword_search"
    /\ LET found == hot[tool[c].argument] IN
         IF found # "none" THEN Judge(c, found)
         ELSE GoOn(c, "database") /\ UNCHANGED <<tool, trace>>
    /\ UNCHANGED hot /\ OnlyCalls

\* searchInDatabase: an error is only logged, and like no near enough result sends the tool to
\* Baidu. What it makes of the results the guard may find useless, and is stored all the same.
DatabaseReturns == {"nothing", "useful", "useless"}

SearchDatabase(c) ==
    /\ call[c] = "database"
    /\ \E found \in DatabaseReturns :
         IF found = "nothing"
         THEN GoOn(c, "baidu") /\ UNCHANGED <<tool, trace, hot>>
         ELSE Judge(c, found) /\ hot' = [hot EXCEPT ![tool[c].argument] = found]
    /\ OnlyCalls

\* searchFromBaidu: an error makes an empty list of results, which is not stored and which the
\* guard refuses.
BaiduReturns == {"error", "useful", "useless"}

AskBaidu(c) ==
    /\ call[c] = "baidu"
    /\ \E found \in BaiduReturns :
         IF found = "error" THEN Judge(c, "useless") /\ UNCHANGED hot
         ELSE Judge(c, found) /\ hot' = [hot EXCEPT ![tool[c].argument] = found]
    /\ OnlyCalls

\* All calls of the message have ended. Their results go to the model, or the error of the first
\* call, in the order of the message, that failed goes up and ends the agent.
Useful(s) == {c \in SlotsOf(s) : call[c] = "useful"}
Lost(s)   == {c \in SlotsOf(s) : call[c] \in Failed}

ToolsReturn(s) ==
    /\ step[s] = "tools"
    /\ \A c \in SlotsOf(s) : call[c] \in {"none"} \cup Ended
    /\ \/ /\ Lost(s) = {}
          /\ step' = [step EXCEPT ![s] = "model"]
          /\ results' = [results EXCEPT ![s] = @ + Cardinality(Useful(s))]
          /\ call' = [c \in Slots |-> IF c[1] = s THEN "none" ELSE call[c]]
          /\ UNCHANGED fail
       \/ \E c \in Lost(s) :
             /\ \A d \in Lost(s) : c[2] <= d[2]
             /\ Stop(s, "broken", IF call[c] = "unfit" THEN "own" ELSE call[c])
             /\ UNCHANGED <<results, call>>
    /\ UNCHANGED <<tool, res, hot, trace>> /\ OnlySteps

\* Thirty minutes are over, or others needed the room.
Expire(k) ==
    /\ outcome = None /\ hot[k] # "none"
    /\ hot' = [hot EXCEPT ![k] = "none"]
    /\ UNCHANGED <<toolCalls, trace>> /\ OnlyCalls

-----------------------------------------------------------------------------
(* The agents: ReActAgent.Run and RAGAgent.Run, as one step of a group.    *)

\* executeStep puts its own words before the question; the graph's tools do not.
Asked == IF mode = "multi-agent" THEN {"query", "prefix"} ELSE {"query"}

\* Only RAGAgent checks its answer against what was retrieved.
StepEvidence == IF mode = "rag_agent" THEN context ELSE Blank

\* In the graph a step's answer is judged once more, as the result of a tool.
Answer(s) ==
    /\ step[s] = "model"
    /\ \E text \in Texts \ {Blank} :
         IF /\ ValidAnswer(Asked, text, StepEvidence)
            /\ mode = "graph_multi" => ValidResult({"query"}, text)
         THEN Stop(s, "answered", None) /\ res' = [res EXCEPT ![s] = text] /\ UNCHANGED trace
         ELSE Stop(s, "invalid", "own") /\ Count(0, 0, 1) /\ UNCHANGED res
    /\ UNCHANGED <<toolCalls, results, hot>> /\ OnlySteps

\* The model fails, answers nothing, calls a tool there is none of, or has used up MaxStep.
ModelFails(s) ==
    /\ step[s] = "model"
    /\ \E e \in Reasons : Stop(s, "failed", e)
    /\ UNCHANGED <<toolCalls, results, res, hot, trace>> /\ OnlySteps

CallMoves(c) == CallTool(c) \/ ToolFails(c) \/ RunTool(c) \/ GetHot(c) \/ SearchDatabase(c) \/ AskBaidu(c)

AgentMoves(s) == AskTools(s) \/ ToolsReturn(s) \/ Answer(s) \/ ModelFails(s)

StepMoves(s) == AgentMoves(s) \/ \E c \in SlotsOf(s) : CallMoves(c)

-----------------------------------------------------------------------------
(* The request: PlanAndProcess, RAGAgent.Run and the nodes of the graphs.  *)

Plan ==
    /\ pc = "plan"
    /\ plan' = BuildPlan(signals)
    /\ pc' = (IF mode = "multi-agent" THEN "fork" ELSE "retrieve")
    /\ UNCHANGED <<request, over, context, agents, trace, answer, outcome>>

Retrieve ==
    /\ pc = "retrieve"
    /\ context' \in Contexts
    /\ pc' = (IF mode = "graph_rag" THEN "generate" ELSE "fork")
    /\ UNCHANGED <<request, over, plan, agents, trace, answer, outcome>>

\* Every step of the plan at once, whatever it depends on; the graph leaves out those it
\* has no tool for.
Fork ==
    /\ pc = "fork"
    /\ LET run == IF ~ UsesPlan THEN {"solo"}
                  ELSE IF mode = "graph_multi" /\ ~ built THEN {} ELSE plan
       IN /\ plan' = run
          /\ step' = [s \in Steps |-> IF s \in run THEN "model" ELSE "idle"]
    /\ pc' = "run"
    /\ UNCHANGED <<request, over, context, toolCalls, results, res, fail, hot, trace, answer, outcome>>

WaitedForEach == \* Variant: a step without a tool is waited for as well.
    pc = "run" /\ \A s \in (IF UsesPlan THEN BuildPlan(signals) ELSE plan) : step[s] \in Stopped

Waited == pc = "run" /\ \A s \in plan : step[s] \in Stopped

JoinFails ==
    /\ Waited /\ fail # None
    /\ GiveUp
    /\ UNCHANGED <<request, over, context, plan, agents, trace>>

Found == UNION {res[s] : s \in plan}

AnswerAlone ==
    /\ Waited /\ fail = None /\ ~ UsesPlan
    /\ Deliver(res["solo"])
    /\ UNCHANGED <<request, over, context, plan, agents, trace>>

Summarize ==
    /\ Waited /\ fail = None /\ mode = "multi-agent"
    /\ LET summary == Found \cup {"long"} IN
         IF ValidAnswer({"query"}, summary, Found)
         THEN Deliver(summary) /\ UNCHANGED trace
         ELSE GiveUp /\ Count(0, 0, 1)
    /\ UNCHANGED <<request, over, context, plan, agents>>

Evidence == context \cup Found

CollectEvidence ==
    /\ Waited /\ fail = None /\ mode = "graph_multi"
    /\ IF Evidence = Blank THEN GiveUp
       ELSE pc' = "generate" /\ UNCHANGED <<answer, outcome>>
    /\ UNCHANGED <<request, over, context, plan, agents, trace>>

Generate ==
    /\ pc = "generate"
    /\ \E text \in Texts :
         \/ /\ mode = "graph_rag"
            /\ answer' = text /\ pc' = "check" /\ UNCHANGED <<outcome, trace>>
         \/ /\ mode = "graph_multi" /\ ValidAnswer({"query"}, text, Evidence)
            /\ Deliver(text) /\ UNCHANGED trace
         \/ /\ mode = "graph_multi" /\ ~ ValidAnswer({"query"}, text, Evidence)
            /\ GiveUp /\ Count(0, 0, 1)
    /\ UNCHANGED <<request, over, context, plan, agents>>

\* The RAG graph retrieves a second time to check, and checks nothing when that fails.
Check ==
    /\ pc = "check"
    /\ \/ \E evidence \in Contexts :
            IF ValidAnswer({"query"}, answer, evidence)
            THEN Deliver(answer) /\ UNCHANGED trace
            ELSE GiveUp /\ Count(0, 0, 1)
       \/ Deliver(answer) /\ UNCHANGED trace
    /\ UNCHANGED <<request, over, context, plan, agents>>

\* Retrieval or the model of a graph fails.
CallFails ==
    /\ pc \in {"retrieve", "generate"}
    /\ GiveUp
    /\ UNCHANGED <<request, over, context, plan, agents, trace>>

\* The deadline of the mode's policy, or the client goes away.
ContextEnds ==
    /\ outcome = None /\ ~ over
    /\ over' = TRUE
    /\ UNCHANGED <<request, pc, context, plan, agents, trace, answer, outcome>>

RequestMoves ==
    \/ Plan \/ Retrieve \/ Fork \/ JoinFails \/ AnswerAlone \/ Summarize \/ CollectEvidence
    \/ Generate \/ Check \/ CallFails

Next == \/ RequestMoves \/ ContextEnds
        \/ \E s \in Steps : StepMoves(s)
        \/ \E k \in Keys : Expire(k)

\* Until its deadline a request may wait for a model; from then on every call comes back, but for
\* a retrieval, which may be in a flight that no deadline ends (see RagSearch and KnowledgeStore).
Retrieving == pc \in {"retrieve", "check"}

Fairness == /\ WF_vars(ContextEnds)
            /\ WF_vars(over /\ ~ Retrieving /\ RequestMoves)
            /\ \A s \in Steps : WF_vars(over /\ StepMoves(s))

Spec == Init /\ [][Next]_vars /\ Fairness

-----------------------------------------------------------------------------
(* Properties.                                                             *)

Places == {"plan", "retrieve", "fork", "run", "generate", "check", "done"}
Active == {"model", "tools"}
Busy == {"called", "database", "baidu"}
Calls == [name : Tools, argument : Arguments]

\* Every variable has a value of its kind.
TypeOK ==
    /\ mode \in Modes /\ signals \in Questions /\ built \in BOOLEAN
    /\ pc \in Places /\ over \in BOOLEAN
    /\ context \in SUBSET Marks /\ plan \in SUBSET Steps
    /\ step \in [Steps -> {"idle"} \cup Active \cup Stopped]
    /\ call \in [Slots -> {"none", "asked"} \cup Busy \cup Ended]
    /\ tool \in [Slots -> Calls \cup {None}]
    /\ results \in [Steps -> Nat] /\ \A s \in Steps : results[s] <= MaxCalls[s]
    /\ res \in [Steps -> SUBSET Marks]
    /\ fail \in {None, "own", "over"}
    /\ hot \in [Keys -> {"none", "useful", "useless"}]
    /\ trace \in [calls : Nat, failures : Nat, invalid : Nat]
    /\ answer \in SUBSET Marks
    /\ outcome \in {None, "answer", "error"}

Given == results["search"] + results["analysis"] + results["explanation"] + results["solo"]
CallsAt(states) == {c \in Slots : call[c] \in states}

\* What the metrics are told of a request (RequestTrace, counted by agents and tool calls that
\* run side by side) is what happened: as many calls as results handed to the models and calls
\* begun since; as many failures as calls that failed, though an agent tells but one of them;
\* and each refusal of the validator once. After the request's end none of it changes.
CountsFit ==
    LET invalid == Cardinality(CallsAt({"unfit"})) + Cardinality({s \in Steps : step[s] = "invalid"}) IN
    /\ trace.calls = Given + Cardinality(CallsAt(Busy \cup Ended))
    /\ trace.failures = Cardinality(CallsAt(Failed))
    /\ trace.invalid \in {invalid} \cup (IF outcome = "error" THEN {invalid + 1} ELSE {})

\* An answer is about the question and says nothing unsure that its evidence does not say. A
\* report of PlanAndProcess has the section of every step of its plan; a graph has never
\* answered out of nothing. The RAG graph is left out: it checks against what it retrieves
\* a second time, or not at all.
AnswerStands ==
    outcome = "answer" /\ mode # "graph_rag" =>
        /\ {"long", "query"} \subseteq answer
        /\ "hedge" \in answer => "hedge" \in StepEvidence \cup (IF mode = "graph_multi" THEN context ELSE {})
        /\ mode = "multi-agent" => \A s \in plan : res[s] # Blank /\ res[s] \subseteq answer
        /\ mode = "multi-agent" => plan = BuildPlan(signals)
        /\ mode = "graph_multi" => Evidence # Blank

Group == CASE pc \in {"plan", "retrieve", "fork"} -> "new"
           [] pc = "run" -> "forked"
           [] OTHER -> "joined"

Promise == INSTANCE ForkJoin WITH Tasks <- Steps, Errors <- {"own", "over", "echo"},
               Echo <- "echo", group <- Group, first <- fail,
               open <- {s \in Steps : step[s] \in Active}

\* The steps of a plan, run in an errgroup whose context the first error cancels, keep what
\* ForkJoin promises: the group waits for all, and tells the error that came first and never
\* one that it caused itself.
ImplementsForkJoin == Promise!Spec

\* Every request is answered or told an error, whatever its agents, tools and models do, unless
\* it is in a retrieval that never comes back.
Ends == <>(outcome # None) \/ <>[]Retrieving
=============================================================================
