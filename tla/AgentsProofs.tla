---------------------------- MODULE AgentsProofs ----------------------------
(***************************************************************************)
(* Agents for every set of questions, texts and contexts, and any number   *)
(* of tool calls, in a message and in all.                                 *)
(*                                                                         *)
(* What a tool call and an agent may do is first brought down to a few     *)
(* ways to move; each invariant is then proved of these.                   *)
(***************************************************************************)
EXTENDS Agents, FiniteSetTheorems, TLAPS

Faults == Stopped \ {"answered"}
Open   == {"asked"} \cup Busy
Early  == {"plan", "retrieve", "fork"}

CallsOf(s) == {c \in SlotsOf(s) : call[c] # "none"}

\* An agent has calls from the message that makes them to their return, and keeps those that
\* broke it; with the results its model has been given they keep to the bound. A call is stopped
\* by the group's first error only when there is one.
CallsInv ==
    /\ pc \in Early => \A s \in Steps : step[s] = "idle"
    /\ \A c \in Slots : call[c] # "none" => step[c[1]] \in {"tools", "broken"}
    /\ \A c \in Slots : call[c] = "echo" => fail # None

BoundInv == \A s \in Steps : results[s] + Cardinality(CallsOf(s)) <= MaxCalls[s]

TypeInv == TypeOK /\ CallsInv /\ BoundInv

\* Where the request is and where its steps are.
ShapeInv ==
    /\ pc \in Early => fail = None
    /\ pc = "run" => \A s \in Steps : step[s] = "idle" <=> s \notin plan
    /\ pc \notin Early \cup {"run"} => \A s \in Steps : step[s] \notin Active
    /\ pc = "done" <=> outcome # None
    /\ \A s \in Steps : step[s] \in Faults => fail # None
    /\ \A c \in Slots : call[c] \in Open => step[c[1]] = "tools"

-----------------------------------------------------------------------------
(* The slots of calls.                                                     *)

LEMMA SlotsAreFinite ==
    /\ IsFiniteSet(Steps) /\ IsFiniteSet(Slots)
    /\ \A s \in Steps : IsFiniteSet(SlotsOf(s)) /\ SlotsOf(s) \subseteq Slots
    /\ \A s \in Steps, n \in 0..Width : IsFiniteSet({s} \X (1..n)) /\ Cardinality({s} \X (1..n)) = n
<1>1. IsFiniteSet(Steps)
  <2>1. IsFiniteSet({"search"} \cup {"analysis"} \cup {"explanation"} \cup {"solo"})
    BY FS_Singleton, FS_Union
  <2>2. Steps = {"search"} \cup {"analysis"} \cup {"explanation"} \cup {"solo"}
    BY DEF Steps, Planned
  <2> QED BY <2>1, <2>2
<1>2. \A n \in 0..Width : IsFiniteSet(1..n) /\ Cardinality(1..n) = n
  BY FS_Interval, BoundsAssumption
<1>3. IsFiniteSet(1..Width)
  BY <1>2, BoundsAssumption
<1>4. IsFiniteSet(Slots)
  BY <1>1, <1>3, FS_Product DEF Slots
<1>5. ASSUME NEW s \in Steps
      PROVE  IsFiniteSet(SlotsOf(s)) /\ SlotsOf(s) \subseteq Slots
  BY <1>3, FS_Product, FS_Singleton DEF SlotsOf, Slots
<1>6. ASSUME NEW s \in Steps, NEW n \in 0..Width
      PROVE  IsFiniteSet({s} \X (1..n)) /\ Cardinality({s} \X (1..n)) = n
  <2>1. IsFiniteSet({s}) /\ Cardinality({s}) = 1
    BY FS_Singleton
  <2>2. IsFiniteSet(1..n) /\ Cardinality(1..n) = n
    BY <1>2
  <2>3. Cardinality({s} \X (1..n)) = Cardinality({s}) * Cardinality(1..n)
    BY <2>1, <2>2, FS_Product
  <2> QED BY <2>1, <2>2, <2>3, FS_Product
<1> QED BY <1>1, <1>4, <1>5, <1>6

LEMMA CallsAreFinite ==
    /\ \A s \in Steps : IsFiniteSet(CallsOf(s)) /\ Cardinality(CallsOf(s)) \in Nat
    /\ \A states : IsFiniteSet(CallsAt(states)) /\ Cardinality(CallsAt(states)) \in Nat
<1>1. ASSUME NEW s \in Steps PROVE IsFiniteSet(CallsOf(s)) /\ Cardinality(CallsOf(s)) \in Nat
  <2>1. CallsOf(s) \subseteq SlotsOf(s) /\ IsFiniteSet(SlotsOf(s))
    BY SlotsAreFinite DEF CallsOf
  <2> QED BY <2>1, FS_Subset, FS_CardinalityType
<1>2. ASSUME NEW states PROVE IsFiniteSet(CallsAt(states)) /\ Cardinality(CallsAt(states)) \in Nat
  <2>1. CallsAt(states) \subseteq Slots /\ IsFiniteSet(Slots)
    BY SlotsAreFinite DEF CallsAt
  <2> QED BY <2>1, FS_Subset, FS_CardinalityType
<1> QED BY <1>1, <1>2

LEMMA Slot == \A c \in Slots : /\ c[1] \in Steps /\ c[2] \in 1..Width /\ c \in SlotsOf(c[1])
                              /\ \A s : c \in SlotsOf(s) <=> c[1] = s
BY DEF Slots, SlotsOf

-----------------------------------------------------------------------------
(* The ways a call moves.                                                  *)

Moved(c, from, to, calls, failures, invalid) ==
    call[c] \in from /\ GoOn(c, to) /\ Count(calls, failures, invalid)

Moves(c) == \/ Moved(c, {"asked"}, "called", 1, 0, 0)
            \/ Moved(c, {"asked"}, "unfit", 1, 1, 1)
            \/ \E to \in {"database", "baidu", "useful"} : Moved(c, Busy, to, 0, 0, 0)
            \/ Moved(c, Busy, "unfit", 0, 1, 1)
            \/ \E e \in Reasons : Moved(c, Busy, e, 0, 1, 0)

LEMMA NothingCounted == TypeOK /\ UNCHANGED trace => Count(0, 0, 0)
BY DEF TypeOK, Count

LEMMA Judged ==
    ASSUME TypeOK, NEW c \in Slots, NEW result, call[c] \in Busy, Judge(c, result)
    PROVE  Moves(c) /\ tool' \in [Slots -> Calls \cup {None}]
<1>1. CASE result = "useful"
  BY <1>1, NothingCounted DEF Judge, End, Moves, Moved, TypeOK
<1>2. CASE result # "useful"
  BY <1>2 DEF Judge, End, Moves, Moved, TypeOK
<1> QED BY <1>1, <1>2

\* Every step of a call is one of them.
LEMMA CallStepsAreMoves ==
    ASSUME TypeOK, NEW c \in Slots, CallMoves(c)
    PROVE  /\ Moves(c) /\ OnlyCalls
           /\ tool' \in [Slots -> Calls \cup {None}]
           /\ hot' \in [Keys -> {"none", "useful", "useless"}]
<1> DEFINE Goal == Moves(c) /\ OnlyCalls /\ tool' \in [Slots -> Calls \cup {None}]
                   /\ hot' \in [Keys -> {"none", "useful", "useless"}]
<1>0. hot \in [Keys -> {"none", "useful", "useless"}] /\ tool \in [Slots -> Calls \cup {None}]
  BY DEF TypeOK
<1>1. CASE CallTool(c)
  <2> PICK name \in Offered(c[1]), argument \in Arguments :
         IF ValidCall(name, argument)
         THEN /\ Count(1, 0, 0) /\ GoOn(c, "called")
              /\ tool' = [tool EXCEPT ![c] = [name |-> name, argument |-> argument]]
         ELSE Count(1, 1, 1) /\ End(c, "unfit")
    BY <1>1 DEF CallTool
  <2>1. [name |-> name, argument |-> argument] \in Calls
    BY DEF Calls, Offered, Tools
  <2> HIDE DEF Calls
  <2>2. call[c] \in {"asked"} /\ hot' = hot /\ OnlyCalls
    BY <1>1 DEF CallTool
  <2>3. Moves(c)
    BY <2>2 DEF Moves, Moved, End
  <2>4. tool' \in [Slots -> Calls \cup {None}]
    BY <2>1, <1>0 DEF End
  <2> QED BY <1>0, <2>2, <2>3, <2>4
<1>2. CASE ToolFails(c)
  <2> PICK e \in Reasons : End(c, e)
    BY <1>2 DEF ToolFails, Reasons
  <2>1. Moves(c)
    BY <1>2 DEF ToolFails, Moves, Moved, End, Busy
  <2> QED BY <1>0, <1>2, <2>1 DEF ToolFails, End
<1>3. CASE RunTool(c)
  <2> PICK result : Judge(c, result)
    BY <1>3 DEF RunTool
  <2> QED BY <1>0, <1>3, Judged DEF RunTool, Busy
<1>4. CASE GetHot(c)
  <2>1. call[c] \in Busy /\ hot' = hot /\ OnlyCalls
    BY <1>4 DEF GetHot, Busy
  <2>2. CASE hot[tool[c].argument] # "none"
    BY <1>0, <2>1, <2>2, <1>4, Judged DEF GetHot
  <2>3. CASE hot[tool[c].argument] = "none"
    BY <1>0, <2>1, <2>3, <1>4, NothingCounted DEF GetHot, Moves, Moved
  <2> QED BY <2>2, <2>3
<1>5. CASE SearchDatabase(c)
  <2>1. call[c] \in Busy /\ OnlyCalls
    BY <1>5 DEF SearchDatabase, Busy
  <2> PICK found \in DatabaseReturns :
         IF found = "nothing"
         THEN GoOn(c, "baidu") /\ UNCHANGED <<tool, trace, hot>>
         ELSE Judge(c, found) /\ hot' = [hot EXCEPT ![tool[c].argument] = found]
    BY <1>5 DEF SearchDatabase
  <2>2. CASE found = "nothing"
    BY <1>0, <2>1, <2>2, NothingCounted DEF Moves, Moved
  <2>3. CASE found # "nothing"
    BY <1>0, <2>1, <2>3, Judged DEF DatabaseReturns
  <2> QED BY <2>2, <2>3
<1>6. CASE AskBaidu(c)
  <2>1. call[c] \in Busy /\ OnlyCalls
    BY <1>6 DEF AskBaidu, Busy
  <2> PICK found \in BaiduReturns :
         IF found = "error" THEN Judge(c, "useless") /\ UNCHANGED hot
         ELSE Judge(c, found) /\ hot' = [hot EXCEPT ![tool[c].argument] = found]
    BY <1>6 DEF AskBaidu
  <2> QED BY <1>0, <2>1, Judged DEF BaiduReturns
<1> QED BY <1>1, <1>2, <1>3, <1>4, <1>5, <1>6 DEF CallMoves

-----------------------------------------------------------------------------
(* The ways an agent moves.                                                *)

\* It goes on, answers, or fails.
Shift(s, how) == step' = [step EXCEPT ![s] = how]

GoesOn(s)  == \E how \in Active : Shift(s, how) /\ UNCHANGED <<res, fail>>
Answers(s) == /\ Shift(s, "answered") /\ UNCHANGED fail
              /\ \E text \in Texts \ {Blank} :
                    ValidAnswer(Asked, text, StepEvidence) /\ res' = [res EXCEPT ![s] = text]
Fails(s)   == /\ \E how \in Faults : Shift(s, how)
              /\ \E e \in {"own", "over", "echo"} :
                    (e = "echo" => fail # None) /\ fail' = FirstError(e)
              /\ UNCHANGED res

LEMMA AgentStepsAreMoves ==
    ASSUME TypeInv, NEW s \in Steps, AgentMoves(s)
    PROVE  (GoesOn(s) \/ Answers(s) \/ Fails(s)) /\ step[s] \in Active /\ OnlySteps
<1>1. CASE AskTools(s)
  BY <1>1 DEF AskTools, GoesOn, Shift, Active
<1>2. CASE ToolsReturn(s)
  <2>1. step[s] \in Active /\ OnlySteps
    BY <1>2 DEF ToolsReturn, Active
  <2>2. CASE Lost(s) = {}
    BY <2>1, <2>2, <1>2 DEF ToolsReturn, GoesOn, Shift, Active
  <2>3. CASE Lost(s) # {}
    <3> PICK c \in Lost(s) : Stop(s, "broken", IF call[c] = "unfit" THEN "own" ELSE call[c])
      BY <2>3, <1>2 DEF ToolsReturn
    <3>1. c \in Slots /\ call[c] \in Failed
      BY SlotsAreFinite DEF Lost
    <3>2. call[c] = "echo" => fail # None
      BY <3>1 DEF TypeInv, CallsInv
    <3> QED BY <2>1, <1>2, <3>1, <3>2 DEF ToolsReturn, Fails, Shift, Stop, Failed, Faults, Stopped
  <2> QED BY <2>2, <2>3
<1>3. CASE Answer(s)
  BY <1>3 DEF Answer, Answers, Fails, Shift, Stop, Active, Faults, Stopped
<1>4. CASE ModelFails(s)
  BY <1>4 DEF ModelFails, Reasons, Fails, Shift, Stop, Active, Faults, Stopped
<1> QED BY <1>1, <1>2, <1>3, <1>4 DEF AgentMoves

-----------------------------------------------------------------------------
(* Types.                                                                  *)

LEMMA FirstErrors ==
    ASSUME TypeOK, NEW e \in {"own", "over", "echo"}, e = "echo" => fail # None
    PROVE  /\ FirstError(e) \in {"own", "over"}
           /\ FirstError(e) # None
           /\ fail # None => FirstError(e) = fail
BY NoneAssumption DEF TypeOK, FirstError

\* A call that moves leaves every variable its type.
LEMMA CallsAreTyped ==
    ASSUME TypeInv, NEW c \in Slots, CallMoves(c)
    PROVE  TypeInv'
<1>1. /\ Moves(c) /\ OnlyCalls
      /\ tool' \in [Slots -> Calls \cup {None}]
      /\ hot' \in [Keys -> {"none", "useful", "useless"}]
  BY CallStepsAreMoves DEF TypeInv
<1>2. call \in [Slots -> {"none", "asked"} \cup Busy \cup Ended]
      /\ trace \in [calls : Nat, failures : Nat, invalid : Nat]
  BY DEF TypeInv, TypeOK
<1>3. trace' \in [calls : Nat, failures : Nat, invalid : Nat]
  BY <1>1, <1>2 DEF Moves, Moved, Count
<1>4. PICK to \in Busy \cup Ended :
         GoOn(c, to) /\ call[c] \in Open /\ (to = "echo" => fail # None)
  BY <1>1 DEF Moves, Moved, Open, Busy, Ended, Failed, Reasons
<1>5. call' \in [Slots -> {"none", "asked"} \cup Busy \cup Ended]
  BY <1>2, <1>4 DEF GoOn
<1>6. UNCHANGED <<mode, signals, built, pc, over, context, plan, answer, outcome, step, results, res, fail>>
  BY <1>1 DEF OnlyCalls, OnlySteps, request
<1>7. TypeOK'
  BY <1>1, <1>3, <1>5, <1>6 DEF TypeInv, TypeOK
<1>8. \A d \in Slots : (call'[d] # "none" <=> call[d] # "none") /\ (d # c => call'[d] = call[d])
  BY <1>2, <1>4 DEF GoOn, Open, Busy, Ended, Failed
<1>9. CallsInv'
  <2>1. call'[c] = to
    BY <1>2, <1>4 DEF GoOn
  <2> QED BY <1>4, <1>6, <1>8, <2>1 DEF TypeInv, CallsInv
<1>10. \A s \in Steps : CallsOf(s)' = CallsOf(s)
  BY <1>8, SlotsAreFinite DEF CallsOf
<1> QED BY <1>6, <1>7, <1>9, <1>10 DEF TypeInv, BoundInv

\* The calls a message makes, and what their return does with them.
LEMMA AskingIsTyped ==
    ASSUME TypeInv, NEW s \in Steps, AskTools(s)
    PROVE  call' \in [Slots -> {"none", "asked"} \cup Busy \cup Ended] /\ BoundInv'
<1> PICK n \in 1..Width :
      /\ results[s] + n <= MaxCalls[s]
      /\ call' = [c \in Slots |-> IF c[1] = s /\ c[2] <= n THEN "asked" ELSE call[c]]
  BY DEF AskTools
<1>1. call' \in [Slots -> {"none", "asked"} \cup Busy \cup Ended]
  BY DEF TypeInv, TypeOK
<1>2. \A c \in SlotsOf(s) : call[c] = "none"
  BY SlotsAreFinite, Slot DEF AskTools, TypeInv, CallsInv
<1>3. CallsOf(s)' = {s} \X (1..n)
  BY <1>2, SlotsAreFinite, BoundsAssumption DEF CallsOf, SlotsOf, Slots
<1>4. Cardinality(CallsOf(s)') = n
  <2>1. n \in 0..Width
    BY BoundsAssumption
  <2>2. Cardinality({s} \X (1..n)) = n
    BY <2>1, SlotsAreFinite
  <2> QED BY <1>3, <2>2
<1>5. \A t \in Steps : t # s => CallsOf(t)' = CallsOf(t)
  BY SlotsAreFinite, Slot DEF CallsOf
<1> QED BY <1>1, <1>4, <1>5 DEF AskTools, BoundInv, TypeInv

LEMMA ReturnIsTyped ==
    ASSUME TypeInv, NEW s \in Steps, ToolsReturn(s)
    PROVE  /\ call' \in [Slots -> {"none", "asked"} \cup Busy \cup Ended]
           /\ results' \in [Steps -> Nat] /\ (\A t \in Steps : results'[t] <= MaxCalls[t])
           /\ BoundInv'
           /\ \A c \in Slots : call'[c] # "none" => call'[c] = call[c]
           /\ step'[s] # "broken" => \A c \in SlotsOf(s) : call'[c] = "none"
<1>0. /\ call \in [Slots -> {"none", "asked"} \cup Busy \cup Ended] /\ results \in [Steps -> Nat]
      /\ \A t \in Steps : results[t] <= MaxCalls[t] /\ results[t] + Cardinality(CallsOf(t)) <= MaxCalls[t]
      /\ step \in [Steps -> {"idle"} \cup Active \cup Stopped]
  BY DEF TypeInv, TypeOK, BoundInv
<1>1. CASE Lost(s) # {}
  <2>1. UNCHANGED <<call, results>> /\ step'[s] = "broken"
    BY <1>0, <1>1 DEF ToolsReturn, Stop
  <2>2. \A t \in Steps : CallsOf(t)' = CallsOf(t)
    BY <2>1 DEF CallsOf
  <2> QED BY <1>0, <2>1, <2>2 DEF BoundInv
<1>2. CASE Lost(s) = {}
  <2>1. /\ results' = [results EXCEPT ![s] = @ + Cardinality(Useful(s))]
        /\ call' = [c \in Slots |-> IF c[1] = s THEN "none" ELSE call[c]]
    BY <1>2 DEF ToolsReturn
  <2>2. Useful(s) \subseteq CallsOf(s)
    BY DEF Useful, CallsOf
  <2>3. Cardinality(Useful(s)) \in Nat /\ Cardinality(Useful(s)) <= Cardinality(CallsOf(s))
    BY <2>2, CallsAreFinite, FS_Subset, FS_CardinalityType
  <2>4. MaxCalls[s] \in Nat /\ Cardinality(CallsOf(s)) \in Nat
    BY CallsAreFinite, BoundsAssumption
  <2>5. /\ results' \in [Steps -> Nat]
        /\ \A t \in Steps : results'[t] <= MaxCalls[t]
    BY <1>0, <2>1, <2>3, <2>4
  <2>6. CallsOf(s)' = {} /\ \A t \in Steps : t # s => CallsOf(t)' = CallsOf(t)
    BY <2>1, SlotsAreFinite, Slot DEF CallsOf
  <2>7. BoundInv'
    <3>1. Cardinality(CallsOf(s)') = 0 /\ results'[s] \in Nat /\ results'[s] <= MaxCalls[s]
      BY <2>5, <2>6, FS_EmptySet
    <3>2. \A t \in Steps : t # s => results'[t] = results[t] /\ CallsOf(t)' = CallsOf(t)
      BY <1>0, <2>1, <2>6
    <3>3. ASSUME NEW t \in Steps PROVE results'[t] + Cardinality(CallsOf(t)') <= MaxCalls[t]
      <4>1. CASE t = s
        BY <3>1, <4>1, <2>4
      <4>2. CASE t # s
        BY <1>0, <3>2, <4>2
      <4> QED BY <4>1, <4>2
    <3> QED BY <3>3 DEF BoundInv
  <2>8. \A c \in SlotsOf(s) : call'[c] = "none"
    BY <2>1, SlotsAreFinite, Slot
  <2>9. /\ call' \in [Slots -> {"none", "asked"} \cup Busy \cup Ended]
        /\ \A c \in Slots : call'[c] # "none" => call'[c] = call[c]
    BY <1>0, <2>1
  <2> QED BY <2>5, <2>7, <2>8, <2>9
<1> QED BY <1>1, <1>2

\* An agent that moves leaves every variable its type.
LEMMA AgentsAreTyped ==
    ASSUME TypeInv, NEW s \in Steps, AgentMoves(s)
    PROVE  TypeInv'
<1>1. (GoesOn(s) \/ Answers(s) \/ Fails(s)) /\ step[s] \in Active /\ OnlySteps
  BY AgentStepsAreMoves
<1>2. fail' \in {None, "own", "over"} /\ (fail # None => fail' # None)
  BY <1>1, FirstErrors DEF GoesOn, Answers, Fails, TypeInv, TypeOK
<1>3. res' \in [Steps -> SUBSET Marks]
  BY <1>1, TextsAssumption DEF GoesOn, Answers, Fails, TypeInv, TypeOK
<1>4. step' \in [Steps -> {"idle"} \cup Active \cup Stopped] /\ \A t \in Steps : t # s => step'[t] = step[t]
  BY <1>1 DEF GoesOn, Answers, Fails, Shift, Faults, Stopped, TypeInv, TypeOK
<1>5. trace' \in [calls : Nat, failures : Nat, invalid : Nat] /\ UNCHANGED <<tool, hot>>
  BY DEF AgentMoves, AskTools, ToolsReturn, Answer, ModelFails, Count, toolCalls, TypeInv, TypeOK
<1>6. UNCHANGED <<mode, signals, built, pc, over, context, plan, answer, outcome>>
  BY <1>1 DEF OnlySteps, request
<1>7. /\ call' \in [Slots -> {"none", "asked"} \cup Busy \cup Ended]
      /\ results' \in [Steps -> Nat] /\ (\A t \in Steps : results'[t] <= MaxCalls[t])
      /\ BoundInv'
  <2>1. CASE AskTools(s)
    BY <2>1, AskingIsTyped DEF AskTools, TypeInv, TypeOK
  <2>2. CASE ToolsReturn(s)
    BY <2>2, ReturnIsTyped
  <2>3. CASE Answer(s) \/ ModelFails(s)
    <3>1. UNCHANGED <<call, results>>
      BY <2>3 DEF Answer, ModelFails, toolCalls
    <3>2. \A t \in Steps : CallsOf(t)' = CallsOf(t)
      BY <3>1 DEF CallsOf
    <3> QED BY <3>1, <3>2 DEF TypeInv, TypeOK, BoundInv
  <2> QED BY <2>1, <2>2, <2>3 DEF AgentMoves
<1>8. TypeOK'
  BY <1>2, <1>3, <1>4, <1>5, <1>6, <1>7 DEF TypeInv, TypeOK
<1>9. pc \notin Early
  BY <1>1 DEF TypeInv, CallsInv, Active
<1>10. \A c \in Slots : call'[c] # "none" => step'[c[1]] \in {"tools", "broken"} /\ (call'[c] = "echo" => fail' # None)
  <2> SUFFICES ASSUME NEW c \in Slots, call'[c] # "none"
               PROVE  step'[c[1]] \in {"tools", "broken"} /\ (call'[c] = "echo" => fail' # None)
    OBVIOUS
  <2>0. /\ call[c] # "none" => step[c[1]] \in {"tools", "broken"}
        /\ call[c] = "echo" => fail # None
        /\ c[1] \in Steps /\ step \in [Steps -> {"idle"} \cup Active \cup Stopped]
    BY Slot DEF TypeInv, TypeOK, CallsInv
  <2>1. CASE AskTools(s)
    BY <2>0, <2>1, <1>2, <1>4 DEF AskTools
  <2>2. CASE ToolsReturn(s)
    <3>1. call'[c] = call[c] /\ (step'[s] # "broken" => c[1] # s)
      BY <2>2, ReturnIsTyped, Slot
    <3> QED BY <2>0, <3>1, <1>2, <1>4
  <2>3. CASE Answer(s) \/ ModelFails(s)
    <3>1. call'[c] = call[c] /\ step[s] = "model"
      BY <2>3 DEF Answer, ModelFails, toolCalls
    <3> QED BY <2>0, <3>1, <1>2, <1>4
  <2> QED BY <2>1, <2>2, <2>3 DEF AgentMoves
<1>11. CallsInv'
  BY <1>6, <1>9, <1>10 DEF CallsInv
<1> QED BY <1>7, <1>8, <1>11 DEF TypeInv

LEMMA RequestIsTyped ==
    ASSUME TypeInv, RequestMoves
    PROVE  TypeOK'
<1> USE TextsAssumption DEF TypeInv, TypeOK, Places
<1>1. CASE Plan
  BY <1>1 DEF Plan, BuildPlan, Planned, Steps, request, agents, toolCalls
<1>2. CASE Retrieve
  BY <1>2 DEF Retrieve, request, agents, toolCalls
<1>3. CASE Fork
  <2>1. plan' \in SUBSET Steps
    BY <1>3 DEF Fork, Steps
  <2>2. step' \in [Steps -> {"idle", "model"}]
    BY <1>3 DEF Fork
  <2> QED BY <1>3, <2>1, <2>2 DEF Fork, request, toolCalls, Active
<1>4. CASE JoinFails \/ CallFails
  BY <1>4 DEF JoinFails, CallFails, GiveUp, Blank, request, agents, toolCalls
<1>5. CASE AnswerAlone
  BY <1>5 DEF AnswerAlone, Deliver, Steps, request, agents, toolCalls
<1>6. CASE Summarize
  <2>1. Found \in SUBSET Marks
    BY DEF Found
  <2>2. Found \cup {"long"} \in SUBSET Marks
    BY <2>1 DEF Marks
  <2>3. answer' \in SUBSET Marks /\ outcome' \in {"answer", "error"} /\ pc' = "done"
    BY <1>6, <2>2 DEF Summarize, Deliver, GiveUp, Blank
  <2>4. trace' \in [calls : Nat, failures : Nat, invalid : Nat]
    BY <1>6 DEF Summarize, Count
  <2> QED BY <1>6, <2>3, <2>4 DEF Summarize, request, agents, toolCalls
<1>7. CASE CollectEvidence
  BY <1>7 DEF CollectEvidence, GiveUp, Blank, request, agents, toolCalls
<1>8. CASE Generate
  <2>1. answer' \in SUBSET Marks /\ outcome' \in {None, "answer", "error"} /\ pc' \in {"check", "done"}
    BY <1>8 DEF Generate, Deliver, GiveUp, Blank
  <2>2. trace' \in [calls : Nat, failures : Nat, invalid : Nat]
    BY <1>8 DEF Generate, Count
  <2> QED BY <1>8, <2>1, <2>2 DEF Generate, request, agents, toolCalls
<1>9. CASE Check
  <2>1. answer' \in SUBSET Marks /\ outcome' \in {"answer", "error"} /\ pc' = "done"
    BY <1>9 DEF Check, Deliver, GiveUp, Blank
  <2>2. trace' \in [calls : Nat, failures : Nat, invalid : Nat]
    BY <1>9 DEF Check, Count
  <2> QED BY <1>9, <2>1, <2>2 DEF Check, request, agents, toolCalls
<1> QED BY <1>1, <1>2, <1>3, <1>4, <1>5, <1>6, <1>7, <1>8, <1>9 DEF RequestMoves

LEMMA RequestKeepsCalls ==
    ASSUME TypeInv, RequestMoves
    PROVE  CallsInv' /\ BoundInv'
<1>1. UNCHANGED <<call, results, fail>>
  BY DEF RequestMoves, Plan, Retrieve, Fork, JoinFails, AnswerAlone, Summarize, CollectEvidence,
         Generate, Check, CallFails, agents, toolCalls
<1>2. \A s \in Steps : CallsOf(s)' = CallsOf(s)
  BY <1>1 DEF CallsOf
<1>3. BoundInv'
  BY <1>1, <1>2 DEF TypeInv, BoundInv
<1>4. CASE Fork
  <2>1. \A c \in Slots : call[c] = "none"
    BY <1>4, Slot DEF Fork, TypeInv, CallsInv, Early
  <2> QED BY <1>1, <1>3, <1>4, <2>1 DEF Fork, CallsInv, Early
<1>5. CASE ~ Fork
  <2>1. UNCHANGED step /\ (pc' \in Early => pc \in Early)
    BY <1>5 DEF RequestMoves, Plan, Retrieve, JoinFails, AnswerAlone, Summarize, CollectEvidence,
           Generate, Check, CallFails, Deliver, GiveUp, agents, Early
  <2> QED BY <1>1, <1>3, <2>1 DEF TypeInv, CallsInv
<1> QED BY <1>4, <1>5

LEMMA InitiallyTyped == Init => TypeInv
<1> SUFFICES ASSUME Init PROVE TypeInv
  OBVIOUS
<1>1. pc \in Places /\ built \in BOOLEAN
  BY DEF Init, Places
<1>2. \A s \in Steps : results[s] = 0 /\ MaxCalls[s] \in Nat
  BY BoundsAssumption DEF Init
<1>3. /\ step \in [Steps -> {"idle"} \cup Active \cup Stopped]
      /\ call \in [Slots -> {"none", "asked"} \cup Busy \cup Ended]
      /\ tool \in [Slots -> Calls \cup {None}]
  BY DEF Init
<1>4. /\ results \in [Steps -> Nat] /\ res \in [Steps -> SUBSET Marks]
      /\ hot \in [Keys -> {"none", "useful", "useless"}]
      /\ trace \in [calls : Nat, failures : Nat, invalid : Nat]
  BY DEF Init, Blank
<1>5. TypeOK
  <2>1. /\ mode \in Modes /\ signals \in Questions /\ over \in BOOLEAN
        /\ context \in SUBSET Marks /\ plan \in SUBSET Steps
        /\ fail = None /\ answer \in SUBSET Marks /\ outcome = None
    BY DEF Init, Blank
  <2>2. \A s \in Steps : results[s] <= MaxCalls[s]
    BY <1>2
  <2> QED BY ONLY <1>1, <1>3, <1>4, <2>1, <2>2 DEF TypeOK
<1>6. \A s \in Steps : CallsOf(s) = {}
  BY SlotsAreFinite DEF Init, CallsOf
<1>7. CallsInv
  BY Slot DEF Init, CallsInv
<1>8. BoundInv
  BY <1>2, <1>6, FS_EmptySet DEF BoundInv
<1> QED BY <1>5, <1>7, <1>8 DEF TypeInv

LEMMA TypeStep == TypeInv /\ [Next]_vars => TypeInv'
<1> SUFFICES ASSUME TypeInv, [Next]_vars PROVE TypeInv'
  OBVIOUS
<1>1. CASE RequestMoves
  BY <1>1, RequestIsTyped, RequestKeepsCalls DEF TypeInv
<1>2. CASE \E s \in Steps : StepMoves(s)
  BY <1>2, CallsAreTyped, AgentsAreTyped, SlotsAreFinite DEF StepMoves
<1>3. CASE ContextEnds \/ (\E k \in Keys : Expire(k)) \/ UNCHANGED vars
  <2>1. UNCHANGED <<mode, signals, built, pc, context, plan, step, call, tool, results, res, fail, trace,
                    answer, outcome>>
    BY <1>3 DEF ContextEnds, Expire, OnlyCalls, OnlySteps, vars, request, agents, toolCalls
  <2>2. over' \in BOOLEAN /\ hot' \in [Keys -> {"none", "useful", "useless"}]
    BY <1>3 DEF ContextEnds, Expire, OnlyCalls, OnlySteps, vars, agents, TypeInv, TypeOK
  <2>3. TypeOK' /\ CallsInv'
    BY <2>1, <2>2 DEF TypeInv, TypeOK, CallsInv
  <2>4. \A s \in Steps : CallsOf(s)' = CallsOf(s)
    BY <2>1 DEF CallsOf
  <2> QED BY <2>1, <2>3, <2>4 DEF TypeInv, BoundInv
<1> QED BY <1>1, <1>2, <1>3 DEF Next

\* Every variable has a value of its kind, for any questions, texts, contexts and tools' arguments.
THEOREM Typing == Spec => []TypeOK
<1>1. TypeInv => TypeOK
  BY DEF TypeInv
<1> QED BY InitiallyTyped, TypeStep, <1>1, PTL DEF Spec

-----------------------------------------------------------------------------
(* Where the request and its steps are.                                    *)

\* Only a step that has begun and not stopped moves, and only while the request waits for it.
LEMMA OnlyWhileRunning ==
    ASSUME TypeInv, ShapeInv, NEW s \in Steps, StepMoves(s)
    PROVE  /\ pc = "run" /\ s \in plan /\ step[s] \in Active /\ OnlySteps
           /\ (\E c \in SlotsOf(s) : CallMoves(c)) => UNCHANGED <<step, results, res, fail>>
<1>1. CASE AgentMoves(s)
  <2>1. step[s] \in Active /\ OnlySteps
    BY <1>1, AgentStepsAreMoves
  <2>2. (\E c \in SlotsOf(s) : CallMoves(c)) => UNCHANGED <<step, results, res, fail>>
    BY CallStepsAreMoves, SlotsAreFinite DEF TypeInv, OnlyCalls
  <2> QED BY <2>1, <2>2 DEF ShapeInv, CallsInv, Active, Early, TypeInv, TypeOK, Places
<1>2. ASSUME NEW c \in SlotsOf(s), CallMoves(c)
      PROVE  step[s] \in Active /\ OnlyCalls
  <2>1. c \in Slots /\ c[1] = s /\ Moves(c) /\ OnlyCalls
    BY <1>2, CallStepsAreMoves, SlotsAreFinite, Slot DEF TypeInv
  <2>2. call[c] \in Open
    BY <2>1 DEF Moves, Moved, Open
  <2> QED BY <2>1, <2>2 DEF ShapeInv, Active
<1>3. CASE \E c \in SlotsOf(s) : CallMoves(c)
  BY <1>2, <1>3 DEF OnlyCalls, ShapeInv, CallsInv, Active, Early, TypeInv, TypeOK, Places
<1> QED BY <1>1, <1>3 DEF StepMoves

LEMMA MovesKeepShape ==
    ASSUME TypeInv, ShapeInv, NEW s \in Steps, StepMoves(s)
    PROVE  ShapeInv'
<1>1. /\ pc = "run" /\ pc' = "run" /\ s \in plan /\ plan' = plan /\ outcome' = outcome
      /\ step \in [Steps -> {"idle"} \cup Active \cup Stopped]
  BY OnlyWhileRunning DEF OnlySteps, TypeInv, TypeOK
<1>2. CASE AgentMoves(s)
  <2>1. GoesOn(s) \/ Answers(s) \/ Fails(s)
    BY <1>2, AgentStepsAreMoves
  <2>2. \A t \in Steps : t # s => step'[t] = step[t]
    BY <1>1, <2>1 DEF GoesOn, Answers, Fails, Shift
  <2>3. step'[s] # "idle" /\ (step'[s] \in Faults => fail' # None)
    BY <1>1, <2>1, FirstErrors
       DEF GoesOn, Answers, Fails, Shift, Active, Faults, Stopped, TypeInv
  <2>4. fail # None => fail' # None
    BY <2>1, FirstErrors DEF GoesOn, Answers, Fails, TypeInv
  <2>5. \A c \in Slots : call'[c] \in Open => step'[c[1]] = "tools"
    <3>1. CASE AskTools(s)
      BY <3>1, <1>1, <2>2, Slot DEF AskTools, ShapeInv, Open
    <3>2. CASE ToolsReturn(s)
      <4>1. \A c \in Slots : call'[c] \in Open => call'[c] = call[c]
        BY <3>2, ReturnIsTyped DEF Open, Busy
      <4>2. \A c \in SlotsOf(s) : call[c] \notin Open
        BY <3>2 DEF ToolsReturn, Open, Busy, Ended, Failed
      <4> QED BY <4>1, <4>2, <2>2, Slot DEF ShapeInv
    <3>3. CASE Answer(s) \/ ModelFails(s)
      <4>1. UNCHANGED call /\ step[s] = "model"
        BY <3>3 DEF Answer, ModelFails, toolCalls
      <4> QED BY <4>1, <2>2, Slot DEF ShapeInv
    <3> QED BY <1>2, <3>1, <3>2, <3>3 DEF AgentMoves
  <2> QED BY <1>1, <2>2, <2>3, <2>4, <2>5 DEF ShapeInv, Early
<1>3. ASSUME NEW c \in SlotsOf(s), CallMoves(c)
      PROVE  ShapeInv'
  <2>1. c \in Slots /\ Moves(c) /\ OnlyCalls
    BY <1>3, CallStepsAreMoves, SlotsAreFinite DEF TypeInv
  <2>2. \A d \in Slots : call'[d] \in Open => call[d] \in Open
    BY <2>1 DEF Moves, Moved, GoOn, Open, TypeInv, TypeOK
  <2> QED BY <1>1, <2>1, <2>2 DEF OnlyCalls, ShapeInv, Early
<1> QED BY <1>2, <1>3 DEF StepMoves

\* Who has waited for the plan has waited for everything that runs.
LEMMA NoneRuns ==
    ASSUME TypeInv, ShapeInv, Waited
    PROVE  pc = "run" /\ \A s \in Steps : step[s] \notin Active
BY DEF Waited, ShapeInv, Active, Stopped, TypeInv, TypeOK

LEMMA RequestKeepsShape ==
    ASSUME TypeInv, ShapeInv, RequestMoves
    PROVE  ShapeInv'
<1> USE NoneAssumption DEF Early
<1>0. UNCHANGED call /\ (~ Fork => UNCHANGED step)
  BY DEF RequestMoves, Plan, Retrieve, Fork, JoinFails, AnswerAlone, Summarize, CollectEvidence,
         Generate, Check, CallFails, agents, toolCalls
<1>1. CASE Plan
  BY <1>0, <1>1 DEF Plan, ShapeInv, TypeInv, CallsInv, agents, Faults, Stopped
<1>2. CASE Retrieve
  BY <1>0, <1>2 DEF Retrieve, ShapeInv, TypeInv, CallsInv, agents, Active, Faults, Stopped
<1>3. CASE Fork
  <2>1. \A c \in Slots : call[c] = "none"
    BY <1>3, Slot DEF Fork, TypeInv, CallsInv
  <2> QED BY <1>0, <1>3, <2>1 DEF Fork, ShapeInv, Faults, Stopped, Open, Busy
<1>4. CASE JoinFails \/ AnswerAlone \/ Summarize \/ CollectEvidence
  <2>1. \A s \in Steps : step[s] \notin Active
    BY <1>4, NoneRuns DEF JoinFails, AnswerAlone, Summarize, CollectEvidence
  <2>2. \/ pc' = "done" /\ outcome' \in {"answer", "error"}
        \/ pc' = "generate" /\ outcome' = outcome /\ pc # "done"
    BY <1>4 DEF JoinFails, AnswerAlone, Summarize, CollectEvidence, Waited, Deliver, GiveUp
  <2>3. UNCHANGED <<plan, step, fail>>
    BY <1>4 DEF JoinFails, AnswerAlone, Summarize, CollectEvidence, agents
  <2> QED BY <1>0, <2>1, <2>2, <2>3 DEF ShapeInv
<1>5. CASE Generate \/ Check \/ CallFails
  <2>1. \A s \in Steps : step[s] \notin Active
    BY <1>5 DEF Generate, Check, CallFails, ShapeInv, TypeInv, CallsInv, TypeOK, Places, Active
  <2>2. \/ pc' = "done" /\ outcome' \in {"answer", "error"}
        \/ pc' = "check" /\ outcome' = outcome /\ pc = "generate"
    BY <1>5 DEF Generate, Check, CallFails, Deliver, GiveUp
  <2>3. UNCHANGED <<plan, step, fail>>
    BY <1>5 DEF Generate, Check, CallFails, agents
  <2> QED BY <1>0, <2>1, <2>2, <2>3 DEF ShapeInv
<1> QED BY <1>1, <1>2, <1>3, <1>4, <1>5 DEF RequestMoves

LEMMA ShapeStep == TypeInv /\ ShapeInv /\ [Next]_vars => ShapeInv'
<1> SUFFICES ASSUME TypeInv, ShapeInv, [Next]_vars PROVE ShapeInv'
  OBVIOUS
<1>1. CASE RequestMoves
  BY <1>1, RequestKeepsShape
<1>2. CASE \E s \in Steps : StepMoves(s)
  BY <1>2, MovesKeepShape
<1>3. CASE ContextEnds \/ (\E k \in Keys : Expire(k)) \/ UNCHANGED vars
  <2>1. UNCHANGED <<pc, plan, step, call, fail, outcome>>
    BY <1>3 DEF ContextEnds, Expire, OnlyCalls, OnlySteps, vars, agents, toolCalls
  <2> QED BY <2>1 DEF ShapeInv
<1> QED BY <1>1, <1>2, <1>3 DEF Next

LEMMA InitiallyShaped == Init => ShapeInv
BY DEF Init, ShapeInv, Early, Faults, Stopped, Open, Busy

LEMMA Shaped == Spec => [](TypeInv /\ ShapeInv)
BY InitiallyTyped, TypeStep, InitiallyShaped, ShapeStep, PTL DEF Spec

-----------------------------------------------------------------------------
(* ForkJoin.                                                               *)

Running == {s \in Steps : step[s] \in Active}

LEMMA MovesRefine ==
    ASSUME TypeInv, ShapeInv, NEW s \in Steps, StepMoves(s)
    PROVE  Promise!Next \/ UNCHANGED <<Group, Running, fail>>
<1>1. Group = "forked" /\ Group' = "forked" /\ s \in Running
  BY OnlyWhileRunning DEF OnlySteps, Group, Running
<1>2. step \in [Steps -> {"idle"} \cup Active \cup Stopped]
  BY DEF TypeInv, TypeOK
<1>3. CASE \E c \in SlotsOf(s) : CallMoves(c)
  BY <1>1, <1>3, OnlyWhileRunning DEF Running
<1>4. CASE GoesOn(s)
  <2>1. Running' = Running /\ fail' = fail
    BY <1>1, <1>2, <1>4 DEF GoesOn, Shift, Running
  <2> QED BY <1>1, <2>1
<1>5. CASE Answers(s)
  <2>1. Running' = Running \ {s} /\ fail' = fail
    BY <1>1, <1>2, <1>5 DEF Answers, Shift, Running, Active
  <2>2. Promise!Succeed(s)
    BY <1>1, <2>1 DEF Promise!Succeed, Running
  <2> QED BY <2>2 DEF Promise!Next
<1>6. CASE Fails(s)
  <2>1. Running' = Running \ {s}
    BY <1>1, <1>2, <1>6 DEF Fails, Shift, Running, Active, Faults, Stopped
  <2>2. \/ fail = None /\ fail' \in {"own", "over", "echo"} \ {"echo"}
        \/ fail # None /\ fail' = fail
    BY <1>6, FirstErrors DEF Fails, TypeInv
  <2>3. Promise!Fail(s)
    BY <1>1, <2>1, <2>2 DEF Promise!Fail, Running
  <2> QED BY <2>3 DEF Promise!Next
<1> QED BY <1>3, <1>4, <1>5, <1>6, AgentStepsAreMoves DEF StepMoves

LEMMA RequestRefines ==
    ASSUME TypeInv, ShapeInv, RequestMoves
    PROVE  Promise!Next \/ UNCHANGED <<Group, Running, fail>>
<1>1. CASE Plan
  BY <1>1 DEF Plan, Group, Running, agents
<1>2. CASE Retrieve
  <2>1. Running' = Running /\ fail' = fail
    BY <1>2 DEF Retrieve, Running, agents
  <2>2. Group = "new" /\ Group' \in {"new", "joined"}
    BY <1>2 DEF Retrieve, Group
  <2> QED BY <2>1, <2>2 DEF Promise!Next, Promise!Skip, Running
<1>3. CASE Fork
  <2>1. Group = "new" /\ Group' = "forked" /\ fail' = fail
    BY <1>3 DEF Fork, Group
  <2>2. Running' \in SUBSET Steps
    BY DEF Running
  <2> QED BY <2>1, <2>2 DEF Promise!Next, Promise!Fork, Running
<1>4. CASE JoinFails \/ AnswerAlone \/ Summarize \/ CollectEvidence
  <2>1. Running = {} /\ Group = "forked"
    BY <1>4, NoneRuns DEF JoinFails, AnswerAlone, Summarize, CollectEvidence, Running, Group
  <2>2. Running' = Running /\ fail' = fail /\ Group' = "joined"
    BY <1>4 DEF JoinFails, AnswerAlone, Summarize, CollectEvidence, Deliver, GiveUp, Running, Group, agents
  <2> QED BY <2>1, <2>2 DEF Promise!Next, Promise!Join, Running
<1>5. CASE CallFails
  <2>1. Running' = Running /\ fail' = fail /\ Group' = "joined" /\ Group \in {"new", "joined"}
    BY <1>5 DEF CallFails, GiveUp, Running, Group, agents
  <2> QED BY <2>1 DEF Promise!Next, Promise!Skip, Running
<1>6. CASE Generate \/ Check
  BY <1>6 DEF Generate, Check, Deliver, GiveUp, Running, Group, agents
<1> QED BY <1>1, <1>2, <1>3, <1>4, <1>5, <1>6 DEF RequestMoves

\* The steps of a plan are a group as ForkJoin promises it (but for its fairness): it comes back
\* after the last of them, with the error that came first, which none of them was stopped by.
THEOREM RefinesForkJoin == Spec => Promise!Init /\ [][Promise!Next]_<<Group, Running, fail>>
<1>1. Init => Promise!Init
  BY DEF Init, Promise!Init, Group, Active
<1>2. TypeInv /\ ShapeInv /\ [Next]_vars => [Promise!Next]_<<Group, Running, fail>>
  <2> SUFFICES ASSUME TypeInv, ShapeInv, [Next]_vars
               PROVE  Promise!Next \/ UNCHANGED <<Group, Running, fail>>
    OBVIOUS
  <2>1. CASE RequestMoves
    BY <2>1, RequestRefines
  <2>2. CASE \E s \in Steps : StepMoves(s)
    BY <2>2, MovesRefine
  <2>3. CASE ContextEnds \/ (\E k \in Keys : Expire(k)) \/ UNCHANGED vars
    BY <2>3 DEF ContextEnds, Expire, OnlyCalls, OnlySteps, vars, Group, Running, agents
  <2> QED BY <2>1, <2>2, <2>3 DEF Next
<1> QED BY <1>1, <1>2, Shaped, PTL DEF Spec

-----------------------------------------------------------------------------
(* What answers are made of.                                               *)

\* A step that has answered has an answer its validator let through. When the results are put
\* together every step of the plan has, and the plan is the planner's, or one agent alone.
FoundInv ==
    /\ \A s \in Steps : step[s] = "answered" => res[s] # Blank /\ ValidAnswer(Asked, res[s], StepEvidence)
    /\ mode = "multi-agent" =>
         /\ pc \in {"plan", "fork", "run", "done"}
         /\ pc # "plan" => plan = BuildPlan(signals)
    /\ pc = "run" /\ ~ UsesPlan => plan = {"solo"}
    /\ pc = "check" => mode = "graph_rag"
    /\ pc = "generate" /\ mode = "graph_multi" =>
         Evidence # Blank /\ \A s \in plan : step[s] = "answered"

AnswerInv == FoundInv /\ AnswerStands

LEMMA AllAnswered ==
    ASSUME TypeInv, ShapeInv, Waited, fail = None
    PROVE  \A s \in plan : step[s] = "answered"
BY DEF Waited, ShapeInv, Faults, TypeInv, TypeOK

\* Only the agent of rag_agent is given evidence: what any other finds is sure of itself.
LEMMA FoundIsSure ==
    ASSUME TypeInv, FoundInv, mode # "rag_agent", \A s \in plan : step[s] = "answered"
    PROVE  "hedge" \notin Found
BY DEF FoundInv, Found, ValidAnswer, StepEvidence, Blank, TypeInv, TypeOK

LEMMA MovesKeepAnswers ==
    ASSUME TypeInv, ShapeInv, AnswerInv, NEW s \in Steps, StepMoves(s)
    PROVE  AnswerInv'
<1>1. \/ UNCHANGED <<step, res>>
      \/ GoesOn(s) \/ Answers(s) \/ Fails(s)
  BY OnlyWhileRunning, AgentStepsAreMoves DEF StepMoves
<1>2. pc' = "run" /\ outcome' # "answer" /\ UNCHANGED <<mode, signals, plan, context>>
  BY OnlyWhileRunning, NoneAssumption DEF OnlySteps, request, ShapeInv
<1>3. \A t \in Steps : t # s => step'[t] = step[t] /\ res'[t] = res[t]
  BY <1>1 DEF GoesOn, Answers, Fails, Shift, TypeInv, TypeOK
<1>4. step'[s] = "answered" => res'[s] # Blank /\ ValidAnswer(Asked, res'[s], StepEvidence)
  <2>1. CASE UNCHANGED <<step, res>>
    BY <2>1 DEF AnswerInv, FoundInv
  <2>2. CASE GoesOn(s) \/ Fails(s)
    BY <2>2 DEF GoesOn, Fails, Shift, Active, Faults, TypeInv, TypeOK
  <2>3. CASE Answers(s)
    BY <2>3 DEF Answers, TypeInv, TypeOK
  <2> QED BY <1>1, <2>1, <2>2, <2>3
<1>5. Asked' = Asked /\ StepEvidence' = StepEvidence /\ (UsesPlan <=> UsesPlan')
  BY <1>2 DEF Asked, StepEvidence, UsesPlan
<1>6. \A text : ValidAnswer(Asked, text, StepEvidence)' <=> ValidAnswer(Asked, text, StepEvidence)
  BY <1>5 DEF ValidAnswer
<1>7. FoundInv'
  BY <1>2, <1>3, <1>4, <1>5, OnlyWhileRunning DEF FoundInv, AnswerInv, ValidAnswer, BuildPlan
<1> QED BY <1>2, <1>7 DEF AnswerInv, AnswerStands

LEMMA RequestKeepsFound ==
    ASSUME TypeInv, ShapeInv, AnswerInv, RequestMoves
    PROVE  FoundInv'
<1> USE DEF AnswerInv, FoundInv, Asked, StepEvidence, UsesPlan, ValidAnswer
<1>1. CASE Plan
  BY <1>1 DEF Plan, request, agents
<1>2. CASE Retrieve
  BY <1>2 DEF Retrieve, request, agents, TypeInv, CallsInv, ShapeInv, Early
<1>3. CASE Fork
  BY <1>3 DEF Fork, request
<1>4. CASE JoinFails \/ AnswerAlone \/ Summarize
  BY <1>4 DEF JoinFails, AnswerAlone, Summarize, Waited, Deliver, GiveUp, request, agents
<1>5. CASE CollectEvidence
  BY <1>5, AllAnswered DEF CollectEvidence, Waited, GiveUp, Evidence, Found, request, agents
<1>6. CASE Generate \/ Check \/ CallFails
  BY <1>6 DEF Generate, Check, CallFails, Deliver, GiveUp, request, agents
<1> QED BY <1>1, <1>2, <1>3, <1>4, <1>5, <1>6 DEF RequestMoves

LEMMA RequestKeepsAnswers ==
    ASSUME TypeInv, ShapeInv, AnswerInv, RequestMoves
    PROVE  AnswerStands'
<1>1. pc # "done" /\ outcome # "answer"
  <2>1. pc # "done"
    BY DEF RequestMoves, Plan, Retrieve, Fork, JoinFails, AnswerAlone, Summarize, CollectEvidence,
           Generate, Check, CallFails, Waited
  <2> QED BY <2>1, NoneAssumption DEF ShapeInv
<1>2. CASE Plan \/ Retrieve \/ Fork \/ CollectEvidence \/ JoinFails \/ CallFails
  <2>1. outcome' = outcome \/ outcome' = "error"
    BY <1>2 DEF Plan, Retrieve, Fork, CollectEvidence, JoinFails, CallFails, GiveUp
  <2> QED BY <1>1, <2>1 DEF AnswerStands
<1>3. CASE AnswerAlone
  <2>1. mode \in {"react", "rag_agent", "graph_rag"} /\ UNCHANGED <<mode, context, plan, res>>
    BY <1>3, ModesAssumption DEF AnswerAlone, UsesPlan, TypeInv, TypeOK, request, agents
  <2>2. ValidAnswer({"query"}, res["solo"], StepEvidence)
    <3>1. "solo" \in Steps /\ step["solo"] = "answered"
      BY <1>3, AllAnswered DEF AnswerAlone, AnswerInv, FoundInv, Waited, Steps
    <3> QED BY <3>1, <2>1 DEF AnswerInv, FoundInv, Asked
  <2>3. answer' = res["solo"] /\ StepEvidence' = StepEvidence
    BY <1>3, <2>1 DEF AnswerAlone, Deliver, StepEvidence
  <2> QED BY <2>1, <2>2, <2>3 DEF AnswerStands, ValidAnswer, SharesKeyword
<1>4. CASE Summarize
  <2>1. mode = "multi-agent" /\ UNCHANGED <<mode, signals, context, plan, res>>
    BY <1>4 DEF Summarize, request, agents
  <2>2. \A s \in plan : step[s] = "answered" /\ res[s] # Blank
    BY <1>4, AllAnswered DEF Summarize, AnswerInv, FoundInv, TypeInv, TypeOK
  <2>3. plan = BuildPlan(signals)
    BY <1>4, <2>1 DEF Summarize, Waited, AnswerInv, FoundInv
  <2>4. "hedge" \notin Found
    BY <2>1, <2>2, FoundIsSure DEF AnswerInv
  <2>5. CASE ValidAnswer({"query"}, Found \cup {"long"}, Found)
    <3>1. answer' = Found \cup {"long"}
      BY <1>4, <2>5 DEF Summarize, Deliver
    <3>2. {"long", "query"} \subseteq answer'
      BY <2>5, <3>1 DEF ValidAnswer, SharesKeyword
    <3>3. "hedge" \notin answer'
      BY <3>1, <2>4
    <3>4. \A s \in plan : res[s] \subseteq answer'
      BY <3>1 DEF Found
    <3>5. BuildPlan(signals)' = BuildPlan(signals)
      BY <2>1 DEF BuildPlan
    <3> QED BY <2>1, <2>2, <2>3, <3>2, <3>3, <3>4, <3>5 DEF AnswerStands
  <2>6. CASE ~ ValidAnswer({"query"}, Found \cup {"long"}, Found)
    BY <2>6, <1>4 DEF Summarize, GiveUp, AnswerStands
  <2> QED BY <2>5, <2>6
<1>5. CASE Generate
  <2>1. UNCHANGED <<mode, context, plan, res>>
    BY <1>5 DEF Generate, request, agents
  <2> PICK text \in Texts :
         \/ mode = "graph_rag" /\ UNCHANGED outcome
         \/ mode = "graph_multi" /\ ValidAnswer({"query"}, text, Evidence) /\ Deliver(text)
         \/ mode = "graph_multi" /\ GiveUp
    BY <1>5 DEF Generate
  <2>2. CASE mode = "graph_rag" \/ GiveUp
    BY <2>2, <2>1 DEF GiveUp, AnswerStands
  <2>3. CASE mode = "graph_multi" /\ ValidAnswer({"query"}, text, Evidence) /\ Deliver(text)
    <3>1. "hedge" \notin Found /\ Evidence # Blank
      BY <1>5, <2>3, FoundIsSure DEF Generate, AnswerInv, FoundInv
    <3>2. {"long", "query"} \subseteq text /\ ("hedge" \in text => "hedge" \in context)
      BY <2>3, <3>1 DEF ValidAnswer, SharesKeyword, Evidence
    <3>3. Evidence' = Evidence
      BY <2>1 DEF Evidence, Found
    <3> QED BY <2>1, <2>3, <3>1, <3>2, <3>3 DEF AnswerStands, Deliver
  <2> QED BY <2>2, <2>3
<1>6. CASE Check
  BY <1>6 DEF Check, AnswerInv, FoundInv, AnswerStands, request
<1> QED BY <1>2, <1>3, <1>4, <1>5, <1>6 DEF RequestMoves

LEMMA AnswerStep == TypeInv /\ ShapeInv /\ AnswerInv /\ [Next]_vars => AnswerInv'
<1> SUFFICES ASSUME TypeInv, ShapeInv, AnswerInv, [Next]_vars PROVE AnswerInv'
  OBVIOUS
<1>1. CASE RequestMoves
  BY <1>1, RequestKeepsFound, RequestKeepsAnswers DEF AnswerInv
<1>2. CASE \E s \in Steps : StepMoves(s)
  BY <1>2, MovesKeepAnswers
<1>3. CASE ContextEnds \/ (\E k \in Keys : Expire(k)) \/ UNCHANGED vars
  <2>1. UNCHANGED <<request, pc, context, plan, step, res, answer, outcome>>
    BY <1>3 DEF ContextEnds, Expire, OnlyCalls, OnlySteps, vars, agents
  <2> QED BY <2>1 DEF AnswerInv, FoundInv, AnswerStands, Asked, StepEvidence, UsesPlan, ValidAnswer,
                      Evidence, Found, BuildPlan, request
<1> QED BY <1>1, <1>2, <1>3 DEF Next

LEMMA InitiallyAnswers == Init => AnswerInv
<1> SUFFICES ASSUME Init PROVE AnswerInv
  OBVIOUS
<1>1. AnswerStands
  BY NoneAssumption DEF Init, AnswerStands
<1>2. FoundInv
  BY ModesAssumption DEF Init, FoundInv, UsesPlan
<1> QED BY <1>1, <1>2 DEF AnswerInv

\* An answer is about the question and says nothing unsure that its evidence does not say; a report
\* has the section of every step of the planner's plan; a graph has never answered out of nothing.
THEOREM AnswersStand == Spec => []AnswerStands
<1>1. AnswerInv => AnswerStands
  BY DEF AnswerInv
<1> QED BY InitiallyAnswers, AnswerStep, Shaped, <1>1, PTL DEF Spec

-----------------------------------------------------------------------------
(* What is counted.                                                        *)

One(state, states) == IF state \in states THEN 1 ELSE 0

\* A call that moves alone changes a count by what it is counted as before and after.
LEMMA CountOfOne ==
    ASSUME TypeInv, NEW c \in Slots, NEW to, GoOn(c, to), NEW states
    PROVE  Cardinality(CallsAt(states)') = Cardinality(CallsAt(states)) - One(call[c], states) + One(to, states)
<1>1. /\ IsFiniteSet(CallsAt(states)) /\ Cardinality(CallsAt(states)) \in Nat
      /\ IsFiniteSet(CallsAt(states)') /\ Cardinality(CallsAt(states)') \in Nat
  <2>1. CallsAt(states)' \subseteq Slots
    BY DEF CallsAt
  <2> QED BY <2>1, CallsAreFinite, SlotsAreFinite, FS_Subset, FS_CardinalityType
<1>2. call'[c] = to /\ \A d \in Slots : d # c => call'[d] = call[d]
  BY DEF GoOn, TypeInv, TypeOK
<1>3. c \in CallsAt(states) <=> call[c] \in states
  BY DEF CallsAt
<1>4. CallsAt(states)' \ {c} = CallsAt(states) \ {c} /\ (c \in CallsAt(states)' <=> to \in states)
  BY <1>2 DEF CallsAt
<1> DEFINE S == CallsAt(states)
           T == CallsAt(states)'
<1>5. /\ IsFiniteSet(S) /\ Cardinality(S) \in Nat /\ IsFiniteSet(T) /\ Cardinality(T) \in Nat
      /\ (c \in S <=> call[c] \in states) /\ (c \in T <=> to \in states) /\ T \ {c} = S \ {c}
  BY <1>1, <1>3, <1>4
<1> HIDE DEF S, T
<1>6. Cardinality(S \ {c}) = Cardinality(S) - One(call[c], states)
  BY <1>5, FS_RemoveElement, FS_Subset DEF One
<1>7. Cardinality(T \ {c}) = Cardinality(T) - One(to, states)
  <2>1. Cardinality(T \ {c}) = IF c \in T THEN Cardinality(T) - 1 ELSE Cardinality(T)
    BY ONLY <1>5, FS_RemoveElement
  <2> QED BY ONLY <1>5, <2>1 DEF One
<1>8. Cardinality(T) = Cardinality(S) - One(call[c], states) + One(to, states)
  BY <1>5, <1>6, <1>7 DEF One
<1> QED BY <1>8 DEF S, T

Begun   == Cardinality(CallsAt(Busy \cup Ended))
Broken  == Cardinality(CallsAt(Failed))
Refused == Cardinality(CallsAt({"unfit"}))
Invalid == Cardinality({s \in Steps : step[s] = "invalid"})

LEMMA CountsAreInts ==
    ASSUME TypeInv
    PROVE  /\ Given \in Int /\ Begun \in Int /\ Broken \in Int /\ Refused \in Int /\ Invalid \in Int
           /\ trace \in [calls : Nat, failures : Nat, invalid : Nat]
<1>1. {s \in Steps : step[s] = "invalid"} \subseteq Steps
  OBVIOUS
<1>2. Invalid \in Int
  BY <1>1, SlotsAreFinite, FS_Subset, FS_CardinalityType DEF Invalid
<1>3. Begun \in Int /\ Broken \in Int /\ Refused \in Int
  BY CallsAreFinite DEF Begun, Broken, Refused
<1> QED BY <1>2, <1>3 DEF Given, Steps, Planned, TypeInv, TypeOK

\* CountsFit while the request has not ended.
LEMMA Counting ==
    ASSUME outcome # "error"
    PROVE  CountsFit <=> /\ trace.calls = Given + Begun
                         /\ trace.failures = Broken
                         /\ trace.invalid = Refused + Invalid
BY DEF CountsFit, Begun, Broken, Refused, Invalid

\* A step that counts what it does.
Tells(calls, failures, invalid) ==
    /\ Given' + Begun' = Given + Begun + calls
    /\ Broken' = Broken + failures
    /\ Refused' + Invalid' = Refused + Invalid + invalid
    /\ Count(calls, failures, invalid)

LEMMA CallsTell ==
    ASSUME TypeInv, NEW c \in Slots, CallMoves(c)
    PROVE  \E calls, failures, invalid \in Nat : Tells(calls, failures, invalid)
<1>1. Moves(c) /\ OnlyCalls
  BY CallStepsAreMoves DEF TypeInv
<1>2. Given' = Given /\ Invalid' = Invalid
  BY <1>1 DEF OnlyCalls, Given, Invalid
<1>3. \A to : GoOn(c, to) =>
        /\ Begun' = Begun - One(call[c], Busy \cup Ended) + One(to, Busy \cup Ended)
        /\ Broken' = Broken - One(call[c], Failed) + One(to, Failed)
        /\ Refused' = Refused - One(call[c], {"unfit"}) + One(to, {"unfit"})
  BY CountOfOne DEF Begun, Broken, Refused
<1>4. Given \in Int /\ Begun \in Int /\ Broken \in Int /\ Refused \in Int /\ Invalid \in Int
  BY CountsAreInts
<1> HIDE DEF Begun, Broken, Refused, Invalid, Given, CallsAt
<1>5. CASE Moved(c, {"asked"}, "called", 1, 0, 0)
  <2>1. Tells(1, 0, 0)
    BY <1>2, <1>3, <1>4, <1>5 DEF Moved, Tells, One, Busy, Ended, Failed
  <2> QED BY <2>1
<1>6. CASE Moved(c, {"asked"}, "unfit", 1, 1, 1)
  <2>1. Tells(1, 1, 1)
    BY <1>2, <1>3, <1>4, <1>6 DEF Moved, Tells, One, Busy, Ended, Failed
  <2> QED BY <2>1
<1>7. CASE \E to \in {"database", "baidu", "useful"} : Moved(c, Busy, to, 0, 0, 0)
  <2>1. Tells(0, 0, 0)
    BY <1>2, <1>3, <1>4, <1>7 DEF Moved, Tells, One, Busy, Ended, Failed
  <2> QED BY <2>1
<1>8. CASE Moved(c, Busy, "unfit", 0, 1, 1)
  <2>1. Tells(0, 1, 1)
    BY <1>2, <1>3, <1>4, <1>8 DEF Moved, Tells, One, Busy, Ended, Failed
  <2> QED BY <2>1
<1>9. CASE \E e \in Reasons : Moved(c, Busy, e, 0, 1, 0)
  <2>1. Tells(0, 1, 0)
    BY <1>2, <1>3, <1>4, <1>9 DEF Moved, Tells, One, Busy, Ended, Failed, Reasons
  <2> QED BY <2>1
<1> QED BY <1>1, <1>5, <1>6, <1>7, <1>8, <1>9 DEF Moves

\* The results handed to a model are the calls that leave their slots.
LEMMA ReturnTells ==
    ASSUME TypeInv, NEW s \in Steps, ToolsReturn(s)
    PROVE  Given' + Begun' = Given + Begun /\ Broken' = Broken /\ Refused' = Refused
<1>1. CASE Lost(s) # {}
  <2>1. UNCHANGED <<call, results>>
    BY <1>1 DEF ToolsReturn
  <2> QED BY <2>1 DEF Given, Begun, Broken, Refused, CallsAt
<1>2. CASE Lost(s) = {}
  <2>1. /\ results' = [results EXCEPT ![s] = @ + Cardinality(Useful(s))]
        /\ call' = [c \in Slots |-> IF c[1] = s THEN "none" ELSE call[c]]
        /\ \A c \in SlotsOf(s) : call[c] \in {"none"} \cup Ended
    BY <1>2 DEF ToolsReturn
  <2>2. \A c \in SlotsOf(s) : call[c] \in {"none", "useful"}
    BY <2>1, <1>2 DEF Lost, Ended
  <2>3. \A c \in Slots : c \notin SlotsOf(s) => call'[c] = call[c]
    BY <2>1, Slot
  <2>4. \A c \in SlotsOf(s) : c \in Slots /\ call'[c] = "none"
    BY <2>1, Slot, SlotsAreFinite
  <2>5. CallsAt(Failed)' = CallsAt(Failed) /\ CallsAt({"unfit"})' = CallsAt({"unfit"})
    BY <2>2, <2>3, <2>4 DEF CallsAt, Failed
  <2>6. /\ CallsAt(Busy \cup Ended)' = CallsAt(Busy \cup Ended) \ Useful(s)
        /\ Useful(s) \subseteq CallsAt(Busy \cup Ended)
    BY <2>2, <2>3, <2>4 DEF CallsAt, Useful, Busy, Ended, Failed
  <2>7. Begun' = Begun - Cardinality(Useful(s)) /\ Cardinality(Useful(s)) \in Nat
    <3>1. CallsAt(Busy \cup Ended) \cap Useful(s) = Useful(s)
      BY <2>6
    <3>2. IsFiniteSet(CallsAt(Busy \cup Ended))
      BY CallsAreFinite
    <3>3. Cardinality(CallsAt(Busy \cup Ended)')
            = Cardinality(CallsAt(Busy \cup Ended)) - Cardinality(CallsAt(Busy \cup Ended) \cap Useful(s))
      BY <2>6, <3>2, FS_Difference
    <3>4. IsFiniteSet(Useful(s))
      BY <2>6, <3>2, FS_Subset
    <3> QED BY <3>1, <3>3, <3>4, FS_CardinalityType DEF Begun
  <2>8. Given' = Given + Cardinality(Useful(s))
    <3>1. \A t \in Steps : results[t] \in Int /\ results'[t] = IF t = s THEN results[t] + Cardinality(Useful(s)) ELSE results[t]
      BY <2>1 DEF TypeInv, TypeOK
    <3> HIDE DEF Useful
    <3> QED BY <2>7, <3>1 DEF Given, Steps, Planned
  <2>9. Given \in Int /\ Begun \in Int
    BY CountsAreInts
  <2>10. Broken' = Broken /\ Refused' = Refused
    BY <2>5 DEF Broken, Refused
  <2> HIDE DEF Given, Begun, Useful, Broken, Refused
  <2> QED BY <2>7, <2>8, <2>9, <2>10
<1> QED BY <1>1, <1>2

LEMMA AgentsTell ==
    ASSUME TypeInv, NEW s \in Steps, AgentMoves(s)
    PROVE  \E calls, failures, invalid \in Nat : Tells(calls, failures, invalid)
<1>0. /\ Given \in Int /\ Begun \in Int /\ Broken \in Int /\ Refused \in Int /\ Invalid \in Int
      /\ trace \in [calls : Nat, failures : Nat, invalid : Nat]
  BY CountsAreInts
<1>1. \A t \in Steps : t # s => step'[t] = step[t]
  BY AgentStepsAreMoves DEF GoesOn, Answers, Fails, Shift, TypeInv, TypeOK
<1>2. step[s] # "invalid"
  BY AgentStepsAreMoves DEF Active
<1>3. step'[s] # "invalid" => Invalid' = Invalid
  BY <1>1, <1>2 DEF Invalid
<1>4. step'[s] = "invalid" => Invalid' = Invalid + 1
  <2> SUFFICES ASSUME step'[s] = "invalid" PROVE Invalid' = Invalid + 1
    OBVIOUS
  <2> DEFINE I == {t \in Steps : step[t] = "invalid"}
  <2>1. I' = I \cup {s} /\ s \notin I
    BY <1>1, <1>2
  <2>2. IsFiniteSet(I)
    BY SlotsAreFinite, FS_Subset
  <2>3. Invalid = Cardinality(I) /\ Invalid' = Cardinality(I')
    BY DEF Invalid
  <2> HIDE DEF I
  <2> QED BY <2>1, <2>2, <2>3, FS_AddElement
<1>5. CASE AskTools(s)
  <2> PICK n \in 1..Width : call' = [c \in Slots |-> IF c[1] = s /\ c[2] <= n THEN "asked" ELSE call[c]]
    BY <1>5 DEF AskTools
  <2>1. \A c \in Slots : c[1] = s => call[c] = "none"
    BY <1>5 DEF AskTools, TypeInv, CallsInv
  <2>2. \A states \in {Busy \cup Ended, Failed, {"unfit"}} : CallsAt(states)' = CallsAt(states)
    BY <2>1 DEF CallsAt, Busy, Ended, Failed
  <2>3. Begun' = Begun /\ Broken' = Broken /\ Refused' = Refused
    BY <2>2 DEF Begun, Broken, Refused
  <2>4. step'[s] # "invalid" /\ Given' = Given /\ Count(0, 0, 0)
    BY <1>5, NothingCounted DEF AskTools, Given, TypeInv, TypeOK
  <2>5. Tells(0, 0, 0)
    BY <1>0, <1>3, <2>3, <2>4 DEF Tells
  <2> QED BY <2>5
<1>6. CASE ToolsReturn(s)
  <2>1. step'[s] # "invalid" /\ Count(0, 0, 0)
    BY <1>6, NothingCounted DEF ToolsReturn, Stop, TypeInv, TypeOK
  <2>2. Tells(0, 0, 0)
    BY <1>0, <1>3, <1>6, <2>1, ReturnTells DEF Tells
  <2> QED BY <2>2
<1>7. CASE Answer(s) \/ ModelFails(s)
  <2>1. Given' = Given /\ Begun' = Begun /\ Broken' = Broken /\ Refused' = Refused
    BY <1>7 DEF Answer, ModelFails, toolCalls, Given, Begun, Broken, Refused, CallsAt
  <2>2. \/ step'[s] # "invalid" /\ Count(0, 0, 0)
        \/ step'[s] = "invalid" /\ Count(0, 0, 1)
    BY <1>7, NothingCounted DEF Answer, ModelFails, Stop, TypeInv, TypeOK
  <2>3. Tells(0, 0, 0) \/ Tells(0, 0, 1)
    BY <1>0, <1>3, <1>4, <2>1, <2>2 DEF Tells
  <2> QED BY <2>3
<1> QED BY <1>5, <1>6, <1>7 DEF AgentMoves

LEMMA MovesKeepCounts ==
    ASSUME TypeInv, ShapeInv, CountsFit, NEW s \in Steps, StepMoves(s)
    PROVE  CountsFit'
<1>1. outcome # "error" /\ outcome' # "error"
  BY OnlyWhileRunning, NoneAssumption DEF OnlySteps, ShapeInv
<1>2. PICK calls \in Nat, failures \in Nat, invalid \in Nat : Tells(calls, failures, invalid)
  BY CallsTell, AgentsTell, SlotsAreFinite DEF StepMoves
<1>3. /\ trace.calls = Given + Begun
      /\ trace.failures = Broken
      /\ trace.invalid = Refused + Invalid
  BY <1>1, Counting
<1>4. /\ trace'.calls = Given' + Begun'
      /\ trace'.failures = Broken'
      /\ trace'.invalid = Refused' + Invalid'
  BY <1>2, <1>3 DEF Tells, Count
<1> QED BY <1>1, <1>4 DEF CountsFit, Begun, Broken, Refused, Invalid

LEMMA RequestKeepsCounts ==
    ASSUME TypeInv, ShapeInv, CountsFit, RequestMoves
    PROVE  CountsFit'
<1>1. pc # "done" /\ outcome # "error"
  <2>1. pc # "done"
    BY DEF RequestMoves, Plan, Retrieve, Fork, JoinFails, AnswerAlone, Summarize, CollectEvidence,
           Generate, Check, CallFails, Waited
  <2> QED BY <2>1, NoneAssumption DEF ShapeInv
<1>2. /\ trace.calls = Given + Begun
      /\ trace.failures = Broken
      /\ trace.invalid = Refused + Invalid
  BY <1>1, Counting
<1>3. UNCHANGED <<results, call>>
  BY DEF RequestMoves, Plan, Retrieve, Fork, JoinFails, AnswerAlone, Summarize, CollectEvidence,
         Generate, Check, CallFails, agents, toolCalls
<1>4. Invalid' = Invalid
  <2>1. CASE Fork
    <3>1. \A s \in Steps : step[s] = "idle" /\ step'[s] \in {"idle", "model"}
      BY <2>1 DEF Fork, TypeInv, CallsInv, Early
    <3> QED BY <3>1 DEF Invalid
  <2>2. CASE ~ Fork
    <3>1. UNCHANGED step
      BY <2>2 DEF RequestMoves, Plan, Retrieve, JoinFails, AnswerAlone, Summarize, CollectEvidence,
             Generate, Check, CallFails, agents
    <3> QED BY <3>1 DEF Invalid
  <2> QED BY <2>1, <2>2
<1>5. UNCHANGED trace \/ (Count(0, 0, 1) /\ outcome' = "error")
  BY DEF RequestMoves, Plan, Retrieve, Fork, JoinFails, AnswerAlone, Summarize, CollectEvidence,
         Generate, Check, CallFails, Deliver, GiveUp
<1>6. Given' = Given /\ Begun' = Begun /\ Broken' = Broken /\ Refused' = Refused
  BY <1>3 DEF Given, Begun, Broken, Refused, CallsAt
<1>7. /\ Given \in Int /\ Begun \in Int /\ Broken \in Int /\ Refused \in Int /\ Invalid \in Int
      /\ trace \in [calls : Nat, failures : Nat, invalid : Nat]
  BY CountsAreInts
<1>8. /\ trace'.calls = Given' + Begun'
      /\ trace'.failures = Broken'
      /\ \/ trace'.invalid = Refused' + Invalid'
         \/ trace'.invalid = Refused' + Invalid' + 1 /\ outcome' = "error"
  BY <1>2, <1>4, <1>5, <1>6, <1>7 DEF Count
<1> QED BY <1>8 DEF CountsFit, Begun, Broken, Refused, Invalid

LEMMA CountStep == TypeInv /\ ShapeInv /\ CountsFit /\ [Next]_vars => CountsFit'
<1> SUFFICES ASSUME TypeInv, ShapeInv, CountsFit, [Next]_vars PROVE CountsFit'
  OBVIOUS
<1>1. CASE RequestMoves
  BY <1>1, RequestKeepsCounts
<1>2. CASE \E s \in Steps : StepMoves(s)
  BY <1>2, MovesKeepCounts
<1>3. CASE ContextEnds \/ (\E k \in Keys : Expire(k)) \/ UNCHANGED vars
  <2>1. UNCHANGED <<step, call, results, trace, outcome>>
    BY <1>3 DEF ContextEnds, Expire, OnlyCalls, OnlySteps, vars, agents, toolCalls
  <2> QED BY <2>1 DEF CountsFit, Given, CallsAt
<1> QED BY <1>1, <1>2, <1>3 DEF Next

LEMMA InitiallyCounted == Init => CountsFit
<1> SUFFICES ASSUME Init PROVE CountsFit
  OBVIOUS
<1>1. \A states \in {Busy \cup Ended, Failed, {"unfit"}} : CallsAt(states) = {}
  BY DEF Init, CallsAt, Busy, Ended, Failed
<1>2. {s \in Steps : step[s] = "invalid"} = {}
  BY DEF Init
<1>3. Given = 0 /\ trace = [calls |-> 0, failures |-> 0, invalid |-> 0]
  BY DEF Init, Given, Steps, Planned
<1> QED BY <1>1, <1>2, <1>3, FS_EmptySet DEF CountsFit

\* The trace of a request counts its tool calls, failures and refusals as they happened, for any
\* number of calls, in one message or in several, and whatever the order in which the agents of a
\* plan and the calls of a message come to them.
THEOREM Counted == Spec => []CountsFit
BY InitiallyCounted, CountStep, Shaped, PTL DEF Spec
=============================================================================
