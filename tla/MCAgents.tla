------------------------------ MODULE MCAgents ------------------------------
(***************************************************************************)
(* Agents on a small instance: every mode, every plan, two tool calls for  *)
(* an agent that runs alone, in one message or one after the other, one    *)
(* for each agent of a plan, and a text for each way the validator decides.*)
(***************************************************************************)
EXTENDS Agents

Good == {"long", "query", "fact"}
Question(a, e, c) == [analysis |-> a, explanation |-> e, complex |-> c]
QuestionsValue == {Question(TRUE, TRUE, FALSE), Question(TRUE, FALSE, TRUE), Question(FALSE, FALSE, FALSE)}

MaxCallsValue == [s \in Steps |-> IF s = "solo" THEN 2 ELSE 1]

TextsValue == {Blank, Good, {"query"}, {"long", "prefix"}, Good \cup {"hedge"}, {"long", "query", "junk"}}
ContextsValue == {Blank, {"long", "fact", "hedge"}}
=============================================================================
