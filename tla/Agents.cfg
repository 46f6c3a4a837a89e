CONSTANTS
    Modes = {"react", "rag_agent", "multi-agent", "graph_rag", "graph_multi"}
    Questions <- QuestionsValue
    Texts <- TextsValue
    Contexts <- ContextsValue
    Arguments = {"keyword", "word", "query"}
    Width = 2
    MaxCalls <- MaxCallsValue
    None = None
SPECIFICATION Spec
CHECK_DEADLOCK FALSE
INVARIANTS TypeOK CountsFit AnswerStands
PROPERTIES ImplementsForkJoin Ends
