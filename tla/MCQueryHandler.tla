--------------------------- MODULE MCQueryHandler ---------------------------
(***************************************************************************)
(* QueryHandler on a small instance: two queries and a report, a mode of   *)
(* each kind asked for, and every way to be without a fallback.            *)
(***************************************************************************)
EXTENDS QueryHandler

Some == {"rag", "graph_multi", Other}

AvailabilitiesValue == {{"rag", "rag_agent"}, {"rag", "multi-agent"}}
=============================================================================
