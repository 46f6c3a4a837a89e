-------------------------- MODULE MCKnowledgeStore --------------------------
(***************************************************************************)
(* KnowledgeStore on a small instance: a channel of one slot, so that two  *)
(* requests fill queue and worker and a third finds it full.               *)
(***************************************************************************)
EXTENDS KnowledgeStore
=============================================================================
