---------------------------- MODULE MCFlushLoop ----------------------------
(***************************************************************************)
(* FlushLoop on a small instance: three documents, so that one is being    *)
(* flushed while the signal of a second is waiting and that of a third is  *)
(* dropped.                                                                *)
(***************************************************************************)
EXTENDS FlushLoop
=============================================================================
