----------------------------- MODULE FlushLoop -----------------------------
(***************************************************************************)
(* The debounced flush of pkg/vectordb/milvus.go: Insert, scheduleFlush,   *)
(* flushLoop, flushNow and Close of MilvusClient.                          *)
(*                                                                         *)
(* Processes: one goroutine per document that is inserted, the goroutine   *)
(* of flushLoop, its timer, and the goroutine that closes the client. A    *)
(* flush covers at least what was stored when it was called. Its select    *)
(* chooses freely among the channels that are ready. With Go 1.24 a timer  *)
(* that is reset leaves no stale value in its channel.                     *)
(***************************************************************************)
EXTENDS Naturals

CONSTANTS Docs,       \* documents inserted, each once
          Stragglers  \* those inserted by requests that may outlive Shutdown

ASSUME StragglersAssumption == Stragglers \subseteq Docs

VARIABLES
    ipc,          \* where each Insert is
    flushSignals, \* how many values the channel of one slot holds
    lpc,          \* where flushLoop is
    pending,      \* its variable
    timer,        \* "stopped", "armed", or "fired": a value in timer.C
    closer,       \* "open", "waiting" in flushWG.Wait, "closed"
    covering,     \* what the flush under way covers
    flushed,      \* what a flush has covered
    missed        \* what a flush that failed should have covered

loopVars   == <<lpc, pending, timer>>
flushVars  == <<covering, flushed, missed>>

vars == <<ipc, flushSignals, loopVars, closer, flushVars>>

Init == /\ ipc = [d \in Docs |-> "new"]
        /\ flushSignals = 0
        /\ lpc = "select"
        /\ pending = FALSE
        /\ timer = "stopped"
        /\ closer = "open"
        /\ covering = {}
        /\ flushed = {}
        /\ missed = {}

-----------------------------------------------------------------------------
(* Insert and scheduleFlush.                                               *)

Stored == {d \in Docs : ipc[d] \in {"inserted", "done"}}

\* Uploads and queued answers are inserted by workers that Handler.Close has waited
\* for before it closes the client; the client takes nothing once it is closed.
MayInsert(d) == closer = "open" \/ (d \in Stragglers /\ closer = "waiting")

Insert(d) ==
    /\ ipc[d] = "new"
    /\ MayInsert(d)
    /\ ipc' = [ipc EXCEPT ![d] = "inserted"]
    /\ UNCHANGED <<flushSignals, loopVars, closer, flushVars>>

\* An error: no flush is scheduled.
InsertFails(d) ==
    /\ ipc[d] = "new"
    /\ MayInsert(d) \/ d \in Stragglers
    /\ ipc' = [ipc EXCEPT ![d] = "failed"]
    /\ UNCHANGED <<flushSignals, loopVars, closer, flushVars>>

\* A send that never waits: a signal that is there already stands for this one too.
ScheduleUnbounded(d) == \* Variant: a channel without bound.
    /\ ipc[d] = "inserted"
    /\ flushSignals' = flushSignals + 1
    /\ ipc' = [ipc EXCEPT ![d] = "done"]
    /\ UNCHANGED <<loopVars, closer, flushVars>>

scheduleFlush(d) ==
    /\ ipc[d] = "inserted"
    /\ flushSignals' = IF flushSignals = 0 THEN 1 ELSE flushSignals
    /\ ipc' = [ipc EXCEPT ![d] = "done"]
    /\ UNCHANGED <<loopVars, closer, flushVars>>

-----------------------------------------------------------------------------
(* flushLoop.                                                              *)

TimerFires ==
    /\ timer = "armed"
    /\ timer' = "fired"
    /\ UNCHANGED <<ipc, flushSignals, lpc, pending, closer, flushVars>>

TakeSignalUnarmed == \* Variant: the timer is left as it is.
    /\ lpc = "select"
    /\ flushSignals = 1
    /\ flushSignals' = 0
    /\ pending' = TRUE
    /\ UNCHANGED <<ipc, lpc, timer, closer, flushVars>>

TakeSignal ==
    /\ lpc = "select"
    /\ flushSignals = 1
    /\ flushSignals' = 0
    /\ pending' = TRUE
    /\ timer' = "armed"
    /\ UNCHANGED <<ipc, lpc, closer, flushVars>>

\* flushNow is called: from here on it covers what is stored by now.
BeginFlush(where) == lpc' = where /\ covering' = Stored

TakeTimer ==
    /\ lpc = "select"
    /\ timer = "fired"
    /\ timer' = "stopped"
    /\ IF pending THEN BeginFlush("flushing") ELSE UNCHANGED <<lpc, covering>>
    /\ UNCHANGED <<ipc, flushSignals, pending, closer, flushed, missed>>

TakeClosePending == \* Variant: leaves only after a flush.
    /\ lpc = "select"
    /\ closer = "waiting"
    /\ pending
    /\ BeginFlush("closing")
    /\ UNCHANGED <<ipc, flushSignals, pending, timer, closer, flushed, missed>>

\* The signals are not looked at any more.
TakeClose ==
    /\ lpc = "select"
    /\ closer = "waiting"
    /\ IF pending THEN BeginFlush("closing") ELSE lpc' = "exited" /\ UNCHANGED covering
    /\ UNCHANGED <<ipc, flushSignals, pending, timer, closer, flushed, missed>>

\* flushNow returns, with an error that is only logged, or without; nothing is
\* pending after it.
FlushEndsDraining == \* Variant: signals that came meanwhile are taken as served.
    /\ lpc \in {"flushing", "closing"}
    /\ \/ flushed' = flushed \cup covering /\ UNCHANGED missed
       \/ missed' = missed \cup covering   /\ UNCHANGED flushed
    /\ covering' = {}
    /\ flushSignals' = 0
    /\ IF lpc = "flushing"
       THEN lpc' = "select" /\ pending' = FALSE
       ELSE lpc' = "exited" /\ UNCHANGED pending
    /\ UNCHANGED <<ipc, timer, closer>>

FlushEnds ==
    /\ lpc \in {"flushing", "closing"}
    /\ \/ flushed' = flushed \cup covering /\ UNCHANGED missed
       \/ missed' = missed \cup covering   /\ UNCHANGED flushed
    /\ covering' = {}
    /\ IF lpc = "flushing"
       THEN lpc' = "select" /\ pending' = FALSE
       ELSE lpc' = "exited" /\ UNCHANGED pending
    /\ UNCHANGED <<ipc, flushSignals, timer, closer>>

-----------------------------------------------------------------------------
(* Close, last of all in Handler.Close.                                    *)

Close ==
    /\ closer = "open"
    /\ \A d \in Docs \ Stragglers : ipc[d] # "inserted"
    /\ closer' = "waiting"
    /\ UNCHANGED <<ipc, flushSignals, loopVars, flushVars>>

CloseReturns ==
    /\ closer = "waiting"
    /\ lpc = "exited"
    /\ closer' = "closed"
    /\ UNCHANGED <<ipc, flushSignals, loopVars, flushVars>>

-----------------------------------------------------------------------------
Inserter(d) == Insert(d) \/ InsertFails(d) \/ scheduleFlush(d)
Loop        == TakeSignal \/ TakeTimer \/ TakeClose \/ FlushEnds

Next == \/ \E d \in Docs : Inserter(d)
        \/ TimerFires
        \/ Loop
        \/ Close \/ CloseReturns

\* An Insert that came back goes on, the loop runs, a flush ends within its ten
\* seconds, and a timer nobody resets fires: documents are finitely many, so in the
\* end nobody does.
Fairness == /\ \A d \in Docs : WF_vars(scheduleFlush(d))
            /\ WF_vars(TimerFires)
            /\ WF_vars(Loop)
            /\ WF_vars(CloseReturns)

Spec == Init /\ [][Next]_vars /\ Fairness

-----------------------------------------------------------------------------
(* Properties.                                                             *)

\* Types, the channel's one slot, and that a flush is under way only in flushNow.
TypeOK == /\ ipc \in [Docs -> {"new", "inserted", "done", "failed"}]
          /\ flushSignals \in 0..1
          /\ lpc \in {"select", "flushing", "closing", "exited"}
          /\ pending \in BOOLEAN
          /\ timer \in {"stopped", "armed", "fired"}
          /\ closer \in {"open", "waiting", "closed"}
          /\ covering \in SUBSET Docs /\ flushed \in SUBSET Docs /\ missed \in SUBSET Docs
          /\ covering # {} => lpc \in {"flushing", "closing"}

\* A flush the loop cannot miss: the timer of what is pending runs or has run out, or a
\* signal waits for a loop that is still to read it.
FlushDue == \/ lpc = "select" /\ pending /\ timer \in {"armed", "fired"}
            \/ lpc \in {"select", "flushing"} /\ flushSignals = 1

Tried(d) == d \in flushed \cup missed \cup covering

\* One slot is enough: a document whose Insert has returned has been in a flush, or is in the
\* one under way, or a flush that will cover it is due, whatever signals were dropped because
\* another was there, or came while a flush was running. Close may break that, as the select
\* may take closeCh first; but then a signal for the document is still in the channel, and
\* whenever the channel is empty, after Close and after the loop's end as well, each such
\* document has been in a flush or is pending with the loop still in its select.
Covered ==
    \A d \in Docs : ipc[d] = "done" =>
        /\ closer = "open" => Tried(d) \/ FlushDue
        /\ flushSignals = 0 => Tried(d) \/ (lpc = "select" /\ pending)

\* What makes it inductive: what is pending has a timer running, or run out, and the loop
\* leaves only after Close was called.
PendingIsTimed == lpc = "select" /\ pending => timer \in {"armed", "fired"}
LeavesOnClose  == lpc \in {"closing", "exited"} => closer # "open"

\* Unless the client is being closed, a document that was stored is flushed, or the
\* flush that should have covered it fails.
FlushFollows ==
    \A d \in Docs : ipc[d] = "inserted" ~> closer # "open" \/ d \in flushed \cup missed

\* Close returns.
CloseEnds == closer = "waiting" ~> closer = "closed"

\* The hint of upload_tasks.go:183: a batch flush comes after a task's success. So at
\* the latest when the client is closed, a flush of each inserted document was tried.
FlushedByClose == closer = "closed" => \A d \in Docs : ipc[d] = "done" => d \in flushed \cup missed
=============================================================================
