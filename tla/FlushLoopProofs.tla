-------------------------- MODULE FlushLoopProofs --------------------------
(***************************************************************************)
(* Theorems about FlushLoop for any documents: its types, and that no      *)
(* stored document is forgotten by the debounced flush.                    *)
(***************************************************************************)
EXTENDS FlushLoop, TLAPS

USE DEF loopVars, flushVars

LEMMA TypesInit == Init => TypeOK
<1> SUFFICES ASSUME Init PROVE TypeOK
  OBVIOUS
<1>1. pending \in BOOLEAN /\ covering = {}
  BY DEF Init
<1>2. ipc \in [Docs -> {"new", "inserted", "done", "failed"}] /\ flushSignals \in 0..1
  BY DEF Init
<1>3. lpc = "select" /\ timer = "stopped" /\ closer = "open" /\ flushed = {} /\ missed = {}
  BY DEF Init
<1> QED BY <1>1, <1>2, <1>3 DEF TypeOK

LEMMA TypesNext == TypeOK /\ [Next]_vars => TypeOK'
<1> SUFFICES ASSUME TypeOK, [Next]_vars PROVE TypeOK'
  OBVIOUS
<1> USE DEF TypeOK
<1>1. ASSUME NEW d \in Docs, Inserter(d) PROVE TypeOK'
  BY <1>1 DEF Inserter, Insert, InsertFails, scheduleFlush
<1>2. CASE TimerFires
  BY <1>2 DEF TimerFires
<1>3. CASE TakeSignal
  BY <1>3 DEF TakeSignal
<1>4. CASE TakeTimer \/ TakeClose
  <2>1. Stored \in SUBSET Docs
    BY DEF Stored
  <2> QED BY <1>4, <2>1 DEF TakeTimer, TakeClose, BeginFlush
<1>5. CASE FlushEnds
  BY <1>5 DEF FlushEnds
<1>6. CASE Close \/ CloseReturns
  BY <1>6 DEF Close, CloseReturns
<1>7. CASE UNCHANGED vars
  BY <1>7 DEF vars
<1> QED BY <1>1, <1>2, <1>3, <1>4, <1>5, <1>6, <1>7 DEF Next, Loop

\* Type correctness, and the channel of signals keeps its bound.
THEOREM Typing == Spec => []TypeOK
BY TypesInit, TypesNext, PTL DEF Spec

CoverInv == Covered /\ PendingIsTimed /\ LeavesOnClose

LEMMA CoverInit == Init => CoverInv
BY DEF Init, CoverInv, Covered, PendingIsTimed, LeavesOnClose

LEMMA CoverNext == TypeOK /\ CoverInv /\ [Next]_vars => CoverInv'
<1> SUFFICES ASSUME TypeOK, CoverInv, [Next]_vars PROVE CoverInv'
  OBVIOUS
<1> USE DEF CoverInv, Covered, PendingIsTimed, LeavesOnClose, FlushDue, Tried
<1>1. ASSUME NEW d \in Docs, Inserter(d) PROVE CoverInv'
  <2>1. UNCHANGED <<loopVars, closer, flushVars>> /\ flushSignals' \in {flushSignals, 1}
    BY <1>1 DEF Inserter, Insert, InsertFails, scheduleFlush
  <2>2. closer = "open" => lpc \in {"select", "flushing"}
    BY DEF TypeOK
  <2>3. ASSUME NEW e \in Docs, ipc'[e] = "done"
        PROVE  (ipc[e] = "done" /\ flushSignals \in 0..1) \/ flushSignals' = 1
    BY <1>1, <2>3 DEF Inserter, Insert, InsertFails, scheduleFlush, TypeOK
  <2>4. Covered'
    BY <2>1, <2>2, <2>3
  <2> QED BY <2>1, <2>4
<1>2. CASE TimerFires
  BY <1>2 DEF TimerFires
<1>3. CASE TakeSignal
  BY <1>3 DEF TakeSignal
<1>4. CASE TakeTimer \/ TakeClose
  <2>1. \A d \in Docs : ipc[d] = "done" => d \in Stored
    BY DEF Stored
  <2>2. CASE pending
    BY <1>4, <2>1, <2>2 DEF TakeTimer, TakeClose, BeginFlush
  <2>3. CASE ~pending
    BY <1>4, <2>3 DEF TakeTimer, TakeClose
  <2> QED BY <2>2, <2>3
<1>5. CASE FlushEnds
  BY <1>5 DEF FlushEnds
<1>6. CASE Close \/ CloseReturns
  BY <1>6 DEF Close, CloseReturns
<1>7. CASE UNCHANGED vars
  BY <1>7 DEF vars
<1> QED BY <1>1, <1>2, <1>3, <1>4, <1>5, <1>6, <1>7 DEF Next, Loop

\* No document is forgotten, however many share one slot of the channel and
\* whenever they come: until Close is called each is in a flush or a flush is due that the loop
\* cannot miss, and from then on one can be lost only with its signal, left in the channel.
THEOREM NoneForgotten == Spec => []Covered
<1>1. CoverInv => Covered
  BY DEF CoverInv
<1> QED BY <1>1, CoverInit, CoverNext, Typing, PTL DEF Spec
=============================================================================
