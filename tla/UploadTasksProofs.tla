------------------------- MODULE UploadTasksProofs -------------------------
(***************************************************************************)
(* Proofs about UploadTasks, for any number of uploads, workers, clients   *)
(* and paths and any channel capacity; and about Chunking, for any         *)
(* document, size and overlap: what the loops of ChunkText have made and   *)
(* are at is always, without its white space, an initial part of the       *)
(* document.                                                               *)
(***************************************************************************)
EXTENDS MCUploadTasks, LoopLemmas, FiniteSetTheorems, SequenceTheorems, TLAPS

USE DEF handlerVars, managerVars, clockVars, statVars, taskVars, workerVars, clientVars

-----------------------------------------------------------------------------
(* Types. What a step of each kind of process leaves alone is split off    *)
(* first, so that each part of TypeOK is argued about only where it moves. *)

LEMMA HandlersTyped == TypeOK /\ [Next]_vars => HandlersOK'
<1> SUFFICES ASSUME TypeOK, [Next]_vars PROVE HandlersOK'
  OBVIOUS
<1> USE DEF TypeOK, HandlersOK, HandlerPCs, Before, Registered, Sent, Refused
<1>1. ASSUME NEW u \in Uploads, Handler(u) PROVE HandlersOK'
  BY <1>1 DEF Handler, Reject, BeginSave, EndSave, SaveFails, EnqueueClosed, Register,
              Send, SendPanics, QueueFull, Unregister, Refuse, Accept
<1>2. ASSUME NEW w \in Workers, Worker(w) PROVE HandlersOK'
  BY <1>2 DEF Worker, Receive, Exit, MarkRunning, MarkStarted, Index, MarkEnded,
              MarkOutcome, Release
<1>3. ASSUME NEW c \in Clients, Client(c) PROVE HandlersOK'
  BY <1>3 DEF Client, Poll, ReadState, ReadRest
<1>4. CASE Close \/ CloseReturns \/ UNCHANGED vars
  BY <1>4 DEF Close, CloseReturns, vars
<1>. QED
  BY <1>1, <1>2, <1>3, <1>4 DEF Next

LEMMA ManagerTyped == TypeOK /\ [Next]_vars => ManagerOK'
<1> SUFFICES ASSUME TypeOK, [Next]_vars PROVE ManagerOK'
  OBVIOUS
<1> USE ClockAssumption DEF TypeOK, ManagerOK
<1>1. ASSUME NEW u \in Uploads, Register(u) PROVE ManagerOK'
  BY <1>1 DEF Register, NewID, Put
<1>2. ASSUME NEW u \in Uploads, Handler(u), ~Register(u) PROVE ManagerOK'
  BY <1>2 DEF Handler, Reject, BeginSave, EndSave, SaveFails, EnqueueClosed,
              Send, SendPanics, QueueFull, Unregister, Refuse, Accept, Delete
<1>3. ASSUME NEW w \in Workers, Worker(w) PROVE ManagerOK'
  BY <1>3 DEF Worker, Receive, Exit, MarkRunning, MarkStarted, Index, MarkEnded,
              MarkOutcome, Release
<1>4. ASSUME NEW c \in Clients, Client(c) PROVE ManagerOK'
  BY <1>4 DEF Client, Poll, ReadState, ReadRest
<1>5. CASE Close \/ CloseReturns \/ UNCHANGED vars
  BY <1>5 DEF Close, CloseReturns, vars
<1>. QED
  BY <1>1, <1>2, <1>3, <1>4, <1>5 DEF Next

LEMMA QueueTyped == TypeOK /\ [Next]_vars => QueueOK'
<1> SUFFICES ASSUME TypeOK, [Next]_vars PROVE QueueOK'
  OBVIOUS
<1> USE QueueAssumption DEF TypeOK, QueueOK
<1>1. ASSUME NEW u \in Uploads, Send(u) PROVE QueueOK'
  BY <1>1 DEF Send
<1>2. ASSUME NEW u \in Uploads, Handler(u), ~Send(u) PROVE QueueOK'
  BY <1>2 DEF Handler, Reject, BeginSave, EndSave, SaveFails, EnqueueClosed,
              Register, SendPanics, QueueFull, Unregister, Refuse, Accept
<1>3. ASSUME NEW w \in Workers, Receive(w) PROVE QueueOK'
  BY <1>3 DEF Receive
<1>4. ASSUME NEW w \in Workers, Worker(w), ~Receive(w) PROVE QueueOK'
  BY <1>4 DEF Worker, Exit, MarkRunning, MarkStarted, Index, MarkEnded, MarkOutcome,
              Release
<1>5. ASSUME NEW c \in Clients, Client(c) PROVE QueueOK'
  BY <1>5 DEF Client, Poll, ReadState, ReadRest
<1>6. CASE Close \/ CloseReturns \/ UNCHANGED vars
  BY <1>6 DEF Close, CloseReturns, vars
<1>. QED
  BY <1>1, <1>2, <1>3, <1>4, <1>5, <1>6 DEF Next

LEMMA StatsTyped == TypeOK /\ [Next]_vars => StatsOK'
<1> SUFFICES ASSUME TypeOK, [Next]_vars PROVE StatsOK'
  OBVIOUS
<1> USE DEF TypeOK, StatsOK
<1>1. ASSUME NEW u \in Uploads, Handler(u) PROVE StatsOK'
  BY <1>1 DEF Handler, Reject, BeginSave, EndSave, SaveFails, EnqueueClosed, Register,
              Send, SendPanics, QueueFull, Unregister, Refuse, Accept
<1>2. ASSUME NEW w \in Workers, Worker(w) PROVE StatsOK'
  BY <1>2 DEF Worker, Receive, Exit, MarkRunning, MarkStarted, Index, MarkEnded,
              MarkOutcome, Release
<1>3. ASSUME NEW c \in Clients, Client(c) PROVE StatsOK'
  BY <1>3 DEF Client, Poll, ReadState, ReadRest
<1>4. CASE Close \/ CloseReturns \/ UNCHANGED vars
  BY <1>4 DEF Close, CloseReturns, vars
<1>. QED
  BY <1>1, <1>2, <1>3, <1>4 DEF Next

LEMMA TasksTyped == TypeOK /\ [Next]_vars => TasksOK'
<1> SUFFICES ASSUME TypeOK, [Next]_vars PROVE TasksOK'
  OBVIOUS
<1> USE DEF TypeOK, TasksOK, TaskStates
<1>1. ASSUME NEW u \in Uploads, Handler(u) PROVE TasksOK'
  BY <1>1 DEF Handler, Reject, BeginSave, EndSave, SaveFails, EnqueueClosed, Register,
              Send, SendPanics, QueueFull, Unregister, Refuse, Accept
<1>2. ASSUME NEW w \in Workers, Index(w) PROVE TasksOK'
  <2>1. held[w] \in Uploads
    BY <1>2 DEF Index, WorkersOK
  <2>2. disk[path[held[w]]] \in Uploads \cup {None, Torn}
    BY <2>1 DEF HandlersOK
  <2>. QED
    BY <1>2, <2>1, <2>2 DEF Index
<1>3. ASSUME NEW w \in Workers, Worker(w), ~Index(w) PROVE TasksOK'
  <2>1. CASE MarkRunning(w) \/ MarkOutcome(w)
    BY <2>1 DEF MarkRunning, MarkOutcome, WorkersOK
  <2>2. CASE MarkStarted(w) \/ MarkEnded(w)
    BY <2>2 DEF MarkStarted, MarkEnded, WorkersOK
  <2>3. CASE Release(w)
    BY <2>3 DEF Release, WorkersOK
  <2>4. CASE Receive(w) \/ Exit(w)
    BY <2>4 DEF Receive, Exit
  <2>. QED
    BY <1>3, <2>1, <2>2, <2>3, <2>4 DEF Worker
<1>4. ASSUME NEW c \in Clients, Client(c) PROVE TasksOK'
  BY <1>4 DEF Client, Poll, ReadState, ReadRest
<1>5. CASE Close \/ CloseReturns \/ UNCHANGED vars
  BY <1>5 DEF Close, CloseReturns, vars
<1>. QED
  BY <1>1, <1>2, <1>3, <1>4, <1>5 DEF Next

LEMMA WorkersTyped == TypeOK /\ [Next]_vars => WorkersOK'
<1> SUFFICES ASSUME TypeOK, [Next]_vars PROVE WorkersOK'
  OBVIOUS
<1> USE NoneAssumption DEF TypeOK, WorkersOK, WorkerPCs
<1>1. ASSUME NEW u \in Uploads, Handler(u) PROVE WorkersOK'
  BY <1>1 DEF Handler, Reject, BeginSave, EndSave, SaveFails, EnqueueClosed, Register,
              Send, SendPanics, QueueFull, Unregister, Refuse, Accept
<1>2. ASSUME NEW w \in Workers, Receive(w) PROVE WorkersOK'
  BY <1>2 DEF Receive, QueueOK
<1>3. ASSUME NEW w \in Workers, Worker(w), ~Receive(w) PROVE WorkersOK'
  BY <1>3 DEF Worker, Exit, MarkRunning, MarkStarted, Index, MarkEnded, MarkOutcome,
              Release
<1>4. ASSUME NEW c \in Clients, Client(c) PROVE WorkersOK'
  BY <1>4 DEF Client, Poll, ReadState, ReadRest
<1>5. CASE Close \/ CloseReturns \/ UNCHANGED vars
  BY <1>5 DEF Close, CloseReturns, vars
<1>. QED
  BY <1>1, <1>2, <1>3, <1>4, <1>5 DEF Next

LEMMA ClientsTyped == TypeOK /\ [Next]_vars => ClientsOK'
<1> SUFFICES ASSUME TypeOK, [Next]_vars PROVE ClientsOK'
  OBVIOUS
<1> USE NoneAssumption DEF TypeOK, ClientsOK
<1>1. ASSUME NEW u \in Uploads, Handler(u) PROVE ClientsOK'
  BY <1>1 DEF Handler, Reject, BeginSave, EndSave, SaveFails, EnqueueClosed, Register,
              Send, SendPanics, QueueFull, Unregister, Refuse, Accept
<1>2. ASSUME NEW w \in Workers, Worker(w) PROVE ClientsOK'
  BY <1>2 DEF Worker, Receive, Exit, MarkRunning, MarkStarted, Index, MarkEnded,
              MarkOutcome, Release
<1>3. ASSUME NEW c \in Clients, Poll(c) PROVE ClientsOK'
  BY <1>3 DEF Poll
<1>4. ASSUME NEW c \in Clients, ReadState(c) PROVE ClientsOK'
  <2>1. PICK s \in StateSeen(polls[c]) :
           snap' = [snap EXCEPT ![c] = [NoSnap EXCEPT !.state = s]]
    BY <1>4 DEF ReadState
  <2>2. s \in TaskStates \cup {"", Torn}
    <3>1. polls[c] \in Uploads
      BY <1>4 DEF ReadState
    <3>2. state[polls[c]] \in TaskStates
      BY <3>1 DEF TasksOK
    <3>. QED
      BY <2>1, <3>2 DEF StateSeen
  <2>3. [NoSnap EXCEPT !.state = s] \in Snapshots
    BY <2>2 DEF NoSnap, Snapshots
  <2>. QED
    BY <1>4, <2>1, <2>3 DEF ReadState
<1>5. ASSUME NEW c \in Clients, ReadRest(c) PROVE ClientsOK'
  <2>1. PICK e \in ErrorSeen(polls[c]) :
           snap' = [snap EXCEPT ![c] = [state |-> snap[c].state, error |-> e,
                                        started |-> started[polls[c]],
                                        ended |-> ended[polls[c]]]]
    BY <1>5 DEF ReadRest
  <2>2. e \in {"", "error", Torn}
    BY <1>5, <2>1 DEF ReadRest, ErrorSeen, TasksOK
  <2>3. [state |-> snap[c].state, error |-> e, started |-> started[polls[c]],
         ended |-> ended[polls[c]]] \in Snapshots
    BY <1>5, <2>2 DEF ReadRest, Snapshots, TasksOK
  <2>. QED
    BY <1>5, <2>1, <2>3 DEF ReadRest
<1>6. CASE Close \/ CloseReturns \/ UNCHANGED vars
  BY <1>6 DEF Close, CloseReturns, vars
<1>. QED
  BY <1>1, <1>2, <1>3, <1>4, <1>5, <1>6 DEF Next, Client

\* Every variable keeps its type.
THEOREM Typing == Spec => []TypeOK
<1>1. Init => TypeOK
  <2> SUFFICES ASSUME Init PROVE TypeOK
    OBVIOUS
  <2>1. HandlersOK /\ StatsOK
    BY DEF Init, HandlersOK, StatsOK, HandlerPCs, Before
  <2>4. ManagerOK
    <3>1. mu = None /\ clock = 0 /\ counter = 0 /\ id = [u \in Uploads |-> 0] /\ tasks = {}
      BY DEF Init
    <3>2. closed = FALSE /\ closer = "idle"
      BY DEF Init
    <3>3. closed \in BOOLEAN
      BY <3>2, Zenon
    <3>4. tasks \in SUBSET (Nat \X Uploads)
      BY <3>1
    <3>5. id \in [Uploads -> Nat]
      BY <3>1
    <3>. QED
      BY <3>1, <3>2, <3>3, <3>4, <3>5, ClockAssumption DEF ManagerOK
  <2>5. QueueOK
    <3>1. queue = <<>>
      BY DEF Init
    <3>. QED
      BY <3>1, QueueAssumption DEF QueueOK
  <2>2. TasksOK /\ WorkersOK
    BY DEF Init, TasksOK, WorkersOK, WorkerPCs, TaskStates
  <2>3. ClientsOK
    BY DEF Init, ClientsOK, Snapshots, NoSnap
  <2>. QED
    BY <2>1, <2>2, <2>3, <2>4, <2>5 DEF TypeOK
<1>2. TypeOK /\ [Next]_vars => TypeOK'
  BY HandlersTyped, ManagerTyped, QueueTyped, StatsTyped, TasksTyped, WorkersTyped,
     ClientsTyped
  DEF TypeOK
<1>. QED
  BY <1>1, <1>2, PTL DEF Spec

-----------------------------------------------------------------------------
(* One place per task.                                                     *)

\* A task that did not go into the channel is still as it was created.
LEMMA NotSentIsQueued ==
    ASSUME TypeOK, OnePlaceInv, NEW u \in Uploads, pc[u] \notin Sent
    PROVE  state[u] = "queued" /\ ~InQueue(u) /\ ~IsHeld(u)
<1>1. state[u] \in TaskStates
  BY DEF TypeOK, TasksOK
<1>2. ~InQueue(u) /\ ~IsHeld(u) /\ state[u] \notin Terminal
  BY DEF OnePlaceInv, OnePlacePerTask
<1>3. state[u] # "running"
  BY <1>2 DEF OnePlaceInv, StateFollowsWorker
<1>. QED
  BY <1>1, <1>2, <1>3 DEF TaskStates, Terminal

LEMMA OnePlaceHandlers ==
    ASSUME TypeOK, OnePlaceInv, NEW u \in Uploads, Handler(u)
    PROVE  OnePlaceInv'
<1> USE DEF OnePlaceInv, OnePlacePerTask, StateFollowsWorker, InQueue, IsHeld
<1>1. CASE Send(u)
  <2>1. queue' = Append(queue, u) /\ pc' = [pc EXCEPT ![u] = "sent"]
        /\ UNCHANGED <<held, wpc, state>> /\ pc[u] = "registered"
    BY <1>1 DEF Send
  <2>2. ~InQueue(u) /\ ~IsHeld(u) /\ state[u] = "queued"
    BY <2>1, NotSentIsQueued DEF Sent
  <2>3. queue \in Seq(Uploads)
    BY DEF TypeOK, QueueOK
  <2>4. \A v \in Uploads : InQueue(v)' <=> InQueue(v) \/ v = u
    BY <2>1, <2>3
  <2>5. \A i, j \in 1..Len(queue') : queue'[i] = queue'[j] => i = j
    BY <2>1, <2>2, <2>3
  <2>6. \A v \in Uploads : pc'[v] \in Sent <=> pc[v] \in Sent \/ v = u
    BY <2>1 DEF Sent, TypeOK, HandlersOK
  <2>. QED
    BY <2>1, <2>2, <2>4, <2>5, <2>6
<1>2. CASE Register(u)
  <2>1. state[u] = "queued"
    BY <1>2, NotSentIsQueued DEF Register, Sent
  <2>2. state' = state
    <3>1. state \in [Uploads -> TaskStates] /\ state' = [state EXCEPT ![u] = "queued"]
      BY <1>2 DEF Register, TypeOK, TasksOK
    <3>. QED
      BY <2>1, <3>1
  <2>3. \A v \in Uploads : pc'[v] \in Sent <=> pc[v] \in Sent
    BY <1>2 DEF Register, Sent, TypeOK, HandlersOK
  <2>. QED
    BY <1>2, <2>2, <2>3 DEF Register
<1>3. CASE Accept(u)
  <2>1. \A v \in Uploads : pc'[v] \in Sent <=> pc[v] \in Sent
    BY <1>3 DEF Accept, Sent, TypeOK, HandlersOK
  <2>. QED
    BY <1>3, <2>1 DEF Accept
<1>4. CASE Handler(u) /\ ~Send(u) /\ ~Register(u) /\ ~Accept(u)
  <2>1. \A v \in Uploads : pc'[v] \in Sent <=> pc[v] \in Sent
    BY <1>4 DEF Handler, Reject, BeginSave, EndSave, SaveFails, EnqueueClosed, SendPanics,
                QueueFull, Unregister, Refuse, Sent, TypeOK, HandlersOK
  <2>2. UNCHANGED <<queue, held, wpc, state>>
    BY <1>4 DEF Handler, Reject, BeginSave, EndSave, SaveFails, EnqueueClosed, SendPanics,
                QueueFull, Unregister, Refuse
  <2>. QED
    BY <2>1, <2>2
<1>. QED
  BY <1>1, <1>2, <1>3, <1>4

\* A worker between the receive and the release has a task in its hands.
LEMMA HeldIsUpload ==
    ASSUME TypeOK, NEW w \in Workers, wpc[w] \notin {"recv", "exited"}
    PROVE  held[w] \in Uploads
  BY DEF TypeOK, WorkersOK

LEMMA OnePlaceWorkers ==
    ASSUME TypeOK, OnePlaceInv, NEW w \in Workers, Worker(w)
    PROVE  OnePlaceInv'
<1> USE DEF OnePlaceInv, OnePlacePerTask, StateFollowsWorker, InQueue, IsHeld
<1>1. CASE Receive(w)
  <2> DEFINE u == queue[1]
  <2>1. /\ queue # <<>> /\ queue \in Seq(Uploads) /\ u \in Uploads
        /\ held' = [held EXCEPT ![w] = u] /\ queue' = Tail(queue)
        /\ wpc' = [wpc EXCEPT ![w] = "claimed"] /\ UNCHANGED <<pc, state>>
    BY <1>1 DEF Receive, TypeOK, QueueOK
  <2>2. InQueue(u) /\ ~IsHeld(u) /\ state[u] = "queued"
    BY <2>1
  <2>3. \A v \in Uploads : InQueue(v)' <=> InQueue(v) /\ v # u
    <3>1. ASSUME NEW v \in Uploads, InQueue(v)' PROVE InQueue(v) /\ v # u
      BY <2>1, <3>1
    <3>2. ASSUME NEW v \in Uploads, InQueue(v), v # u PROVE InQueue(v)'
      <4>1. PICK i \in 1..Len(queue) : queue[i] = v
        BY <3>2
      <4>2. i - 1 \in 1..Len(queue') /\ queue'[i - 1] = v
        BY <2>1, <3>2, <4>1
      <4>. QED
        BY <4>2
    <3>. QED
      BY <3>1, <3>2
  <2>4. \A i, j \in 1..Len(queue') : queue'[i] = queue'[j] => i = j
    BY <2>1
  <2>5. held[w] = None /\ held \in [Workers -> Uploads \cup {None}]
        /\ wpc \in [Workers -> WorkerPCs]
    BY <1>1 DEF Receive, TypeOK, WorkersOK
  <2>6. \A v \in Uploads : IsHeld(v)' <=> IsHeld(v) \/ v = u
    BY <2>1, <2>5, NoneAssumption
  <2>7. \A v, x \in Workers : held'[v] = held'[x] /\ held'[v] # None => v = x
    BY <2>1, <2>2, <2>5
  <2>8. StateFollowsWorker'
    BY <2>1, <2>2, <2>5, <2>6
  <2>. QED
    BY <2>1, <2>2, <2>3, <2>4, <2>6, <2>7, <2>8
<1>2. CASE Exit(w)
  BY <1>2 DEF Exit, TypeOK, WorkersOK
<1>3. CASE MarkRunning(w)
  <2>1. /\ wpc[w] = "claimed" /\ wpc' = [wpc EXCEPT ![w] = "marking"]
        /\ state' = [state EXCEPT ![held[w]] = "running"]
        /\ UNCHANGED <<pc, queue, held>>
    BY <1>3 DEF MarkRunning
  <2>2. held[w] \in Uploads /\ state \in [Uploads -> TaskStates] /\ wpc \in [Workers -> WorkerPCs]
    <3>1. held[w] \in Uploads
      BY <2>1, HeldIsUpload
    <3>. QED
      BY <3>1 DEF TypeOK, WorkersOK, TasksOK
  <2>3. state[held[w]] = "queued"
    BY <2>1
  <2>4. StateFollowsWorker'
    BY <2>1, <2>2, NoneAssumption
  <2>5. \A v \in Uploads : state'[v] \in Terminal <=> state[v] \in Terminal
    BY <2>1, <2>2, <2>3 DEF Terminal
  <2>6. \A v \in Uploads : InQueue(v)' => ~IsHeld(v)' /\ state'[v] = "queued"
    BY <2>1, <2>2
  <2>. QED
    BY <2>1, <2>4, <2>5, <2>6
<1>4. CASE MarkStarted(w) \/ Index(w) \/ MarkEnded(w)
  <2>1. UNCHANGED <<pc, queue, held, state>>
    BY <1>4 DEF MarkStarted, Index, MarkEnded
  <2>2. StateFollowsWorker'
    BY <1>4, <2>1 DEF MarkStarted, Index, MarkEnded, TypeOK, WorkersOK
  <2>. QED
    BY <2>1, <2>2
<1>5. CASE MarkOutcome(w)
  <2>1. /\ wpc[w] = "ending" /\ wpc' = [wpc EXCEPT ![w] = "outcome"]
        /\ state' = [state EXCEPT ![held[w]] = IF bad[w] THEN "failed" ELSE "succeeded"]
        /\ UNCHANGED <<pc, queue, held>>
    BY <1>5 DEF MarkOutcome
  <2>2. held[w] \in Uploads /\ state \in [Uploads -> TaskStates] /\ wpc \in [Workers -> WorkerPCs]
    <3>1. held[w] \in Uploads
      BY <2>1, HeldIsUpload
    <3>. QED
      BY <3>1 DEF TypeOK, WorkersOK, TasksOK
  <2>3. state[held[w]] = "running" /\ state'[held[w]] \in Terminal
    BY <2>1, <2>2 DEF Terminal
  <2>4. StateFollowsWorker'
    BY <2>1, <2>2, <2>3, NoneAssumption
  <2>5. \A v \in Uploads : pc[v] \in Sent <=> InQueue(v) \/ IsHeld(v) \/ state'[v] \in Terminal
    BY <2>1, <2>2, <2>3
  <2>6. \A v \in Uploads : InQueue(v)' => ~IsHeld(v)' /\ state'[v] = "queued"
    BY <2>1, <2>2
  <2>. QED
    BY <2>1, <2>4, <2>5, <2>6
<1>6. CASE Release(w)
  <2>1. /\ wpc[w] = "outcome" /\ wpc' = [wpc EXCEPT ![w] = "recv"]
        /\ held' = [held EXCEPT ![w] = None]
        /\ UNCHANGED <<pc, queue, state>>
    BY <1>6 DEF Release
  <2>2. held[w] \in Uploads /\ held \in [Workers -> Uploads \cup {None}]
        /\ wpc \in [Workers -> WorkerPCs]
    BY <2>1 DEF TypeOK, WorkersOK
  <2>3. state[held[w]] \in Terminal
    BY <2>1
  <2>4. \A v \in Uploads : IsHeld(v)' <=> IsHeld(v) /\ v # held[w]
    BY <2>1, <2>2, NoneAssumption
  <2>5. StateFollowsWorker'
    BY <2>1, <2>2, <2>3, <2>4 DEF Terminal
  <2>6. \A v \in Uploads : pc[v] \in Sent <=> InQueue(v) \/ IsHeld(v)' \/ state[v] \in Terminal
    BY <2>2, <2>3, <2>4
  <2>. QED
    BY <2>1, <2>2, <2>4, <2>5, <2>6
<1>. QED
  BY <1>1, <1>2, <1>3, <1>4, <1>5, <1>6 DEF Worker

LEMMA OnePlaceInductive == Spec => []OnePlaceInv
<1>1. Init => OnePlaceInv
  <2> SUFFICES ASSUME Init PROVE OnePlaceInv
    OBVIOUS
  <2>1. /\ pc = [u \in Uploads |-> "idle"] /\ queue = <<>> /\ state = [u \in Uploads |-> "queued"]
        /\ wpc = [w \in Workers |-> "recv"] /\ held = [w \in Workers |-> None]
    BY DEF Init
  <2>2. \A u \in Uploads : ~InQueue(u) /\ ~IsHeld(u)
    BY <2>1, NoneAssumption DEF InQueue, IsHeld
  <2>. QED
    BY <2>1, <2>2 DEF OnePlaceInv, OnePlacePerTask, StateFollowsWorker, Sent, Terminal
<1>2. TypeOK /\ OnePlaceInv /\ [Next]_vars => OnePlaceInv'
  <2> SUFFICES ASSUME TypeOK, OnePlaceInv, [Next]_vars PROVE OnePlaceInv'
    OBVIOUS
  <2>1. ASSUME NEW u \in Uploads, Handler(u) PROVE OnePlaceInv'
    BY <2>1, OnePlaceHandlers
  <2>2. ASSUME NEW w \in Workers, Worker(w) PROVE OnePlaceInv'
    BY <2>2, OnePlaceWorkers
  <2>3. CASE (\E c \in Clients : Client(c)) \/ Close \/ CloseReturns \/ UNCHANGED vars
    <3>1. UNCHANGED <<pc, queue, held, wpc, state>>
      BY <2>3 DEF Client, Poll, ReadState, ReadRest, Close, CloseReturns, vars
    <3>. QED
      BY <3>1 DEF OnePlaceInv, OnePlacePerTask, StateFollowsWorker, InQueue, IsHeld
  <2>. QED
    BY <2>1, <2>2, <2>3 DEF Next
<1>. QED
  BY <1>1, <1>2, Typing, PTL DEF Spec

\* No task is lost, duplicated, or run by two workers, and no refused one is run.
THEOREM OnePlace == Spec => []OnePlacePerTask
<1>1. OnePlaceInv => OnePlacePerTask
  BY DEF OnePlaceInv
<1>. QED
  BY <1>1, OnePlaceInductive, PTL

-----------------------------------------------------------------------------
(* Ids.                                                                    *)

LEMMA IdsHandlers ==
    ASSUME TypeOK, IdsInv, NEW u \in Uploads, Handler(u)
    PROVE  IdsInv'
<1>0. pc \in [Uploads -> HandlerPCs] /\ id \in [Uploads -> Nat] /\ counter \in Nat
      /\ clock \in Nat
  BY ClockAssumption DEF TypeOK, HandlersOK, ManagerOK
<1>1. CASE Register(u)
  <2>1. PICK t \in clock..MaxClock :
           /\ clock' = t /\ counter' = counter + 1
           /\ id' = [id EXCEPT ![u] = NewID(t)] /\ tasks' = Put(NewID(t), u)
           /\ pc[u] = "saved" /\ pc' = [pc EXCEPT ![u] = "registered"]
    BY <1>1 DEF Register
  <2>2. t \in Nat /\ clock <= t
    BY <1>0, <2>1, ClockAssumption
  <2>3. u \notin InMap /\ InMap' = InMap \cup {u}
    BY <1>0, <2>1 DEF InMap, Registered, Sent
  <2>4. \A v \in InMap : id[v] < NewID(t) /\ id'[v] = id[v]
    BY <1>0, <2>1, <2>2, <2>3 DEF IdsInv, NewID, InMap
  <2>5. id'[u] = NewID(t) /\ NewID(t) <= clock' + counter'
    BY <1>0, <2>1, <2>2 DEF NewID
  <2>6. tasks' = {<<id'[v], v>> : v \in InMap'}
    <3>1. tasks' = tasks \cup {<<NewID(t), u>>}
      BY <1>0, <2>1, <2>4 DEF Put, IdsInv, InMap
    <3>2. tasks = {<<id'[v], v>> : v \in InMap}
      BY <2>4 DEF IdsInv
    <3>. QED
      BY <2>3, <2>5, <3>1, <3>2
  <2>7. \A v \in InMap' : id'[v] <= clock' + counter'
    BY <1>0, <2>1, <2>2, <2>3, <2>4, <2>5 DEF IdsInv, InMap
  <2>8. \A v, x \in InMap' : id'[v] = id'[x] => v = x
    BY <1>0, <2>2, <2>3, <2>4, <2>5 DEF IdsInv, InMap, NewID
  <2>. QED
    BY <2>6, <2>7, <2>8 DEF IdsInv
<1>2. CASE Unregister(u)
  <2>1. /\ pc[u] = "full" /\ pc' = [pc EXCEPT ![u] = "refusing"]
        /\ tasks' = Delete(id[u]) /\ UNCHANGED <<id, clock, counter>>
    BY <1>2 DEF Unregister
  <2>2. u \in InMap /\ InMap' = InMap \ {u}
    BY <1>0, <2>1 DEF InMap, Registered, Sent
  <2>3. tasks' = {<<id[v], v>> : v \in InMap'}
    BY <2>1, <2>2 DEF IdsInv, Delete
  <2>. QED
    BY <2>1, <2>2, <2>3 DEF IdsInv
<1>3. CASE Handler(u) /\ ~Register(u) /\ ~Unregister(u)
  <2>1. InMap' = InMap
    BY <1>0, <1>3 DEF Handler, Reject, BeginSave, EndSave, SaveFails, EnqueueClosed, Send,
                      SendPanics, QueueFull, Refuse, Accept, InMap, Registered, Sent
  <2>2. UNCHANGED <<id, tasks, clock, counter>>
    BY <1>3 DEF Handler, Reject, BeginSave, EndSave, SaveFails, EnqueueClosed, Send,
                SendPanics, QueueFull, Refuse, Accept
  <2>. QED
    BY <2>1, <2>2 DEF IdsInv
<1>. QED
  BY <1>1, <1>2, <1>3

\* Ids are never given twice and an accepted task stays in the map, so its client
\* always finds it, and nothing else, under its id.
THEOREM AlwaysFound == Spec => []StatusFound
<1>1. Init => IdsInv
  <2> SUFFICES ASSUME Init PROVE IdsInv
    OBVIOUS
  <2>1. pc = [u \in Uploads |-> "idle"] /\ tasks = {}
    BY DEF Init
  <2>2. InMap = {}
    BY <2>1 DEF InMap, Registered, Sent
  <2>. QED
    BY <2>1, <2>2 DEF IdsInv
<1>2. TypeOK /\ IdsInv /\ [Next]_vars => IdsInv'
  <2> SUFFICES ASSUME TypeOK, IdsInv, [Next]_vars PROVE IdsInv'
    OBVIOUS
  <2>1. ASSUME NEW u \in Uploads, Handler(u) PROVE IdsInv'
    BY <2>1, IdsHandlers
  <2>2. CASE \/ \E w \in Workers : Worker(w)
             \/ \E c \in Clients : Client(c)
             \/ Close \/ CloseReturns \/ UNCHANGED vars
    <3>1. UNCHANGED <<pc, id, tasks, clock, counter>>
      BY <2>2 DEF Worker, Receive, Exit, MarkRunning, MarkStarted, Index, MarkEnded,
                  MarkOutcome, Release, Client, Poll, ReadState, ReadRest, Close,
                  CloseReturns, vars
    <3>. QED
      BY <3>1 DEF IdsInv, InMap
  <2>. QED
    BY <2>1, <2>2 DEF Next
<1>3. IdsInv => StatusFound
  <2> SUFFICES ASSUME IdsInv, NEW u \in Uploads, pc[u] \in Sent PROVE Lookup(id[u]) = {u}
    BY DEF StatusFound
  <2>1. u \in InMap
    BY DEF InMap
  <2>2. \A t \in tasks : t[1] = id[u] <=> t = <<id[u], u>>
    BY <2>1 DEF IdsInv
  <2>3. <<id[u], u>> \in tasks
    BY <2>1 DEF IdsInv
  <2>. QED
    BY <2>2, <2>3 DEF Lookup
<1>. QED
  BY <1>1, <1>2, <1>3, Typing, PTL DEF Spec

-----------------------------------------------------------------------------
(* Shutdown.                                                               *)

LEMMA DrainInductive == Spec => []DrainInv
<1>1. Init => DrainInv
  BY DEF Init, DrainInv
<1>2. TypeOK /\ DrainInv /\ [Next]_vars => DrainInv'
  <2> SUFFICES ASSUME TypeOK, DrainInv, [Next]_vars PROVE DrainInv'
    OBVIOUS
  <2>0. wpc \in [Workers -> WorkerPCs]
    BY DEF TypeOK, WorkersOK
  <2>1. ASSUME NEW u \in Uploads, Handler(u) PROVE DrainInv'
    <3>1. UNCHANGED <<closed, closer, wpc>> /\ (closed => UNCHANGED queue)
      BY <2>1 DEF Handler, Reject, BeginSave, EndSave, SaveFails, EnqueueClosed, Register,
                  Send, SendPanics, QueueFull, Unregister, Refuse, Accept
    <3>. QED
      BY <3>1 DEF DrainInv
  <2>2. ASSUME NEW w \in Workers, Worker(w) PROVE DrainInv'
    <3>1. CASE Receive(w)
      <4>1. queue # <<>> /\ wpc[w] = "recv" /\ UNCHANGED <<closed, closer>>
            /\ wpc' = [wpc EXCEPT ![w] = "claimed"]
        BY <3>1 DEF Receive
      <4>2. \A v \in Workers : wpc[v] # "exited"
        BY <4>1 DEF DrainInv
      <4>. QED
        BY <2>0, <4>1, <4>2 DEF DrainInv
    <3>2. CASE Exit(w)
      BY <2>0, <3>2 DEF Exit, DrainInv
    <3>3. CASE Worker(w) /\ ~Receive(w) /\ ~Exit(w)
      <4>1. wpc[w] # "exited" /\ wpc'[w] # "exited" /\ UNCHANGED <<queue, closed, closer>>
            /\ \A v \in Workers \ {w} : wpc'[v] = wpc[v]
        BY <2>0, <3>3 DEF Worker, MarkRunning, MarkStarted, Index, MarkEnded, MarkOutcome,
                          Release
      <4>. QED
        BY <4>1 DEF DrainInv
    <3>. QED
      BY <2>2, <3>1, <3>2, <3>3
  <2>3. CASE Close
    BY <2>3 DEF Close, DrainInv
  <2>4. CASE CloseReturns
    BY <2>4 DEF CloseReturns, DrainInv
  <2>5. CASE (\E c \in Clients : Client(c)) \/ UNCHANGED vars
    BY <2>5 DEF Client, Poll, ReadState, ReadRest, vars, DrainInv
  <2>. QED
    BY <2>1, <2>2, <2>3, <2>4, <2>5 DEF Next
<1>. QED
  BY <1>1, <1>2, Typing, PTL DEF Spec

\* When Close has returned, no accepted upload is left behind.
THEOREM Drained == Spec => []DrainedOnClose
<1>1. TypeOK /\ OnePlacePerTask /\ DrainInv => DrainedOnClose
  <2> SUFFICES ASSUME TypeOK, OnePlacePerTask, DrainInv, closer = "returned",
                      NEW u \in Uploads, pc[u] \in Sent
               PROVE  state[u] \in Terminal
    BY DEF DrainedOnClose
  <2>1. \A w \in Workers : wpc[w] = "exited"
    BY DEF DrainInv
  <2>2. ~IsHeld(u)
    BY <2>1, NoneAssumption DEF IsHeld, TypeOK, WorkersOK
  <2>3. queue = <<>>
    BY <2>1, WorkersAssumption DEF DrainInv
  <2>4. ~InQueue(u)
    BY <2>3 DEF InQueue
  <2>. QED
    BY <2>2, <2>4 DEF OnePlacePerTask
<1>. QED
  BY <1>1, Typing, OnePlace, DrainInductive, PTL

-----------------------------------------------------------------------------
(* The race between a worker and a snapshot.                               *)

\* A snapshot that shows a finished task shows when it finished, although it is
\* taken without the lock.
THEOREM SnapshotsHaveEnd == Spec => []FinishedHasEnd
<1>1. Init => EndInv
  <2> SUFFICES ASSUME Init PROVE EndInv
    OBVIOUS
  <2>1. /\ state = [u \in Uploads |-> "queued"] /\ wpc = [w \in Workers |-> "recv"]
        /\ client = [c \in Clients |-> "idle"] /\ snap = [c \in Clients |-> NoSnap]
    BY DEF Init
  <2>2. NoSnap.state \notin Terminal
    BY DEF NoSnap, Terminal
  <2>. QED
    BY <2>1, <2>2 DEF EndInv, FinishedHasEnd, Terminal
<1>2. TypeOK /\ EndInv /\ [Next]_vars => EndInv'
  <2> SUFFICES ASSUME TypeOK, EndInv, [Next]_vars PROVE EndInv'
    OBVIOUS
  <2>1. ASSUME NEW u \in Uploads, Handler(u) PROVE EndInv'
    <3>1. UNCHANGED <<ended, wpc, held, clientVars>>
      BY <2>1 DEF Handler, Reject, BeginSave, EndSave, SaveFails, EnqueueClosed, Register,
                  Send, SendPanics, QueueFull, Unregister, Refuse, Accept
    <3>2. \A v \in Uploads : state'[v] \in Terminal => state[v] \in Terminal
      BY <2>1 DEF Handler, Reject, BeginSave, EndSave, SaveFails, EnqueueClosed, Register,
                  Send, SendPanics, QueueFull, Unregister, Refuse, Accept, Terminal,
                  TypeOK, TasksOK
    <3>. QED
      BY <3>1, <3>2 DEF EndInv, FinishedHasEnd
  <2>2. ASSUME NEW w \in Workers, Worker(w) PROVE EndInv'
    <3>1. UNCHANGED clientVars
      BY <2>2 DEF Worker, Receive, Exit, MarkRunning, MarkStarted, Index, MarkEnded,
                  MarkOutcome, Release
    <3>2. \A v \in Uploads : ended[v] => ended'[v]
      BY <2>2 DEF Worker, Receive, Exit, MarkRunning, MarkStarted, Index, MarkEnded,
                  MarkOutcome, Release, TypeOK, TasksOK
    <3>3. \A v \in Uploads : state'[v] \in Terminal => ended'[v]
      BY <2>2, <3>2 DEF Worker, Receive, Exit, MarkRunning, MarkStarted, Index, MarkEnded,
                  MarkOutcome, Release, TypeOK, TasksOK, WorkersOK, EndInv, Terminal
    <3>4. \A v \in Workers : wpc'[v] \in {"ending", "outcome"} => ended'[held'[v]]
      <4> USE DEF TypeOK, TasksOK, WorkersOK
      <4>1. CASE MarkEnded(w)
        <5>1. held[w] \in Uploads
          BY <4>1, HeldIsUpload DEF MarkEnded
        <5>. QED
          BY <3>2, <4>1, <5>1 DEF MarkEnded, EndInv
      <4>2. CASE MarkOutcome(w)
        BY <4>2 DEF MarkOutcome, EndInv
      <4>3. CASE Worker(w) /\ ~MarkEnded(w) /\ ~MarkOutcome(w)
        <5>1. UNCHANGED ended /\ wpc'[w] \notin {"ending", "outcome"}
              /\ \A v \in Workers \ {w} : wpc'[v] = wpc[v] /\ held'[v] = held[v]
          BY <4>3 DEF Worker, Receive, Exit, MarkRunning, MarkStarted, Index, Release
        <5>. QED
          BY <5>1 DEF EndInv
      <4>. QED
        BY <2>2, <4>1, <4>2, <4>3
    <3>. QED
      BY <3>1, <3>2, <3>3, <3>4 DEF EndInv, FinishedHasEnd, TypeOK, ClientsOK
  <2>3. ASSUME NEW c \in Clients, Client(c) PROVE EndInv'
    <3>1. UNCHANGED <<state, ended, wpc, held>>
      BY <2>3 DEF Client, Poll, ReadState, ReadRest
    <3>2. CASE Poll(c)
      BY <3>1, <3>2 DEF Poll, EndInv, FinishedHasEnd, TypeOK, ClientsOK
    <3>3. CASE ReadState(c)
      <4>1. PICK s \in StateSeen(polls[c]) :
               snap' = [snap EXCEPT ![c] = [NoSnap EXCEPT !.state = s]]
        BY <3>3 DEF ReadState
      <4>2. client[c] = "state" /\ client' = [client EXCEPT ![c] = "rest"] /\ UNCHANGED polls
        BY <3>3 DEF ReadState
      <4>3. snap'[c].state = s
        BY <4>1 DEF TypeOK, ClientsOK, NoSnap
      <4>4. s \in Terminal => s = state[polls[c]]
        BY <4>1 DEF StateSeen, Terminal, Torn
      <4>5. polls[c] \in Uploads
        BY <4>2 DEF TypeOK, ClientsOK
      <4>6. s \in Terminal => ended[polls[c]]
        BY <4>4, <4>5 DEF EndInv
      <4>7. \A d \in Clients \ {c} : snap'[d] = snap[d] /\ client'[d] = client[d]
        BY <4>1, <4>2 DEF TypeOK, ClientsOK
      <4>8. client'[c] = "rest"
        BY <4>2 DEF TypeOK, ClientsOK
      <4>. QED
        BY <3>1, <4>2, <4>3, <4>6, <4>7, <4>8 DEF EndInv, FinishedHasEnd
    <3>4. CASE ReadRest(c)
      BY <3>1, <3>4 DEF ReadRest, EndInv, FinishedHasEnd, TypeOK, ClientsOK
    <3>. QED
      BY <2>3, <3>2, <3>3, <3>4 DEF Client
  <2>4. CASE Close \/ CloseReturns \/ UNCHANGED vars
    BY <2>4 DEF Close, CloseReturns, vars, EndInv, FinishedHasEnd
  <2>. QED
    BY <2>1, <2>2, <2>3, <2>4 DEF Next
<1>3. EndInv => FinishedHasEnd
  BY DEF EndInv
<1>. QED
  BY <1>1, <1>2, <1>3, Typing, PTL DEF Spec

-----------------------------------------------------------------------------
(* What a client sees of a task only moves forward.                        *)

\* A task itself does: no step takes it back, and the end is the end.
LEMMA TaskMovesOnwards ==
    ASSUME TypeOK, OnePlaceInv, [Next]_vars, NEW u \in Uploads
    PROVE  Onwards(state[u], state'[u])
<1> USE DEF Onwards
<1>1. ASSUME NEW v \in Uploads, Handler(v) PROVE Onwards(state[u], state'[u])
  <2>1. CASE Register(v)
    <3>1. state[v] = "queued"
      BY <2>1, NotSentIsQueued DEF Register, Sent
    <3>. QED
      BY <2>1, <3>1 DEF Register, TypeOK, TasksOK
  <2>2. CASE ~Register(v)
    BY <1>1, <2>2 DEF Handler, Reject, BeginSave, EndSave, SaveFails, EnqueueClosed, Send,
                      SendPanics, QueueFull, Unregister, Refuse, Accept
  <2>. QED
    BY <2>1, <2>2
<1>2. ASSUME NEW w \in Workers, Worker(w) PROVE Onwards(state[u], state'[u])
  <2>1. CASE MarkRunning(w)
    <3>1. state[held[w]] = "queued" /\ state' = [state EXCEPT ![held[w]] = "running"]
      BY <2>1 DEF MarkRunning, OnePlaceInv, StateFollowsWorker
    <3>. QED
      BY <3>1 DEF TypeOK, TasksOK
  <2>2. CASE MarkOutcome(w)
    <3>1. /\ state[held[w]] = "running"
          /\ state' = [state EXCEPT ![held[w]] = IF bad[w] THEN "failed" ELSE "succeeded"]
      BY <2>2 DEF MarkOutcome, OnePlaceInv, StateFollowsWorker
    <3>. QED
      BY <3>1 DEF TypeOK, TasksOK, Terminal
  <2>3. CASE ~MarkRunning(w) /\ ~MarkOutcome(w)
    BY <1>2, <2>3 DEF Worker, Receive, Exit, MarkStarted, Index, MarkEnded, Release
  <2>. QED
    BY <2>1, <2>2, <2>3
<1>3. CASE (\E c \in Clients : Client(c)) \/ Close \/ CloseReturns \/ UNCHANGED vars
  BY <1>3 DEF Client, Poll, ReadState, ReadRest, Close, CloseReturns, vars
<1>. QED
  BY <1>1, <1>2, <1>3 DEF Next

LEMMA OnwardsTransitive ==
    ASSUME NEW r, NEW s, NEW t, Onwards(r, s), Onwards(s, t)
    PROVE  Onwards(r, t)
  BY DEF Onwards, Terminal

\* Whoever asks goes on asking for the same upload, and a new answer is the old one,
\* a half-stored state, or the state of the task at that moment.
LEMMA NewAnswers ==
    ASSUME TypeOK, [Next]_vars, NEW c \in Clients
    PROVE  /\ polls[c] # None => polls'[c] = polls[c]
           /\ \/ snap'[c].state = snap[c].state
              \/ snap'[c].state = Torn
              \/ /\ polls[c] # None /\ state' = state
                 /\ snap'[c].state = state[polls[c]]
<1> USE DEF TypeOK, ClientsOK
<1>1. ASSUME NEW d \in Clients, Poll(d) PROVE polls[c] # None => polls'[c] = polls[c]
  BY <1>1 DEF Poll
<1>2. ASSUME NEW d \in Clients, ReadState(d)
      PROVE  \/ snap'[c].state = snap[c].state
             \/ snap'[c].state = Torn
             \/ /\ polls[c] # None /\ state' = state
                /\ snap'[c].state = state[polls[c]]
  <2>1. PICK s \in StateSeen(polls[d]) :
           snap' = [snap EXCEPT ![d] = [NoSnap EXCEPT !.state = s]]
    BY <1>2 DEF ReadState
  <2>2. client[d] = "state" /\ state' = state
    BY <1>2 DEF ReadState
  <2>3. polls[d] # None
    BY <2>2
  <2>4. s = state[polls[d]] \/ s = Torn
    BY <2>1 DEF StateSeen
  <2>5. [NoSnap EXCEPT !.state = s].state = s
    BY DEF NoSnap
  <2>6. CASE c = d
    BY <2>1, <2>2, <2>3, <2>4, <2>5, <2>6
  <2>7. CASE c # d
    BY <2>1, <2>7
  <2>. QED
    BY <2>6, <2>7
<1>3. ASSUME NEW d \in Clients, ReadRest(d) PROVE snap'[c].state = snap[c].state
  BY <1>3 DEF ReadRest
<1>4. ASSUME ~ \E d \in Clients : ReadState(d) \/ ReadRest(d)
      PROVE  snap'[c].state = snap[c].state
  <2>1. snap' = snap
    BY <1>4 DEF Next, Client, Poll, Handler, Reject, BeginSave, EndSave, SaveFails,
                EnqueueClosed, Register, Send, SendPanics, QueueFull, Unregister, Refuse,
                Accept, Worker, Receive, Exit, MarkRunning, MarkStarted, Index, MarkEnded,
                MarkOutcome, Release, Close, CloseReturns, vars
  <2>. QED
    BY <2>1
<1>5. ASSUME ~ \E d \in Clients : Poll(d)
      PROVE  polls'[c] = polls[c]
  <2>1. polls' = polls
    BY <1>5 DEF Next, Client, ReadState, ReadRest, Handler, Reject, BeginSave, EndSave,
                SaveFails, EnqueueClosed, Register, Send, SendPanics, QueueFull, Unregister,
                Refuse, Accept, Worker, Receive, Exit, MarkRunning, MarkStarted, Index,
                MarkEnded, MarkOutcome, Release, Close, CloseReturns, vars
  <2>. QED
    BY <2>1
<1>6. polls[c] # None => polls'[c] = polls[c]
  BY <1>1, <1>5
<1>7. \/ snap'[c].state = snap[c].state
      \/ snap'[c].state = Torn
      \/ /\ polls[c] # None /\ state' = state
         /\ snap'[c].state = state[polls[c]]
  BY <1>2, <1>3, <1>4
<1>. QED
  BY <1>6, <1>7

LEMMA SeenInductive == Spec => []SeenInv
<1>1. Init => SeenInv
  <2> SUFFICES ASSUME Init, NEW c \in Clients PROVE snap[c].state \notin TaskStates
    BY DEF SeenInv
  <2>1. snap[c].state = ""
    BY DEF Init, NoSnap
  <2>. QED
    BY <2>1 DEF TaskStates
<1>2. TypeOK /\ OnePlaceInv /\ SeenInv /\ [Next]_vars => SeenInv'
  <2> SUFFICES ASSUME TypeOK, OnePlaceInv, SeenInv, [Next]_vars, NEW c \in Clients,
                      snap'[c].state \in TaskStates
               PROVE  polls'[c] # None /\ Onwards(snap'[c].state, state'[polls'[c]])
    BY DEF SeenInv
  <2>1. Torn \notin TaskStates
    BY DEF Torn, TaskStates
  <2>2. CASE snap'[c].state = snap[c].state
    <3>1. polls[c] # None /\ Onwards(snap[c].state, state[polls[c]])
      BY <2>2 DEF SeenInv
    <3>2. polls[c] \in Uploads /\ polls'[c] = polls[c]
      BY <3>1, NewAnswers DEF TypeOK, ClientsOK
    <3>3. Onwards(state[polls[c]], state'[polls[c]])
      BY <3>2, TaskMovesOnwards
    <3>. QED
      BY <2>2, <3>1, <3>2, <3>3, OnwardsTransitive
  <2>3. CASE /\ polls[c] # None /\ state' = state
             /\ snap'[c].state = state[polls[c]]
    BY <2>3, NewAnswers DEF Onwards
  <2>. QED
    BY <2>1, <2>2, <2>3, NewAnswers
<1>. QED
  BY <1>1, <1>2, Typing, OnePlaceInductive, PTL DEF Spec

\* One client polling one upload never sees it go back, nor one end replaced by the
\* other, although it reads the task without the lock.
THEOREM OnlyForward == Spec => StatusMovesForward
<1>1. TypeOK /\ SeenInv /\ [Next]_vars =>
        \A c \in Clients :
          snap[c].state \in TaskStates /\ snap'[c].state \in TaskStates /\ snap'[c] # snap[c]
            => \/ Rank(snap[c].state) < Rank(snap'[c].state)
               \/ snap[c].state = snap'[c].state
  <2> SUFFICES ASSUME TypeOK, SeenInv, [Next]_vars, NEW c \in Clients,
                      snap[c].state \in TaskStates, snap'[c].state \in TaskStates,
                      snap[c].state # snap'[c].state
               PROVE  Rank(snap[c].state) < Rank(snap'[c].state)
    OBVIOUS
  <2>1. snap'[c].state = state[polls[c]]
    BY NewAnswers DEF Torn, TaskStates
  <2>2. Onwards(snap[c].state, snap'[c].state)
    BY <2>1 DEF SeenInv
  <2>3. /\ Rank("queued") = 1 /\ Rank("running") = 2
        /\ Rank("succeeded") = 3 /\ Rank("failed") = 3
    BY DEF Rank, Terminal
  <2>. QED
    BY <2>2, <2>3 DEF Onwards, TaskStates, Terminal
<1>. QED
  BY <1>1, Typing, SeenInductive, PTL DEF StatusMovesForward, Spec

-----------------------------------------------------------------------------
(* Counting.                                                               *)

LEMMA StatsWorkers ==
    ASSUME TypeOK, StatsAddUp, NEW w \in Workers, Worker(w)
    PROVE  StatsAddUp'
<1>0. /\ IsFiniteSet(Busy) /\ Cardinality(Busy) \in Nat
      /\ IsFiniteSet(Uncounted) /\ Cardinality(Uncounted) \in Nat
      /\ Len(queue) \in Nat /\ enqueued \in Nat /\ complete \in Nat /\ failed \in Nat
  BY WorkersAssumption, UploadsAssumption, FS_Subset, FS_CardinalityType
  DEF Busy, Uncounted, TypeOK, QueueOK, StatsOK
<1>1. UNCHANGED <<pc, enqueued>> /\ Uncounted' = Uncounted
  BY DEF Worker, Receive, Exit, MarkRunning, MarkStarted, Index, MarkEnded, MarkOutcome,
         Release, Uncounted
<1>2. CASE Receive(w)
  <2>1. /\ wpc[w] = "recv" /\ queue # <<>> /\ held' = [held EXCEPT ![w] = Head(queue)]
        /\ queue' = Tail(queue) /\ UNCHANGED <<complete, failed>>
    BY <1>2 DEF Receive
  <2>2. Head(queue) \in Uploads /\ Len(queue') = Len(queue) - 1
    BY <2>1 DEF TypeOK, QueueOK
  <2>3. w \notin Busy /\ Busy' = Busy \cup {w}
    BY <2>1, <2>2, NoneAssumption DEF Busy, TypeOK, WorkersOK
  <2>4. Cardinality(Busy') = Cardinality(Busy) + 1
    BY <1>0, <2>3, FS_AddElement
  <2>. QED
    BY <1>0, <1>1, <2>1, <2>2, <2>4 DEF StatsAddUp
<1>3. CASE Release(w)
  <2>1. /\ wpc[w] = "outcome" /\ held' = [held EXCEPT ![w] = None]
        /\ UNCHANGED queue
        /\ \/ complete' = complete + 1 /\ failed' = failed
           \/ complete' = complete /\ failed' = failed + 1
    BY <1>3 DEF Release
  <2>2. w \in Busy /\ Busy' = Busy \ {w}
    <3>1. held[w] # None
      BY <2>1, HeldIsUpload, NoneAssumption
    <3>. QED
      BY <2>1, <3>1 DEF Busy, TypeOK, WorkersOK
  <2>3. Cardinality(Busy') = Cardinality(Busy) - 1
    BY <1>0, <2>2, FS_RemoveElement
  <2>. QED
    BY <1>0, <1>1, <2>1, <2>3 DEF StatsAddUp
<1>4. CASE Worker(w) /\ ~Receive(w) /\ ~Release(w)
  <2>1. UNCHANGED <<queue, held, complete, failed>>
    BY <1>4 DEF Worker, Exit, MarkRunning, MarkStarted, Index, MarkEnded, MarkOutcome
  <2>2. Busy' = Busy
    BY <2>1 DEF Busy
  <2>. QED
    BY <1>1, <2>1, <2>2 DEF StatsAddUp
<1>. QED
  BY <1>2, <1>3, <1>4

LEMMA StatsHandlers ==
    ASSUME TypeOK, StatsAddUp, NEW u \in Uploads, Handler(u)
    PROVE  StatsAddUp'
<1>0. /\ IsFiniteSet(Busy) /\ Cardinality(Busy) \in Nat
      /\ IsFiniteSet(Uncounted) /\ Cardinality(Uncounted) \in Nat
      /\ Len(queue) \in Nat /\ enqueued \in Nat /\ complete \in Nat /\ failed \in Nat
      /\ pc \in [Uploads -> HandlerPCs]
  BY WorkersAssumption, UploadsAssumption, FS_Subset, FS_CardinalityType
  DEF Busy, Uncounted, TypeOK, QueueOK, StatsOK, HandlersOK
<1>1. UNCHANGED <<held, complete, failed>> /\ Busy' = Busy
  BY DEF Handler, Reject, BeginSave, EndSave, SaveFails, EnqueueClosed, Register, Send,
         SendPanics, QueueFull, Unregister, Refuse, Accept, Busy
<1>2. CASE Send(u)
  <2>1. /\ pc[u] = "registered" /\ pc' = [pc EXCEPT ![u] = "sent"]
        /\ queue' = Append(queue, u) /\ UNCHANGED enqueued
    BY <1>2 DEF Send
  <2>2. Len(queue') = Len(queue) + 1
    BY <2>1 DEF TypeOK, QueueOK
  <2>3. u \notin Uncounted /\ Uncounted' = Uncounted \cup {u}
    <3>1. \A v \in Uploads : pc'[v] = "sent" <=> pc[v] = "sent" \/ v = u
      BY <1>0, <2>1
    <3>. QED
      BY <2>1, <3>1 DEF Uncounted
  <2>4. Cardinality(Uncounted') = Cardinality(Uncounted) + 1
    BY <1>0, <2>3, FS_AddElement
  <2>. QED
    BY <1>0, <1>1, <2>1, <2>2, <2>4 DEF StatsAddUp
<1>3. CASE Accept(u)
  <2>1. /\ pc[u] = "sent" /\ pc' = [pc EXCEPT ![u] = "accepted"]
        /\ UNCHANGED queue /\ enqueued' = enqueued + 1
    BY <1>3 DEF Accept
  <2>2. u \in Uncounted /\ Uncounted' = Uncounted \ {u}
    BY <1>0, <2>1 DEF Uncounted
  <2>3. Cardinality(Uncounted') = Cardinality(Uncounted) - 1
    BY <1>0, <2>2, FS_RemoveElement
  <2>. QED
    BY <1>0, <1>1, <2>1, <2>3 DEF StatsAddUp
<1>4. CASE Handler(u) /\ ~Send(u) /\ ~Accept(u)
  <2>1. UNCHANGED <<queue, enqueued>>
    BY <1>4 DEF Handler, Reject, BeginSave, EndSave, SaveFails, EnqueueClosed, Register,
                SendPanics, QueueFull, Unregister, Refuse
  <2>2. Uncounted' = Uncounted
    BY <1>0, <1>4 DEF Handler, Reject, BeginSave, EndSave, SaveFails, EnqueueClosed, Register,
                SendPanics, QueueFull, Unregister, Refuse, Uncounted
  <2>. QED
    BY <1>1, <2>1, <2>2 DEF StatsAddUp
<1>. QED
  BY <1>2, <1>3, <1>4

\* The upload statistics balance at every moment.
THEOREM Balanced == Spec => []StatsAddUp
<1>1. Init => StatsAddUp
  <2> SUFFICES ASSUME Init PROVE StatsAddUp
    OBVIOUS
  <2>1. pc = [u \in Uploads |-> "idle"] /\ held = [w \in Workers |-> None] /\ queue = <<>>
        /\ enqueued = 0 /\ complete = 0 /\ failed = 0
    BY DEF Init
  <2>2. Uncounted = {} /\ Busy = {}
    BY <2>1 DEF Uncounted, Busy
  <2>. QED
    BY <2>1, <2>2, FS_EmptySet DEF StatsAddUp
<1>2. TypeOK /\ StatsAddUp /\ [Next]_vars => StatsAddUp'
  <2> SUFFICES ASSUME TypeOK, StatsAddUp, [Next]_vars PROVE StatsAddUp'
    OBVIOUS
  <2>1. CASE \/ \E c \in Clients : Client(c)
             \/ Close \/ CloseReturns \/ UNCHANGED vars
    <3>1. UNCHANGED <<pc, queue, held, enqueued, complete, failed>>
      BY <2>1 DEF Client, Poll, ReadState, ReadRest, Close, CloseReturns, vars
    <3>. QED
      BY <3>1 DEF StatsAddUp, Uncounted, Busy
  <2>. QED
    BY <2>1, StatsHandlers, StatsWorkers DEF Next
<1>. QED
  BY <1>1, <1>2, Typing, PTL DEF Spec

-----------------------------------------------------------------------------
(* Refinement of UploadBoard.                                              *)

\* The unfinished uploads fit into the channel and the hands of the workers.
LEMMA BacklogBound ==
    ASSUME TypeOK, OnePlacePerTask
    PROVE  /\ IsFiniteSet(InChannel \ Finished)
           /\ Cardinality(InChannel \ Finished) <= Len(queue) + Cardinality(Workers)
<1> DEFINE waiting == {queue[i] : i \in 1..Len(queue)}
           inHand  == {held[w] : w \in Busy}
<1>1. /\ Len(queue) \in Nat /\ IsFiniteSet(waiting) /\ Cardinality(waiting) <= Len(queue)
  <2>1. Len(queue) \in Nat
    BY DEF TypeOK, QueueOK
  <2>2. IsFiniteSet(1..Len(queue)) /\ Cardinality(1..Len(queue)) = Len(queue)
    BY <2>1, FS_Interval
  <2>3. [i \in 1..Len(queue) |-> queue[i]] \in Surjection(1..Len(queue), waiting)
    BY DEF Surjection
  <2>. QED
    BY <2>1, <2>2, <2>3, FS_Surjection
<1>2. /\ IsFiniteSet(inHand) /\ Cardinality(inHand) <= Cardinality(Workers)
      /\ Cardinality(Workers) \in Nat
  <2>1. IsFiniteSet(Busy) /\ Cardinality(Busy) <= Cardinality(Workers)
        /\ Cardinality(Busy) \in Nat /\ Cardinality(Workers) \in Nat
    <3>1. Busy \in SUBSET Workers
      BY DEF Busy
    <3>. QED
      BY <3>1, WorkersAssumption, FS_Subset, FS_CardinalityType
  <2>2. [w \in Busy |-> held[w]] \in Surjection(Busy, inHand)
    BY DEF Surjection
  <2>3. IsFiniteSet(inHand) /\ Cardinality(inHand) <= Cardinality(Busy)
    BY <2>1, <2>2, FS_Surjection
  <2>. QED
    BY <2>1, <2>3, FS_CardinalityType
<1>3. InChannel \ Finished \in SUBSET (waiting \cup inHand)
  BY NoneAssumption DEF InChannel, Finished, OnePlacePerTask, InQueue, IsHeld, Busy
<1>4. /\ IsFiniteSet(waiting \cup inHand)
      /\ Cardinality(waiting \cup inHand) <= Cardinality(waiting) + Cardinality(inHand)
  <2>1. IsFiniteSet(waiting \cap inHand)
    BY <1>1, FS_Subset
  <2>2. /\ Cardinality(waiting) \in Nat /\ Cardinality(inHand) \in Nat
        /\ Cardinality(waiting \cap inHand) \in Nat
    BY <1>1, <1>2, <2>1, FS_CardinalityType
  <2>3. /\ IsFiniteSet(waiting \cup inHand)
        /\ Cardinality(waiting \cup inHand)
             = Cardinality(waiting) + Cardinality(inHand) - Cardinality(waiting \cap inHand)
    BY <1>1, <1>2, FS_Union
  <2>. QED
    BY <2>2, <2>3
<1>5. /\ IsFiniteSet(InChannel \ Finished)
      /\ Cardinality(InChannel \ Finished) <= Cardinality(waiting \cup inHand)
  BY <1>3, <1>4, FS_Subset
<1>. QED
  BY <1>1, <1>2, <1>4, <1>5, FS_CardinalityType

\* The board counts as this module does.
LEMMA SameCardinality == \A S : Board!Cardinality(S) = Cardinality(S)
  BY DEF Board!Cardinality, Cardinality

LEMMA BoardStep ==
    ASSUME TypeOK, OnePlaceInv, DrainInv, DrainedOnClose', [Next]_vars
    PROVE  [Board!Next]_(Board!vars)
<1> USE DEF Board!vars
<1>0. OnePlacePerTask /\ (closed <=> closer # "idle")
  BY DEF OnePlaceInv, DrainInv
<1>1. ASSUME NEW u \in Uploads, Send(u) PROVE Board!Accept(u)
  <2>1. /\ pc[u] = "registered" /\ pc' = [pc EXCEPT ![u] = "sent"] /\ ~closed
        /\ Len(queue) < QueueSize /\ UNCHANGED <<state, closer>>
    BY <1>1 DEF Send
  <2>2. u \notin InChannel /\ InChannel' = InChannel \cup {u}
    BY <2>1 DEF InChannel, Sent, TypeOK, HandlersOK
  <2>3. Finished' = Finished /\ Phase' = Phase
    BY <2>1 DEF Finished, Phase
  <2>4. Phase = "open"
    BY <1>0, <2>1 DEF Phase
  <2>5. Cardinality(InChannel \ Finished) < QueueSize + Cardinality(Workers)
    <3>1. Cardinality(InChannel \ Finished) <= Len(queue) + Cardinality(Workers)
          /\ Cardinality(InChannel \ Finished) \in Nat
      BY <1>0, BacklogBound, FS_CardinalityType
    <3>2. Cardinality(Workers) \in Nat /\ Len(queue) \in Nat
      BY WorkersAssumption, FS_CardinalityType DEF TypeOK, QueueOK
    <3>3. QueueSize \in Nat /\ Len(queue) < QueueSize
      BY <2>1, QueueAssumption
    <3>4. Len(queue) + Cardinality(Workers) < QueueSize + Cardinality(Workers)
      BY <3>2, <3>3
    <3>. QED
      BY <3>1, <3>2, <3>3, <3>4
  <2>. QED
    BY <2>2, <2>3, <2>4, <2>5, SameCardinality DEF Board!Accept
<1>2. ASSUME NEW w \in Workers, MarkOutcome(w) PROVE Board!Finish(held[w])
  <2>1. /\ wpc[w] = "ending" /\ UNCHANGED <<pc, closer>>
        /\ state' = [state EXCEPT ![held[w]] = IF bad[w] THEN "failed" ELSE "succeeded"]
    BY <1>2 DEF MarkOutcome
  <2>2. held[w] \in Uploads
    BY <2>1, HeldIsUpload
  <2>3. state[held[w]] = "running" /\ pc[held[w]] \in Sent
    BY <2>1, <2>2 DEF OnePlaceInv, OnePlacePerTask, StateFollowsWorker, IsHeld
  <2>4. Finished' = Finished \cup {held[w]} /\ held[w] \notin Finished
    BY <2>1, <2>2, <2>3 DEF Finished, Terminal, TypeOK, TasksOK
  <2>5. InChannel' = InChannel /\ Phase' = Phase /\ held[w] \in InChannel
    BY <2>1, <2>2, <2>3 DEF InChannel, Phase
  <2>. QED
    BY <2>4, <2>5 DEF Board!Finish
<1>3. CASE Close
  <2>1. Phase = "open" /\ Phase' = "closing" /\ InChannel' = InChannel /\ Finished' = Finished
    BY <1>3 DEF Close, Phase, InChannel, Finished
  <2>. QED
    BY <2>1 DEF Board!BeginShutdown, Board!Next
<1>4. CASE CloseReturns
  <2>1. Phase = "closing" /\ Phase' = "closed" /\ InChannel' = InChannel /\ Finished' = Finished
    BY <1>4 DEF CloseReturns, Phase, InChannel, Finished
  <2>2. InChannel \subseteq Finished
    BY <1>4 DEF CloseReturns, DrainedOnClose, InChannel, Finished
  <2>3. Finished \subseteq InChannel
    BY <1>0 DEF OnePlacePerTask, InChannel, Finished
  <2>. QED
    BY <2>1, <2>2, <2>3 DEF Board!EndShutdown, Board!Next
<1>5. ASSUME NEW u \in Uploads, Handler(u), ~Send(u) PROVE UNCHANGED Board!vars
  <2>1. UNCHANGED closer
    BY <1>5 DEF Handler, Reject, BeginSave, EndSave, SaveFails, EnqueueClosed, Register,
                SendPanics, QueueFull, Unregister, Refuse, Accept
  <2>2. InChannel' = InChannel
    BY <1>5 DEF Handler, Reject, BeginSave, EndSave, SaveFails, EnqueueClosed, Register,
                SendPanics, QueueFull, Unregister, Refuse, Accept, InChannel, Sent,
                TypeOK, HandlersOK
  <2>3. Finished' = Finished
    <3>1. CASE Register(u)
      <4>1. state[u] = "queued"
        BY <3>1, NotSentIsQueued DEF Register, Sent
      <4>. QED
        BY <3>1, <4>1 DEF Register, Finished, TypeOK, TasksOK
    <3>2. CASE ~Register(u)
      BY <1>5, <3>2 DEF Handler, Reject, BeginSave, EndSave, SaveFails, EnqueueClosed,
                        SendPanics, QueueFull, Unregister, Refuse, Accept, Finished
    <3>. QED
      BY <3>1, <3>2
  <2>. QED
    BY <2>1, <2>2, <2>3 DEF Phase
<1>6. ASSUME NEW w \in Workers, Worker(w), ~MarkOutcome(w) PROVE UNCHANGED Board!vars
  <2>1. UNCHANGED <<pc, closer>>
    BY <1>6 DEF Worker, Receive, Exit, MarkRunning, MarkStarted, Index, MarkEnded, Release
  <2>2. Finished' = Finished
    <3>1. CASE MarkRunning(w)
      <4>1. wpc[w] = "claimed" /\ state' = [state EXCEPT ![held[w]] = "running"]
        BY <3>1 DEF MarkRunning
      <4>2. held[w] \in Uploads /\ state[held[w]] = "queued"
        BY <4>1, HeldIsUpload DEF OnePlaceInv, StateFollowsWorker
      <4>. QED
        BY <4>1, <4>2 DEF Finished, Terminal, TypeOK, TasksOK
    <3>2. CASE ~MarkRunning(w)
      BY <1>6, <3>2 DEF Worker, Receive, Exit, MarkStarted, Index, MarkEnded, Release,
                        Finished
    <3>. QED
      BY <3>1, <3>2
  <2>. QED
    BY <2>1, <2>2 DEF InChannel, Phase
<1>7. CASE (\E c \in Clients : Client(c)) \/ UNCHANGED vars
  <2>1. UNCHANGED <<pc, state, closer>>
    BY <1>7 DEF Client, Poll, ReadState, ReadRest, vars
  <2>. QED
    BY <2>1 DEF InChannel, Finished, Phase
<1>8. ASSUME NEW w \in Workers, MarkOutcome(w) PROVE Board!Next
  <2>1. held[w] \in Uploads
    BY <1>8, HeldIsUpload DEF MarkOutcome
  <2>. QED
    BY <1>2, <1>8, <2>1 DEF Board!Next
<1>9. ASSUME NEW u \in Uploads, Send(u) PROVE Board!Next
  BY <1>1, <1>9 DEF Board!Next
<1>. QED
  BY <1>3, <1>4, <1>5, <1>6, <1>7, <1>8, <1>9 DEF Next

\* Every behaviour of the queue is one UploadBoard allows: the backlog is bounded,
\* each accepted upload finishes at most once, nothing is accepted after Close
\* began, and Close returns only with nothing left. (That everything accepted does
\* finish is liveness, which TLC checks.)
THEOREM RefinesBoard == Spec => Board!Init /\ [][Board!Next]_(Board!vars)
<1>1. Init => Board!Init
  <2> SUFFICES ASSUME Init PROVE Board!Init
    OBVIOUS
  <2>1. /\ pc = [u \in Uploads |-> "idle"] /\ state = [u \in Uploads |-> "queued"]
        /\ closer = "idle"
    BY DEF Init
  <2>. QED
    BY <2>1 DEF Board!Init, InChannel, Finished, Phase, Sent, Terminal
<1>2. TypeOK /\ OnePlaceInv /\ DrainInv /\ DrainedOnClose' /\ [Next]_vars
        => [Board!Next]_(Board!vars)
  BY BoardStep
<1>. QED
  BY <1>1, <1>2, Typing, OnePlaceInductive, DrainInductive, Drained, PTL DEF Spec

-----------------------------------------------------------------------------
(* Chunking: what a text says, without its white space.                    *)

Text == Seq(Character)

\* What the first n characters of a text say, all of them, and the first n texts of a list.
InkTo(t, n) == {t[i] : i \in {j \in 1..n : ~ IsSpace(t[j])}}
Ink(t) == InkTo(t, Len(t))
Told(list, n) == UNION {Ink(list[m]) : m \in 1..n}
All(list) == Told(list, Len(list))

\* u says the same as t, and in its order.
Echo(u, t) ==
    /\ Ink(u) = Ink(t)
    /\ \A n \in 0..Len(u) : \E m \in 0..Len(t) : InkTo(u, n) = InkTo(t, m)

LEMMA InkGrows ==
    ASSUME NEW t \in Text, NEW n \in 1..Len(t)
    PROVE  /\ IsSpace(t[n]) => InkTo(t, n) = InkTo(t, n - 1)
           /\ ~ IsSpace(t[n]) => InkTo(t, n) = InkTo(t, n - 1) \cup {t[n]}
<1>1. Len(t) \in Nat
  BY LenProperties DEF Text
<1>2. 1..n = (1..(n - 1)) \cup {n}
  BY <1>1
<1>. QED
  BY <1>2 DEF InkTo

LEMMA InkFacts ==
    ASSUME NEW t \in Text
    PROVE  /\ InkTo(t, 0) = {}
           /\ Len(t) \in Nat
           /\ \A n \in 0..Len(t) : InkTo(t, n) \subseteq Ink(t)
           /\ Ink(<<>>) = {}
<1>1. Len(t) \in Nat
  BY LenProperties DEF Text
<1>. QED
  BY <1>1 DEF InkTo, Ink

\* One more character.
Longer(u, t, c) ==
    /\ u \in Text /\ Len(u) = Len(t) + 1 /\ Len(t) \in Nat
    /\ \A n \in 0..Len(t) : InkTo(u, n) = InkTo(t, n)
    /\ IsSpace(c) => Ink(u) = Ink(t)
    /\ ~ IsSpace(c) => Ink(u) = Ink(t) \cup {c}

LEMMA InkAppend ==
    ASSUME NEW t \in Text, NEW c \in Character
    PROVE  Longer(Append(t, c), t, c)
<1> DEFINE u == Append(t, c)
<1>1. /\ u \in Text /\ Len(u) = Len(t) + 1 /\ Len(t) \in Nat /\ u[Len(u)] = c
      /\ \A i \in 1..Len(t) : u[i] = t[i]
  BY AppendProperties, LenProperties DEF Text
<1> HIDE DEF u
<1>2. ASSUME NEW n \in 0..Len(t) PROVE InkTo(u, n) = InkTo(t, n)
  <2>1. \A i \in 1..n : u[i] = t[i]
    BY <1>1
  <2>. QED
    BY <2>1 DEF InkTo
<1>3. Len(u) \in 1..Len(u) /\ Len(u) - 1 = Len(t) /\ Len(t) \in 0..Len(t)
  BY <1>1
<1>4. InkTo(u, Len(u) - 1) = Ink(t)
  BY <1>2, <1>3 DEF Ink
<1>5. /\ IsSpace(u[Len(u)]) => InkTo(u, Len(u)) = InkTo(u, Len(u) - 1)
      /\ ~ IsSpace(u[Len(u)]) => InkTo(u, Len(u)) = InkTo(u, Len(u) - 1) \cup {u[Len(u)]}
  BY <1>1, <1>3, InkGrows
<1>. QED
  BY <1>1, <1>2, <1>4, <1>5 DEF Ink, Longer, u

\* A piece of a text.
Piece(u, t, a, b) ==
    /\ u \in Text /\ Len(u) = b + 1 - a
    /\ \A n \in 1..Len(u) : u[n] = t[a + n - 1]
    /\ \A n \in 0..Len(u) : InkTo(t, a + n - 1) = InkTo(t, a - 1) \cup InkTo(u, n)
    /\ InkTo(t, b) = InkTo(t, a - 1) \cup Ink(u)

LEMMA InkSub ==
    ASSUME NEW t \in Text, NEW a \in 1..(Len(t) + 1), NEW b \in 0..Len(t), a <= b + 1,
           NEW u, u = SubSeq(t, a, b)
    PROVE  Piece(u, t, a, b)
<1>1. Len(t) \in Nat /\ DOMAIN t = 1..Len(t)
  BY LenProperties DEF Text
<1>2. \A i \in 1..Len(t) : t[i] \in Character
  BY <1>1, ElementOfSeq DEF Text
<1>3. u \in Text /\ Len(u) = b + 1 - a /\ \A n \in 1..Len(u) : u[n] = t[a + n - 1]
  <2>1. a \in Int /\ b \in Int /\ \A i \in a..b : t[i] \in Character
    BY <1>1, <1>2
  <2>2. u \in Text
    BY <1>1, <1>2 DEF Text
  <2>3. Len(u) = IF a <= b THEN b - a + 1 ELSE 0
    BY <1>1
  <2>4. \A n \in 1..(b + 1 - a) : u[n] = t[a + n - 1]
    BY <1>1
  <2>. QED
    BY <1>1, <2>1, <2>2, <2>3, <2>4
<1>4. ASSUME NEW n \in 0..Len(u) PROVE InkTo(t, a + n - 1) = InkTo(t, a - 1) \cup InkTo(u, n)
  <2>1. ASSUME NEW c \in InkTo(t, a + n - 1) PROVE c \in InkTo(t, a - 1) \cup InkTo(u, n)
    <3>1. PICK i \in 1..(a + n - 1) : ~ IsSpace(t[i]) /\ c = t[i]
      BY DEF InkTo
    <3>2. CASE i <= a - 1
      <4>1. i \in 1..(a - 1)
        BY <3>2
      <4>. QED
        BY <3>1, <4>1 DEF InkTo
    <3>3. CASE i >= a
      <4>1. i - a + 1 \in 1..n /\ i - a + 1 \in 1..Len(u) /\ a + (i - a + 1) - 1 = i
        BY <1>1, <1>3, <3>3
      <4>2. u[i - a + 1] = t[i]
        BY <1>3, <4>1
      <4>. QED
        BY <3>1, <4>1, <4>2 DEF InkTo
    <3>. QED
      BY <3>2, <3>3
  <2>2. ASSUME NEW c \in InkTo(u, n) PROVE c \in InkTo(t, a + n - 1)
    <3>1. PICK i \in 1..n : ~ IsSpace(u[i]) /\ c = u[i]
      BY DEF InkTo
    <3>2. a + i - 1 \in 1..(a + n - 1) /\ u[i] = t[a + i - 1]
      BY <1>1, <1>3
    <3>. QED
      BY <3>1, <3>2 DEF InkTo
  <2>3. InkTo(t, a - 1) \subseteq InkTo(t, a + n - 1)
    BY <1>1, <1>3 DEF InkTo
  <2>. QED
    BY <2>1, <2>2, <2>3
<1>5. InkTo(t, b) = InkTo(t, a - 1) \cup Ink(u)
  <2>1. Len(u) \in 0..Len(u) /\ a + Len(u) - 1 = b
    BY <1>1, <1>3
  <2>. QED
    BY <1>4, <2>1 DEF Ink
<1>. QED
  BY <1>3, <1>4, <1>5 DEF Piece

\* TrimSpace cuts a text after its first spaces and before its last, and leaves nothing of a blank one.
LEMMA TrimCuts ==
    ASSUME NEW t \in Text
    PROVE  /\ Ink(t) = {} => TrimSpace(t) = <<>>
           /\ Ink(t) # {} =>
                \E a, b \in 1..Len(t) :
                    /\ a <= b /\ TrimSpace(t) = SubSeq(t, a, b)
                    /\ ~ IsSpace(t[a]) /\ ~ IsSpace(t[b])
                    /\ \A i \in 1..Len(t) : i < a \/ i > b => IsSpace(t[i])
<1> DEFINE inked == {i \in 1..Len(t) : ~ IsSpace(t[i])}
<1>1. Len(t) \in Nat
  BY InkFacts
<1>2. TrimSpace(t) = IF inked = {} THEN <<>> ELSE SubSeq(t, Min(inked), Max(inked))
  BY DEF TrimSpace
<1>3. Ink(t) = {} <=> inked = {}
  BY DEF Ink, InkTo
<1>4. CASE inked # {}
  <2>1. inked \in SUBSET (1..Len(t))
    OBVIOUS
  <2> HIDE DEF inked
  <2>2. /\ Min(inked) \in inked /\ \A k \in inked : Min(inked) <= k
        /\ Max(inked) \in inked /\ \A k \in inked : Max(inked) >= k
    BY <1>1, <1>4, <2>1, MinOf, MaxOf
  <2> DEFINE a == Min(inked)
             b == Max(inked)
  <2>3. a \in 1..Len(t) /\ b \in 1..Len(t) /\ a <= b
    BY <1>1, <2>1, <2>2
  <2>4. TrimSpace(t) = SubSeq(t, a, b)
    BY <1>2, <1>4
  <2>5. ~ IsSpace(t[a]) /\ ~ IsSpace(t[b])
    BY <2>2 DEF inked
  <2>6. \A i \in 1..Len(t) : i < a \/ i > b => IsSpace(t[i])
    <3>1. ASSUME NEW i \in 1..Len(t), i < a \/ i > b PROVE i \notin inked
      BY <1>1, <2>2, <2>3, <3>1
    <3>. QED
      BY <3>1 DEF inked
  <2> HIDE DEF a, b
  <2>. QED
    BY <1>3, <1>4, <2>3, <2>4, <2>5, <2>6
<1>5. CASE inked = {}
  BY <1>2, <1>3, <1>5
<1>. QED
  BY <1>4, <1>5

\* What is left says the same, in order, and is no longer.
LEMMA TrimEchoes ==
    ASSUME NEW t \in Text
    PROVE  /\ TrimSpace(t) \in Text /\ Len(TrimSpace(t)) <= Len(t)
           /\ Echo(TrimSpace(t), t)
           /\ TrimSpace(t) = <<>> <=> Ink(t) = {}
<1>1. Len(t) \in Nat /\ InkTo(t, 0) = {} /\ 0 \in 0..Len(t) /\ Ink(<<>>) = {} /\ Len(<<>>) = 0
  BY InkFacts
<1>2. CASE Ink(t) = {}
  <2>1. TrimSpace(t) = <<>>
    BY <1>2, TrimCuts
  <2>2. <<>> \in Text
    BY EmptySeq DEF Text
  <2>3. Echo(<<>>, t)
    BY <1>1, <1>2 DEF Echo, InkTo
  <2>. QED
    BY <1>1, <1>2, <2>1, <2>2, <2>3
<1>3. CASE Ink(t) # {}
  <2> DEFINE u == TrimSpace(t)
  <2>1. PICK a \in 1..Len(t), b \in 1..Len(t) :
            /\ a <= b /\ u = SubSeq(t, a, b)
            /\ ~ IsSpace(t[a]) /\ ~ IsSpace(t[b])
            /\ \A i \in 1..Len(t) : i < a \/ i > b => IsSpace(t[i])
    BY <1>3, TrimCuts
  <2> HIDE DEF u
  <2>2. a \in 1..(Len(t) + 1) /\ b \in 0..Len(t) /\ a <= b + 1 /\ u = SubSeq(t, a, b)
    BY <1>1, <2>1
  <2>3. /\ u \in Text /\ Len(u) = b + 1 - a
        /\ \A n \in 0..Len(u) : InkTo(t, a + n - 1) = InkTo(t, a - 1) \cup InkTo(u, n)
        /\ InkTo(t, b) = InkTo(t, a - 1) \cup Ink(u)
    <3>1. Piece(u, t, a, b)
      BY <2>2, InkSub
    <3>. QED
      BY <3>1 DEF Piece
  <2>4. InkTo(t, a - 1) = {}
    BY <1>1, <2>1 DEF InkTo
  <2>5. InkTo(t, b) = Ink(t)
    <3>1. ASSUME NEW i \in 1..Len(t), ~ IsSpace(t[i]) PROVE i \in 1..b
      BY <1>1, <2>1, <3>1
    <3>2. 1..b \subseteq 1..Len(t)
      BY <1>1
    <3>. QED
      BY <3>1, <3>2 DEF InkTo, Ink
  <2>6. \A n \in 0..Len(u) : \E m \in 0..Len(t) : InkTo(u, n) = InkTo(t, m)
    <3>1. ASSUME NEW n \in 0..Len(u) PROVE \E m \in 0..Len(t) : InkTo(u, n) = InkTo(t, m)
      <4>1. a + n - 1 \in 0..Len(t)
        BY <1>1, <2>1, <2>3
      <4>2. InkTo(u, n) = InkTo(t, a + n - 1)
        BY <2>3, <2>4
      <4>. QED
        BY <4>1, <4>2
    <3>. QED
      BY <3>1
  <2>7. Echo(u, t)
    BY <2>3, <2>4, <2>5, <2>6 DEF Echo
  <2>8. u # <<>> /\ Len(u) <= Len(t)
    BY <1>1, <2>1, <2>3
  <2>. QED
    BY <1>3, <2>3, <2>7, <2>8 DEF u
<1>. QED
  BY <1>2, <1>3

LEMMA EchoOfEcho ==
    ASSUME NEW t, NEW u, NEW v, Echo(u, t), Echo(v, u)
    PROVE  Echo(v, t)
<1>1. Ink(v) = Ink(t)
  BY DEF Echo
<1>2. ASSUME NEW n \in 0..Len(v) PROVE \E m \in 0..Len(t) : InkTo(v, n) = InkTo(t, m)
  <2>1. PICK k \in 0..Len(u) : InkTo(v, n) = InkTo(u, k)
    BY DEF Echo
  <2>2. PICK m \in 0..Len(t) : InkTo(u, k) = InkTo(t, m)
    BY DEF Echo
  <2>. QED
    BY <2>1, <2>2
<1>. QED
  BY <1>1, <1>2 DEF Echo

\* strings.Fields loses white space only.
LEMMA SqueezeEchoes ==
    ASSUME NEW t \in Text, NEW n \in 1..Len(t), NEW q \in Text,
           Ink(q) = InkTo(t, n - 1),
           \A i \in 0..Len(q) : \E m \in 0..Len(t) : InkTo(q, i) = InkTo(t, m),
           NEW r, r = Squeeze(q, t[n])
    PROVE  /\ r \in Text /\ Ink(r) = InkTo(t, n)
           /\ \A i \in 0..Len(r) : \E m \in 0..Len(t) : InkTo(r, i) = InkTo(t, m)
<1>1. Len(t) \in Nat /\ t[n] \in Character /\ n \in 0..Len(t)
  BY ElementOfSeq, LenProperties DEF Text
<1>2. CASE r = q /\ IsSpace(t[n])
  <2>1. InkTo(t, n) = InkTo(t, n - 1)
    BY <1>2, InkGrows
  <2>. QED
    BY <1>2, <2>1
<1>3. CASE r = Append(q, t[n])
  <2>1. Longer(r, q, t[n])
    BY <1>1, <1>3, InkAppend
  <2>2. Ink(r) = InkTo(t, n)
    BY <2>1, InkGrows DEF Longer
  <2>3. InkTo(r, Len(r)) = InkTo(t, n)
    BY <2>2 DEF Ink
  <2>4. ASSUME NEW i \in 0..Len(r) PROVE \E m \in 0..Len(t) : InkTo(r, i) = InkTo(t, m)
    <3>1. CASE i = Len(r)
      BY <1>1, <2>3, <3>1
    <3>2. CASE i \in 0..Len(q)
      BY <2>1, <3>2 DEF Longer
    <3>. QED
      BY <2>1, <3>1, <3>2 DEF Longer
  <2>. QED
    BY <2>1, <2>2, <2>4 DEF Longer
<1>. QED
  BY <1>2, <1>3 DEF Squeeze

LEMMA NormalizedEchoes ==
    ASSUME NEW t \in Text
    PROVE  Normalized(t) \in Text /\ Echo(Normalized(t), t)
<1> DEFINE N == Len(t)
           Turn(q, n) == Squeeze(q, t[n])
           Fits(f) == f = [n \in 0..N |-> IF n = 0 THEN <<>> ELSE Turn(f[n - 1], n)]
           step == [z \in Text \X (1..N) |-> Turn(z[1], z[2])]
           kept == CHOOSE f : Fits(f)
<1>1. N \in Nat /\ 0 \in 0..N /\ N \in 0..N /\ <<>> \in Text
  BY InkFacts, EmptySeq DEF Text
<1>2. \A q \in Text, n \in 1..N : Turn(q, n) \in Text
  <2>1. ASSUME NEW q \in Text, NEW n \in 1..N PROVE Turn(q, n) \in Text
    <3>1. t[n] \in Character
      BY ElementOfSeq, LenProperties DEF Text
    <3>. QED
      BY <3>1, AppendProperties DEF Squeeze, Text
  <2>. QED
    BY <2>1
<1>3. Normalized(t) = TrimSpace(kept[N])
  BY DEF Normalized
<1> HIDE DEF N, Turn, kept
<1>4. step \in [Text \X (1..N) -> Text] /\ \A q \in Text, n \in 1..N : step[<<q, n>>] = Turn(q, n)
  BY <1>2
<1> HIDE DEF step
<1>5. PICK f \in [0..N -> Text] : Follows(f, <<>>, N, step)
  BY <1>1, <1>4, Loops
<1>6. Fits(f)
  <2>1. \A n \in 0..N : f[n] = IF n = 0 THEN <<>> ELSE Turn(f[n - 1], n)
    <3>1. ASSUME NEW n \in 1..N PROVE f[n] = Turn(f[n - 1], n)
      <4>1. f[n - 1] \in Text
        BY <1>1, <1>5
      <4>. QED
        BY <1>4, <1>5, <4>1 DEF Follows
    <3>. QED
      BY <1>1, <1>5, <3>1 DEF Follows
  <2>2. f = [n \in 0..N |-> f[n]]
    BY <1>5
  <2>. QED
    BY <2>1, <2>2, Zenon
<1>7. Fits(kept)
  BY <1>6, Zenon DEF kept
<1>8. kept[0] = <<>> /\ \A n \in 1..N : kept[n] = Turn(kept[n - 1], n)
  BY <1>1, <1>7
<1> DEFINE T == {n \in 0..N : /\ kept[n] \in Text /\ Ink(kept[n]) = InkTo(t, n)
                              /\ \A i \in 0..Len(kept[n]) :
                                    \E m \in 0..Len(t) : InkTo(kept[n], i) = InkTo(t, m)}
<1>9. 0 \in T
  <2>1. InkTo(t, 0) = {} /\ Len(<<>>) = 0 /\ Ink(<<>>) = {} /\ InkTo(<<>>, 0) = {} /\ 0 \in 0..Len(t)
    BY <1>1, InkFacts DEF N
  <2>2. \A i \in 0..Len(<<>>) : i = 0
    BY <2>1
  <2>. QED
    BY <1>1, <1>8, <2>1, <2>2
<1>10. ASSUME NEW n \in 1..N, n - 1 \in T PROVE n \in T
  <2>1. n \in 1..Len(t) /\ n \in 0..N /\ kept[n] = Squeeze(kept[n - 1], t[n])
    BY <1>1, <1>8 DEF N, Turn
  <2>. QED
    BY <1>10, <2>1, SqueezeEchoes
<1> HIDE DEF T
<1>11. N \in T
  BY <1>1, <1>9, <1>10, UpTo
<1>12. kept[N] \in Text /\ Echo(kept[N], t)
  BY <1>1, <1>11 DEF T, Echo, Ink, N
<1>. QED
  BY <1>3, <1>12, TrimEchoes, EchoOfEcho

-----------------------------------------------------------------------------
(* Chunking: what is said so far is what the document says first.          *)

\* What doc says up to some place.
Initial(doc, C) ==
    /\ C \subseteq Ink(doc)
    /\ \A i, j \in DOMAIN doc : i < j /\ ~ IsSpace(doc[i]) /\ doc[j] \in C => doc[i] \in C

\* The text t goes on where C ends, character by character; so does a list of texts; and a list of
\* which only each text as a whole does.
Steady(doc, C, t) == \A n \in 0..Len(t) : Initial(doc, C \cup InkTo(t, n))
SteadyList(doc, C, list) == \A m \in 1..Len(list) : Steady(doc, C \cup Told(list, m - 1), list[m])
Orderly(doc, C, list) == \A m \in 0..Len(list) : Initial(doc, C \cup Told(list, m))

LEMMA EchoSteady ==
    ASSUME NEW doc, NEW C, NEW t, NEW u, Steady(doc, C, t), Echo(u, t)
    PROVE  Steady(doc, C, u)
BY DEF Steady, Echo

LEMMA SteadyEnd ==
    ASSUME NEW doc, NEW C, NEW t \in Text, Steady(doc, C, t)
    PROVE  Initial(doc, C) /\ Initial(doc, C \cup Ink(t))
<1>1. InkTo(t, 0) = {} /\ 0 \in 0..Len(t) /\ Len(t) \in 0..Len(t)
  BY InkFacts
<1>2. Initial(doc, C \cup InkTo(t, 0)) /\ Initial(doc, C \cup InkTo(t, Len(t)))
  BY <1>1 DEF Steady
<1>. QED
  BY <1>1, <1>2 DEF Ink

LEMMA ToldFacts ==
    ASSUME NEW list \in Seq(Text)
    PROVE  /\ Len(list) \in Nat /\ Told(list, 0) = {}
           /\ \A n \in 1..Len(list) : /\ list[n] \in Text
                                      /\ Told(list, n) = Told(list, n - 1) \cup Ink(list[n])
<1>1. Len(list) \in Nat /\ \A n \in 1..Len(list) : list[n] \in Text
  BY ElementOfSeq, LenProperties
<1>2. ASSUME NEW n \in 1..Len(list) PROVE Told(list, n) = Told(list, n - 1) \cup Ink(list[n])
  <2>1. 1..n = (1..(n - 1)) \cup {n}
    BY <1>1
  <2>. QED
    BY <2>1 DEF Told
<1>3. Told(list, 0) = {}
  <2>1. 1..0 = {}
    OBVIOUS
  <2>. QED
    BY <2>1 DEF Told
<1>. QED
  BY <1>1, <1>2, <1>3

\* One more text.
Added(list, old, t) ==
    /\ list \in Seq(Text) /\ Len(list) = Len(old) + 1 /\ Len(old) \in Nat
    /\ list[Len(list)] = t /\ \A m \in 1..Len(old) : list[m] = old[m]
    /\ \A m \in 0..Len(old) : Told(list, m) = Told(old, m)
    /\ Told(list, Len(old)) = All(old)
    /\ All(list) = All(old) \cup Ink(t)

LEMMA ToldAppend ==
    ASSUME NEW old \in Seq(Text), NEW t \in Text
    PROVE  Added(Append(old, t), old, t)
<1> DEFINE list == Append(old, t)
<1>1. /\ list \in Seq(Text) /\ Len(list) = Len(old) + 1 /\ Len(old) \in Nat
      /\ list[Len(list)] = t /\ \A m \in 1..Len(old) : list[m] = old[m]
  BY AppendProperties, LenProperties
<1> HIDE DEF list
<1>2. ASSUME NEW m \in 0..Len(old) PROVE Told(list, m) = Told(old, m)
  <2>1. \A k \in 1..m : list[k] = old[k]
    BY <1>1
  <2>. QED
    BY <2>1 DEF Told
<1>3. Told(list, Len(old)) = All(old)
  BY <1>1, <1>2 DEF All
<1>4. All(list) = All(old) \cup Ink(t)
  <2>1. Len(list) \in 1..Len(list) /\ Len(list) - 1 = Len(old)
    BY <1>1
  <2>2. Told(list, Len(list)) = Told(list, Len(list) - 1) \cup Ink(list[Len(list)])
    BY <1>1, <2>1, ToldFacts
  <2>. QED
    BY <1>1, <1>3, <2>1, <2>2 DEF All
<1>. QED
  BY <1>1, <1>2, <1>3, <1>4 DEF Added, list

LEMMA SteadyAppend ==
    ASSUME NEW doc, NEW C, NEW old \in Seq(Text), NEW t \in Text,
           SteadyList(doc, C, old), Steady(doc, C \cup All(old), t)
    PROVE  SteadyList(doc, C, Append(old, t))
<1> DEFINE list == Append(old, t)
<1>1. Added(list, old, t)
  BY ToldAppend
<1> HIDE DEF list
<1>2. ASSUME NEW m \in 1..Len(list) PROVE Steady(doc, C \cup Told(list, m - 1), list[m])
  <2>1. CASE m = Len(list)
    <3>1. m - 1 = Len(old)
      BY <1>1, <2>1 DEF Added
    <3>. QED
      BY <1>1, <2>1, <3>1 DEF Added
  <2>2. CASE m \in 1..Len(old)
    <3>1. m - 1 \in 0..Len(old) /\ list[m] = old[m]
      BY <1>1, <2>2 DEF Added
    <3>2. Told(list, m - 1) = Told(old, m - 1)
      BY <1>1, <3>1 DEF Added
    <3>. QED
      BY <2>2, <3>1, <3>2 DEF SteadyList
  <2>. QED
    BY <1>1, <2>1, <2>2 DEF Added
<1>3. SteadyList(doc, C, list)
  BY <1>2 DEF SteadyList
<1>. QED
  BY <1>3 DEF list

LEMMA OrderlyAppend ==
    ASSUME NEW doc, NEW C, NEW old \in Seq(Text), NEW t \in Text,
           Orderly(doc, C, old), Initial(doc, C \cup All(old) \cup Ink(t))
    PROVE  Orderly(doc, C, Append(old, t))
<1> DEFINE list == Append(old, t)
<1>1. Added(list, old, t)
  BY ToldAppend
<1> HIDE DEF list
<1>2. ASSUME NEW m \in 0..Len(list) PROVE Initial(doc, C \cup Told(list, m))
  <2>1. CASE m = Len(list)
    <3>1. C \cup Told(list, m) = C \cup All(old) \cup Ink(t)
      BY <1>1, <2>1 DEF Added, All
    <3>. QED
      BY <3>1
  <2>2. CASE m \in 0..Len(old)
    BY <1>1, <2>2 DEF Added, Orderly
  <2>. QED
    BY <1>1, <2>1, <2>2 DEF Added
<1>3. Orderly(doc, C, list)
  BY <1>2 DEF Orderly
<1>. QED
  BY <1>3 DEF list

\* A list that says what another says, and besides what is in C.
Says(list, old, C) == list \in Seq(Text) /\ All(list) = All(old) \cup C

LEMMA SteadyConcat ==
    ASSUME NEW doc, NEW C, NEW one \in Seq(Text), NEW two \in Seq(Text),
           SteadyList(doc, C, one), SteadyList(doc, C \cup All(one), two)
    PROVE  SteadyList(doc, C, one \o two) /\ Says(one \o two, one, All(two))
<1> DEFINE list == one \o two
           N == Len(one)
<1>1. /\ list \in Seq(Text) /\ N \in Nat /\ Len(two) \in Nat /\ Len(list) = N + Len(two)
      /\ \A m \in 1..N : list[m] = one[m]
      /\ \A m \in 1..Len(two) : list[N + m] = two[m]
  BY LenProperties
<1> HIDE DEF list
<1>2. ASSUME NEW m \in 0..N PROVE Told(list, m) = Told(one, m)
  <2>1. \A k \in 1..m : list[k] = one[k]
    BY <1>1
  <2>. QED
    BY <2>1 DEF Told
<1>3. ASSUME NEW m \in 0..Len(two) PROVE Told(list, N + m) = All(one) \cup Told(two, m)
  <2>1. ASSUME NEW c \in Told(list, N + m) PROVE c \in All(one) \cup Told(two, m)
    <3>1. PICK k \in 1..(N + m) : c \in Ink(list[k])
      BY DEF Told
    <3>2. CASE k \in 1..N
      BY <1>1, <3>1, <3>2 DEF Told, All, N
    <3>3. CASE k - N \in 1..m
      <4>1. k - N \in 1..Len(two) /\ N + (k - N) = k
        BY <1>1, <3>3
      <4>2. list[k] = two[k - N]
        BY <1>1, <4>1
      <4>. QED
        BY <3>1, <3>3, <4>2 DEF Told
    <3>. QED
      BY <1>1, <3>2, <3>3
  <2>2. ASSUME NEW c \in Told(two, m) PROVE c \in Told(list, N + m)
    <3>1. PICK k \in 1..m : c \in Ink(two[k])
      BY DEF Told
    <3>2. N + k \in 1..(N + m) /\ list[N + k] = two[k]
      BY <1>1
    <3>. QED
      BY <3>1, <3>2 DEF Told
  <2>3. ASSUME NEW c \in All(one) PROVE c \in Told(list, N + m)
    <3>1. PICK k \in 1..N : c \in Ink(one[k])
      BY DEF Told, All, N
    <3>2. k \in 1..(N + m) /\ list[k] = one[k]
      BY <1>1
    <3>. QED
      BY <3>1, <3>2 DEF Told
  <2>. QED
    BY <2>1, <2>2, <2>3
<1>4. ASSUME NEW m \in 1..Len(list) PROVE Steady(doc, C \cup Told(list, m - 1), list[m])
  <2>1. CASE m \in 1..N
    <3>1. m - 1 \in 0..N /\ list[m] = one[m]
      BY <1>1, <2>1
    <3>2. Told(list, m - 1) = Told(one, m - 1)
      BY <1>2, <3>1
    <3>. QED
      BY <2>1, <3>1, <3>2 DEF SteadyList, N
  <2>2. CASE m - N \in 1..Len(two)
    <3>1. m - N - 1 \in 0..Len(two) /\ N + (m - N) = m /\ N + (m - N - 1) = m - 1
      BY <1>1, <2>2
    <3>2. list[m] = two[m - N] /\ Told(list, m - 1) = All(one) \cup Told(two, m - N - 1)
      BY <1>1, <1>3, <2>2, <3>1
    <3>3. Steady(doc, (C \cup All(one)) \cup Told(two, m - N - 1), two[m - N])
      BY <2>2 DEF SteadyList
    <3>4. (C \cup All(one)) \cup Told(two, m - N - 1) = C \cup Told(list, m - 1)
      BY <3>2
    <3>. QED
      BY <3>2, <3>3, <3>4
  <2>. QED
    BY <1>1, <2>1, <2>2
<1>5. All(list) = All(one) \cup All(two)
  <2>1. Len(two) \in 0..Len(two)
    BY <1>1
  <2>. QED
    BY <1>1, <1>3, <2>1 DEF All
<1>. QED
  BY <1>1, <1>4, <1>5 DEF SteadyList, Says, list

-----------------------------------------------------------------------------
(* Chunking: segments.                                                     *)

LEMMA FlushSteady ==
    ASSUME NEW doc, NEW C, NEW pieces \in Seq(Text), NEW t \in Text,
           SteadyList(doc, C, pieces), Steady(doc, C \cup All(pieces), t)
    PROVE  SteadyList(doc, C, Flush(pieces, t)) /\ Says(Flush(pieces, t), pieces, Ink(t))
<1>1. TrimSpace(t) \in Text /\ Echo(TrimSpace(t), t) /\ (TrimSpace(t) = <<>> <=> Ink(t) = {})
  BY TrimEchoes
<1>2. CASE TrimSpace(t) = <<>>
  BY <1>1, <1>2 DEF Flush, Says
<1>3. CASE TrimSpace(t) # <<>>
  <2>1. Flush(pieces, t) = Append(pieces, TrimSpace(t))
    BY <1>3 DEF Flush
  <2>2. Steady(doc, C \cup All(pieces), TrimSpace(t))
    BY <1>1, EchoSteady
  <2>3. SteadyList(doc, C, Append(pieces, TrimSpace(t)))
    BY <1>1, <2>2, SteadyAppend
  <2>4. Added(Append(pieces, TrimSpace(t)), pieces, TrimSpace(t))
    BY <1>1, ToldAppend
  <2>. QED
    BY <1>1, <2>1, <2>3, <2>4 DEF Added, Echo, Says
<1>. QED
  BY <1>2, <1>3

\* What a loop over characters has made and is at goes on where C ends, and says D.
Reading == [done : Seq(Text), open : Text]
Reads(doc, C, s, D) ==
    /\ s \in Reading /\ SteadyList(doc, C, s.done) /\ Steady(doc, C \cup All(s.done), s.open)
    /\ All(s.done) \cup Ink(s.open) = D

LEMMA NothingRead ==
    ASSUME NEW doc, NEW C, Initial(doc, C), NEW done \in Seq(Text), SteadyList(doc, C, done),
           Initial(doc, C \cup All(done))
    PROVE  Reads(doc, C, [done |-> done, open |-> <<>>], All(done))
<1>1. <<>> \in Text /\ Len(<<>>) = 0
  BY EmptySeq DEF Text
<1>2. Ink(<<>>) = {} /\ InkTo(<<>>, 0) = {}
  BY <1>1, InkFacts
<1>3. Steady(doc, C \cup All(done), <<>>)
  <2>1. \A n \in 0..Len(<<>>) : n = 0
    BY <1>1
  <2>2. Initial(doc, (C \cup All(done)) \cup InkTo(<<>>, 0))
    BY <1>2
  <2>. QED
    BY <2>1, <2>2 DEF Steady
<1>. QED
  BY <1>1, <1>2, <1>3 DEF Reads, Reading

LEMMA BegunReads ==
    ASSUME NEW doc, NEW C, Initial(doc, C)
    PROVE  Reads(doc, C, Begun, {})
<1>1. <<>> \in Seq(Text) /\ Len(<<>>) = 0
  BY EmptySeq
<1>2. All(<<>>) = {}
  BY <1>1, ToldFacts DEF All
<1>3. SteadyList(doc, C, <<>>) /\ Initial(doc, C \cup All(<<>>))
  <2>1. C \cup All(<<>>) = C /\ 1..0 = {}
    BY <1>2
  <2>. QED
    BY <1>1, <2>1 DEF SteadyList
<1>4. Reads(doc, C, [done |-> <<>>, open |-> <<>>], All(<<>>))
  BY <1>1, <1>3, NothingRead
<1>. QED
  BY <1>2, <1>4 DEF Begun

LEMMA OneMoreRead ==
    ASSUME NEW doc, NEW C, NEW s, NEW D, Reads(doc, C, s, D), NEW c \in Character,
           NEW E, E = IF IsSpace(c) THEN D ELSE D \cup {c}, Initial(doc, C \cup E)
    PROVE  Reads(doc, C, [s EXCEPT !.open = Append(@, c)], E)
<1> DEFINE u == Append(s.open, c)
           B == C \cup All(s.done)
<1>1. s \in Reading /\ s.done \in Seq(Text) /\ s.open \in Text
  BY DEF Reads, Reading
<1>2. Longer(u, s.open, c)
  BY <1>1, InkAppend
<1>3. [s EXCEPT !.open = Append(@, c)] = [done |-> s.done, open |-> u]
  <2>1. s = [done |-> s.done, open |-> s.open]
    BY <1>1 DEF Reading
  <2> HIDE DEF u
  <2>2. [s EXCEPT !.open = u] = [done |-> s.done, open |-> u]
    BY <2>1
  <2>. QED
    BY <2>2 DEF u
<1> HIDE DEF u
<1>4. All(s.done) \cup Ink(u) = E
  BY <1>2 DEF Longer, Reads
<1>5. ASSUME NEW n \in 0..Len(u) PROVE Initial(doc, B \cup InkTo(u, n))
  <2>1. CASE n = Len(u)
    <3>1. B \cup InkTo(u, n) = C \cup E
      BY <1>4, <2>1 DEF Ink
    <3>. QED
      BY <3>1
  <2>2. CASE n \in 0..Len(s.open)
    BY <1>2, <2>2 DEF Longer, Reads, Steady
  <2>. QED
    BY <1>2, <2>1, <2>2 DEF Longer
<1>6. Steady(doc, B, u)
  BY <1>5 DEF Steady
<1>. QED
  BY <1>1, <1>2, <1>3, <1>4, <1>6 DEF Reads, Reading, Longer

LEMMA SentenceEnds ==
    ASSUME NEW doc, NEW C, Initial(doc, C), NEW s, NEW D, Reads(doc, C, s, D)
    PROVE  Reads(doc, C, EndSentence(s), D) /\ All(EndSentence(s).done) = D
<1> DEFINE done == Flush(s.done, s.open)
<1>1. /\ s.done \in Seq(Text) /\ s.open \in Text /\ SteadyList(doc, C, s.done)
      /\ Steady(doc, C \cup All(s.done), s.open) /\ All(s.done) \cup Ink(s.open) = D
  BY DEF Reads, Reading
<1>2. SteadyList(doc, C, done) /\ Says(done, s.done, Ink(s.open))
  BY <1>1, FlushSteady
<1>3. EndSentence(s) = [done |-> done, open |-> <<>>]
  BY DEF EndSentence
<1> HIDE DEF done
<1>d. All(done) = D /\ done \in Seq(Text)
  BY <1>1, <1>2 DEF Says
<1>4. Initial(doc, C \cup All(done))
  <2>1. (C \cup All(s.done)) \cup Ink(s.open) = C \cup All(done)
    BY <1>1, <1>d DEF Reads
  <2>2. Initial(doc, (C \cup All(s.done)) \cup Ink(s.open))
    BY <1>1, SteadyEnd DEF Reads
  <2>. QED
    BY <2>1, <2>2
<1>5. Reads(doc, C, [done |-> done, open |-> <<>>], All(done))
  BY <1>d, <1>2, <1>4, NothingRead
<1>. QED
  BY <1>d, <1>3, <1>5

LEMMA ReadSentenceReads ==
    ASSUME NEW doc, NEW C, Initial(doc, C), NEW p \in Text, Steady(doc, C, p), NEW n \in 1..Len(p),
           NEW s, Reads(doc, C, s, InkTo(p, n - 1))
    PROVE  Reads(doc, C, ReadSentence(s, p[n]), InkTo(p, n))
<1> DEFINE c == p[n]
           read == [s EXCEPT !.open = Append(@, c)]
<1>1. c \in Character /\ n \in 0..Len(p)
  BY ElementOfSeq, LenProperties DEF Text
<1>2. InkTo(p, n) = IF IsSpace(c) THEN InkTo(p, n - 1) ELSE InkTo(p, n - 1) \cup {c}
  BY InkGrows
<1>3. Initial(doc, C \cup InkTo(p, n))
  BY <1>1 DEF Steady
<1> HIDE DEF c
<1>4. Reads(doc, C, read, InkTo(p, n))
  BY <1>1, <1>2, <1>3, OneMoreRead
<1>5. ReadSentence(s, c) = IF IsSentenceBoundary(c) THEN EndSentence(read) ELSE read
  BY DEF ReadSentence
<1> HIDE DEF read
<1>6. Reads(doc, C, ReadSentence(s, c), InkTo(p, n))
  BY <1>4, <1>5, SentenceEnds
<1>. QED
  BY <1>6 DEF c

\* The sentences of a paragraph go on where the document was, and say what the paragraph says.
LEMMA SplitParagraphSteady ==
    ASSUME NEW doc, NEW C, NEW p \in Text, Steady(doc, C, p)
    PROVE  /\ SplitParagraph(p) \in Seq(Text) /\ SteadyList(doc, C, SplitParagraph(p))
           /\ All(SplitParagraph(p)) = Ink(p)
<1> DEFINE N == Len(p)
           Turn(s, n) == ReadSentence(s, p[n])
           Fits(f) == f = [n \in 0..N |-> IF n = 0 THEN Begun ELSE Turn(f[n - 1], n)]
           step == [z \in Reading \X (1..N) |-> Turn(z[1], z[2])]
           after == CHOOSE f : Fits(f)
<1>1. N \in Nat /\ 0 \in 0..N /\ N \in 0..N /\ Begun \in Reading /\ Initial(doc, C)
  <2>1. N \in Nat
    BY InkFacts
  <2>2. Begun \in Reading
    BY EmptySeq DEF Text, Reading, Begun
  <2>3. Initial(doc, C)
    BY SteadyEnd
  <2>. QED
    BY <2>1, <2>2, <2>3
<1>2. \A s \in Reading, n \in 1..N : Turn(s, n) \in Reading
  <2>1. ASSUME NEW s \in Reading, NEW n \in 1..N PROVE Turn(s, n) \in Reading
    <3> DEFINE read == [s EXCEPT !.open = Append(@, p[n])]
    <3>1. p[n] \in Character
      BY ElementOfSeq, LenProperties DEF Text
    <3>2. Append(s.open, p[n]) \in Text
      BY <3>1, AppendProperties DEF Text, Reading
    <3>3. read \in Reading
      BY <3>2 DEF Reading
    <3> HIDE DEF read
    <3>4. EndSentence(read) \in Reading
      <4>1. TrimSpace(read.open) \in Text /\ read.done \in Seq(Text)
        BY <3>3, TrimEchoes DEF Reading
      <4>2. Flush(read.done, read.open) \in Seq(Text)
        BY <4>1, AppendProperties DEF Flush
      <4>. QED
        BY <4>2, EmptySeq DEF EndSentence, Reading, Text
    <3>. QED
      BY <3>3, <3>4 DEF ReadSentence, read
  <2>. QED
    BY <2>1
<1>3. SplitParagraph(p) = EndSentence(after[N]).done
  BY DEF SplitParagraph
<1> HIDE DEF N, Turn, after
<1>4. step \in [Reading \X (1..N) -> Reading] /\ \A s \in Reading, n \in 1..N : step[<<s, n>>] = Turn(s, n)
  BY <1>2
<1> HIDE DEF step
<1>5. PICK f \in [0..N -> Reading] : Follows(f, Begun, N, step)
  BY <1>1, <1>4, Loops
<1>6. Fits(f)
  <2>1. \A n \in 0..N : f[n] = IF n = 0 THEN Begun ELSE Turn(f[n - 1], n)
    <3>1. ASSUME NEW n \in 1..N PROVE f[n] = Turn(f[n - 1], n)
      <4>1. f[n - 1] \in Reading
        BY <1>1, <1>5
      <4>. QED
        BY <1>4, <1>5, <4>1 DEF Follows
    <3>2. f[0] = Begun /\ \A n \in 0..N : n = 0 \/ n \in 1..N
      BY <1>1, <1>5 DEF Follows
    <3>. QED
      BY <3>1, <3>2
  <2>2. f = [n \in 0..N |-> f[n]]
    BY <1>5
  <2>. QED
    BY <2>1, <2>2, Zenon
<1>7. Fits(after)
  BY <1>6, Zenon DEF after
<1>8. after[0] = Begun /\ \A n \in 1..N : after[n] = Turn(after[n - 1], n)
  BY <1>1, <1>7
<1> DEFINE T == {n \in 0..N : Reads(doc, C, after[n], InkTo(p, n))}
<1>9. 0 \in T
  BY <1>1, <1>8, BegunReads, InkFacts
<1>10. ASSUME NEW n \in 1..N, n - 1 \in T PROVE n \in T
  <2>1. n \in 1..Len(p) /\ n \in 0..N /\ after[n] = ReadSentence(after[n - 1], p[n])
    BY <1>1, <1>8 DEF N, Turn
  <2>2. Reads(doc, C, after[n - 1], InkTo(p, n - 1))
    BY <1>10
  <2>. QED
    BY <1>1, <2>1, <2>2, ReadSentenceReads
<1> HIDE DEF T
<1>11. N \in T
  BY <1>1, <1>9, <1>10, UpTo
<1>12. Reads(doc, C, after[N], Ink(p))
  BY <1>11 DEF T, Ink, N
<1>13. Reads(doc, C, EndSentence(after[N]), Ink(p)) /\ All(EndSentence(after[N]).done) = Ink(p)
  BY <1>1, <1>12, SentenceEnds
<1>. QED
  BY <1>3, <1>13 DEF Reads, Reading

LEMMA SteadyItself ==
    ASSUME NEW p \in Text
    PROVE  Steady(p, Ink(p), p)
<1>1. \A n \in 0..Len(p) : InkTo(p, n) \subseteq Ink(p)
  BY InkFacts
<1>2. Initial(p, Ink(p))
  <2>1. \A i \in DOMAIN p : ~ IsSpace(p[i]) => p[i] \in Ink(p)
    BY LenProperties DEF Ink, InkTo, Text
  <2>. QED
    BY <2>1 DEF Initial
<1>3. ASSUME NEW n \in 0..Len(p) PROVE Initial(p, Ink(p) \cup InkTo(p, n))
  <2>1. Ink(p) \cup InkTo(p, n) = Ink(p)
    BY <1>1
  <2>. QED
    BY <1>2, <2>1
<1>. QED
  BY <1>3 DEF Steady

LEMMA SplitParagraphType ==
    ASSUME NEW p \in Text
    PROVE  SplitParagraph(p) \in Seq(Text)
BY SteadyItself, SplitParagraphSteady

LEMMA ParagraphEnds ==
    ASSUME NEW doc, NEW C, Initial(doc, C), NEW s, NEW D, Reads(doc, C, s, D)
    PROVE  Reads(doc, C, EndParagraph(s), D) /\ All(EndParagraph(s).done) = D
<1> DEFINE text == Normalized(s.open)
           more == SplitParagraph(text)
           done == s.done \o more
           B == C \cup All(s.done)
<1>1. /\ s.done \in Seq(Text) /\ s.open \in Text /\ SteadyList(doc, C, s.done)
      /\ Steady(doc, B, s.open) /\ All(s.done) \cup Ink(s.open) = D
  BY DEF Reads, Reading
<1>2. EndParagraph(s) = [done |-> done, open |-> <<>>]
  BY DEF EndParagraph
<1>3. text \in Text /\ Echo(text, s.open)
  BY <1>1, NormalizedEchoes
<1> HIDE DEF text
<1>4. Steady(doc, B, text)
  BY <1>1, <1>3, EchoSteady
<1>5. more \in Seq(Text) /\ SteadyList(doc, B, more) /\ All(more) = Ink(text)
  BY <1>3, <1>4, SplitParagraphSteady
<1> HIDE DEF more
<1>6. SteadyList(doc, C, done) /\ Says(done, s.done, All(more))
  BY <1>1, <1>5, SteadyConcat
<1> HIDE DEF done
<1>7. All(done) = D /\ done \in Seq(Text)
  BY <1>1, <1>3, <1>5, <1>6 DEF Says, Echo
<1>8. Initial(doc, C \cup All(done))
  <2>1. B \cup Ink(s.open) = C \cup All(done)
    BY <1>1, <1>7
  <2>2. Initial(doc, B \cup Ink(s.open))
    BY <1>1, SteadyEnd
  <2>. QED
    BY <2>1, <2>2
<1>9. Reads(doc, C, [done |-> done, open |-> <<>>], All(done))
  BY <1>6, <1>7, <1>8, NothingRead
<1>. QED
  BY <1>2, <1>7, <1>9

\* A document has each of its characters at its own place.
Document == {text \in Text : \A i \in DOMAIN text : text[i][2] = i}

LEMMA InitialOfDocument ==
    ASSUME NEW doc \in Document, NEW n \in 0..Len(doc)
    PROVE  Initial(doc, InkTo(doc, n))
<1>1. doc \in Text /\ Len(doc) \in Nat /\ DOMAIN doc = 1..Len(doc)
  BY LenProperties DEF Document, Text
<1>2. InkTo(doc, n) \subseteq Ink(doc)
  BY <1>1, InkFacts
<1>3. ASSUME NEW i \in DOMAIN doc, NEW j \in DOMAIN doc, i < j, ~ IsSpace(doc[i]), doc[j] \in InkTo(doc, n)
      PROVE  doc[i] \in InkTo(doc, n)
  <2>1. PICK k \in 1..n : doc[j] = doc[k]
    BY <1>3 DEF InkTo
  <2>2. k \in DOMAIN doc
    BY <1>1
  <2>3. doc[j][2] = j /\ doc[k][2] = k
    BY <2>2 DEF Document
  <2>4. i \in 1..n
    BY <1>1, <1>3, <2>1, <2>3
  <2>. QED
    BY <1>3, <2>4 DEF InkTo
<1>. QED
  BY <1>2, <1>3 DEF Initial

LEMMA ReadParagraphReads ==
    ASSUME NEW doc \in Document, NEW n \in 1..Len(doc),
           NEW s, Reads(doc, {}, s, InkTo(doc, n - 1))
    PROVE  Reads(doc, {}, ReadParagraph(s, doc[n]), InkTo(doc, n))
<1> DEFINE c == doc[n]
           read == [s EXCEPT !.open = Append(@, c)]
<1>1. doc \in Text /\ c \in Character /\ n \in 0..Len(doc) /\ 0 \in 0..Len(doc)
  BY ElementOfSeq, LenProperties DEF Document, Text
<1>2. InkTo(doc, n) = IF IsSpace(c) THEN InkTo(doc, n - 1) ELSE InkTo(doc, n - 1) \cup {c}
  BY <1>1, InkGrows
<1>3. Initial(doc, {} \cup InkTo(doc, n)) /\ Initial(doc, {})
  <2>1. InkTo(doc, 0) = {} /\ {} \cup InkTo(doc, n) = InkTo(doc, n)
    BY <1>1, InkFacts
  <2>2. Initial(doc, InkTo(doc, n)) /\ Initial(doc, InkTo(doc, 0))
    BY <1>1, InitialOfDocument
  <2>. QED
    BY <2>1, <2>2
<1>4. IsNewLine(c) => IsSpace(c)
  BY DEF IsNewLine, IsSpace
<1>5. ReadParagraph(s, c) = IF IsNewLine(c) THEN EndParagraph(s) ELSE read
  BY DEF ReadParagraph
<1> HIDE DEF c
<1>6. Reads(doc, {}, read, InkTo(doc, n))
  BY <1>1, <1>2, <1>3, OneMoreRead
<1>7. CASE IsNewLine(c)
  <2>1. InkTo(doc, n) = InkTo(doc, n - 1)
    BY <1>2, <1>4, <1>7
  <2>2. Reads(doc, {}, EndParagraph(s), InkTo(doc, n - 1))
    BY <1>3, ParagraphEnds
  <2>. QED
    BY <1>5, <1>7, <2>1, <2>2 DEF c
<1>8. CASE ~ IsNewLine(c)
  BY <1>5, <1>6, <1>8 DEF c
<1>. QED
  BY <1>7, <1>8

\* The segments of a document are in its order, character by character, and say what it says.
LEMMA SegmentsSteady ==
    ASSUME NEW doc \in Document
    PROVE  /\ SplitTextSegments(doc) \in Seq(Text) /\ SteadyList(doc, {}, SplitTextSegments(doc))
           /\ All(SplitTextSegments(doc)) = Ink(doc)
<1> DEFINE N == Len(doc)
           Turn(s, n) == ReadParagraph(s, doc[n])
           Fits(f) == f = [n \in 0..N |-> IF n = 0 THEN Begun ELSE Turn(f[n - 1], n)]
           step == [z \in Reading \X (1..N) |-> Turn(z[1], z[2])]
           after == CHOOSE f : Fits(f)
<1>1. doc \in Text /\ N \in Nat /\ 0 \in 0..N /\ N \in 0..N /\ Begun \in Reading /\ Initial(doc, {})
  <2>1. doc \in Text
    BY DEF Document
  <2>2. N \in Nat /\ InkTo(doc, 0) = {}
    BY <2>1, InkFacts
  <2>3. Begun \in Reading
    BY EmptySeq DEF Text, Reading, Begun
  <2>4. Initial(doc, InkTo(doc, 0))
    BY <2>2, InitialOfDocument
  <2>. QED
    BY <2>1, <2>2, <2>3, <2>4
<1>2. \A s \in Reading, n \in 1..N : Turn(s, n) \in Reading
  <2>1. ASSUME NEW s \in Reading, NEW n \in 1..N PROVE Turn(s, n) \in Reading
    <3>1. doc[n] \in Character
      BY <1>1, ElementOfSeq, LenProperties DEF Text
    <3>2. Append(s.open, doc[n]) \in Text
      BY <3>1, AppendProperties DEF Text, Reading
    <3>3. SplitParagraph(Normalized(s.open)) \in Seq(Text)
      BY NormalizedEchoes, SplitParagraphType DEF Reading
    <3>4. s.done \o SplitParagraph(Normalized(s.open)) \in Seq(Text)
      BY <3>3, ConcatProperties DEF Reading
    <3>. QED
      BY <3>2, <3>4, EmptySeq DEF ReadParagraph, EndParagraph, Reading, Text
  <2>. QED
    BY <2>1
<1>3. SplitTextSegments(doc) = EndParagraph(after[N]).done
  BY DEF SplitTextSegments
<1> HIDE DEF N, Turn, after
<1>4. /\ step \in [Reading \X (1..N) -> Reading]
      /\ \A s \in Reading, n \in 1..N : step[<<s, n>>] = Turn(s, n)
  BY <1>2
<1> HIDE DEF step
<1>5. PICK f \in [0..N -> Reading] : Follows(f, Begun, N, step)
  BY <1>1, <1>4, Loops
<1>6. Fits(f)
  <2>1. \A n \in 0..N : f[n] = IF n = 0 THEN Begun ELSE Turn(f[n - 1], n)
    <3>1. ASSUME NEW n \in 1..N PROVE f[n] = Turn(f[n - 1], n)
      <4>1. f[n - 1] \in Reading
        BY <1>1, <1>5
      <4>. QED
        BY <1>4, <1>5, <4>1 DEF Follows
    <3>2. f[0] = Begun /\ \A n \in 0..N : n = 0 \/ n \in 1..N
      BY <1>1, <1>5 DEF Follows
    <3>. QED
      BY <3>1, <3>2
  <2>2. f = [n \in 0..N |-> f[n]]
    BY <1>5
  <2>. QED
    BY <2>1, <2>2, Zenon
<1>7. Fits(after)
  BY <1>6, Zenon DEF after
<1>8. after[0] = Begun /\ \A n \in 1..N : after[n] = Turn(after[n - 1], n)
  BY <1>1, <1>7
<1> DEFINE T == {n \in 0..N : Reads(doc, {}, after[n], InkTo(doc, n))}
<1>9. 0 \in T
  <2>1. Reads(doc, {}, Begun, {}) /\ InkTo(doc, 0) = {}
    BY <1>1, BegunReads, InkFacts
  <2>. QED
    BY <1>1, <1>8, <2>1
<1>10. ASSUME NEW n \in 1..N, n - 1 \in T PROVE n \in T
  <2>1. n \in 1..Len(doc) /\ n \in 0..N /\ after[n] = ReadParagraph(after[n - 1], doc[n])
    BY <1>1, <1>8 DEF N, Turn
  <2>2. Reads(doc, {}, after[n - 1], InkTo(doc, n - 1))
    BY <1>10
  <2>. QED
    BY <2>1, <2>2, ReadParagraphReads
<1> HIDE DEF T
<1>11. N \in T
  BY <1>1, <1>9, <1>10, UpTo
<1>12. Reads(doc, {}, after[N], Ink(doc))
  BY <1>11 DEF T, Ink, N
<1>13. Reads(doc, {}, EndParagraph(after[N]), Ink(doc)) /\ All(EndParagraph(after[N]).done) = Ink(doc)
  BY <1>1, <1>12, ParagraphEnds
<1>. QED
  BY <1>3, <1>13 DEF Reads, Reading

-----------------------------------------------------------------------------
(* Chunking: the parts of a long segment.                                  *)

\* No text of the list is longer.
AtMost(list, most) == \A m \in 1..Len(list) : Len(list[m]) <= most

LEMMA FlushOrderly ==
    ASSUME NEW doc, NEW C, NEW pieces \in Seq(Text), NEW t \in Text, NEW most \in Nat,
           Orderly(doc, C, pieces), Initial(doc, C \cup All(pieces) \cup Ink(t)),
           AtMost(pieces, most), Len(t) <= most
    PROVE  /\ Orderly(doc, C, Flush(pieces, t)) /\ AtMost(Flush(pieces, t), most)
           /\ Says(Flush(pieces, t), pieces, Ink(t))
<1> DEFINE u == TrimSpace(t)
           list == Append(pieces, u)
<1>1. /\ u \in Text /\ Ink(u) = Ink(t) /\ (u = <<>> <=> Ink(t) = {}) /\ Len(u) <= Len(t)
      /\ Len(u) \in Nat /\ Len(t) \in Nat
  BY TrimEchoes, InkFacts DEF Echo
<1>2. Flush(pieces, t) = IF u = <<>> THEN pieces ELSE list
  BY DEF Flush
<1> HIDE DEF u
<1>3. CASE u = <<>>
  <2>1. Ink(t) = {} /\ Flush(pieces, t) = pieces
    BY <1>1, <1>2, <1>3
  <2>. QED
    BY <2>1 DEF Says
<1>4. CASE u # <<>>
  <2>1. Added(list, pieces, u)
    BY <1>1, ToldAppend
  <2>2. Initial(doc, C \cup All(pieces) \cup Ink(u))
    BY <1>1
  <2>3. Orderly(doc, C, list)
    BY <1>1, <2>2, OrderlyAppend
  <2>4. ASSUME NEW m \in 1..Len(list) PROVE Len(list[m]) <= most
    <3>1. CASE m = Len(list)
      BY <1>1, <2>1, <3>1 DEF Added
    <3>2. CASE m \in 1..Len(pieces)
      BY <2>1, <3>2 DEF Added, AtMost
    <3>. QED
      BY <2>1, <3>1, <3>2 DEF Added
  <2>5. AtMost(list, most)
    BY <2>4 DEF AtMost
  <2>6. Says(list, pieces, Ink(t))
    BY <1>1, <2>1 DEF Added, Says
  <2>. QED
    BY <1>2, <1>4, <2>3, <2>5, <2>6
<1>. QED
  BY <1>3, <1>4

\* Where a part that begins after start ends.
EndsIn(t, start, size, b) ==
    /\ b \in 0..Len(t) /\ start + 1 <= b /\ b <= start + size + 1
    /\ b >= start + size \/ b = Len(t)

LEMMA CutEndFacts ==
    ASSUME NEW t, Len(t) \in Nat, NEW start \in Nat, start < Len(t), NEW size \in Nat \ {0}
    PROVE  EndsIn(t, start, size, CutEnd(t, start, size))
<1> DEFINE b == CutEnd(t, start, size)
<1>1. \/ start + size > Len(t) /\ b = Len(t)
      \/ start + size < Len(t) /\ b = start + size + 1
      \/ start + size <= Len(t) /\ b = start + size
  BY DEF CutEnd
<1> HIDE DEF b
<1>2. EndsIn(t, start, size, b)
  BY <1>1 DEF EndsIn
<1>. QED
  BY <1>2 DEF b

\* After n parts of t, the parts say what t says up to some place: just before the next part
\* begins or, when the last took a boundary in, just after.
Cutting == [done : Seq(Text), start : Nat]
CutTo(doc, C, t, size, n, s) ==
    /\ s \in Cutting /\ Orderly(doc, C, s.done) /\ AtMost(s.done, size + 1)
    /\ s.start >= n \/ s.start >= Len(t)
    /\ \E e \in 0..Len(t) : /\ e <= s.start + 1 /\ (e >= s.start \/ e = Len(t))
                            /\ All(s.done) = InkTo(t, e)

LEMMA CutCuts ==
    ASSUME NEW doc, NEW C, NEW t \in Text, Steady(doc, C, t), NEW size \in Nat \ {0},
           NEW n \in 1..Len(t), NEW s, CutTo(doc, C, t, size, n - 1, s)
    PROVE  CutTo(doc, C, t, size, n, Cut(s, t, size))
<1>1. Len(t) \in Nat /\ s.done \in Seq(Text) /\ s.start \in Nat
  BY InkFacts DEF CutTo, Cutting
<1>2. CASE s.start >= Len(t)
  <2>1. Cut(s, t, size) = s
    BY <1>2 DEF Cut
  <2>. QED
    BY <1>2, <2>1 DEF CutTo
<1>3. CASE s.start < Len(t)
  <2> DEFINE a == s.start + 1
             b == CutEnd(t, s.start, size)
             u == SubSeq(t, a, b)
             done == Flush(s.done, u)
  <2>1. Cut(s, t, size) = [done |-> done, start |-> s.start + size]
    BY <1>1, <1>3 DEF Cut, TakePart
  <2>2. /\ a \in 1..(Len(t) + 1) /\ b \in 0..Len(t) /\ a <= b /\ a <= b + 1 /\ a - 1 = s.start
        /\ b <= s.start + size + 1 /\ (b >= s.start + size \/ b = Len(t)) /\ b + 1 - a <= size + 1
    <3>1. EndsIn(t, s.start, size, b)
      BY <1>1, <1>3, CutEndFacts
    <3> HIDE DEF b
    <3>. QED
      BY <1>1, <1>3, <3>1 DEF EndsIn
  <2> HIDE DEF b
  <2>3. Piece(u, t, a, b)
    BY <2>2, InkSub
  <2> HIDE DEF u
  <2>4. PICK e \in 0..Len(t) : /\ e <= s.start + 1 /\ (e >= s.start \/ e = Len(t))
                               /\ All(s.done) = InkTo(t, e)
    BY DEF CutTo
  <2>5. InkTo(t, s.start) \subseteq InkTo(t, e) /\ InkTo(t, e) \subseteq InkTo(t, b)
    <3>1. s.start <= e /\ e <= b
      BY <1>1, <1>3, <2>2, <2>4
    <3>2. 1..s.start \subseteq 1..e /\ 1..e \subseteq 1..b
      <4>1. s.start \in Int /\ e \in Int /\ b \in Int
        BY <1>1, <2>2, <2>4
      <4>. QED
        BY <3>1, <4>1
    <3>. QED
      BY <3>2 DEF InkTo
  <2>6. All(s.done) \cup Ink(u) = InkTo(t, b)
    <3>1. InkTo(t, b) = InkTo(t, s.start) \cup Ink(u)
      BY <2>2, <2>3 DEF Piece
    <3>. QED
      BY <2>4, <2>5, <3>1
  <2>7. Initial(doc, C \cup All(s.done) \cup Ink(u))
    <3>1. Initial(doc, C \cup InkTo(t, b))
      BY <2>2 DEF Steady
    <3>2. C \cup All(s.done) \cup Ink(u) = C \cup InkTo(t, b)
      BY <2>6
    <3>. QED
      BY <3>1, <3>2
  <2>8. /\ Orderly(doc, C, done) /\ AtMost(done, size + 1) /\ Says(done, s.done, Ink(u))
    <3>1. u \in Text /\ Len(u) <= size + 1 /\ size + 1 \in Nat
      BY <2>2, <2>3 DEF Piece
    <3>2. Orderly(doc, C, s.done) /\ AtMost(s.done, size + 1)
      BY DEF CutTo
    <3>. QED
      BY <1>1, <2>7, <3>1, <3>2, FlushOrderly
  <2> HIDE DEF done
  <2>9. done \in Seq(Text) /\ All(done) = InkTo(t, b)
    BY <2>6, <2>8 DEF Says
  <2>10. s.start + size >= n \/ s.start + size >= Len(t)
    BY <1>1 DEF CutTo
  <2>11. [done |-> done, start |-> s.start + size] \in Cutting
    BY <1>1, <2>9 DEF Cutting
  <2> DEFINE next == [done |-> done, start |-> s.start + size]
  <2>12. next.done = done /\ next.start = s.start + size /\ next \in Cutting
    BY <2>11
  <2> HIDE DEF next
  <2>13. CutTo(doc, C, t, size, n, next)
    <3>1. b <= next.start + 1 /\ (b >= next.start \/ b = Len(t)) /\ All(next.done) = InkTo(t, b)
      BY <1>1, <2>2, <2>9, <2>12
    <3>. QED
      BY <2>2, <2>8, <2>10, <2>12, <3>1 DEF CutTo
  <2>. QED
    BY <2>1, <2>13 DEF next
<1>. QED
  BY <1>1, <1>2, <1>3

\* The parts are in the segment's order, say what it says, and are hardly longer than the size.
LEMMA PartsOrderly ==
    ASSUME NEW doc, NEW C, NEW t \in Text, Steady(doc, C, t), NEW size \in Nat \ {0}
    PROVE  /\ SplitLongSegment(t, size) \in Seq(Text) /\ Orderly(doc, C, SplitLongSegment(t, size))
           /\ AtMost(SplitLongSegment(t, size), size + 1)
           /\ All(SplitLongSegment(t, size)) = Ink(t)
<1> DEFINE N == Len(t)
           first == [done |-> <<>>, start |-> 0]
           Fits(f) == f = [n \in 0..N |-> IF n = 0 THEN first ELSE Cut(f[n - 1], t, size)]
           step == [z \in Cutting \X (1..N) |-> Cut(z[1], t, size)]
           after == CHOOSE f : Fits(f)
<1>1. N \in Nat /\ 0 \in 0..N /\ N \in 0..N /\ first \in Cutting /\ Initial(doc, C)
  <2>1. N \in Nat
    BY InkFacts
  <2>2. first \in Cutting
    BY EmptySeq DEF Cutting
  <2>3. Initial(doc, C)
    BY SteadyEnd
  <2>. QED
    BY <2>1, <2>2, <2>3
<1>2. \A s \in Cutting, n \in 1..N : Cut(s, t, size) \in Cutting
  <2>1. ASSUME NEW s \in Cutting, s.start < Len(t) PROVE TakePart(s, t, size) \in Cutting
    <3> DEFINE b == CutEnd(t, s.start, size)
               u == SubSeq(t, s.start + 1, b)
    <3>1. s.done \in Seq(Text) /\ s.start \in Nat
      BY DEF Cutting
    <3>2. b \in 0..Len(t) /\ s.start + 1 <= b
      <4>1. EndsIn(t, s.start, size, b)
        BY <1>1, <2>1, <3>1, CutEndFacts
      <4>. QED
        BY <4>1 DEF EndsIn
    <3> HIDE DEF b
    <3>3. Piece(u, t, s.start + 1, b)
      <4>1. s.start + 1 \in 1..(Len(t) + 1) /\ s.start + 1 <= b + 1
        BY <1>1, <2>1, <3>1, <3>2
      <4>. QED
        BY <3>2, <4>1, InkSub
    <3> HIDE DEF u
    <3>4. TrimSpace(u) \in Text
      BY <3>3, TrimEchoes DEF Piece
    <3>5. Flush(s.done, u) \in Seq(Text) /\ s.start + size \in Nat
      BY <3>1, <3>4, AppendProperties DEF Flush
    <3>6. TakePart(s, t, size) = [done |-> Flush(s.done, u), start |-> s.start + size]
      BY DEF TakePart, u, b
    <3>. QED
      BY <3>5, <3>6 DEF Cutting
  <2>2. ASSUME NEW s \in Cutting PROVE Cut(s, t, size) \in Cutting
    <3>1. Cut(s, t, size) = s \/ (s.start < Len(t) /\ Cut(s, t, size) = TakePart(s, t, size))
      BY <1>1 DEF Cut, Cutting
    <3>. QED
      BY <2>1, <3>1
  <2>. QED
    BY <2>2
<1>3. SplitLongSegment(t, size) = after[N].done
  BY DEF SplitLongSegment
<1>4. first.done = <<>> /\ first.start = 0
  OBVIOUS
<1> HIDE DEF N, first, after
<1>5. /\ step \in [Cutting \X (1..N) -> Cutting]
      /\ \A s \in Cutting, n \in 1..N : step[<<s, n>>] = Cut(s, t, size)
  BY <1>2
<1> HIDE DEF step
<1>6. PICK f \in [0..N -> Cutting] : Follows(f, first, N, step)
  BY <1>1, <1>5, Loops
<1>7. Fits(f)
  <2>1. \A n \in 0..N : f[n] = IF n = 0 THEN first ELSE Cut(f[n - 1], t, size)
    <3>1. ASSUME NEW n \in 1..N PROVE f[n] = Cut(f[n - 1], t, size)
      <4>1. f[n - 1] \in Cutting
        BY <1>1, <1>6
      <4>. QED
        BY <1>5, <1>6, <4>1 DEF Follows
    <3>2. f[0] = first /\ \A n \in 0..N : n = 0 \/ n \in 1..N
      BY <1>1, <1>6 DEF Follows
    <3>. QED
      BY <3>1, <3>2
  <2>2. f = [n \in 0..N |-> f[n]]
    BY <1>6
  <2>. QED
    BY <2>1, <2>2, Zenon
<1>8. Fits(after)
  BY <1>7, Zenon DEF after
<1>9. after[0] = first /\ \A n \in 1..N : after[n] = Cut(after[n - 1], t, size)
  BY <1>1, <1>8
<1> DEFINE T == {n \in 0..N : CutTo(doc, C, t, size, n, after[n])}
<1>10. 0 \in T
  <2>1. <<>> \in Seq(Text) /\ Len(<<>>) = 0 /\ InkTo(t, 0) = {} /\ 0 \in 0..Len(t)
    BY <1>1, EmptySeq, InkFacts DEF N
  <2>2. All(<<>>) = {} /\ Told(<<>>, 0) = {}
    BY <2>1, ToldFacts DEF All
  <2>3. Orderly(doc, C, <<>>)
    <3>1. \A n \in 0..Len(<<>>) : n = 0
      BY <2>1
    <3>2. Initial(doc, C \cup Told(<<>>, 0))
      BY <1>1, <2>2
    <3>. QED
      BY <3>1, <3>2 DEF Orderly
  <2>4. AtMost(<<>>, size + 1)
    BY <2>1 DEF AtMost
  <2>5. All(first.done) = InkTo(t, 0)
    BY <1>4, <2>1, <2>2
  <2>6. CutTo(doc, C, t, size, 0, first)
    BY <1>1, <1>4, <2>1, <2>3, <2>4, <2>5 DEF CutTo
  <2>. QED
    BY <1>1, <1>9, <2>6
<1>11. ASSUME NEW n \in 1..N, n - 1 \in T PROVE n \in T
  <2>1. n \in 1..Len(t) /\ n \in 0..N /\ after[n] = Cut(after[n - 1], t, size)
    BY <1>1, <1>9 DEF N
  <2>2. CutTo(doc, C, t, size, n - 1, after[n - 1])
    BY <1>11
  <2>. QED
    BY <2>1, <2>2, CutCuts
<1> HIDE DEF T
<1>12. N \in T
  BY <1>1, <1>10, <1>11, UpTo
<1>13. CutTo(doc, C, t, size, N, after[N])
  BY <1>12 DEF T
<1>14. All(after[N].done) = Ink(t)
  <2>1. PICK e \in 0..Len(t) : /\ e >= after[N].start \/ e = Len(t)
                               /\ All(after[N].done) = InkTo(t, e)
    BY <1>13 DEF CutTo
  <2>2. after[N].start \in Nat /\ after[N].start >= Len(t)
    BY <1>13 DEF CutTo, N, Cutting
  <2>3. e = Len(t)
    BY <1>1, <2>1, <2>2 DEF N
  <2>. QED
    BY <2>1, <2>3 DEF Ink
<1>. QED
  BY <1>3, <1>13, <1>14 DEF CutTo, Cutting

-----------------------------------------------------------------------------
(* Chunking: a chunk and the end of the one before.                        *)

LEMMA TwoNumbers ==
    ASSUME NEW x \in Int, NEW y \in Int
    PROVE  /\ Max({x, y}) = IF x >= y THEN x ELSE y
           /\ Min({x, y}) = IF x <= y THEN x ELSE y
<1>1. \A z \in {x, y} : (\A v \in {x, y} : z >= v) <=> z = IF x >= y THEN x ELSE y
  OBVIOUS
<1>2. \A z \in {x, y} : (\A v \in {x, y} : z <= v) <=> z = IF x <= y THEN x ELSE y
  OBVIOUS
<1>. QED
  BY <1>1, <1>2 DEF Max, Min

\* Another text at the end.
Joined(w, t, u) ==
    /\ w \in Text /\ Len(w) = Len(t) + Len(u) /\ Len(t) \in Nat /\ Len(u) \in Nat
    /\ \A i \in 1..Len(t) : w[i] = t[i]
    /\ \A i \in 1..Len(u) : w[Len(t) + i] = u[i]
    /\ Ink(w) = Ink(t) \cup Ink(u)

LEMMA InkConcat ==
    ASSUME NEW t \in Text, NEW u \in Text
    PROVE  Joined(t \o u, t, u)
<1> DEFINE w == t \o u
<1>1. /\ w \in Text /\ Len(w) = Len(t) + Len(u) /\ Len(t) \in Nat /\ Len(u) \in Nat
      /\ \A i \in 1..Len(t) : w[i] = t[i]
      /\ \A i \in 1..Len(u) : w[Len(t) + i] = u[i]
  BY LenProperties, ConcatProperties DEF Text
<1> HIDE DEF w
<1>2. ASSUME NEW c \in Ink(w) PROVE c \in Ink(t) \cup Ink(u)
  <2>1. PICK i \in 1..Len(w) : ~ IsSpace(w[i]) /\ c = w[i]
    BY DEF Ink, InkTo
  <2>2. CASE i \in 1..Len(t)
    BY <1>1, <2>1, <2>2 DEF Ink, InkTo
  <2>3. CASE i - Len(t) \in 1..Len(u)
    <3>1. w[i] = u[i - Len(t)]
      <4>1. Len(t) + (i - Len(t)) = i
        BY <1>1
      <4>. QED
        BY <1>1, <2>3, <4>1
    <3>. QED
      BY <2>1, <2>3, <3>1 DEF Ink, InkTo
  <2>. QED
    BY <1>1, <2>2, <2>3
<1>3. ASSUME NEW c \in Ink(t) PROVE c \in Ink(w)
  <2>1. PICK i \in 1..Len(t) : ~ IsSpace(t[i]) /\ c = t[i]
    BY DEF Ink, InkTo
  <2>2. i \in 1..Len(w) /\ w[i] = t[i]
    BY <1>1
  <2>. QED
    BY <2>1, <2>2 DEF Ink, InkTo
<1>4. ASSUME NEW c \in Ink(u) PROVE c \in Ink(w)
  <2>1. PICK i \in 1..Len(u) : ~ IsSpace(u[i]) /\ c = u[i]
    BY DEF Ink, InkTo
  <2>2. Len(t) + i \in 1..Len(w) /\ w[Len(t) + i] = u[i]
    BY <1>1
  <2>. QED
    BY <2>1, <2>2 DEF Ink, InkTo
<1>. QED
  BY <1>1, <1>2, <1>3, <1>4 DEF Joined, w

LEMMA InkOfNewLine == <<NewLine>> \in Text /\ Len(<<NewLine>>) = 1 /\ Ink(<<NewLine>>) = {}
<1>1. NewLine \in Character
  BY DEF NewLine, Character
<1>2. IsSpace(NewLine)
  BY DEF NewLine, IsSpace
<1>3. <<NewLine>> \in Text /\ Len(<<NewLine>>) = 1 /\ <<NewLine>>[1] = NewLine
  BY <1>1 DEF Text
<1>4. Ink(<<NewLine>>) = {}
  <2>1. \A i \in 1..Len(<<NewLine>>) : i = 1
    BY <1>3
  <2>. QED
    BY <1>2, <1>3, <2>1 DEF Ink, InkTo
<1>. QED
  BY <1>3, <1>4

\* Two texts with a new line between them.
Lined(w, t, u) ==
    /\ w \in Text /\ Len(w) = Len(t) + 1 + Len(u) /\ Len(t) \in Nat /\ Len(u) \in Nat
    /\ \A i \in 1..Len(t) : w[i] = t[i]
    /\ Ink(w) = Ink(t) \cup Ink(u)

LEMMA InkLined ==
    ASSUME NEW t \in Text, NEW u \in Text
    PROVE  Lined(t \o <<NewLine>> \o u, t, u)
<1> DEFINE v == t \o <<NewLine>>
           w == v \o u
<1>1. Joined(v, t, <<NewLine>>)
  BY InkConcat, InkOfNewLine
<1> HIDE DEF v
<1>2. Joined(w, v, u)
  BY <1>1, InkConcat DEF Joined
<1> HIDE DEF w
<1>3. Len(w) = Len(t) + 1 + Len(u) /\ Len(t) \in Nat /\ Len(u) \in Nat
  BY <1>1, <1>2, InkOfNewLine DEF Joined
<1>4. \A i \in 1..Len(t) : w[i] = t[i]
  <2>1. \A i \in 1..Len(t) : i \in 1..Len(v)
    BY <1>1, InkOfNewLine DEF Joined
  <2>. QED
    BY <1>1, <1>2, <2>1 DEF Joined
<1>5. Ink(w) = Ink(t) \cup Ink(u)
  BY <1>1, <1>2, InkOfNewLine DEF Joined
<1>6. Lined(w, t, u)
  BY <1>2, <1>3, <1>4, <1>5 DEF Lined, Joined
<1>. QED
  BY <1>6 DEF w, v

\* A text that has no space at its ends.
Trim(u) == Len(u) \in Nat \ {0} /\ ~ IsSpace(u[1]) /\ ~ IsSpace(u[Len(u)])

LEMMA TrimIsTrim ==
    ASSUME NEW t \in Text, Ink(t) # {}
    PROVE  Trim(TrimSpace(t))
<1> DEFINE u == TrimSpace(t)
<1>1. PICK a \in 1..Len(t), b \in 1..Len(t) :
         a <= b /\ u = SubSeq(t, a, b) /\ ~ IsSpace(t[a]) /\ ~ IsSpace(t[b])
  BY TrimCuts
<1> HIDE DEF u
<1>2. Len(t) \in Nat
  BY InkFacts
<1>3. Piece(u, t, a, b)
  <2>1. a \in 1..(Len(t) + 1) /\ b \in 0..Len(t) /\ a <= b + 1
    BY <1>1, <1>2
  <2>. QED
    BY <1>1, <2>1, InkSub
<1>4. Len(u) = b + 1 - a /\ Len(u) \in Nat \ {0}
  BY <1>1, <1>2, <1>3 DEF Piece
<1>5. u[1] = t[a] /\ u[Len(u)] = t[b]
  <2>1. 1 \in 1..Len(u) /\ Len(u) \in 1..Len(u) /\ a + 1 - 1 = a /\ a + Len(u) - 1 = b
    BY <1>1, <1>4
  <2>. QED
    BY <1>3, <2>1 DEF Piece
<1>. QED
  BY <1>1, <1>4, <1>5 DEF Trim, u

LEMMA TrimStays ==
    ASSUME NEW t \in Text, Trim(t)
    PROVE  TrimSpace(t) = t
<1>1. Len(t) \in Nat \ {0} /\ 1 \in 1..Len(t) /\ Len(t) \in 1..Len(t)
  BY DEF Trim
<1>2. t[1] \in Ink(t)
  BY <1>1 DEF Trim, Ink, InkTo
<1>3. PICK a \in 1..Len(t), b \in 1..Len(t) :
         /\ TrimSpace(t) = SubSeq(t, a, b)
         /\ \A i \in 1..Len(t) : i < a \/ i > b => IsSpace(t[i])
  BY <1>2, TrimCuts
<1>4. a = 1 /\ b = Len(t)
  <2>1. ~ (1 < a) /\ ~ (Len(t) > b)
    BY <1>1, <1>3 DEF Trim
  <2>. QED
    BY <1>1, <2>1
<1>5. SubSeq(t, 1, Len(t)) = t
  BY SubSeqFull DEF Text
<1>. QED
  BY <1>3, <1>4, <1>5

\* TailRunes keeps no more than it is asked for, and ends where the text does.
LEMMA TailFacts ==
    ASSUME NEW t \in Text, NEW k \in Nat, NEW u, u = TailRunes(t, k)
    PROVE  /\ u \in Text /\ Len(u) \in 0..k /\ Ink(u) \subseteq Ink(t)
           /\ Len(u) # 0 => ~ IsSpace(u[Len(u)])
<1> DEFINE r == TrimSpace(t)
           a == Max({Len(r) - k, 0}) + 1
           b == Len(r)
<1>1. r \in Text /\ Ink(r) = Ink(t) /\ b \in Nat /\ (b # 0 => ~ IsSpace(r[b]))
  <2>1. r \in Text /\ Ink(r) = Ink(t) /\ b \in Nat
    BY TrimEchoes, InkFacts DEF Echo
  <2>2. ASSUME b # 0 PROVE Trim(r)
    <3>1. Ink(t) # {}
      BY <2>2, TrimCuts
    <3>. QED
      BY <3>1, TrimIsTrim
  <2>. QED
    BY <2>1, <2>2 DEF Trim
<1>2. u = SubSeq(r, a, b)
  BY DEF TailRunes
<1> HIDE DEF r
<1>3. a \in 1..(b + 1) /\ b + 1 - a <= k
  BY <1>1, TwoNumbers
<1> HIDE DEF a
<1>4. Piece(u, r, a, b)
  <2>1. a \in 1..(Len(r) + 1) /\ b \in 0..Len(r) /\ a <= b + 1
    BY <1>1, <1>3
  <2>. QED
    BY <1>1, <1>2, <2>1, InkSub
<1>5. u \in Text /\ Len(u) = b + 1 - a /\ Len(u) \in 0..k
  BY <1>1, <1>3, <1>4 DEF Piece
<1>6. Ink(u) \subseteq Ink(t)
  BY <1>1, <1>4 DEF Piece, Ink
<1>7. ASSUME Len(u) # 0 PROVE ~ IsSpace(u[Len(u)])
  <2>1. Len(u) \in 1..Len(u) /\ a + Len(u) - 1 = b /\ b # 0
    BY <1>1, <1>3, <1>5, <1>7
  <2>2. u[Len(u)] = r[b]
    BY <1>4, <2>1 DEF Piece
  <2>. QED
    BY <1>1, <2>1, <2>2
<1>. QED
  BY <1>5, <1>6, <1>7

\* A trimmed text that begins with a tail begins with the trimmed tail.
LEMMA BeginsSo ==
    ASSUME NEW r \in Text, Trim(r), NEW u \in Text, HasPrefix(r, u),
           Len(u) # 0 => ~ IsSpace(u[Len(u)])
    PROVE  HasPrefix(r, TrimSpace(u))
<1>1. Len(u) \in Nat /\ Len(r) \in Nat \ {0} /\ DOMAIN u = 1..Len(u)
  BY LenProperties DEF Text, Trim
<1>2. CASE Len(u) = 0
  <2>1. Ink(u) = {}
    BY <1>1, <1>2 DEF Ink, InkTo
  <2>2. TrimSpace(u) = <<>>
    BY <2>1, TrimCuts
  <2>. QED
    BY <1>1, <2>2 DEF HasPrefix
<1>3. CASE Len(u) # 0
  <2>1. 1 \in DOMAIN u
    BY <1>1, <1>3
  <2>2. u[1][1] = r[1][1]
    BY <2>1 DEF HasPrefix
  <2>3. ~ IsSpace(u[1])
    BY <2>2 DEF IsSpace, Trim
  <2>4. Trim(u)
    BY <1>1, <1>3, <2>3 DEF Trim
  <2>. QED
    BY <2>4, TrimStays
<1>. QED
  BY <1>2, <1>3

\* So does one that the tail was put before.
LEMMA PutBefore ==
    ASSUME NEW w \in Text, NEW u \in Text, Len(u) \in 1..Len(w), \A i \in 1..Len(u) : w[i] = u[i],
           ~ IsSpace(u[Len(u)])
    PROVE  HasPrefix(TrimSpace(w), TrimSpace(u)) /\ Ink(w) # {}
<1>1. Len(u) \in Nat \ {0} /\ Len(w) \in Nat
  BY InkFacts
<1>2. u[Len(u)] \in Ink(u) /\ u[Len(u)] \in Ink(w)
  <2>1. Len(u) \in 1..Len(u) /\ w[Len(u)] = u[Len(u)]
    BY <1>1
  <2>. QED
    BY <1>1, <2>1 DEF Ink, InkTo
<1>3. PICK a \in 1..Len(u), b \in 1..Len(u) :
         /\ a <= b /\ TrimSpace(u) = SubSeq(u, a, b) /\ ~ IsSpace(u[a])
         /\ \A i \in 1..Len(u) : i < a \/ i > b => IsSpace(u[i])
  BY <1>2, TrimCuts
<1>4. PICK x \in 1..Len(w), y \in 1..Len(w) :
         /\ x <= y /\ TrimSpace(w) = SubSeq(w, x, y) /\ ~ IsSpace(w[x])
         /\ \A i \in 1..Len(w) : i < x \/ i > y => IsSpace(w[i])
  BY <1>2, TrimCuts
<1>5. x = a /\ b <= y /\ b = Len(u)
  <2>1. ~ (Len(u) > b)
    BY <1>1, <1>3
  <2>2. w[Len(u)] = u[Len(u)] /\ w[a] = u[a] /\ Len(u) \in 1..Len(w) /\ a \in 1..Len(w)
    BY <1>1
  <2>3. ~ (a < x) /\ ~ (Len(u) > y)
    BY <1>3, <1>4, <2>2
  <2>4. ~ (x < a)
    <3>1. ASSUME x < a PROVE FALSE
      <4>1. x \in 1..Len(u) /\ w[x] = u[x]
        BY <1>1, <3>1
      <4>. QED
        BY <1>3, <1>4, <3>1, <4>1
    <3>. QED
      BY <3>1
  <2>. QED
    BY <1>1, <2>1, <2>3, <2>4
<1> DEFINE s == TrimSpace(u)
           r == TrimSpace(w)
<1>6. Piece(s, u, a, b) /\ Piece(r, w, x, y)
  <2>1. a \in 1..(Len(u) + 1) /\ b \in 0..Len(u) /\ a <= b + 1
    BY <1>1, <1>3
  <2>2. x \in 1..(Len(w) + 1) /\ y \in 0..Len(w) /\ x <= y + 1
    BY <1>1, <1>4
  <2>. QED
    BY <1>3, <1>4, <2>1, <2>2, InkSub
<1> HIDE DEF s, r
<1>7. Len(s) <= Len(r) /\ DOMAIN s = 1..Len(s)
  <2>1. s \in Text
    BY <1>6 DEF Piece
  <2>2. DOMAIN s = 1..Len(s)
    BY <2>1, LenProperties DEF Text
  <2>. QED
    BY <1>1, <1>5, <1>6, <2>2 DEF Piece
<1>8. ASSUME NEW i \in 1..Len(s) PROVE s[i][1] = r[i][1]
  <2>1. i \in 1..Len(r) /\ a + i - 1 \in 1..Len(u)
    BY <1>1, <1>5, <1>6, <1>7 DEF Piece
  <2>2. s[i] = u[a + i - 1] /\ r[i] = w[a + i - 1]
    BY <1>5, <1>6, <2>1 DEF Piece
  <2>. QED
    BY <2>1, <2>2
<1>9. HasPrefix(r, s)
  BY <1>7, <1>8 DEF HasPrefix
<1>. QED
  BY <1>2, <1>9 DEF r, s

-----------------------------------------------------------------------------
(* Chunking: the chunks.                                                   *)

Room(tail) == IF tail = 0 THEN 0 ELSE tail + 1

\* Chunks in the document's order, as long as they may be, each with the end of the one before.
Fine(doc, list, size, tail) ==
    /\ list \in Seq(Text) /\ Orderly(doc, {}, list) /\ AtMost(list, size + 1 + Room(tail))
    /\ \A k \in 1..Len(list) : Ink(list[k]) # {}
    /\ \A k \in 2..Len(list) : HasPrefix(list[k], TrimSpace(TailRunes(list[k - 1], tail)))

LEMMA FineAppend ==
    ASSUME NEW doc, NEW size \in Nat, NEW tail \in Nat, NEW list, Fine(doc, list, size, tail),
           NEW r \in Text, Ink(r) # {}, Len(r) <= size + 1 + Room(tail),
           Initial(doc, All(list) \cup Ink(r)),
           list # <<>> => HasPrefix(r, TrimSpace(TailRunes(list[Len(list)], tail)))
    PROVE  Fine(doc, Append(list, r), size, tail)
<1> DEFINE new == Append(list, r)
<1>1. list \in Seq(Text) /\ Orderly(doc, {}, list)
  BY DEF Fine
<1>2. Added(new, list, r)
  BY <1>1, ToldAppend
<1>3. Orderly(doc, {}, new)
  <2>1. {} \cup All(list) \cup Ink(r) = All(list) \cup Ink(r)
    OBVIOUS
  <2>2. Initial(doc, {} \cup All(list) \cup Ink(r))
    BY <2>1
  <2>. QED
    BY <1>1, <2>2, OrderlyAppend
<1> HIDE DEF new
<1>4. ASSUME NEW k \in 1..Len(new) PROVE Ink(new[k]) # {} /\ Len(new[k]) <= size + 1 + Room(tail)
  <2>1. k = Len(new) \/ k \in 1..Len(list)
    BY <1>2 DEF Added
  <2>. QED
    BY <1>2, <2>1 DEF Added, Fine, AtMost
<1>5. ASSUME NEW k \in 2..Len(new)
      PROVE  HasPrefix(new[k], TrimSpace(TailRunes(new[k - 1], tail)))
  <2>1. CASE k \in 2..Len(list)
    <3>1. k \in 1..Len(list) /\ k - 1 \in 1..Len(list)
      BY <1>2, <2>1 DEF Added
    <3>2. new[k] = list[k] /\ new[k - 1] = list[k - 1]
      BY <1>2, <3>1 DEF Added
    <3>. QED
      BY <2>1, <3>2 DEF Fine
  <2>2. CASE k = Len(new)
    <3>1. k - 1 = Len(list) /\ Len(list) \in 1..Len(list)
      BY <1>2, <2>2 DEF Added
    <3>2. new[k - 1] = list[Len(list)] /\ new[k] = r
      BY <1>2, <2>2, <3>1 DEF Added
    <3>3. list # <<>>
      BY <3>1
    <3>. QED
      BY <3>2, <3>3
  <2>. QED
    BY <1>2, <2>1, <2>2 DEF Added
<1>6. AtMost(new, size + 1 + Room(tail))
  BY <1>4 DEF AtMost
<1>7. Fine(doc, new, size, tail)
  BY <1>2, <1>3, <1>4, <1>5, <1>6 DEF Fine, Added
<1>. QED
  BY <1>7 DEF new

LEMMA AppendChunkFine ==
    ASSUME NEW doc, NEW size \in Nat, NEW tail \in Nat, NEW list, Fine(doc, list, size, tail),
           NEW t \in Text, Len(t) <= size + 1, Initial(doc, All(list) \cup Ink(t))
    PROVE  Fine(doc, AppendChunk(list, t, tail), size, tail) /\ Says(AppendChunk(list, t, tail), list, Ink(t))
<1> DEFINE chunk == TrimSpace(t)
           last == list[Len(list)]
           u == IF list = <<>> THEN <<>> ELSE TailRunes(last, tail)
           w == u \o <<NewLine>> \o chunk
           new == AppendChunk(list, t, tail)
<1>1. /\ chunk \in Text /\ Ink(chunk) = Ink(t) /\ Len(chunk) <= Len(t) /\ (chunk = <<>> <=> Ink(t) = {})
      /\ Len(chunk) \in Nat /\ Len(t) \in Nat
  BY TrimEchoes, InkFacts DEF Echo
<1>2. list \in Seq(Text) /\ Len(list) \in Nat
  BY ToldFacts DEF Fine
<1>3. list # <<>> => last \in Text /\ Ink(last) # {} /\ Ink(last) \subseteq All(list)
  <2>1. ASSUME list # <<>> PROVE Len(list) \in 1..Len(list)
    BY <1>2, <2>1, EmptySeq
  <2>. QED
    BY <1>2, <2>1, ToldFacts DEF Fine, All, Told
<1>4. /\ u \in Text /\ Len(u) \in 0..tail /\ Ink(u) \subseteq All(list)
      /\ Len(u) # 0 => ~ IsSpace(u[Len(u)])
  <2>1. CASE list = <<>>
    BY <2>1, EmptySeq, InkFacts DEF Text
  <2>2. CASE list # <<>>
    <3>1. u = TailRunes(last, tail)
      BY <2>2
    <3> HIDE DEF u, last
    <3>. QED
      BY <1>3, <2>2, <3>1, TailFacts
  <2>. QED
    BY <2>1, <2>2
<1>5. new = IF chunk = <<>> THEN list
            ELSE IF HasPrefix(chunk, u) THEN Append(list, chunk) ELSE Append(list, TrimSpace(w))
  BY DEF AppendChunk, Last
<1>6. list # <<>> => u = TailRunes(last, tail)
  OBVIOUS
<1> HIDE DEF chunk, last, u, new
<1>7. CASE chunk = <<>>
  <2>1. new = list /\ Ink(t) = {}
    BY <1>1, <1>5, <1>7
  <2>2. Says(list, list, {})
    BY <1>2 DEF Says
  <2>. QED
    BY <2>1, <2>2 DEF new
<1>8. CASE chunk # <<>> /\ HasPrefix(chunk, u)
  <2>1. Trim(chunk)
    BY <1>1, <1>8, TrimIsTrim DEF chunk
  <2>2. HasPrefix(chunk, TrimSpace(u))
    BY <1>1, <1>4, <1>8, <2>1, BeginsSo
  <2>3. Len(chunk) <= size + 1 + Room(tail)
    BY <1>1 DEF Room
  <2>4. /\ Initial(doc, All(list) \cup Ink(chunk)) /\ Ink(chunk) # {}
        /\ list # <<>> => HasPrefix(chunk, TrimSpace(TailRunes(list[Len(list)], tail)))
    BY <1>1, <1>6, <1>8, <2>2 DEF last
  <2>5. Fine(doc, Append(list, chunk), size, tail)
    BY <1>1, <2>3, <2>4, FineAppend
  <2>6. Added(Append(list, chunk), list, chunk)
    BY <1>1, <1>2, ToldAppend
  <2>7. new = Append(list, chunk)
    BY <1>5, <1>8
  <2>8. Says(new, list, Ink(t))
    BY <1>1, <2>6, <2>7 DEF Says, Added
  <2>. QED
    BY <2>5, <2>7, <2>8 DEF new
<1>9. CASE chunk # <<>> /\ ~ HasPrefix(chunk, u)
  <2> DEFINE r == TrimSpace(w)
  <2>1. Len(u) # 0
    <3>1. ASSUME Len(u) = 0 PROVE HasPrefix(chunk, u)
      <4>1. DOMAIN u = 1..Len(u)
        BY <1>4, LenProperties DEF Text
      <4>. QED
        BY <1>1, <3>1, <4>1 DEF HasPrefix
    <3>. QED
      BY <1>9, <3>1
  <2>2. Lined(w, u, chunk)
    BY <1>1, <1>4, InkLined
  <2> HIDE DEF w
  <2>3. w \in Text /\ Len(u) \in 1..Len(w) /\ \A i \in 1..Len(u) : w[i] = u[i]
    BY <1>4, <2>1, <2>2 DEF Lined
  <2>4. HasPrefix(r, TrimSpace(u)) /\ Ink(w) # {}
    BY <1>4, <2>1, <2>3, PutBefore
  <2>5. r \in Text /\ Ink(r) = Ink(w) /\ Len(r) <= Len(w) /\ Len(r) \in Nat
    BY <2>3, TrimEchoes, InkFacts DEF Echo
  <2> HIDE DEF r
  <2>6. Len(r) <= size + 1 + Room(tail)
    <3>1. tail # 0 /\ Len(w) <= tail + 1 + size + 1
      BY <1>1, <1>4, <2>1, <2>2 DEF Lined
    <3>2. Len(w) \in Nat
      BY <1>1, <1>4, <2>2 DEF Lined
    <3>. QED
      BY <2>5, <3>1, <3>2 DEF Room
  <2>7. All(list) \cup Ink(r) = All(list) \cup Ink(t)
    BY <1>1, <1>4, <2>2, <2>5 DEF Lined
  <2>8. /\ Initial(doc, All(list) \cup Ink(r)) /\ Ink(r) # {}
        /\ list # <<>> => HasPrefix(r, TrimSpace(TailRunes(list[Len(list)], tail)))
    BY <1>6, <2>4, <2>5, <2>7 DEF last
  <2>9. Fine(doc, Append(list, r), size, tail)
    BY <2>5, <2>6, <2>8, FineAppend
  <2>10. Added(Append(list, r), list, r)
    BY <1>2, <2>5, ToldAppend
  <2>11. new = Append(list, r)
    BY <1>5, <1>9 DEF r
  <2>12. Says(new, list, Ink(t))
    BY <2>7, <2>10, <2>11 DEF Says, Added
  <2>. QED
    BY <2>9, <2>11, <2>12 DEF new
<1>. QED
  BY <1>7, <1>8, <1>9 DEF new

LEMMA AppendChunkType ==
    ASSUME NEW list \in Seq(Text), NEW t \in Text, NEW tail \in Nat
    PROVE  AppendChunk(list, t, tail) \in Seq(Text)
<1> DEFINE chunk == TrimSpace(t)
           last == list[Len(list)]
           u == IF list = <<>> THEN <<>> ELSE TailRunes(last, tail)
           w == u \o <<NewLine>> \o chunk
<1>1. chunk \in Text
  BY TrimEchoes
<1>2. u \in Text
  <2>1. CASE list = <<>>
    BY <2>1, EmptySeq DEF Text
  <2>2. CASE list # <<>>
    <3>1. Len(list) \in 1..Len(list)
      BY <2>2, ToldFacts, EmptySeq
    <3>2. last \in Text
      BY <3>1, ToldFacts
    <3>3. u = TailRunes(last, tail)
      BY <2>2
    <3> HIDE DEF u, last
    <3>. QED
      BY <3>2, <3>3, TailFacts
  <2>. QED
    BY <2>1, <2>2
<1>3. AppendChunk(list, t, tail) \in {list, Append(list, chunk), Append(list, TrimSpace(w))}
  BY DEF AppendChunk, Last
<1> HIDE DEF chunk, u
<1>4. TrimSpace(w) \in Text
  <2>1. Lined(w, u, chunk)
    BY <1>1, <1>2, InkLined
  <2>. QED
    BY <2>1, TrimEchoes DEF Lined
<1> HIDE DEF w
<1>. QED
  BY <1>1, <1>3, <1>4, AppendProperties

\* The loop over the parts.
PartsLoop(f, list, parts, tail) ==
    /\ f \in [0..Len(parts) -> Seq(Text)] /\ f[0] = list
    /\ \A n \in 1..Len(parts) : f[n] = AppendChunk(f[n - 1], parts[n], tail)

LEMMA PartsLoops ==
    ASSUME NEW list \in Seq(Text), NEW parts \in Seq(Text), NEW tail \in Nat
    PROVE  /\ \E f : PartsLoop(f, list, parts, tail) /\ AppendParts(list, parts, tail) = f[Len(parts)]
           /\ AppendParts(list, parts, tail) \in Seq(Text)
<1> DEFINE N == Len(parts)
           A == Seq(Text)
           Turn(q, n) == AppendChunk(q, parts[n], tail)
           Fits(f) == f = [n \in 0..N |-> IF n = 0 THEN list ELSE Turn(f[n - 1], n)]
           step == [z \in A \X (1..N) |-> Turn(z[1], z[2])]
           after == CHOOSE f : Fits(f)
<1>1. N \in Nat /\ 0 \in 0..N /\ N \in 0..N /\ list \in A
  BY ToldFacts
<1>2. \A q \in A, n \in 1..N : Turn(q, n) \in A
  <2>1. ASSUME NEW q \in A, NEW n \in 1..N PROVE Turn(q, n) \in A
    <3>1. parts[n] \in Text
      BY ToldFacts
    <3>. QED
      BY <3>1, AppendChunkType
  <2>. QED
    BY <2>1
<1>3. AppendParts(list, parts, tail) = after[N]
  BY DEF AppendParts
<1> HIDE DEF N, A, Turn, after
<1>4. /\ step \in [A \X (1..N) -> A]
      /\ \A q \in A, n \in 1..N : step[<<q, n>>] = Turn(q, n)
  BY <1>2
<1> HIDE DEF step
<1>5. PICK f \in [0..N -> A] : Follows(f, list, N, step)
  BY <1>1, <1>4, Loops
<1>6. Fits(f)
  <2>1. \A n \in 0..N : f[n] = IF n = 0 THEN list ELSE Turn(f[n - 1], n)
    <3>1. ASSUME NEW n \in 1..N PROVE f[n] = Turn(f[n - 1], n)
      <4>1. f[n - 1] \in A
        BY <1>1, <1>5
      <4>. QED
        BY <1>4, <1>5, <4>1 DEF Follows
    <3>2. f[0] = list /\ \A n \in 0..N : n = 0 \/ n \in 1..N
      BY <1>1, <1>5 DEF Follows
    <3>. QED
      BY <3>1, <3>2
  <2>2. f = [n \in 0..N |-> f[n]]
    BY <1>5
  <2>. QED
    BY <2>1, <2>2, Zenon
<1>7. Fits(after)
  BY <1>6, Zenon DEF after
<1>8. after[0] = list /\ \A n \in 1..N : after[n] = Turn(after[n - 1], n)
  BY <1>1, <1>7
<1> DEFINE T == {n \in 0..N : after[n] \in A}
<1>9. 0 \in T
  BY <1>1, <1>8
<1>10. ASSUME NEW n \in 1..N, n - 1 \in T PROVE n \in T
  BY <1>1, <1>2, <1>8, <1>10
<1> HIDE DEF T
<1>11. \A n \in 0..N : n \in T
  BY <1>1, <1>9, <1>10, UpTo
<1>12. after \in [0..N -> A]
  <2>1. \A n \in 0..N : after[n] \in A
    BY <1>11 DEF T
  <2>2. after = [n \in 0..N |-> after[n]]
    BY <1>7
  <2>. QED
    BY <2>1, <2>2
<1>13. PartsLoop(after, list, parts, tail)
  BY <1>8, <1>12 DEF PartsLoop, N, A, Turn
<1>14. after[N] \in A
  BY <1>1, <1>12
<1>. QED
  BY <1>3, <1>13, <1>14 DEF N, A

LEMMA AppendPartsFine ==
    ASSUME NEW doc, NEW size \in Nat, NEW tail \in Nat, NEW list, Fine(doc, list, size, tail),
           NEW parts \in Seq(Text), AtMost(parts, size + 1), Orderly(doc, All(list), parts)
    PROVE  /\ Fine(doc, AppendParts(list, parts, tail), size, tail)
           /\ Says(AppendParts(list, parts, tail), list, All(parts))
<1> DEFINE N == Len(parts)
<1>1. list \in Seq(Text) /\ N \in Nat /\ Told(parts, 0) = {}
  BY ToldFacts DEF Fine
<1>2. PICK f : PartsLoop(f, list, parts, tail) /\ AppendParts(list, parts, tail) = f[N]
  BY <1>1, PartsLoops
<1> DEFINE T == {n \in 0..N : Fine(doc, f[n], size, tail) /\ Says(f[n], list, Told(parts, n))}
<1>3. 0 \in T
  BY <1>1, <1>2 DEF PartsLoop, Says
<1>4. ASSUME NEW n \in 1..N, n - 1 \in T PROVE n \in T
  <2> DEFINE q == f[n - 1]
             t == parts[n]
  <2>1. Fine(doc, q, size, tail) /\ All(q) = All(list) \cup Told(parts, n - 1)
    BY <1>4 DEF Says
  <2>2. t \in Text /\ Told(parts, n) = Told(parts, n - 1) \cup Ink(t)
    BY ToldFacts
  <2>3. Len(t) <= size + 1
    BY DEF AtMost
  <2>4. n \in 0..N /\ f[n] = AppendChunk(q, t, tail)
    BY <1>1, <1>2 DEF PartsLoop
  <2>5. Initial(doc, All(list) \cup Told(parts, n))
    BY <2>4 DEF Orderly
  <2> HIDE DEF q, t
  <2>6. Initial(doc, All(q) \cup Ink(t))
    <3>1. All(q) \cup Ink(t) = All(list) \cup Told(parts, n)
      BY <2>1, <2>2
    <3>. QED
      BY <2>5, <3>1
  <2>7. Fine(doc, f[n], size, tail) /\ Says(f[n], q, Ink(t))
    BY <2>1, <2>2, <2>3, <2>4, <2>6, AppendChunkFine
  <2>8. Says(f[n], list, Told(parts, n))
    BY <2>1, <2>2, <2>7 DEF Says
  <2>. QED
    BY <2>4, <2>7, <2>8
<1> HIDE DEF T, N
<1>5. N \in T
  <2>1. N \in 0..N
    BY <1>1
  <2>. QED
    BY <1>1, <1>3, <1>4, <2>1, UpTo
<1>. QED
  BY <1>2, <1>5 DEF T, N, All

LEMMA TakeSegmentType ==
    ASSUME NEW s \in Reading, NEW segment \in Text, NEW size \in Nat \ {0}, NEW tail \in Nat
    PROVE  TakeSegment(s, segment, size, tail) \in Reading
<1> DEFINE joined == IF s.open = <<>> THEN segment ELSE s.open \o <<NewLine>> \o segment
           made == AppendChunk(s.done, s.open, tail)
           parts == SplitLongSegment(segment, size)
           all == AppendParts(made, parts, tail)
<1>1. s.done \in Seq(Text) /\ s.open \in Text
  BY DEF Reading
<1>2. made \in Seq(Text)
  BY <1>1, AppendChunkType
<1>3. joined \in Text
  <2>1. Lined(s.open \o <<NewLine>> \o segment, s.open, segment)
    BY <1>1, InkLined
  <2>. QED
    BY <2>1 DEF Lined
<1>4. parts \in Seq(Text)
  BY SteadyItself, PartsOrderly
<1>5. TakeSegment(s, segment, size, tail) \in
        {[done |-> all, open |-> <<>>], [s EXCEPT !.open = joined], [done |-> made, open |-> segment]}
  BY DEF TakeSegment
<1> HIDE DEF joined, made, parts
<1>6. all \in Seq(Text)
  BY <1>2, <1>4, PartsLoops
<1> HIDE DEF all
<1>7. <<>> \in Text
  BY EmptySeq DEF Text
<1>. QED
  BY <1>1, <1>2, <1>3, <1>5, <1>6, <1>7 DEF Reading

\* What is made and what waits are in the document's order, and say D.
Takes(doc, s, size, tail, D) ==
    /\ s \in Reading /\ Fine(doc, s.done, size, tail) /\ Len(s.open) <= size
    /\ All(s.done) \cup Ink(s.open) = D

LEMMA TakeSegmentTakes ==
    ASSUME NEW doc, NEW size \in Nat \ {0}, NEW tail \in Nat, NEW s, NEW D, Takes(doc, s, size, tail, D),
           NEW segment \in Text, Steady(doc, D, segment)
    PROVE  Takes(doc, TakeSegment(s, segment, size, tail), size, tail, D \cup Ink(segment))
<1> DEFINE joined == IF s.open = <<>> THEN segment ELSE s.open \o <<NewLine>> \o segment
           made == AppendChunk(s.done, s.open, tail)
           parts == SplitLongSegment(segment, size)
           all == AppendParts(made, parts, tail)
           next == TakeSegment(s, segment, size, tail)
<1>1. /\ s \in Reading /\ s.done \in Seq(Text) /\ s.open \in Text /\ Fine(doc, s.done, size, tail)
      /\ Len(s.open) <= size /\ All(s.done) \cup Ink(s.open) = D /\ Len(s.open) \in Nat
  BY InkFacts DEF Takes, Reading
<1>2. next \in Reading
  BY <1>1, TakeSegmentType
<1>3. Fine(doc, made, size, tail) /\ made \in Seq(Text) /\ All(made) = D
  <2>1. Initial(doc, All(s.done) \cup Ink(s.open))
    BY <1>1, SteadyEnd
  <2>2. Len(s.open) <= size + 1
    BY <1>1
  <2>3. Fine(doc, made, size, tail) /\ Says(made, s.done, Ink(s.open))
    BY <1>1, <2>1, <2>2, AppendChunkFine
  <2> HIDE DEF made
  <2>. QED
    BY <1>1, <2>3 DEF Says
<1>4. /\ Len(segment) > size => next = [done |-> all, open |-> <<>>]
      /\ Len(segment) <= size /\ Len(joined) <= size => next = [s EXCEPT !.open = joined]
      /\ Len(segment) <= size /\ ~ Len(joined) <= size => next = [done |-> made, open |-> segment]
  <2>1. Len(segment) \in Nat
    BY InkFacts
  <2>. QED
    BY <2>1 DEF TakeSegment
<1>5. Ink(joined) = Ink(s.open) \cup Ink(segment)
  <2>1. Lined(s.open \o <<NewLine>> \o segment, s.open, segment)
    BY <1>1, InkLined
  <2>2. s.open = <<>> => Ink(s.open) = {}
    BY <1>1, InkFacts
  <2>. QED
    BY <2>1, <2>2 DEF Lined
<1> HIDE DEF joined, made, next
<1>6. CASE Len(segment) > size
  <2>1. /\ parts \in Seq(Text) /\ Orderly(doc, D, parts) /\ AtMost(parts, size + 1)
        /\ All(parts) = Ink(segment)
    BY PartsOrderly
  <2> HIDE DEF parts
  <2>2. Fine(doc, all, size, tail) /\ Says(all, made, All(parts))
    BY <1>3, <2>1, AppendPartsFine
  <2> HIDE DEF all
  <2>3. next.done = all /\ next.open = <<>>
    BY <1>4, <1>6
  <2>4. Len(<<>>) = 0 /\ Ink(<<>>) = {}
    BY InkFacts
  <2>5. All(all) \cup {} = D \cup Ink(segment)
    BY <1>3, <2>1, <2>2 DEF Says
  <2>6. Takes(doc, next, size, tail, D \cup Ink(segment))
    BY <1>2, <2>2, <2>3, <2>4, <2>5 DEF Takes
  <2>. QED
    BY <2>6 DEF next
<1>7. CASE Len(segment) <= size /\ Len(joined) <= size
  <2>1. next.done = s.done /\ next.open = joined
    BY <1>1, <1>4, <1>7 DEF Reading
  <2>2. All(s.done) \cup Ink(joined) = D \cup Ink(segment)
    BY <1>1, <1>5
  <2>3. Takes(doc, next, size, tail, D \cup Ink(segment))
    BY <1>1, <1>2, <1>7, <2>1, <2>2 DEF Takes
  <2>. QED
    BY <2>3 DEF next
<1>8. CASE Len(segment) <= size /\ ~ Len(joined) <= size
  <2>1. next.done = made /\ next.open = segment
    BY <1>4, <1>8
  <2>2. Takes(doc, next, size, tail, D \cup Ink(segment))
    BY <1>2, <1>3, <1>8, <2>1 DEF Takes
  <2>. QED
    BY <2>2 DEF next
<1>9. Len(segment) \in Nat
  BY InkFacts
<1>. QED
  BY <1>6, <1>7, <1>8, <1>9

LEMMA ClampedIsNat ==
    ASSUME NEW size \in Nat \ {0}, NEW overlap \in Int
    PROVE  Clamped(size, overlap) \in Nat
<1> DEFINE m == Max({overlap, 0})
<1>1. m \in Nat
  BY TwoNumbers
<1>2. Clamped(size, overlap) = Min({m, size - 1})
  BY DEF Clamped
<1> HIDE DEF m
<1>3. size - 1 \in Nat
  OBVIOUS
<1>4. Min({m, size - 1}) \in {m, size - 1}
  BY <1>1, <1>3, TwoNumbers
<1>. QED
  BY <1>1, <1>2, <1>3, <1>4

\* The chunks of a document are in its order, and say what it says.
LEMMA ChunkTextFine ==
    ASSUME NEW doc \in Document, NEW size \in Nat \ {0}, NEW overlap \in Int
    PROVE  /\ Fine(doc, ChunkText(doc, size, overlap), size, Clamped(size, overlap))
           /\ All(ChunkText(doc, size, overlap)) = Ink(doc)
<1> DEFINE segments == SplitTextSegments(doc)
           tail == Clamped(size, overlap)
           N == Len(segments)
           Turn(s, n) == TakeSegment(s, segments[n], size, tail)
           Fits(f) == f = [n \in 0..N |-> IF n = 0 THEN Begun ELSE Turn(f[n - 1], n)]
           step == [z \in Reading \X (1..N) |-> Turn(z[1], z[2])]
           after == CHOOSE f : Fits(f)
<1>1. segments \in Seq(Text) /\ SteadyList(doc, {}, segments) /\ All(segments) = Ink(doc) /\ tail \in Nat
  BY SegmentsSteady, ClampedIsNat
<1>2. ChunkText(doc, size, overlap) = AppendChunk(after[N].done, after[N].open, tail)
  <2>1. ~ size <= 0
    OBVIOUS
  <2>. QED
    BY <2>1 DEF ChunkText
<1> HIDE DEF segments, tail
<1>3. N \in Nat /\ 0 \in 0..N /\ N \in 0..N /\ Begun \in Reading
  <2>1. N \in Nat
    BY <1>1, ToldFacts
  <2>2. Begun \in Reading
    BY EmptySeq DEF Text, Reading, Begun
  <2>. QED
    BY <2>1, <2>2
<1>4. \A s \in Reading, n \in 1..N : Turn(s, n) \in Reading
  <2>1. ASSUME NEW s \in Reading, NEW n \in 1..N PROVE Turn(s, n) \in Reading
    <3>1. segments[n] \in Text
      BY <1>1, ToldFacts
    <3>. QED
      BY <1>1, <3>1, TakeSegmentType
  <2>. QED
    BY <2>1
<1> HIDE DEF N, Turn, after
<1>5. /\ step \in [Reading \X (1..N) -> Reading]
      /\ \A s \in Reading, n \in 1..N : step[<<s, n>>] = Turn(s, n)
  BY <1>4
<1> HIDE DEF step
<1>6. PICK f \in [0..N -> Reading] : Follows(f, Begun, N, step)
  BY <1>3, <1>5, Loops
<1>7. Fits(f)
  <2>1. \A n \in 0..N : f[n] = IF n = 0 THEN Begun ELSE Turn(f[n - 1], n)
    <3>1. ASSUME NEW n \in 1..N PROVE f[n] = Turn(f[n - 1], n)
      <4>1. f[n - 1] \in Reading
        BY <1>3, <1>6
      <4>. QED
        BY <1>5, <1>6, <4>1 DEF Follows
    <3>2. f[0] = Begun /\ \A n \in 0..N : n = 0 \/ n \in 1..N
      BY <1>3, <1>6 DEF Follows
    <3>. QED
      BY <3>1, <3>2
  <2>2. f = [n \in 0..N |-> f[n]]
    BY <1>6
  <2>. QED
    BY <2>1, <2>2, Zenon
<1>8. Fits(after)
  BY <1>7, Zenon DEF after
<1>9. after[0] = Begun /\ \A n \in 1..N : after[n] = Turn(after[n - 1], n)
  BY <1>3, <1>8
<1> DEFINE T == {n \in 0..N : Takes(doc, after[n], size, tail, Told(segments, n))}
<1>10. 0 \in T
  <2>1. <<>> \in Text /\ <<>> \in Seq(Text) /\ Len(<<>>) = 0 /\ Ink(<<>>) = {}
    BY EmptySeq, InkFacts DEF Text
  <2>2. All(<<>>) = {} /\ Told(<<>>, 0) = {} /\ Told(segments, 0) = {}
    BY <1>1, <2>1, ToldFacts DEF All
  <2>3. Initial(doc, {})
    <3>1. doc \in Text
      BY DEF Document
    <3>2. InkTo(doc, 0) = {} /\ 0 \in 0..Len(doc)
      BY <3>1, InkFacts
    <3>3. Initial(doc, InkTo(doc, 0))
      BY <3>2, InitialOfDocument
    <3>. QED
      BY <3>2, <3>3
  <2>4. Orderly(doc, {}, <<>>)
    <3>1. \A n \in 0..Len(<<>>) : n = 0
      BY <2>1
    <3>2. Initial(doc, {} \cup Told(<<>>, 0))
      BY <2>2, <2>3
    <3>. QED
      BY <3>1, <3>2 DEF Orderly
  <2>5. Fine(doc, <<>>, size, tail)
    BY <2>1, <2>4 DEF Fine, AtMost
  <2>6. Begun.done = <<>> /\ Begun.open = <<>>
    BY DEF Begun
  <2>7. Takes(doc, Begun, size, tail, {})
    BY <1>3, <2>1, <2>2, <2>5, <2>6 DEF Takes
  <2>. QED
    BY <1>3, <1>9, <2>2, <2>7
<1>11. ASSUME NEW n \in 1..N, n - 1 \in T PROVE n \in T
  <2> DEFINE segment == segments[n]
             D == Told(segments, n - 1)
  <2>1. segment \in Text /\ Told(segments, n) = D \cup Ink(segment)
    BY <1>1, ToldFacts DEF N
  <2>2. Steady(doc, D, segment)
    <3>1. Steady(doc, {} \cup D, segment)
      BY <1>1 DEF SteadyList, N
    <3>2. {} \cup D = D
      OBVIOUS
    <3>. QED
      BY <3>1, <3>2
  <2>3. n \in 0..N /\ after[n] = TakeSegment(after[n - 1], segment, size, tail)
    BY <1>3, <1>9 DEF Turn
  <2>4. Takes(doc, after[n - 1], size, tail, D)
    BY <1>11
  <2> HIDE DEF segment, D
  <2>5. Takes(doc, after[n], size, tail, D \cup Ink(segment))
    BY <1>1, <2>1, <2>2, <2>3, <2>4, TakeSegmentTakes
  <2>. QED
    BY <2>1, <2>3, <2>5
<1> HIDE DEF T
<1>12. N \in T
  BY <1>3, <1>10, <1>11, UpTo
<1>13. Takes(doc, after[N], size, tail, Ink(doc))
  BY <1>1, <1>12 DEF T, All, N
<1> DEFINE end == after[N]
           chunks == AppendChunk(end.done, end.open, tail)
<1>14. /\ Fine(doc, end.done, size, tail) /\ end.open \in Text /\ Len(end.open) <= size
       /\ All(end.done) \cup Ink(end.open) = Ink(doc) /\ Len(end.open) \in Nat
  BY <1>13, InkFacts DEF Takes, Reading
<1>15. Initial(doc, All(end.done) \cup Ink(end.open))
  <2>1. doc \in Text
    BY DEF Document
  <2>2. Len(doc) \in 0..Len(doc)
    BY <2>1, InkFacts
  <2>3. Initial(doc, InkTo(doc, Len(doc)))
    BY <2>2, InitialOfDocument
  <2>. QED
    BY <1>14, <2>3 DEF Ink
<1> HIDE DEF end
<1>16. Fine(doc, chunks, size, tail) /\ Says(chunks, end.done, Ink(end.open))
  <2>1. Len(end.open) <= size + 1
    BY <1>14
  <2>. QED
    BY <1>1, <1>14, <1>15, <2>1, AppendChunkFine
<1> HIDE DEF chunks
<1>17. All(chunks) = Ink(doc)
  BY <1>14, <1>16 DEF Says
<1>18. ChunkText(doc, size, overlap) = chunks
  BY <1>2 DEF chunks, end
<1>. QED
  BY <1>16, <1>17, <1>18 DEF tail

LEMMA InkIsHeld ==
    ASSUME NEW t \in Text, NEW c, ~ IsSpace(c)
    PROVE  c \in ToSet(t) <=> c \in Ink(t)
<1>1. DOMAIN t = 1..Len(t)
  BY LenProperties DEF Text
<1>. QED
  BY <1>1 DEF ToSet, Ink, InkTo

\* ChunkText: no chunk of any document is blank or too long; each begins with what the one before
\* ends with; nothing the document says is lost; and nothing is said before what it says earlier.
THEOREM AnyTextIsKept ==
    ASSUME NEW doc \in Document, NEW size \in Nat \ {0}, NEW overlap \in Int
    PROVE  ChunkedWhole(doc, size, overlap)
<1> DEFINE chunks == ChunkText(doc, size, overlap)
           tail == Clamped(size, overlap)
           said == {i \in DOMAIN doc : ~ IsSpace(doc[i])}
           N == Len(chunks)
<1>1. Fine(doc, chunks, size, tail) /\ All(chunks) = Ink(doc) /\ tail \in Nat
  BY ChunkTextFine, ClampedIsNat
<1>2. ChunkedWhole(doc, size, overlap) <=>
        /\ \A k \in DOMAIN chunks :
             /\ TrimSpace(chunks[k]) # <<>>
             /\ Len(chunks[k]) <= size + 1 + (IF tail = 0 THEN 0 ELSE tail + 1)
             /\ k > 1 => HasPrefix(chunks[k], TrimSpace(TailRunes(chunks[k - 1], tail)))
        /\ \A i \in said : \E k \in DOMAIN chunks : doc[i] \in ToSet(chunks[k])
        /\ \A i, j \in said : i < j => Holder(chunks, doc[i]) <= Holder(chunks, doc[j])
  BY DEF ChunkedWhole
<1> HIDE DEF chunks, tail
<1>3. /\ chunks \in Seq(Text) /\ N \in Nat /\ DOMAIN chunks = 1..N
      /\ \A k \in 1..N : chunks[k] \in Text
  BY <1>1, ToldFacts, LenProperties DEF Fine
<1>4. doc \in Text /\ DOMAIN doc = 1..Len(doc)
  BY LenProperties DEF Document, Text
<1>5. ASSUME NEW k \in DOMAIN chunks
      PROVE  /\ TrimSpace(chunks[k]) # <<>>
             /\ Len(chunks[k]) <= size + 1 + (IF tail = 0 THEN 0 ELSE tail + 1)
             /\ k > 1 => HasPrefix(chunks[k], TrimSpace(TailRunes(chunks[k - 1], tail)))
  <2>1. k \in 1..N /\ Ink(chunks[k]) # {} /\ chunks[k] \in Text
    BY <1>1, <1>3 DEF Fine
  <2>2. TrimSpace(chunks[k]) # <<>>
    BY <2>1, TrimEchoes
  <2>3. Len(chunks[k]) <= size + 1 + (IF tail = 0 THEN 0 ELSE tail + 1)
    BY <1>1, <2>1 DEF Fine, AtMost, Room
  <2>4. ASSUME k > 1 PROVE k \in 2..N
    BY <1>3, <2>1, <2>4
  <2>. QED
    BY <1>1, <2>2, <2>3, <2>4 DEF Fine
<1>6. \A i \in said : doc[i] \in Ink(doc)
  BY <1>4 DEF Ink, InkTo
<1>7. ASSUME NEW i \in said, NEW n \in 0..N, doc[i] \in Told(chunks, n)
      PROVE  \E k \in 1..N : k <= n /\ doc[i] \in ToSet(chunks[k])
  <2>1. PICK k \in 1..n : doc[i] \in Ink(chunks[k])
    BY <1>7 DEF Told
  <2>2. k \in 1..N /\ k <= n
    BY <1>3
  <2>3. doc[i] \in ToSet(chunks[k])
    BY <1>3, <2>1, <2>2, InkIsHeld
  <2>. QED
    BY <2>2, <2>3
<1>8. \A i \in said : \E k \in DOMAIN chunks : doc[i] \in ToSet(chunks[k])
  <2>1. \A i \in said : doc[i] \in Told(chunks, N)
    BY <1>1, <1>6 DEF All
  <2>2. N \in 0..N
    BY <1>3
  <2>. QED
    BY <1>3, <1>7, <2>1, <2>2
<1> DEFINE Holders(c) == {k \in DOMAIN chunks : c \in ToSet(chunks[k])}
<1>9. ASSUME NEW i \in said
      PROVE  /\ Holder(chunks, doc[i]) \in Holders(doc[i])
             /\ \A k \in Holders(doc[i]) : Holder(chunks, doc[i]) <= k
  <2>1. Holders(doc[i]) \in SUBSET (1..N) /\ Holders(doc[i]) # {}
    BY <1>3, <1>8
  <2>2. Holder(chunks, doc[i]) = Min(Holders(doc[i]))
    BY DEF Holder
  <2> HIDE DEF Holders
  <2>. QED
    BY <1>3, <2>1, <2>2, MinOf
<1>10. ASSUME NEW i \in said, NEW j \in said, i < j
       PROVE  Holder(chunks, doc[i]) <= Holder(chunks, doc[j])
  <2> DEFINE n == Holder(chunks, doc[j])
  <2>1. n \in 1..N /\ doc[j] \in ToSet(chunks[n])
    BY <1>3, <1>9
  <2> HIDE DEF n
  <2>2. doc[j] \in Ink(chunks[n])
    BY <1>3, <2>1, InkIsHeld
  <2>3. doc[j] \in Told(chunks, n) /\ n \in 0..N
    BY <1>3, <2>1, <2>2 DEF Told
  <2>4. Initial(doc, Told(chunks, n))
    <3>1. Initial(doc, {} \cup Told(chunks, n))
      BY <1>1, <2>3 DEF Fine, Orderly
    <3>2. {} \cup Told(chunks, n) = Told(chunks, n)
      OBVIOUS
    <3>. QED
      BY <3>1, <3>2
  <2>5. doc[i] \in Told(chunks, n)
    BY <1>10, <2>3, <2>4 DEF Initial
  <2>6. PICK k \in 1..N : k <= n /\ doc[i] \in ToSet(chunks[k])
    BY <1>7, <2>3, <2>5
  <2>7. Holder(chunks, doc[i]) \in 1..N /\ Holder(chunks, doc[i]) <= k
    BY <1>3, <1>9, <2>6
  <2>8. Holder(chunks, doc[i]) <= n
    BY <1>3, <2>1, <2>6, <2>7
  <2>. QED
    BY <2>8 DEF n
<1> HIDE DEF said, Holders
<1>. QED
  BY <1>2, <1>5, <1>8, <1>10

\* The text of every upload is kept whole: ChunksKeepText, whatever the documents, sizes and overlaps.
THEOREM Chunks == Spec => []ChunksKeepText
<1>1. ASSUME NEW text \in Documents, NEW size \in Sizes, NEW overlap \in Overlaps
      PROVE  ChunkedWhole(text, size, overlap)
  <2>1. text \in Document
    BY DocumentsAssumption DEF Document, Text
  <2>2. size \in Nat \ {0} /\ overlap \in Int
    BY SizesAssumption, OverlapsAssumption
  <2>. QED
    BY <2>1, <2>2, AnyTextIsKept
<1>2. ChunksKeepText
  BY <1>1 DEF ChunksKeepText
<1>. QED
  BY <1>2, PTL
=============================================================================
