---------------------------- MODULE UploadTasks ----------------------------
(***************************************************************************)
(* The background upload queue: HandleUpload and HandleUploadStatus of     *)
(* internal/handler/upload.go over the uploadTaskManager of                *)
(* internal/handler/upload_tasks.go.                                       *)
(*                                                                         *)
(* Processes: one handler goroutine per upload request, the manager's      *)
(* workers, clients polling GET /api/upload/:taskID, and the goroutine     *)
(* that closes the manager. Steps are cut where another process can run:   *)
(* at every lock, channel operation and file operation, and, because       *)
(* snapshot() reads a task without the lock, at every store to a field of  *)
(* a task and every load of one.                                           *)
(*                                                                         *)
(* A task is named by the upload that created it, a saved file by the path *)
(* its name gives it, the bytes of a file by the upload they came from.    *)
(***************************************************************************)
EXTENDS Naturals, Sequences, FiniteSets

CONSTANTS Uploads,   \* upload requests
          Workers,   \* cfg.Upload.Workers goroutines
          Clients,   \* clients that poll the status of an upload
          QueueSize, \* capacity of the task channel
          Paths,     \* file names "<unix second>_<safe name>"
          MaxClock,  \* bound on the wall clock, in nanoseconds
          None

ASSUME QueueAssumption   == QueueSize \in Nat \ {0}
ASSUME WorkersAssumption == Workers # {} /\ IsFiniteSet(Workers)
ASSUME UploadsAssumption == IsFiniteSet(Uploads)
ASSUME ClockAssumption   == MaxClock \in Nat
ASSUME NoneAssumption    == None \notin Uploads \cup Workers

\* A value read while another goroutine stores it.
Torn == "torn"

VARIABLES
    pc,       \* where each HandleUpload call is
    path,     \* savePath of each upload: its name and the second it is saved in
    disk,     \* whose bytes are at each path: an upload, Torn or None
    mu,       \* the worker inside a critical section of m.mu, or None
    clock,    \* wall clock, nanoseconds
    counter,  \* m.counter
    id,       \* task.id
    tasks,    \* m.tasks, as the set of its <<id, task>> pairs
    queue,    \* m.queue
    closed,   \* m.closed; the channel is closed with it, under the lock
    closer,   \* "idle", "waiting" in wg.Wait, "returned"
    enqueued, \* m.enqueued
    complete, \* m.complete
    failed,   \* m.failed
    state,    \* task.state
    errorText, started, ended, \* task.errorText; startedAt and endedAt: set or not
    wpc,      \* where each worker is
    held,     \* the task a worker took from the channel
    bad,      \* whether its indexer call returned an error
    indexed,  \* whose bytes each task has put into the index
    client,   \* where each polling client is
    polls,    \* the upload whose task a client polls
    snap      \* the snapshot a client is being answered with

handlerVars == <<pc, path, id>>
managerVars == <<mu, tasks, queue, closed>>
clockVars   == <<clock, counter>>
statVars    == <<enqueued, complete, failed>>
taskVars    == <<state, errorText, started, ended>>
workerVars  == <<wpc, held, bad, indexed>>
clientVars  == <<client, polls, snap>>

vars == <<handlerVars, disk, managerVars, clockVars, closer, statVars, taskVars,
          workerVars, clientVars>>

-----------------------------------------------------------------------------
(* The values of the variables.                                            *)

TaskStates == {"queued", "running", "succeeded", "failed"}
Terminal   == {"succeeded", "failed"}

\* HandleUpload calls that have not created a task, whose task is in m.tasks,
\* and whose task a worker has been or will be given.
Before     == {"idle", "saving", "saved"}
Registered == {"registered", "full", "panicked"}
Sent       == {"sent", "accepted"}
Refused    == {"refusing", "refused"}
HandlerPCs == Before \cup Registered \cup Sent \cup Refused
                \cup {"rejected"}

WorkerPCs == {"recv", "claimed", "marking", "index", "indexed",
              "ending", "outcome", "exited"}
\* A worker at one of these is inside m.mu.
Locked    == {"marking", "ending", "outcome"}

NoSnap == [state |-> "", error |-> "", started |-> FALSE, ended |-> FALSE]

Init == /\ pc = [u \in Uploads |-> "idle"]
        /\ path \in [Uploads -> Paths]
        /\ disk = [p \in Paths |-> None]
        /\ mu = None
        /\ clock = 0
        /\ counter = 0
        /\ id = [u \in Uploads |-> 0]
        /\ tasks = {}
        /\ queue = <<>>
        /\ closed = FALSE
        /\ closer = "idle"
        /\ enqueued = 0
        /\ complete = 0
        /\ failed = 0
        /\ state = [u \in Uploads |-> "queued"]
        /\ errorText = [u \in Uploads |-> ""]
        /\ started = [u \in Uploads |-> FALSE]
        /\ ended = [u \in Uploads |-> FALSE]
        /\ wpc = [w \in Workers |-> "recv"]
        /\ held = [w \in Workers |-> None]
        /\ bad = [w \in Workers |-> FALSE]
        /\ indexed = [u \in Uploads |-> None]
        /\ client = [c \in Clients |-> "idle"]
        /\ polls = [c \in Clients |-> None]
        /\ snap = [c \in Clients |-> NoSnap]

-----------------------------------------------------------------------------
(* m.tasks is a map: storing under a key replaces what was there.          *)

Put(i, u)  == {t \in tasks : t[1] # i} \cup {<<i, u>>}
Delete(i)  == {t \in tasks : t[1] # i}
Lookup(i)  == {t[2] : t \in {s \in tasks : s[1] = i}}

-----------------------------------------------------------------------------
(* HandleUpload and Enqueue.                                               *)

\* Every check before the file is saved: an answer 400 or 500, nothing stored.
Reject(u) ==
    /\ pc[u] = "idle"
    /\ pc' = [pc EXCEPT ![u] = "rejected"]
    /\ UNCHANGED <<path, id, disk, managerVars, clockVars, closer, statVars,
                   taskVars, workerVars, clientVars>>

\* SaveUploadedFile creates or truncates the file ...
BeginSave(u) ==
    /\ pc[u] = "idle"
    /\ disk' = [disk EXCEPT ![path[u]] = Torn]
    /\ pc' = [pc EXCEPT ![u] = "saving"]
    /\ UNCHANGED <<path, id, managerVars, clockVars, closer, statVars, taskVars,
                   workerVars, clientVars>>

\* ... and copies the upload into it, ...
EndSave(u) ==
    /\ pc[u] = "saving"
    /\ disk' = [disk EXCEPT ![path[u]] = u]
    /\ pc' = [pc EXCEPT ![u] = "saved"]
    /\ UNCHANGED <<path, id, managerVars, clockVars, closer, statVars, taskVars,
                   workerVars, clientVars>>

\* ... or gives up half way: 500, and what was written stays.
SaveFails(u) ==
    /\ pc[u] = "saving"
    /\ pc' = [pc EXCEPT ![u] = "rejected"]
    /\ UNCHANGED <<path, id, disk, managerVars, clockVars, closer, statVars,
                   taskVars, workerVars, clientVars>>

\* Enqueue, under the lock: the manager is closed.
EnqueueClosed(u) ==
    /\ pc[u] = "saved"
    /\ mu = None
    /\ closed
    /\ pc' = [pc EXCEPT ![u] = "refusing"]
    /\ UNCHANGED <<path, id, disk, managerVars, clockVars, closer, statVars,
                   taskVars, workerVars, clientVars>>

\* Enqueue, under the lock: a new task under a new id. The clock is read, then
\* the counter advanced, both under the lock. The clock may have moved on to t.
NewIDFromClock(t) == t + 1 \* Variant: the counter left out.

NewID(t) == t + counter + 1

Register(u) ==
    /\ pc[u] = "saved"
    /\ mu = None
    /\ ~closed
    /\ \E t \in clock..MaxClock :
          /\ clock' = t
          /\ counter' = counter + 1
          /\ id' = [id EXCEPT ![u] = NewID(t)]
          /\ tasks' = Put(NewID(t), u)
    /\ state' = [state EXCEPT ![u] = "queued"]
    /\ pc' = [pc EXCEPT ![u] = "registered"]
    /\ UNCHANGED <<path, disk, mu, queue, closed, closer, statVars, errorText,
                   started, ended, workerVars, clientVars>>

\* The select that follows, outside the lock: the send has room ...
SendUnbounded(u) == \* Variant: an unbounded queue.
    /\ pc[u] = "registered"
    /\ ~closed
    /\ queue' = Append(queue, u)
    /\ pc' = [pc EXCEPT ![u] = "sent"]
    /\ UNCHANGED <<path, id, disk, mu, tasks, closed, clockVars, closer, statVars,
                   taskVars, workerVars, clientVars>>

Send(u) ==
    /\ pc[u] = "registered"
    /\ ~closed
    /\ Len(queue) < QueueSize
    /\ queue' = Append(queue, u)
    /\ pc' = [pc EXCEPT ![u] = "sent"]
    /\ UNCHANGED <<path, id, disk, mu, tasks, closed, clockVars, closer, statVars,
                   taskVars, workerVars, clientVars>>

\* ... or Close has closed the channel since the lock was left: the send panics
\* whatever its default case says, and the recovery middleware answers 500 ...
SendPanics(u) ==
    /\ pc[u] = "registered"
    /\ closed
    /\ pc' = [pc EXCEPT ![u] = "panicked"]
    /\ UNCHANGED <<path, id, disk, managerVars, clockVars, closer, statVars,
                   taskVars, workerVars, clientVars>>

\* ... or there is no room and the default case is taken, ...
QueueFull(u) ==
    /\ pc[u] = "registered"
    /\ ~closed
    /\ Len(queue) = QueueSize
    /\ pc' = [pc EXCEPT ![u] = "full"]
    /\ UNCHANGED <<path, id, disk, managerVars, clockVars, closer, statVars,
                   taskVars, workerVars, clientVars>>

\* ... which takes the task out of the map under the lock.
Unregister(u) ==
    /\ pc[u] = "full"
    /\ mu = None
    /\ tasks' = Delete(id[u])
    /\ pc' = [pc EXCEPT ![u] = "refusing"]
    /\ UNCHANGED <<path, id, disk, mu, queue, closed, clockVars, closer, statVars,
                   taskVars, workerVars, clientVars>>

\* HandleUpload after an error of Enqueue: remove the saved file, answer 503.
Refuse(u) ==
    /\ pc[u] = "refusing"
    /\ disk' = [disk EXCEPT ![path[u]] = None]
    /\ pc' = [pc EXCEPT ![u] = "refused"]
    /\ UNCHANGED <<path, id, managerVars, clockVars, closer, statVars, taskVars,
                   workerVars, clientVars>>

\* The send is counted and answered 202.
Accept(u) ==
    /\ pc[u] = "sent"
    /\ enqueued' = enqueued + 1
    /\ pc' = [pc EXCEPT ![u] = "accepted"]
    /\ UNCHANGED <<path, id, disk, managerVars, clockVars, closer, complete, failed,
                   taskVars, workerVars, clientVars>>

-----------------------------------------------------------------------------
(* worker.                                                                 *)

Receive(w) ==
    /\ wpc[w] = "recv"
    /\ queue # <<>>
    /\ held' = [held EXCEPT ![w] = Head(queue)]
    /\ queue' = Tail(queue)
    /\ wpc' = [wpc EXCEPT ![w] = "claimed"]
    /\ UNCHANGED <<handlerVars, disk, mu, tasks, closed, clockVars, closer,
                   statVars, taskVars, bad, indexed, clientVars>>

\* range over a channel ends when it is closed and drained.
ExitUndrained(w) == \* Variant: leaves on the closed flag, not on the drained channel.
    /\ wpc[w] = "recv"
    /\ closed
    /\ wpc' = [wpc EXCEPT ![w] = "exited"]
    /\ UNCHANGED <<handlerVars, disk, managerVars, clockVars, closer, statVars,
                   taskVars, held, bad, indexed, clientVars>>

Exit(w) ==
    /\ wpc[w] = "recv"
    /\ closed
    /\ queue = <<>>
    /\ wpc' = [wpc EXCEPT ![w] = "exited"]
    /\ UNCHANGED <<handlerVars, disk, managerVars, clockVars, closer, statVars,
                   taskVars, held, bad, indexed, clientVars>>

\* First critical section: the state, then the start time.
MarkRunning(w) ==
    /\ wpc[w] = "claimed"
    /\ mu = None
    /\ mu' = w
    /\ state' = [state EXCEPT ![held[w]] = "running"]
    /\ wpc' = [wpc EXCEPT ![w] = "marking"]
    /\ UNCHANGED <<handlerVars, disk, tasks, queue, closed, clockVars, closer,
                   statVars, errorText, started, ended, held, bad, indexed,
                   clientVars>>

MarkStarted(w) ==
    /\ wpc[w] = "marking"
    /\ started' = [started EXCEPT ![held[w]] = TRUE]
    /\ mu' = None
    /\ wpc' = [wpc EXCEPT ![w] = "index"]
    /\ UNCHANGED <<handlerVars, disk, tasks, queue, closed, clockVars, closer,
                   statVars, state, errorText, ended, held, bad, indexed,
                   clientVars>>

\* m.indexer, outside the lock: read and parse the file, embed and insert its
\* chunks. A missing file is an error; any other call may succeed or fail, the
\* ten minute timeout included.
Index(w) ==
    /\ wpc[w] = "index"
    /\ LET bytes == disk[path[held[w]]]
       IN \/ /\ bad' = [bad EXCEPT ![w] = TRUE]
             /\ UNCHANGED indexed
          \/ /\ bytes # None
             /\ bad' = [bad EXCEPT ![w] = FALSE]
             /\ indexed' = [indexed EXCEPT ![held[w]] = bytes]
    /\ wpc' = [wpc EXCEPT ![w] = "indexed"]
    /\ UNCHANGED <<handlerVars, disk, managerVars, clockVars, closer, statVars,
                   taskVars, held, clientVars>>

\* Second critical section: the end time, the state, then the error text of a
\* failure and the counter.
MarkEndedOnSuccess(w) == \* Variant: no end time for a failure.
    /\ wpc[w] = "indexed"
    /\ mu = None
    /\ mu' = w
    /\ ended' = [ended EXCEPT ![held[w]] = ~bad[w]]
    /\ wpc' = [wpc EXCEPT ![w] = "ending"]
    /\ UNCHANGED <<handlerVars, disk, tasks, queue, closed, clockVars, closer,
                   statVars, state, errorText, started, held, bad, indexed,
                   clientVars>>

MarkEnded(w) ==
    /\ wpc[w] = "indexed"
    /\ mu = None
    /\ mu' = w
    /\ ended' = [ended EXCEPT ![held[w]] = TRUE]
    /\ wpc' = [wpc EXCEPT ![w] = "ending"]
    /\ UNCHANGED <<handlerVars, disk, tasks, queue, closed, clockVars, closer,
                   statVars, state, errorText, started, held, bad, indexed,
                   clientVars>>

MarkOutcomeAgain(w) == \* Variant: a failed task goes back to queued.
    /\ wpc[w] = "ending"
    /\ state' = [state EXCEPT ![held[w]] = IF bad[w] THEN "queued" ELSE "succeeded"]
    /\ wpc' = [wpc EXCEPT ![w] = "outcome"]
    /\ UNCHANGED <<handlerVars, disk, managerVars, clockVars, closer, statVars,
                   errorText, started, ended, held, bad, indexed, clientVars>>

MarkOutcome(w) ==
    /\ wpc[w] = "ending"
    /\ state' = [state EXCEPT ![held[w]] = IF bad[w] THEN "failed" ELSE "succeeded"]
    /\ wpc' = [wpc EXCEPT ![w] = "outcome"]
    /\ UNCHANGED <<handlerVars, disk, managerVars, clockVars, closer, statVars,
                   errorText, started, ended, held, bad, indexed, clientVars>>

ReleaseUncounted(w) == \* Variant: failures are not counted.
    /\ wpc[w] = "outcome"
    /\ IF bad[w]
       THEN /\ errorText' = [errorText EXCEPT ![held[w]] = "error"]
            /\ UNCHANGED <<complete, failed>>
       ELSE /\ complete' = complete + 1
            /\ UNCHANGED <<errorText, failed>>
    /\ mu' = None
    /\ held' = [held EXCEPT ![w] = None]
    /\ bad' = [bad EXCEPT ![w] = FALSE]
    /\ wpc' = [wpc EXCEPT ![w] = "recv"]
    /\ UNCHANGED <<handlerVars, disk, tasks, queue, closed, clockVars, closer,
                   enqueued, state, started, ended, indexed, clientVars>>

ReleaseRetrying(w) == \* Variant: a failed task is put back into the channel.
    /\ wpc[w] = "outcome"
    /\ queue' = IF bad[w] /\ Len(queue) < QueueSize THEN Append(queue, held[w]) ELSE queue
    /\ IF bad[w]
       THEN /\ errorText' = [errorText EXCEPT ![held[w]] = "error"]
            /\ failed' = failed + 1
            /\ UNCHANGED complete
       ELSE /\ complete' = complete + 1
            /\ UNCHANGED <<errorText, failed>>
    /\ mu' = None
    /\ held' = [held EXCEPT ![w] = None]
    /\ bad' = [bad EXCEPT ![w] = FALSE]
    /\ wpc' = [wpc EXCEPT ![w] = "recv"]
    /\ UNCHANGED <<handlerVars, disk, tasks, closed, clockVars, closer, enqueued,
                   state, started, ended, indexed, clientVars>>

Release(w) ==
    /\ wpc[w] = "outcome"
    /\ IF bad[w]
       THEN /\ errorText' = [errorText EXCEPT ![held[w]] = "error"]
            /\ failed' = failed + 1
            /\ UNCHANGED complete
       ELSE /\ complete' = complete + 1
            /\ UNCHANGED <<errorText, failed>>
    /\ mu' = None
    /\ held' = [held EXCEPT ![w] = None]
    /\ bad' = [bad EXCEPT ![w] = FALSE]
    /\ wpc' = [wpc EXCEPT ![w] = "recv"]
    /\ UNCHANGED <<handlerVars, disk, tasks, queue, closed, clockVars, closer,
                   enqueued, state, started, ended, indexed, clientVars>>

-----------------------------------------------------------------------------
(* Close. It is called once, after the HTTP server's Shutdown returned,    *)
(* which its ten second limit lets happen with requests still in flight.   *)

Close ==
    /\ closer = "idle"
    /\ mu = None
    /\ closed' = TRUE
    /\ closer' = "waiting"
    /\ UNCHANGED <<handlerVars, disk, mu, tasks, queue, clockVars, statVars,
                   taskVars, workerVars, clientVars>>

CloseReturnsEarly == \* Variant: no wg.Wait.
    /\ closer = "waiting"
    /\ closer' = "returned"
    /\ UNCHANGED <<handlerVars, disk, managerVars, clockVars, statVars, taskVars,
                   workerVars, clientVars>>

CloseReturns ==
    /\ closer = "waiting"
    /\ \A w \in Workers : wpc[w] = "exited"
    /\ closer' = "returned"
    /\ UNCHANGED <<handlerVars, disk, managerVars, clockVars, statVars, taskVars,
                   workerVars, clientVars>>

-----------------------------------------------------------------------------
(* HandleUploadStatus: Get and snapshot, by a client that was answered 202. *)

\* What an unlocked load of a task's state or error text may return: a string is
\* stored in two words, so a load overlapping the store may mix old and new.
Storing(u, where) == \E w \in Workers : held[w] = u /\ wpc[w] \in where
StateSeen(u) == {state[u]} \cup (IF Storing(u, {"marking", "outcome"}) THEN {Torn} ELSE {})
ErrorSeen(u) == {errorText[u]} \cup (IF Storing(u, {"outcome"}) /\ state[u] = "failed"
                                     THEN {Torn} ELSE {})

\* The map lookup, under the read lock: "notFound" is a 404, or the task of
\* another upload. A client polls for one upload.
Poll(c) ==
    /\ client[c] = "idle"
    /\ mu = None
    /\ \E u \in Uploads :
          /\ pc[u] = "accepted"
          /\ polls[c] \in {u, None}
          /\ polls' = [polls EXCEPT ![c] = u]
          /\ client' = [client EXCEPT ![c] =
                            IF u \in Lookup(id[u]) THEN "state" ELSE "notFound"]
    /\ UNCHANGED <<handlerVars, disk, managerVars, clockVars, closer, statVars,
                   taskVars, workerVars, snap>>

\* snapshot(task) loads the state, and after it the error text and the times.
ReadState(c) ==
    /\ client[c] = "state"
    /\ \E s \in StateSeen(polls[c]) : snap' = [snap EXCEPT ![c] = [NoSnap EXCEPT !.state = s]]
    /\ client' = [client EXCEPT ![c] = "rest"]
    /\ UNCHANGED <<handlerVars, disk, managerVars, clockVars, closer, statVars,
                   taskVars, workerVars, polls>>

ReadRest(c) ==
    /\ client[c] = "rest"
    /\ \E e \in ErrorSeen(polls[c]) :
          snap' = [snap EXCEPT ![c] = [state |-> snap[c].state, error |-> e,
                                       started |-> started[polls[c]],
                                       ended |-> ended[polls[c]]]]
    /\ client' = [client EXCEPT ![c] = "idle"]
    /\ UNCHANGED <<handlerVars, disk, managerVars, clockVars, closer, statVars,
                   taskVars, workerVars, polls>>

-----------------------------------------------------------------------------
Handler(u) == \/ Reject(u) \/ BeginSave(u) \/ EndSave(u) \/ SaveFails(u)
              \/ EnqueueClosed(u) \/ Register(u) \/ Send(u) \/ SendPanics(u)
              \/ QueueFull(u) \/ Unregister(u) \/ Refuse(u) \/ Accept(u)

Worker(w) == \/ Receive(w) \/ Exit(w) \/ MarkRunning(w) \/ MarkStarted(w)
             \/ Index(w) \/ MarkEnded(w) \/ MarkOutcome(w) \/ Release(w)

Client(c) == Poll(c) \/ ReadState(c) \/ ReadRest(c)

Next == \/ \E u \in Uploads : Handler(u)
        \/ \E w \in Workers : Worker(w)
        \/ \E c \in Clients : Client(c)
        \/ Close
        \/ CloseReturns

\* A goroutine that can run does, and the mutex is not held for ever. Uploads
\* arrive, clients poll and the process shuts down only if they wish to.
Fairness == /\ \A u \in Uploads : WF_vars(pc[u] # "idle" /\ Handler(u))
            /\ \A w \in Workers : WF_vars(Worker(w))
            /\ WF_vars(CloseReturns)

Spec == Init /\ [][Next]_vars /\ Fairness
-----------------------------------------------------------------------------
(* Properties.                                                             *)

InQueue(u) == \E i \in 1..Len(queue) : queue[i] = u
IsHeld(u)  == \E w \in Workers : held[w] = u

Snapshots == [state : TaskStates \cup {"", Torn}, error : {"", "error", Torn},
              started : BOOLEAN, ended : BOOLEAN]

\* Every variable has the type its Go declaration gives it; the channel holds no
\* more than its capacity; a worker holds a task exactly between the receive and
\* the end of the second section, and a client in the middle of a request has an
\* upload it asks about.
HandlersOK == /\ pc \in [Uploads -> HandlerPCs]
              /\ path \in [Uploads -> Paths]
              /\ disk \in [Paths -> Uploads \cup {None, Torn}]

ManagerOK == /\ mu \in Workers \cup {None}
             /\ clock \in 0..MaxClock
             /\ counter \in Nat
             /\ id \in [Uploads -> Nat]
             /\ tasks \in SUBSET (Nat \X Uploads)
             /\ closed \in BOOLEAN
             /\ closer \in {"idle", "waiting", "returned"}

QueueOK == queue \in Seq(Uploads) /\ Len(queue) <= QueueSize

StatsOK == enqueued \in Nat /\ complete \in Nat /\ failed \in Nat

TasksOK == /\ state \in [Uploads -> TaskStates]
           /\ errorText \in [Uploads -> {"", "error"}]
           /\ started \in [Uploads -> BOOLEAN]
           /\ ended \in [Uploads -> BOOLEAN]
           /\ indexed \in [Uploads -> Uploads \cup {None, Torn}]

WorkersOK == /\ wpc \in [Workers -> WorkerPCs]
             /\ held \in [Workers -> Uploads \cup {None}]
             /\ \A w \in Workers : held[w] = None <=> wpc[w] \in {"recv", "exited"}
             /\ bad \in [Workers -> BOOLEAN]

ClientsOK == /\ client \in [Clients -> {"idle", "notFound", "state", "rest"}]
             /\ polls \in [Clients -> Uploads \cup {None}]
             /\ \A c \in Clients : client[c] # "idle" => polls[c] # None
             /\ snap \in [Clients -> Snapshots]

TypeOK == /\ HandlersOK /\ ManagerOK /\ QueueOK /\ StatsOK /\ TasksOK
          /\ WorkersOK /\ ClientsOK

\* A task that went into the channel is waiting there once, or is in the hands
\* of one worker, or has finished, and is never in two of these places; a task
\* that did not (refused, panicked) is in none of them. So no task is indexed
\* twice or by two workers, none is lost, and no refused upload is ever run.
OnePlacePerTask ==
    /\ \A i, j \in 1..Len(queue) : queue[i] = queue[j] => i = j
    /\ \A v, w \in Workers : held[v] = held[w] /\ held[v] # None => v = w
    /\ \A u \in Uploads : InQueue(u) => ~IsHeld(u) /\ state[u] = "queued"
    /\ \A u \in Uploads :
          pc[u] \in Sent <=> InQueue(u) \/ IsHeld(u) \/ state[u] \in Terminal

\* What makes OnePlacePerTask inductive: the state of a held task follows from
\* where its worker is, and only held tasks are running.
StateFollowsWorker ==
    /\ \A w \in Workers : wpc[w] = "claimed" => state[held[w]] = "queued"
    /\ \A w \in Workers : wpc[w] \in {"marking", "index", "indexed", "ending"}
                            => state[held[w]] = "running"
    /\ \A w \in Workers : wpc[w] = "outcome" => state[held[w]] \in Terminal
    /\ \A u \in Uploads : state[u] = "running" => IsHeld(u)

OnePlaceInv == OnePlacePerTask /\ StateFollowsWorker

\* The statistics of GET /metrics add up: what was counted in, plus the sends
\* not counted yet, is what waits, what workers hold and what was counted out.
Uncounted == {u \in Uploads : pc[u] = "sent"}
Busy      == {w \in Workers : held[w] # None}

StatsAddUp ==
    enqueued + Cardinality(Uncounted)
      = Len(queue) + Cardinality(Busy) + complete + failed

\* A client answered 202 always finds its own task under its id: ids are never
\* given twice, and an accepted task is never taken out of the map.
StatusFound == \A u \in Uploads : pc[u] \in Sent => Lookup(id[u]) = {u}

\* What makes StatusFound inductive: the map holds exactly the tasks that were
\* put in and not taken out, under ids that differ and that the clock and the
\* counter, which only grow, have already passed.
InMap == {u \in Uploads : pc[u] \in Registered \cup Sent}

IdsInv ==
    /\ tasks = {<<id[u], u>> : u \in InMap}
    /\ \A u \in InMap : id[u] <= clock + counter
    /\ \A u, v \in InMap : id[u] = id[v] => u = v

\* A snapshot taken without the lock that reports a task finished also carries
\* its end time: the worker stores endedAt before state and snapshot() loads
\* them in the opposite order.
FinishedHasEnd ==
    \A c \in Clients : client[c] = "idle" /\ snap[c].state \in Terminal => snap[c].ended

\* What makes FinishedHasEnd inductive: the end time is there before the state
\* says so, and what a client read of the state still stands when it goes on.
EndInv ==
    /\ \A u \in Uploads : state[u] \in Terminal => ended[u]
    /\ \A w \in Workers : wpc[w] \in {"ending", "outcome"} => ended[held[w]]
    /\ \A c \in Clients : client[c] = "rest" /\ snap[c].state \in Terminal
                            => ended[polls[c]]
    /\ FinishedHasEnd

\* When Close has returned, every task that went into the channel, those still
\* waiting there when Close was called included, has finished.
DrainedOnClose ==
    closer = "returned" => \A u \in Uploads : pc[u] \in Sent => state[u] \in Terminal

\* What makes DrainedOnClose inductive: a worker leaves only a closed and empty
\* channel, which stays so.
DrainInv ==
    /\ closed <=> closer # "idle"
    /\ \A w \in Workers : wpc[w] = "exited" => closed /\ queue = <<>>
    /\ closer = "returned" => \A w \in Workers : wpc[w] = "exited"

\* Seen by one client, a task only moves forward, whatever the race does to the
\* states between two whole ones.
Rank(s) == CASE s = "queued" -> 1 [] s = "running" -> 2 [] s \in Terminal -> 3
StatusMovesForward ==
    [][\A c \in Clients :
         snap[c].state \in TaskStates /\ snap'[c].state \in TaskStates /\ snap'[c] # snap[c]
           => \/ Rank(snap[c].state) < Rank(snap'[c].state)
              \/ snap[c].state = snap'[c].state]_vars

\* What makes StatusMovesForward hold: what a client was last told of its task is
\* what the task is, or was on the way to what it is.
Onwards(s, t) == s = t \/ s = "queued" \/ (s = "running" /\ t \in Terminal)

SeenInv ==
    \A c \in Clients : snap[c].state \in TaskStates =>
        polls[c] # None /\ Onwards(snap[c].state, state[polls[c]])

\* What the 202 answer says (upload.go:78, "the file has been received and is
\* being ingested in the background"): a task that succeeded has put the bytes of
\* its own upload into the index.
OwnBytesIndexed ==
    \A u \in Uploads : state[u] = "succeeded" => indexed[u] = u

\* What UploadBoard sees of this module: the uploads whose task went into the
\* channel, those whose task has finished, and how far Close is.
InChannel == {u \in Uploads : pc[u] \in Sent}
Finished  == {u \in Uploads : state[u] \in Terminal}
Phase     == CASE closer = "idle"     -> "open"
               [] closer = "waiting"  -> "closing"
               [] closer = "returned" -> "closed"

Board == INSTANCE UploadBoard
            WITH accepted <- InChannel,
                 finished <- Finished,
                 phase    <- Phase,
                 Backlog  <- QueueSize + Cardinality(Workers)

\* The queue implements what UploadBoard promises: no acceptance beyond channel
\* and workers or after Close began, each accepted upload finished once, Close
\* returning only with nothing left; and under Fairness every accepted upload
\* does finish and Close does return.
ImplementsBoard == Board!Spec
=============================================================================
