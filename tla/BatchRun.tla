------------------------------ MODULE BatchRun ------------------------------
(***************************************************************************)
(* `run --all` (run_all, _execute_or_block, execute_task and _set_status   *)
(* of service/executor.py): one process whose main thread hands the layers *)
(* of the pending tasks to a ThreadPoolExecutor, one layer after another,  *)
(* and whose worker threads gate, execute and record the tasks.  Workers   *)
(* read tasks.json without a lock; each status merge is a load and a save  *)
(* under _store_lock.  The process may be killed and `run --all` started   *)
(* again.  Other processes that write tasks.json at the same time are the  *)
(* subject of TaskStore.                                                   *)
(***************************************************************************)
EXTENDS Dag

CONSTANTS
    Task,         \* ids in tasks.json, compared by sorted(); naturals here
    Missing,      \* ids that depends_on may name although no record has them
    Worker,       \* the pool threads, TASKQ_MAX_WORKERS of them
    InitialStatus,\* the statuses tasks may have before the first batch
    NoTask,       \* an idle worker's task
    NoWorker,     \* the holder of a free _store_lock
    Faults,       \* a subset of {"spawn_error", "crash"}
    MaxBatches    \* bound: how many times `run --all` is started

ASSUME BatchRunAssumption ==
    /\ Task \subseteq Nat
    /\ IsFiniteSet(Task)
    /\ Task \cap Missing = {}
    /\ NoTask \notin Task
    /\ NoWorker \notin Worker
    /\ MaxBatches \in Nat

Outcomes == {"done", "failed", "timeout"}
Statuses == Outcomes \cup {"pending", "running", "blocked"}
Settled == Statuses \ {"pending", "running"}

ASSUME InitialStatusAssumption == InitialStatus \subseteq Statuses

VARIABLES
    depends_on,  \* immutable: the dependencies of each task
    status,      \* status of each task in tasks.json
    main,        \* what the main thread does next
    levels,      \* layers that have not been submitted to the pool yet
    current,     \* the layer whose futures the main thread waits for
    future,      \* state of each task's future in this batch
    storeLock,   \* the worker inside _store_lock, or NoWorker
    pc,          \* what each worker thread does next
    task,        \* the task each worker thread executes
    unchecked,   \* dependencies its worker still has to look up
    unmet,       \* whether a looked-up dependency was not done
    merge,       \* the status a worker is about to merge
    loaded,      \* the store as a worker loaded it inside _store_lock
    batches,     \* how many batches were started (bounded by MaxBatches)
    spawned,     \* history: how often each task's subprocess was started
    outcome      \* history: how each task's subprocess ended

store == <<depends_on, status>>
pool == <<main, levels, current>>
thread == <<pc, task, unchecked, unmet, merge, loaded>>
history == <<spawned, outcome>>
vars == <<store, pool, future, storeLock, thread, batches, history>>

MainSteps == {"idle", "load_tasks", "submit_layer", "wait_layer",
              "shutdown", "returned", "raised"}

WorkerSteps == {"idle", "unmet_dependencies", "load", "save", "subprocess"}

TypeOK ==
    /\ depends_on \in [Task -> SUBSET (Task \cup Missing)]
    /\ status \in [Task -> Statuses]
    /\ main \in MainSteps
    /\ levels \in Seq(SUBSET Task)
    /\ current \in SUBSET Task
    /\ future \in [Task -> {"none", "queued", "running", "ok", "error"}]
    /\ storeLock \in Worker \cup {NoWorker}
    /\ pc \in [Worker -> WorkerSteps]
    /\ task \in [Worker -> Task \cup {NoTask}]
    /\ unchecked \in [Worker -> SUBSET (Task \cup Missing)]
    /\ unmet \in [Worker -> BOOLEAN]
    /\ merge \in [Worker -> Statuses]
    /\ loaded \in [Worker -> [Task -> Statuses]]
    /\ batches \in 0 .. MaxBatches
    /\ spawned \in [Task -> Nat]
    /\ outcome \in [Task -> Outcomes \cup {"none"}]

\* Between two calls of _set_status its locals mean nothing.
Unloaded == [t \in Task |-> "pending"]

\* submit keeps the stored graph free of rings (TaskStore DependenciesPrecede).
Init ==
    /\ depends_on \in [Task -> SUBSET (Task \cup Missing)]
    /\ ~Cyclic(depends_on)
    /\ status \in [Task -> InitialStatus]
    /\ main = "idle"
    /\ levels = <<>>
    /\ current = {}
    /\ future = [t \in Task |-> "none"]
    /\ storeLock = NoWorker
    /\ pc = [w \in Worker |-> "idle"]
    /\ task = [w \in Worker |-> NoTask]
    /\ unchecked = [w \in Worker |-> {}]
    /\ unmet = [w \in Worker |-> FALSE]
    /\ merge = [w \in Worker |-> "running"]
    /\ loaded = [w \in Worker |-> Unloaded]
    /\ batches = 0
    /\ spawned = [t \in Task |-> 0]
    /\ outcome = [t \in Task |-> "none"]

-----------------------------------------------------------------------------
\* The main thread.

\* A new process, admitted by the breaker (GuardedRuns).
StartBatch ==
    /\ main = "idle"
    /\ batches < MaxBatches
    /\ main' = "load_tasks"
    /\ batches' = batches + 1
    /\ UNCHANGED <<store, levels, current, future, storeLock, thread, history>>

\* Wrong variant, to confirm SpawnedOnce: resumes tasks found running.
PendingOrRunning == {t \in Task : status[t] \in {"pending", "running"}}

Pending == {t \in Task : status[t] = "pending"}

\* Wrong variant, to confirm TypeOK: layers the ids without a record as well.
LoadsMissingToo ==
    /\ main = "load_tasks"
    /\ levels' = Layers([t \in Pending \cup Missing |->
                            IF t \in Task THEN depends_on[t] ELSE {}])
    /\ main' = "submit_layer"
    /\ UNCHANGED <<store, current, future, storeLock, thread, batches, history>>

\* The snapshot of pending tasks and its topological layers.
LoadTasks ==
    /\ main = "load_tasks"
    /\ levels' = Layers([t \in Pending |-> depends_on[t]])
    /\ main' = "submit_layer"
    /\ UNCHANGED <<store, current, future, storeLock, thread, batches, history>>

SubmitLayer ==
    /\ main = "submit_layer"
    /\ levels # <<>>
    /\ current' = Head(levels)
    /\ levels' = Tail(levels)
    /\ future' = [t \in Task |-> IF t \in Head(levels) THEN "queued" ELSE future[t]]
    /\ main' = "wait_layer"
    /\ UNCHANGED <<store, storeLock, thread, batches, history>>

\* Every fut.result() of the layer returned.
LayerDone ==
    /\ main = "wait_layer"
    /\ \A t \in current : future[t] = "ok"
    /\ main' = "submit_layer"
    /\ UNCHANGED <<store, levels, current, future, storeLock, thread, batches, history>>

\* fut.result() is called in submission order and re-raises the first error.
LayerRaises ==
    /\ main = "wait_layer"
    /\ \E t \in current :
          /\ future[t] = "error"
          /\ \A s \in current : s < t => future[s] = "ok"
    /\ main' = "shutdown"
    /\ UNCHANGED <<store, levels, current, future, storeLock, thread, batches, history>>

\* Wrong variant, to confirm BatchEnds: waits for the failed future as well.
ShutdownAwaitsAll ==
    /\ main = "shutdown"
    /\ \A t \in Task : future[t] \in {"none", "ok"}
    /\ main' = "raised"
    /\ UNCHANGED <<store, levels, current, future, storeLock, thread, batches, history>>

\* Leaving the `with` block waits for every future already submitted.
Shutdown ==
    /\ main = "shutdown"
    /\ \A t \in Task : future[t] \notin {"queued", "running"}
    /\ main' = "raised"
    /\ UNCHANGED <<store, levels, current, future, storeLock, thread, batches, history>>

RunAllReturns ==
    /\ main = "submit_layer"
    /\ levels = <<>>
    /\ main' = "returned"
    /\ UNCHANGED <<store, levels, current, future, storeLock, thread, batches, history>>

\* The process exits; the next `run --all` starts from tasks.json alone.
Exit ==
    /\ main \in {"returned", "raised"}
    /\ main' = "idle"
    /\ levels' = <<>>
    /\ current' = {}
    /\ future' = [t \in Task |-> "none"]
    /\ UNCHANGED <<store, storeLock, thread, batches, history>>

\* The process is killed: threads, pool and lock vanish, tasks.json stays.
Crash ==
    /\ "crash" \in Faults
    /\ main \notin {"idle", "returned", "raised"}
    /\ main' = "idle"
    /\ levels' = <<>>
    /\ current' = {}
    /\ future' = [t \in Task |-> "none"]
    /\ storeLock' = NoWorker
    /\ pc' = [w \in Worker |-> "idle"]
    /\ task' = [w \in Worker |-> NoTask]
    /\ unchecked' = [w \in Worker |-> {}]
    /\ unmet' = [w \in Worker |-> FALSE]
    /\ merge' = [w \in Worker |-> "running"]
    /\ loaded' = [w \in Worker |-> Unloaded]
    /\ UNCHANGED <<store, batches, history>>

-----------------------------------------------------------------------------
\* The worker threads.

\* An idle thread takes the oldest queued future: _execute_or_block(t).
Take(w) ==
    /\ pc[w] = "idle"
    /\ \E t \in Task :
          /\ future[t] = "queued"
          /\ \A s \in Task : future[s] = "queued" => t <= s
          /\ future' = [future EXCEPT ![t] = "running"]
          /\ task' = [task EXCEPT ![w] = t]
          /\ unchecked' = [unchecked EXCEPT ![w] = depends_on[t]]
    /\ pc' = [pc EXCEPT ![w] = "unmet_dependencies"]
    /\ UNCHANGED <<store, pool, storeLock, unmet, merge, loaded, batches, history>>

\* Wrong variant, to confirm BatchKeepsThePromise: only `failed` gates.
GatesOnFailedOnly(w) ==
    /\ pc[w] = "unmet_dependencies"
    /\ \E d \in unchecked[w] :
          /\ unchecked' = [unchecked EXCEPT ![w] = @ \ {d}]
          /\ unmet' = [unmet EXCEPT ![w] = @ \/ (d \in Task /\ status[d] = "failed")]
    /\ UNCHANGED <<store, pool, future, storeLock, pc, task, merge, loaded,
                   batches, history>>

\* One find_by_id per dependency; an id without a record does not gate.
LookUpDependency(w) ==
    /\ pc[w] = "unmet_dependencies"
    /\ \E d \in unchecked[w] :
          /\ unchecked' = [unchecked EXCEPT ![w] = @ \ {d}]
          /\ unmet' = [unmet EXCEPT ![w] = @ \/ (d \in Task /\ status[d] # "done")]
    /\ UNCHANGED <<store, pool, future, storeLock, pc, task, merge, loaded,
                   batches, history>>

\* Block the task, or go on to execute_task, which first says "running".
Gate(w) ==
    /\ pc[w] = "unmet_dependencies"
    /\ unchecked[w] = {}
    /\ merge' = [merge EXCEPT ![w] = IF unmet[w] THEN "blocked" ELSE "running"]
    /\ unmet' = [unmet EXCEPT ![w] = FALSE]
    /\ pc' = [pc EXCEPT ![w] = "load"]
    /\ UNCHANGED <<store, pool, future, storeLock, task, unchecked, loaded,
                   batches, history>>

\* Wrong variant, to confirm OutcomeIsStored: merges without _store_lock.
LoadsUnlocked(w) ==
    /\ pc[w] = "load"
    /\ loaded' = [loaded EXCEPT ![w] = status]
    /\ pc' = [pc EXCEPT ![w] = "save"]
    /\ UNCHANGED <<store, pool, future, storeLock, task, unchecked, unmet, merge,
                   batches, history>>

\* _set_status: `with _store_lock`, load_tasks().
SetStatusLoad(w) ==
    /\ pc[w] = "load"
    /\ storeLock = NoWorker
    /\ storeLock' = w
    /\ loaded' = [loaded EXCEPT ![w] = status]
    /\ pc' = [pc EXCEPT ![w] = "save"]
    /\ UNCHANGED <<store, pool, future, task, unchecked, unmet, merge, batches,
                   history>>

\* _set_status: save_tasks() and release; then the caller goes on.
SetStatusSave(w) ==
    /\ pc[w] = "save"
    /\ status' = [loaded[w] EXCEPT ![task[w]] = merge[w]]
    /\ storeLock' = NoWorker
    /\ loaded' = [loaded EXCEPT ![w] = Unloaded]
    /\ merge' = [merge EXCEPT ![w] = "running"]
    /\ IF merge[w] = "running"
       THEN /\ pc' = [pc EXCEPT ![w] = "subprocess"]
            /\ spawned' = [spawned EXCEPT ![task[w]] = @ + 1]
            /\ UNCHANGED <<future, task>>
       ELSE /\ pc' = [pc EXCEPT ![w] = "idle"]
            /\ future' = [future EXCEPT ![task[w]] = "ok"]
            /\ task' = [task EXCEPT ![w] = NoTask]
            /\ UNCHANGED spawned
    /\ UNCHANGED <<depends_on, pool, unchecked, unmet, batches, outcome>>

SubprocessEnds(w) ==
    /\ pc[w] = "subprocess"
    /\ \E result \in Outcomes :
          /\ merge' = [merge EXCEPT ![w] = result]
          /\ outcome' = [outcome EXCEPT ![task[w]] = result]
    /\ pc' = [pc EXCEPT ![w] = "load"]
    /\ UNCHANGED <<store, pool, future, storeLock, task, unchecked, unmet,
                   loaded, batches, spawned>>

\* Any exception but TimeoutExpired ends the future with that exception.
SpawnRaises(w) ==
    /\ "spawn_error" \in Faults
    /\ pc[w] = "subprocess"
    /\ pc' = [pc EXCEPT ![w] = "idle"]
    /\ future' = [future EXCEPT ![task[w]] = "error"]
    /\ task' = [task EXCEPT ![w] = NoTask]
    /\ UNCHANGED <<store, pool, storeLock, unchecked, unmet, merge, loaded,
                   batches, history>>

MainProgress ==
    \/ LoadTasks \/ SubmitLayer \/ LayerDone \/ LayerRaises \/ Shutdown
    \/ RunAllReturns \/ Exit

WorkerProgress(w) ==
    \/ Take(w) \/ LookUpDependency(w) \/ Gate(w) \/ SetStatusLoad(w)
    \/ SetStatusSave(w) \/ SubprocessEnds(w)

Next ==
    \/ StartBatch \/ MainProgress \/ Crash
    \/ \E w \in Worker : WorkerProgress(w) \/ SpawnRaises(w)

Spec == Init /\ [][Next]_vars

\* Threads are scheduled, a free lock is granted, and a subprocess ends at the
\* latest with its timeout.
FairSpec ==
    /\ Spec
    /\ WF_vars(MainProgress)
    /\ \A w \in Worker : WF_vars(WorkerProgress(w) \/ SpawnRaises(w))
-----------------------------------------------------------------------------
(* Over all batches, crashes and restarts `run --all` starts the subprocess of
   a task at most once: the task has left `pending` on disk before it spawns. *)
SpawnedOnce == \A t \in Task : spawned[t] <= 1

(* _store_lock loses no status: once the future of a task is complete,
   tasks.json says how its subprocess ended, whatever the other threads merged
   into the file in the meantime.  FR-06: when run_all returns, no pending task
   is left over and no exception was swallowed. *)
OutcomeIsStored ==
    /\ \A t \in Task :
          future[t] = "ok" /\ outcome[t] # "none" => status[t] = outcome[t]
    /\ main = "returned" =>
          \A t \in Task : status[t] # "pending" /\ future[t] # "error"

(* run_all docstring: "execute every pending task", and FR-02/FR-06: running
   ends in done, failed or timeout, and the downstream of anything else is
   marked blocked.  Once the process is over, every task is settled. *)
BatchSettlesEverything ==
    main \in {"returned", "raised"} => \A t \in Task : status[t] \in Settled

Promise == INSTANCE BatchPromise

(* The pool, its layers and its lock implement dependency-ordered execution:
   no interleaving of worker threads, no failing task and no crash makes a
   task start early, be blocked without cause, or change status otherwise. *)
BatchKeepsThePromise == Promise!PromiseSpec

(* A batch ends: layers, lock and pool cannot wait for each other forever. *)
BatchEnds == (main = "load_tasks") ~> (main = "idle")
=============================================================================
