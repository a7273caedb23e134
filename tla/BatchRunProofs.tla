--------------------------- MODULE BatchRunProofs ---------------------------
(***************************************************************************)
(* Theorems about BatchRun: for every finite task list without a ring,     *)
(* every assignment of initial statuses, every number of worker threads    *)
(* and batches, with crashes and spawn errors.                             *)
(***************************************************************************)
EXTENDS BatchRun, DagProofs

\* Steps of the main thread that leave the pool and its futures alone.
MainMoves ==
    StartBatch \/ LayerDone \/ LayerRaises \/ Shutdown \/ RunAllReturns

Snapshot == [t \in Pending |-> depends_on[t]]

LEMMA SnapshotLayers ==
    ASSUME TypeOK
    PROVE  /\ Partition(Layers(Snapshot), Pending)
           /\ ~Cyclic(depends_on) => Ordered(Layers(Snapshot), depends_on)
<1>1. DOMAIN Snapshot = Pending /\ IsFiniteSet(Pending)
  BY BatchRunAssumption, FS_Subset DEF Snapshot, Pending
<1>2. Partition(Layers(Snapshot), Pending)
  BY <1>1, LayersPartition
<1>3. ASSUME ~Cyclic(depends_on) PROVE Ordered(Layers(Snapshot), depends_on)
  <2>1. ~Cyclic(Snapshot)
    BY <1>3 DEF Cyclic, Snapshot, Pending, TypeOK
  <2>2. Ordered(Layers(Snapshot), Snapshot)
    BY <1>1, <2>1, LayersPartition
  <2>3. \A i \in DOMAIN Layers(Snapshot) : Layers(Snapshot)[i] \subseteq Pending
    BY <1>2 DEF Partition
  <2>4. \A t \in Pending : Snapshot[t] = depends_on[t]
    BY DEF Snapshot
  <2> QED
    BY <2>2, <2>3, <2>4 DEF Ordered
<1> QED
  BY <1>2, <1>3

-----------------------------------------------------------------------------
LEMMA TypeInit == Init => TypeOK
<1> SUFFICES ASSUME Init PROVE TypeOK
  OBVIOUS
<1>1. status \in [Task -> Statuses] /\ loaded \in [Worker -> [Task -> Statuses]]
  BY InitialStatusAssumption DEF Init, Unloaded, Statuses
<1>2. merge \in [Worker -> Statuses] /\ batches \in 0 .. MaxBatches
  BY BatchRunAssumption DEF Init, Statuses
<1> QED
  BY <1>1, <1>2 DEF Init, TypeOK, MainSteps, WorkerSteps

LEMMA TypeStep == TypeOK /\ [Next]_vars => TypeOK'
<1> SUFFICES ASSUME TypeOK, [Next]_vars PROVE TypeOK'
  OBVIOUS
<1> USE DEF TypeOK, store, pool, thread, history, MainSteps, WorkerSteps
<1>1. CASE MainMoves
  <2>1. CASE StartBatch
    BY <2>1, BatchRunAssumption DEF StartBatch
  <2>2. CASE LayerDone
    BY <2>2 DEF LayerDone
  <2>3. CASE LayerRaises
    BY <2>3 DEF LayerRaises
  <2>4. CASE Shutdown
    BY <2>4 DEF Shutdown
  <2>5. CASE RunAllReturns
    BY <2>5 DEF RunAllReturns
  <2> QED
    BY <1>1, <2>1, <2>2, <2>3, <2>4, <2>5 DEF MainMoves
<1>2. CASE LoadTasks
  <2>1. levels' = Layers(Snapshot)
    BY <1>2 DEF LoadTasks, Snapshot
  <2>2. levels' \in Seq(SUBSET Task)
    BY <2>1, SnapshotLayers DEF Partition, Pending
  <2> QED
    BY <1>2, <2>2 DEF LoadTasks
<1>3. CASE SubmitLayer
  <2>1. Head(levels) \in SUBSET Task /\ Tail(levels) \in Seq(SUBSET Task)
    BY <1>3 DEF SubmitLayer
  <2> QED
    BY <1>3, <2>1 DEF SubmitLayer
<1>4. CASE Exit
  BY <1>4 DEF Exit
<1>5. CASE Crash
  BY <1>5 DEF Crash, Unloaded, Statuses
<1>6. ASSUME NEW w \in Worker, Take(w) PROVE TypeOK'
  BY <1>6 DEF Take
<1>7. ASSUME NEW w \in Worker, LookUpDependency(w) PROVE TypeOK'
  BY <1>7 DEF LookUpDependency
<1>8. ASSUME NEW w \in Worker, Gate(w) PROVE TypeOK'
  BY <1>8 DEF Gate, Statuses
<1>9. ASSUME NEW w \in Worker, SetStatusLoad(w) PROVE TypeOK'
  BY <1>9 DEF SetStatusLoad
<1>10. ASSUME NEW w \in Worker, SetStatusSave(w) PROVE TypeOK'
  <2>1. status' \in [Task -> Statuses] /\ merge' \in [Worker -> Statuses]
    BY <1>10 DEF SetStatusSave, Statuses
  <2>2. loaded' \in [Worker -> [Task -> Statuses]]
    BY <1>10 DEF SetStatusSave, Unloaded, Statuses
  <2>3. CASE merge[w] = "running"
    <3>1. /\ spawned' = [spawned EXCEPT ![task[w]] = @ + 1]
          /\ spawned \in [Task -> Nat]
      BY <1>10, <2>3 DEF SetStatusSave
    <3>2. \A n \in Nat : n + 1 \in Nat
      OBVIOUS
    <3>3. spawned' \in [Task -> Nat]
      BY ONLY <3>1, <3>2
    <3> QED
      BY <1>10, <2>1, <2>2, <2>3, <3>3 DEF SetStatusSave
  <2>4. CASE merge[w] # "running"
    <3>1. /\ pc' = [pc EXCEPT ![w] = "idle"]
          /\ pc \in [Worker -> WorkerSteps]
      BY <1>10, <2>4 DEF SetStatusSave
    <3>2. pc' \in [Worker -> WorkerSteps]
      BY <3>1
    <3>3. future' \in [Task -> {"none", "queued", "running", "ok", "error"}]
      BY <1>10, <2>4 DEF SetStatusSave
    <3>4. task' \in [Worker -> Task \cup {NoTask}]
      BY <1>10, <2>4 DEF SetStatusSave
    <3>5. storeLock' = NoWorker /\ UNCHANGED <<spawned, depends_on, pool, unchecked,
                                              unmet, batches, outcome>>
      BY <1>10, <2>4 DEF SetStatusSave
    <3> QED
      BY <2>1, <2>2, <3>2, <3>3, <3>4, <3>5
  <2> QED
    BY <2>3, <2>4
<1>11. ASSUME NEW w \in Worker, SubprocessEnds(w) PROVE TypeOK'
  BY <1>11 DEF SubprocessEnds, Statuses
<1>12. ASSUME NEW w \in Worker, SpawnRaises(w) PROVE TypeOK'
  BY <1>12 DEF SpawnRaises
<1>13. CASE UNCHANGED vars
  BY <1>13 DEF vars
<1> QED
  BY <1>1, <1>2, <1>3, <1>4, <1>5, <1>6, <1>7, <1>8, <1>9, <1>10, <1>11, <1>12,
     <1>13 DEF Next, MainMoves, MainProgress, WorkerProgress

(* Every variable keeps its type; the layers handed to the pool in particular
   hold only tasks of the list. *)
THEOREM TypeCorrect == Spec => []TypeOK
  BY TypeInit, TypeStep, PTL DEF Spec

-----------------------------------------------------------------------------
(* The inductive invariant behind the other theorems. *)

\* A worker thread that is not idle has a task to itself, whose future runs.
OwnerInv ==
    /\ \A w \in Worker :
          /\ pc[w] = "idle" <=> task[w] = NoTask
          /\ pc[w] # "idle" => future[task[w]] = "running"
    /\ \A v, w \in Worker : pc[v] # "idle" /\ task[v] = task[w] => v = w

\* Between the load and the save of _set_status a worker holds _store_lock, and
\* what it loaded is still what is on disk.
LockInv ==
    \A w \in Worker :
        /\ pc[w] = "save" <=> storeLock = w
        /\ pc[w] = "save" => loaded[w] = status

\* The status of a worker's task follows from where the worker is.
Progress(w) ==
    /\ pc[w] = "unmet_dependencies" => status[task[w]] = "pending"
    /\ pc[w] = "subprocess" => status[task[w]] = "running"
    /\ pc[w] \in {"load", "save"} =>
          \/ merge[w] \in {"running", "blocked"} /\ status[task[w]] = "pending"
          \/ /\ merge[w] \in Outcomes
             /\ status[task[w]] = "running"
             /\ outcome[task[w]] = merge[w]

ProgressInv == \A w \in Worker : Progress(w)

HistoryInv ==
    \A t \in Task :
        /\ spawned[t] <= 1
        /\ status[t] = "pending" => spawned[t] = 0 /\ outcome[t] = "none"
        /\ future[t] = "ok" => status[t] # "pending" /\ outcome[t] \in {"none", status[t]}

Held(t) == future[t] \in {"queued", "running"}

\* Where the main thread is says which futures can be under way.
MainInv ==
    /\ main \in {"idle", "load_tasks"} =>
          levels = <<>> /\ \A t \in Task : future[t] = "none"
    /\ main \in {"submit_layer", "returned"} =>
          \A t \in Task : future[t] \in {"none", "ok"}
    /\ main = "wait_layer" =>
          \A t \in Task \ current : future[t] \in {"none", "ok"}
    /\ main = "raised" => \A t \in Task : ~Held(t)

\* t is in a layer that has not been submitted yet.
Planned(t) == \E i \in DOMAIN levels : t \in levels[i]

\* The layers still to come are in dependency order, hold only tasks nobody has
\* touched, and together with the pool cover whatever is pending.
PlanInv ==
    /\ \A t \in Task : Planned(t) => status[t] = "pending" /\ future[t] = "none"
    /\ \A t \in Task : future[t] = "queued" => status[t] = "pending"
    /\ \A i, j \in DOMAIN levels : i # j => levels[i] \cap levels[j] = {}
    /\ Ordered(levels, depends_on)
    /\ main \in {"submit_layer", "wait_layer"} =>
          \A t \in Task : status[t] = "pending" => Planned(t) \/ Held(t)
    /\ main = "returned" => \A t \in Task : status[t] # "pending"

Known(t) == depends_on[t] \cap Task

\* Nothing a task in the pool depends on can still change.
DepInv ==
    /\ ~Cyclic(depends_on)
    /\ \A t \in Task : Held(t) =>
          \A d \in Known(t) : status[d] # "pending" /\ ~Held(d)

\* What a worker concluded from its look-ups is true of the store.
Gated(w) ==
    /\ unmet[w] =>
          /\ pc[w] = "unmet_dependencies"
          /\ \E d \in Known(task[w]) : status[d] \notin {"done", "pending"}
    /\ pc[w] = "unmet_dependencies" => unchecked[w] \subseteq depends_on[task[w]]
    /\ pc[w] = "unmet_dependencies" /\ ~unmet[w] =>
          \A d \in Known(task[w]) \ unchecked[w] : status[d] = "done"
    /\ pc[w] \in {"load", "save"} /\ merge[w] = "running" =>
          \A d \in Known(task[w]) : status[d] = "done"
    /\ pc[w] \in {"load", "save"} /\ merge[w] = "blocked" =>
          \E d \in Known(task[w]) : status[d] \notin {"done", "pending"}

GateInv == \A w \in Worker : Gated(w)

Inv ==
    /\ TypeOK /\ OwnerInv /\ LockInv /\ ProgressInv /\ HistoryInv
    /\ MainInv /\ PlanInv /\ DepInv /\ GateInv

LEMMA InvInit == Init => Inv
<1> SUFFICES ASSUME Init PROVE Inv
  OBVIOUS
<1>1. TypeOK
  BY TypeInit
<1>2. OwnerInv /\ LockInv
  BY BatchRunAssumption DEF Init, OwnerInv, LockInv
<1>3. ProgressInv /\ GateInv
  BY DEF Init, ProgressInv, Progress, GateInv, Gated
<1>4. HistoryInv /\ MainInv
  BY DEF Init, HistoryInv, MainInv
<1>5. PlanInv /\ DepInv
  <2>1. DOMAIN levels = {}
    BY DEF Init
  <2> QED
    BY <2>1 DEF Init, PlanInv, Planned, Ordered, DepInv, Held
<1> QED
  BY <1>1, <1>2, <1>3, <1>4, <1>5 DEF Inv

\* The layers after the first, when that one is handed to the pool.
LEMMA LayersShift ==
    ASSUME TypeOK, levels # <<>>
    PROVE  /\ Head(levels) = levels[1] /\ 1 \in DOMAIN levels
           /\ \A i \in DOMAIN Tail(levels) :
                 /\ i + 1 \in DOMAIN levels /\ i + 1 # 1
                 /\ Tail(levels)[i] = levels[i + 1]
           /\ \A j \in DOMAIN levels :
                 j = 1 \/ \E i \in DOMAIN Tail(levels) : j = i + 1
<1>1. levels \in Seq(SUBSET Task)
  BY DEF TypeOK
<1>2. \A j \in DOMAIN levels : j = 1 \/ j - 1 \in DOMAIN Tail(levels)
  BY <1>1
<1>3. \A j \in DOMAIN levels : j = (j - 1) + 1
  BY <1>1
<1> QED
  BY <1>1, <1>2, <1>3

\* What a worker's save does to the store, given that it holds the lock.
LEMMA SaveMerges ==
    ASSUME TypeOK, OwnerInv, LockInv, NEW w \in Worker, SetStatusSave(w)
    PROVE  /\ task[w] \in Task
           /\ status' = [status EXCEPT ![task[w]] = merge[w]]
<1>1. task[w] # NoTask
  BY DEF OwnerInv, SetStatusSave
<1>2. loaded[w] = status
  BY DEF LockInv, SetStatusSave
<1> QED
  BY <1>1, <1>2 DEF TypeOK, SetStatusSave

-----------------------------------------------------------------------------
LEMMA OwnerStep == Inv /\ [Next]_vars => OwnerInv'
<1> SUFFICES ASSUME Inv, [Next]_vars PROVE OwnerInv'
  OBVIOUS
<1> USE DEF Inv, TypeOK, OwnerInv
<1>1. CASE MainMoves \/ LoadTasks \/ UNCHANGED vars
  BY <1>1 DEF MainMoves, StartBatch, LayerDone, LayerRaises, Shutdown, RunAllReturns,
              LoadTasks, vars, thread
<1>2. CASE SubmitLayer
  <2>1. \A t \in Head(levels) : future[t] = "none"
    BY <1>2, LayersShift DEF SubmitLayer, PlanInv, Planned
  <2> QED
    BY <1>2, <2>1 DEF SubmitLayer, thread
<1>3. CASE Exit
  <2>1. \A w \in Worker : pc[w] = "idle"
    BY <1>3 DEF Exit, MainInv, Held
  <2> QED
    BY <1>3, <2>1 DEF Exit, thread
<1>4. CASE Crash
  BY <1>4 DEF Crash
<1>5. ASSUME NEW w \in Worker, Take(w) PROVE OwnerInv'
  BY <1>5, BatchRunAssumption DEF Take
<1>6. ASSUME NEW w \in Worker,
             LookUpDependency(w) \/ Gate(w) \/ SetStatusLoad(w) \/ SubprocessEnds(w)
      PROVE  OwnerInv'
  BY <1>6 DEF LookUpDependency, Gate, SetStatusLoad, SubprocessEnds
<1>7. ASSUME NEW w \in Worker, SetStatusSave(w) PROVE OwnerInv'
  <2>1. CASE merge[w] = "running"
    BY <1>7, <2>1 DEF SetStatusSave
  <2>2. CASE merge[w] # "running"
    <3>1. /\ pc' = [pc EXCEPT ![w] = "idle"] /\ task' = [task EXCEPT ![w] = NoTask]
          /\ future' = [future EXCEPT ![task[w]] = "ok"]
      BY <1>7, <2>2 DEF SetStatusSave
    <3>2. \A v \in Worker : v # w /\ pc[v] # "idle" =>
              task[v] \in Task /\ task[v] # task[w] /\ task[v] # NoTask
      BY <1>7 DEF SetStatusSave
    <3> QED
      BY <3>1, <3>2
  <2> QED
    BY <2>1, <2>2
<1>8. ASSUME NEW w \in Worker, SpawnRaises(w) PROVE OwnerInv'
  BY <1>8, BatchRunAssumption DEF SpawnRaises
<1> QED
  BY <1>1, <1>2, <1>3, <1>4, <1>5, <1>6, <1>7, <1>8
     DEF Next, MainMoves, MainProgress, WorkerProgress

LEMMA LockStep == Inv /\ [Next]_vars => LockInv'
<1> SUFFICES ASSUME Inv, [Next]_vars PROVE LockInv'
  OBVIOUS
<1> USE DEF Inv, TypeOK, LockInv
<1>1. CASE MainMoves \/ LoadTasks \/ UNCHANGED vars
  BY <1>1 DEF MainMoves, StartBatch, LayerDone, LayerRaises, Shutdown, RunAllReturns,
              LoadTasks, vars, thread, store
<1>2. CASE SubmitLayer \/ Exit
  BY <1>2 DEF SubmitLayer, Exit, thread, store
<1>3. CASE Crash
  BY <1>3, BatchRunAssumption DEF Crash
<1>4. ASSUME NEW w \in Worker,
             \/ Take(w) \/ LookUpDependency(w) \/ Gate(w) \/ SubprocessEnds(w)
             \/ SpawnRaises(w)
      PROVE  LockInv'
  BY <1>4 DEF Take, LookUpDependency, Gate, SubprocessEnds, SpawnRaises, store
<1>5. ASSUME NEW w \in Worker, SetStatusLoad(w) PROVE LockInv'
  BY <1>5, BatchRunAssumption DEF SetStatusLoad, store
<1>6. ASSUME NEW w \in Worker, SetStatusSave(w) PROVE LockInv'
  <2>1. storeLock = w /\ storeLock' = NoWorker /\ pc'[w] # "save"
    BY <1>6 DEF SetStatusSave
  <2>2. \A v \in Worker : v # w => pc'[v] = pc[v]
    BY <1>6 DEF SetStatusSave
  <2> QED
    BY <2>1, <2>2, BatchRunAssumption
<1> QED
  BY <1>1, <1>2, <1>3, <1>4, <1>5, <1>6
     DEF Next, MainMoves, MainProgress, WorkerProgress

LEMMA ProgressStep == Inv /\ [Next]_vars => ProgressInv'
<1> SUFFICES ASSUME Inv, [Next]_vars PROVE ProgressInv'
  OBVIOUS
<1> USE DEF Inv, TypeOK, ProgressInv, Progress
<1>1. CASE MainMoves \/ LoadTasks \/ SubmitLayer \/ Exit \/ UNCHANGED vars
  BY <1>1 DEF MainMoves, StartBatch, LayerDone, LayerRaises, Shutdown, RunAllReturns,
              LoadTasks, SubmitLayer, Exit, vars, thread, store, history
<1>2. CASE Crash
  BY <1>2 DEF Crash
<1>3. ASSUME NEW w \in Worker, Take(w) PROVE ProgressInv'
  <2>1. task'[w] \in Task /\ status[task'[w]] = "pending"
    BY <1>3 DEF Take, PlanInv
  <2> QED
    BY <1>3, <2>1 DEF Take, store, history
<1>4. ASSUME NEW w \in Worker, LookUpDependency(w) \/ SetStatusLoad(w) \/ SpawnRaises(w)
      PROVE  ProgressInv'
  BY <1>4 DEF LookUpDependency, SetStatusLoad, SpawnRaises, store, history
<1>5. ASSUME NEW w \in Worker, Gate(w) PROVE ProgressInv'
  BY <1>5 DEF Gate, store, history
<1>6. ASSUME NEW w \in Worker, SetStatusSave(w) PROVE ProgressInv'
  <2>1. \A v \in Worker : v # w /\ pc[v] # "idle" =>
            task[v] \in Task /\ task[v] # task[w]
    BY <1>6 DEF OwnerInv, SetStatusSave
  <2>2. status' = [status EXCEPT ![task[w]] = merge[w]] /\ task[w] \in Task
    BY <1>6, SaveMerges
  <2>3. /\ outcome' = outcome
        /\ \A v \in Worker \ {w} :
              pc'[v] = pc[v] /\ task'[v] = task[v] /\ merge'[v] = merge[v]
    BY <1>6 DEF SetStatusSave
  <2>4. /\ pc'[w] \in {"idle", "subprocess"}
        /\ pc'[w] = "subprocess" => task'[w] = task[w] /\ merge[w] = "running"
    BY <1>6 DEF SetStatusSave
  <2>5. \A v \in Worker \ {w} : pc[v] # "idle" => status'[task[v]] = status[task[v]]
    BY <2>1, <2>2
  <2>6. status'[task[w]] = merge[w]
    BY <2>2
  <2>7. ASSUME NEW v \in Worker, v # w PROVE Progress(v)'
    BY <2>3, <2>5, <2>7
  <2> QED
    BY <2>4, <2>6, <2>7
<1>7. ASSUME NEW w \in Worker, SubprocessEnds(w) PROVE ProgressInv'
  <2>1. \A v \in Worker : v # w /\ pc[v] # "idle" => task[v] # task[w]
    BY <1>7 DEF OwnerInv, SubprocessEnds
  <2>2. task[w] \in Task
    BY <1>7 DEF OwnerInv, SubprocessEnds
  <2> QED
    BY <1>7, <2>1, <2>2 DEF SubprocessEnds, store
<1> QED
  BY <1>1, <1>2, <1>3, <1>4, <1>5, <1>6, <1>7
     DEF Next, MainMoves, MainProgress, WorkerProgress

LEMMA HistoryStep == Inv /\ [Next]_vars => HistoryInv'
<1> SUFFICES ASSUME Inv, [Next]_vars PROVE HistoryInv'
  OBVIOUS
<1> USE DEF Inv, TypeOK, HistoryInv
<1>1. CASE MainMoves \/ LoadTasks \/ UNCHANGED vars
  BY <1>1 DEF MainMoves, StartBatch, LayerDone, LayerRaises, Shutdown, RunAllReturns,
              LoadTasks, vars, store, history
<1>2. CASE SubmitLayer \/ Exit \/ Crash
  BY <1>2 DEF SubmitLayer, Exit, Crash, store, history
<1>3. ASSUME NEW w \in Worker, Take(w) PROVE HistoryInv'
  BY <1>3 DEF Take, store, history
<1>4. ASSUME NEW w \in Worker, LookUpDependency(w) \/ Gate(w) \/ SetStatusLoad(w)
      PROVE  HistoryInv'
  BY <1>4 DEF LookUpDependency, Gate, SetStatusLoad, store, history
<1>5. ASSUME NEW w \in Worker, SetStatusSave(w) PROVE HistoryInv'
  <2>1. status' = [status EXCEPT ![task[w]] = merge[w]] /\ task[w] \in Task
    BY <1>5, SaveMerges
  <2>2. outcome' = outcome
    BY <1>5 DEF SetStatusSave
  <2>3. CASE merge[w] = "running"
    <3>1. spawned' = [spawned EXCEPT ![task[w]] = @ + 1] /\ future' = future
      BY <1>5, <2>3 DEF SetStatusSave
    <3>2. status[task[w]] = "pending" /\ future[task[w]] = "running"
      BY <1>5, <2>3 DEF SetStatusSave, ProgressInv, Progress, OwnerInv, Outcomes
    <3> QED
      BY <2>1, <2>2, <2>3, <3>1, <3>2
  <2>4. CASE merge[w] # "running"
    <3>1. spawned' = spawned /\ future' = [future EXCEPT ![task[w]] = "ok"]
      BY <1>5, <2>4 DEF SetStatusSave
    <3>2. outcome[task[w]] \in {"none", merge[w]} /\ merge[w] # "pending"
      BY <1>5, <2>1, <2>4 DEF SetStatusSave, ProgressInv, Progress, Outcomes
    <3> QED
      BY <2>1, <2>2, <2>4, <3>1, <3>2
  <2> QED
    BY <2>3, <2>4
<1>6. ASSUME NEW w \in Worker, SubprocessEnds(w) PROVE HistoryInv'
  <2>1. status[task[w]] = "running" /\ future[task[w]] = "running"
    BY <1>6 DEF SubprocessEnds, ProgressInv, Progress, OwnerInv
  <2> QED
    BY <1>6, <2>1 DEF SubprocessEnds, store
<1>7. ASSUME NEW w \in Worker, SpawnRaises(w) PROVE HistoryInv'
  BY <1>7 DEF SpawnRaises, store, history
<1> QED
  BY <1>1, <1>2, <1>3, <1>4, <1>5, <1>6, <1>7
     DEF Next, MainMoves, MainProgress, WorkerProgress

LEMMA MainStep == Inv /\ [Next]_vars => MainInv'
<1> SUFFICES ASSUME Inv, [Next]_vars PROVE MainInv'
  OBVIOUS
<1> USE DEF Inv, TypeOK, MainInv, Held
<1>1. CASE MainMoves
  BY <1>1 DEF MainMoves, StartBatch, LayerDone, LayerRaises, Shutdown, RunAllReturns
<1>2. CASE LoadTasks \/ UNCHANGED vars
  BY <1>2 DEF LoadTasks, vars, pool
<1>3. CASE SubmitLayer
  BY <1>3 DEF SubmitLayer
<1>4. CASE Exit \/ Crash
  BY <1>4 DEF Exit, Crash
<1>5. ASSUME NEW w \in Worker,
             LookUpDependency(w) \/ Gate(w) \/ SetStatusLoad(w) \/ SubprocessEnds(w)
      PROVE  MainInv'
  BY <1>5 DEF LookUpDependency, Gate, SetStatusLoad, SubprocessEnds, pool
<1>6. ASSUME NEW w \in Worker, Take(w) PROVE MainInv'
  BY <1>6 DEF Take, pool
<1>7. ASSUME NEW w \in Worker, SetStatusSave(w) PROVE MainInv'
  <2>1. task[w] \in Task /\ future[task[w]] = "running" /\ UNCHANGED pool
    BY <1>7, SaveMerges DEF SetStatusSave, OwnerInv
  <2>2. future' = future \/ future' = [future EXCEPT ![task[w]] = "ok"]
    BY <1>7 DEF SetStatusSave
  <2> QED
    BY <2>1, <2>2 DEF pool
<1>8. ASSUME NEW w \in Worker, SpawnRaises(w) PROVE MainInv'
  <2>1. task[w] \in Task /\ future[task[w]] = "running"
    BY <1>8 DEF SpawnRaises, OwnerInv
  <2> QED
    BY <1>8, <2>1 DEF SpawnRaises, pool
<1> QED
  BY <1>1, <1>2, <1>3, <1>4, <1>5, <1>6, <1>7, <1>8
     DEF Next, MainMoves, MainProgress, WorkerProgress

LEMMA PlanStep == Inv /\ [Next]_vars => PlanInv'
<1> SUFFICES ASSUME Inv, [Next]_vars PROVE PlanInv'
  OBVIOUS
<1> USE DEF Inv, TypeOK, PlanInv, Held, Planned
<1>1. CASE StartBatch \/ LayerDone \/ LayerRaises \/ Shutdown \/ UNCHANGED vars
  BY <1>1 DEF StartBatch, LayerDone, LayerRaises, Shutdown, vars, pool, store, Ordered
<1>2. CASE RunAllReturns
  <2>1. DOMAIN levels = {}
    BY <1>2 DEF RunAllReturns
  <2>2. \A t \in Task : status[t] # "pending"
    BY <1>2, <2>1 DEF RunAllReturns, MainInv
  <2> QED
    BY <1>2, <2>2 DEF RunAllReturns, store, Ordered
<1>3. CASE LoadTasks
  <2>1. levels' = Layers(Snapshot)
    BY <1>3 DEF LoadTasks, Snapshot
  <2>2. Partition(levels', Pending) /\ Ordered(levels', depends_on)
    BY <2>1, SnapshotLayers DEF DepInv
  <2>3. /\ \A i \in DOMAIN levels' : levels'[i] \subseteq Pending
        /\ \A i, j \in DOMAIN levels' : i # j => levels'[i] \cap levels'[j] = {}
        /\ \A t \in Pending : \E i \in DOMAIN levels' : t \in levels'[i]
    BY <2>2 DEF Partition
  <2>4. /\ main' = "submit_layer" /\ UNCHANGED <<status, depends_on, future>>
        /\ \A t \in Task : future[t] = "none"
    BY <1>3 DEF LoadTasks, store, MainInv
  <2> HIDE DEF TypeOK
  <2> QED
    BY <2>2, <2>3, <2>4 DEF Pending, Ordered
<1>4. CASE SubmitLayer
  <2>1. /\ levels' = Tail(levels) /\ main' = "wait_layer"
        /\ future' = [t \in Task |-> IF t \in Head(levels) THEN "queued" ELSE future[t]]
        /\ status' = status /\ depends_on' = depends_on
    BY <1>4 DEF SubmitLayer, store
  <2>2. levels # <<>> /\ main = "submit_layer"
    BY <1>4 DEF SubmitLayer
  <2>3. \A t \in Task : Planned(t)' => Planned(t) /\ t \notin Head(levels)
    BY <2>1, <2>2, LayersShift
  <2>4. \A t \in Task : Planned(t) => t \in Head(levels) \/ Planned(t)'
    BY <2>1, <2>2, LayersShift
  <2>5. \A i, j \in DOMAIN levels' : i # j => levels'[i] \cap levels'[j] = {}
    <3> SUFFICES ASSUME NEW i \in DOMAIN levels', NEW j \in DOMAIN levels', i # j
                 PROVE  levels'[i] \cap levels'[j] = {}
      OBVIOUS
    <3>1. i + 1 # j + 1
      BY <2>1
    <3> QED
      BY <2>1, <2>2, <3>1, LayersShift
  <2>6. Ordered(levels', depends_on')
    <3> SUFFICES ASSUME NEW i \in DOMAIN levels', NEW j \in DOMAIN levels',
                        NEW t \in levels'[i], depends_on[t] \cap levels'[j] # {}
                 PROVE  j < i
      BY <2>1 DEF Ordered
    <3>1. j + 1 < i + 1
      BY <2>1, <2>2, LayersShift DEF Ordered
    <3> QED
      BY <2>1, <3>1
  <2>7. \A t \in Task : Planned(t)' => status'[t] = "pending" /\ future'[t] = "none"
    BY <2>1, <2>3
  <2>8. \A t \in Task : future'[t] = "queued" => status'[t] = "pending"
    BY <2>1, <2>2, LayersShift
  <2>9. \A t \in Task : status'[t] = "pending" => Planned(t)' \/ Held(t)'
    BY <2>1, <2>2, <2>4
  <2> HIDE DEF Planned, Held
  <2> QED
    BY <2>1, <2>5, <2>6, <2>7, <2>8, <2>9
<1>5. CASE Exit \/ Crash
  <2>1. DOMAIN levels' = {} /\ main' = "idle" /\ \A t \in Task : future'[t] = "none"
    BY <1>5 DEF Exit, Crash
  <2> QED
    BY <2>1 DEF Ordered
<1>6. ASSUME NEW w \in Worker,
             LookUpDependency(w) \/ Gate(w) \/ SetStatusLoad(w) \/ SubprocessEnds(w)
      PROVE  PlanInv'
  BY <1>6 DEF LookUpDependency, Gate, SetStatusLoad, SubprocessEnds, pool, store, Ordered
<1>7. ASSUME NEW w \in Worker, Take(w) PROVE PlanInv'
  BY <1>7 DEF Take, pool, store, Ordered
<1>8. ASSUME NEW w \in Worker, SetStatusSave(w) PROVE PlanInv'
  <2>1. /\ task[w] \in Task /\ future[task[w]] = "running"
        /\ status' = [status EXCEPT ![task[w]] = merge[w]]
        /\ UNCHANGED <<main, levels, depends_on>>
    BY <1>8, SaveMerges DEF SetStatusSave, OwnerInv, pool
  <2>2. merge[w] # "pending"
    BY <1>8 DEF SetStatusSave, ProgressInv, Progress, Outcomes
  <2>3. future' = future \/ future' = [future EXCEPT ![task[w]] = "ok"]
    BY <1>8 DEF SetStatusSave
  <2> QED
    BY <2>1, <2>2, <2>3 DEF Ordered
<1>9. ASSUME NEW w \in Worker, SpawnRaises(w) PROVE PlanInv'
  <2>1. /\ task[w] \in Task /\ future[task[w]] = "running"
        /\ status[task[w]] = "running"
        /\ UNCHANGED <<main, levels, depends_on, status>>
        /\ future' = [future EXCEPT ![task[w]] = "error"]
    BY <1>9 DEF SpawnRaises, OwnerInv, ProgressInv, Progress, pool, store
  <2> QED
    BY <2>1 DEF Ordered
<1> QED
  BY <1>1, <1>2, <1>3, <1>4, <1>5, <1>6, <1>7, <1>8, <1>9
     DEF Next, MainProgress, WorkerProgress

LEMMA DepStep == Inv /\ [Next]_vars => DepInv'
<1> SUFFICES ASSUME Inv, [Next]_vars PROVE DepInv'
  OBVIOUS
<1> USE DEF Inv, TypeOK, DepInv, Held, Known
<1>1. CASE MainMoves \/ LoadTasks \/ UNCHANGED vars
  BY <1>1 DEF MainMoves, StartBatch, LayerDone, LayerRaises, Shutdown, RunAllReturns,
              LoadTasks, vars, store, Cyclic
<1>2. CASE SubmitLayer
  <2>1. /\ levels # <<>> /\ main = "submit_layer"
        /\ future' = [t \in Task |-> IF t \in Head(levels) THEN "queued" ELSE future[t]]
        /\ status' = status /\ depends_on' = depends_on
    BY <1>2 DEF SubmitLayer, store
  <2>2. \A t \in Task : ~Held(t) /\ (Held(t)' => t \in levels[1])
    BY <2>1, LayersShift DEF MainInv
  <2>3. ASSUME NEW t \in Task, t \in levels[1], NEW d \in Known(t)
        PROVE  status[d] # "pending" /\ d \notin levels[1]
    <3>1. \A i \in DOMAIN levels : d \notin levels[i]
      <4> SUFFICES ASSUME NEW i \in DOMAIN levels, d \in levels[i] PROVE FALSE
        OBVIOUS
      <4>1. i < 1
        BY <2>1, <2>3, LayersShift DEF PlanInv, Ordered
      <4> QED
        BY <4>1
    <3>2. status[d] # "pending"
      BY <2>1, <2>2, <3>1 DEF PlanInv, Planned
    <3> QED
      BY <2>1, <3>1, <3>2, LayersShift
  <2> HIDE DEF Held
  <2>4. \A t \in Task : Held(t)' =>
            \A d \in Known(t)' : status'[d] # "pending" /\ ~Held(d)'
    BY <2>1, <2>2, <2>3
  <2> QED
    BY <2>1, <2>4 DEF Cyclic
<1>3. CASE Exit \/ Crash
  BY <1>3 DEF Exit, Crash, store, Cyclic
<1>4. ASSUME NEW w \in Worker,
             LookUpDependency(w) \/ Gate(w) \/ SetStatusLoad(w) \/ SubprocessEnds(w)
      PROVE  DepInv'
  BY <1>4 DEF LookUpDependency, Gate, SetStatusLoad, SubprocessEnds, store, Cyclic
<1>5. ASSUME NEW w \in Worker, Take(w) \/ SpawnRaises(w) PROVE DepInv'
  <2>1. \A t \in Task : Held(t)' => Held(t)
    BY <1>5 DEF Take, SpawnRaises
  <2>2. status' = status /\ depends_on' = depends_on
    BY <1>5 DEF Take, SpawnRaises, store
  <2> HIDE DEF Held
  <2> QED
    BY <2>1, <2>2 DEF Cyclic
<1>6. ASSUME NEW w \in Worker, SetStatusSave(w) PROVE DepInv'
  <2>1. /\ task[w] \in Task /\ depends_on' = depends_on
        /\ status' = [status EXCEPT ![task[w]] = merge[w]]
    BY <1>6, SaveMerges DEF SetStatusSave
  <2>2. merge[w] # "pending"
    BY <1>6 DEF SetStatusSave, ProgressInv, Progress, Outcomes
  <2>3. future' = future \/ future' = [future EXCEPT ![task[w]] = "ok"]
    BY <1>6 DEF SetStatusSave
  <2>4. \A t \in Task : Held(t)' => Held(t)
    BY <2>1, <2>3
  <2>5. \A d \in Task : status'[d] = "pending" => status[d] = "pending"
    BY <2>1, <2>2
  <2> HIDE DEF Held
  <2> QED
    BY <2>1, <2>4, <2>5 DEF Cyclic
<1> QED
  BY <1>1, <1>2, <1>3, <1>4, <1>5, <1>6
     DEF Next, MainMoves, MainProgress, WorkerProgress

\* A save changes nothing that another worker's task depends on.
LEMMA KnownStable ==
    ASSUME Inv, NEW w \in Worker, SetStatusSave(w), NEW v \in Worker,
           v # w, pc[v] # "idle"
    PROVE  /\ task[v] \in Task
           /\ \A d \in Known(task[v]) : status'[d] = status[d]
<1> USE DEF Inv, TypeOK
<1>1. task[v] \in Task /\ Held(task[v])
  BY DEF OwnerInv, Held
<1>2. Held(task[w]) /\ status' = [status EXCEPT ![task[w]] = merge[w]]
  BY SaveMerges DEF OwnerInv, Held, SetStatusSave
<1>3. \A d \in Known(task[v]) : d # task[w] /\ d \in Task
  BY <1>1, <1>2 DEF DepInv, Known
<1> QED
  BY <1>1, <1>2, <1>3

LEMMA GateStep == Inv /\ [Next]_vars => GateInv'
<1> SUFFICES ASSUME Inv, [Next]_vars PROVE GateInv'
  OBVIOUS
<1> USE DEF Inv, TypeOK, GateInv
<1>1. CASE MainMoves \/ LoadTasks \/ SubmitLayer \/ Exit \/ UNCHANGED vars
  BY <1>1 DEF MainMoves, StartBatch, LayerDone, LayerRaises, Shutdown, RunAllReturns,
              LoadTasks, SubmitLayer, Exit, vars, thread, store, Gated, Known
<1>2. CASE Crash
  BY <1>2 DEF Crash, Gated
<1>3. ASSUME NEW w \in Worker, Take(w) PROVE GateInv'
  <2>1. PICK t \in Task : /\ task' = [task EXCEPT ![w] = t]
                          /\ unchecked' = [unchecked EXCEPT ![w] = depends_on[t]]
    BY <1>3 DEF Take
  <2>2. Gated(w)'
    BY <1>3, <2>1 DEF Take, store, Gated, Known
  <2>3. ASSUME NEW v \in Worker, v # w PROVE Gated(v)'
    BY <1>3, <2>1, <2>3 DEF Take, store, Gated, Known
  <2> QED
    BY <2>2, <2>3
<1>4. ASSUME NEW w \in Worker, LookUpDependency(w) PROVE GateInv'
  <2>1. PICK d \in unchecked[w] :
            /\ unchecked' = [unchecked EXCEPT ![w] = @ \ {d}]
            /\ unmet' = [unmet EXCEPT ![w] = @ \/ (d \in Task /\ status[d] # "done")]
    BY <1>4 DEF LookUpDependency
  <2>2. pc[w] = "unmet_dependencies" /\ UNCHANGED <<depends_on, status, pc, task, merge>>
    BY <1>4 DEF LookUpDependency, store
  <2>3. task[w] \in Task /\ Held(task[w])
    BY <2>2 DEF OwnerInv, Held
  <2>4. d \in Known(task[w]) => status[d] # "pending"
    BY <2>3 DEF DepInv, Known
  <2>5. unmet'[w] <=> unmet[w] \/ (d \in Task /\ status[d] # "done")
    BY <2>1
  <2>6. Gated(w)'
    <3>1. d \in Task => d \in Known(task[w])
      BY <2>2 DEF Gated, Known
    <3> QED
      BY <2>1, <2>2, <2>4, <2>5, <3>1 DEF Gated, Known
  <2>7. ASSUME NEW v \in Worker, v # w PROVE Gated(v)'
    BY <2>1, <2>2, <2>7 DEF Gated, Known
  <2> QED
    BY <2>6, <2>7
<1>5. ASSUME NEW w \in Worker, Gate(w) PROVE GateInv'
  <2>1. Gated(w)'
    BY <1>5 DEF Gate, store, Gated, Known
  <2>2. ASSUME NEW v \in Worker, v # w PROVE Gated(v)'
    BY <1>5, <2>2 DEF Gate, store, Gated, Known
  <2> QED
    BY <2>1, <2>2
<1>6. ASSUME NEW w \in Worker, SetStatusLoad(w) PROVE GateInv'
  BY <1>6 DEF SetStatusLoad, store, Gated, Known
<1>7. ASSUME NEW w \in Worker, SetStatusSave(w) PROVE GateInv'
  <2>1. depends_on' = depends_on /\ unmet' = unmet /\ unchecked' = unchecked
    BY <1>7 DEF SetStatusSave
  <2>2. pc[w] = "save" /\ pc'[w] \in {"idle", "subprocess"}
    BY <1>7 DEF SetStatusSave
  <2>3. Gated(w)'
    BY <2>1, <2>2 DEF Gated
  <2>4. ASSUME NEW v \in Worker, v # w PROVE Gated(v)'
    <3>1. pc'[v] = pc[v] /\ task'[v] = task[v] /\ merge'[v] = merge[v]
      BY <1>7, <2>4 DEF SetStatusSave
    <3>2. pc[v] # "idle" => \A d \in Known(task[v]) : status'[d] = status[d]
      BY <1>7, <2>4, KnownStable
    <3>3. CASE pc[v] = "idle"
      BY <2>1, <3>1, <3>3 DEF Gated
    <3>4. CASE pc[v] # "idle"
      <4> HIDE DEF TypeOK
      <4> QED
        BY <2>1, <3>1, <3>2, <3>4 DEF Gated, Known
    <3> QED
      BY <3>3, <3>4
  <2> QED
    BY <2>3, <2>4
<1>8. ASSUME NEW w \in Worker, SubprocessEnds(w) PROVE GateInv'
  <2>1. Gated(w)'
    BY <1>8 DEF SubprocessEnds, store, Gated, Known, Outcomes
  <2>2. ASSUME NEW v \in Worker, v # w PROVE Gated(v)'
    BY <1>8, <2>2 DEF SubprocessEnds, store, Gated, Known
  <2> QED
    BY <2>1, <2>2
<1>9. ASSUME NEW w \in Worker, SpawnRaises(w) PROVE GateInv'
  BY <1>9 DEF SpawnRaises, store, Gated, Known
<1> QED
  BY <1>1, <1>2, <1>3, <1>4, <1>5, <1>6, <1>7, <1>8, <1>9
     DEF Next, MainMoves, MainProgress, WorkerProgress

LEMMA InvCorrect == Spec => []Inv
<1>1. Inv /\ [Next]_vars => Inv'
  BY TypeStep, OwnerStep, LockStep, ProgressStep, HistoryStep, MainStep, PlanStep,
     DepStep, GateStep DEF Inv
<1> QED
  BY InvInit, <1>1, PTL DEF Spec

-----------------------------------------------------------------------------
(* Over all batches, crashes and restarts, the subprocess of a task is started
   at most once. *)
THEOREM SpawnedOnceCorrect == Spec => []SpawnedOnce
<1>1. Inv => SpawnedOnce
  BY DEF Inv, HistoryInv, SpawnedOnce
<1> QED
  BY InvCorrect, <1>1, PTL

(* However the threads interleave, a completed future's outcome is what
   tasks.json says, and a run_all that returns leaves no task pending and has
   swallowed no exception. *)
THEOREM OutcomeIsStoredCorrect == Spec => []OutcomeIsStored
<1>1. Inv => OutcomeIsStored
  <2> SUFFICES ASSUME Inv PROVE OutcomeIsStored
    OBVIOUS
  <2>1. \A t \in Task : future[t] = "ok" /\ outcome[t] # "none" => status[t] = outcome[t]
    BY DEF Inv, HistoryInv
  <2>2. main = "returned" => \A t \in Task : status[t] # "pending" /\ future[t] # "error"
    BY DEF Inv, MainInv, PlanInv
  <2> QED
    BY <2>1, <2>2 DEF OutcomeIsStored
<1> QED
  BY InvCorrect, <1>1, PTL

\* Only the save of a worker touches the store, and it is a step of the promise.
LEMMA PromiseStep ==
    Inv /\ [Next]_vars => [Promise!PromiseNext]_(Promise!promiseVars)
<1> SUFFICES ASSUME Inv, [Next]_vars
             PROVE  Promise!PromiseNext \/ UNCHANGED <<depends_on, status>>
  BY DEF Promise!promiseVars
<1>1. CASE \/ MainMoves \/ LoadTasks \/ SubmitLayer \/ Exit \/ Crash
           \/ UNCHANGED vars
  BY <1>1 DEF MainMoves, StartBatch, LayerDone, LayerRaises, Shutdown, RunAllReturns,
              LoadTasks, SubmitLayer, Exit, Crash, vars, store
<1>2. ASSUME NEW w \in Worker,
             \/ Take(w) \/ LookUpDependency(w) \/ Gate(w) \/ SetStatusLoad(w)
             \/ SubprocessEnds(w) \/ SpawnRaises(w)
      PROVE  UNCHANGED <<depends_on, status>>
  BY <1>2 DEF Take, LookUpDependency, Gate, SetStatusLoad, SubprocessEnds,
              SpawnRaises, store
<1>3. ASSUME NEW w \in Worker, SetStatusSave(w) PROVE Promise!PromiseNext
  <2> DEFINE t == task[w]
  <2>1. /\ t \in Task /\ depends_on' = depends_on
        /\ status' = [status EXCEPT ![t] = merge[w]]
    BY <1>3, SaveMerges DEF Inv, SetStatusSave
  <2>2. Progress(w) /\ Gated(w) /\ pc[w] = "save"
    BY <1>3 DEF Inv, ProgressInv, GateInv, SetStatusSave
  <2>3. CASE merge[w] \in Outcomes
    <3>1. status[t] = "running"
      BY <2>2, <2>3 DEF Progress, Outcomes
    <3>2. Promise!Finish(t)
      BY <2>1, <2>3, <3>1
         DEF Promise!Finish, Promise!Move, Promise!PromiseOutcomes, Outcomes
    <3> QED
      BY <2>1, <3>2 DEF Promise!PromiseNext
  <2>4. CASE merge[w] = "running"
    <3>1. status[t] = "pending" /\ \A d \in Known(t) : status[d] = "done"
      BY <2>2, <2>4 DEF Progress, Gated, Outcomes
    <3>2. Promise!Run(t)
      BY <2>1, <2>4, <3>1 DEF Promise!Run, Promise!Move, Promise!Known, Known
    <3> QED
      BY <2>1, <3>2 DEF Promise!PromiseNext
  <2>5. CASE merge[w] = "blocked"
    <3>1. /\ status[t] = "pending"
          /\ \E d \in Known(t) : status[d] \notin {"done", "pending"}
      BY <2>2, <2>5 DEF Progress, Gated, Outcomes
    <3>2. Promise!Block(t)
      BY <2>1, <2>5, <3>1 DEF Promise!Block, Promise!Move, Promise!Known, Known
    <3> QED
      BY <2>1, <3>2 DEF Promise!PromiseNext
  <2> QED
    BY <2>2, <2>3, <2>4, <2>5 DEF Progress
<1> QED
  BY <1>1, <1>2, <1>3 DEF Next, MainMoves, MainProgress, WorkerProgress

(* The pool implements dependency-ordered execution: whatever the number of
   threads, the interleaving, the failures and the crashes, every change of
   tasks.json is a task starting with all its dependencies done, a started task
   ending, or a task blocked by a dependency that ended otherwise. *)
THEOREM BatchKeepsThePromiseCorrect == Spec => BatchKeepsThePromise
<1>1. Inv /\ [Next]_vars => [Promise!PromiseNext]_(Promise!promiseVars)
  BY PromiseStep
<1> QED
  BY InvCorrect, <1>1, PTL DEF Spec, BatchKeepsThePromise, Promise!PromiseSpec
=============================================================================
