-------------------------- MODULE TaskStoreProofs --------------------------
(***************************************************************************)
(* Theorems about TaskStore, for every number of submitting, running and   *)
(* clearing processes and every combination of faults.                     *)
(***************************************************************************)
EXTENDS TaskStore, DagProofs

\* The values of the `job` locals.
LEMMA JobTypes ==
    /\ NoJob \in Job
    /\ \A name \in Names \cup {NoName}, deps \in SUBSET Ids :
          [NoJob EXCEPT !.name = name, !.depends_on = deps, !.unchecked = deps] \in Job
    /\ \A i \in Ids : [NoJob EXCEPT !.id = i] \in Job
<1>1. NoJob \in Job
  BY DEF NoJob, Job, Statuses
<1>2. ASSUME NEW name \in Names \cup {NoName}, NEW deps \in SUBSET Ids
      PROVE  [NoJob EXCEPT !.name = name, !.depends_on = deps,
                           !.unchecked = deps] \in Job
  BY DEF NoJob, Job, Statuses
<1>3. ASSUME NEW i \in Ids PROVE [NoJob EXCEPT !.id = i] \in Job
  BY DEF NoJob, Job, Statuses
<1> QED
  BY <1>1, <1>2, <1>3

\* A status merge keeps a list of records a list of records.
LEMMA WithStatusType ==
    ASSUME NEW list \in Seq(TaskRecord), NEW i, NEW status \in Statuses
    PROVE  WithStatus(list, i, status) \in Seq(TaskRecord)
<1>1. \A r \in TaskRecord : [r EXCEPT !.status = status] \in TaskRecord
  BY DEF TaskRecord
<1>2. /\ DOMAIN list = 1 .. Len(list)
      /\ Len(list) \in Nat
      /\ \A n \in 1 .. Len(list) : list[n] \in TaskRecord
  OBVIOUS
<1>3. WithStatus(list, i, status) \in [1 .. Len(list) -> TaskRecord]
  BY <1>1, <1>2 DEF WithStatus
<1> QED
  BY <1>2, <1>3

LEMMA TypeInit == Init => TypeOK
<1> SUFFICES ASSUME Init PROVE TypeOK
  OBVIOUS
<1>1. /\ tasks \in Seq(TaskRecord)
      /\ base \in [Proc -> Seq(TaskRecord)]
  BY DEF Init
<1>2. job \in [Proc -> Job]
  BY JobTypes DEF Init
<1>3. /\ issued \in 0 .. MaxSubmits
      /\ submits \in 0 .. MaxSubmits
      /\ ops \in 0 .. MaxOps
      /\ lockFile \in Nat /\ inodes \in Nat
      /\ handle \in [Proc -> Nat]
  BY TaskStoreAssumption DEF Init
<1>4. /\ locked \in SUBSET Proc
      /\ pc \in [Proc -> Steps]
      /\ accepted \in SUBSET Ids
      /\ succeeded \in SUBSET Ids
      /\ reported \in [Ids -> Outcomes \cup {"none"}]
  BY DEF Init, Steps
<1> QED
  BY <1>1, <1>2, <1>3, <1>4 DEF TypeOK

-----------------------------------------------------------------------------
\* Submitters that have started and not been given an id yet.
Undecided ==
    {p \in Submitter : pc[p] \in {"find_by_name", "find_dependency", "tasks_by_id"}}

(* Ids stay within MaxSubmits because every id belongs to a started submit:
   the ones still undecided have reserved theirs. *)
IdBudget == issued + Cardinality(Undecided) <= submits

\* The steps at which a process works on a task that has an id.
WorksOnTask ==
    Steps \ {"idle", "find_by_name", "find_dependency", "tasks_by_id",
             "unlink_tasks", "unlink_lock"}

HasId == \A p \in Proc : pc[p] \in WorksOnTask => job[p].id \in Ids

(* Runs only record outcomes as results. *)
SavesResult ==
    \A p \in Proc : pc[p] \in {"load_result", "save_result"} =>
                        job[p].status \in Outcomes

LEMMA UndecidedIsFinite == IsFiniteSet(Undecided) /\ Cardinality(Undecided) \in Nat
<1>1. IsFiniteSet(Undecided)
  BY FS_Subset, TaskStoreAssumption DEF Undecided
<1> QED
  BY <1>1, FS_CardinalityType

LEMMA BudgetInit == Init => IdBudget
<1> SUFFICES ASSUME Init PROVE IdBudget
  OBVIOUS
<1>1. Undecided = {}
  BY DEF Init, Undecided, Proc
<1> QED
  BY <1>1, FS_EmptySet DEF Init, IdBudget

LEMMA TypeStep == TypeOK /\ IdBudget /\ HasId /\ SavesResult /\ [Next]_vars => TypeOK'
<1> SUFFICES ASSUME TypeOK, IdBudget, HasId, SavesResult, [Next]_vars
             PROVE  TypeOK'
  OBVIOUS
<1> USE DEF TypeOK, GoTo, Leave, Steps, files, counters, history
<1>0. /\ NoJob \in Job
      /\ <<>> \in Seq(TaskRecord)
      /\ Submitter \subseteq Proc /\ Runner \subseteq Proc /\ Clearer \subseteq Proc
  <2>1. NoJob \in Job
    BY JobTypes
  <2> QED
    BY <2>1 DEF Proc
<1> USE <1>0
<1>1. ASSUME NEW p \in Submitter, StartSubmit(p) PROVE TypeOK'
  <2>1. PICK j \in Job : job' = [job EXCEPT ![p] = j]
    BY <1>1, JobTypes DEF StartSubmit
  <2> QED
    BY <1>1, <2>1, TaskStoreAssumption DEF StartSubmit
<1>2. ASSUME NEW p \in Submitter, RejectName(p) PROVE TypeOK'
  BY <1>2 DEF RejectName
<1>3. ASSUME NEW p \in Submitter, AcceptName(p) PROVE TypeOK'
  BY <1>3 DEF AcceptName
<1>4. ASSUME NEW p \in Submitter, FindDependency(p) PROVE TypeOK'
  <2>1. PICK d \in Ids : job' = [job EXCEPT ![p].unchecked = @ \ {d}]
    BY <1>4 DEF FindDependency, Job
  <2>2. [job[p] EXCEPT !.unchecked = @ \ {d}] \in Job
    BY DEF Job
  <2> QED
    BY <1>4, <2>1, <2>2 DEF FindDependency
<1>5. ASSUME NEW p \in Submitter, RejectDependency(p) PROVE TypeOK'
  BY <1>5 DEF RejectDependency
<1>6. ASSUME NEW p \in Submitter, DependenciesFound(p) PROVE TypeOK'
  BY <1>6 DEF DependenciesFound
<1>7. ASSUME NEW p \in Submitter, RejectGraph(p) PROVE TypeOK'
  BY <1>7 DEF RejectGraph
<1>8. ASSUME NEW p \in Submitter, AcceptGraph(p) PROVE TypeOK'
  <2>1. p \in Undecided
    BY <1>8 DEF AcceptGraph, Undecided
  <2>2. Cardinality(Undecided) # 0
    BY <2>1, UndecidedIsFinite, FS_EmptySet
  <2>3. issued + 1 \in Ids
    BY <2>2, UndecidedIsFinite, TaskStoreAssumption DEF IdBudget, Ids
  <2>4. [job[p] EXCEPT !.id = issued + 1] \in Job
    BY <2>3 DEF Job
  <2> QED
    BY <1>8, <2>3, <2>4, TaskStoreAssumption DEF AcceptGraph, Ids
<1>9. ASSUME NEW p \in Submitter, OpenLock(p) PROVE TypeOK'
  BY <1>9 DEF OpenLock
<1>10. ASSUME NEW p \in Submitter, Flock(p) PROVE TypeOK'
  BY <1>10 DEF Flock
<1>11. ASSUME NEW p \in Submitter, AppendLoad(p) PROVE TypeOK'
  BY <1>11 DEF AppendLoad
<1>12. ASSUME NEW p \in Submitter, AppendSave(p) PROVE TypeOK'
  <2> DEFINE new == [id |-> job[p].id, name |-> job[p].name,
                     status |-> "pending", depends_on |-> job[p].depends_on]
  <2>1. tasks' = Append(base[p], new)
    BY <1>12 DEF AppendSave
  <2>2. job[p].id \in Ids
    BY <1>12 DEF AppendSave, HasId, WorksOnTask
  <2>3. new \in TaskRecord
    BY <2>2 DEF Job, TaskRecord, Statuses
  <2>4. Append(base[p], new) \in Seq(TaskRecord)
    BY <2>3
  <2> HIDE DEF new
  <2> QED
    BY <1>12, <2>1, <2>4 DEF AppendSave
<1>13. ASSUME NEW p \in Submitter, SubmitReturns(p) PROVE TypeOK'
  <2>1. job[p].id \in Ids
    BY <1>13 DEF SubmitReturns, HasId, WorksOnTask
  <2> QED
    BY <1>13, <2>1 DEF SubmitReturns
<1>14. ASSUME NEW p \in Submitter, AuditFails(p) PROVE TypeOK'
  BY <1>14 DEF AuditFails
<1>15. ASSUME NEW p \in Runner, StartRun(p) PROVE TypeOK'
  <2>1. PICK j \in Job : job' = [job EXCEPT ![p] = j]
    BY <1>15, JobTypes DEF StartRun
  <2> QED
    <3>1. ops' \in 0 .. MaxOps
      BY <1>15, TaskStoreAssumption DEF StartRun
    <3> QED
      BY <1>15, <2>1, <3>1 DEF StartRun
<1>16. ASSUME NEW p \in Runner, FindNothing(p) PROVE TypeOK'
  BY <1>16 DEF FindNothing
<1>17. ASSUME NEW p \in Runner, FindById(p) PROVE TypeOK'
  <2>1. [job[p] EXCEPT !.status = "running"] \in Job
    BY DEF Job, Statuses
  <2> QED
    BY <1>17, <2>1 DEF FindById
<1>18. ASSUME NEW p \in Runner, SetStatusLoad(p) PROVE TypeOK'
  BY <1>18 DEF SetStatusLoad
<1>19. ASSUME NEW p \in Runner, SetStatusSave(p) PROVE TypeOK'
  <2>1. job[p].status \in Statuses
    BY DEF Job
  <2>2. tasks' \in Seq(TaskRecord)
    BY <1>19, <2>1, WithStatusType DEF SetStatusSave
  <2>3. reported' \in [Ids -> Outcomes \cup {"none"}]
    BY <1>19 DEF SetStatusSave, SavesResult
  <2>4. job' \in [Proc -> Job] /\ base' \in [Proc -> Seq(TaskRecord)]
        /\ pc' \in [Proc -> Steps]
    <3>1. base' = [base EXCEPT ![p] = <<>>] /\ p \in Proc
      BY <1>19 DEF SetStatusSave
    <3>2. job' = job \/ job' = [job EXCEPT ![p] = NoJob]
      BY <1>19 DEF SetStatusSave
    <3>3. pc' = [pc EXCEPT ![p] = "subprocess"] \/ pc' = [pc EXCEPT ![p] = "idle"]
      BY <1>19 DEF SetStatusSave
    <3> QED
      BY <3>1, <3>2, <3>3
  <2> QED
    BY <1>19, <2>2, <2>3, <2>4 DEF SetStatusSave
<1>20. ASSUME NEW p \in Runner, SubprocessEnds(p) PROVE TypeOK'
  <2>1. job[p].id \in Ids
    BY <1>20 DEF SubprocessEnds, HasId, WorksOnTask
  <2>2. PICK outcome \in Outcomes :
          /\ job' = [job EXCEPT ![p].status = outcome]
          /\ succeeded' = IF outcome = "done" THEN succeeded \cup {job[p].id}
                                              ELSE succeeded
    BY <1>20 DEF SubprocessEnds
  <2>3. [job[p] EXCEPT !.status = outcome] \in Job
    BY DEF Job, Statuses, Outcomes
  <2> QED
    BY <1>20, <2>1, <2>2, <2>3 DEF SubprocessEnds
<1>21. ASSUME NEW p \in Runner, SpawnRaises(p) PROVE TypeOK'
  BY <1>21 DEF SpawnRaises
<1>22. ASSUME NEW p \in Clearer, StartClear(p) PROVE TypeOK'
  BY <1>22, TaskStoreAssumption DEF StartClear
<1>23. ASSUME NEW p \in Clearer, UnlinkTasks(p) PROVE TypeOK'
  BY <1>23 DEF UnlinkTasks
<1>24. ASSUME NEW p \in Clearer, UnlinkLock(p) PROVE TypeOK'
  BY <1>24 DEF UnlinkLock
<1>25. ASSUME NEW p \in Proc, Crash(p) PROVE TypeOK'
  BY <1>25 DEF Crash
<1>26. CASE UNCHANGED vars
  BY <1>26 DEF vars
<1> QED
  BY <1>1, <1>2, <1>3, <1>4, <1>5, <1>6, <1>7, <1>8, <1>9, <1>10, <1>11,
     <1>12, <1>13, <1>14, <1>15, <1>16, <1>17, <1>18, <1>19, <1>20, <1>21,
     <1>22, <1>23, <1>24, <1>25, <1>26
     DEF Next, SubmitterStep, SubmitProgress, RunnerStep, RunProgress,
         ClearerStep, ClearProgress

LEMMA BudgetStep == TypeOK /\ IdBudget /\ [Next]_vars => IdBudget'
<1> SUFFICES ASSUME TypeOK, IdBudget, [Next]_vars PROVE IdBudget'
  OBVIOUS
<1> USE DEF GoTo, Leave
<1>0. /\ Submitter \subseteq Proc /\ Runner \subseteq Proc /\ Clearer \subseteq Proc
      /\ pc \in [Proc -> Steps]
      /\ issued \in Nat /\ submits \in Nat
  BY TaskStoreAssumption DEF Proc, TypeOK
<1>1. ASSUME NEW p \in Submitter, StartSubmit(p) PROVE IdBudget'
  <2>1. p \notin Undecided /\ Undecided' = Undecided \cup {p}
    BY <1>0, <1>1 DEF StartSubmit, Undecided
  <2>2. Cardinality(Undecided') = Cardinality(Undecided) + 1
    BY <2>1, UndecidedIsFinite, FS_AddElement
  <2> QED
    BY <1>0, <1>1, <2>2, UndecidedIsFinite DEF StartSubmit, IdBudget
<1>2. ASSUME NEW p \in Submitter, AcceptGraph(p) PROVE IdBudget'
  <2>1. p \in Undecided /\ Undecided' = Undecided \ {p}
    BY <1>0, <1>2 DEF AcceptGraph, Undecided
  <2>2. Cardinality(Undecided') = Cardinality(Undecided) - 1
    BY <2>1, UndecidedIsFinite, FS_RemoveElement
  <2> QED
    BY <1>0, <1>2, <2>2, UndecidedIsFinite DEF AcceptGraph, IdBudget
<1>3. ASSUME Undecided' \subseteq Undecided, UNCHANGED <<issued, submits>>
      PROVE  IdBudget'
  <2>1. Cardinality(Undecided') \in Nat /\ Cardinality(Undecided') <= Cardinality(Undecided)
    BY <1>3, UndecidedIsFinite, FS_Subset, FS_CardinalityType
  <2> QED
    BY <1>0, <1>3, <2>1, UndecidedIsFinite DEF IdBudget
<1>4. ASSUME NEW p \in Submitter,
             \/ RejectName(p) \/ AcceptName(p) \/ RejectDependency(p)
             \/ FindDependency(p) \/ DependenciesFound(p) \/ RejectGraph(p)
             \/ OpenLock(p) \/ Flock(p) \/ AppendLoad(p) \/ AppendSave(p)
             \/ SubmitReturns(p) \/ AuditFails(p)
      PROVE  Undecided' \subseteq Undecided /\ UNCHANGED <<issued, submits>>
  BY <1>0, <1>4 DEF Undecided, counters, RejectName, AcceptName,
     RejectDependency, FindDependency, DependenciesFound, RejectGraph,
     OpenLock, Flock, AppendLoad, AppendSave, SubmitReturns, AuditFails
<1>5. ASSUME NEW p \in Runner, RunnerStep(p)
      PROVE  Undecided' \subseteq Undecided /\ UNCHANGED <<issued, submits>>
  BY <1>0, <1>5 DEF Undecided, counters, RunnerStep, RunProgress, StartRun,
     FindNothing, FindById, SetStatusLoad, SetStatusSave, SubprocessEnds, SpawnRaises
<1>6. ASSUME NEW p \in Clearer, ClearerStep(p)
      PROVE  Undecided' \subseteq Undecided /\ UNCHANGED <<issued, submits>>
  BY <1>0, <1>6 DEF Undecided, counters, ClearerStep, ClearProgress,
     StartClear, UnlinkTasks, UnlinkLock
<1>7. ASSUME NEW p \in Proc, Crash(p)
      PROVE  Undecided' \subseteq Undecided /\ UNCHANGED <<issued, submits>>
  BY <1>0, <1>7 DEF Undecided, counters, Crash
<1>8. CASE UNCHANGED vars
  BY <1>3, <1>8 DEF vars, Undecided
<1> QED
  BY <1>1, <1>2, <1>3, <1>4, <1>5, <1>6, <1>7, <1>8
     DEF Next, SubmitterStep, SubmitProgress

(* What a process carries with it: an id where it works on a task, and an
   outcome where it is about to record one. *)
LEMMA JobStep ==
    TypeOK /\ IdBudget /\ HasId /\ SavesResult /\ [Next]_vars => HasId' /\ SavesResult'
<1> SUFFICES ASSUME TypeOK, IdBudget, HasId, SavesResult, [Next]_vars
             PROVE  HasId' /\ SavesResult'
  OBVIOUS
<1> USE DEF GoTo, Leave, HasId, SavesResult, WorksOnTask, Steps
<1>0. /\ Submitter \subseteq Proc /\ Runner \subseteq Proc /\ Clearer \subseteq Proc
      /\ pc \in [Proc -> Steps]
      /\ job \in [Proc -> Job]
  BY DEF Proc, TypeOK
<1>1. ASSUME NEW p \in Submitter, SubmitterStep(p) PROVE HasId' /\ SavesResult'
  <2>1. CASE StartSubmit(p)
    BY <1>0, <2>1 DEF StartSubmit
  <2>2. CASE AcceptGraph(p)
    <3>1. issued + 1 \in Ids
      <4>1. p \in Undecided
        BY <2>2 DEF AcceptGraph, Undecided
      <4>2. Cardinality(Undecided) # 0
        BY <4>1, UndecidedIsFinite, FS_EmptySet
      <4> QED
        BY <4>2, UndecidedIsFinite, TaskStoreAssumption DEF IdBudget, TypeOK, Ids
    <3>2. job'[p].id \in Ids
      BY <1>0, <2>2, <3>1 DEF AcceptGraph, Job
    <3> QED
      BY <1>0, <2>2, <3>2 DEF AcceptGraph
  <2>3. CASE FindDependency(p)
    BY <1>0, <2>3 DEF FindDependency
  <2>4. CASE \/ RejectName(p) \/ AcceptName(p) \/ RejectDependency(p)
             \/ DependenciesFound(p) \/ RejectGraph(p)
             \/ SubmitReturns(p) \/ AuditFails(p)
    BY <1>0, <2>4 DEF RejectName, AcceptName, RejectDependency,
       DependenciesFound, RejectGraph, SubmitReturns, AuditFails
  <2>5. CASE OpenLock(p) \/ Flock(p) \/ AppendLoad(p) \/ AppendSave(p)
    BY <1>0, <2>5 DEF OpenLock, Flock, AppendLoad, AppendSave
  <2> QED
    BY <1>1, <2>1, <2>2, <2>3, <2>4, <2>5 DEF SubmitterStep, SubmitProgress
<1>2. ASSUME NEW p \in Runner, RunnerStep(p) PROVE HasId' /\ SavesResult'
  <2>1. CASE StartRun(p)
    <3>1. job'[p].id \in Ids
      BY <1>0, <2>1 DEF StartRun, NoJob
    <3> QED
      BY <1>0, <2>1, <3>1 DEF StartRun
  <2>2. CASE FindById(p)
    <3>1. job'[p].id = job[p].id
      BY <1>0, <2>2 DEF FindById, Job
    <3> QED
      BY <1>0, <2>2, <3>1 DEF FindById
  <2>3. CASE SubprocessEnds(p)
    <3>1. job'[p].id = job[p].id /\ job'[p].status \in Outcomes
      BY <1>0, <2>3 DEF SubprocessEnds, Job
    <3> QED
      BY <1>0, <2>3, <3>1 DEF SubprocessEnds
  <2>4. CASE SetStatusLoad(p)
    BY <1>0, <2>4 DEF SetStatusLoad
  <2>5. CASE SetStatusSave(p)
    BY <1>0, <2>5 DEF SetStatusSave
  <2>6. CASE FindNothing(p) \/ SpawnRaises(p)
    BY <1>0, <2>6 DEF FindNothing, SpawnRaises
  <2> QED
    BY <1>2, <2>1, <2>2, <2>3, <2>4, <2>5, <2>6 DEF RunnerStep, RunProgress
<1>3. ASSUME NEW p \in Clearer, ClearerStep(p) PROVE HasId' /\ SavesResult'
  BY <1>0, <1>3 DEF ClearerStep, ClearProgress, StartClear, UnlinkTasks, UnlinkLock
<1>4. ASSUME NEW p \in Proc, Crash(p) PROVE HasId' /\ SavesResult'
  BY <1>0, <1>4 DEF Crash
<1>5. CASE UNCHANGED vars
  BY <1>5 DEF vars
<1> QED
  BY <1>1, <1>2, <1>3, <1>4, <1>5 DEF Next

\* The type invariant together with what makes it inductive.
Typed == TypeOK /\ IdBudget /\ HasId /\ SavesResult

LEMMA AlwaysTyped == Spec => []Typed
<1>1. Init => Typed
  BY TypeInit, BudgetInit DEF Init, Typed, HasId, SavesResult, WorksOnTask
<1>2. Typed /\ [Next]_vars => Typed'
  BY TypeStep, BudgetStep, JobStep DEF Typed
<1> QED
  BY <1>1, <1>2, PTL DEF Spec

(* Every behaviour keeps the variables in their types; in particular no id
   beyond the started submits is ever issued, stored or reported. *)
THEOREM TypeCorrect == Spec => []TypeOK
<1>1. Typed => TypeOK
  BY DEF Typed
<1> QED
  BY <1>1, AlwaysTyped, PTL
-----------------------------------------------------------------------------
(* While nobody unlinks tasks.json.lock, the flock behind it is a mutual
   exclusion lock: whoever waits for it or holds it has the one inode open. *)
Appending == {p \in Submitter : pc[p] \in {"append_load", "append_save"}}

OneLock ==
    /\ \A p \in Submitter : pc[p] \in {"flock", "append_load", "append_save"}
                               => lockFile # 0 /\ handle[p] = lockFile
    /\ locked = Appending
    /\ \A p, q \in locked : p = q

LEMMA OneLockStep ==
    ASSUME Clearer = {}
    PROVE  TypeOK /\ OneLock /\ [Next]_vars => OneLock'
<1> SUFFICES ASSUME TypeOK, OneLock, [Next]_vars PROVE OneLock'
  OBVIOUS
<1> USE DEF GoTo, Leave, OneLock, Appending, files
<1>0. /\ Submitter \subseteq Proc /\ Runner \subseteq Proc
      /\ Submitter \cap Runner = {}
      /\ pc \in [Proc -> Steps]
      /\ handle \in [Proc -> Nat]
      /\ inodes \in Nat /\ lockFile \in Nat
  BY TaskStoreAssumption DEF Proc, TypeOK
<1>1. ASSUME NEW p \in Submitter, OpenLock(p) PROVE OneLock'
  <2>1. CASE lockFile = 0
    <3>1. \A q \in Submitter : pc[q] \notin {"flock", "append_load", "append_save"}
      BY <2>1
    <3>2. /\ lockFile' # 0
          /\ handle'[p] = lockFile'
          /\ pc'[p] = "flock"
          /\ \A q \in Submitter \ {p} : pc'[q] = pc[q]
      BY <1>0, <1>1, <2>1 DEF OpenLock
    <3> QED
      BY <1>0, <1>1, <3>1, <3>2 DEF OpenLock
  <2>2. CASE lockFile # 0
    BY <1>0, <1>1, <2>2 DEF OpenLock
  <2> QED
    BY <2>1, <2>2
<1>2. ASSUME NEW p \in Submitter, Flock(p) PROVE OneLock'
  <2>1. locked = {}
    BY <1>2 DEF Flock
  <2> QED
    BY <1>0, <1>2, <2>1 DEF Flock
<1>3. ASSUME NEW p \in Submitter, AppendLoad(p) PROVE OneLock'
  BY <1>0, <1>3 DEF AppendLoad
<1>4. ASSUME NEW p \in Submitter, AppendSave(p) PROVE OneLock'
  BY <1>0, <1>4 DEF AppendSave
<1>5. ASSUME NEW p \in Submitter,
             \/ StartSubmit(p) \/ RejectName(p) \/ AcceptName(p)
             \/ RejectDependency(p) \/ FindDependency(p) \/ DependenciesFound(p)
             \/ RejectGraph(p) \/ AcceptGraph(p) \/ SubmitReturns(p) \/ AuditFails(p)
      PROVE  OneLock'
  BY <1>0, <1>5 DEF StartSubmit, RejectName, AcceptName, RejectDependency,
     FindDependency, DependenciesFound, RejectGraph, AcceptGraph,
     SubmitReturns, AuditFails
<1>6. ASSUME NEW p \in Runner, RunnerStep(p) PROVE OneLock'
  BY <1>0, <1>6 DEF RunnerStep, RunProgress, StartRun, FindNothing, FindById,
     SetStatusLoad, SetStatusSave, SubprocessEnds, SpawnRaises
<1>7. ASSUME NEW p \in Proc, Crash(p) PROVE OneLock'
  BY <1>0, <1>7 DEF Crash
<1>8. CASE UNCHANGED vars
  BY <1>8 DEF vars
<1> QED
  BY <1>1, <1>2, <1>3, <1>4, <1>5, <1>6, <1>7, <1>8
     DEF Next, SubmitterStep, SubmitProgress

(* append_task is exclusive for any number of submitters and runners and any
   crashes, as long as no `clear` unlinks the lock file under them. *)
THEOREM AppendIsExclusiveCorrect ==
    ASSUME Clearer = {}
    PROVE  Spec => []AppendIsExclusive
<1>1. Init => OneLock
  BY DEF Init, OneLock, Appending, Proc
<1>2. TypeOK /\ OneLock /\ [Next]_vars => OneLock'
  BY OneLockStep
<1>3. OneLock => AppendIsExclusive
  BY DEF OneLock, Appending, AppendIsExclusive
<1> QED
  BY <1>1, <1>2, <1>3, TypeCorrect, PTL DEF Spec
-----------------------------------------------------------------------------
(* A list of which every id has been issued, no id occurs twice, and every
   dependency was issued before the id that names it. *)
WellFormed(list, n) ==
    /\ \A k \in DOMAIN list :
          list[k].id <= n /\ \A d \in list[k].depends_on : d < list[k].id
    /\ \A k, l \in DOMAIN list : list[k].id = list[l].id => k = l

LEMMA EmptyIsWellFormed == \A n : WellFormed(<<>>, n)
  BY DEF WellFormed

\* Ids and dependencies are the same before and after a status merge.
LEMMA WithStatusKeepsIds ==
    ASSUME NEW list \in Seq(TaskRecord), NEW i, NEW status \in Statuses
    PROVE  /\ DOMAIN WithStatus(list, i, status) = DOMAIN list
           /\ \A k \in DOMAIN list :
                 /\ WithStatus(list, i, status)[k].id = list[k].id
                 /\ WithStatus(list, i, status)[k].depends_on = list[k].depends_on
                 /\ WithStatus(list, i, status)[k].status
                       = IF list[k].id = i THEN status ELSE list[k].status
           /\ IdsOf(WithStatus(list, i, status)) = IdsOf(list)
<1>1. DOMAIN WithStatus(list, i, status) = DOMAIN list
  BY DEF WithStatus
<1>2. \A k \in DOMAIN list : list[k] \in TaskRecord
  OBVIOUS
<1>3. ASSUME NEW k \in DOMAIN list
      PROVE  /\ WithStatus(list, i, status)[k].id = list[k].id
             /\ WithStatus(list, i, status)[k].depends_on = list[k].depends_on
             /\ WithStatus(list, i, status)[k].status
                   = IF list[k].id = i THEN status ELSE list[k].status
  BY <1>2 DEF WithStatus, TaskRecord
<1>4. IdsOf(WithStatus(list, i, status)) = IdsOf(list)
  BY <1>1, <1>3 DEF IdsOf, Records
<1> QED
  BY <1>1, <1>3, <1>4

LEMMA MergeIsWellFormed ==
    ASSUME NEW list \in Seq(TaskRecord), NEW i, NEW status \in Statuses, NEW n,
           WellFormed(list, n)
    PROVE  WellFormed(WithStatus(list, i, status), n)
  BY WithStatusKeepsIds DEF WellFormed

\* Appending a record with a new id, issued after its dependencies.
LEMMA AppendIds ==
    ASSUME NEW list \in Seq(TaskRecord), NEW r \in TaskRecord
    PROVE  IdsOf(Append(list, r)) = IdsOf(list) \cup {r.id}
<1>1. /\ DOMAIN Append(list, r) = DOMAIN list \cup {Len(list) + 1}
      /\ Len(list) + 1 \notin DOMAIN list
      /\ \A k \in DOMAIN list : Append(list, r)[k] = list[k]
      /\ Append(list, r)[Len(list) + 1] = r
  OBVIOUS
<1> QED
  BY <1>1 DEF IdsOf, Records

LEMMA AppendIsWellFormed ==
    ASSUME NEW list \in Seq(TaskRecord), NEW r \in TaskRecord, NEW n,
           WellFormed(list, n), r.id <= n, r.id \notin IdsOf(list),
           \A d \in r.depends_on : d < r.id
    PROVE  WellFormed(Append(list, r), n)
<1>1. /\ DOMAIN Append(list, r) = DOMAIN list \cup {Len(list) + 1}
      /\ \A k \in DOMAIN list : Append(list, r)[k] = list[k]
      /\ Append(list, r)[Len(list) + 1] = r
  OBVIOUS
<1>2. \A k \in DOMAIN list : list[k].id # r.id
  BY DEF IdsOf, Records
<1> QED
  BY <1>1, <1>2 DEF WellFormed

\* A larger number of issued ids admits the same lists.
LEMMA WellFormedIsMonotone ==
    ASSUME NEW list \in Seq(TaskRecord), NEW n \in Nat, WellFormed(list, n)
    PROVE  WellFormed(list, n + 1) /\ n + 1 \notin IdsOf(list)
<1>1. \A k \in DOMAIN list : list[k].id \in Nat /\ list[k].id <= n
  <2>1. \A k \in DOMAIN list : list[k] \in TaskRecord
    OBVIOUS
  <2>2. \A r \in TaskRecord : r.id \in Nat
    BY TaskStoreAssumption DEF TaskRecord, Ids
  <2> QED
    BY <2>1, <2>2 DEF WellFormed
<1> QED
  BY <1>1 DEF WellFormed, IdsOf, Records

\* Submitters that hold an id and have not appended its record.
Waiting ==
    {p \in Submitter : pc[p] \in {"open_lock", "flock", "append_load", "append_save"}}

(* The inductive invariant behind DependenciesPrecede and IdsAreUnique: it
   speaks of the stale lists in memory and of the ids on their way to the
   file, because a late save turns either into the contents of tasks.json. *)
Numbered ==
    /\ WellFormed(tasks, issued)
    /\ \A p \in Proc : WellFormed(base[p], issued)
    /\ \A p \in Submitter : pc[p] \in {"find_by_name", "find_dependency"} =>
          \A d \in job[p].depends_on \ job[p].unchecked : d <= issued
    /\ \A p \in Submitter : pc[p] = "tasks_by_id" =>
          \A d \in job[p].depends_on : d <= issued
    /\ \A p \in Waiting :
          /\ job[p].id <= issued
          /\ \A d \in job[p].depends_on : d < job[p].id
          /\ job[p].id \notin IdsOf(tasks)
          /\ \A q \in Proc : job[p].id \notin IdsOf(base[q])
    /\ \A p, q \in Waiting : job[p].id = job[q].id => p = q

LEMMA NumberedStep == Typed /\ Numbered /\ [Next]_vars => Numbered'
<1> SUFFICES ASSUME Typed, Numbered, [Next]_vars PROVE Numbered'
  OBVIOUS
<1> USE DEF GoTo, Leave, Numbered, Waiting, files, counters
<1>0. /\ Submitter \subseteq Proc /\ Runner \subseteq Proc /\ Clearer \subseteq Proc
      /\ Submitter \cap Runner = {} /\ Submitter \cap Clearer = {}
      /\ pc \in [Proc -> Steps]
      /\ job \in [Proc -> Job]
      /\ tasks \in Seq(TaskRecord)
      /\ base \in [Proc -> Seq(TaskRecord)]
      /\ issued \in Nat
      /\ WellFormed(<<>>, issued)
      /\ IdsOf(<<>>) = {}
  BY TaskStoreAssumption, EmptyIsWellFormed DEF Proc, Typed, TypeOK, IdsOf, Records
<1>1. \A p \in Proc : /\ job[p].id \in Nat
                      /\ job[p].depends_on \subseteq Nat
  BY <1>0, TaskStoreAssumption DEF Job, Ids
<1>2. \A d \in IdsOf(tasks) : d <= issued
  BY DEF WellFormed, IdsOf, Records
<1>3. ASSUME NEW p \in Submitter, StartSubmit(p) PROVE Numbered'
  <2>1. job'[p].depends_on = job'[p].unchecked
    BY <1>0, <1>3 DEF StartSubmit, NoJob
  <2> QED
    BY <1>0, <1>3, <2>1 DEF StartSubmit
<1>4. ASSUME NEW p \in Submitter, FindDependency(p) PROVE Numbered'
  <2>1. PICK d \in IdsOf(tasks) : job' = [job EXCEPT ![p].unchecked = @ \ {d}]
    BY <1>4 DEF FindDependency
  <2>2. /\ job'[p].depends_on = job[p].depends_on
        /\ job'[p].unchecked = job[p].unchecked \ {d}
        /\ pc[p] = "find_dependency" /\ pc'[p] = "find_dependency"
        /\ \A q \in Proc \ {p} : job'[q] = job[q] /\ pc'[q] = pc[q]
    BY <1>0, <1>4, <2>1 DEF FindDependency, Job
  <2> QED
    BY <1>0, <1>2, <1>4, <2>1, <2>2 DEF FindDependency
<1>5. ASSUME NEW p \in Submitter, DependenciesFound(p) PROVE Numbered'
  BY <1>0, <1>5 DEF DependenciesFound
<1>6. ASSUME NEW p \in Submitter, AcceptGraph(p) PROVE Numbered'
  <2>1. /\ job'[p].id = issued + 1
        /\ job'[p].depends_on = job[p].depends_on
        /\ pc[p] = "tasks_by_id" /\ pc'[p] = "open_lock"
        /\ \A q \in Proc \ {p} : job'[q] = job[q] /\ pc'[q] = pc[q]
        /\ issued' = issued + 1
        /\ UNCHANGED <<tasks, base>>
    BY <1>0, <1>6 DEF AcceptGraph, Job
  <2>2. /\ WellFormed(tasks, issued + 1)
        /\ issued + 1 \notin IdsOf(tasks)
        /\ \A q \in Proc : /\ WellFormed(base[q], issued + 1)
                           /\ issued + 1 \notin IdsOf(base[q])
    BY <1>0, WellFormedIsMonotone
  <2>3. \A d \in job[p].depends_on : d < issued + 1
    BY <1>0, <1>1, <2>1
  <2>4. Waiting' = Waiting \cup {p} /\ p \notin Waiting /\ Waiting \subseteq Proc
    BY <1>0, <2>1
  <2>5. \A q \in Waiting : job[q].id <= issued + 1 /\ job[q].id # issued + 1
    BY <1>0, <1>1
  <2>6. \A q \in Submitter \ {p} : \A d \in Nat : d <= issued => d <= issued + 1
    BY <1>0
  <2> HIDE DEF Waiting
  <2>7. \A q \in Waiting' :
          /\ job'[q].id <= issued'
          /\ \A d \in job'[q].depends_on : d < job'[q].id
          /\ job'[q].id \notin IdsOf(tasks')
          /\ \A r \in Proc : job'[q].id \notin IdsOf(base'[r])
    BY <1>0, <2>1, <2>2, <2>3, <2>4, <2>5
  <2>8. \A q, r \in Waiting' : job'[q].id = job'[r].id => q = r
    BY <1>0, <2>1, <2>4, <2>5
  <2>9. \A q \in Submitter : pc'[q] \in {"find_by_name", "find_dependency", "tasks_by_id"}
                               => q # p /\ pc'[q] = pc[q] /\ job'[q] = job[q]
    BY <1>0, <2>1
  <2>10. \A q \in Submitter : pc'[q] \in {"find_by_name", "find_dependency"} =>
            \A d \in job'[q].depends_on \ job'[q].unchecked : d <= issued'
    BY <1>0, <1>1, <2>1, <2>6, <2>9
  <2>11. \A q \in Submitter : pc'[q] = "tasks_by_id" =>
            \A d \in job'[q].depends_on : d <= issued'
    BY <1>0, <1>1, <2>1, <2>6, <2>9
  <2> QED
    BY <2>1, <2>2, <2>7, <2>8, <2>10, <2>11
<1>7. ASSUME NEW p \in Submitter, AppendLoad(p) PROVE Numbered'
  BY <1>0, <1>7 DEF AppendLoad
<1>8. ASSUME NEW p \in Submitter, AppendSave(p) PROVE Numbered'
  <2> DEFINE new == [id |-> job[p].id, name |-> job[p].name,
                     status |-> "pending", depends_on |-> job[p].depends_on]
  <2>1. /\ p \in Waiting
        /\ tasks' = Append(base[p], new)
        /\ UNCHANGED <<job, issued>>
        /\ base'[p] = <<>>
        /\ \A q \in Proc \ {p} : base'[q] = base[q]
        /\ Waiting' = Waiting \ {p}
        /\ pc'[p] = "audit"
        /\ \A q \in Proc \ {p} : pc'[q] = pc[q]
    BY <1>0, <1>8 DEF AppendSave
  <2>2. new \in TaskRecord /\ new.id = job[p].id /\ new.depends_on = job[p].depends_on
    BY <1>0, <2>1 DEF Job, TaskRecord, Statuses, Typed, HasId, WorksOnTask, Steps
  <2> HIDE DEF new
  <2>3. /\ WellFormed(tasks', issued)
        /\ IdsOf(tasks') = IdsOf(base[p]) \cup {job[p].id}
    BY <1>0, <2>1, <2>2, AppendIsWellFormed, AppendIds
  <2> HIDE DEF Waiting
  <2>4. \A q \in Proc : WellFormed(base'[q], issued')
    BY <1>0, <2>1
  <2>5. \A q \in Waiting' : job[q].id # job[p].id /\ job[q].id \notin IdsOf(tasks')
    BY <1>0, <2>1, <2>3
  <2>6. \A q \in Waiting', r \in Proc : job[q].id \notin IdsOf(base'[r])
    BY <1>0, <2>1
  <2> QED
    BY <1>0, <2>1, <2>3, <2>4, <2>5, <2>6
<1>9. ASSUME NEW p \in Submitter,
             \/ RejectName(p) \/ AcceptName(p) \/ RejectDependency(p)
             \/ RejectGraph(p) \/ OpenLock(p) \/ Flock(p)
             \/ SubmitReturns(p) \/ AuditFails(p)
      PROVE  Numbered'
  <2>1. CASE \/ RejectName(p) \/ RejectDependency(p) \/ RejectGraph(p)
             \/ SubmitReturns(p) \/ AuditFails(p)
    <3>1. /\ \A q \in Submitter : pc'[q] = "idle" \/ (pc'[q] = pc[q] /\ job'[q] = job[q])
          /\ \A q \in Proc : base'[q] \in {base[q], <<>>}
          /\ UNCHANGED <<tasks, issued>>
      BY <1>0, <2>1 DEF RejectName, RejectDependency, RejectGraph,
         SubmitReturns, AuditFails
    <3> QED
      BY <1>0, <3>1
  <2>2. CASE AcceptName(p)
    BY <1>0, <2>2 DEF AcceptName
  <2>3. CASE OpenLock(p) \/ Flock(p)
    <3>1. /\ UNCHANGED <<tasks, issued, job, base>>
          /\ Waiting' = Waiting
          /\ p \in Waiting
          /\ \A q \in Submitter \ {p} : pc'[q] = pc[q]
      BY <1>0, <2>3 DEF OpenLock, Flock
    <3>2. pc'[p] \in {"flock", "append_load"}
      BY <1>0, <2>3 DEF OpenLock, Flock
    <3> QED
      BY <1>0, <3>1, <3>2
  <2> QED
    BY <1>9, <2>1, <2>2, <2>3
<1>10. ASSUME NEW p \in Runner, SetStatusSave(p) PROVE Numbered'
  <2>1. job[p].status \in Statuses
    BY <1>0 DEF Job
  <2>2. /\ WellFormed(tasks', issued)
        /\ IdsOf(tasks') = IdsOf(base[p])
    BY <1>0, <1>10, <2>1, MergeIsWellFormed, WithStatusKeepsIds DEF SetStatusSave
  <2>3. /\ \A q \in Submitter : pc'[q] = pc[q] /\ job'[q] = job[q]
        /\ \A q \in Proc : base'[q] \in {base[q], <<>>}
        /\ issued' = issued
    BY <1>0, <1>10 DEF SetStatusSave
  <2> QED
    BY <1>0, <2>2, <2>3
<1>11. ASSUME NEW p \in Runner, SetStatusLoad(p) PROVE Numbered'
  BY <1>0, <1>11 DEF SetStatusLoad
<1>12. ASSUME NEW p \in Runner,
              \/ StartRun(p) \/ FindNothing(p) \/ FindById(p)
              \/ SubprocessEnds(p) \/ SpawnRaises(p)
       PROVE  Numbered'
  <2>1. /\ \A q \in Submitter : pc'[q] = pc[q] /\ job'[q] = job[q]
        /\ \A q \in Proc : base'[q] \in {base[q], <<>>}
        /\ UNCHANGED <<tasks, issued>>
    BY <1>0, <1>12 DEF StartRun, FindNothing, FindById, SubprocessEnds, SpawnRaises
  <2> QED
    BY <1>0, <2>1
<1>13. ASSUME NEW p \in Clearer, ClearerStep(p) PROVE Numbered'
  <2>1. /\ \A q \in Submitter : pc'[q] = pc[q]
        /\ tasks' \in {tasks, <<>>}
        /\ UNCHANGED <<base, job, issued>>
    BY <1>0, <1>13 DEF ClearerStep, ClearProgress, StartClear, UnlinkTasks, UnlinkLock
  <2> QED
    BY <1>0, <2>1
<1>14. ASSUME NEW p \in Proc, Crash(p) PROVE Numbered'
  <2>1. /\ \A q \in Submitter : pc'[q] = "idle" \/ (pc'[q] = pc[q] /\ job'[q] = job[q])
        /\ \A q \in Proc : base'[q] \in {base[q], <<>>}
        /\ UNCHANGED <<tasks, issued>>
    BY <1>0, <1>14 DEF Crash
  <2> QED
    BY <1>0, <2>1
<1>15. CASE UNCHANGED vars
  BY <1>15 DEF vars
<1> QED
  BY <1>3, <1>4, <1>5, <1>6, <1>7, <1>8, <1>9, <1>10, <1>11, <1>12, <1>13,
     <1>14, <1>15
     DEF Next, SubmitterStep, SubmitProgress, RunnerStep, RunProgress

LEMMA AlwaysNumbered == Spec => []Numbered
<1>1. Init => Numbered
  BY EmptyIsWellFormed DEF Init, Numbered, Waiting, Proc
<1>2. Typed /\ Numbered /\ [Next]_vars => Numbered'
  BY NumberedStep
<1> QED
  BY <1>1, <1>2, AlwaysTyped, PTL DEF Spec

(* No schedule of unlocked checks, stale saves, clears and crashes puts a
   dependency on a later id, hence a ring, into tasks.json. *)
THEOREM DependenciesPrecedeCorrect == Spec => []DependenciesPrecede
<1>1. Numbered => DependenciesPrecede
  BY DEF Numbered, WellFormed, DependenciesPrecede, Records
<1> QED
  BY <1>1, AlwaysNumbered, PTL

(* Under the same schedules no id is ever stored twice. *)
THEOREM IdsAreUniqueCorrect == Spec => []IdsAreUnique
<1>1. Numbered => IdsAreUnique
  BY DEF Numbered, WellFormed, IdsAreUnique
<1> QED
  BY <1>1, AlwaysNumbered, PTL
-----------------------------------------------------------------------------
(* Every copy of the list, saved or about to be saved, says `done` only of
   ids in S, and so does every result a runner is about to record. *)
EarnedIn(list, S) ==
    \A k \in DOMAIN list : list[k].status = "done" => list[k].id \in S

Earned ==
    /\ EarnedIn(tasks, succeeded)
    /\ \A p \in Proc : EarnedIn(base[p], succeeded)
    /\ \A p \in Proc : job[p].status = "done" =>
          p \in Runner /\ job[p].id \in succeeded

LEMMA MergeIsEarned ==
    ASSUME NEW list \in Seq(TaskRecord), NEW i, NEW status \in Statuses, NEW S,
           EarnedIn(list, S), status = "done" => i \in S
    PROVE  EarnedIn(WithStatus(list, i, status), S)
  BY WithStatusKeepsIds DEF EarnedIn

LEMMA EarnedStep == Typed /\ Earned /\ [Next]_vars => Earned'
<1> SUFFICES ASSUME Typed, Earned, [Next]_vars PROVE Earned'
  OBVIOUS
<1> USE DEF GoTo, Leave, Earned, files, counters, history
<1>0. /\ Submitter \subseteq Proc /\ Runner \subseteq Proc /\ Clearer \subseteq Proc
      /\ Submitter \cap Runner = {}
      /\ pc \in [Proc -> Steps]
      /\ job \in [Proc -> Job]
      /\ tasks \in Seq(TaskRecord)
      /\ base \in [Proc -> Seq(TaskRecord)]
      /\ EarnedIn(<<>>, succeeded)
      /\ NoJob.status # "done"
  BY TaskStoreAssumption DEF Proc, Typed, TypeOK, EarnedIn, NoJob
\* Steps after which every list and every job is an old one or an empty one.
<1>1. ASSUME tasks' = tasks \/ tasks' = <<>> \/ (\E q \in Proc : tasks' = base[q]),
             \A q \in Proc : base'[q] \in {base[q], tasks, <<>>},
             \A q \in Proc : job'[q].status = "done" => job'[q] = job[q],
             UNCHANGED succeeded
      PROVE  Earned'
  BY <1>0, <1>1
<1>2. ASSUME NEW p \in Submitter, AppendSave(p) PROVE Earned'
  <2> DEFINE new == [id |-> job[p].id, name |-> job[p].name,
                     status |-> "pending", depends_on |-> job[p].depends_on]
  <2>1. /\ tasks' = Append(base[p], new)
        /\ \A q \in Proc : base'[q] \in {base[q], <<>>}
        /\ UNCHANGED <<job, succeeded>>
    BY <1>0, <1>2 DEF AppendSave
  <2>2. new.status # "done"
    OBVIOUS
  <2> HIDE DEF new
  <2>3. EarnedIn(tasks', succeeded)
    BY <1>0, <2>1, <2>2 DEF EarnedIn
  <2> QED
    BY <1>0, <2>1, <2>3
<1>3. ASSUME NEW p \in Submitter, AcceptGraph(p) PROVE Earned'
  <2>1. job'[p].status = job[p].status /\ \A q \in Proc \ {p} : job'[q] = job[q]
    BY <1>0, <1>3 DEF AcceptGraph, Job
  <2> QED
    BY <1>0, <1>1, <1>3, <2>1 DEF AcceptGraph
<1>4. ASSUME NEW p \in Submitter, StartSubmit(p) PROVE Earned'
  <2>1. job'[p].status # "done" /\ \A q \in Proc \ {p} : job'[q] = job[q]
    BY <1>0, <1>4 DEF StartSubmit, NoJob
  <2> QED
    BY <1>0, <1>1, <1>4, <2>1 DEF StartSubmit
<1>5. ASSUME NEW p \in Submitter, FindDependency(p) PROVE Earned'
  <2>1. job'[p].status = job[p].status /\ \A q \in Proc \ {p} : job'[q] = job[q]
    BY <1>0, <1>5 DEF FindDependency, Job
  <2> QED
    BY <1>0, <1>1, <1>5, <2>1 DEF FindDependency
<1>6. ASSUME NEW p \in Submitter,
             \/ RejectName(p) \/ AcceptName(p) \/ RejectDependency(p)
             \/ DependenciesFound(p) \/ RejectGraph(p) \/ OpenLock(p) \/ Flock(p)
             \/ AppendLoad(p) \/ SubmitReturns(p) \/ AuditFails(p)
      PROVE  Earned'
  <2>1. /\ tasks' = tasks
        /\ \A q \in Proc : base'[q] \in {base[q], tasks, <<>>}
        /\ \A q \in Proc : job'[q] \in {job[q], NoJob}
        /\ UNCHANGED succeeded
    BY <1>0, <1>6 DEF RejectName, AcceptName, RejectDependency,
       DependenciesFound, RejectGraph, OpenLock, Flock, AppendLoad,
       SubmitReturns, AuditFails
  <2> QED
    BY <1>0, <1>1, <2>1
<1>7. ASSUME NEW p \in Runner, SubprocessEnds(p) PROVE Earned'
  <2>1. PICK outcome \in Outcomes :
          /\ job' = [job EXCEPT ![p].status = outcome]
          /\ succeeded' = IF outcome = "done" THEN succeeded \cup {job[p].id}
                                              ELSE succeeded
    BY <1>7 DEF SubprocessEnds
  <2>2. /\ job'[p].id = job[p].id /\ job'[p].status = outcome
        /\ \A q \in Proc \ {p} : job'[q] = job[q]
        /\ succeeded \subseteq succeeded'
        /\ UNCHANGED <<tasks, base>>
    BY <1>0, <1>7, <2>1 DEF SubprocessEnds, Job
  <2>3. EarnedIn(tasks', succeeded') /\ \A q \in Proc : EarnedIn(base'[q], succeeded')
    BY <2>2 DEF EarnedIn
  <2>4. outcome = "done" => job[p].id \in succeeded'
    BY <2>1
  <2>5. \A q \in Proc : job'[q].status = "done" => q \in Runner /\ job'[q].id \in succeeded'
    BY <1>0, <2>2, <2>4
  <2> QED
    BY <2>3, <2>5
<1>8. ASSUME NEW p \in Runner, SetStatusSave(p) PROVE Earned'
  <2>1. /\ job[p].status \in Statuses
        /\ tasks' = WithStatus(base[p], job[p].id, job[p].status)
        /\ \A q \in Proc : base'[q] \in {base[q], <<>>}
        /\ \A q \in Proc : job'[q] \in {job[q], NoJob}
        /\ UNCHANGED succeeded
    BY <1>0, <1>8 DEF SetStatusSave, Job
  <2>2. EarnedIn(tasks', succeeded)
    BY <1>0, <2>1, MergeIsEarned
  <2> QED
    BY <1>0, <2>1, <2>2
<1>9. ASSUME NEW p \in Runner, StartRun(p) \/ FindById(p) PROVE Earned'
  <2>1. job'[p].status # "done" /\ \A q \in Proc \ {p} : job'[q] = job[q]
    <3>1. CASE StartRun(p)
      BY <1>0, <3>1 DEF StartRun, NoJob
    <3>2. CASE FindById(p)
      BY <1>0, <3>2 DEF FindById, Job
    <3> QED
      BY <1>9, <3>1, <3>2
  <2> QED
    BY <1>0, <1>1, <1>9, <2>1 DEF StartRun, FindById
<1>10. ASSUME NEW p \in Runner, FindNothing(p) \/ SetStatusLoad(p) \/ SpawnRaises(p)
       PROVE  Earned'
  <2>1. /\ tasks' = tasks
        /\ \A q \in Proc : base'[q] \in {base[q], tasks, <<>>}
        /\ \A q \in Proc : job'[q] \in {job[q], NoJob}
        /\ UNCHANGED succeeded
    BY <1>0, <1>10 DEF FindNothing, SetStatusLoad, SpawnRaises
  <2> QED
    BY <1>0, <1>1, <2>1
<1>11. ASSUME NEW p \in Clearer, ClearerStep(p) PROVE Earned'
  BY <1>0, <1>1, <1>11 DEF ClearerStep, ClearProgress, StartClear, UnlinkTasks, UnlinkLock
<1>12. ASSUME NEW p \in Proc, Crash(p) PROVE Earned'
  <2>1. /\ tasks' = tasks
        /\ \A q \in Proc : base'[q] \in {base[q], <<>>}
        /\ \A q \in Proc : job'[q] \in {job[q], NoJob}
        /\ UNCHANGED succeeded
    BY <1>0, <1>12 DEF Crash
  <2> QED
    BY <1>0, <1>1, <2>1
<1>13. CASE UNCHANGED vars
  BY <1>13 DEF vars
<1> QED
  BY <1>2, <1>3, <1>4, <1>5, <1>6, <1>7, <1>8, <1>9, <1>10, <1>11, <1>12, <1>13
     DEF Next, SubmitterStep, SubmitProgress, RunnerStep, RunProgress

(* No interleaving of stale saves forges a success: a stored `done` goes back
   to a subprocess of that task that exited 0. *)
THEOREM DoneIsEarnedCorrect == Spec => []DoneIsEarned
<1>1. Init => Earned
  BY DEF Init, Earned, EarnedIn, NoJob
<1>2. Typed /\ Earned /\ [Next]_vars => Earned'
  BY EarnedStep
<1>3. Earned => DoneIsEarned
  BY DEF Earned, EarnedIn, DoneIsEarned, Records
<1> QED
  BY <1>1, <1>2, <1>3, AlwaysTyped, PTL DEF Spec
-----------------------------------------------------------------------------
(* The list a lock holder saves is the file plus its own record, what has been
   saved stays, and what has been answered was saved. *)
Kept ==
    /\ \A p \in Submitter : pc[p] = "append_save" => base[p] = tasks
    /\ \A p \in Submitter : pc[p] = "audit" => job[p].id \in IdsOf(tasks)
    /\ accepted \subseteq IdsOf(tasks)

LEMMA KeptStep ==
    ASSUME Clearer = {}, Runner = {}
    PROVE  Typed /\ OneLock /\ Kept /\ [Next]_vars => Kept'
<1> SUFFICES ASSUME Typed, OneLock, Kept, [Next]_vars PROVE Kept'
  OBVIOUS
<1> USE DEF GoTo, Leave, Kept, files, counters, history
<1>0. /\ Proc = Submitter
      /\ pc \in [Submitter -> Steps]
      /\ job \in [Submitter -> Job]
      /\ base \in [Submitter -> Seq(TaskRecord)]
  BY DEF Proc, Typed, TypeOK
<1>1. ASSUME NEW p \in Submitter, AppendSave(p) PROVE Kept'
  <2> DEFINE new == [id |-> job[p].id, name |-> job[p].name,
                     status |-> "pending", depends_on |-> job[p].depends_on]
  <2>1. /\ base[p] = tasks
        /\ tasks' = Append(base[p], new)
        /\ UNCHANGED <<job, accepted>>
        /\ pc[p] = "append_save" /\ pc'[p] = "audit"
        /\ \A q \in Submitter \ {p} : pc'[q] = pc[q]
    BY <1>0, <1>1 DEF AppendSave
  <2>2. new \in TaskRecord /\ new.id = job[p].id
    BY <1>0, <2>1 DEF Job, TaskRecord, Statuses, Typed, HasId, WorksOnTask, Steps
  <2> HIDE DEF new
  <2>3. IdsOf(tasks') = IdsOf(tasks) \cup {job[p].id}
    BY <1>0, <2>1, <2>2, AppendIds
  <2>4. \A q \in Submitter \ {p} : pc[q] # "append_save"
    BY <2>1 DEF OneLock, Appending
  <2> QED
    BY <1>0, <2>1, <2>3, <2>4
<1>2. ASSUME NEW p \in Submitter, AppendLoad(p) PROVE Kept'
  BY <1>0, <1>2 DEF AppendLoad
<1>3. ASSUME NEW p \in Submitter, SubmitReturns(p) PROVE Kept'
  BY <1>0, <1>3 DEF SubmitReturns
<1>4. ASSUME NEW p \in Submitter,
             \/ StartSubmit(p) \/ RejectName(p) \/ AcceptName(p)
             \/ RejectDependency(p) \/ FindDependency(p) \/ DependenciesFound(p)
             \/ RejectGraph(p) \/ AcceptGraph(p) \/ OpenLock(p) \/ Flock(p)
             \/ AuditFails(p) \/ Crash(p)
      PROVE  Kept'
  <2>1. /\ UNCHANGED <<tasks, accepted>>
        /\ pc'[p] \notin {"append_save", "audit"}
        /\ \A q \in Submitter \ {p} : pc'[q] = pc[q] /\ job'[q] = job[q] /\ base'[q] = base[q]
    BY <1>0, <1>4 DEF StartSubmit, RejectName, AcceptName, RejectDependency,
       FindDependency, DependenciesFound, RejectGraph, AcceptGraph, OpenLock,
       Flock, AuditFails, Crash
  <2> QED
    BY <1>0, <2>1
<1>5. CASE UNCHANGED vars
  BY <1>5 DEF vars
<1> QED
  BY <1>0, <1>1, <1>2, <1>3, <1>4, <1>5 DEF Next, SubmitterStep, SubmitProgress

(* NFR-03 for submits: however many submit at once and whichever of them
   crash, a task whose submit answered is in tasks.json for good. *)
THEOREM AcceptedIsStoredCorrect ==
    ASSUME Clearer = {}, Runner = {}
    PROVE  Spec => []AcceptedIsStored
<1>1. Init => OneLock /\ Kept
  BY DEF Init, OneLock, Appending, Kept, Proc
<1>2. Typed /\ OneLock /\ Kept /\ [Next]_vars => OneLock' /\ Kept'
  BY OneLockStep, KeptStep DEF Typed
<1>3. Kept => AcceptedIsStored
  BY DEF Kept, AcceptedIsStored
<1> QED
  BY <1>1, <1>2, <1>3, AlwaysTyped, PTL DEF Spec
-----------------------------------------------------------------------------
\* The list as a graph: with ids that occur once, _tasks_by_id finds the record.
LEMMA GraphOfList ==
    ASSUME NEW list \in Seq(TaskRecord), NEW n, WellFormed(list, n)
    PROVE  /\ DOMAIN ById(list) = IdsOf(list)
           /\ \A k \in DOMAIN list : ById(list)[list[k].id] = list[k].depends_on
           /\ \A i \in IdsOf(list) : \E k \in DOMAIN list : list[k].id = i
<1>1. DOMAIN ById(list) = IdsOf(list)
  BY DEF ById
<1>2. ASSUME NEW k \in DOMAIN list
      PROVE  ById(list)[list[k].id] = list[k].depends_on
  <2> DEFINE r == CHOOSE r \in Records(list) : r.id = list[k].id
  <2>1. list[k] \in Records(list) /\ list[k].id \in IdsOf(list)
    BY DEF Records, IdsOf
  <2>2. r \in Records(list) /\ r.id = list[k].id
    BY <2>1
  <2>3. r = list[k]
    BY <2>2 DEF Records, WellFormed
  <2>4. ById(list)[list[k].id] = r.depends_on
    BY <2>1 DEF ById
  <2> HIDE DEF r
  <2> QED
    BY <2>3, <2>4
<1>3. \A i \in IdsOf(list) : \E k \in DOMAIN list : list[k].id = i
  BY DEF IdsOf, Records
<1> QED
  BY <1>1, <1>2, <1>3

\* Every dependency in the list is in the list.
Closed(list) == \A k \in DOMAIN list : list[k].depends_on \subseteq IdsOf(list)

\* check_depth computes the same before and after someone else's append.
LEMMA ChainOutlivesAppend ==
    ASSUME NEW list \in Seq(TaskRecord), NEW r \in TaskRecord, NEW n \in Nat,
           NEW deps, WellFormed(list, n), WellFormed(Append(list, r), n),
           Closed(list), r.id \notin IdsOf(list), r.depends_on \subseteq IdsOf(list),
           deps \subseteq IdsOf(list)
    PROVE  ChainLength(deps, ById(Append(list, r))) = ChainLength(deps, ById(list))
<1> DEFINE longer == Append(list, r)
           g == ById(list)
           h == ById(longer)
<1>1. /\ longer \in Seq(TaskRecord)
      /\ DOMAIN longer = DOMAIN list \cup {Len(list) + 1}
      /\ \A k \in DOMAIN list : longer[k] = list[k]
      /\ longer[Len(list) + 1] = r
  OBVIOUS
<1>2. IdsOf(longer) = IdsOf(list) \cup {r.id}
  BY AppendIds
<1>3. WellFormed(longer, n)
  OBVIOUS
<1> HIDE DEF longer
<1>4. /\ DOMAIN g = IdsOf(list) /\ DOMAIN h = IdsOf(list) \cup {r.id}
      /\ \A k \in DOMAIN list : g[list[k].id] = list[k].depends_on
      /\ \A k \in DOMAIN longer : h[longer[k].id] = longer[k].depends_on
      /\ \A i \in IdsOf(list) : \E k \in DOMAIN list : list[k].id = i
      /\ \A i \in IdsOf(longer) : \E k \in DOMAIN longer : longer[k].id = i
  BY <1>1, <1>2, <1>3, GraphOfList
<1> HIDE DEF g, h
<1>5. \A t \in DOMAIN g : h[t] = g[t]
  BY <1>1, <1>4
<1>6. \A t \in DOMAIN g : g[t] \subseteq DOMAIN g
  BY <1>4 DEF Closed
<1>7. \A t \in DOMAIN h : h[t] \subseteq DOMAIN h /\ \A d \in h[t] : d < t
  <2> SUFFICES ASSUME NEW t \in DOMAIN h
               PROVE  h[t] \subseteq DOMAIN h /\ \A d \in h[t] : d < t
    OBVIOUS
  <2>1. PICK k \in DOMAIN longer : longer[k].id = t /\ h[t] = longer[k].depends_on
    BY <1>2, <1>4
  <2>2. \A d \in h[t] : d < t
    BY <1>3, <2>1 DEF WellFormed
  <2>3. longer[k].depends_on \subseteq IdsOf(list)
    BY <1>1 DEF Closed
  <2> QED
    BY <1>4, <2>1, <2>2, <2>3
<1>8. DOMAIN h \subseteq 0 .. n
  <2> SUFFICES ASSUME NEW t \in DOMAIN h PROVE t \in 0 .. n
    OBVIOUS
  <2>1. PICK k \in DOMAIN longer : longer[k].id = t
    BY <1>2, <1>4
  <2>2. longer[k] \in TaskRecord /\ longer[k].id <= n
    BY <1>1, <1>3 DEF WellFormed
  <2>3. longer[k].id \in Ids
    BY <2>2, Zenon DEF TaskRecord
  <2>4. t \in Nat /\ t <= n
    BY ONLY <2>1, <2>2, <2>3, TaskStoreAssumption DEF Ids
  <2> QED
    BY ONLY n \in Nat, <2>4
<1>9. DOMAIN g \subseteq DOMAIN h /\ deps \subseteq DOMAIN g
  BY <1>4
<1>10. IsFiniteSet(DOMAIN h) /\ ~Cyclic(h)
  BY <1>7, <1>8, GrowingIsAcyclic
<1>11. ChainLength(deps, g) = ChainLength(deps, h)
  BY <1>5, <1>6, <1>9, <1>10, ChainLengthStable
<1> QED
  BY <1>11 DEF g, h, longer

(* What the unlocked checks established stays true up to the append: nothing
   a submitter found is taken away, and no chain it measured grows. *)
Accountable ==
    /\ Closed(tasks)
    /\ \A p \in Submitter : pc[p] \in {"find_by_name", "find_dependency"} =>
          job[p].depends_on \ job[p].unchecked \subseteq IdsOf(tasks)
    /\ \A p \in Submitter : pc[p] = "tasks_by_id" => job[p].depends_on \subseteq IdsOf(tasks)
    /\ \A p \in Waiting :
          /\ job[p].depends_on \subseteq IdsOf(tasks)
          /\ ChainLength(job[p].depends_on, ById(tasks)) <= MaxDepth

\* The append under the lock, as a step of the ledger.
LEMMA AppendToLedger ==
    ASSUME Clearer = {}, Runner = {}, Typed, OneLock, Kept, Numbered, Accountable,
           NEW p \in Submitter, AppendSave(p)
    PROVE  \E r \in TaskRecord :
              /\ tasks' = Append(tasks, r)
              /\ r.id = job[p].id /\ r.status = "pending"
              /\ r.depends_on = job[p].depends_on
              /\ r.id \notin IdsOf(tasks)
              /\ r.depends_on \subseteq IdsOf(tasks)
              /\ ChainLength(r.depends_on, ById(tasks)) <= MaxDepth
              /\ WellFormed(tasks, issued) /\ WellFormed(tasks', issued)
<1> DEFINE new == [id |-> job[p].id, name |-> job[p].name,
                   status |-> "pending", depends_on |-> job[p].depends_on]
<1>1. p \in Proc /\ p \in Waiting /\ base[p] = tasks
  BY DEF Proc, AppendSave, GoTo, Waiting, Kept
<1>2. tasks' = Append(tasks, new)
  BY <1>1 DEF AppendSave
<1>3. new \in TaskRecord
  <2>1. job[p] \in Job /\ job[p].id \in Ids
    BY <1>1 DEF Typed, TypeOK, HasId, WorksOnTask, Steps, Waiting
  <2> QED
    BY <2>1 DEF Job, TaskRecord, Statuses
<1>4. new.id = job[p].id /\ new.status = "pending" /\ new.depends_on = job[p].depends_on
  OBVIOUS
<1> HIDE DEF new
<1>5. /\ new.id \notin IdsOf(tasks) /\ new.depends_on \subseteq IdsOf(tasks)
      /\ ChainLength(new.depends_on, ById(tasks)) <= MaxDepth
      /\ WellFormed(tasks, issued) /\ new.id <= issued
      /\ \A d \in new.depends_on : d < new.id
  BY <1>1, <1>4 DEF Numbered, Accountable
<1>6. WellFormed(Append(tasks, new), issued)
  BY <1>3, <1>5, AppendIsWellFormed DEF Typed, TypeOK
<1> QED
  BY <1>2, <1>3, <1>4, <1>5, <1>6

LEMMA AppendIsClosed ==
    ASSUME NEW list \in Seq(TaskRecord), NEW r \in TaskRecord, Closed(list),
           r.depends_on \subseteq IdsOf(list)
    PROVE  Closed(Append(list, r))
<1>1. /\ DOMAIN Append(list, r) = DOMAIN list \cup {Len(list) + 1}
      /\ \A k \in DOMAIN list : Append(list, r)[k] = list[k]
      /\ Append(list, r)[Len(list) + 1] = r
  OBVIOUS
<1>2. IdsOf(list) \subseteq IdsOf(Append(list, r))
  BY AppendIds
<1> QED
  BY <1>1, <1>2 DEF Closed

LEMMA AccountableStep ==
    ASSUME Clearer = {}, Runner = {}
    PROVE  Typed /\ OneLock /\ Kept /\ Numbered /\ Accountable /\ [Next]_vars
              => Accountable'
<1> SUFFICES ASSUME Typed, OneLock, Kept, Numbered, Accountable, [Next]_vars
             PROVE  Accountable'
  OBVIOUS
<1> USE DEF GoTo, Leave, Accountable, Waiting, files, counters, history
<1>0. /\ Proc = Submitter
      /\ pc \in [Submitter -> Steps]
      /\ job \in [Submitter -> Job]
      /\ tasks \in Seq(TaskRecord)
      /\ issued \in Nat
  BY TaskStoreAssumption DEF Proc, Typed, TypeOK
<1>1. ASSUME NEW p \in Submitter, AppendSave(p) PROVE Accountable'
  <2>1. PICK r \in TaskRecord :
          /\ tasks' = Append(tasks, r) /\ r.id \notin IdsOf(tasks)
          /\ r.depends_on \subseteq IdsOf(tasks)
          /\ WellFormed(tasks, issued) /\ WellFormed(tasks', issued)
    BY <1>1, AppendToLedger
  <2>2. Closed(tasks')
    BY <1>0, <2>1, AppendIsClosed
  <2>3. IdsOf(tasks) \subseteq IdsOf(tasks')
    BY <1>0, <2>1, AppendIds
  <2>4. /\ job' = job
        /\ pc'[p] = "audit"
        /\ \A q \in Submitter \ {p} : pc'[q] = pc[q]
    BY <1>0, <1>1 DEF AppendSave
  <2>5. ASSUME NEW q \in Waiting
        PROVE  ChainLength(job[q].depends_on, ById(tasks')) <= MaxDepth
    <3>1. /\ job[q].depends_on \subseteq IdsOf(tasks)
          /\ ChainLength(job[q].depends_on, ById(tasks)) <= MaxDepth
          /\ Closed(tasks)
      OBVIOUS
    <3>2. ChainLength(job[q].depends_on, ById(Append(tasks, r)))
            = ChainLength(job[q].depends_on, ById(tasks))
      BY <1>0, <2>1, <3>1, ChainOutlivesAppend
    <3> QED
      BY <2>1, <3>1, <3>2
  <2>6. Waiting' \subseteq Waiting
    BY <2>4
  <2>7. \A q \in Submitter : pc'[q] \in {"find_by_name", "find_dependency", "tasks_by_id"}
                               => pc'[q] = pc[q]
    BY <2>4
  <2>8. \A q \in Waiting' : /\ job'[q].depends_on \subseteq IdsOf(tasks')
                            /\ ChainLength(job'[q].depends_on, ById(tasks')) <= MaxDepth
    <3>1. \A q \in Waiting : job[q].depends_on \subseteq IdsOf(tasks)
      OBVIOUS
    <3> HIDE DEF Waiting
    <3> QED
      BY <2>3, <2>4, <2>5, <2>6, <3>1
  <2>9. ById(tasks)' = ById(tasks') /\ IdsOf(tasks)' = IdsOf(tasks')
    BY DEF ById, IdsOf, Records
  <2> QED
    BY <2>2, <2>3, <2>4, <2>7, <2>8
<1>2. ASSUME NEW p \in Submitter, StartSubmit(p) PROVE Accountable'
  <2>1. job'[p].depends_on = job'[p].unchecked
    BY <1>0, <1>2 DEF StartSubmit, NoJob
  <2> QED
    BY <1>0, <1>2, <2>1 DEF StartSubmit
<1>3. ASSUME NEW p \in Submitter, FindDependency(p) PROVE Accountable'
  <2>1. PICK d \in IdsOf(tasks) : job' = [job EXCEPT ![p].unchecked = @ \ {d}]
    BY <1>3 DEF FindDependency
  <2>2. /\ job'[p].depends_on = job[p].depends_on
        /\ job'[p].unchecked = job[p].unchecked \ {d}
        /\ pc[p] = "find_dependency" /\ pc'[p] = "find_dependency"
        /\ \A q \in Proc \ {p} : job'[q] = job[q] /\ pc'[q] = pc[q]
        /\ tasks' = tasks
    BY <1>0, <1>3, <2>1 DEF FindDependency, Job
  <2> QED
    BY <1>0, <2>2
<1>4. ASSUME NEW p \in Submitter, AcceptGraph(p) PROVE Accountable'
  <2>1. /\ job'[p].depends_on = job[p].depends_on
        /\ pc[p] = "tasks_by_id" /\ pc'[p] = "open_lock"
        /\ \A q \in Proc \ {p} : job'[q] = job[q] /\ pc'[q] = pc[q]
        /\ ChainLength(job[p].depends_on, ById(tasks)) <= MaxDepth
        /\ tasks' = tasks
    BY <1>0, <1>4 DEF AcceptGraph, Job
  <2> QED
    BY <1>0, <2>1
<1>5. ASSUME NEW p \in Submitter, AcceptName(p) \/ DependenciesFound(p)
      PROVE  Accountable'
  <2>1. CASE AcceptName(p)
    BY <1>0, <2>1 DEF AcceptName
  <2>2. CASE DependenciesFound(p)
    BY <1>0, <2>2 DEF DependenciesFound
  <2> QED
    BY <1>5, <2>1, <2>2
<1>6. ASSUME NEW p \in Submitter, OpenLock(p) \/ Flock(p) \/ AppendLoad(p)
      PROVE  Accountable'
  <2>1. /\ UNCHANGED <<tasks, job>>
        /\ pc[p] \in {"open_lock", "flock", "append_load"}
        /\ pc'[p] \in {"flock", "append_load", "append_save"}
        /\ \A q \in Submitter \ {p} : pc'[q] = pc[q]
    BY <1>0, <1>6 DEF OpenLock, Flock, AppendLoad
  <2> QED
    BY <1>0, <2>1
<1>7. ASSUME NEW p \in Submitter,
             \/ RejectName(p) \/ RejectDependency(p) \/ RejectGraph(p)
             \/ SubmitReturns(p) \/ AuditFails(p) \/ Crash(p)
      PROVE  Accountable'
  <2>1. /\ \A q \in Submitter : pc'[q] = "idle" \/ (pc'[q] = pc[q] /\ job'[q] = job[q])
        /\ tasks' = tasks
    BY <1>0, <1>7 DEF RejectName, RejectDependency, RejectGraph, SubmitReturns,
       AuditFails, Crash
  <2> QED
    BY <1>0, <2>1
<1>8. CASE UNCHANGED vars
  BY <1>8 DEF vars
<1> QED
  BY <1>0, <1>1, <1>2, <1>3, <1>4, <1>5, <1>6, <1>7, <1>8
     DEF Next, SubmitterStep, SubmitProgress
-----------------------------------------------------------------------------
\* The ledger's terms are the store's, when ids occur once.
LEMMA LedgerTerms ==
    ASSUME tasks \in Seq(TaskRecord), NEW n, WellFormed(tasks, n)
    PROVE  /\ Ledger!LedgerIds = IdsOf(tasks)
           /\ Ledger!LedgerGraph = ById(tasks)
<1>1. Ledger!LedgerIds = IdsOf(tasks)
  BY DEF Ledger!LedgerIds, IdsOf, Records
<1>2. ASSUME NEW i \in IdsOf(tasks)
      PROVE  tasks[CHOOSE k \in DOMAIN tasks : tasks[k].id = i].depends_on = ById(tasks)[i]
  <2>1. PICK k \in DOMAIN tasks : tasks[k].id = i
    BY GraphOfList
  <2>2. \A l \in DOMAIN tasks : tasks[l].id = i => l = k
    BY <2>1 DEF WellFormed
  <2>3. (CHOOSE l \in DOMAIN tasks : tasks[l].id = i) = k
    BY <2>1, <2>2
  <2> QED
    BY <2>1, <2>3, GraphOfList
<1> QED
  BY <1>1, <1>2 DEF Ledger!LedgerGraph, ById

LEMMA LedgerChain == \A deps, g : Ledger!ChainLength(deps, g) = ChainLength(deps, g)
  BY DEF Ledger!ChainLength, ChainLength, Ledger!LengthOf, LengthOf,
     Ledger!MaxOrZero, MaxOrZero

\* Every step of the store is a step of the ledger or leaves it alone.
LEMMA LedgerStep ==
    ASSUME Clearer = {}, Runner = {}
    PROVE  Typed /\ OneLock /\ Kept /\ Numbered /\ Accountable /\ [Next]_vars
              => [Ledger!LedgerNext]_tasks
<1> SUFFICES ASSUME Typed, OneLock, Kept, Numbered, Accountable, [Next]_vars
             PROVE  [Ledger!LedgerNext]_tasks
  OBVIOUS
<1>1. ASSUME NEW p \in Submitter, AppendSave(p) PROVE Ledger!LedgerNext
  <2>1. PICK r \in TaskRecord :
          /\ tasks' = Append(tasks, r)
          /\ r.status = "pending" /\ r.id \notin IdsOf(tasks)
          /\ r.depends_on \subseteq IdsOf(tasks)
          /\ ChainLength(r.depends_on, ById(tasks)) <= MaxDepth
          /\ WellFormed(tasks, issued)
    BY <1>1, AppendToLedger
  <2>2. tasks \in Seq(TaskRecord)
    BY DEF Typed, TypeOK
  <2>3. /\ Len(tasks') = Len(tasks) + 1
        /\ \A n \in DOMAIN tasks : tasks'[n] = tasks[n]
        /\ tasks'[Len(tasks')] = r
    BY <2>1, <2>2
  <2>4. Ledger!Admitted(r)
    BY <2>1, <2>2, LedgerTerms, LedgerChain DEF Ledger!Admitted
  <2> QED
    BY <2>3, <2>4 DEF Ledger!LedgerNext
<1>2. ASSUME NEW p \in Submitter,
             \/ StartSubmit(p) \/ RejectName(p) \/ AcceptName(p)
             \/ RejectDependency(p) \/ FindDependency(p) \/ DependenciesFound(p)
             \/ RejectGraph(p) \/ AcceptGraph(p) \/ OpenLock(p) \/ Flock(p)
             \/ AppendLoad(p) \/ SubmitReturns(p) \/ AuditFails(p) \/ Crash(p)
      PROVE  UNCHANGED tasks
  <2>1. CASE \/ StartSubmit(p) \/ RejectName(p) \/ AcceptName(p)
             \/ RejectDependency(p) \/ FindDependency(p) \/ DependenciesFound(p)
             \/ RejectGraph(p) \/ AcceptGraph(p)
    BY <2>1, Zenon DEF files, StartSubmit, RejectName, AcceptName,
       RejectDependency, FindDependency, DependenciesFound, RejectGraph, AcceptGraph
  <2>2. CASE \/ OpenLock(p) \/ Flock(p) \/ AppendLoad(p) \/ SubmitReturns(p)
             \/ AuditFails(p) \/ Crash(p)
    BY <2>2 DEF files, OpenLock, Flock, AppendLoad, SubmitReturns, AuditFails, Crash
  <2> QED
    BY <1>2, <2>1, <2>2
<1>3. CASE UNCHANGED vars
  BY <1>3 DEF vars
<1> QED
  BY <1>1, <1>2, <1>3 DEF Next, SubmitterStep, SubmitProgress, Proc

(* However many submits interleave or crash, tasks.json is an append-only list
   of tasks that each pass the checks of submit against the list as it is when
   they are appended: that the checks run before the lock is taken, against
   older lists, makes no difference as long as nothing else writes. *)
THEOREM SubmitsAppendToTheLedgerCorrect ==
    ASSUME Clearer = {}, Runner = {}
    PROVE  Spec => SubmitsAppendToTheLedger
<1>1. Init => OneLock /\ Kept /\ Accountable /\ Ledger!LedgerInit
  BY DEF Init, OneLock, Appending, Kept, Accountable, Closed, Waiting, Proc,
     Ledger!LedgerInit
<1>2. Typed /\ OneLock /\ Kept /\ Numbered /\ Accountable /\ [Next]_vars
         => OneLock' /\ Kept' /\ Accountable'
  BY OneLockStep, KeptStep, AccountableStep DEF Typed
<1>3. Typed /\ OneLock /\ Kept /\ Numbered /\ Accountable /\ [Next]_vars
         => [Ledger!LedgerNext]_tasks
  BY LedgerStep
<1> QED
  BY <1>1, <1>2, <1>3, AlwaysTyped, AlwaysNumbered, PTL
     DEF Spec, SubmitsAppendToTheLedger, Ledger!LedgerSpec
=============================================================================
