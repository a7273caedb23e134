----------------------------- MODULE TaskStore -----------------------------
(***************************************************************************)
(* tasks.json and the processes that write it (storage/task_store.py,      *)
(* submit_cmd and clear_cmd of cli/commands.py, execute_task and           *)
(* _set_status of service/executor.py).  A submitter validates against     *)
(* several separate reads, then appends under an flock on the side file    *)
(* tasks.json.lock.  A runner merges a status with a read and a write that *)
(* only a lock local to its own process protects, so for other processes   *)
(* they are two unrelated steps.  `clear` unlinks both files.              *)
(*                                                                         *)
(* flock locks an inode: an open handle keeps naming the file it opened    *)
(* even after the path has been unlinked and created again.                *)
(***************************************************************************)
EXTENDS Dag

CONSTANTS
    Submitter,   \* processes that may execute `submit`
    Runner,      \* processes that may execute one task each
    Clearer,     \* processes that may execute `clear`
    Names,       \* the names a user gives tasks
    NoName,      \* --name was not given
    MaxDepth,    \* TASKQ_MAX_DAG_DEPTH
    Faults,      \* a subset of {"audit", "spawn_error", "crash"}
    MaxSubmits,  \* bound: how many submits are started
    MaxOps       \* bound: how many run and clear commands are started

Proc == Submitter \cup Runner \cup Clearer

Ids == 1 .. MaxSubmits

ASSUME TaskStoreAssumption ==
    /\ NoName \notin Names
    /\ MaxDepth \in Int
    /\ MaxSubmits \in Nat
    /\ MaxOps \in Nat
    /\ IsFiniteSet(Submitter)
    /\ Submitter \cap Runner = {}
    /\ Submitter \cap Clearer = {}
    /\ Runner \cap Clearer = {}

Statuses == {"pending", "running", "done", "failed", "timeout"}
Outcomes == {"done", "failed", "timeout"}
Active == {"pending", "running"}

TaskRecord == [id : Ids, name : Names \cup {NoName},
               status : Statuses, depends_on : SUBSET Ids]

VARIABLES
    tasks,      \* the list in tasks.json; <<>> also when the file is absent
    lockFile,   \* inode behind the path tasks.json.lock, 0 when absent
    inodes,     \* how many lock files were ever created
    handle,     \* inode each process has open, 0 when none
    locked,     \* processes whose flock is granted
    pc,         \* what each process does next
    job,        \* what each process works on
    base,       \* the list each process loaded for a load-modify-save cycle
    issued,     \* how many ids generate_task_id has returned
    submits,    \* how many submits were started (bounded by MaxSubmits)
    ops,        \* how many runs and clears were started (bounded by MaxOps)
    accepted,   \* history: ids whose submit returned exit 0
    succeeded,  \* history: ids of which some subprocess exited 0
    reported    \* history: final status the latest run of an id wrote

vars == <<tasks, lockFile, inodes, handle, locked, pc, job, base, issued,
          submits, ops, accepted, succeeded, reported>>

files == <<tasks, lockFile, inodes>>
counters == <<issued, submits, ops>>
history == <<accepted, succeeded, reported>>

Job == [id : Ids \cup {0}, name : Names \cup {NoName},
        depends_on : SUBSET Ids, unchecked : SUBSET Ids, status : Statuses]

NoJob == [id |-> 0, name |-> NoName, depends_on |-> {}, unchecked |-> {},
          status |-> "pending"]

Steps ==
    {"idle",
     "find_by_name", "find_dependency", "tasks_by_id", "open_lock", "flock",
     "append_load", "append_save", "audit",
     "find_by_id", "load_running", "save_running", "subprocess",
     "load_result", "save_result",
     "unlink_tasks", "unlink_lock"}

TypeOK ==
    /\ tasks \in Seq(TaskRecord)
    /\ lockFile \in Nat
    /\ inodes \in Nat
    /\ handle \in [Proc -> Nat]
    /\ locked \in SUBSET Proc
    /\ pc \in [Proc -> Steps]
    /\ job \in [Proc -> Job]
    /\ base \in [Proc -> Seq(TaskRecord)]
    /\ issued \in 0 .. MaxSubmits
    /\ submits \in 0 .. MaxSubmits
    /\ ops \in 0 .. MaxOps
    /\ accepted \in SUBSET Ids
    /\ succeeded \in SUBSET Ids
    /\ reported \in [Ids -> Outcomes \cup {"none"}]

Init ==
    /\ tasks = <<>>
    /\ lockFile = 0
    /\ inodes = 0
    /\ handle = [p \in Proc |-> 0]
    /\ locked = {}
    /\ pc = [p \in Proc |-> "idle"]
    /\ job = [p \in Proc |-> NoJob]
    /\ base = [p \in Proc |-> <<>>]
    /\ issued = 0
    /\ submits = 0
    /\ ops = 0
    /\ accepted = {}
    /\ succeeded = {}
    /\ reported = [i \in Ids |-> "none"]

-----------------------------------------------------------------------------
Records(list) == {list[i] : i \in DOMAIN list}

IdsOf(list) == {r.id : r \in Records(list)}

\* _tasks_by_id as a graph: id -> depends_on.
ById(list) ==
    [i \in IdsOf(list) |->
        (CHOOSE r \in Records(list) : r.id = i).depends_on]

NameTaken(list, name) ==
    name # NoName
    /\ \E r \in Records(list) : r.name = name /\ r.status \in Active

\* Wrong variant, to confirm DoneIsEarned: the status goes to every record.
WithStatusForAll(list, i, status) ==
    [n \in DOMAIN list |-> [list[n] EXCEPT !.status = status]]

\* The records of list with the status of task i merged in.
WithStatus(list, i, status) ==
    [n \in DOMAIN list |->
        IF list[n].id = i THEN [list[n] EXCEPT !.status = status] ELSE list[n]]

GoTo(p, from, to) == pc[p] = from /\ pc' = [pc EXCEPT ![p] = to]

\* The process ends (its locals are gone) after step `from`.
Leave(p, from) ==
    /\ GoTo(p, from, "idle")
    /\ job' = [job EXCEPT ![p] = NoJob]
    /\ base' = [base EXCEPT ![p] = <<>>]

-----------------------------------------------------------------------------
\* `submit`: TaskSubmission is valid; the user may have typed any ids.
StartSubmit(p) ==
    /\ submits < MaxSubmits
    /\ GoTo(p, "idle", "find_by_name")
    /\ \E name \in Names \cup {NoName}, deps \in SUBSET Ids :
          job' = [job EXCEPT ![p] = [NoJob EXCEPT !.name = name,
                                                  !.depends_on = deps,
                                                  !.unchecked = deps]]
    /\ submits' = submits + 1
    /\ UNCHANGED <<files, handle, locked, base, issued, ops, history>>

\* The name is held by a pending or running task: exit 2.
RejectName(p) ==
    /\ NameTaken(tasks, job[p].name)
    /\ Leave(p, "find_by_name")
    /\ UNCHANGED <<files, handle, locked, counters, history>>

AcceptName(p) ==
    /\ ~NameTaken(tasks, job[p].name)
    /\ GoTo(p, "find_by_name", "find_dependency")
    /\ UNCHANGED <<files, handle, locked, job, base, counters, history>>

\* One find_by_id, hence one read of the file, per dependency.
FindDependency(p) ==
    /\ GoTo(p, "find_dependency", "find_dependency")
    /\ \E d \in job[p].unchecked \cap IdsOf(tasks) :
          job' = [job EXCEPT ![p].unchecked = @ \ {d}]
    /\ UNCHANGED <<files, handle, locked, base, counters, history>>

RejectDependency(p) ==
    /\ job[p].unchecked \ IdsOf(tasks) # {}
    /\ Leave(p, "find_dependency")
    /\ UNCHANGED <<files, handle, locked, counters, history>>

\* Wrong variant, to confirm DependenciesPrecede: unknown ids are let through.
SkipsDependencies(p) ==
    /\ GoTo(p, "find_dependency", "tasks_by_id")
    /\ UNCHANGED <<files, handle, locked, job, base, counters, history>>

DependenciesFound(p) ==
    /\ job[p].unchecked = {}
    /\ GoTo(p, "find_dependency", "tasks_by_id")
    /\ UNCHANGED <<files, handle, locked, job, base, counters, history>>

\* detect_cycle over the whole store, then check_depth; either is exit 5.
RejectGraph(p) ==
    LET graph == ById(tasks)
    IN  /\ Cyclic(graph) \/ ChainLength(job[p].depends_on, graph) > MaxDepth
        /\ Leave(p, "tasks_by_id")
        /\ UNCHANGED <<files, handle, locked, counters, history>>

\* Wrong variant, to confirm SubmitsAppendToTheLedger: one node too deep.
AcceptsDeeper(p) ==
    /\ ~Cyclic(ById(tasks))
    /\ ChainLength(job[p].depends_on, ById(tasks)) <= MaxDepth + 1
    /\ GoTo(p, "tasks_by_id", "open_lock")
    /\ issued' = issued + 1
    /\ job' = [job EXCEPT ![p].id = issued + 1]
    /\ UNCHANGED <<files, handle, locked, base, submits, ops, history>>

\* Wrong variant, to confirm IdsAreUnique: ids number the records of the file.
NumbersRecords(p) ==
    /\ GoTo(p, "tasks_by_id", "open_lock")
    /\ issued' = issued + 1
    /\ job' = [job EXCEPT ![p].id = Len(tasks) + 1]
    /\ UNCHANGED <<files, handle, locked, base, submits, ops, history>>

\* Wrong variant, to confirm TypeOK: hands out the previous id.
IssuesPreviousId(p) ==
    /\ GoTo(p, "tasks_by_id", "open_lock")
    /\ issued' = issued + 1
    /\ job' = [job EXCEPT ![p].id = issued]
    /\ UNCHANGED <<files, handle, locked, base, submits, ops, history>>

\* The checks pass and generate_task_id() returns an id never seen before.
AcceptGraph(p) ==
    LET graph == ById(tasks)
    IN  /\ ~Cyclic(graph)
        /\ ChainLength(job[p].depends_on, graph) <= MaxDepth
        /\ GoTo(p, "tasks_by_id", "open_lock")
        /\ issued' = issued + 1
        /\ job' = [job EXCEPT ![p].id = issued + 1]
        /\ UNCHANGED <<files, handle, locked, base, submits, ops, history>>

\* path.open("a+"): creates tasks.json.lock when the path does not exist.
OpenLock(p) ==
    /\ GoTo(p, "open_lock", "flock")
    /\ IF lockFile = 0
       THEN /\ inodes' = inodes + 1
            /\ lockFile' = inodes + 1
            /\ handle' = [handle EXCEPT ![p] = inodes + 1]
       ELSE /\ handle' = [handle EXCEPT ![p] = lockFile]
            /\ UNCHANGED <<inodes, lockFile>>
    /\ UNCHANGED <<tasks, locked, job, base, counters, history>>

\* Wrong variant, to confirm AppendIsExclusive: a shared lock never waits.
LocksShared(p) ==
    /\ GoTo(p, "flock", "append_load")
    /\ locked' = locked \cup {p}
    /\ UNCHANGED <<files, handle, job, base, counters, history>>

\* flock(LOCK_EX) waits for whoever locked the same inode.
Flock(p) ==
    /\ \A q \in locked : handle[q] # handle[p]
    /\ GoTo(p, "flock", "append_load")
    /\ locked' = locked \cup {p}
    /\ UNCHANGED <<files, handle, job, base, counters, history>>

\* Wrong variant, to confirm AcceptedIsStored: unlocks between load and save.
LoadsAndUnlocks(p) ==
    /\ GoTo(p, "append_load", "append_save")
    /\ base' = [base EXCEPT ![p] = tasks]
    /\ locked' = locked \ {p}
    /\ handle' = [handle EXCEPT ![p] = 0]
    /\ UNCHANGED <<files, job, counters, history>>

AppendLoad(p) ==
    /\ GoTo(p, "append_load", "append_save")
    /\ base' = [base EXCEPT ![p] = tasks]
    /\ UNCHANGED <<files, handle, locked, job, counters, history>>

\* Wrong variant, to confirm EveryCommandReturns: saves and keeps the lock.
SavesAndKeepsLock(p) ==
    /\ GoTo(p, "append_save", "audit")
    /\ tasks' = Append(base[p],
                       [id |-> job[p].id, name |-> job[p].name,
                        status |-> "pending", depends_on |-> job[p].depends_on])
    /\ base' = [base EXCEPT ![p] = <<>>]
    /\ UNCHANGED <<lockFile, inodes, handle, locked, job, counters, history>>

\* os.replace, then the handle is unlocked and closed.
AppendSave(p) ==
    /\ GoTo(p, "append_save", "audit")
    /\ tasks' = Append(base[p],
                       [id |-> job[p].id, name |-> job[p].name,
                        status |-> "pending", depends_on |-> job[p].depends_on])
    /\ locked' = locked \ {p}
    /\ handle' = [handle EXCEPT ![p] = 0]
    /\ base' = [base EXCEPT ![p] = <<>>]
    /\ UNCHANGED <<lockFile, inodes, job, counters, history>>

\* The legacy audit.log line, then the answer with the id and exit 0.
SubmitReturns(p) ==
    /\ Leave(p, "audit")
    /\ accepted' = accepted \cup {job[p].id}
    /\ UNCHANGED <<files, handle, locked, counters, succeeded, reported>>

\* _emit_audit is not best effort: the task is stored and submit exits 1.
AuditFails(p) ==
    /\ "audit" \in Faults
    /\ Leave(p, "audit")
    /\ UNCHANGED <<files, handle, locked, counters, history>>

-----------------------------------------------------------------------------
\* One execute_task(i); retries of run_with_retry are further ones.
StartRun(p) ==
    /\ ops < MaxOps
    /\ GoTo(p, "idle", "find_by_id")
    /\ \E i \in Ids : job' = [job EXCEPT ![p] = [NoJob EXCEPT !.id = i]]
    /\ ops' = ops + 1
    /\ UNCHANGED <<files, handle, locked, base, issued, submits, history>>

FindNothing(p) ==
    /\ job[p].id \notin IdsOf(tasks)
    /\ Leave(p, "find_by_id")
    /\ UNCHANGED <<files, handle, locked, counters, history>>

FindById(p) ==
    /\ job[p].id \in IdsOf(tasks)
    /\ GoTo(p, "find_by_id", "load_running")
    /\ job' = [job EXCEPT ![p].status = "running"]
    /\ UNCHANGED <<files, handle, locked, base, counters, history>>

\* load_tasks() of _set_status, for "running" and for the result.
SetStatusLoad(p) ==
    /\ \/ GoTo(p, "load_running", "save_running")
       \/ GoTo(p, "load_result", "save_result")
    /\ base' = [base EXCEPT ![p] = tasks]
    /\ UNCHANGED <<files, handle, locked, job, counters, history>>

\* save_tasks() of _set_status: it saves even when the id was not found.
SetStatusSave(p) ==
    /\ \/ /\ GoTo(p, "save_running", "subprocess")
          /\ base' = [base EXCEPT ![p] = <<>>]
          /\ reported' = [reported EXCEPT ![job[p].id] = "none"]
          /\ UNCHANGED job
       \/ /\ Leave(p, "save_result")
          /\ reported' = [reported EXCEPT ![job[p].id] = job[p].status]
    /\ tasks' = WithStatus(base[p], job[p].id, job[p].status)
    /\ UNCHANGED <<lockFile, inodes, handle, locked, counters, accepted,
                   succeeded>>

SubprocessEnds(p) ==
    /\ GoTo(p, "subprocess", "load_result")
    /\ \E status \in Outcomes :
          /\ job' = [job EXCEPT ![p].status = status]
          /\ succeeded' = IF status = "done" THEN succeeded \cup {job[p].id}
                                             ELSE succeeded
    /\ UNCHANGED <<files, handle, locked, base, counters, accepted, reported>>

\* An exception other than TimeoutExpired leaves execute_task at once.
SpawnRaises(p) ==
    /\ "spawn_error" \in Faults
    /\ Leave(p, "subprocess")
    /\ UNCHANGED <<files, handle, locked, counters, history>>

-----------------------------------------------------------------------------
StartClear(p) ==
    /\ ops < MaxOps
    /\ GoTo(p, "idle", "unlink_tasks")
    /\ ops' = ops + 1
    /\ UNCHANGED <<files, handle, locked, job, base, issued, submits, history>>

UnlinkTasks(p) ==
    /\ GoTo(p, "unlink_tasks", "unlink_lock")
    /\ tasks' = <<>>
    /\ accepted' = {}
    /\ reported' = [i \in Ids |-> "none"]
    /\ UNCHANGED <<lockFile, inodes, handle, locked, job, base, counters, succeeded>>

UnlinkLock(p) ==
    /\ GoTo(p, "unlink_lock", "idle")
    /\ lockFile' = 0
    /\ UNCHANGED <<tasks, inodes, handle, locked, job, base, counters, history>>

-----------------------------------------------------------------------------
\* A killed process: the kernel closes its handle and so drops its flock.
Crash(p) ==
    /\ "crash" \in Faults
    /\ pc[p] # "idle"
    /\ Leave(p, pc[p])
    /\ handle' = [handle EXCEPT ![p] = 0]
    /\ locked' = locked \ {p}
    /\ UNCHANGED <<files, counters, history>>

SubmitProgress(p) ==
    \/ RejectName(p) \/ AcceptName(p) \/ RejectDependency(p)
    \/ FindDependency(p) \/ DependenciesFound(p) \/ RejectGraph(p)
    \/ AcceptGraph(p) \/ OpenLock(p) \/ Flock(p) \/ AppendLoad(p)
    \/ AppendSave(p) \/ SubmitReturns(p)

RunProgress(p) ==
    \/ FindNothing(p) \/ FindById(p) \/ SetStatusLoad(p)
    \/ SetStatusSave(p) \/ SubprocessEnds(p)

ClearProgress(p) == UnlinkTasks(p) \/ UnlinkLock(p)

SubmitterStep(p) == StartSubmit(p) \/ SubmitProgress(p) \/ AuditFails(p)
RunnerStep(p) == StartRun(p) \/ RunProgress(p) \/ SpawnRaises(p)
ClearerStep(p) == StartClear(p) \/ ClearProgress(p)

Next ==
    \/ \E p \in Submitter : SubmitterStep(p)
    \/ \E p \in Runner : RunnerStep(p)
    \/ \E p \in Clearer : ClearerStep(p)
    \/ \E p \in Proc : Crash(p)

Spec == Init /\ [][Next]_vars

\* A live process keeps going, and flock is granted to a waiter in the end.
FairSpec ==
    /\ Spec
    /\ \A p \in Submitter : WF_vars(SubmitProgress(p))
    /\ \A p \in Runner : WF_vars(RunProgress(p))
    /\ \A p \in Clearer : WF_vars(ClearProgress(p))
-----------------------------------------------------------------------------
(* Over every interleaving of submits, status merges, clears and crashes, a
   stored task only depends on tasks whose ids were issued before its own, so
   no schedule of unlocked checks can put a dependency ring into tasks.json
   (submit_cmd checks dependencies before it generates the id). *)
DependenciesPrecede ==
    \A r \in Records(tasks) : \A d \in r.depends_on : d < r.id

(* No schedule stores one id twice: find_by_id and _set_status, which stop at
   the first match, therefore never hide a second record. *)
IdsAreUnique ==
    \A m, n \in DOMAIN tasks : tasks[m].id = tasks[n].id => m = n

(* A stored `done` was earned: some subprocess of that task did exit 0.  Stale
   writes can undo a status but never forge one. *)
DoneIsEarned ==
    \A r \in Records(tasks) : r.status = "done" => r.id \in succeeded

(* append_task: of the submitters that share tasks.json.lock at most one is
   between its load and its save (_store_write_lock holds "an exclusive
   inter-process lock over the tasks.json mutation"). *)
AppendIsExclusive ==
    \A p, q \in Submitter :
        pc[p] \in {"append_load", "append_save"}
        /\ pc[q] \in {"append_load", "append_save"} => p = q

(* append_task / NFR-03: concurrent writes lose no recorded task.  An id whose
   submit answered with success is in tasks.json until the next clear. *)
AcceptedIsStored == accepted \subseteq IdsOf(tasks)

(* FR-01: no two pending/running tasks carry the same name.
   Not kept by the code: see "Disagreements" in the README. *)
ActiveNamesAreUnique ==
    \A r, s \in Records(tasks) :
        /\ r.name = s.name /\ r.name # NoName
        /\ r.status \in Active /\ s.status \in Active
        => r.id = s.id

(* NFR-03 and the rule of _store_lock: a final status that a run recorded
   stays in tasks.json until that task is run again.
   Not kept by the code: see "Disagreements" in the README. *)
ReportedStatusStays ==
    \A r \in Records(tasks) :
        reported[r.id] # "none" => r.status = reported[r.id]

(* Every submit, run and clear returns: no crash or rejection keeps the flock
   of tasks.json.lock from the processes that wait for it. *)
EveryCommandReturns ==
    \A p \in Proc : (pc[p] # "idle") ~> (pc[p] = "idle")
-----------------------------------------------------------------------------
Ledger == INSTANCE TaskLedger WITH ledger <- tasks, LedgerDepth <- MaxDepth

(* append_task's promise, checks included: while only submits write, however
   they interleave or crash, tasks.json grows one validated task at a time
   and no record is dropped, reordered or changed. *)
SubmitsAppendToTheLedger == Ledger!LedgerSpec
=============================================================================
