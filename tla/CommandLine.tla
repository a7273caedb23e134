---------------------------- MODULE CommandLine ----------------------------
(***************************************************************************)
(* A session at one shell: the subcommands of cli/main.py and              *)
(* cli/commands.py one after another over the same $TASKQ_HOME, each with  *)
(* everything it calls as one step, and the environment between them (the  *)
(* clock, a hand-edited or damaged tasks.json).  The module composes what  *)
(* the others take apart: TaskStore has the interleavings of submits,      *)
(* GuardedRuns and BatchRun those of runs, TaskRun the cache, StoreFile    *)
(* the file operations.  A replayed result (--cached) changes none of the  *)
(* state kept here; which results are replayed is TaskRun's subject.       *)
(***************************************************************************)
EXTENDS Breaker, Dag

CONSTANTS
    MaxDepth,   \* TASKQ_MAX_DAG_DEPTH
    MaxTasks,   \* bound: how many task ids are generated
    MaxTime,    \* bound: the last clock reading
    Lossy,      \* bound: the ids whose entries may be lost (in the code all)
    Faults      \* a subset of {"plugin", "legacy_log", "spawn", "unlink",
                \*              "damage", "edit", "disk_full"}

ASSUME CommandLineAssumption ==
    /\ MaxDepth \in Nat
    /\ MaxTasks \in Nat
    /\ MaxTime \in Nat

Id == 1 .. MaxTasks    \* generate_task_id(), in the order of generation

Outcomes == {"done", "failed", "timeout"}
Statuses == Outcomes \cup {"pending", "running", "blocked"}

\* The last lifecycle event that audit.jsonl holds for a task.
Events == {<<"none">>, <<"submit">>, <<"blocked">>, <<"run_start">>}
            \cup {<<"run_end", s>> : s \in Outcomes}

VARIABLES
    tasks,     \* the records load_tasks() answers: none if the file is damaged
    corrupt,   \* tasks.json exists and is not a task list
    breaker,   \* breaker.json
    journal,   \* audit.jsonl, which clear leaves alone
    issued,    \* how many ids were generated (bounded by MaxTasks)
    now,       \* time.time() (bounded by MaxTime)
    last,      \* the last step: the subcommand, its exit code, and whether
               \* it went past the gates and started a task
    streak,    \* history: final failures in a row that `run <id>` told the
               \* breaker, counted up to Threshold; batches and runs cut short
               \* tell it nothing and neither add to the row nor end it
    failedAt,  \* history: the time of the last of those failures
    forced,    \* history: ids that were executed by `run <id>`
    unheard    \* history: ids whose latest entry did not reach audit.jsonl

history == <<streak, failedAt, forced, unheard>>
vars == <<tasks, corrupt, breaker, journal, issued, now, last, history>>

Commands == {"submit", "run", "run --all", "status", "list", "graph",
             "export", "plugins", "clear", "dispatch submit", "dispatch run"}

Answers == [command : Commands \cup {"none"}, exit : 0 .. 6, started : BOOLEAN]

TypeOK ==
    /\ DOMAIN tasks \subseteq 1 .. issued
    /\ \A t \in DOMAIN tasks :
           tasks[t] \in [status : Statuses, depends_on : SUBSET Id]
    /\ corrupt \in BOOLEAN
    /\ corrupt => DOMAIN tasks = {}
    /\ breaker \in BreakerRecord \cup {NoFile}
    /\ journal \in [Id -> Events]
    /\ issued \in 0 .. MaxTasks
    /\ now \in 0 .. MaxTime
    /\ last \in Answers
    /\ streak \in Nat
    /\ failedAt \in Nat
    /\ forced \subseteq Id
    /\ unheard \subseteq Id

\* A step of the environment.
Nothing == [command |-> "none", exit |-> 0, started |-> FALSE]

Init ==
    /\ tasks = <<>>
    /\ corrupt = FALSE
    /\ breaker = NoFile
    /\ journal = [t \in Id |-> <<"none">>]
    /\ issued = 0
    /\ now = 0
    /\ last = Nothing
    /\ streak = 0
    /\ failedAt = 0
    /\ forced = {}
    /\ unheard = {}

\* The exit code a subcommand ends with when it started no task.
Exits(command, code) ==
    last' = [command |-> command, exit |-> code, started |-> FALSE]

\* ... and does nothing else,
OnlyAnswers(command, code) ==
    /\ Exits(command, code)
    /\ UNCHANGED <<tasks, corrupt, breaker, journal, issued, now, history>>

\* ... and the one it ends with when it did start one.
ExitsAfterStarting(command, code) ==
    last' = [command |-> command, exit |-> code, started |-> TRUE]

-----------------------------------------------------------------------------
\* AuditLogger.emit swallows an OSError, so that entries are missing.

\* How many of the latest of these entries about a task may be missing.
Losses(t, entries) ==
    IF "disk_full" \in Faults /\ t \in Lossy THEN 0 .. Len(entries) ELSE {0}

\* The last event of a task then: with all of them missing, the one before.
LastKept(before, entries, lost) ==
    IF lost < Len(entries) THEN entries[Len(entries) - lost] ELSE before

\* A subcommand journals these entries of these tasks, up to two of each.
Emits(entries) ==
    \E lost \in [DOMAIN entries -> 0 .. 2] :
        /\ \A t \in DOMAIN entries : lost[t] \in Losses(t, entries[t])
        /\ journal' = [t \in Id |->
              IF t \in DOMAIN entries
              THEN LastKept(journal[t], entries[t], lost[t]) ELSE journal[t]]
        /\ unheard' = {t \in DOMAIN entries : lost[t] > 0}
              \cup {t \in unheard : t \in DOMAIN entries => entries[t] = <<>>}

Emit(t, entries) == Emits([u \in {t} |-> entries])

\* Wrong variant, to confirm JournalExplainsStatus: gates after run_start.
StartsThenGates(gated, end) ==
    IF end = "running" THEN << <<"run_start">> >>
    ELSE << <<"run_start">>, <<"run_end", end>> >>

\* The entries about a task that is gated or executed; one that is cut short
\* ("running") has no run_end.
Entries(gated, end) ==
    IF gated THEN << <<"blocked">> >>
    ELSE IF end = "running" THEN << <<"run_start">> >>
    ELSE << <<"run_start">>, <<"run_end", end>> >>

-----------------------------------------------------------------------------
\* submit

Graph == [t \in DOMAIN tasks |-> tasks[t].depends_on]

Missing(deps) == deps \ DOMAIN tasks

\* Wrong variant, to confirm DamageIsReportedAndKept: no _assert_store_intact.
SubmitAnswersUnguarded(deps, valid) ==
    IF ~valid \/ Missing(deps) # {} THEN 2
    ELSE IF Cyclic(Graph) \/ ChainLength(deps, Graph) > MaxDepth THEN 5
    ELSE 0

\* The checks of submit_cmd in their order, with the exit code of the first
\* that fails.  `valid' stands for the validators and the unique name.
SubmitAnswers(deps, valid) ==
    IF corrupt THEN 1
    ELSE IF ~valid \/ Missing(deps) # {} THEN 2
    ELSE IF Cyclic(Graph) THEN 5
    ELSE IF ChainLength(deps, Graph) > MaxDepth THEN 5
    ELSE 0

Store(deps) ==
    /\ issued < MaxTasks
    /\ issued' = issued + 1
    /\ tasks' = [t \in DOMAIN tasks \cup {issued + 1} |->
                    IF t = issued + 1
                    THEN [status |-> "pending", depends_on |-> deps]
                    ELSE tasks[t]]

RejectSubmit ==
    \E valid \in BOOLEAN :
    \E code \in {SubmitAnswers(deps, valid) : deps \in SUBSET Id} \ {0} :
        OnlyAnswers("submit", code)

AcceptSubmit ==
    \E deps \in SUBSET Id :
        /\ SubmitAnswers(deps, TRUE) = 0
        /\ Store(deps)
        /\ corrupt' = FALSE
        /\ Emit(issued + 1, << <<"submit">> >>)
        /\ Exits("submit", 0)
        /\ UNCHANGED <<breaker, now, streak, failedAt, forced>>

\* audit.log cannot be appended to: the task is stored, the user is told that
\* submit failed, and audit.jsonl does not mention it.
SubmitLosesItsLog ==
    /\ "legacy_log" \in Faults
    /\ \E deps \in SUBSET Id :
           /\ SubmitAnswers(deps, TRUE) = 0
           /\ Store(deps)
           /\ corrupt' = FALSE
           /\ Exits("submit", 1)
           /\ UNCHANGED <<breaker, journal, now, history>>

\* _submit behind dispatch() has the validators, the name and the existence of
\* the dependencies, but neither the check for damage nor those of the graph.
LegacyReject ==
    \/ OnlyAnswers("dispatch submit", 2)
    \/ /\ \E deps \in SUBSET Id : Missing(deps) # {}
       /\ OnlyAnswers("dispatch submit", 3)

\* Its append_task() turns a damaged file into a list of one task.
LegacySubmit ==
    \E deps \in SUBSET Id :
    \E code \in {0} \cup (IF "legacy_log" \in Faults THEN {1} ELSE {}) :
        /\ Missing(deps) = {}
        /\ Store(deps)
        /\ corrupt' = FALSE
        /\ Exits("dispatch submit", code)
        /\ UNCHANGED <<breaker, journal, now, history>>

-----------------------------------------------------------------------------
\* run <id>.  _run behind dispatch() differs only in that it answers 1 for an
\* unknown id and for an exception; only there it has an entry of its own.

Admitted == Admits(FromRecord(breaker), now)

\* What allow_request() leaves in memory and run writes back at once.
Admission == AllowRequest(FromRecord(breaker), now)

\* The final outcome fed to the breaker, which only `run <id>` does, and the
\* history of such outcomes.
Fed(outcome) ==
    IF outcome = "done"
    THEN /\ breaker' = RecordSuccess(Admission)
         /\ streak' = 0
         /\ UNCHANGED failedAt
    ELSE /\ breaker' = RecordFailure(Admission, now)
         /\ streak' = IF streak > 0 /\ streak >= Threshold THEN streak
                      ELSE streak + 1
         /\ failedAt' = now

ExitOf(outcome) ==
    CASE outcome = "done" -> 0 [] outcome = "failed" -> 1
      [] outcome = "timeout" -> 4

\* find_by_id() answers None, for every id if tasks.json is damaged.
RunUnknown ==
    /\ Id \ DOMAIN tasks # {}
    /\ OnlyAnswers("run", 2) \/ OnlyAnswers("dispatch run", 1)

\* --cached finds a result younger than the TTL, whatever the breaker says;
\* 3 is the exit code of a denied run whose task was done earlier.
RunReplays ==
    /\ DOMAIN tasks # {}
    /\ \E code \in {0, 3} : OnlyAnswers("run", code)

RunDenied ==
    /\ DOMAIN tasks # {}
    /\ ~Admitted
    /\ OnlyAnswers("run", 3)

\* load_plugins() raises after the admission was written.
RunFindsNoPlugin ==
    /\ "plugin" \in Faults
    /\ DOMAIN tasks # {}
    /\ Admitted
    /\ breaker' = Admission
    /\ Exits("run", 6) \/ Exits("dispatch run", 1)
    /\ UNCHANGED <<tasks, corrupt, journal, issued, now, history>>

\* An exception ends run_with_retry between run_start and run_end: a hook
\* failed and audit.log cannot be written, before the task was touched
\* (`left' is its old status) or after its last attempt (an outcome); or the
\* subprocess cannot be started.
RunIsCutShort ==
    \E t \in DOMAIN tasks :
    \E left \in (IF "legacy_log" \in Faults
                 THEN Outcomes \cup {tasks[t].status} ELSE {})
                \cup (IF "spawn" \in Faults THEN {"running"} ELSE {}) :
        /\ Admitted
        /\ breaker' = Admission
        /\ tasks' = [tasks EXCEPT ![t].status = left]
        /\ Emit(t, Entries(FALSE, "running"))
        /\ forced' = forced \cup {t}
        /\ ExitsAfterStarting("run", 1)
        /\ UNCHANGED <<corrupt, issued, now, streak, failedAt>>

\* Every attempt of run_with_retry, to its final outcome; neither the status
\* of the task nor its dependencies are asked for.
RunExecutes ==
    \E t \in DOMAIN tasks, outcome \in Outcomes :
        /\ Admitted
        /\ tasks' = [tasks EXCEPT ![t].status = outcome]
        /\ Emit(t, Entries(FALSE, outcome))
        /\ Fed(outcome)
        /\ forced' = forced \cup {t}
        /\ ExitsAfterStarting("run", ExitOf(outcome))
        /\ UNCHANGED <<corrupt, issued, now>>

-----------------------------------------------------------------------------
\* run --all

Pending == {t \in DOMAIN tasks : tasks[t].status = "pending"}

\* Wrong variant, to confirm DoneRespectsDependencies: only an outcome other
\* than done gates, a blocked dependency does not.
UnmetOutcomes(stored, t) ==
    {d \in stored[t].depends_on \cap DOMAIN stored :
        stored[d].status \in Outcomes \ {"done"}}

\* _unmet_dependencies: a dependency without a record is satisfied.
Unmet(stored, t) ==
    {d \in stored[t].depends_on \cap DOMAIN stored : stored[d].status # "done"}

\* One layer in the pool.  Its tasks do not depend on each other, or each
\* waits for a pending one and is blocked, so that the order of its threads
\* does not matter.  A task that cannot be spawned stays "running", and the
\* main thread reports its error when the layer is through.
AfterLayer(done, layer, ends) ==
    LET gated == {t \in layer : Unmet(done.tasks, t) # {}}
        Status(t) == IF t \in gated THEN "blocked" ELSE ends[t]
    IN  IF done.raised THEN done
        ELSE [tasks   |-> [t \in DOMAIN done.tasks |->
                             IF t \in layer
                             THEN [done.tasks[t] EXCEPT !.status = Status(t)]
                             ELSE done.tasks[t]],
              entries |-> [t \in Pending |->
                             IF t \in layer THEN Entries(t \in gated, ends[t])
                             ELSE done.entries[t]],
              raised  |-> \E t \in layer : Status(t) = "running"]

\* The layers of the pending tasks, one after another; a task that is executed
\* ends as `ends' says.
AfterBatch(ends) ==
    LET layers == Layers([t \in Pending |-> tasks[t].depends_on])
        after[n \in 0 .. Len(layers)] ==
            IF n = 0 THEN [tasks |-> tasks, entries |-> [t \in Pending |-> <<>>],
                           raised |-> FALSE]
            ELSE AfterLayer(after[n - 1], layers[n], ends)
    IN  after[Len(layers)]

BatchDenied ==
    /\ ~Admitted
    /\ OnlyAnswers("run --all", 3)

\* run_all(): the breaker admits the batch and hears nothing of its outcomes,
\* failures included: neither breaker.json nor the history of runs changes.
\* A task is executed once; only `run <id>` retries.
Batch ==
    \E ends \in [Pending -> IF "spawn" \in Faults
                            THEN Outcomes \cup {"running"} ELSE Outcomes] :
        LET after == AfterBatch(ends)
        IN  /\ Admitted
            /\ breaker' = Admission
            /\ tasks' = after.tasks
            /\ Emits(after.entries)
            /\ last' = [command |-> "run --all",
                        exit |-> IF after.raised THEN 1 ELSE 0,
                        started |-> \E t \in Pending :
                            after.tasks[t].status \notin {"pending", "blocked"}]
            /\ UNCHANGED <<corrupt, issued, now, streak, failedAt, forced>>

-----------------------------------------------------------------------------
\* The other subcommands.

\* list, graph and export read the file strictly, and so does status.
StrictAnswer(code) == IF corrupt THEN 1 ELSE code

ListTasks == OnlyAnswers("list", StrictAnswer(0))

GraphOfTasks == OnlyAnswers("graph", StrictAnswer(0))

Export == OnlyAnswers("export", StrictAnswer(0))

StatusOf ==
    \E code \in {StrictAnswer(IF t \in DOMAIN tasks THEN 0 ELSE 2) : t \in Id} :
        OnlyAnswers("status", code)

\* A name that is not a module name is refused; one that cannot be imported
\* is listed as missing.
PluginsList ==
    \E code \in {0} \cup (IF "plugin" \in Faults THEN {6} ELSE {}) :
        OnlyAnswers("plugins", code)

\* Each file goes unless the OS refuses; audit.jsonl is not in the list.
Clear ==
    \E kept \in SUBSET (IF "unlink" \in Faults
                         THEN {"tasks.json", "breaker.json"} ELSE {}) :
        /\ IF "tasks.json" \in kept THEN UNCHANGED <<tasks, corrupt>>
           ELSE tasks' = <<>> /\ corrupt' = FALSE
        /\ IF "breaker.json" \in kept THEN UNCHANGED <<breaker, streak>>
           ELSE breaker' = NoFile /\ streak' = 0
        /\ Exits("clear", 0)
        /\ UNCHANGED <<journal, issued, now, failedAt, forced, unheard>>

-----------------------------------------------------------------------------
\* The environment.

Tick ==
    /\ now < MaxTime
    /\ now' = now + 1
    /\ last' = Nothing
    /\ UNCHANGED <<tasks, corrupt, breaker, journal, issued, history>>

\* tasks.json is overwritten with something that is not a task list.
Damage ==
    /\ "damage" \in Faults
    /\ tasks' = <<>>
    /\ corrupt' = TRUE
    /\ last' = Nothing
    /\ UNCHANGED <<breaker, journal, issued, now, history>>

\* An editor closes a ring of two pending tasks.
EditRing ==
    /\ "edit" \in Faults
    /\ \E s, t \in Pending :
           /\ s < t
           /\ tasks' = [tasks EXCEPT ![s].depends_on = @ \cup {t},
                                     ![t].depends_on = @ \cup {s}]
    /\ last' = Nothing
    /\ UNCHANGED <<corrupt, breaker, journal, issued, now, history>>

Next ==
    \/ RejectSubmit \/ AcceptSubmit \/ SubmitLosesItsLog
    \/ LegacyReject \/ LegacySubmit
    \/ RunUnknown \/ RunReplays \/ RunDenied \/ RunFindsNoPlugin
    \/ RunIsCutShort \/ RunExecutes
    \/ BatchDenied \/ Batch
    \/ ListTasks \/ GraphOfTasks \/ Export \/ StatusOf \/ PluginsList
    \/ Clear
    \/ Tick \/ Damage \/ EditRing

Spec == Init /\ [][Next]_vars

-----------------------------------------------------------------------------
(* A damaged tasks.json is reported with exit 1 by submit, status, list,
   graph and export, and stays as it is until clear removes it; only the old
   dispatch() entry overwrites it.  (_assert_store_intact: the damaged file
   is evidence and must not be rebuilt silently.) *)
DamageIsReportedAndKept ==
    [][corrupt =>
         /\ last'.command \in {"submit", "status", "list", "graph", "export"}
              => last'.exit = 1
         /\ last'.command \notin {"clear", "dispatch submit"} => corrupt']_vars

\* Enough failed runs in a row, the last of them a moment ago.
Stopped == streak > 0 /\ streak >= Threshold /\ now - failedAt < Cooldown

(* After Threshold final failures in a row that `run <id>` told the breaker,
   with no success of `run <id>` and no removal of breaker.json in between, no
   subcommand starts a task before the cooldown is over, whatever batches,
   replays, runs cut short and submits come in between; and run --all is denied
   for no other reason.  (FR-03: while OPEN every run is refused.)  The
   outcomes of batches do not count: BatchFailuresCount, below. *)
FailedRunsStopTheQueue ==
    [][/\ Stopped => ~last'.started
       /\ last'.command = "run --all" /\ last'.exit = 3 => Stopped]_vars

(* A done task that only batches executed has no stored dependency that is
   not done, unless `run <id>` executed that dependency: no order of submits,
   batches, clears and edits gets a task past its dependencies.  (FR-06.) *)
DoneRespectsDependencies ==
    \A t \in DOMAIN tasks \ forced :
        tasks[t].status = "done" =>
            \A d \in tasks[t].depends_on \cap DOMAIN tasks :
                tasks[d].status = "done" \/ d \in forced

\* After no event or submit a task is pending, after blocked blocked, after
\* run_end it has the outcome the event names; only after a bare run_start,
\* that of a run cut short, the journal leaves the status open.
Explains(event, record) ==
    /\ event \in {<<"none">>, <<"submit">>} => record.status = "pending"
    /\ event = <<"blocked">> => record.status = "blocked"
    /\ \A s \in Outcomes : event = <<"run_end", s>> => record.status = s

(* What audit.jsonl says last of a stored task agrees with its record, unless
   the latest entry about that task was lost: a failed append misleads about
   no other task, and about its own only until the next entry that is kept,
   whichever entries were lost before that.  (FR-08; emit is best effort.) *)
JournalExplainsStatus ==
    \A t \in DOMAIN tasks \ unheard : Explains(journal[t], tasks[t])

(* SPEC.md:92 and :169 have every submit, run and block write its event.
   Not kept by the code: see "Disagreements" in the README. *)
JournalAlwaysExplains ==
    \A t \in DOMAIN tasks : Explains(journal[t], tasks[t])

(* SPEC.md:112 counts final failures across tasks, and :146 exempts blocked
   ones only: a batch that ends with Threshold failures and no success has to
   stop the queue.
   Not kept by the code: see "Disagreements" in the README. *)
BatchFailuresCount ==
    [][LET Ended(s) == {t \in Pending : tasks'[t].status = s}
       IN  /\ last'.command = "run --all" /\ last'.started
           /\ Ended("done") = {}
           /\ Cardinality(Ended("failed") \cup Ended("timeout")) >= Threshold
           => ~Admitted']_vars

(* SPEC.md:392 has a damaged tasks.json end every subcommand with exit 1.
   Not kept by the code: see "Disagreements" in the README. *)
DamageEndsEveryCommand ==
    [][corrupt /\ last'.command \in {"run", "run --all"} => last'.exit = 1]_vars
=============================================================================
