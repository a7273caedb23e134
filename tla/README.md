# taskq-plus in TLA+

taskq-plus is a command-line task queue. Every command (`submit`, `run`,
`run --all`, `clear`, `status`, `list`, `graph`, `export`, `plugins list`) is a
process of its own; the processes share nothing but files under `$TASKQ_HOME`.
This directory models the code in `src/03-development/src/taskq_plus`
(4043 lines; paths below are relative to it) and checks the models with TLC. With
TLAPS it proves, for every value of the constants, each invariant, each action
property and each refinement that the runs check, except for liveness and for
the text formats (section 5).

The hard part of this program is not any single function. It is that several
processes and threads read, change and replace whole JSON files. ADR-004
(`src/02-architecture/adr/ADR.md:253`) calls concurrency between processes "out
of scope"; the docstrings and SPEC.md nevertheless promise things about it. The
models interleave processes, and say for each promise whether it is kept always,
kept when commands do not overlap, or not kept. One model (`CommandLine`) goes
the other way: commands do not overlap, but everything they do to each other
through the files is there at once.

## 1. Inventory

| Part | State | Operations | Shared with |
|---|---|---|---|
| Circuit breaker: `service/breaker.py`, `storage/breaker_store.py` | `breaker.json` (state, failure_count, opened_at), one private copy per process | `allow_request`, `record_failure`, `record_success`, read, write | every `run` and `run --all` |
| Task store: `storage/task_store.py` | `tasks.json`, lock file `tasks.json.lock` | `append_task` (flock), `load_tasks`, `save_tasks`, `find_by_*` | all commands |
| Executor: `service/executor.py` | thread pool, `_store_lock`, retry counter | `execute_task`, `_set_status`, `run`, `run_all`, `run_with_retry` | store, breaker, journal |
| Result cache: `service/cache.py`, `storage/cache_store.py` | `cache.json` keyed by command hash | lookup (TTL), replay, write an entry | every `run --cached` and every successful `run` |
| Dependency graph: `service/dag.py` | none (pure) | layers, cycle search, ancestors, chain length, depth check | `submit`, `run --all`, `graph` |
| Plug-ins: `service/plugins.py` | strike counter per plug-in and process | load the allowlist, `dispatch` a hook | `run <id>` |
| Audit journal: `observability/audit.py` and the older `_emit_audit` of `cli/commands.py` | `audit.jsonl`, `audit.log` | append, read by correlation id | all commands |
| CLI: `cli/commands.py`, `cli/main.py`, `__main__.py` | none | the handlers, exit codes, rendering, and the older `_submit` and `_run` behind `dispatch()` | everything |
| Submission model: `models/` | none | validation, `generate_task_id`, error classes | `submit` |
| Export: `observability/export.py` | none (pure) | normalise and redact; json, csv and md writers | `export` |
| Atomic file helpers: `storage/atomic.py` | the file, temporary files | temp file and replace, read | nobody: the three stores carry copies |
| Settings: `config.py` | none | `load_settings` | nobody calls it |

Left aside: tests, the gate and harness tooling (`harness_cli.py`, `.methodology`),
and the project documents, which are not part of the program.

**How the parts interact.** `submit` validates against several separate reads of
`tasks.json` and then appends under the flock. `run <id>` goes through the cache
(`execute_with_cache`), the breaker (`run_with_retry`), plug-in hooks, attempts
(`run` -> `execute_task` -> `_set_status` twice around `subprocess.run`), the
journal, and back to the cache. `run --all` is admitted by the breaker and then
drives layers of tasks through a thread pool. `clear` unlinks the files of all
of them, lock file included.

**What is hard.** Reads that are older than the write they lead to (breaker copy,
status merge, cache rewrite, dependency checks); a lock that is local to a
process guarding a file that is not; a lock file that is unlinked; exceptions
and kills between two writes; worker threads and layer barriers; retries and
strike counters; truncated seconds at a TTL boundary; in-degree counting with
repeated dependencies; a damaged `tasks.json` that every subcommand has to notice
for itself; journal events around a status that changes; texts with characters
that one format reserves. PROJECT.json lists them at their lines.

**What makes each part correct.**

- Breaker: opens after `Threshold` final failures of runs, never earlier; recovers after
  the cooldown through a trial; never invents failures.
- Store: accepted tasks stay; ids are unique; dependencies point to earlier
  tasks and hence never form a ring; `done` means that a subprocess exited 0.
- Store file: readers see whole documents; the file behaves as one register; a
  writer leaves no temporary file unless it was killed.
- Batch: dependency order, each task at most once, outcomes stored, and it ends.
- Run and cache: exit 0 is earned; a replay is fresh; the cache holds successes.
- Graph: layers, cycles, ancestors and depth agree with their definitions.
- Plug-ins and journal: hooks are isolated and their failures recorded; the
  journal leads the execution; run_end reports the outcome of the attempt.
- Formats: csv and md give back the tasks, the journal its entries; no secret is
  left in any of them.
- Session: failed runs stop the queue, damage is reported and kept, the dependency
  gate agrees with the records, and so does the journal but for entries it lost.

## 2. Modules

| Module | Models | Composes / implements |
|---|---|---|
| `Breaker` | the breaker record and its transitions, as operators | |
| `GuardedRuns` | the processes that read, decide on, and write back `breaker.json` | EXTENDS `Breaker` |
| `BreakerPromise` | abstract breaker: one record, whole transitions | implemented by `GuardedRuns` without overlap |
| `Dag` | reference definitions for dependency graphs | |
| `DagAlgorithms` | the loops of `service/dag.py`, each as a start and a step | checked and proved against `Dag` |
| `StoreFile` | one JSON file: `mkstemp`, dump, `os.replace`, unlink, and the readers, call by call | |
| `StoreRegister` | abstract file: read and written in one step | implemented by `StoreFile` |
| `TaskStore` | `tasks.json`, its flock and inode, submitters, runners, clearers | EXTENDS `Dag` |
| `TaskLedger` | abstract store: an append-only list of admitted tasks | implemented by `TaskStore` with submits only |
| `BatchRun` | `run --all`: main thread, layers, pool, `_store_lock`, kill and restart | EXTENDS `Dag` |
| `BatchPromise` | abstract batch: a task starts when its dependencies are done, is blocked when one ended otherwise | implemented by `BatchRun` |
| `TaskRun` | `run <id> [--cached]` end to end with cache, attempts and `clear` | |
| `RunJournal` | plug-in dispatch and audit entries of `run <id>` | |
| `TextFormats` | export documents, redaction, the journal's lines, and the readers | |
| `CommandLine` | all subcommands one after another over one `$TASKQ_HOME`: exit codes, breaker, records, journal, damage | EXTENDS `Breaker` and `Dag` |
| `MC...` | instances and symmetry sets for TLC; `MCPureFunctions` puts questions to `DagAlgorithms` and `TextFormats` | |
| `GuardedRunsProofs`, `TaskStoreProofs`, `StoreFileProofs`, `BatchRunProofs`, `TaskRunProofs`, `RunJournalProofs`, `CommandLineProofs` | theorems | EXTEND their component |
| `DagProofs` | theorems about the operators of `Dag` and the loops of `DagAlgorithms`, two principles of induction | EXTENDS `DagAlgorithms`; used by the proofs of `TaskStore`, `BatchRun` and `CommandLine` |

Definitions carry the names of the code. A step of a model is what the code does
between two points where another process or thread can interfere: one read of a
file, one `os.replace`, one lock operation, one `subprocess.run`. In each module
`pc[p]` names the next statement of process or worker `p`, and the records `mem`,
`job`, `blob`, `base`, `loaded` are its local variables. Variables that exist
only for a property are marked "history".

The loops of `DagAlgorithms` are not actions: nothing can interfere with them. Each
is a record of the loop's variables at the start, a step that is one iteration
(for `detect_cycle` one turn of the loop over the ids, one dependency looked at, or
one return of the nested `visit`, whose calls are the stack), and the function
from the number of steps to the record then. A loop that is over stays where it
is, and the result is read after a number of steps that depends on the input only.

Operators commented "Wrong variant, to confirm X" are deliberately wrong versions
of the definition after them. Nothing uses them. PROJECT.json says which
definition each replaces; with the replacement, TLC must find X violated.

### Abstractions

- **Files** are read and replaced in one step everywhere but in `StoreFile`, which
  models the calls of the file system and shows that they implement just that
  (`StoreKeepsTheRegister`). A `tasks.json` that is no task list, which the
  program never produces, is a state of `CommandLine` only.
- **Ids** are numbers in the order in which `generate_task_id` issues them. The
  code takes the first eight hex digits of a uuid4 and does not test for a
  collision; the models assume there is none, and so does `IdsAreUnique`.
- **Time** never steps backwards. `GuardedRuns` counts in the unit of the
  cooldown; `TaskRun` in fractions of a second, since `cached_at` is truncated.
- **depends_on** is a set in `TaskStore` and `BatchRun` and a list, repetitions
  included, in `DagAlgorithms`, the only place where repetition matters.
- **Commands, names, output** are model values; text validation is left out. In
  `TextFormats` a text is a sequence of characters, of which only those are told
  apart that a writer or reader treats specially.
- In `CommandLine` a subcommand is one step. What happens inside is the subject
  of the other modules; their effects are taken over whole: which status a task
  has after a run that is cut short, which entries the journal gets and how many of
  the latest are lost, what the breaker file holds. `run --cached` may replay whenever there is a task,
  with any code the cache can hold.
- In `TaskRun` and `RunJournal` the breaker may deny or admit at any time
  (superset of what `GuardedRuns` allows) and a status merge is one step (its
  two halves are the subject of `TaskStore`). `TaskRun` starts from stored,
  pending tasks.
- `BatchRun` is one process at a time; other writers of `tasks.json` are in
  `TaskStore`.
- Knobs are constants, so no default matters. (They do not agree: the unused
  `config.py` has retry 0, threshold 5, cooldown 30 s; the code that reads the
  environment has 2, 3 and 5 s. SPEC.md and code also differ on the task timeout,
  the cache TTL and `$TASKQ_HOME`.)

## 3. What is checked

| Run | Instance | Shows | States |
|---|---|---|---|
| `GuardedRuns_concurrent` | 2 processes, both entries, all faults, `clear`, 4 runs, time 0..3 | types; counts are real failures; records are sound: OPEN is earned, CLOSED is below the threshold, no stamp in the future | 81 000 |
| `GuardedRuns_serial` | 1 process, 6 runs, threshold 2, cooldown 2 | `breaker.json` implements `BreakerPromise`; failures are consecutive | 11 000 |
| `TaskStore_submits` | 2 submitters, 3 submits, depth cap 2, audit errors, kills | append is exclusive; accepted tasks stay; refinement of `TaskLedger`; every command returns | 49 000 |
| `TaskStore_mixed` | 2 submitters, a runner, a clearer, kills | types; dependencies precede; ids are unique; done is earned | 49 000 |
| `TaskStore_lost` | 2 submitters, a runner | **violated**: a status merge drops an accepted task | |
| `StoreFile_writes` | 3 processes, 4 inodes, 2 documents, `clear`, kills, every call may fail | files are sound (one owner per temporary file, nobody writes to the live file, readers are safe); leftovers come from kills; refinement of `StoreRegister`; no deadlock | 56 000 |
| `BatchRun_batch` | all acyclic graphs over 3 tasks and 1 missing id, 2 workers, kill and restart | types; outcomes stored, and all of them when run_all returns; each task spawned once; refinement of `BatchPromise`; a batch ends | 664 000 |
| `BatchRun_spawn` | 2 tasks, 1 worker, spawn errors | **violated**: a command that cannot start leaves tasks unsettled | |
| `TaskRun_runs` | 2 processes, 3 tasks of which 2 share a command, 3 runs, half-second ticks, 1 retry, `clear`, faults | types; exit 0 is earned; cache entries are sound; replays are fresh | 4 350 000 |
| `RunJournal_faults` | 1 invocation, 3 plug-ins, 2 retries, all five faults | entries are true (failures reported, run_end tells the outcome); journal leads execution; hooks isolated; started runs end | 166 000 |
| `PureFunctions_all` | all lists of 3 ids with up to 2 dependencies each in every visiting order; all records and journals of short texts | layers, cycles, ancestors, length agree with `Dag` and the paths of the graph; formats agree; the journal reads back | 444 000 |
| `CommandLine_session` | 3 ids, threshold 2, cooldown 1, depth cap 2, all seven faults, lost entries for one id | types; dependencies are respected; the journal explains the status where the latest entry was not lost; damage is reported and kept; failed runs stop the queue; no deadlock | 697 000 |

### Why the bounds are enough

- Every interference in the code is between two parties: a process that holds a
  stale copy and one that writes. Two processes show it. The third submit lets
  one slip in before and one after another's critical section, and makes a chain
  longer than the depth cap.
- Threshold 2 separates "one failure" from "enough failures". Six serial runs
  are a trip, a denial, a failed trial, a successful trial and a run either side.
- Three tasks make chains, forks, joins and two independent tasks; two workers
  exceed the width of a layer and fall short of it; the id without a record shows
  that unknown dependencies do not gate. A second batch after a kill starts from
  any mix of stored statuses the first can leave.
- Half-second ticks are the coarsest clock on which `int(time.time())` and
  `time.time()` differ; three of them pass a TTL of one second by a tick.
- `StoreFile` needs two writers and a reader at the same time, an inode for each
  and one for the live file; with `MaxLeft` a leftover may take one of them.
- One retry more than zero shows that attempts are counted (`TaskRun`);
  `RunJournal_faults` takes two so that the number of retry entries can differ
  from one, and three plug-ins so that one can follow and one precede a failure.
- `CommandLine` needs three ids for a chain whose middle is blocked, aborted,
  cleared or forced; one tick passes the cooldown of 1. The commands are
  unlimited: the state space is finite without a bound on their number. Its
  VIEW `Readable` leaves out what no later step and no property can read (a
  stamp of a breaker that is not open, the last failure below the threshold, the
  journal of ids that are not stored or whose latest entry was lost). Of `last` it
  keeps whether it has its type, so that `TypeOK` is evaluated on every answer;
  the action properties read `last'` on every transition, also into a known
  state. An append to `audit.jsonl` can fail for any id; `Lossy` bounds this to
  the id in the middle of the chain, since no command reads the journal and a
  lost entry about one task cannot bear on another. The theorem has no such bound.
- `MaxRuns`, `MaxSubmits`, `MaxOps`, `MaxBatches`, `MaxTasks`, `MaxTime`, `Inode`
  and `MaxLeft` are the bounds on otherwise endless behaviour; they occur only in
  guards. `RetryLimit` and `MaxDepth` are knobs of the program.

Deadlock is checked in `StoreFile_writes` and `CommandLine_session`, where
something can always happen. In the others a behaviour ends when all commands
have returned and the bounds are used up; that nobody waits forever is stated by
the liveness properties `EveryCommandReturns`, `BatchEnds` and `StartedRunsEnd`.
Symmetry is used only in runs without liveness properties.

### Fairness

Each live process or thread keeps executing its statements (weak fairness of its
progress actions: the operating system schedules it). A subprocess ends, because
`subprocess.run` is called with a timeout. `flock` and `_store_lock` are granted
to a waiter that remains enabled. Faults, kills, new commands, `clear` and the
clock are never fair. In `TaskStore` and `RunJournal` a kill ends the process like
a return does. `TaskStore` needs no strong fairness,
since each bounded instance has finitely many lock acquisitions: it shows that
nobody keeps the lock, not that flock is starvation free.

## 4. Disagreements

The code does not keep the following promises. The first two have a run that
shows them. For the others the property is stated in the module, without a run
of its own; the instance given violates it.

1. `storage/task_store.py:141` says that concurrent writers cannot discard each
   other's records. `_set_status` (`service/executor.py:146`) does not take the
   flock: load, then another process appends, then save drops the task.
   (`TaskStore_lost`, `AcceptedIsStored`.) `ReportedStatusStays` fails for the
   same reason with two runners.
2. `run_all` says "execute every pending task" (`service/executor.py:427`). When
   `subprocess.run` raises (no such executable), the task stays `running`,
   `fut.result()` raises, and later layers stay `pending`.
   (`BatchRun_spawn`, `BatchSettlesEverything`.)
3. `allow_request` says "exactly one trial call" (`service/breaker.py:122`). Two
   processes that both read OPEN after the cooldown, or one that reads
   HALF_OPEN, are both admitted. `SingleTrial`: 2 processes, mode single,
   threshold 1, cooldown 1, 3 runs.
4. The breaker table (`service/breaker.py:58-62`) leaves OPEN only through the
   trial and counts consecutive failures. A run that was admitted before the trip
   writes its stale copy back (`service/executor.py:625`): OPEN becomes CLOSED
   without cooldown (`OpenIsLeftOnlyThroughTrial`, same instance), or failures
   come back that a success had cleared (`OpenNeedsConsecutiveFailures`:
   2 processes, threshold 2, 4 runs). Both hold in `GuardedRuns_serial`, the
   former as a consequence of the refinement.
5. SPEC.md:114 resolves the trial to CLOSED or OPEN. `run_all` admits itself as
   the trial and never records an outcome, and a plug-in load error returns
   before one. `TrialIsResolved`: 1 process, modes single and batch, threshold 1.
6. `clear` unlinks `tasks.json.lock` (`cli/commands.py:533`). A submit that holds
   the old inode and one that creates a new one are both in the critical section.
   `AppendIsExclusive`: 2 submitters and a clearer.
7. SPEC.md:83 keeps active names unique. `submit` tests the name before it takes
   the lock. `ActiveNamesAreUnique`: 2 submitters, 1 name.
8. A run that the breaker denies caches the `done` record of an earlier run with
   exit code 3 (`service/cache.py:261`), which later replays answer until the TTL
   is over. `CacheIsSound` therefore allows exit 3 and fails without it.
9. `service/cache.py:192` says that concurrent writers do not lose entries; the
   lock is a `threading.Lock`. `CacheIsSound` is about runs that do not overlap,
   and fails without that condition (2 processes).
10. SPEC.md:120 marks the task done on a cache hit. A task that shares its command
    with one that was executed stays pending. `HitMarksTaskDone`: 2 tasks with
    the same command.
11. SPEC.md:159: a plug-in exception must not stop the task. If `audit.log`
    cannot be written at that moment, it does (`service/executor.py:195`).
    `PluginsNeverStopTheRun`: fault legacy_log.
12. SPEC.md:169 and `observability/audit.py:55` list the event `cache_hit`; nothing
    emits it, nor `breaker_close`. `AnswersAreJournalled`: replay allowed.
13. `run_end` "records the final outcome" (`service/executor.py:611`), but the
    status is read back from the store: with two runs of one task it may be the
    other run's. `RunEndTellsTheOutcome`: 2 processes.
14. Three strikes disable a plug-in (SPEC.md:159, "consecutive"), but the counter
    lives in one process, which dispatches at most two hooks: the limit is out of
    reach, as `TypeOK` of `RunJournal` confirms (strikes stay below three).
15. SPEC.md:392 has a damaged `tasks.json` answered with exit 1. `run <id>` reads
    with `load_tasks` and answers 2 (no such task), `run --all` answers 0.
    `DamageEndsEveryCommand`: fault damage.
16. "tasks.json is corrupt" (`cli/commands.py:162`) is also answered for a file
    that `clear` removed between `exists()` and `open()`. `UnreadableNever`:
    1 reader, `MayClear`.
17. The older `_submit` behind `dispatch()` (`cli/commands.py:700`) overwrites a
    damaged `tasks.json` and checks neither rings nor depth.
    `DamageIsReportedAndKept` excepts it by name and fails without the exception.
18. SPEC.md:113 refuses every run while the breaker is OPEN. A replay is not
    asked for (`service/cache.py:244` comes before the breaker): `FailedRunsStopTheQueue`
    is about tasks that are started.
19. SPEC.md:416 wants as many tasks in the md export as in the others. A line
    break in a name splits a row and a bar moves cells
    (`observability/export.py:125`). `FormatsAlwaysAgree`: one task.
20. `read_entries` (`observability/audit.py:226`) splits at U+2028, U+2029 and
    U+0085, which `json.dumps(..., ensure_ascii=False)` leaves in the line, and at
    the end of a torn line; it then raises for the whole journal.
    `JournalStaysReadable`: one entry.
21. SPEC.md:390 wants exit 6 for a plug-in module that does not exist;
    `plugins list` lists it as missing and answers 0, and only `run` answers 6.
22. SPEC.md:112 counts final failures across tasks and processes, and SPEC.md:146
    and `service/executor.py:389` exempt blocked tasks only. `run_all` drops the
    results of its futures (`service/executor.py:474`) and never feeds the
    breaker, so any number of final failures in batches leaves the queue running.
    Nor does a run by id feed it that is cut short after its last attempt.
    `BatchFailuresCount`: two tasks that fail in one batch, threshold 2.
    `FailedRunsStopTheQueue` is about the failures that `run <id>` reports.
23. SPEC.md:108 retries a `run` that ends `failed` or `timeout`. Only `run <id>`
    does; `run --all` calls `execute_task` once for each task
    (`service/executor.py:414`). `SpawnedOnce` of `BatchRun`, which the code
    keeps, says just that.
24. SPEC.md:92 and :169 have every submit, run and block write its event, and
    SPEC.md:208 has every `except` re-raise, translate, or log and exit. `emit`
    swallows an `OSError` (`observability/audit.py:209`, "best-effort"), so that
    the journal may say `submit` of a task that is done. `JournalAlwaysExplains`: one task, fault
    disk_full. `JournalExplainsStatus` is about tasks whose latest entry was kept.

## 5. What is proved

The theorems hold for all values of the constants that satisfy the named
assumptions (types of the knobs; disjoint sets of processes; finitely many
submitters and tasks): any number of processes, workers, plug-ins, tasks and
retries, any threshold, cooldown, TTL and clock resolution, any bounds. A theorem
with a further hypothesis says so below, with the disagreement of section 4 that
makes the hypothesis necessary. Each invariant was checked by TLC on the instance
of the run before it was proved.

| Run | Proved of its properties | Left to TLC |
|---|---|---|
| `GuardedRuns_concurrent` | all | |
| `GuardedRuns_serial` | all, with one process; the refinement without `clear` | |
| `TaskStore_submits` | all but liveness, with submits only | `EveryCommandReturns` |
| `TaskStore_mixed` | all | |
| `StoreFile_writes` | all | |
| `BatchRun_batch` | all but liveness | `BatchEnds` |
| `TaskRun_runs` | all | |
| `RunJournal_faults` | all but liveness; `EntriesAreTrue` with one process | `StartedRunsEnd` |
| `CommandLine_session` | all | |
| `PureFunctions_all` | what `LayersAreOrdered`, `CycleIsGenuine` and `AncestorsAreClosure` say of an answer, for every list; `LengthIsLongestPath` as `ChainLengthIsLongest` | `FormatsAgree`, `JournalReadsBack` |

**Breaker** (`GuardedRunsProofs`). `TypeCorrect` is inductive as it stands.
`CountsCorrect` and `RecordsCorrect` follow from `AllSound`: the file *and every
private copy* is `Sound` for the failures and the time so far. A claim about the
file alone is not inductive, because the next write may put an arbitrarily old
copy there; soundness is monotone in failures and time (`SoundIsMonotone`),
which is why old copies do no harm to these properties. One lemma per operator
of `Breaker` (`AllowIsSound`, `SuccessIsSound`, `FailureIsSound`) carries the step.

Two properties need runs that do not overlap (`Serial`: one process; disagreement
4). `OpenNeedsConsecutiveFailuresCorrect` follows from `StreakInv`: file and copy
are backed by the failures since the last success, a copy about to be written by
one more. `SerialRunsKeepThePromiseCorrect` is the refinement of `BreakerPromise`;
its invariant `CopyInv` says at every step of a run how the copy relates to the
file: equal, equal up to the admission just granted, or one outcome ahead. With
it every write is a transition of the promise and every other step a stutter.
`~MayClear` is assumed because the promise has no way to forget. That OPEN is left
only through the trial (`SerialOpenIsLeftOnlyThroughTrial`) is read off the
promise.

**Store** (`TaskStoreProofs`). `TypeCorrect` needs three companions (`Typed`): ids
stay in range because every id belongs to a started submit (`IdBudget`, by
cardinality of the submitters that have none yet), processes that work on a task
have an id (`HasId`), and results are outcomes (`SavesResult`).

- `DependenciesPrecedeCorrect` and `IdsAreUniqueCorrect` follow from `Numbered`:
  the file and every loaded list are well formed, every dependency already looked
  up was issued, and an id on its way to the file is in no list at all. Stale
  saves, clears and kills are all covered.
- `DoneIsEarnedCorrect` follows from `Earned`, which again speaks of the loaded
  lists too.
- `AppendIsExclusiveCorrect` assumes `Clearer = {}` and follows from `OneLock`:
  all waiters hold the one inode, and the holders of the lock are exactly those
  between load and save. With a clearer it is false (disagreement 6).
- `AcceptedIsStoredCorrect` assumes `Clearer = {}` and `Runner = {}` and follows
  from `OneLock` and `Kept`: a list about to be saved is the file. With a runner
  it is false (disagreement 1).
- `SubmitsAppendToTheLedgerCorrect` is the refinement of `TaskLedger` under the
  same hypotheses. The ledger tests a task against the list it is appended to;
  `submit` tests it before it takes the lock, against older lists. `Accountable`
  says that the answers stay true: dependencies that were found are still
  listed, and the depth that was measured has not changed. The latter is
  `ChainLengthStable`, below: appending closed, well-numbered records leaves the
  chain length of what was there alone.

**Files** (`StoreFileProofs`). `FilesStaySound` and `LeftoversAreExplained` are
inductive together. `FilesAreSound` says whose an inode is: temporary files have
one owner each, the name of the store is on none of them, an owner past its dump
has the whole document there, and what a reader has opened was complete and is
never written again. `FileIsARegister` is the refinement: under that invariant
`os.replace` is the register's write, a reader's load its read (of the value the
file had when it was opened), the unlink its removal, and every other step a
stutter. This is the theorem that lets the other modules take files as variables.

**Batch** (`BatchRunProofs`). One inductive invariant, `Inv`, carries all
theorems. Its parts: each busy worker owns one running future and no two the same
(`OwnerInv`); between load and save of `_set_status` a worker holds `_store_lock`
and what it loaded is what is on disk (`LockInv`); the status of a worker's task
follows from where the worker is (`ProgressInv`); what has been spawned and what a
completed future says (`HistoryInv`); which futures can be under way at each step
of the main thread (`MainInv`); the layers still to come are untouched, disjoint
and in dependency order, and with the pool they cover everything pending
(`PlanInv`); nothing a task in the pool depends on can still change (`DepInv`); and
what a worker concluded from its look-ups, one read each, is still so when it acts
on it (`GateInv`). `DepInv` is what makes the separate look-ups harmless, and it
rests on the layers being a topological order (`LayersPartition`).
`SpawnedOnceCorrect` and `OutcomeIsStoredCorrect` are read off `Inv`;
`BatchKeepsThePromiseCorrect` maps a save of "running", an outcome or "blocked" to
a start, end or block of the promise, and everything else to a stutter.

**Graph** (`DagProofs`). The values of a recursive definition are reached by
induction over a bounded set, not by a rule with an operator parameter: a
nonempty finite set of finite sets has a smallest member (`SmallestSubset`), and a
set of numbers that contains 0 and with k also k + 1 contains the bound
(`CountingUp`). With the first, `Peeling` exists as the function its equation
describes, and `LayersPartition` says that the layers of every finite graph hold
each id exactly once and, if it has no ring, after everything it depends on. The
converse holds too (`CyclicExactlyWhenStuck`): the layers are in dependency order
exactly when there is no ring, so what `submit` refuses is what a batch could not
order. `LengthOf` is a recursion along dependencies; without a ring, the layer in
which an id is peeled is a number that grows along them (`AcyclicRanks`), and with
the second principle `LengthOf` exists on every finite list without a ring and
depends on what can be reached only (`MeasuresAgree`); hence `ChainLengthStable`.
On such lists, the only ones for which `submit` gets past `detect_cycle`, the depth
that is compared with the cap is one more than a longest chain up from a
dependency, neither more nor less (`ChainLengthIsLongest`). That `submit` may
search the list without the new task is `FreshTaskClosesNoRing`; it needs the id
to be fresh.

The loops are recursions over the number of steps (`Iterates`). For each the
proof has three parts: an invariant of the states (`KahnStates`, `WalkStates`,
`DfsStates`), one lemma per kind of step that it is kept, and a number that every
step moves, from which it follows that the steps granted are enough, i.e. that
the code's loop ends.

- `TopologicalLayersCorrect`: in every round the in-degree of an id that remains is
  the number of its mentions of ids that remain, repetitions counted, so that the
  ids of in-degree 0 are those that `Peeling` peels (`OccurrencesCount`), and the
  layers so far with what `Peeling` returns for the rest are `Layers`. A round
  that is not the last empties at least one id.
- `AncestorTasksCorrect`: what has been met, seen or on the frontier, contains the
  dependencies asked for, all that a seen task depends on, and nothing outside a
  set closed upwards. A step takes one id off the frontier and adds the list of a
  task only when it meets the task for the first time (`WalkPops`), ring or not.
- `DetectCycleCorrect`: the grey ids are the stack, each once (`GreyOnStack`); each
  id on the stack depends on the next (`StackIsPath`), so that a grey dependency
  closes a ring (`RingClosed`); what a call has looked at is black or the next call
  (`LookedAt`), so that a call that returns has black dependencies only
  (`Returned`); black ids depend on black ids and hold no ring (`BlackClosed`,
  `NoBlackRing`). Every step goes past one root or one place in a list
  (`OneMorePast`). When the search ends without a path all ids are black. The
  order in which the set `known_ids` is visited is arbitrary.

With these, `Layers`, `Cyclic` and `ChainLength`, which `BatchRun`, `TaskStore` and
`CommandLine` use, stand for what the code computes on every list, not just on the
small ones that TLC enumerates. The operators in the conclusions (`LayersAnswer`,
`CycleAnswer`, `AncestorsAnswer`) are those of the invariants of
`MCPureFunctions`, which ask the same of a stored answer.

**Run and cache** (`TaskRunProofs`). `ZeroIsEarnedCorrect`: every entry with exit
0, on disk *or in a stale copy about to be written*, and every answer 0 belongs to
a command that succeeded (`EarnedInv`); runs may overlap. `ReplaysAreFreshCorrect`:
an entry's truncated stamp is never later than the second in which it was
written (`StampsInv`), hence a replay admitted by the TTL is fresh on the full
clock. `CacheIsSoundCorrect` is an invariant with history: `CacheInv` says that
as long as no commands have overlapped at most one runs, and at each of its steps
its exit code, the stored status and its copy of the cache fit together (`SoloInv`);
the property itself carries the same condition (disagreement 9).

**Journal and plug-ins** (`RunJournalProofs`). The type invariant is
not inductive: that strikes stay below three follows from `Control`, which bounds them by the
position in the dispatch loop. `JournalLeadsExecutionCorrect` counts by how many
entries the journal is ahead at each step (`LeadInv`); `HooksAreIsolatedCorrect`
says that the calls of a hook are exactly those of the plug-ins before the next
one (`CalledInv`) and that run_end is written once (`EndedInv`);
`FailuresAreReportedCorrect` that what a dispatch has raised and not yet
journalled is what it still holds (`ReportedInv`). `EntriesAreTrueCorrect` adds
that status and exit code stem from one attempt until run_end (`TellingInv`), and
assumes one process: with two it is false (disagreement 13).

**Session** (`CommandLineProofs`). `DamageIsEvidence` follows from the guards of
each subcommand, one case each. `QueueIsStopped` needs an invariant: the breaker
file and the failures that `run <id>` told it so far tell the same story
(`TellsTheStreak`): a CLOSED
record counts the failures in a row and is below the threshold, another state
means that the threshold was reached, OPEN remembers when the last failure was,
and HALF_OPEN that the cooldown has passed since. `AdmissionTells`,
`FailureTells` and `SuccessTells` carry it over the operators of `Breaker`;
`StoppedIsDenied` reads the property off it. Batches that leave HALF_OPEN behind,
runs cut short and `clear` are cases of the step.

`DoneRespectsDependenciesCorrect` and `JournalExplainsStatusCorrect` follow from
`StoreInv`, which adds that nobody depends on, and no journal line is about, an id
that has yet to be issued. Appends may fail in any pattern: `EmitsTell` says what a
subcommand leaves in the journal then, and `EntriesTell` that the last entry it
meant to write explains the record; where that one was lost (`unheard`) nothing is
claimed, and nothing could be (disagreement 24). A whole `run --all` is one step of `CommandLine`, a
recursion over its layers that collects the entries: `BatchInv` holds after n layers, for n from 0 to their
number (`LayerKeepsBatch`, `CountingUp`), and `BatchKeepsStore` reads `StoreInv` off
it at the end, again by `LayersPartition`.

**Only model-checked.** Liveness (`EveryCommandReturns`, `BatchEnds`,
`StartedRunsEnd`): the prover has no rule for fairness here. The text formats
(`FormatsAgree`, `JournalReadsBack`): the writers and readers of `TextFormats` are
folds over sequences of characters, and that one undoes the other for every text
is induction over data; enumeration of small texts stands in for it. The memo of
`chain_length` is not modelled: it saves work and cannot change a value, since
every value is written once.

## 6. Not modelled

- `config.py`: nothing calls it.
- What the validators of `models/task.py` accept: a predicate on text without
  state. A submission is valid or not. The rule for plug-in names (`plugins.py`
  checks it, `cli/commands.py:193` has an unused copy) is left out likewise.
- Option parsing, `--json` rendering, the drawing of `graph`, wording: input and
  output without state. Exit codes are in `CommandLine`.
- Output tails and back-off lengths; no decision depends on them.
- Kills within a subcommand of `CommandLine` (only errors cut one short): the
  kills are in the modules that take the subcommand apart. The same goes for a
  save of a JSON file that fails: `StoreFile` has it; no subcommand of
  `CommandLine` meets one.
- Two overlapping `run --all`: nothing promises or provides exclusion.
- File descriptors: after a failed dump the stores close the same number twice
  (`storage/task_store.py:85`), which matters only if another thread opens a file
  in between.
- A `TASKQ_AUDIT_LOG` in a directory that cannot be created (the `mkdir` of
  `AuditLogger.emit` stands outside its `try`). The effect is that of a failing
  `audit.log`, which is modelled.

## 7. Plan

Done, in this order (most important first): breaker, store, batch, run and cache,
graph algorithms, journal and plug-ins; proofs of breaker and store; then the
file protocol and its proof, the text formats, the session of subcommands and
its proofs; then the proofs of batch, run, journal and session, of layers and
depth, and the refinements of breaker, store and batch; last the loops of
`service/dag.py` with their proofs.

Next:

1. What the theorems that assume one process keep when processes overlap.
2. Two overlapping batches over one store; `GuardedRuns` composed with `TaskRun`
   so that the denial is the breaker's and not a free choice.
