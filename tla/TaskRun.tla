------------------------------ MODULE TaskRun ------------------------------
(***************************************************************************)
(* `run <id> [--cached]` end to end: run_cmd, execute_with_cache and the   *)
(* result cache (service/cache.py) around run_with_retry, run and          *)
(* execute_task (service/executor.py).  Several such processes share       *)
(* tasks.json and cache.json.  Two things are simplified because modules   *)
(* of their own treat them: whether the breaker admits the run is left     *)
(* open (GuardedRuns), and a status merge is one step (TaskStore).         *)
(*                                                                         *)
(* Time passes in ticks, TicksPerSecond to the second, because cached_at   *)
(* keeps whole seconds while its reader uses the full clock.               *)
(***************************************************************************)
EXTENDS Integers, FiniteSets

CONSTANTS
    Proc,           \* processes alive at the same time
    Task,           \* task ids
    CommandOf,      \* the command of each task: the cache key
    RetryLimit,     \* TASKQ_RETRY_LIMIT
    TTL,            \* TASKQ_CACHE_TTL in seconds
    TicksPerSecond,
    Faults,         \* a subset of {"spawn_error", "plugin_load", "clear"}
    BreakerMayDeny, \* whether the breaker may be found OPEN
    NoEntry,        \* no cache entry under a key
    MaxRuns,        \* bound: how many runs are started
    MaxTime         \* bound: last value of the clock

Command == {CommandOf[t] : t \in Task}

ASSUME TaskRunAssumption ==
    /\ DOMAIN CommandOf = Task
    /\ RetryLimit \in Int
    /\ TTL \in Int
    /\ TicksPerSecond \in Nat \ {0}
    /\ BreakerMayDeny \in BOOLEAN
    /\ MaxRuns \in Nat
    /\ MaxTime \in Nat

Outcomes == {"done", "failed", "timeout"}

\* A task record; "absent" stands for an id without a record.
Statuses == Outcomes \cup {"pending", "running", "absent"}

ExitOk == 0
ExitFailed == 1
ExitBreakerOpen == 3
ExitTimeout == 4
ExitPluginLoad == 6
ExitUnknownTask == 2
ExitCodes == {ExitOk, ExitFailed, ExitUnknownTask, ExitBreakerOpen, ExitTimeout, ExitPluginLoad}
Retryable == {ExitFailed, ExitTimeout}

\* written is history: the tick at which the entry was really built.
Entry == [exit_code : ExitCodes, cached_at : Nat, written : Nat]

ASSUME NoEntryAssumption == NoEntry \notin Entry

VARIABLES
    status,     \* tasks.json: status of each task
    cache,      \* cache.json: entry of each command or NoEntry
    now,        \* time.time() in ticks
    pc,         \* what each process does next
    job,        \* locals of each process
    blob,       \* the cache each process loaded inside write_cache_entry
    started,    \* how many runs were started (bounded by MaxRuns)
    succeeded,  \* history: commands of which a subprocess exited 0
    stored,     \* history: commands whose entry some run finished writing
    overlapped  \* history: two commands ran at the same time

vars == <<status, cache, now, pc, job, blob, started, succeeded, stored,
          overlapped>>
shared == <<status, cache, now>>
history == <<started, succeeded, stored, overlapped>>

Job == [task : Task, cached : BOOLEAN, attempt : Nat,
        exit : ExitCodes, replayed : Entry \cup {NoEntry}]

Cache == [Command -> Entry \cup {NoEntry}]

EmptyCache == [c \in Command |-> NoEntry]

Steps == {"idle", "find_by_id", "find_again", "lookup", "allow_request", "load_plugins",
          "execute_task", "subprocess", "next_attempt", "extract_result",
          "read_cache", "write_cache", "returned"}

TypeOK ==
    /\ status \in [Task -> Statuses]
    /\ cache \in Cache
    /\ now \in Nat
    /\ pc \in [Proc -> Steps]
    /\ job \in [Proc -> Job]
    /\ blob \in [Proc -> Cache]
    /\ started \in 0 .. MaxRuns
    /\ succeeded \subseteq Command
    /\ stored \subseteq Command
    /\ overlapped \in BOOLEAN

NewJob(t, cached) == [task |-> t, cached |-> cached, attempt |-> 0,
                      exit |-> ExitOk, replayed |-> NoEntry]

Init ==
    /\ status \in [Task -> {"pending"}]
    /\ cache = EmptyCache
    /\ now = 0
    /\ pc = [p \in Proc |-> "idle"]
    /\ \E t \in Task : job = [p \in Proc |-> NewJob(t, FALSE)]
    /\ blob = [p \in Proc |-> EmptyCache]
    /\ started = 0
    /\ succeeded = {}
    /\ stored = {}
    /\ overlapped = FALSE

-----------------------------------------------------------------------------
GoTo(p, from, to) == pc[p] = from /\ pc' = [pc EXCEPT ![p] = to]

CommandFor(p) == CommandOf[job[p].task]

Busy == \E q \in Proc : pc[q] \notin {"idle", "returned"}

Start(p) ==
    /\ started < MaxRuns
    /\ pc[p] \in {"idle", "returned"}
    /\ pc' = [pc EXCEPT ![p] = "find_by_id"]
    /\ \E t \in Task, cached \in BOOLEAN :
          job' = [job EXCEPT ![p] = NewJob(t, cached)]
    /\ started' = started + 1
    /\ overlapped' = (overlapped \/ Busy)
    /\ UNCHANGED <<shared, blob, succeeded, stored>>

\* The process answers with an exit code.
Answer(p, from, code) ==
    /\ GoTo(p, from, "returned")
    /\ job' = [job EXCEPT ![p].exit = code]

\* run_cmd: unknown id, exit 2.
UnknownTask(p) ==
    /\ status[job[p].task] = "absent"
    /\ Answer(p, "find_by_id", ExitUnknownTask)
    /\ UNCHANGED <<shared, blob, history>>

FindById(p) ==
    /\ status[job[p].task] # "absent"
    /\ GoTo(p, "find_by_id", "find_again")
    /\ UNCHANGED <<shared, job, blob, history>>

\* execute_with_cache reads the store again: a task cleared since is exit 1.
TaskCleared(p) ==
    /\ status[job[p].task] = "absent"
    /\ Answer(p, "find_again", ExitFailed)
    /\ UNCHANGED <<shared, blob, history>>

FindAgain(p) ==
    /\ status[job[p].task] # "absent"
    /\ GoTo(p, "find_again", IF job[p].cached THEN "lookup" ELSE "allow_request")
    /\ UNCHANGED <<shared, job, blob, history>>

\* Wrong variant, to confirm ReplaysAreFresh: compares whole seconds.
FreshInSeconds(entry) ==
    /\ entry # NoEntry
    /\ now \div TicksPerSecond - entry.cached_at <= TTL

\* lookup_cached_result: an entry whose age does not exceed the TTL.
Fresh(entry) ==
    /\ entry # NoEntry
    /\ now - entry.cached_at * TicksPerSecond <= TTL * TicksPerSecond

\* Replay: nothing is executed and neither file is written.
CacheHit(p) ==
    LET entry == cache[CommandFor(p)]
    IN  /\ Fresh(entry)
        /\ GoTo(p, "lookup", "returned")
        /\ job' = [job EXCEPT ![p].exit = entry.exit_code, ![p].replayed = entry]
        /\ UNCHANGED <<shared, blob, history>>

CacheMiss(p) ==
    /\ ~Fresh(cache[CommandFor(p)])
    /\ GoTo(p, "lookup", "allow_request")
    /\ UNCHANGED <<shared, job, blob, history>>

\* run_with_retry returns 3 and execute_with_cache goes on with that code.
BreakerDenies(p) ==
    /\ BreakerMayDeny
    /\ GoTo(p, "allow_request", "extract_result")
    /\ job' = [job EXCEPT ![p].exit = ExitBreakerOpen]
    /\ UNCHANGED <<shared, blob, history>>

BreakerAdmits(p) ==
    /\ GoTo(p, "allow_request", "load_plugins")
    /\ UNCHANGED <<shared, job, blob, history>>

LoadPlugins(p) ==
    /\ GoTo(p, "load_plugins", "execute_task")
    /\ UNCHANGED <<shared, job, blob, history>>

PluginLoadFails(p) ==
    /\ "plugin_load" \in Faults
    /\ Answer(p, "load_plugins", ExitPluginLoad)
    /\ UNCHANGED <<shared, blob, history>>

\* execute_task finds no record any more: run() returns 1.
TaskVanished(p) ==
    /\ status[job[p].task] = "absent"
    /\ GoTo(p, "execute_task", "next_attempt")
    /\ job' = [job EXCEPT ![p].exit = ExitFailed]
    /\ UNCHANGED <<shared, blob, history>>

\* Whatever the status of the record was, it becomes "running".
MarkRunning(p) ==
    /\ status[job[p].task] # "absent"
    /\ GoTo(p, "execute_task", "subprocess")
    /\ status' = [status EXCEPT ![job[p].task] = "running"]
    /\ UNCHANGED <<cache, now, job, blob, history>>

\* _set_status leaves a list without the id unchanged.
Merged(t, new) ==
    IF status[t] = "absent" THEN status ELSE [status EXCEPT ![t] = new]

\* Wrong variant, to confirm ZeroIsEarned: a timeout is not a failure.
ExitOfFailedOnly(outcome) == IF outcome = "failed" THEN ExitFailed ELSE ExitOk

\* Wrong variant, to confirm TypeOK: passes the child's return code on.
ExitOfChild(outcome) == IF outcome = "failed" THEN 127 ELSE ExitOk

ExitOf(outcome) ==
    CASE outcome = "timeout" -> ExitTimeout
      [] outcome = "done"    -> ExitOk
      [] OTHER               -> ExitFailed

SubprocessEnds(p) ==
    /\ GoTo(p, "subprocess", "next_attempt")
    /\ \E outcome \in Outcomes :
          /\ status' = Merged(job[p].task, outcome)
          /\ job' = [job EXCEPT ![p].exit = ExitOf(outcome)]
          /\ succeeded' = IF outcome = "done" THEN succeeded \cup {CommandFor(p)}
                                              ELSE succeeded
    /\ UNCHANGED <<cache, now, blob, started, stored, overlapped>>

\* The exception ends the command with exit 1 and no second status merge.
SpawnRaises(p) ==
    /\ "spawn_error" \in Faults
    /\ Answer(p, "subprocess", ExitFailed)
    /\ UNCHANGED <<shared, blob, history>>

MayRetry(p) == job[p].exit \in Retryable /\ job[p].attempt < RetryLimit

Retry(p) ==
    /\ MayRetry(p)
    /\ GoTo(p, "next_attempt", "execute_task")
    /\ job' = [job EXCEPT ![p].attempt = @ + 1]
    /\ UNCHANGED <<shared, blob, history>>

\* post_run hooks, run_end, breaker bookkeeping; run_with_retry returns.
FinishAttempts(p) ==
    /\ ~MayRetry(p)
    /\ GoTo(p, "next_attempt", "extract_result")
    /\ UNCHANGED <<shared, job, blob, history>>

\* Wrong variant, to confirm CacheIsSound: every result is cached.
CachesAnyResult(p) ==
    /\ GoTo(p, "extract_result", "read_cache")
    /\ UNCHANGED <<shared, job, blob, history>>

\* find_by_id again: the STORED status decides about caching, while the exit
\* code is the runner's own.
ExtractResult(p) ==
    /\ GoTo(p, "extract_result",
            IF status[job[p].task] = "done" THEN "read_cache" ELSE "returned")
    /\ UNCHANGED <<shared, job, blob, history>>

\* write_cache_entry, first half: read the whole cache.
ReadCache(p) ==
    /\ GoTo(p, "read_cache", "write_cache")
    /\ blob' = [blob EXCEPT ![p] =
                  [cache EXCEPT ![CommandFor(p)] =
                     [exit_code |-> job[p].exit,
                      cached_at |-> now \div TicksPerSecond,
                      written |-> now]]]
    /\ UNCHANGED <<shared, job, history>>

\* Second half: replace cache.json with what was read plus the new entry.
WriteCache(p) ==
    /\ GoTo(p, "write_cache", "returned")
    /\ cache' = blob[p]
    /\ blob' = [blob EXCEPT ![p] = EmptyCache]
    /\ stored' = stored \cup {CommandFor(p)}
    /\ UNCHANGED <<status, now, job, started, succeeded, overlapped>>

\* `clear` unlinks tasks.json, then cache.json.
ClearTasks ==
    /\ "clear" \in Faults
    /\ status' = [t \in Task |-> "absent"]
    /\ overlapped' = (overlapped \/ Busy)
    /\ UNCHANGED <<cache, now, pc, job, blob, started, succeeded, stored>>

ClearCache ==
    /\ "clear" \in Faults
    /\ cache' = EmptyCache
    /\ stored' = {}
    /\ overlapped' = (overlapped \/ Busy)
    /\ UNCHANGED <<status, now, pc, job, blob, started, succeeded>>

Tick ==
    /\ now < MaxTime
    /\ now' = now + 1
    /\ UNCHANGED <<status, cache, pc, job, blob, history>>

Progress(p) ==
    \/ UnknownTask(p) \/ FindById(p) \/ TaskCleared(p) \/ FindAgain(p)
    \/ CacheHit(p) \/ CacheMiss(p) \/ BreakerDenies(p)
    \/ BreakerAdmits(p) \/ LoadPlugins(p)
    \/ TaskVanished(p) \/ MarkRunning(p) \/ SubprocessEnds(p)
    \/ Retry(p) \/ FinishAttempts(p) \/ ExtractResult(p)
    \/ ReadCache(p) \/ WriteCache(p)

Step(p) == Start(p) \/ Progress(p) \/ PluginLoadFails(p) \/ SpawnRaises(p)

Next == (\E p \in Proc : Step(p)) \/ ClearTasks \/ ClearCache \/ Tick

Spec == Init /\ [][Next]_vars
-----------------------------------------------------------------------------
(* Exit 0 is never reported for a command that did not succeed: along every
   path (attempts, replay, stale store reads, concurrent cache rewrites) a run
   that answers 0 goes back to a subprocess of that command that exited 0. *)
ZeroIsEarned ==
    \A p \in Proc :
        pc[p] = "returned" /\ job[p].exit = ExitOk => CommandFor(p) \in succeeded

(* FR-04: a replayed result was computed at most TTL seconds before the replay
   decision, although cached_at is truncated to whole seconds. *)
ReplaysAreFresh ==
    [][ \A p \in Proc :
          pc[p] = "lookup" /\ pc'[p] = "returned" =>
              now - job'[p].replayed.written <= TTL * TicksPerSecond ]_vars

(* Where no two commands overlap, cache.json is what _run of commands.py and
   write_cache_entry take it for.  "A HIT path carries exit_code=0": every entry
   is a success, or the code of a denied run of a task that was done before (see
   "Disagreements" in the README).  "Writers do not lose each other's entries":
   what a run finished writing is there until the next clear. *)
CacheIsSound ==
    ~overlapped =>
        /\ \A c \in Command : cache[c] # NoEntry =>
              cache[c].exit_code \in {ExitOk, ExitBreakerOpen}
        /\ \A c \in stored : cache[c] # NoEntry

(* FR-04: on a hit "the task is marked done and cached: true".
   Not kept by the code: see "Disagreements" in the README. *)
HitMarksTaskDone ==
    \A p \in Proc :
        pc[p] = "returned" /\ job[p].replayed # NoEntry
            => status[job[p].task] = "done"
=============================================================================
