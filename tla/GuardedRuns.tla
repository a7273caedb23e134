---------------------------- MODULE GuardedRuns ----------------------------
(***************************************************************************)
(* The breaker protocol of service/executor.py: every `run <id>` process   *)
(* (run_with_retry) and every `run --all` process (run_all) reads          *)
(* breaker.json, decides admission on its private copy, writes the copy    *)
(* back, executes, and (run_with_retry only) folds the final outcome into  *)
(* the SAME copy and writes it again.  No lock spans those steps, so the   *)
(* model gives each read, decision and write a step of its own and lets    *)
(* the processes interleave between them.                                  *)
(***************************************************************************)
EXTENDS Breaker, FiniteSets

CONSTANTS
    Proc,        \* the CLI processes that may be alive at the same time
    Modes,       \* which entries they use: a subset of {"single", "batch"}
    RetryLimit,  \* TASKQ_RETRY_LIMIT
    Faults,      \* a subset of {"plugin_load", "spawn_error", "crash"}
    MayClear,    \* whether `clear` may delete breaker.json at any time
    MaxRuns,     \* bound: how many runs are started in a behaviour
    MaxTime      \* bound: the last value of the clock

ASSUME GuardedRunsAssumption ==
    /\ Modes \subseteq {"single", "batch"}
    /\ RetryLimit \in Int
    /\ MayClear \in BOOLEAN
    /\ MaxRuns \in Nat
    /\ MaxTime \in Nat

VARIABLES
    file,      \* breaker.json: NoFile or a BreakerRecord
    now,       \* time.time(), assumed not to step backwards
    pc,        \* what each process does next
    mode,      \* the entry each process uses
    mem,       \* the in-memory Breaker of each process
    attempt,   \* the retry counter of run_with_retry
    started,   \* how many runs have been started (bounded by MaxRuns)
    failures,  \* history: how many final failures were ever recorded
    streak     \* history: final failures persisted since the last success

vars == <<file, now, pc, mode, mem, attempt, started, failures, streak>>

Steps == {"idle", "read_breaker", "allow_request", "write_admission",
          "load_plugins", "run", "run_levels", "record_success",
          "record_failure", "write_success", "write_failure"}

\* A process is in its execution phase: admitted, outcome not yet persisted.
Executing == {"load_plugins", "run", "run_levels", "record_success",
              "record_failure", "write_success", "write_failure"}

TypeOK ==
    /\ file \in BreakerRecord \cup {NoFile}
    /\ now \in Nat
    /\ pc \in [Proc -> Steps]
    /\ mode \in [Proc -> {"single", "batch"}]
    /\ mem \in [Proc -> BreakerRecord]
    /\ attempt \in [Proc -> Nat]
    /\ started \in Nat
    /\ failures \in Nat
    /\ streak \in Nat

Init ==
    /\ file = NoFile
    /\ now = 0
    /\ pc = [p \in Proc |-> "idle"]
    /\ mode = [p \in Proc |-> "single"]
    /\ mem = [p \in Proc |-> Cold]
    /\ attempt = [p \in Proc |-> 0]
    /\ started = 0
    /\ failures = 0
    /\ streak = 0

-----------------------------------------------------------------------------
\* Process p moves from one step to the next.
GoTo(p, from, to) == pc[p] = from /\ pc' = [pc EXCEPT ![p] = to]

Start(p) ==
    /\ started < MaxRuns
    /\ GoTo(p, "idle", "read_breaker")
    /\ \E m \in Modes : mode' = [mode EXCEPT ![p] = m]
    /\ attempt' = [attempt EXCEPT ![p] = 0]
    /\ mem' = [mem EXCEPT ![p] = Cold]
    /\ started' = started + 1
    /\ UNCHANGED <<file, now, failures, streak>>

ReadBreaker(p) ==
    /\ GoTo(p, "read_breaker", "allow_request")
    /\ mem' = [mem EXCEPT ![p] = FromRecord(file)]
    /\ UNCHANGED <<file, now, mode, attempt, started, failures, streak>>

\* Exit 3, `breaker open`: nothing is spawned and nothing is written.
Deny(p) ==
    /\ ~Admits(mem[p], now)
    /\ GoTo(p, "allow_request", "idle")
    /\ UNCHANGED <<file, now, mode, mem, attempt, started, failures, streak>>

Admit(p) ==
    /\ Admits(mem[p], now)
    /\ GoTo(p, "allow_request", "write_admission")
    /\ mem' = [mem EXCEPT ![p] = AllowRequest(mem[p], now)]
    /\ UNCHANGED <<file, now, mode, attempt, started, failures, streak>>

\* Wrong variant, to confirm SerialRunsKeepThePromise: HALF_OPEN is not saved.
ForgetsAdmission(p) ==
    /\ GoTo(p, "write_admission",
            IF mode[p] = "single" THEN "load_plugins" ELSE "run_levels")
    /\ UNCHANGED <<file, now, mode, mem, attempt, started, failures, streak>>

WriteAdmission(p) ==
    /\ GoTo(p, "write_admission",
            IF mode[p] = "single" THEN "load_plugins" ELSE "run_levels")
    /\ file' = mem[p]
    /\ UNCHANGED <<now, mode, mem, attempt, started, failures, streak>>

\* plugin_load_plugins(), find_by_id, run_start, pre_run hooks.
LoadPlugins(p) ==
    /\ GoTo(p, "load_plugins", "run")
    /\ UNCHANGED <<file, now, mode, mem, attempt, started, failures, streak>>

\* PluginLoadError leaves run_with_retry after the admission was written.
PluginLoadFails(p) ==
    /\ "plugin_load" \in Faults
    /\ GoTo(p, "load_plugins", "idle")
    /\ UNCHANGED <<file, now, mode, mem, attempt, started, failures, streak>>

RunSucceeds(p) ==
    /\ GoTo(p, "run", "record_success")
    /\ UNCHANGED <<file, now, mode, mem, attempt, started, failures, streak>>

\* Wrong variant, to confirm CountsAreRealFailures: every attempt counts.
CountsEveryAttempt(p) ==
    /\ attempt[p] < RetryLimit
    /\ GoTo(p, "run", "run")
    /\ attempt' = [attempt EXCEPT ![p] = @ + 1]
    /\ mem' = [mem EXCEPT ![p] = RecordFailure(mem[p], now)]
    /\ UNCHANGED <<file, now, mode, started, failures, streak>>

\* run() returned 1 or 4 and another attempt is allowed; it backs off first.
RunFailsAndRetries(p) ==
    /\ attempt[p] < RetryLimit
    /\ GoTo(p, "run", "run")
    /\ attempt' = [attempt EXCEPT ![p] = @ + 1]
    /\ UNCHANGED <<file, now, mode, mem, started, failures, streak>>

RunFailsFinally(p) ==
    /\ ~(attempt[p] < RetryLimit)
    /\ GoTo(p, "run", "record_failure")
    /\ UNCHANGED <<file, now, mode, mem, attempt, started, failures, streak>>

\* subprocess.run or shlex.split raised something else than TimeoutExpired.
SpawnRaises(p) ==
    /\ "spawn_error" \in Faults
    /\ pc[p] \in {"run", "run_levels"}
    /\ pc' = [pc EXCEPT ![p] = "idle"]
    /\ UNCHANGED <<file, now, mode, mem, attempt, started, failures, streak>>

RecordSuccessStep(p) ==
    /\ GoTo(p, "record_success", "write_success")
    /\ mem' = [mem EXCEPT ![p] = RecordSuccess(mem[p])]
    /\ UNCHANGED <<file, now, mode, attempt, started, failures, streak>>

RecordFailureStep(p) ==
    /\ GoTo(p, "record_failure", "write_failure")
    /\ mem' = [mem EXCEPT ![p] = RecordFailure(mem[p], now)]
    /\ failures' = failures + 1
    /\ UNCHANGED <<file, now, mode, attempt, started, streak>>

WriteSuccess(p) ==
    /\ GoTo(p, "write_success", "idle")
    /\ file' = mem[p]
    /\ streak' = 0
    /\ UNCHANGED <<now, mode, mem, attempt, started, failures>>

WriteFailure(p) ==
    /\ GoTo(p, "write_failure", "idle")
    /\ file' = mem[p]
    /\ streak' = streak + 1
    /\ UNCHANGED <<now, mode, mem, attempt, started, failures>>

\* run_all returns EXIT_OK without touching the breaker again.
RunAllReturns(p) ==
    /\ GoTo(p, "run_levels", "idle")
    /\ UNCHANGED <<file, now, mode, mem, attempt, started, failures, streak>>

\* The process is killed between two steps; nothing more is written.
Crash(p) ==
    /\ "crash" \in Faults
    /\ pc[p] # "idle"
    /\ pc' = [pc EXCEPT ![p] = "idle"]
    /\ UNCHANGED <<file, now, mode, mem, attempt, started, failures, streak>>

\* `taskq-plus clear` unlinks breaker.json, whoever is running.
Clear ==
    /\ MayClear
    /\ file' = NoFile
    /\ UNCHANGED <<now, pc, mode, mem, attempt, started, failures, streak>>

Tick ==
    /\ now < MaxTime
    /\ now' = now + 1
    /\ UNCHANGED <<file, pc, mode, mem, attempt, started, failures, streak>>

\* What a started process does on its own, without faults.
Progress(p) ==
    \/ ReadBreaker(p) \/ Deny(p) \/ Admit(p) \/ WriteAdmission(p)
    \/ LoadPlugins(p) \/ RunSucceeds(p) \/ RunFailsAndRetries(p)
    \/ RunFailsFinally(p) \/ RecordSuccessStep(p) \/ RecordFailureStep(p)
    \/ WriteSuccess(p) \/ WriteFailure(p) \/ RunAllReturns(p)

Step(p) ==
    Start(p) \/ Progress(p) \/ PluginLoadFails(p) \/ SpawnRaises(p) \/ Crash(p)

Next == (\E p \in Proc : Step(p)) \/ Clear \/ Tick

Spec == Init /\ [][Next]_vars
-----------------------------------------------------------------------------
Records == {FromRecord(file)} \cup {mem[p] : p \in Proc}

(* However the unlocked read-modify-write cycles of breaker.json interleave,
   and whatever crashes or is cleared, no copy of the breaker ever counts a
   failure that no run recorded: updates can be lost, never invented. *)
CountsAreRealFailures == \A r \in Records : r.failure_count <= failures

\* record_failure: it takes Threshold failures to leave CLOSED ...
OpenIsEarned(r) == r.state # "CLOSED" => failures >= Threshold

\* ... and a counter that got there is not found in a CLOSED breaker.
ClosedBelowThreshold(r) ==
    Threshold > 0 /\ r.state = "CLOSED" => r.failure_count < Threshold

\* NFR-03 recovery bound: no stamp in the future, so an OPEN breaker admits a
\* trial at most Cooldown from now.
CooldownIsBounded(r) == r.opened_at <= now

(* Whichever process wrote it last, and however stale that one's copy was, the
   breaker trips on evidence only, has tripped when the evidence is there, and
   recovers within the cooldown. *)
RecordsAreSound ==
    \A r \in Records :
        OpenIsEarned(r) /\ ClosedBelowThreshold(r) /\ CooldownIsBounded(r)

(* Breaker docstring: "Global circuit breaker over consecutive final task
   failures".  An OPEN breaker on disk has Threshold final failures persisted
   with no success persisted in between. *)
OpenNeedsConsecutiveFailures ==
    FromRecord(file).state = "OPEN" => streak >= Threshold

(* breaker.json, read the way the next process reads it, is the breaker that
   BreakerPromise specifies. *)
Promise == INSTANCE BreakerPromise WITH breaker <- FromRecord(file)

(* FR-03 end to end: as long as runs do not overlap, every sequence of reads,
   admissions, retries, writes, plug-in failures, spawn errors and crashes
   moves breaker.json exactly as the documented state machine does. *)
SerialRunsKeepThePromise == Promise!PromiseSpec

(* allow_request docstring: after the cooldown "the breaker admits exactly one
   trial call".  At most one process executes as the HALF_OPEN trial.
   Not kept by the code: see "Disagreements" in the README. *)
SingleTrial ==
    Cardinality({p \in Proc : pc[p] \in Executing
                              /\ pc[p] \notin {"write_success", "write_failure"}
                              /\ mem[p].state = "HALF_OPEN"}) <= 1

(* Breaker docstring, transition table: OPEN is left only for HALF_OPEN, once
   the cooldown has elapsed (an explicit `clear` aside).  Kept by runs that do
   not overlap (it follows from SerialRunsKeepThePromise), not by others: see
   "Disagreements" in the README. *)
OpenIsLeftOnlyThroughTrial ==
    [][ FromRecord(file).state = "OPEN" /\ file' # NoFile =>
          \/ file' = file
          \/ /\ file'.state = "HALF_OPEN"
             /\ CooledDown(file, now)
             /\ file'.failure_count = file.failure_count ]_vars

(* SPEC FR-03: the HALF_OPEN trial ends in CLOSED or OPEN.  While nobody is
   executing, breaker.json does not say HALF_OPEN.
   Not kept by the code: see "Disagreements" in the README. *)
TrialIsResolved ==
    (\A p \in Proc : pc[p] = "idle") => FromRecord(file).state # "HALF_OPEN"
=============================================================================
