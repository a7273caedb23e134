----------------------------- MODULE RunJournal -----------------------------
(***************************************************************************)
(* What a `run <id>` writes to its audit journal and how plug-ins take     *)
(* part in it: run_with_retry, _dispatch_and_emit and _emit_plugin_errors  *)
(* of service/executor.py, dispatch of service/plugins.py and the writers  *)
(* of audit.jsonl and audit.log.  Every process is one CLI invocation and  *)
(* has a correlation id of its own; all of them run the same task.  Whole  *)
(* lines are appended to audit.jsonl, so the model keeps, per correlation  *)
(* id, the sequence of its entries.  Two things are left to other modules: *)
(* whether the breaker admits the run (GuardedRuns) and whether a cached   *)
(* result is fresh (TaskRun).                                              *)
(***************************************************************************)
EXTENDS Integers, SequencesExt

CONSTANTS
    Proc,          \* CLI invocations
    Hooks,         \* allowlist order: the set of hooks each plug-in provides
    RetryLimit,    \* TASKQ_RETRY_LIMIT
    BreakerMayDeny,\* whether breaker.json may be found OPEN
    MayReplay,     \* whether `--cached` may find a fresh entry
    Faults         \* subset of {"plugin_load", "legacy_log", "disk_full",
                   \* "spawn_error", "crash"}

HookNames == {"pre_run", "post_run"}

ASSUME RunJournalAssumption ==
    /\ Hooks \in Seq(SUBSET HookNames)
    /\ RetryLimit \in Int
    /\ BreakerMayDeny \in BOOLEAN
    /\ MayReplay \in BOOLEAN

Plugins == DOMAIN Hooks

MaxConsecutiveFailures == 3

Outcomes == {"done", "failed", "timeout"}

ExitOf(outcome) ==
    CASE outcome = "done" -> 0 [] outcome = "failed" -> 1 [] OTHER -> 4

Retryable == {1, 4}

Events == {"run_start", "run_end", "retry", "breaker_open", "plugin_error"}

\* status and exit_code are the detail of run_end; other events have none.
Entry == [event : Events, status : Outcomes \cup {"pending", "running", "-"},
          exit_code : {0, 1, 4}]

VARIABLES
    faults,    \* the faults that may happen in this behaviour
    journal,   \* audit.jsonl: the entries of each correlation id, in order
    status,    \* status of the task in tasks.json
    pc,        \* what each process does next
    hook,      \* the hook it is dispatching
    next,      \* the plug-in that comes next in that dispatch
    strikes,   \* failure_count of each of its plug-ins
    unreported,\* caught failures of this dispatch without an entry
    attempt,   \* retry counter
    exit,      \* exit code of the last attempt, then of the process
    finished,  \* the status it read back after the last attempt
    spawns,    \* history: subprocesses it started
    calls      \* history: the plug-ins it called, per hook

vars == <<faults, journal, status, pc, hook, next, strikes, unreported, attempt, exit,
          finished, spawns, calls>>
dispatchState == <<hook, next, strikes, unreported, calls>>
attemptState == <<status, attempt, finished, spawns>>

Steps == {"idle", "load_plugins", "run_start", "dispatch", "legacy_log",
          "audit_log", "spawn", "subprocess", "next_attempt", "run_end",
          "returned", "killed"}

TypeOK ==
    /\ faults \subseteq Faults
    /\ journal \in [Proc -> Seq(Entry)]
    /\ status \in Outcomes \cup {"pending", "running"}
    /\ pc \in [Proc -> Steps]
    /\ hook \in [Proc -> HookNames]
    /\ next \in [Proc -> 1 .. Len(Hooks) + 1]
    /\ strikes \in [Proc -> [Plugins -> 0 .. MaxConsecutiveFailures - 1]]
    /\ unreported \in [Proc -> 0 .. Len(Hooks)]
    /\ attempt \in [Proc -> Nat]
    /\ exit \in [Proc -> {0, 1, 3, 4, 6}]
    /\ finished \in [Proc -> Outcomes \cup {"pending", "running"}]
    /\ spawns \in [Proc -> Nat]
    /\ calls \in [Proc -> [HookNames -> Seq(Plugins)]]

Init ==
    /\ faults \in SUBSET Faults
    /\ journal = [p \in Proc |-> <<>>]
    /\ status = "pending"
    /\ pc = [p \in Proc |-> "idle"]
    /\ hook = [p \in Proc |-> "pre_run"]
    /\ next = [p \in Proc |-> 1]
    /\ strikes = [p \in Proc |-> [i \in Plugins |-> 0]]
    /\ unreported = [p \in Proc |-> 0]
    /\ attempt = [p \in Proc |-> 0]
    /\ exit = [p \in Proc |-> 0]
    /\ finished = [p \in Proc |-> "pending"]
    /\ spawns = [p \in Proc |-> 0]
    /\ calls = [p \in Proc |-> [h \in HookNames |-> <<>>]]

-----------------------------------------------------------------------------
GoTo(p, from, to) == pc[p] = from /\ pc' = [pc EXCEPT ![p] = to]

Return(p, from, code) ==
    /\ GoTo(p, from, "returned")
    /\ exit' = [exit EXCEPT ![p] = code]

Plain(event) == [event |-> event, status |-> "-", exit_code |-> 0]

\* AuditLogger.emit: one line, flushed and synced before the call returns; it
\* is best effort, so on a full disk the entry is lost and the run goes on.
Emit(p, entry) ==
    \/ journal' = [journal EXCEPT ![p] = Append(@, entry)]
    \/ "disk_full" \in faults /\ UNCHANGED journal

\* execute_with_cache replays an entry and returns; nothing is journalled.
Replay(p) ==
    /\ MayReplay
    /\ Return(p, "idle", 0)
    /\ UNCHANGED <<journal, dispatchState, attemptState>>

Deny(p) ==
    /\ BreakerMayDeny
    /\ Return(p, "idle", 3)
    /\ Emit(p, Plain("breaker_open"))
    /\ UNCHANGED <<dispatchState, attemptState>>

Admit(p) ==
    /\ GoTo(p, "idle", "load_plugins")
    /\ UNCHANGED <<journal, exit, dispatchState, attemptState>>

PluginLoadFails(p) ==
    /\ "plugin_load" \in faults
    /\ Return(p, "load_plugins", 6)
    /\ UNCHANGED <<journal, dispatchState, attemptState>>

LoadPlugins(p) ==
    /\ GoTo(p, "load_plugins", "run_start")
    /\ UNCHANGED <<journal, exit, dispatchState, attemptState>>

EmitRunStart(p) ==
    /\ GoTo(p, "run_start", "dispatch")
    /\ Emit(p, Plain("run_start"))
    /\ UNCHANGED <<exit, dispatchState, attemptState>>

-----------------------------------------------------------------------------
\* dispatch(hook, plugins): one plug-in per step, in allowlist order.

Disabled(p, i) == strikes[p][i] >= MaxConsecutiveFailures

Calls(p) ==
    /\ pc[p] = "dispatch"
    /\ next[p] <= Len(Hooks)
    /\ ~Disabled(p, next[p])
    /\ hook[p] \in Hooks[next[p]]
    /\ calls' = [calls EXCEPT ![p][hook[p]] = Append(@, next[p])]
    /\ next' = [next EXCEPT ![p] = @ + 1]

SkipPlugin(p) ==
    /\ pc[p] = "dispatch"
    /\ next[p] <= Len(Hooks)
    /\ Disabled(p, next[p]) \/ hook[p] \notin Hooks[next[p]]
    /\ next' = [next EXCEPT ![p] = @ + 1]
    /\ UNCHANGED <<journal, pc, hook, strikes, unreported, calls, exit,
                   attemptState>>

HookReturns(p) ==
    /\ Calls(p)
    /\ UNCHANGED <<journal, pc, hook, strikes, unreported, exit, attemptState>>

\* Wrong variant, to confirm HooksAreIsolated: the exception ends the dispatch.
RaiseEndsDispatch(p) ==
    /\ pc[p] = "dispatch"
    /\ next[p] <= Len(Hooks)
    /\ hook[p] \in Hooks[next[p]]
    /\ calls' = [calls EXCEPT ![p][hook[p]] = Append(@, next[p])]
    /\ next' = [next EXCEPT ![p] = Len(Hooks) + 1]
    /\ strikes' = [strikes EXCEPT ![p][next[p]] = @ + 1]
    /\ unreported' = [unreported EXCEPT ![p] = @ + 1]
    /\ UNCHANGED <<journal, pc, hook, exit, attemptState>>

\* Wrong variant, to confirm StartedRunsEnd: the exception leaves the command.
RaisePropagates(p) ==
    /\ Calls(p)
    /\ pc' = [pc EXCEPT ![p] = "returned"]
    /\ exit' = [exit EXCEPT ![p] = 1]
    /\ UNCHANGED <<journal, hook, strikes, unreported, attemptState>>

\* The exception is caught and becomes a PluginFailure; a success would not
\* have reset the counter.
HookRaises(p) ==
    /\ Calls(p)
    /\ strikes' = [strikes EXCEPT ![p][next[p]] = @ + 1]
    /\ unreported' = [unreported EXCEPT ![p] = @ + 1]
    /\ UNCHANGED <<journal, pc, hook, exit, attemptState>>

\* Wrong variant, to confirm EntriesAreTrue: journals nothing.
ForgetsFailures(p) ==
    /\ next[p] > Len(Hooks)
    /\ GoTo(p, "dispatch", IF hook[p] = "pre_run" THEN "spawn" ELSE "run_end")
    /\ unreported' = [unreported EXCEPT ![p] = 0]
    /\ UNCHANGED <<journal, hook, next, strikes, calls, exit, attemptState>>

\* Every plug-in had its turn: report the failures, then go on with the run.
DispatchDone(p) ==
    /\ next[p] > Len(Hooks)
    /\ GoTo(p, "dispatch",
            IF unreported[p] > 0 THEN "legacy_log"
            ELSE IF hook[p] = "pre_run" THEN "spawn" ELSE "run_end")
    /\ UNCHANGED <<journal, exit, dispatchState, attemptState>>

\* The older journal audit.log is written first ...
WriteLegacyLog(p) ==
    /\ GoTo(p, "legacy_log", "audit_log")
    /\ UNCHANGED <<journal, exit, dispatchState, attemptState>>

\* ... and that write is not best effort: the exception ends the command.
LegacyLogFails(p) ==
    /\ "legacy_log" \in faults
    /\ Return(p, "legacy_log", 1)
    /\ UNCHANGED <<journal, dispatchState, attemptState>>

EmitPluginError(p) ==
    /\ GoTo(p, "audit_log", "dispatch")
    /\ Emit(p, Plain("plugin_error"))
    /\ unreported' = [unreported EXCEPT ![p] = @ - 1]
    /\ UNCHANGED <<hook, next, strikes, calls, exit, attemptState>>

-----------------------------------------------------------------------------
\* run(): execute_task marks the task running and starts the subprocess.
MarkRunning(p) ==
    /\ GoTo(p, "spawn", "subprocess")
    /\ status' = "running"
    /\ spawns' = [spawns EXCEPT ![p] = @ + 1]
    /\ UNCHANGED <<journal, exit, attempt, finished, dispatchState>>

SubprocessEnds(p) ==
    /\ GoTo(p, "subprocess", "next_attempt")
    /\ \E outcome \in Outcomes :
          /\ status' = outcome
          /\ exit' = [exit EXCEPT ![p] = ExitOf(outcome)]
    /\ UNCHANGED <<journal, attempt, finished, spawns, dispatchState>>

SpawnRaises(p) ==
    /\ "spawn_error" \in faults
    /\ Return(p, "subprocess", 1)
    /\ UNCHANGED <<journal, dispatchState, attemptState>>

MayRetry(p) == exit[p] \in Retryable /\ attempt[p] < RetryLimit

\* Wrong variant, to confirm JournalLeadsExecution: retries silently.
RetriesSilently(p) ==
    /\ MayRetry(p)
    /\ GoTo(p, "next_attempt", "spawn")
    /\ attempt' = [attempt EXCEPT ![p] = @ + 1]
    /\ UNCHANGED <<journal, status, exit, finished, spawns, dispatchState>>

\* The retry entry is on disk before the back-off and the next attempt.
Retry(p) ==
    /\ MayRetry(p)
    /\ GoTo(p, "next_attempt", "spawn")
    /\ Emit(p, Plain("retry"))
    /\ attempt' = [attempt EXCEPT ![p] = @ + 1]
    /\ UNCHANGED <<status, exit, finished, spawns, dispatchState>>

\* Wrong variant, to confirm EntriesAreTrue: keeps the first record.
KeepsFirstRecord(p) ==
    /\ ~MayRetry(p)
    /\ GoTo(p, "next_attempt", "dispatch")
    /\ hook' = [hook EXCEPT ![p] = "post_run"]
    /\ next' = [next EXCEPT ![p] = 1]
    /\ UNCHANGED <<journal, strikes, unreported, calls, exit, attemptState>>

\* The record is read back from the store for post_run and run_end.
ReadFinished(p) ==
    /\ ~MayRetry(p)
    /\ GoTo(p, "next_attempt", "dispatch")
    /\ finished' = [finished EXCEPT ![p] = status]
    /\ hook' = [hook EXCEPT ![p] = "post_run"]
    /\ next' = [next EXCEPT ![p] = 1]
    /\ UNCHANGED <<journal, status, attempt, spawns, strikes, unreported, calls,
                   exit>>

EmitRunEnd(p) ==
    /\ GoTo(p, "run_end", "returned")
    /\ Emit(p, [event |-> "run_end", status |-> finished[p],
                exit_code |-> exit[p]])
    /\ UNCHANGED <<exit, dispatchState, attemptState>>

Crash(p) ==
    /\ "crash" \in faults
    /\ pc[p] \notin {"returned", "killed"}
    /\ pc' = [pc EXCEPT ![p] = "killed"]
    /\ UNCHANGED <<journal, exit, dispatchState, attemptState>>

Progress(p) ==
    \/ Deny(p) \/ Admit(p) \/ LoadPlugins(p) \/ EmitRunStart(p)
    \/ SkipPlugin(p) \/ HookReturns(p) \/ HookRaises(p) \/ DispatchDone(p)
    \/ WriteLegacyLog(p) \/ EmitPluginError(p)
    \/ MarkRunning(p) \/ SubprocessEnds(p) \/ Retry(p) \/ ReadFinished(p)
    \/ EmitRunEnd(p)

Fault(p) == PluginLoadFails(p) \/ LegacyLogFails(p) \/ SpawnRaises(p) \/ Crash(p)

Next ==
    /\ \E p \in Proc : Replay(p) \/ Progress(p) \/ Fault(p)
    /\ UNCHANGED faults

Spec == Init /\ [][Next]_vars

\* A live process goes on; hooks return or raise; the timeout ends subprocesses.
FairSpec ==
    Spec /\ \A p \in Proc : WF_vars(Progress(p) /\ UNCHANGED faults)
-----------------------------------------------------------------------------
Marked(entries, events) == {i \in DOMAIN entries : entries[i].event \in events}

Count(p, events) == Cardinality(Marked(journal[p], events))

(* The journal is written ahead of what it reports: whenever a run is stopped,
   each subprocess it started has its run_start or retry entry in audit.jsonl,
   and at most the last such entry has no subprocess yet.  (On a full disk the
   entries themselves are lost: SPEC wants the run to go on.) *)
JournalLeadsExecution ==
    "disk_full" \notin faults => \A p \in Proc :
        /\ spawns[p] <= Count(p, {"run_start", "retry"})
        /\ Count(p, {"run_start", "retry"}) <= spawns[p] + 1

Registered(h) == {i \in Plugins : h \in Hooks[i]}

Attempted(p) == pc[p] = "run_end" \/ Count(p, {"run_end"}) > 0

(* FR-07 isolation: a run that got to its end called each hook of each plug-in
   exactly once and in allowlist order, whichever of them raised, however often
   the task was retried and whatever happened to its journal entries; a run that
   did not get there left out none before the last one it called. *)
HooksAreIsolated ==
    \A p \in Proc : \A h \in HookNames :
        /\ \A j, k \in DOMAIN calls[p][h] : j < k => calls[p][h][j] < calls[p][h][k]
        /\ \E n \in 1 .. Len(Hooks) + 1 :
              /\ Range(calls[p][h]) = {i \in Registered(h) : i < n}
              /\ Attempted(p) => n = Len(Hooks) + 1

\* The exceptions of plug-in i are the pairs <<i, 1>>, <<i, 2>>, ...
Raised(p) == {e \in Plugins \X (1 .. MaxConsecutiveFailures) : e[2] <= strikes[p][e[1]]}

(* FR-07 / FR-08: every exception a plug-in hook raised in a run that got to
   its end has a plugin_error entry under the correlation id of that run, and
   no run has more entries than exceptions. *)
FailuresAreReported ==
    "disk_full" \notin faults => \A p \in Proc :
        LET raised == Cardinality(Raised(p))
            entries == Count(p, {"plugin_error"})
        IN  /\ entries + unreported[p] = raised
            /\ Attempted(p) => entries = raised

(* run_end "records the final outcome" (run_with_retry): the status and the
   exit code that it reports are those of one and the same attempt. *)
RunEndTellsTheOutcome ==
    \A p \in Proc : \A i \in DOMAIN journal[p] :
        LET e == journal[p][i]
        IN  e.event = "run_end" =>
                e.status \in Outcomes /\ e.exit_code = ExitOf(e.status)

(* What the journal of a run says is so: its entries and the variables have
   their types, plug-in failures are reported one for one, and run_end names
   the outcome of the last attempt. *)
EntriesAreTrue == TypeOK /\ FailuresAreReported /\ RunEndTellsTheOutcome

(* SPEC FR-07: a plug-in that raises must not interrupt the task.  A run whose
   hook raised has started its subprocess when it returns.
   Not kept by the code: see "Disagreements" in the README. *)
PluginsNeverStopTheRun ==
    \A p \in Proc :
        pc[p] = "returned" /\ (\E i \in Plugins : strikes[p][i] > 0)
            => spawns[p] > 0

(* SPEC FR-08 lists cache_hit among the events: a run that answered left an
   entry in the journal, a replayed one too.
   Not kept by the code: see "Disagreements" in the README. *)
AnswersAreJournalled ==
    \A p \in Proc : pc[p] = "returned" => journal[p] # <<>>

(* Neither hook exceptions nor a full disk under audit.jsonl ("must not crash
   the CLI", AuditLogger.emit) keep a run whose plug-ins were loaded from
   executing its task and answering, however often it is retried. *)
StartedRunsEnd ==
    \A p \in Proc :
        (pc[p] = "run_start" /\ faults \subseteq {"disk_full"})
            ~> (pc[p] = "returned" /\ spawns[p] > 0)
=============================================================================
