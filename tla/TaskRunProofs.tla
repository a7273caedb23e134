--------------------------- MODULE TaskRunProofs ---------------------------
(***************************************************************************)
(* Theorems about TaskRun: for every number of processes, tasks sharing    *)
(* commands, retry limit, TTL and clock resolution, and for every          *)
(* combination of faults.                                                  *)
(***************************************************************************)
EXTENDS TaskRun, TLAPS

\* Steps of one process that change neither tasks.json nor cache.json.
Silent(p) ==
    \/ UnknownTask(p) \/ FindById(p) \/ TaskCleared(p) \/ FindAgain(p)
    \/ CacheMiss(p) \/ BreakerDenies(p) \/ BreakerAdmits(p) \/ LoadPlugins(p)
    \/ PluginLoadFails(p) \/ TaskVanished(p) \/ SpawnRaises(p) \/ Retry(p)
    \/ FinishAttempts(p) \/ ExtractResult(p)

LEMMA NewJobType ==
    ASSUME NEW t \in Task, NEW cached \in BOOLEAN
    PROVE  NewJob(t, cached) \in Job
  BY DEF NewJob, Job, ExitCodes, ExitOk

LEMMA ExitOfType ==
    ASSUME NEW outcome \in Outcomes
    PROVE  /\ ExitOf(outcome) \in ExitCodes
           /\ ExitOf(outcome) = ExitOk <=> outcome = "done"
           /\ ExitOf(outcome) # ExitBreakerOpen
  BY DEF ExitOf, Outcomes, ExitCodes, ExitOk, ExitFailed, ExitTimeout, ExitBreakerOpen

\* The entry a run builds, whole seconds on the left.
NewEntry(p) == [exit_code |-> job[p].exit, cached_at |-> now \div TicksPerSecond,
                written |-> now]

LEMMA SecondsTruncate ==
    ASSUME NEW t \in Nat
    PROVE  /\ t \div TicksPerSecond \in Nat
           /\ (t \div TicksPerSecond) * TicksPerSecond <= t
  BY TaskRunAssumption

LEMMA NewEntryType ==
    ASSUME TypeOK, NEW p \in Proc
    PROVE  NewEntry(p) \in Entry
<1>1. job[p].exit \in ExitCodes
  BY DEF TypeOK, Job
<1>2. now \in Nat /\ now \div TicksPerSecond \in Nat
  BY SecondsTruncate DEF TypeOK
<1> QED
  BY <1>1, <1>2 DEF NewEntry, Entry

LEMMA CommandType ==
    ASSUME TypeOK, NEW p \in Proc
    PROVE  CommandFor(p) \in Command
  BY DEF TypeOK, Job, CommandFor, Command

-----------------------------------------------------------------------------
LEMMA TypeInit == Init => TypeOK
<1> SUFFICES ASSUME Init PROVE TypeOK
  OBVIOUS
<1>1. EmptyCache \in Cache
  BY DEF EmptyCache, Cache
<1>2. job \in [Proc -> Job]
  BY NewJobType DEF Init
<1>3. status \in [Task -> Statuses]
  BY DEF Init, Statuses
<1>4. cache \in Cache /\ blob \in [Proc -> Cache]
  BY <1>1 DEF Init
<1>5. pc \in [Proc -> Steps] /\ started \in 0 .. MaxRuns
  BY TaskRunAssumption DEF Init, Steps
<1> QED
  BY <1>2, <1>3, <1>4, <1>5 DEF Init, TypeOK

LEMMA TypeStep == TypeOK /\ [Next]_vars => TypeOK'
<1> SUFFICES ASSUME TypeOK, [Next]_vars PROVE TypeOK'
  OBVIOUS
<1> USE DEF TypeOK, GoTo, Answer, Steps, shared, history
<1>1. ASSUME NEW p \in Proc, Start(p) PROVE TypeOK'
  BY <1>1, NewJobType, TaskRunAssumption DEF Start, Busy
<1>2. ASSUME NEW p \in Proc, Silent(p) PROVE TypeOK'
  <2>1. /\ UNCHANGED <<status, cache, now, blob, started, succeeded, stored,
                       overlapped>>
        /\ pc' \in [Proc -> Steps]
    BY <1>2 DEF Silent, UnknownTask, FindById, TaskCleared, FindAgain, CacheMiss,
                BreakerDenies, BreakerAdmits, LoadPlugins, PluginLoadFails,
                TaskVanished, SpawnRaises, Retry, FinishAttempts, ExtractResult
  <2>2. job' \in [Proc -> Job]
    BY <1>2 DEF Silent, UnknownTask, FindById, TaskCleared, FindAgain, CacheMiss,
                BreakerDenies, BreakerAdmits, LoadPlugins, PluginLoadFails,
                TaskVanished, SpawnRaises, Retry, FinishAttempts, ExtractResult,
                Job, ExitCodes, ExitUnknownTask, ExitFailed, ExitBreakerOpen,
                ExitPluginLoad
  <2> QED
    BY <2>1, <2>2
<1>3. ASSUME NEW p \in Proc, CacheHit(p) PROVE TypeOK'
  <2>1. cache[CommandFor(p)] \in Entry
    BY <1>3, CommandType DEF CacheHit, Fresh, Cache
  <2>2. job' \in [Proc -> Job]
    BY <1>3, <2>1 DEF CacheHit, Job, Entry
  <2> QED
    BY <1>3, <2>2 DEF CacheHit
<1>4. ASSUME NEW p \in Proc, MarkRunning(p) PROVE TypeOK'
  BY <1>4 DEF MarkRunning, Statuses
<1>5. ASSUME NEW p \in Proc, SubprocessEnds(p) PROVE TypeOK'
  <2>1. PICK outcome \in Outcomes :
          /\ status' = Merged(job[p].task, outcome)
          /\ job' = [job EXCEPT ![p].exit = ExitOf(outcome)]
          /\ succeeded' = IF outcome = "done" THEN succeeded \cup {CommandFor(p)}
                                              ELSE succeeded
    BY <1>5 DEF SubprocessEnds
  <2>2. status' \in [Task -> Statuses]
    BY <2>1 DEF Merged, Statuses
  <2>3. job' \in [Proc -> Job]
    BY <2>1, ExitOfType DEF Job
  <2>4. succeeded' \subseteq Command
    BY <2>1, CommandType
  <2> QED
    BY <1>5, <2>2, <2>3, <2>4 DEF SubprocessEnds
<1>6. ASSUME NEW p \in Proc, ReadCache(p) PROVE TypeOK'
  BY <1>6, NewEntryType DEF ReadCache, NewEntry, Cache
<1>7. ASSUME NEW p \in Proc, WriteCache(p) PROVE TypeOK'
  BY <1>7, CommandType DEF WriteCache, EmptyCache, Cache
<1>8. CASE ClearTasks
  BY <1>8 DEF ClearTasks, Statuses, Busy
<1>9. CASE ClearCache
  BY <1>9 DEF ClearCache, EmptyCache, Cache, Busy
<1>10. CASE Tick
  BY <1>10 DEF Tick
<1>11. CASE UNCHANGED vars
  BY <1>11 DEF vars
<1> QED
  BY <1>1, <1>2, <1>3, <1>4, <1>5, <1>6, <1>7, <1>8, <1>9, <1>10, <1>11
     DEF Next, Step, Progress, Silent

(* Every variable keeps its type; in particular every exit code is one that
   SPEC FR-05 names, along every path through cache, breaker and retries. *)
THEOREM TypeCorrect == Spec => []TypeOK
  BY TypeInit, TypeStep, PTL DEF Spec

-----------------------------------------------------------------------------
(* Where the exit code of a run is that of an attempt, a denial or a replay. *)
Answering == {"next_attempt", "extract_result", "read_cache", "write_cache",
              "returned"}

EntryIsEarned(entry, c) ==
    entry # NoEntry /\ entry.exit_code = ExitOk => c \in succeeded

(* The inductive invariant behind ZeroIsEarned: a 0 in cache.json, in a cache
   some process has loaded, or in the hands of a run that has executed goes
   back to a success.  The loaded caches are what gets written. *)
EarnedInv ==
    /\ \A c \in Command : EntryIsEarned(cache[c], c)
    /\ \A p \in Proc, c \in Command : EntryIsEarned(blob[p][c], c)
    /\ \A p \in Proc : pc[p] \in Answering /\ job[p].exit = ExitOk =>
           CommandFor(p) \in succeeded

LEMMA EarnedInit == Init => EarnedInv
  BY DEF Init, EarnedInv, EntryIsEarned, Answering, EmptyCache

LEMMA EarnedStep == TypeOK /\ EarnedInv /\ [Next]_vars => EarnedInv'
<1> SUFFICES ASSUME TypeOK, EarnedInv, [Next]_vars PROVE EarnedInv'
  OBVIOUS
<1> USE DEF TypeOK, EarnedInv, EntryIsEarned, Answering, CommandFor, GoTo,
            Answer, Steps, shared, history
<1>1. ASSUME NEW p \in Proc, Start(p) PROVE EarnedInv'
  BY <1>1 DEF Start, NewJob
<1>2. ASSUME NEW p \in Proc, Silent(p) PROVE EarnedInv'
  <2>1. UNCHANGED <<cache, blob, succeeded>>
    BY <1>2 DEF Silent, UnknownTask, FindById, TaskCleared, FindAgain, CacheMiss,
                BreakerDenies, BreakerAdmits, LoadPlugins, PluginLoadFails,
                TaskVanished, SpawnRaises, Retry, FinishAttempts, ExtractResult
  <2>2. \A q \in Proc : pc'[q] \in Answering /\ job'[q].exit = ExitOk =>
            CommandOf[job'[q].task] \in succeeded
    BY <1>2 DEF Silent, UnknownTask, FindById, TaskCleared, FindAgain, CacheMiss,
                BreakerDenies, BreakerAdmits, LoadPlugins, PluginLoadFails,
                TaskVanished, SpawnRaises, Retry, FinishAttempts, ExtractResult,
                Job, ExitOk, ExitUnknownTask, ExitFailed, ExitBreakerOpen,
                ExitPluginLoad
  <2> QED
    BY <2>1, <2>2
<1>3. ASSUME NEW p \in Proc, CacheHit(p) PROVE EarnedInv'
  BY <1>3, CommandType DEF CacheHit, Fresh, Job
<1>4. ASSUME NEW p \in Proc, MarkRunning(p) PROVE EarnedInv'
  BY <1>4 DEF MarkRunning
<1>5. ASSUME NEW p \in Proc, SubprocessEnds(p) PROVE EarnedInv'
  <2>1. PICK outcome \in Outcomes :
          /\ job' = [job EXCEPT ![p].exit = ExitOf(outcome)]
          /\ succeeded' = IF outcome = "done" THEN succeeded \cup {CommandFor(p)}
                                              ELSE succeeded
    BY <1>5 DEF SubprocessEnds
  <2>2. \A q \in Proc : job'[q].task = job[q].task
    BY <2>1 DEF Job
  <2>3. job'[p].exit = ExitOk => CommandFor(p) \in succeeded'
    BY <2>1, ExitOfType DEF Job
  <2>4. succeeded \subseteq succeeded'
    BY <2>1
  <2>5. \A q \in Proc \ {p} : pc'[q] = pc[q] /\ job'[q] = job[q]
    BY <1>5, <2>1 DEF SubprocessEnds
  <2> QED
    BY <1>5, <2>2, <2>3, <2>4, <2>5 DEF SubprocessEnds
<1>6. ASSUME NEW p \in Proc, ReadCache(p) PROVE EarnedInv'
  <2>1. blob' = [blob EXCEPT ![p] = [cache EXCEPT ![CommandFor(p)] = NewEntry(p)]]
    BY <1>6 DEF ReadCache, NewEntry
  <2>2. job[p].exit = ExitOk => CommandFor(p) \in succeeded
    BY <1>6 DEF ReadCache
  <2>3. EntryIsEarned(NewEntry(p), CommandFor(p))
    BY <2>2 DEF NewEntry
  <2>4. \A q \in Proc, c \in Command : EntryIsEarned(blob'[q][c], c)
    BY <2>1, <2>3 DEF Cache
  <2> QED
    BY <1>6, <2>4 DEF ReadCache
<1>7. ASSUME NEW p \in Proc, WriteCache(p) PROVE EarnedInv'
  BY <1>7 DEF WriteCache, EmptyCache
<1>8. CASE ClearTasks
  BY <1>8 DEF ClearTasks
<1>9. CASE ClearCache
  BY <1>9 DEF ClearCache, EmptyCache
<1>10. CASE Tick
  BY <1>10 DEF Tick
<1>11. CASE UNCHANGED vars
  BY <1>11 DEF vars
<1> QED
  BY <1>1, <1>2, <1>3, <1>4, <1>5, <1>6, <1>7, <1>8, <1>9, <1>10, <1>11
     DEF Next, Step, Progress, Silent

(* However runs overlap, retry, replay and rewrite cache.json, a run answers 0
   only for a command of which a subprocess exited 0. *)
THEOREM ZeroIsEarnedCorrect == Spec => []ZeroIsEarned
<1>1. EarnedInv => ZeroIsEarned
  BY DEF EarnedInv, ZeroIsEarned, Answering
<1> QED
  BY TypeInit, TypeStep, EarnedInit, EarnedStep, <1>1, PTL DEF Spec

-----------------------------------------------------------------------------
(* The inductive invariant behind ReplaysAreFresh: the whole seconds of an
   entry are not later than the moment it was built. *)
StampIsEarly(entry) ==
    entry # NoEntry => entry.cached_at * TicksPerSecond <= entry.written

StampsInv ==
    /\ \A c \in Command : StampIsEarly(cache[c])
    /\ \A p \in Proc, c \in Command : StampIsEarly(blob[p][c])

LEMMA StampsInit == Init => StampsInv
  BY DEF Init, StampsInv, StampIsEarly, EmptyCache

LEMMA StampsStep == TypeOK /\ StampsInv /\ [Next]_vars => StampsInv'
<1> SUFFICES ASSUME TypeOK, StampsInv, [Next]_vars PROVE StampsInv'
  OBVIOUS
<1> USE DEF TypeOK, StampsInv, shared, history
<1>1. ASSUME UNCHANGED <<cache, blob>> PROVE StampsInv'
  BY <1>1 DEF StampIsEarly
<1>2. ASSUME NEW p \in Proc, ReadCache(p) PROVE StampsInv'
  <2>1. blob' = [blob EXCEPT ![p] = [cache EXCEPT ![CommandFor(p)] = NewEntry(p)]]
    BY <1>2 DEF ReadCache, NewEntry
  <2>2. StampIsEarly(NewEntry(p))
    BY SecondsTruncate DEF StampIsEarly, NewEntry
  <2>3. \A q \in Proc, c \in Command :
            \/ blob'[q][c] = NewEntry(p)
            \/ blob'[q][c] = blob[q][c]
            \/ blob'[q][c] = cache[c]
    BY <2>1 DEF Cache
  <2>4. \A q \in Proc, c \in Command : StampIsEarly(blob'[q][c])
    BY <2>2, <2>3, Zenon
  <2>5. cache' = cache
    BY <1>2 DEF ReadCache
  <2> QED
    BY <2>4, <2>5 DEF StampIsEarly
<1>3. ASSUME NEW p \in Proc, WriteCache(p) PROVE StampsInv'
  BY <1>3 DEF WriteCache, EmptyCache, StampIsEarly
<1>4. CASE ClearCache
  BY <1>4 DEF ClearCache, EmptyCache, StampIsEarly
<1>5. CASE ClearTasks \/ Tick \/ UNCHANGED vars
  BY <1>5, <1>1 DEF ClearTasks, Tick, vars
<1>6. ASSUME NEW p \in Proc,
             Start(p) \/ Silent(p) \/ CacheHit(p) \/ MarkRunning(p)
               \/ SubprocessEnds(p)
      PROVE  StampsInv'
  BY <1>6, <1>1
     DEF Start, CacheHit, MarkRunning, SubprocessEnds, Silent, UnknownTask,
         FindById, TaskCleared, FindAgain, CacheMiss, BreakerDenies,
         BreakerAdmits, LoadPlugins, PluginLoadFails, TaskVanished, SpawnRaises,
         Retry, FinishAttempts, ExtractResult
<1> QED
  BY <1>2, <1>3, <1>4, <1>5, <1>6 DEF Next, Step, Progress, Silent

\* Only a fresh entry takes a run from the lookup straight to its answer.
LEMMA ReplayStep ==
    ASSUME TypeOK, StampsInv, [Next]_vars
    PROVE  [ \A p \in Proc :
               pc[p] = "lookup" /\ pc'[p] = "returned" =>
                   now - job'[p].replayed.written <= TTL * TicksPerSecond ]_vars
<1> SUFFICES ASSUME Next, NEW p \in Proc, pc[p] = "lookup", pc'[p] = "returned"
             PROVE  now - job'[p].replayed.written <= TTL * TicksPerSecond
  OBVIOUS
<1>1. CacheHit(p)
  <2>1. PICK q \in Proc : Step(q)
    BY DEF Next, ClearTasks, ClearCache, Tick
  <2>2. q = p
    BY <2>1 DEF Step, Start, Progress, PluginLoadFails, SpawnRaises, UnknownTask,
       FindById, TaskCleared, FindAgain, CacheHit, CacheMiss, BreakerDenies,
       BreakerAdmits, LoadPlugins, TaskVanished, MarkRunning, SubprocessEnds,
       Retry, FinishAttempts, ExtractResult, ReadCache, WriteCache, GoTo, Answer,
       TypeOK
  <2> QED
    BY <2>1, <2>2 DEF Step, Start, Progress, PluginLoadFails, SpawnRaises,
       UnknownTask, FindById, TaskCleared, FindAgain, CacheMiss, BreakerDenies,
       BreakerAdmits, LoadPlugins, TaskVanished, MarkRunning, SubprocessEnds,
       Retry, FinishAttempts, ExtractResult, ReadCache, WriteCache, GoTo, Answer,
       TypeOK
<1> DEFINE entry == cache[CommandFor(p)]
<1>2. /\ entry \in Entry
      /\ now - entry.cached_at * TicksPerSecond <= TTL * TicksPerSecond
      /\ job'[p].replayed = entry
  BY <1>1, CommandType DEF CacheHit, Fresh, TypeOK, Cache, Job
<1>3. entry.cached_at * TicksPerSecond <= entry.written
  BY <1>2, CommandType, NoEntryAssumption DEF StampsInv, StampIsEarly
<1>4. /\ entry.cached_at * TicksPerSecond \in Int /\ TTL * TicksPerSecond \in Int
      /\ entry.written \in Int /\ now \in Int
  BY <1>2, TaskRunAssumption DEF Entry, TypeOK
<1> HIDE DEF entry
<1> QED
  BY <1>2, <1>3, <1>4

(* A replay answers with a result that is not older than the TTL on the full
   clock, for every resolution of that clock. *)
THEOREM ReplaysAreFreshCorrect == Spec => ReplaysAreFresh
<1>1. TypeOK /\ StampsInv /\ [Next]_vars =>
        [ \A p \in Proc : pc[p] = "lookup" /\ pc'[p] = "returned" =>
            now - job'[p].replayed.written <= TTL * TicksPerSecond ]_vars
  BY ReplayStep
<1> QED
  BY TypeInit, TypeStep, StampsInit, StampsStep, <1>1, PTL
     DEF Spec, ReplaysAreFresh

-----------------------------------------------------------------------------
CodeIsSound(entry) ==
    entry # NoEntry => entry.exit_code \in {ExitOk, ExitBreakerOpen}

Idle(p) == pc[p] \in {"idle", "returned"}

(* The inductive invariant behind CacheIsSound.  Without overlap one run owns
   both files, so the stored status it reads is the one its own last attempt
   merged: a failed attempt never finds "done" and is not cached, and what the
   loaded cache holds is what cache.json held. *)
SoloInv ==
    /\ \A p, q \in Proc : ~Idle(p) /\ ~Idle(q) => p = q
    /\ \A c \in Command : CodeIsSound(cache[c])
    /\ \A c \in stored : cache[c] # NoEntry
    /\ \A p \in Proc : pc[p] \in {"next_attempt", "extract_result"} =>
           \/ job[p].exit \in {ExitOk, ExitBreakerOpen}
           \/ status[job[p].task] # "done"
    /\ \A p \in Proc : pc[p] = "read_cache" =>
           job[p].exit \in {ExitOk, ExitBreakerOpen}
    /\ \A p \in Proc : pc[p] = "write_cache" =>
           /\ \A c \in Command : CodeIsSound(blob[p][c])
           /\ \A c \in stored \cup {CommandFor(p)} : blob[p][c] # NoEntry

CacheInv == ~overlapped => SoloInv

LEMMA CacheInit == Init => CacheInv
  BY DEF Init, CacheInv, SoloInv, Idle, CodeIsSound, EmptyCache

\* Nobody else is running, so nobody else is affected.
LEMMA OthersAreIdle ==
    ASSUME SoloInv, NEW p \in Proc, ~Idle(p)
    PROVE  \A q \in Proc \ {p} : Idle(q)
  BY DEF SoloInv

LEMMA CacheStep == TypeOK /\ CacheInv /\ [Next]_vars => CacheInv'
<1> SUFFICES ASSUME TypeOK, CacheInv, [Next]_vars, ~overlapped'
             PROVE  SoloInv'
  BY DEF CacheInv
<1> USE DEF TypeOK, CommandFor, GoTo, Answer, Steps, shared, history
<1>1. SoloInv
  <2>1. overlapped => overlapped'
    BY DEF Next, Step, Progress, Start, UnknownTask, FindById, TaskCleared,
       FindAgain, CacheHit, CacheMiss, BreakerDenies, BreakerAdmits, LoadPlugins,
       TaskVanished, MarkRunning, SubprocessEnds, Retry, FinishAttempts,
       ExtractResult, ReadCache, WriteCache, PluginLoadFails, SpawnRaises,
       ClearTasks, ClearCache, Tick, vars
  <2> QED
    BY <2>1 DEF CacheInv
<1>2. ASSUME NEW p \in Proc, Start(p) PROVE SoloInv'
  <2>1. \A q \in Proc : Idle(q)
    BY <1>2 DEF Start, Busy, Idle
  <2> QED
    BY <1>1, <1>2, <2>1 DEF Start, SoloInv, Idle, CodeIsSound
<1>3. ASSUME NEW p \in Proc, Silent(p) PROVE SoloInv'
  <2>1. UNCHANGED <<cache, blob, stored>>
    BY <1>3 DEF Silent, UnknownTask, FindById, TaskCleared, FindAgain, CacheMiss,
                BreakerDenies, BreakerAdmits, LoadPlugins, PluginLoadFails,
                TaskVanished, SpawnRaises, Retry, FinishAttempts, ExtractResult
  <2>2. /\ status' = status
        /\ ~Idle(p)
        /\ \A q \in Proc \ {p} : pc'[q] = pc[q] /\ job'[q] = job[q]
        /\ pc'[p] # "write_cache"
        /\ job'[p].task = job[p].task
    BY <1>3 DEF Silent, UnknownTask, FindById, TaskCleared, FindAgain, CacheMiss,
                BreakerDenies, BreakerAdmits, LoadPlugins, PluginLoadFails,
                TaskVanished, SpawnRaises, Retry, FinishAttempts, ExtractResult,
                Idle, Job
  <2>3. pc'[p] \in {"next_attempt", "extract_result"} =>
          job'[p].exit \in {ExitOk, ExitBreakerOpen} \/ status[job[p].task] # "done"
    BY <1>1, <1>3
       DEF Silent, UnknownTask, FindById, TaskCleared, FindAgain, CacheMiss,
           BreakerDenies, BreakerAdmits, LoadPlugins, PluginLoadFails,
           TaskVanished, SpawnRaises, Retry, FinishAttempts, ExtractResult,
           Job, SoloInv
  <2>4. pc'[p] = "read_cache" => job'[p].exit \in {ExitOk, ExitBreakerOpen}
    BY <1>1, <1>3
       DEF Silent, UnknownTask, FindById, TaskCleared, FindAgain, CacheMiss,
           BreakerDenies, BreakerAdmits, LoadPlugins, PluginLoadFails,
           TaskVanished, SpawnRaises, Retry, FinishAttempts, ExtractResult,
           Job, SoloInv
  <2> QED
    BY <1>1, <2>1, <2>2, <2>3, <2>4 DEF SoloInv, Idle, CodeIsSound
<1>4. ASSUME NEW p \in Proc, CacheHit(p) PROVE SoloInv'
  BY <1>1, <1>4 DEF CacheHit, SoloInv, Idle, CodeIsSound, Job
<1>5. ASSUME NEW p \in Proc, MarkRunning(p) PROVE SoloInv'
  <2>1. \A q \in Proc \ {p} : Idle(q)
    BY <1>1, <1>5, OthersAreIdle DEF MarkRunning, Idle
  <2> QED
    BY <1>1, <1>5, <2>1 DEF MarkRunning, SoloInv, Idle, CodeIsSound
<1>6. ASSUME NEW p \in Proc, SubprocessEnds(p) PROVE SoloInv'
  <2>1. \A q \in Proc \ {p} : Idle(q)
    BY <1>1, <1>6, OthersAreIdle DEF SubprocessEnds, Idle
  <2>2. PICK outcome \in Outcomes :
          /\ status' = Merged(job[p].task, outcome)
          /\ job' = [job EXCEPT ![p].exit = ExitOf(outcome)]
    BY <1>6 DEF SubprocessEnds
  <2>3. job[p] \in Job /\ job'[p].task = job[p].task /\ job'[p].exit = ExitOf(outcome)
    BY <2>2 DEF Job
  <2>4. outcome # "done" => status'[job[p].task] # "done"
    BY <2>2, <2>3 DEF Merged, Job
  <2>5. job'[p].exit = ExitOk \/ status'[job'[p].task] # "done"
    BY <2>3, <2>4, ExitOfType
  <2>6. \A q \in Proc \ {p} : pc'[q] = pc[q]
    BY <1>6 DEF SubprocessEnds
  <2> QED
    BY <1>1, <1>6, <2>1, <2>5, <2>6 DEF SubprocessEnds, SoloInv, Idle, CodeIsSound
<1>7. ASSUME NEW p \in Proc, ReadCache(p) PROVE SoloInv'
  <2>1. \A q \in Proc \ {p} : Idle(q)
    BY <1>1, <1>7, OthersAreIdle DEF ReadCache, Idle
  <2>2. blob' = [blob EXCEPT ![p] = [cache EXCEPT ![CommandFor(p)] = NewEntry(p)]]
    BY <1>7 DEF ReadCache, NewEntry
  <2>3. CodeIsSound(NewEntry(p)) /\ NewEntry(p) # NoEntry
    BY <1>1, <1>7, NewEntryType, NoEntryAssumption
       DEF ReadCache, SoloInv, CodeIsSound, NewEntry
  <2>4. \A c \in Command : blob'[p][c] =
            IF c = CommandFor(p) THEN NewEntry(p) ELSE cache[c]
    BY <2>2, CommandType DEF Cache
  <2>5. \A c \in Command : CodeIsSound(blob'[p][c])
    BY <1>1, <2>3, <2>4 DEF SoloInv
  <2>6. \A c \in stored \cup {CommandFor(p)} : blob'[p][c] # NoEntry
    BY <1>1, <2>3, <2>4, CommandType DEF SoloInv
  <2> QED
    BY <1>1, <1>7, <2>1, <2>5, <2>6 DEF ReadCache, SoloInv, Idle, CodeIsSound
<1>8. ASSUME NEW p \in Proc, WriteCache(p) PROVE SoloInv'
  <2>1. \A q \in Proc \ {p} : Idle(q)
    BY <1>1, <1>8, OthersAreIdle DEF WriteCache, Idle
  <2> QED
    BY <1>1, <1>8, <2>1 DEF WriteCache, SoloInv, Idle, CodeIsSound
<1>9. CASE ClearTasks
  <2>1. \A q \in Proc : Idle(q)
    BY <1>9 DEF ClearTasks, Busy, Idle
  <2> QED
    BY <1>1, <1>9, <2>1 DEF ClearTasks, SoloInv, Idle, CodeIsSound
<1>10. CASE ClearCache
  <2>1. \A q \in Proc : Idle(q)
    BY <1>10 DEF ClearCache, Busy, Idle
  <2> QED
    BY <1>1, <1>10, <2>1 DEF ClearCache, EmptyCache, SoloInv, Idle, CodeIsSound
<1>11. CASE Tick \/ UNCHANGED vars
  BY <1>1, <1>11 DEF Tick, vars, SoloInv, Idle, CodeIsSound
<1> QED
  BY <1>2, <1>3, <1>4, <1>5, <1>6, <1>7, <1>8, <1>9, <1>10, <1>11
     DEF Next, Step, Progress, Silent

(* As long as no two commands overlap, the cache holds no failed result and
   loses no entry, along every path through retries, denials and clears. *)
THEOREM CacheIsSoundCorrect == Spec => []CacheIsSound
<1>1. CacheInv => CacheIsSound
  BY DEF CacheInv, SoloInv, CodeIsSound, CacheIsSound
<1> QED
  BY TypeInit, TypeStep, CacheInit, CacheStep, <1>1, PTL DEF Spec
=============================================================================
