-------------------------- MODULE RunJournalProofs --------------------------
(***************************************************************************)
(* Theorems about RunJournal: for every number of processes, every         *)
(* allowlist of plug-ins and the hooks they provide, every retry limit and *)
(* every combination of faults.                                            *)
(***************************************************************************)
EXTENDS RunJournal, FiniteSetTheorems, TLAPS

Action(p) == Replay(p) \/ Progress(p) \/ Fault(p)

\* What belongs to one process; a step of another one leaves it alone.
Local(p) == <<journal[p], pc[p], hook[p], next[p], strikes[p], unreported[p],
              attempt[p], exit[p], finished[p], spawns[p], calls[p]>>

LEMMA OthersUntouched ==
    ASSUME TypeOK, NEW p \in Proc, NEW q \in Proc \ {p}, Action(p)
    PROVE  UNCHANGED Local(q)
<1> USE DEF TypeOK, GoTo, Return, Emit, Local, dispatchState, attemptState
<1>1. CASE Replay(p) \/ Deny(p) \/ Admit(p) \/ LoadPlugins(p) \/ EmitRunStart(p)
  BY <1>1 DEF Replay, Deny, Admit, LoadPlugins, EmitRunStart
<1>2. CASE SkipPlugin(p) \/ HookReturns(p) \/ HookRaises(p) \/ DispatchDone(p)
  BY <1>2 DEF SkipPlugin, HookReturns, HookRaises, Calls, DispatchDone
<1>3. CASE WriteLegacyLog(p) \/ EmitPluginError(p) \/ MarkRunning(p)
             \/ SubprocessEnds(p)
  BY <1>3 DEF WriteLegacyLog, EmitPluginError, MarkRunning, SubprocessEnds
<1>4. CASE Retry(p) \/ ReadFinished(p) \/ EmitRunEnd(p)
  BY <1>4 DEF Retry, ReadFinished, EmitRunEnd
<1>5. CASE Fault(p)
  BY <1>5 DEF Fault, PluginLoadFails, LegacyLogFails, SpawnRaises, Crash
<1> QED
  BY <1>1, <1>2, <1>3, <1>4, <1>5 DEF Action, Progress

LEMMA PluginsAreNumbered == Plugins = 1 .. Len(Hooks) /\ Len(Hooks) \in Nat
  BY RunJournalAssumption DEF Plugins

LEMMA PlainType ==
    ASSUME NEW event \in Events
    PROVE  Plain(event) \in Entry /\ Plain(event).event = event
  BY DEF Plain, Entry

LEMMA ExitOfType ==
    ASSUME NEW outcome \in Outcomes
    PROVE  ExitOf(outcome) \in {0, 1, 4}
  BY DEF ExitOf, Outcomes

LEMMA EmitType ==
    ASSUME TypeOK, NEW p \in Proc, NEW entry \in Entry, Emit(p, entry)
    PROVE  /\ journal' \in [Proc -> Seq(Entry)]
           /\ \/ journal'[p] = Append(journal[p], entry)
              \/ journal'[p] = journal[p] /\ "disk_full" \in faults
<1>1. journal \in [Proc -> Seq(Entry)]
  BY DEF TypeOK
<1>2. Append(journal[p], entry) \in Seq(Entry)
  BY <1>1
<1> QED
  BY <1>1, <1>2 DEF Emit

LEMMA StrikesType ==
    ASSUME TypeOK, NEW p \in Proc, NEW i \in Plugins
    PROVE  strikes[p][i] \in Nat
<1>1. strikes[p] \in [Plugins -> 0 .. 2]
  BY DEF TypeOK, MaxConsecutiveFailures
<1> QED
  BY <1>1

-----------------------------------------------------------------------------
\* How often plug-in i was called when plug-in n is next for hook h.
Turns(i, n, h) == (IF i < n THEN 1 ELSE 0) + (IF h = "post_run" THEN 1 ELSE 0)

LEMMA TurnsGrow ==
    ASSUME NEW i \in Nat, NEW n \in Nat, NEW h
    PROVE  /\ Turns(i, n, h) \in Nat /\ Turns(i, n + 1, h) \in Nat
           /\ Turns(i, n, h) <= Turns(i, n + 1, h)
           /\ i < n => Turns(i, n, "pre_run") <= Turns(i, 1, "post_run")
  BY DEF Turns

LEMMA TurnTaken ==
    ASSUME NEW n \in Nat, NEW h
    PROVE  Turns(n, n + 1, h) = Turns(n, n, h) + 1
  BY DEF Turns

(* Where a run is in its dispatches, and what that bounds.  TypeOK is not
   inductive without it: that no failure_count reaches the limit follows from
   one call per hook, and so from next and hook. *)
Control(p) ==
    /\ pc[p] \in {"idle", "load_plugins", "run_start"} =>
           hook[p] = "pre_run" /\ next[p] = 1
    /\ pc[p] \in {"spawn", "subprocess", "next_attempt"} =>
           hook[p] = "pre_run" /\ next[p] = Len(Hooks) + 1 /\ unreported[p] = 0
    /\ pc[p] \in {"legacy_log", "audit_log"} =>
           next[p] = Len(Hooks) + 1 /\ unreported[p] > 0
    /\ pc[p] = "run_end" =>
           hook[p] = "post_run" /\ next[p] = Len(Hooks) + 1 /\ unreported[p] = 0
    /\ pc[p] \notin {"returned", "killed"} => exit[p] \in {0, 1, 4}
    /\ unreported[p] < next[p]
    /\ \A i \in Plugins :
           strikes[p][i] <= Turns(i, next[p], hook[p])

ControlInv == TypeOK /\ \A p \in Proc : Control(p)

LEMMA ControlInit == Init => ControlInv
<1> SUFFICES ASSUME Init PROVE ControlInv
  OBVIOUS
<1>1. TypeOK
  BY PluginsAreNumbered DEF Init, TypeOK, Steps, HookNames, MaxConsecutiveFailures
<1>2. \A p \in Proc : Control(p)
  BY PluginsAreNumbered DEF Init, Control, Turns
<1> QED
  BY <1>1, <1>2 DEF ControlInv

LEMMA TypeStep ==
    ASSUME ControlInv, NEW p \in Proc, Action(p), UNCHANGED faults
    PROVE  TypeOK'
<1> USE PluginsAreNumbered
    DEF ControlInv, TypeOK, GoTo, Return, Steps, dispatchState, attemptState
<1>1. CASE Replay(p) \/ Admit(p) \/ LoadPlugins(p) \/ DispatchDone(p)
             \/ WriteLegacyLog(p) \/ Fault(p)
  BY <1>1 DEF Replay, Admit, LoadPlugins, DispatchDone, WriteLegacyLog, Fault,
              PluginLoadFails, LegacyLogFails, SpawnRaises, Crash
<1>2. CASE Deny(p) \/ EmitRunStart(p)
  BY <1>2, PlainType, EmitType DEF Deny, EmitRunStart, Events
<1>3. CASE SkipPlugin(p)
  <2>1. next' \in [Proc -> 1 .. Len(Hooks) + 1]
    BY <1>3 DEF SkipPlugin
  <2> QED
    BY <1>3, <2>1 DEF SkipPlugin
<1>4. ASSUME Calls(p)
      PROVE  /\ next' \in [Proc -> 1 .. Len(Hooks) + 1]
             /\ calls' \in [Proc -> [HookNames -> Seq(Plugins)]]
  <2>1. next[p] \in Plugins /\ hook[p] \in HookNames
    BY <1>4 DEF Calls
  <2>2. Append(calls[p][hook[p]], next[p]) \in Seq(Plugins)
    BY <2>1
  <2> QED
    BY <1>4, <2>1, <2>2 DEF Calls
<1>5. CASE HookReturns(p)
  BY <1>4, <1>5 DEF HookReturns
<1>6. CASE HookRaises(p)
  <2>1. Control(p) /\ Calls(p) /\ next[p] \in Plugins
    BY <1>6 DEF HookRaises, Calls
  <2>2. strikes[p][next[p]] + 1 \in 0 .. MaxConsecutiveFailures - 1
    <3>1. strikes[p][next[p]] <= Turns(next[p], next[p], hook[p])
      BY <2>1 DEF Control
    <3>2. Turns(next[p], next[p], hook[p]) <= 1
      BY <2>1 DEF Turns
    <3>3. strikes[p][next[p]] \in Nat /\ Turns(next[p], next[p], hook[p]) \in Int
      BY <2>1, TurnsGrow
    <3> QED
      BY <3>1, <3>2, <3>3 DEF MaxConsecutiveFailures
  <2>3. strikes' \in [Proc -> [Plugins -> 0 .. MaxConsecutiveFailures - 1]]
    BY <1>6, <2>1, <2>2 DEF HookRaises
  <2>4. unreported' \in [Proc -> 0 .. Len(Hooks)]
    BY <1>6, <2>1 DEF HookRaises, Control
  <2> QED
    BY <1>4, <1>6, <2>1, <2>3, <2>4 DEF HookRaises
<1>7. CASE EmitPluginError(p)
  <2>1. unreported' \in [Proc -> 0 .. Len(Hooks)]
    BY <1>7 DEF EmitPluginError, Control
  <2> QED
    BY <1>7, <2>1, PlainType, EmitType DEF EmitPluginError, Events
<1>8. CASE MarkRunning(p)
  <2>1. spawns' \in [Proc -> Nat]
    BY <1>8 DEF MarkRunning
  <2> QED
    BY <1>8, <2>1 DEF MarkRunning
<1>12. CASE ReadFinished(p)
  <2>1. next' \in [Proc -> 1 .. Len(Hooks) + 1]
    <3>1. 1 \in 1 .. Len(Hooks) + 1
      BY PluginsAreNumbered
    <3> QED
      BY <1>12, <3>1 DEF ReadFinished
  <2>2. hook' \in [Proc -> HookNames]
    BY <1>12 DEF ReadFinished, HookNames
  <2> QED
    BY <1>12, <2>1, <2>2 DEF ReadFinished
<1>9. CASE SubprocessEnds(p)
  BY <1>9, ExitOfType DEF SubprocessEnds
<1>10. CASE Retry(p)
  <2>1. journal' \in [Proc -> Seq(Entry)]
    BY <1>10, PlainType, EmitType DEF Retry, Events
  <2>2. attempt' \in [Proc -> Nat]
    BY <1>10 DEF Retry
  <2> QED
    BY <1>10, <2>1, <2>2 DEF Retry
<1>11. CASE EmitRunEnd(p)
  <2>1. [event |-> "run_end", status |-> finished[p], exit_code |-> exit[p]]
          \in Entry
    BY <1>11 DEF EmitRunEnd, Control, Entry, Events
  <2> QED
    BY <1>11, <2>1, EmitType DEF EmitRunEnd
<1> QED
  BY <1>1, <1>2, <1>3, <1>5, <1>6, <1>7, <1>8, <1>9, <1>10, <1>11, <1>12
     DEF Action, Progress

LEMMA ControlStep == ControlInv /\ [Next]_vars => ControlInv'
<1> SUFFICES ASSUME ControlInv, [Next]_vars PROVE ControlInv'
  OBVIOUS
<1>1. ASSUME UNCHANGED vars PROVE ControlInv'
  BY <1>1 DEF vars, ControlInv, TypeOK, Control
<1>2. ASSUME NEW p \in Proc, Action(p), UNCHANGED faults PROVE ControlInv'
  <2>1. TypeOK'
    BY <1>2, TypeStep
  <2>2. ASSUME NEW q \in Proc \ {p} PROVE Control(q)'
    BY <1>2, <2>2, OthersUntouched DEF ControlInv, Control, Local
  <2>3. Control(p)'
    <3> USE PluginsAreNumbered
        DEF ControlInv, TypeOK, GoTo, Return, Steps, dispatchState, attemptState,
            Control
    <3>1. CASE Replay(p) \/ Deny(p) \/ Admit(p) \/ LoadPlugins(p)
                 \/ EmitRunStart(p)
      BY <1>2, <3>1 DEF Replay, Deny, Admit, LoadPlugins, EmitRunStart
    <3>2. ASSUME next' = [next EXCEPT ![p] = @ + 1], next[p] <= Len(Hooks),
                 UNCHANGED hook, strikes' = strikes
          PROVE  \A i \in Plugins : strikes'[p][i] <= Turns(i, next'[p], hook'[p])
      <4> TAKE i \in Plugins
      <4>1. /\ next'[p] = next[p] + 1 /\ hook'[p] = hook[p]
            /\ strikes[p][i] <= Turns(i, next[p], hook[p])
            /\ next[p] \in Nat /\ i \in Nat
        BY <3>2
      <4>2. strikes[p][i] \in Nat
        BY StrikesType
      <4>3. /\ Turns(i, next[p], hook[p]) <= Turns(i, next[p] + 1, hook[p])
            /\ Turns(i, next[p], hook[p]) \in Nat
            /\ Turns(i, next[p] + 1, hook[p]) \in Nat
        BY <4>1, TurnsGrow, Zenon
      <4> QED
        BY <3>2, <4>1, <4>2, <4>3
    <3>3. CASE SkipPlugin(p) \/ HookReturns(p)
      <4>1. /\ pc' = pc /\ pc[p] = "dispatch" /\ next[p] <= Len(Hooks)
            /\ next' = [next EXCEPT ![p] = @ + 1]
            /\ UNCHANGED <<hook, exit, unreported>> /\ strikes' = strikes
        BY <3>3 DEF SkipPlugin, HookReturns, Calls
      <4>2. \A i \in Plugins : strikes'[p][i] <= Turns(i, next'[p], hook'[p])
        BY <4>1, <3>2
      <4>3. unreported'[p] < next'[p]
        BY <4>1
      <4> QED
        BY <4>1, <4>2, <4>3
    <3>4. CASE HookRaises(p)
      <4>1. /\ pc' = pc /\ pc[p] = "dispatch" /\ next[p] \in Plugins
            /\ next'[p] = next[p] + 1
            /\ strikes'[p] = [strikes[p] EXCEPT ![next[p]] = @ + 1]
            /\ unreported'[p] = unreported[p] + 1
            /\ UNCHANGED <<hook, exit>>
        BY <3>4 DEF HookRaises, Calls
      <4>2. ASSUME NEW i \in Plugins
            PROVE  strikes'[p][i] <= Turns(i, next'[p], hook'[p])
        <5>0. i \in Nat /\ next[p] \in Nat
          BY <4>1
        <5>1. /\ Turns(i, next[p], hook[p]) <= Turns(i, next[p] + 1, hook[p])
              /\ Turns(i, next[p], hook[p]) \in Nat
              /\ Turns(i, next[p] + 1, hook[p]) \in Nat
          BY <5>0, TurnsGrow, Zenon
        <5>2. Turns(next[p], next[p] + 1, hook[p]) = Turns(next[p], next[p], hook[p]) + 1
          BY <5>0, TurnTaken, Zenon
        <5>3. strikes[p][i] <= Turns(i, next[p], hook[p]) /\ strikes[p][i] \in Nat
          OBVIOUS
        <5>4. CASE i = next[p]
          BY <4>1, <5>1, <5>2, <5>3, <5>4
        <5>5. CASE i # next[p]
          BY <4>1, <5>1, <5>3, <5>5
        <5> QED
          BY <5>4, <5>5
      <4>3. unreported'[p] < next'[p]
        BY <4>1
      <4> QED
        BY <4>1, <4>2, <4>3
    <3>5. CASE DispatchDone(p)
      <4>1. next[p] = Len(Hooks) + 1 /\ UNCHANGED <<hook, next, strikes, unreported, exit>>
        BY <3>5 DEF DispatchDone
      <4>2. /\ pc[p] = "dispatch"
            /\ pc'[p] = IF unreported[p] > 0 THEN "legacy_log"
                        ELSE IF hook[p] = "pre_run" THEN "spawn" ELSE "run_end"
        BY <3>5 DEF DispatchDone
      <4>3. /\ pc'[p] \in {"legacy_log", "spawn", "run_end"}
            /\ pc'[p] = "legacy_log" => unreported[p] > 0
            /\ pc'[p] = "spawn" => hook[p] = "pre_run" /\ unreported[p] = 0
            /\ pc'[p] = "run_end" => hook[p] = "post_run" /\ unreported[p] = 0
        BY <4>2 DEF HookNames
      <4> QED
        BY <4>1, <4>2, <4>3
    <3>6. CASE WriteLegacyLog(p)
      BY <1>2, <3>6 DEF WriteLegacyLog
    <3>7. CASE EmitPluginError(p)
      <4>1. /\ pc'[p] = "dispatch" /\ unreported'[p] = unreported[p] - 1
            /\ UNCHANGED <<hook, next, strikes, exit>>
        BY <3>7 DEF EmitPluginError
      <4>2. unreported'[p] < next'[p]
        BY <4>1
      <4> QED
        BY <3>7, <4>1, <4>2 DEF EmitPluginError
    <3>8. CASE MarkRunning(p) \/ Retry(p)
      BY <1>2, <3>8 DEF MarkRunning, Retry
    <3>9. CASE SubprocessEnds(p)
      BY <1>2, <3>9, ExitOfType DEF SubprocessEnds
    <3>10. CASE ReadFinished(p)
      <4>1. /\ pc'[p] = "dispatch" /\ hook'[p] = "post_run" /\ next'[p] = 1
            /\ hook[p] = "pre_run" /\ next[p] = Len(Hooks) + 1
            /\ unreported'[p] = 0 /\ UNCHANGED <<strikes, exit>>
        BY <3>10 DEF ReadFinished
      <4>2. ASSUME NEW i \in Plugins
            PROVE  strikes'[p][i] <= Turns(i, next'[p], hook'[p])
        <5>1. strikes[p][i] <= Turns(i, next[p], hook[p]) /\ strikes[p][i] \in Nat
          OBVIOUS
        <5>2. /\ Turns(i, next[p], "pre_run") <= Turns(i, 1, "post_run")
              /\ Turns(i, next[p], "pre_run") \in Nat
              /\ Turns(i, 1, "post_run") \in Nat
          <6>1. i \in Nat /\ next[p] \in Nat /\ i < next[p]
            BY <4>1
          <6>2. 1 \in Nat
            OBVIOUS
          <6> QED
            BY <6>1, <6>2, TurnsGrow, Zenon
        <5> QED
          BY <4>1, <5>1, <5>2
      <4>3. unreported'[p] < next'[p]
        BY <4>1
      <4> QED
        BY <3>10, <4>1, <4>2, <4>3 DEF ReadFinished
    <3>11. CASE EmitRunEnd(p) \/ Fault(p)
      BY <1>2, <3>11 DEF EmitRunEnd, Fault, PluginLoadFails, LegacyLogFails,
                         SpawnRaises, Crash
    <3> QED
      BY <1>2, <3>1, <3>2, <3>3, <3>4, <3>5, <3>6, <3>7, <3>8, <3>9, <3>10, <3>11
         DEF Action, Progress
  <2> QED
    BY <2>1, <2>2, <2>3 DEF ControlInv
<1> QED
  BY <1>1, <1>2 DEF Next, Action

(* Every variable keeps its type.  In particular no plug-in is ever disabled
   within one run: its failure_count stays below MAX_CONSECUTIVE_FAILURES. *)
THEOREM TypeCorrect == Spec => []TypeOK
<1>1. ControlInv => TypeOK
  BY DEF ControlInv
<1> QED
  BY ControlInit, ControlStep, <1>1, PTL DEF Spec

-----------------------------------------------------------------------------
LEMMA MarkedFinite ==
    ASSUME NEW s \in Seq(Entry), NEW E
    PROVE  IsFiniteSet(Marked(s, E)) /\ Cardinality(Marked(s, E)) \in Nat
<1>1. Marked(s, E) \in SUBSET (1 .. Len(s)) /\ Len(s) \in Nat
  BY DEF Marked
<1>2. IsFiniteSet(1 .. Len(s))
  BY <1>1, FS_Interval
<1> QED
  BY <1>1, <1>2, FS_Subset, FS_CardinalityType

LEMMA MarkedAppend ==
    ASSUME NEW s \in Seq(Entry), NEW e \in Entry, NEW E
    PROVE  Cardinality(Marked(Append(s, e), E)) =
             Cardinality(Marked(s, E)) + (IF e.event \in E THEN 1 ELSE 0)
<1>1. /\ DOMAIN Append(s, e) = DOMAIN s \cup {Len(s) + 1}
      /\ Len(s) + 1 \notin DOMAIN s
      /\ \A i \in DOMAIN s : Append(s, e)[i] = s[i]
      /\ Append(s, e)[Len(s) + 1] = e
  OBVIOUS
<1>2. CASE e.event \in E
  <2>1. Marked(Append(s, e), E) = Marked(s, E) \cup {Len(s) + 1}
    BY <1>1, <1>2 DEF Marked
  <2>2. Len(s) + 1 \notin Marked(s, E)
    BY <1>1 DEF Marked
  <2> QED
    BY <1>2, <2>1, <2>2, MarkedFinite, FS_AddElement
<1>3. CASE e.event \notin E
  <2>1. Marked(Append(s, e), E) = Marked(s, E)
    BY <1>1, <1>3 DEF Marked
  <2> QED
    BY <1>3, <2>1, MarkedFinite
<1> QED
  BY <1>2, <1>3

LEMMA CountType ==
    ASSUME TypeOK, NEW p \in Proc, NEW E
    PROVE  Count(p, E) \in Nat
  BY MarkedFinite DEF TypeOK, Count

LEMMA EmitCounts ==
    ASSUME TypeOK, NEW p \in Proc, NEW entry \in Entry, Emit(p, entry), NEW E
    PROVE  \/ Count(p, E)' = Count(p, E) + (IF entry.event \in E THEN 1 ELSE 0)
           \/ Count(p, E)' = Count(p, E) /\ "disk_full" \in faults
<1>1. journal[p] \in Seq(Entry)
  BY DEF TypeOK
<1>2. Count(p, E)' = Cardinality(Marked(journal'[p], E))
  BY DEF Count
<1>3. CASE journal'[p] = Append(journal[p], entry)
  BY <1>1, <1>2, <1>3, MarkedAppend DEF Count
<1>4. CASE journal'[p] = journal[p] /\ "disk_full" \in faults
  BY <1>2, <1>4 DEF Count
<1> QED
  BY <1>3, <1>4, EmitType

-----------------------------------------------------------------------------
Attempts == {"run_start", "retry"}

(* The inductive invariant behind JournalLeadsExecution: by how many entries
   the journal is ahead of the subprocesses, at every point of a run. *)
Lead(p) ==
    LET lead == Count(p, Attempts) - spawns[p]
    IN  /\ pc[p] \in {"idle", "load_plugins", "run_start"} =>
               lead = 0 /\ spawns[p] = 0
        /\ pc[p] \in {"dispatch", "legacy_log", "audit_log"} =>
               lead = (IF hook[p] = "pre_run" THEN 1 ELSE 0)
        /\ pc[p] = "spawn" => lead = 1
        /\ pc[p] \in {"subprocess", "next_attempt", "run_end"} => lead = 0
        /\ lead \in {0, 1}

LeadInv == "disk_full" \notin faults => \A p \in Proc : Lead(p)

LEMMA LeadInit == Init => LeadInv
<1> SUFFICES ASSUME Init, NEW p \in Proc PROVE Lead(p)
  BY DEF LeadInv
<1>1. Marked(<<>>, Attempts) = {}
  BY DEF Marked
<1>2. Count(p, Attempts) = 0
  BY <1>1, FS_EmptySet DEF Init, Count
<1> QED
  BY <1>2 DEF Init, Lead

LEMMA LeadStep == ControlInv /\ LeadInv /\ [Next]_vars => LeadInv'
<1> SUFFICES ASSUME ControlInv, LeadInv, [Next]_vars, "disk_full" \notin faults'
             PROVE  \A p \in Proc : Lead(p)'
  BY DEF LeadInv
<1>1. CASE UNCHANGED vars
  BY <1>1 DEF vars, LeadInv, Lead, Count
<1>2. ASSUME NEW p \in Proc, Action(p), UNCHANGED faults PROVE \A q \in Proc : Lead(q)'
  <2>1. TypeOK /\ Control(p) /\ Lead(p) /\ "disk_full" \notin faults
    BY <1>2 DEF ControlInv, LeadInv
  <2>2. ASSUME NEW q \in Proc \ {p} PROVE Lead(q)'
    BY <1>2, <2>1, <2>2, OthersUntouched DEF LeadInv, Lead, Local, Count
  <2>3. Lead(p)'
    <3> DEFINE n == Count(p, Attempts)
    <3>1. n \in Nat /\ spawns[p] \in Nat
      BY <2>1, CountType DEF TypeOK
    <3>2. ASSUME journal' = journal PROVE n' = n
      BY <3>2 DEF Count
    <3>3. ASSUME NEW event \in Events, Emit(p, Plain(event))
          PROVE  n' = n + (IF event \in Attempts THEN 1 ELSE 0)
      BY <2>1, <3>3, PlainType, EmitCounts
    <3>4. pc \in [Proc -> Steps] /\ spawns \in [Proc -> Nat] /\ hook \in [Proc -> HookNames]
      BY <2>1 DEF TypeOK
    <3> USE <3>1, <3>4 DEF GoTo, Return, dispatchState, attemptState, Lead
    <3>5. CASE Replay(p) \/ Admit(p) \/ LoadPlugins(p) \/ WriteLegacyLog(p)
      BY <2>1, <3>2, <3>5 DEF Replay, Admit, LoadPlugins, WriteLegacyLog
    <3>6. CASE Fault(p)
      BY <2>1, <3>2, <3>6 DEF Fault, PluginLoadFails, LegacyLogFails, SpawnRaises, Crash
    <3>7. CASE Deny(p)
      BY <2>1, <3>3, <3>7 DEF Deny, Events, Attempts
    <3>8. CASE EmitRunStart(p)
      BY <2>1, <3>3, <3>8 DEF EmitRunStart, Events, Attempts, Control
    <3>9. CASE SkipPlugin(p) \/ HookReturns(p) \/ HookRaises(p)
      BY <2>1, <3>2, <3>9 DEF SkipPlugin, HookReturns, HookRaises, Calls
    <3>10. CASE DispatchDone(p)
      BY <2>1, <3>2, <3>10 DEF DispatchDone, HookNames
    <3>11. CASE EmitPluginError(p)
      BY <2>1, <3>3, <3>11 DEF EmitPluginError, Events, Attempts
    <3>12. CASE MarkRunning(p) \/ SubprocessEnds(p)
      BY <2>1, <3>2, <3>12 DEF MarkRunning, SubprocessEnds
    <3>13. CASE Retry(p)
      BY <2>1, <3>3, <3>13 DEF Retry, Events, Attempts
    <3>14. CASE ReadFinished(p)
      BY <2>1, <3>2, <3>14 DEF ReadFinished
    <3>15. CASE EmitRunEnd(p)
      <4>1. [event |-> "run_end", status |-> finished[p], exit_code |-> exit[p]]
              \in Entry
        BY <2>1, <3>15 DEF EmitRunEnd, Control, Entry, Events, TypeOK
      <4>2. n' = n
        BY <2>1, <3>15, <4>1, EmitCounts DEF EmitRunEnd, Attempts
      <4> QED
        BY <2>1, <3>15, <4>2 DEF EmitRunEnd
    <3> QED
      BY <1>2, <3>5, <3>6, <3>7, <3>8, <3>9, <3>10, <3>11, <3>12, <3>13, <3>14, <3>15
         DEF Action, Progress
  <2> QED
    BY <2>2, <2>3
<1> QED
  BY <1>1, <1>2 DEF Next, Action

(* Wherever a run is stopped or killed, the journal knows of every subprocess
   it started, and of at most one that it had not started yet. *)
THEOREM JournalLeadsExecutionCorrect == Spec => []JournalLeadsExecution
<1>1. ControlInv /\ LeadInv => JournalLeadsExecution
  <2> SUFFICES ASSUME ControlInv, LeadInv, "disk_full" \notin faults, NEW p \in Proc
               PROVE  /\ spawns[p] <= Count(p, {"run_start", "retry"})
                      /\ Count(p, {"run_start", "retry"}) <= spawns[p] + 1
    BY DEF JournalLeadsExecution
  <2>1. Count(p, Attempts) - spawns[p] \in {0, 1}
    BY DEF LeadInv, Lead
  <2>2. Count(p, Attempts) \in Nat /\ spawns[p] \in Nat
    BY CountType DEF ControlInv, TypeOK
  <2> QED
    BY <2>1, <2>2 DEF Attempts
<1> QED
  BY ControlInit, ControlStep, LeadInit, LeadStep, <1>1, PTL DEF Spec

-----------------------------------------------------------------------------
\* The events a step may journal, other than run_end.
LEMMA PlainKeepsEnds ==
    ASSUME TypeOK, NEW p \in Proc, NEW event \in Events \ {"run_end"},
           Emit(p, Plain(event))
    PROVE  Count(p, {"run_end"})' = Count(p, {"run_end"})
<1>1. Plain(event) \in Entry /\ Plain(event).event \notin {"run_end"}
  BY PlainType
<1>2. Count(p, {"run_end"}) \in Nat
  BY CountType
<1> QED
  BY <1>1, <1>2, EmitCounts

\* Where a run is that has journalled its run_end.
Ended(p) ==
    Count(p, {"run_end"}) > 0 =>
        /\ pc[p] = "returned" /\ hook[p] = "post_run"
        /\ next[p] = Len(Hooks) + 1 /\ unreported[p] = 0

EndedInv == \A p \in Proc : Ended(p)

LEMMA EndedInit == Init => EndedInv
<1> SUFFICES ASSUME Init, NEW p \in Proc PROVE Count(p, {"run_end"}) = 0
  BY DEF EndedInv, Ended
<1>1. Marked(<<>>, {"run_end"}) = {}
  BY DEF Marked
<1> QED
  BY <1>1, FS_EmptySet DEF Init, Count

LEMMA EndedStep == ControlInv /\ EndedInv /\ [Next]_vars => EndedInv'
<1> SUFFICES ASSUME ControlInv, EndedInv, [Next]_vars PROVE \A p \in Proc : Ended(p)'
  BY DEF EndedInv
<1>1. CASE UNCHANGED vars
  BY <1>1 DEF vars, EndedInv, Ended, Count
<1>2. ASSUME NEW p \in Proc, Action(p), UNCHANGED faults PROVE \A q \in Proc : Ended(q)'
  <2>1. TypeOK /\ Control(p) /\ Ended(p) /\ pc \in [Proc -> Steps]
    BY <1>2 DEF ControlInv, EndedInv, TypeOK
  <2>2. ASSUME NEW q \in Proc \ {p} PROVE Ended(q)'
    BY <1>2, <2>1, <2>2, OthersUntouched DEF EndedInv, Ended, Local, Count
  <2>3. ASSUME EmitRunEnd(p) PROVE Ended(p)'
    BY <2>1, <2>3 DEF EmitRunEnd, Control, Ended, GoTo, dispatchState
  <2>4. ASSUME ~EmitRunEnd(p) PROVE Ended(p)'
    <3>1. pc[p] # "returned" /\ ~(Count(p, {"run_end"}) > 0)
      BY <1>2, <2>1, <2>4
         DEF Ended, Action, Progress, Replay, Deny, Admit, LoadPlugins,
             EmitRunStart, SkipPlugin, HookReturns, HookRaises, Calls,
             DispatchDone, WriteLegacyLog, EmitPluginError, MarkRunning,
             SubprocessEnds, Retry, ReadFinished, Fault, PluginLoadFails,
             LegacyLogFails, SpawnRaises, Crash, GoTo, Return
    <3>2. \/ journal' = journal
          \/ \E event \in Events \ {"run_end"} : Emit(p, Plain(event))
      BY <1>2, <2>4
         DEF Action, Progress, Replay, Deny, Admit, LoadPlugins,
             EmitRunStart, SkipPlugin, HookReturns, HookRaises, Calls,
             DispatchDone, WriteLegacyLog, EmitPluginError, MarkRunning,
             SubprocessEnds, Retry, ReadFinished, Fault, PluginLoadFails,
             LegacyLogFails, SpawnRaises, Crash, Events
    <3>3. Count(p, {"run_end"})' = Count(p, {"run_end"})
      BY <2>1, <3>2, PlainKeepsEnds DEF Count
    <3> QED
      BY <3>1, <3>3 DEF Ended
  <2> QED
    BY <2>2, <2>3, <2>4
<1> QED
  BY <1>1, <1>2 DEF Next, Action

-----------------------------------------------------------------------------
Increasing(s) == \A j, k \in DOMAIN s : j < k => s[j] < s[k]

LEMMA CallAppended ==
    ASSUME NEW s \in Seq(Plugins), NEW i \in Plugins
    PROVE  /\ Range(Append(s, i)) = Range(s) \cup {i}
           /\ Increasing(s) /\ (\A j \in Range(s) : j < i) => Increasing(Append(s, i))
<1>1. /\ DOMAIN Append(s, i) = DOMAIN s \cup {Len(s) + 1}
      /\ DOMAIN s = 1 .. Len(s) /\ Len(s) \in Nat
      /\ \A k \in DOMAIN s : Append(s, i)[k] = s[k] /\ s[k] \in Range(s)
      /\ Append(s, i)[Len(s) + 1] = i
  BY DEF Range
<1>2. Range(Append(s, i)) = Range(s) \cup {i}
  BY <1>1 DEF Range
<1>3. ASSUME Increasing(s), \A j \in Range(s) : j < i
      PROVE  Increasing(Append(s, i))
  BY <1>1, <1>3 DEF Increasing
<1> QED
  BY <1>2, <1>3

(* The inductive invariant behind HooksAreIsolated: the plug-ins called for the
   hook being dispatched are those registered for it before the next one. *)
Called(p) ==
    /\ \A h \in HookNames : Increasing(calls[p][h])
    /\ Range(calls[p][hook[p]]) = {i \in Registered(hook[p]) : i < next[p]}
    /\ hook[p] = "pre_run" => calls[p]["post_run"] = <<>>
    /\ hook[p] = "post_run" => Range(calls[p]["pre_run"]) = Registered("pre_run")

CalledInv == \A p \in Proc : Called(p)

LEMMA CalledInit == Init => CalledInv
<1> SUFFICES ASSUME Init, NEW p \in Proc PROVE Called(p)
  BY DEF CalledInv
<1>1. \A h \in HookNames : calls[p][h] = <<>>
  BY DEF Init
<1>2. hook[p] = "pre_run" /\ next[p] = 1
  BY DEF Init
<1>3. {i \in Registered("pre_run") : i < 1} = {}
  BY PluginsAreNumbered DEF Registered
<1> QED
  BY <1>1, <1>2, <1>3 DEF Called, HookNames, Increasing, Range

LEMMA CalledStep == ControlInv /\ CalledInv /\ [Next]_vars => CalledInv'
<1> SUFFICES ASSUME ControlInv, CalledInv, [Next]_vars PROVE \A p \in Proc : Called(p)'
  BY DEF CalledInv
<1>1. CASE UNCHANGED vars
  BY <1>1 DEF vars, CalledInv, Called
<1>2. ASSUME NEW p \in Proc, Action(p), UNCHANGED faults PROVE \A q \in Proc : Called(q)'
  <2>1. TypeOK /\ Control(p) /\ Called(p)
    BY <1>2 DEF ControlInv, CalledInv
  <2>2. ASSUME NEW q \in Proc \ {p} PROVE Called(q)'
    BY <1>2, <2>1, <2>2, OthersUntouched DEF CalledInv, Called, Local
  <2>3. /\ calls[p] \in [HookNames -> Seq(Plugins)] /\ hook[p] \in HookNames
        /\ next[p] \in 1 .. Len(Hooks) + 1 /\ p \in DOMAIN next /\ p \in DOMAIN hook
        /\ p \in DOMAIN calls
    BY <2>1 DEF TypeOK
  <2>4. ASSUME SkipPlugin(p) PROVE Called(p)'
    <3>1. next[p] \in Plugins /\ next'[p] = next[p] + 1 /\ UNCHANGED <<hook, calls>>
      BY <2>3, <2>4, PluginsAreNumbered DEF SkipPlugin
    <3>2. ~Disabled(p, next[p])
      <4>1. strikes[p] \in [Plugins -> 0 .. 2]
        BY <2>1 DEF TypeOK, MaxConsecutiveFailures
      <4> QED
        BY <3>1, <4>1 DEF Disabled, MaxConsecutiveFailures
    <3>3. next[p] \notin Registered(hook[p])
      BY <2>4, <3>2 DEF SkipPlugin, Registered
    <3>4. {i \in Registered(hook[p]) : i < next[p] + 1}
            = {i \in Registered(hook[p]) : i < next[p]}
      BY <3>1, <3>3, PluginsAreNumbered DEF Registered
    <3> QED
      BY <2>1, <3>1, <3>4 DEF Called
  <2>5. ASSUME HookReturns(p) \/ HookRaises(p) PROVE Called(p)'
    <3> DEFINE h == hook[p]
               n == next[p]
    <3>1. /\ n \in Plugins /\ next'[p] = n + 1 /\ n \in Registered(h)
          /\ calls'[p] = [calls[p] EXCEPT ![h] = Append(@, n)]
          /\ UNCHANGED hook
      <4>1. Calls(p) /\ UNCHANGED hook
        BY <2>5 DEF HookReturns, HookRaises
      <4> QED
        BY <2>3, <4>1, PluginsAreNumbered DEF Calls, Registered
    <3>2. calls[p][h] \in Seq(Plugins) /\ Increasing(calls[p][h])
      BY <2>1, <2>3 DEF Called
    <3>3. Range(calls[p][h]) = {i \in Registered(h) : i < n}
      BY <2>1 DEF Called
    <3> HIDE DEF n, h
    <3>4. {i \in Registered(h) : i < n + 1} = {i \in Registered(h) : i < n} \cup {n}
      BY <3>1, PluginsAreNumbered DEF Registered
    <3>5. /\ Range(Append(calls[p][h], n)) = {i \in Registered(h) : i < n + 1}
          /\ Increasing(Append(calls[p][h], n))
      BY <3>1, <3>2, <3>3, <3>4, CallAppended
    <3>6. /\ hook'[p] = h /\ h \in HookNames
          /\ calls'[p][h] = Append(calls[p][h], n)
          /\ \A g \in HookNames \ {h} : calls'[p][g] = calls[p][g]
      BY <2>3, <3>1 DEF h
    <3>7. \A g \in HookNames : Increasing(calls'[p][g])
      BY <2>1, <3>5, <3>6 DEF Called
    <3>8. Range(calls'[p][hook'[p]]) = {i \in Registered(hook'[p]) : i < next'[p]}
      BY <3>1, <3>5, <3>6
    <3>9. /\ hook'[p] = "pre_run" => calls'[p]["post_run"] = <<>>
          /\ hook'[p] = "post_run" => Range(calls'[p]["pre_run"]) = Registered("pre_run")
      BY <2>1, <3>6 DEF Called, HookNames, h
    <3> QED
      BY <3>7, <3>8, <3>9 DEF Called
  <2>6. ASSUME ReadFinished(p) PROVE Called(p)'
    <3>1. /\ hook[p] = "pre_run" /\ next[p] = Len(Hooks) + 1 /\ UNCHANGED calls
          /\ hook'[p] = "post_run" /\ next'[p] = 1
      BY <2>1, <2>3, <2>6 DEF ReadFinished, GoTo, Control
    <3>2. /\ {i \in Registered("pre_run") : i < Len(Hooks) + 1} = Registered("pre_run")
          /\ {i \in Registered("post_run") : i < 1} = {}
      BY PluginsAreNumbered DEF Registered
    <3>3. Range(<<>>) = {}
      BY DEF Range
    <3> QED
      BY <2>1, <3>1, <3>2, <3>3 DEF Called
  <2>7. ASSUME ~(SkipPlugin(p) \/ HookReturns(p) \/ HookRaises(p) \/ ReadFinished(p))
        PROVE  Called(p)'
    <3>1. UNCHANGED <<hook, next, calls>>
      BY <1>2, <2>7
         DEF Action, Progress, Replay, Deny, Admit, LoadPlugins, EmitRunStart,
             DispatchDone, WriteLegacyLog, EmitPluginError, MarkRunning,
             SubprocessEnds, Retry, EmitRunEnd, Fault, PluginLoadFails,
             LegacyLogFails, SpawnRaises, Crash, dispatchState
    <3> QED
      BY <2>1, <3>1 DEF Called
  <2> QED
    BY <2>2, <2>4, <2>5, <2>6, <2>7
<1> QED
  BY <1>1, <1>2 DEF Next, Action

(* Whatever the plug-ins do, each hook is called once per plug-in that provides
   it, in allowlist order, and a run that gets to its end leaves out none. *)
THEOREM HooksAreIsolatedCorrect == Spec => []HooksAreIsolated
<1>1. ControlInv /\ CalledInv /\ EndedInv => HooksAreIsolated
  <2> SUFFICES ASSUME ControlInv, CalledInv, EndedInv, NEW p \in Proc, NEW h \in HookNames
               PROVE  /\ Increasing(calls[p][h])
                      /\ \E n \in 1 .. Len(Hooks) + 1 :
                            /\ Range(calls[p][h]) = {i \in Registered(h) : i < n}
                            /\ Attempted(p) => n = Len(Hooks) + 1
    BY DEF HooksAreIsolated, Increasing
  <2>1. TypeOK /\ Control(p) /\ Called(p) /\ Ended(p)
    BY DEF ControlInv, CalledInv, EndedInv
  <2>2. Attempted(p) => hook[p] = "post_run" /\ next[p] = Len(Hooks) + 1
    BY <2>1 DEF Attempted, Control, Ended
  <2>3. next[p] \in 1 .. Len(Hooks) + 1 /\ hook[p] \in HookNames
    BY <2>1 DEF TypeOK
  <2>4. CASE h = hook[p]
    BY <2>1, <2>2, <2>3, <2>4 DEF Called
  <2>5. CASE h # hook[p] /\ h = "pre_run"
    <3>1. Range(calls[p][h]) = Registered(h)
      BY <2>1, <2>3, <2>5 DEF Called, HookNames
    <3>2. {i \in Registered(h) : i < Len(Hooks) + 1} = Registered(h)
      BY PluginsAreNumbered DEF Registered
    <3>3. Len(Hooks) + 1 \in 1 .. Len(Hooks) + 1
      BY PluginsAreNumbered
    <3> QED
      BY <2>1, <3>1, <3>2, <3>3 DEF Called
  <2>6. CASE h # hook[p] /\ h = "post_run"
    <3>1. hook[p] = "pre_run" /\ calls[p][h] = <<>>
      BY <2>1, <2>3, <2>6 DEF Called, HookNames
    <3>2. Range(<<>>) = {} /\ {i \in Registered(h) : i < 1} = {}
      BY PluginsAreNumbered DEF Range, Registered
    <3>3. 1 \in 1 .. Len(Hooks) + 1
      BY PluginsAreNumbered
    <3> QED
      BY <2>1, <2>2, <3>1, <3>2, <3>3 DEF Called
  <2> QED
    BY <2>4, <2>5, <2>6 DEF HookNames
<1> QED
  BY ControlInit, ControlStep, CalledInit, CalledStep, EndedInit, EndedStep, <1>1, PTL
     DEF Spec

-----------------------------------------------------------------------------
(* The inductive invariant behind FailuresAreReported: every exception caught
   so far has its entry or is still to be reported by this dispatch. *)
Reported(p) ==
    /\ IsFiniteSet(Raised(p))
    /\ "disk_full" \notin faults =>
           Count(p, {"plugin_error"}) + unreported[p] = Cardinality(Raised(p))

ReportedInv == \A p \in Proc : Reported(p)

LEMMA ReportedInit == Init => ReportedInv
<1> SUFFICES ASSUME Init, NEW p \in Proc PROVE Reported(p)
  BY DEF ReportedInv
<1>1. Marked(<<>>, {"plugin_error"}) = {}
  BY DEF Marked
<1>2. Raised(p) = {}
  BY DEF Init, Raised
<1>3. Count(p, {"plugin_error"}) = 0 /\ unreported[p] = 0
  BY <1>1, FS_EmptySet DEF Init, Count
<1> QED
  BY <1>2, <1>3, FS_EmptySet DEF Reported

LEMMA RaisedGrows ==
    ASSUME NEW p \in Proc, TypeOK, Control(p), HookRaises(p)
    PROVE  /\ Raised(p)' = Raised(p) \cup {<<next[p], strikes[p][next[p]] + 1>>}
           /\ <<next[p], strikes[p][next[p]] + 1>> \notin Raised(p)
<1> DEFINE i == next[p]
           n == strikes[p][next[p]]
<1>1. /\ i \in Plugins /\ strikes[p] \in [Plugins -> 0 .. 2]
      /\ strikes'[p] = [strikes[p] EXCEPT ![i] = @ + 1]
      /\ ~(n >= 3)
  BY PluginsAreNumbered
     DEF HookRaises, Calls, Disabled, TypeOK, MaxConsecutiveFailures
<1>2. Turns(i, i, hook[p]) <= 1 /\ Turns(i, i, hook[p]) \in Nat
  BY <1>1, PluginsAreNumbered DEF Turns
<1>3. n \in Nat /\ n <= 1
  BY <1>1, <1>2 DEF Control
<1>4. /\ strikes'[p][i] = n + 1
      /\ \A j \in Plugins \ {i} : strikes'[p][j] = strikes[p][j]
  BY <1>1
<1>5. Raised(p)' = {e \in Plugins \X (1 .. 3) : e[2] <= strikes'[p][e[1]]}
  BY DEF Raised, MaxConsecutiveFailures
<1>6. Raised(p) = {e \in Plugins \X (1 .. 3) : e[2] <= strikes[p][e[1]]}
  BY DEF Raised, MaxConsecutiveFailures
<1> HIDE DEF i, n
<1>7. \A e \in Plugins \X (1 .. 3) :
          e[2] <= strikes'[p][e[1]] <=> e[2] <= strikes[p][e[1]] \/ e = <<i, n + 1>>
  <2> SUFFICES ASSUME NEW j \in Plugins, NEW k \in 1 .. 3
               PROVE  k <= strikes'[p][j] <=> k <= strikes[p][j] \/ <<j, k>> = <<i, n + 1>>
    OBVIOUS
  <2>1. CASE j = i
    <3>1. strikes[p][i] = n
      BY DEF i, n
    <3> QED
      BY <1>3, <1>4, <2>1, <3>1
  <2>2. CASE j # i
    BY <1>4, <2>2
  <2> QED
    BY <2>1, <2>2
<1>8. <<i, n + 1>> \in Plugins \X (1 .. 3)
  BY <1>1, <1>3
<1>9. <<i, n + 1>> \notin Raised(p)
  <2>1. strikes[p][i] = n
    BY DEF i, n
  <2> QED
    BY <1>3, <1>6, <2>1
<1>10. Raised(p)' = Raised(p) \cup {<<i, n + 1>>}
  BY <1>5, <1>6, <1>7, <1>8
<1> QED
  BY <1>9, <1>10 DEF i, n

LEMMA ReportedStep == ControlInv /\ ReportedInv /\ [Next]_vars => ReportedInv'
<1> SUFFICES ASSUME ControlInv, ReportedInv, [Next]_vars PROVE \A p \in Proc : Reported(p)'
  BY DEF ReportedInv
<1>1. CASE UNCHANGED vars
  BY <1>1 DEF vars, ReportedInv, Reported, Count, Raised
<1>2. ASSUME NEW p \in Proc, Action(p), UNCHANGED faults PROVE \A q \in Proc : Reported(q)'
  <2>1. /\ TypeOK /\ Control(p) /\ Reported(p)
        /\ unreported[p] \in Nat /\ p \in DOMAIN unreported
    BY <1>2 DEF ControlInv, ReportedInv, TypeOK
  <2>2. ASSUME NEW q \in Proc \ {p} PROVE Reported(q)'
    BY <1>2, <2>1, <2>2, OthersUntouched DEF ReportedInv, Reported, Local, Count, Raised
  <2> DEFINE n == Count(p, {"plugin_error"})
  <2>3. n \in Nat
    BY <2>1, CountType
  <2>4. ASSUME NEW entry \in Entry, entry.event # "plugin_error", Emit(p, entry)
        PROVE  n' = n
    BY <2>1, <2>3, <2>4, EmitCounts
  <2>5. ASSUME strikes' = strikes PROVE Raised(p)' = Raised(p)
    BY <2>5 DEF Raised
  <2>6. ASSUME strikes' = strikes, unreported' = unreported, n' = n
        PROVE  Reported(p)'
    BY <1>2, <2>1, <2>5, <2>6 DEF Reported
  <2>7. ASSUME journal' = journal PROVE n' = n
    BY <2>7 DEF Count
  <2>8. CASE HookRaises(p)
    <3>1. n' = n /\ unreported'[p] = unreported[p] + 1
      BY <2>1, <2>7, <2>8 DEF HookRaises
    <3>2. IsFiniteSet(Raised(p)') /\ Cardinality(Raised(p)') = Cardinality(Raised(p)) + 1
      <4> DEFINE x == <<next[p], strikes[p][next[p]] + 1>>
      <4>1. Raised(p)' = Raised(p) \cup {x} /\ x \notin Raised(p)
        BY <2>1, <2>8, RaisedGrows
      <4>2. IsFiniteSet(Raised(p))
        BY <2>1 DEF Reported
      <4> HIDE DEF x
      <4> QED
        BY <4>1, <4>2, FS_AddElement
    <3>3. Cardinality(Raised(p)) \in Nat
      BY <2>1, FS_CardinalityType DEF Reported
    <3>4. Reported(p)'
      BY <1>2, <2>1, <2>3, <3>1, <3>2, <3>3 DEF Reported
    <3> QED
      BY <2>2, <3>4
  <2>9. CASE EmitPluginError(p)
    <3>1. /\ unreported'[p] = unreported[p] - 1 /\ strikes' = strikes
          /\ Emit(p, Plain("plugin_error"))
      BY <2>1, <2>9 DEF EmitPluginError
    <3>2. "disk_full" \notin faults => n' = n + 1
      <4>1. "plugin_error" \in Events /\ "plugin_error" \in {"plugin_error"}
        BY DEF Events
      <4> QED
        BY <2>1, <3>1, <4>1, PlainType, EmitCounts
    <3>3. Reported(p)'
      BY <1>2, <2>1, <2>3, <2>5, <3>1, <3>2 DEF Reported
    <3> QED
      BY <2>2, <3>3
  <2>10. CASE EmitRunEnd(p)
    <3>1. [event |-> "run_end", status |-> finished[p], exit_code |-> exit[p]] \in Entry
      BY <2>1, <2>10 DEF EmitRunEnd, GoTo, Control, Entry, Events, TypeOK
    <3>2. n' = n
      BY <2>4, <2>10, <3>1 DEF EmitRunEnd
    <3> QED
      BY <2>2, <2>6, <2>10, <3>2 DEF EmitRunEnd, dispatchState
  <2>11. CASE ~(HookRaises(p) \/ EmitPluginError(p) \/ EmitRunEnd(p))
    <3>1. UNCHANGED <<strikes, unreported>>
      BY <1>2, <2>11
         DEF Action, Progress, Replay, Deny, Admit, LoadPlugins, EmitRunStart,
             SkipPlugin, HookReturns, DispatchDone, WriteLegacyLog, MarkRunning,
             SubprocessEnds, Retry, ReadFinished, Fault, PluginLoadFails,
             LegacyLogFails, SpawnRaises, Crash, dispatchState
    <3>2. \/ journal' = journal
          \/ \E event \in Events \ {"plugin_error"} : Emit(p, Plain(event))
      BY <1>2, <2>11
         DEF Action, Progress, Replay, Deny, Admit, LoadPlugins, EmitRunStart,
             SkipPlugin, HookReturns, DispatchDone, WriteLegacyLog, MarkRunning,
             SubprocessEnds, Retry, ReadFinished, Fault, PluginLoadFails,
             LegacyLogFails, SpawnRaises, Crash, Events
    <3>3. n' = n
      BY <2>4, <2>7, <3>2, PlainType
    <3> QED
      BY <2>2, <2>6, <3>1, <3>3
  <2> QED
    BY <2>8, <2>9, <2>10, <2>11
<1> QED
  BY <1>1, <1>2 DEF Next, Action

(* Every exception a hook raised is journalled, once, before its run gets to
   its end, for any number of runs at the same time. *)
THEOREM FailuresAreReportedCorrect == Spec => []FailuresAreReported
<1>1. ControlInv /\ EndedInv /\ ReportedInv => FailuresAreReported
  <2> SUFFICES ASSUME ControlInv, EndedInv, ReportedInv, "disk_full" \notin faults,
                      NEW p \in Proc
               PROVE  /\ Count(p, {"plugin_error"}) + unreported[p] = Cardinality(Raised(p))
                      /\ Attempted(p) => Count(p, {"plugin_error"}) = Cardinality(Raised(p))
    BY DEF FailuresAreReported
  <2>1. Count(p, {"plugin_error"}) + unreported[p] = Cardinality(Raised(p))
    BY DEF ReportedInv, Reported
  <2>2. Attempted(p) => unreported[p] = 0
    BY DEF Attempted, ControlInv, Control, EndedInv, Ended
  <2>3. Count(p, {"plugin_error"}) \in Nat
    BY CountType DEF ControlInv
  <2> QED
    BY <2>1, <2>2, <2>3
<1> QED
  BY ControlInit, ControlStep, EndedInit, EndedStep, ReportedInit, ReportedStep, <1>1, PTL
     DEF Spec

-----------------------------------------------------------------------------
Tells(e) == e.event = "run_end" => e.status \in Outcomes /\ e.exit_code = ExitOf(e.status)

(* The inductive invariant behind RunEndTellsTheOutcome: status and exit code
   belong to the same attempt from its end until run_end has been written. *)
Telling(p) ==
    /\ \A i \in DOMAIN journal[p] : Tells(journal[p][i])
    /\ pc[p] = "next_attempt" => status \in Outcomes /\ exit[p] = ExitOf(status)
    /\ (pc[p] \in {"dispatch", "legacy_log", "audit_log", "run_end"} /\ hook[p] = "post_run")
           => finished[p] \in Outcomes /\ exit[p] = ExitOf(finished[p])

TellingInv == \A p \in Proc : Telling(p)

LEMMA TellingInit == Init => TellingInv
  BY DEF Init, TellingInv, Telling

LEMMA TellingEmit ==
    ASSUME NEW p \in Proc, NEW entry \in Entry, TypeOK, Telling(p), Tells(entry),
           Emit(p, entry)
    PROVE  \A i \in DOMAIN journal'[p] : Tells(journal'[p][i])
<1>1. CASE journal'[p] = journal[p]
  BY <1>1 DEF Telling
<1>2. CASE journal'[p] = Append(journal[p], entry)
  <2>1. journal[p] \in Seq(Entry)
    BY DEF TypeOK
  <2>2. /\ DOMAIN journal'[p] = DOMAIN journal[p] \cup {Len(journal[p]) + 1}
        /\ \A i \in DOMAIN journal[p] : journal'[p][i] = journal[p][i]
        /\ journal'[p][Len(journal[p]) + 1] = entry
    BY <1>2, <2>1
  <2> QED
    BY <2>2 DEF Telling
<1> QED
  BY <1>1, <1>2, EmitType

LEMMA TellingStep ==
    ASSUME \A p, q \in Proc : p = q
    PROVE  ControlInv /\ TellingInv /\ [Next]_vars => TellingInv'
<1> SUFFICES ASSUME ControlInv, TellingInv, [Next]_vars PROVE TellingInv'
  OBVIOUS
<1>1. CASE UNCHANGED vars
  BY <1>1 DEF vars, TellingInv, Telling
<1>2. ASSUME NEW p \in Proc, Action(p) PROVE TellingInv'
  <2>1. TypeOK /\ Control(p) /\ Telling(p)
    BY DEF ControlInv, TellingInv
  <2>2. ASSUME journal' = journal PROVE \A i \in DOMAIN journal'[p] : Tells(journal'[p][i])
    BY <2>1, <2>2 DEF Telling
  <2>3. ASSUME NEW event \in Events \ {"run_end"}, Emit(p, Plain(event))
        PROVE  \A i \in DOMAIN journal'[p] : Tells(journal'[p][i])
    <3>1. Plain(event) \in Entry /\ Tells(Plain(event))
      BY PlainType DEF Tells
    <3> QED
      BY <2>1, <2>3, <3>1, TellingEmit
  <2>4. /\ pc \in [Proc -> Steps] /\ exit \in [Proc -> {0, 1, 3, 4, 6}]
        /\ p \in DOMAIN hook /\ p \in DOMAIN finished
    BY <2>1 DEF TypeOK
  <2>5. Telling(p)'
    <3> USE <2>1, <2>4
        DEF GoTo, Return, dispatchState, attemptState, Telling
    <3>1. CASE Replay(p) \/ Admit(p) \/ LoadPlugins(p) \/ WriteLegacyLog(p) \/ Fault(p)
      BY <2>2, <3>1 DEF Replay, Admit, LoadPlugins, WriteLegacyLog, Fault,
         PluginLoadFails, LegacyLogFails, SpawnRaises, Crash, Control
    <3>2. CASE Deny(p) \/ EmitRunStart(p) \/ EmitPluginError(p) \/ Retry(p)
      BY <2>3, <3>2 DEF Deny, EmitRunStart, EmitPluginError, Retry, Events, Control
    <3>3. CASE SkipPlugin(p) \/ HookReturns(p) \/ HookRaises(p) \/ DispatchDone(p)
      BY <2>2, <3>3 DEF SkipPlugin, HookReturns, HookRaises, Calls, DispatchDone
    <3>4. CASE MarkRunning(p)
      BY <2>2, <3>4 DEF MarkRunning
    <3>5. CASE SubprocessEnds(p)
      BY <2>2, <3>5 DEF SubprocessEnds
    <3>6. CASE ReadFinished(p)
      BY <2>2, <3>6 DEF ReadFinished
    <3>7. CASE EmitRunEnd(p)
      <4> DEFINE entry == [event |-> "run_end", status |-> finished[p], exit_code |-> exit[p]]
      <4>1. entry \in Entry
        BY <3>7 DEF EmitRunEnd, Control, Entry, Events, TypeOK
      <4>2. finished[p] \in Outcomes /\ exit[p] = ExitOf(finished[p])
        BY <3>7 DEF EmitRunEnd, Control
      <4>3. Tells(entry)
        BY <4>2 DEF Tells
      <4>4. \A i \in DOMAIN journal'[p] : Tells(journal'[p][i])
        BY <3>7, <4>1, <4>3, TellingEmit DEF EmitRunEnd
      <4> QED
        BY <3>7, <4>4 DEF EmitRunEnd
    <3> QED
      BY <1>2, <3>1, <3>2, <3>3, <3>4, <3>5, <3>6, <3>7 DEF Action, Progress
  <2> QED
    BY <2>5 DEF TellingInv
<1> QED
  BY <1>1, <1>2 DEF Next, Action

(* What the journal of a run says is so, as long as no other process runs the
   same task: a second one may merge its own status between the end of the
   subprocess and the read-back of the record. *)
THEOREM EntriesAreTrueCorrect ==
    ASSUME \A p, q \in Proc : p = q
    PROVE  Spec => []EntriesAreTrue
<1>1. ControlInv /\ TellingInv => TypeOK /\ RunEndTellsTheOutcome
  BY DEF ControlInv, TellingInv, Telling, Tells, RunEndTellsTheOutcome
<1>2. Spec => [](TypeOK /\ RunEndTellsTheOutcome)
  BY ControlInit, ControlStep, TellingInit, TellingStep, <1>1, PTL DEF Spec
<1>3. TypeOK /\ RunEndTellsTheOutcome /\ FailuresAreReported => EntriesAreTrue
  BY DEF EntriesAreTrue
<1> QED
  BY <1>2, <1>3, FailuresAreReportedCorrect, PTL
=============================================================================
