-------------------------- MODULE CommandLineProofs --------------------------
(***************************************************************************)
(* Theorems about CommandLine, for every threshold, cooldown and depth     *)
(* limit and every combination of faults.                                  *)
(***************************************************************************)
EXTENDS CommandLine, DagProofs

\* The fields of `last'.
LEMMA LastFields ==
    \A c, e, s : LET answer == [command |-> c, exit |-> e, started |-> s]
                 IN  answer.command = c /\ answer.exit = e /\ answer.started = s
  BY Zenon

(* A damaged tasks.json is reported and kept.  The guard that makes it so is
   in each subcommand, and no other variable takes part. *)
LEMMA DamageStep ==
    ASSUME [Next]_vars
    PROVE  [corrupt =>
              /\ last'.command \in {"submit", "status", "list", "graph", "export"}
                   => last'.exit = 1
              /\ last'.command \notin {"clear", "dispatch submit"}
                   => corrupt']_vars
<1> SUFFICES ASSUME Next, corrupt
             PROVE  /\ last'.command \in {"submit", "status", "list", "graph",
                                          "export"} => last'.exit = 1
                    /\ last'.command \notin {"clear", "dispatch submit"}
                         => corrupt'
  OBVIOUS
<1>1. /\ \A deps : SubmitAnswers(deps, TRUE) = 1
      /\ \A deps, valid : SubmitAnswers(deps, valid) = 1
  BY Zenon DEF SubmitAnswers
<1>2. ~AcceptSubmit /\ ~SubmitLosesItsLog
  <2>1. 1 # 0
    OBVIOUS
  <2> QED
    BY <1>1, <2>1, Zenon DEF AcceptSubmit, SubmitLosesItsLog
<1>3. CASE RejectSubmit
  <2>1. PICK code : /\ \E deps, valid : code = SubmitAnswers(deps, valid)
                    /\ Exits("submit", code)
                    /\ corrupt' = corrupt
    BY <1>3, Zenon DEF RejectSubmit, OnlyAnswers
  <2>2. code = 1
    BY <1>1, <2>1, Zenon
  <2> QED
    BY <2>1, <2>2 DEF Exits
<1>4. CASE LegacyReject \/ LegacySubmit
  <2>1. \E code : Exits("dispatch submit", code)
    BY <1>4, Zenon DEF LegacyReject, LegacySubmit, OnlyAnswers
  <2>2. last'.command = "dispatch submit"
    BY <2>1, LastFields, Zenon DEF Exits
  <2> QED
    BY <2>2
<1>5. CASE RunUnknown \/ RunFindsNoPlugin
  <2>1. (\E code : Exits("run", code)) \/ (\E code : Exits("dispatch run", code))
    BY <1>5, Zenon DEF RunUnknown, RunFindsNoPlugin, OnlyAnswers
  <2>2. \A name, code : Exits(name, code) => last'.command = name
    BY LastFields DEF Exits
  <2>3. last'.command = "run" \/ last'.command = "dispatch run"
    BY <2>1, <2>2, Zenon
  <2>4. corrupt' = corrupt
    BY <1>5, Zenon DEF RunUnknown, RunFindsNoPlugin, OnlyAnswers
  <2> QED
    BY <2>3, <2>4
<1>6. CASE RunReplays \/ RunDenied
  <2>1. corrupt' = corrupt /\ \E code : Exits("run", code)
    BY <1>6, Zenon DEF RunReplays, RunDenied, OnlyAnswers
  <2> QED
    BY <2>1 DEF Exits
<1>6a. CASE RunIsCutShort \/ RunExecutes
  <2>1. corrupt' = corrupt /\ \E code : ExitsAfterStarting("run", code)
    BY <1>6a, Zenon DEF RunIsCutShort, RunExecutes
  <2> QED
    BY <2>1 DEF ExitsAfterStarting
<1>7. CASE BatchDenied
  BY <1>7 DEF BatchDenied, OnlyAnswers, Exits
<1>8. CASE Batch
  <2>1. /\ corrupt' = corrupt
        /\ \E code, started : last' = [command |-> "run --all", exit |-> code,
                                      started |-> started]
    BY <1>8, Zenon DEF Batch
  <2>2. last'.command = "run --all"
    BY <2>1, LastFields, Zenon
  <2> QED
    BY <2>1, <2>2
<1>9. CASE ListTasks \/ GraphOfTasks \/ Export
  <2>1. corrupt' = corrupt /\ \E command : Exits(command, 1)
    BY <1>9, Zenon
       DEF ListTasks, GraphOfTasks, Export, StrictAnswer, OnlyAnswers
  <2> QED
    BY <2>1 DEF Exits
<1>10. CASE StatusOf
  BY <1>10 DEF StatusOf, StrictAnswer, OnlyAnswers, Exits
<1>11. CASE PluginsList
  BY <1>11 DEF PluginsList, OnlyAnswers, Exits
<1>12. CASE Clear
  BY <1>12 DEF Clear, Exits
<1>13. CASE Tick \/ Damage \/ EditRing
  <2>1. last' = Nothing /\ corrupt'
    BY <1>13, Zenon DEF Tick, Damage, EditRing
  <2> QED
    BY <2>1 DEF Nothing
<1> QED
  BY <1>2, <1>3, <1>4, <1>5, <1>6, <1>7, <1>8, <1>9, <1>10, <1>11, <1>12,
     <1>13, <1>6a, Zenon DEF Next

(* However the user and the environment mix the subcommands, a damaged
   tasks.json is answered with exit 1 by every subcommand that reads it
   strictly, and survives all of them but clear and the old dispatch(). *)
THEOREM DamageIsEvidence == Spec => DamageIsReportedAndKept
  BY DamageStep, PTL DEF Spec, DamageIsReportedAndKept

-----------------------------------------------------------------------------
(* The inductive invariant: breaker.json and the failures that were fed to it
   tell the same story.  A closed breaker counts the failures in a row; an
   open or half-open one has seen Threshold of them; an open one remembers
   when the last of them was, and a half-open one that it is Cooldown ago. *)
Reached(n) == n > 0 /\ n >= Threshold

TellsTheStreak(r, n, at, t) ==
    /\ r.state = "CLOSED" => r.failure_count = n /\ ~Reached(n)
    /\ r.state # "CLOSED" => Reached(n)
    /\ r.state = "OPEN" => r.opened_at = at
    /\ r.state = "HALF_OPEN" => t - at >= Cooldown

BreakerInv ==
    /\ breaker \in BreakerRecord \cup {NoFile}
    /\ now \in Nat /\ streak \in Nat /\ failedAt \in Nat
    /\ TellsTheStreak(FromRecord(breaker), streak, failedAt, now)

LEMMA RecordTypes ==
    /\ Cold \in BreakerRecord
    /\ breaker \in BreakerRecord \cup {NoFile} =>
          FromRecord(breaker) \in BreakerRecord
    /\ \A r \in BreakerRecord : FromRecord(r) = r
  BY BreakerAssumption DEF Cold, FromRecord, BreakerRecord, BreakerStates

\* What the breaker says of a stopped queue: it does not admit.
LEMMA StoppedIsDenied ==
    ASSUME BreakerInv
    PROVE  Stopped <=> ~Admitted
<1> DEFINE r == FromRecord(breaker)
<1>1. r \in BreakerRecord
  BY RecordTypes DEF BreakerInv
<1>2. r.state \in {"CLOSED", "OPEN", "HALF_OPEN"} /\ r.opened_at \in Nat
  BY <1>1 DEF BreakerRecord, BreakerStates
<1>3. TellsTheStreak(r, streak, failedAt, now)
  BY DEF BreakerInv
<1>4. now \in Nat /\ failedAt \in Nat /\ streak \in Nat
  BY DEF BreakerInv
<1> HIDE DEF r
<1>5. Admits(r, now) <=> ~(r.state = "OPEN" /\ now - r.opened_at < Cooldown)
  BY <1>2, <1>4, BreakerAssumption DEF Admits, CooledDown
<1> QED
  BY <1>2, <1>3, <1>4, <1>5, BreakerAssumption
     DEF Stopped, Admitted, r, TellsTheStreak, Reached

\* allow_request() on an admitting breaker keeps the story and closes nothing.
LEMMA AdmissionTells ==
    ASSUME BreakerInv, Admitted
    PROVE  /\ Admission \in BreakerRecord
           /\ Admission.state # "OPEN"
           /\ TellsTheStreak(Admission, streak, failedAt, now)
<1> DEFINE r == FromRecord(breaker)
<1>1. r \in BreakerRecord
  BY RecordTypes DEF BreakerInv
<1>2. TellsTheStreak(r, streak, failedAt, now) /\ Admits(r, now)
  BY DEF BreakerInv, Admitted
<1>3. now \in Nat /\ failedAt \in Nat /\ streak \in Nat
  BY DEF BreakerInv
<1>4. Admission = AllowRequest(r, now)
  BY DEF Admission
<1> HIDE DEF r
<1>5. CASE r.state = "OPEN"
  <2>1. CooledDown(r, now)
    BY <1>2, <1>5 DEF Admits
  <2>2. Admission = [r EXCEPT !.state = "HALF_OPEN"]
    BY <1>4, <1>5, <2>1 DEF AllowRequest
  <2> QED
    BY <1>1, <1>2, <1>3, <1>5, <2>1, <2>2, BreakerAssumption
       DEF TellsTheStreak, CooledDown, BreakerRecord, BreakerStates
<1>6. CASE r.state # "OPEN"
  <2>1. Admission = r
    BY <1>4, <1>6 DEF AllowRequest
  <2> QED
    BY <1>1, <1>2, <1>6, <2>1
<1> QED
  BY <1>5, <1>6

\* One more final failure, fed to an admitted breaker.
LEMMA FailureTells ==
    ASSUME NEW r \in BreakerRecord, NEW n \in Nat, NEW at \in Nat, NEW t \in Nat,
           r.state # "OPEN", TellsTheStreak(r, n, at, t)
    PROVE  /\ RecordFailure(r, t) \in BreakerRecord
           /\ TellsTheStreak(RecordFailure(r, t),
                             IF Reached(n) THEN n ELSE n + 1, t, t)
<1>1. /\ r.state \in {"CLOSED", "OPEN", "HALF_OPEN"}
      /\ r.failure_count \in Nat /\ r.opened_at \in Nat
  BY DEF BreakerRecord, BreakerStates
<1>2. CASE r.state = "HALF_OPEN"
  <2>1. RecordFailure(r, t) = [state |-> "OPEN", opened_at |-> t,
                               failure_count |-> r.failure_count]
    BY <1>2 DEF RecordFailure, Trip, BreakerRecord
  <2>2. Reached(n)
    BY <1>2 DEF TellsTheStreak
  <2> QED
    BY <1>1, <2>1, <2>2 DEF TellsTheStreak, BreakerRecord, BreakerStates
<1>3. CASE r.state = "CLOSED"
  <2>1. r.failure_count = n /\ ~Reached(n)
    BY <1>3 DEF TellsTheStreak
  <2>2. Reached(n + 1) <=> n + 1 >= Threshold
    BY BreakerAssumption DEF Reached
  <2>3. CASE n + 1 >= Threshold
    <3>1. RecordFailure(r, t) =
            [state |-> "OPEN", failure_count |-> n + 1, opened_at |-> t]
      BY <1>3, <2>1, <2>3 DEF RecordFailure, Trip, Counted, BreakerRecord
    <3> QED
      BY <2>1, <2>2, <2>3, <3>1 DEF TellsTheStreak, BreakerRecord, BreakerStates
  <2>4. CASE ~(n + 1 >= Threshold)
    <3>1. RecordFailure(r, t) =
            [state |-> "CLOSED", failure_count |-> n + 1,
             opened_at |-> r.opened_at]
      BY <1>3, <2>1, <2>4 DEF RecordFailure, Trip, Counted, BreakerRecord
    <3> QED
      BY <1>1, <2>1, <2>2, <2>4, <3>1
         DEF TellsTheStreak, BreakerRecord, BreakerStates
  <2> QED
    BY <2>3, <2>4
<1> QED
  BY <1>1, <1>2, <1>3

LEMMA SuccessTells ==
    ASSUME NEW r \in BreakerRecord, NEW at \in Nat, NEW t \in Nat
    PROVE  /\ RecordSuccess(r) \in BreakerRecord
           /\ TellsTheStreak(RecordSuccess(r), 0, at, t)
<1> DEFINE s == RecordSuccess(r)
<1>1. s \in BreakerRecord /\ s.state = "CLOSED" /\ s.failure_count = 0
  BY DEF RecordSuccess, BreakerRecord, BreakerStates
<1> HIDE DEF s
<1>2. TellsTheStreak(s, 0, at, t)
  BY <1>1 DEF TellsTheStreak, Reached
<1> QED
  BY <1>1, <1>2 DEF s

-----------------------------------------------------------------------------
LEMMA BreakerInit == Init => BreakerInv
  BY RecordTypes
     DEF Init, BreakerInv, TellsTheStreak, Reached, FromRecord, Cold

LEMMA CoolingGoesOn ==
    \A t, u, at \in Nat : t - at >= Cooldown /\ u >= t => u - at >= Cooldown
  BY BreakerAssumption

\* The breaker and its history are left alone, or time passes.
LEMMA BreakerStays ==
    ASSUME BreakerInv, breaker' = breaker, streak' = streak,
           failedAt' = failedAt, now' \in Nat, now' >= now
    PROVE  BreakerInv'
<1> DEFINE r == FromRecord(breaker)
<1>1. FromRecord(breaker') = r
  OBVIOUS
<1>2. TellsTheStreak(r, streak, failedAt, now)
  BY DEF BreakerInv
<1>3. now \in Nat /\ failedAt \in Nat /\ breaker \in BreakerRecord \cup {NoFile}
      /\ streak \in Nat
  BY DEF BreakerInv
<1> HIDE DEF r
<1>4. TellsTheStreak(r, streak, failedAt, now')
  <2>1. now - failedAt >= Cooldown => now' - failedAt >= Cooldown
    BY <1>3, CoolingGoesOn, Zenon
  <2> QED
    BY <1>2, <2>1 DEF TellsTheStreak
<1> QED
  BY <1>1, <1>3, <1>4 DEF BreakerInv

\* The admission is written and no outcome is fed.
LEMMA BreakerAdmits ==
    ASSUME BreakerInv, Admitted, breaker' = Admission, streak' = streak,
           failedAt' = failedAt, now' = now
    PROVE  BreakerInv'
<1>1. FromRecord(breaker') = Admission /\ Admission \in BreakerRecord
  BY AdmissionTells, RecordTypes
<1> QED
  BY <1>1, AdmissionTells DEF BreakerInv

LEMMA BreakerIsFed ==
    ASSUME BreakerInv, Admitted, NEW outcome, Fed(outcome), now' = now
    PROVE  BreakerInv'
<1>1. now \in Nat /\ streak \in Nat /\ failedAt \in Nat
  BY DEF BreakerInv
<1>2. CASE outcome = "done"
  <2>1. /\ breaker' = RecordSuccess(Admission)
        /\ streak' = 0 /\ failedAt' = failedAt
    BY <1>2 DEF Fed
  <2>2. /\ RecordSuccess(Admission) \in BreakerRecord
        /\ TellsTheStreak(RecordSuccess(Admission), 0, failedAt, now)
    BY <1>1, AdmissionTells, SuccessTells
  <2>3. FromRecord(breaker') = breaker'
    BY <2>1, <2>2, RecordTypes
  <2> QED
    BY <1>1, <2>1, <2>2, <2>3 DEF BreakerInv
<1>3. CASE outcome # "done"
  <2>1. /\ breaker' = RecordFailure(Admission, now)
        /\ streak' = (IF Reached(streak) THEN streak ELSE streak + 1)
        /\ failedAt' = now
    BY <1>3 DEF Fed, Reached
  <2>2. /\ RecordFailure(Admission, now) \in BreakerRecord
        /\ TellsTheStreak(RecordFailure(Admission, now), streak', now, now)
    BY <1>1, <2>1, AdmissionTells, FailureTells
  <2>3. FromRecord(breaker') = breaker'
    BY <2>1, <2>2, RecordTypes
  <2> QED
    BY <1>1, <2>1, <2>2, <2>3 DEF BreakerInv
<1> QED
  BY <1>2, <1>3

LEMMA BreakerStep == BreakerInv /\ [Next]_vars => BreakerInv'
<1> SUFFICES ASSUME BreakerInv, [Next]_vars PROVE BreakerInv'
  OBVIOUS
<1>0. now \in Nat
  BY DEF BreakerInv
<1>1. CASE \/ RejectSubmit \/ AcceptSubmit \/ SubmitLosesItsLog
           \/ LegacyReject \/ LegacySubmit
           \/ RunUnknown \/ RunReplays \/ RunDenied \/ BatchDenied
           \/ ListTasks \/ GraphOfTasks \/ Export \/ StatusOf \/ PluginsList
           \/ Damage \/ EditRing \/ UNCHANGED vars
  <2>1. UNCHANGED <<breaker, streak, failedAt, now>>
    BY <1>1, Zenon
       DEF RejectSubmit, AcceptSubmit, SubmitLosesItsLog,
             LegacyReject, LegacySubmit,
           RunUnknown, RunReplays, RunDenied, BatchDenied, ListTasks,
           GraphOfTasks, Export, OnlyAnswers, StatusOf,
           PluginsList, Damage, EditRing, vars, history
  <2> QED
    BY <1>0, <2>1, BreakerStays
<1>2. CASE RunFindsNoPlugin \/ RunIsCutShort \/ Batch
  <2>1. /\ Admitted /\ breaker' = Admission
        /\ UNCHANGED <<streak, failedAt, now>>
    BY <1>2, Zenon DEF RunFindsNoPlugin, RunIsCutShort, Batch, history
  <2> QED
    BY <2>1, BreakerAdmits
<1>3. CASE RunExecutes
  <2>1. Admitted /\ now' = now /\ \E outcome : Fed(outcome)
    BY <1>3, Zenon DEF RunExecutes
  <2> QED
    BY <2>1, BreakerIsFed
<1>4. CASE Clear
  <2>1. /\ UNCHANGED <<now, failedAt>>
        /\ \/ UNCHANGED <<breaker, streak>>
           \/ breaker' = NoFile /\ streak' = 0
    BY <1>4, Zenon DEF Clear
  <2>2. CASE UNCHANGED <<breaker, streak>>
    BY <1>0, <2>1, <2>2, BreakerStays
  <2>3. CASE breaker' = NoFile /\ streak' = 0
    BY <2>1, <2>3
       DEF BreakerInv, TellsTheStreak, Reached, FromRecord, Cold
  <2> QED
    BY <2>1, <2>2, <2>3
<1>5. CASE Tick
  <2>1. UNCHANGED <<breaker, streak, failedAt>> /\ now' = now + 1
    BY <1>5, Zenon DEF Tick, history
  <2> QED
    BY <1>0, <2>1, BreakerStays
<1> QED
  BY <1>1, <1>2, <1>3, <1>4, <1>5, Zenon DEF Next

\* Past the gates only on an admission; run --all answers 3 only if denied.
LEMMA OnlyAdmittedStarts ==
    ASSUME Next
    PROVE  /\ last'.started => Admitted
           /\ last'.command = "run --all" /\ last'.exit = 3 => ~Admitted
<1>1. CASE \/ RejectSubmit \/ AcceptSubmit \/ SubmitLosesItsLog
           \/ LegacyReject \/ LegacySubmit
           \/ RunUnknown \/ RunReplays \/ RunDenied \/ RunFindsNoPlugin
           \/ ListTasks \/ GraphOfTasks \/ Export \/ StatusOf
           \/ PluginsList \/ Clear
  <2>1. \E command, code : /\ command \in Commands \ {"run --all"}
                        /\ Exits(command, code)
    <3>1. /\ Commands \ {"run --all"} =
               {"submit", "run", "status", "list", "graph", "export",
                "plugins", "clear", "dispatch submit", "dispatch run"}
      BY DEF Commands
    <3> QED
      BY <1>1, <3>1, Zenon
         DEF RejectSubmit, AcceptSubmit, SubmitLosesItsLog, LegacyReject,
             LegacySubmit, RunUnknown, RunFindsNoPlugin, RunReplays, RunDenied,
             ListTasks, GraphOfTasks, Export, OnlyAnswers, StatusOf,
             PluginsList, Clear
  <2>2. PICK command, code : /\ command \in Commands \ {"run --all"}
                            /\ Exits(command, code)
    BY <2>1
  <2>3. last'.command = command /\ ~last'.started
    BY <2>2, LastFields, Zenon DEF Exits
  <2> QED
    BY <2>2, <2>3
<1>2. CASE BatchDenied
  <2>1. ~Admitted /\ Exits("run --all", 3)
    BY <1>2 DEF BatchDenied, OnlyAnswers
  <2> QED
    BY <2>1 DEF Exits
<1>3. CASE RunIsCutShort \/ RunExecutes
  <2>1. Admitted /\ \E code : ExitsAfterStarting("run", code)
    BY <1>3, Zenon DEF RunIsCutShort, RunExecutes
  <2> QED
    BY <2>1 DEF ExitsAfterStarting
<1>4. CASE Batch
  <2>1. Admitted
    BY <1>4 DEF Batch
  <2>2. PICK code, started : /\ code = 1 \/ code = 0
                             /\ last' = [command |-> "run --all", exit |-> code,
                                         started |-> started]
    BY <1>4, Zenon DEF Batch
  <2>3. last'.exit = code
    BY <2>2, LastFields, Zenon
  <2>4. code # 3
    <3>1. 1 # 3 /\ 0 # 3
      OBVIOUS
    <3> QED
      BY <2>2, <3>1, Zenon
  <2> QED
    BY <2>1, <2>3, <2>4, Zenon
<1>5. CASE Tick \/ Damage \/ EditRing
  <2>1. last' = Nothing
    BY <1>5, Zenon DEF Tick, Damage, EditRing
  <2> QED
    BY <2>1 DEF Nothing
<1> QED
  BY <1>1, <1>2, <1>3, <1>4, <1>5, Zenon DEF Next

LEMMA StoppedStep ==
    ASSUME BreakerInv, [Next]_vars
    PROVE  [/\ Stopped => ~last'.started
            /\ last'.command = "run --all" /\ last'.exit = 3 => Stopped]_vars
  BY StoppedIsDenied, OnlyAdmittedStarts

(* After Threshold final failures in a row that `run <id>` told the breaker,
   nothing but a success of `run <id>` or a removal of breaker.json lets a
   subcommand start a task before the cooldown is over, and run --all is
   denied in no other case: for every Threshold and Cooldown, zero and
   negative ones included.  Failures in batches are not counted. *)
THEOREM QueueIsStopped == Spec => FailedRunsStopTheQueue
<1>1. Spec => []BreakerInv
  BY BreakerInit, BreakerStep, PTL DEF Spec
<1> QED
  BY <1>1, StoppedStep, PTL DEF Spec, FailedRunsStopTheQueue

-----------------------------------------------------------------------------
(* What audit.jsonl and the dependencies say of tasks.json.  A batch is a     *)
(* recursion over its layers, so its part is an induction: on the set of the  *)
(* numbers of layers after which all is well.                                 *)

BatchLayers == Layers([t \in Pending |-> tasks[t].depends_on])

BeforeBatch == [tasks |-> tasks, entries |-> [t \in Pending |-> <<>>],
                raised |-> FALSE]

\* What the recursion of AfterBatch asks of its value after n layers.
AfterLayers(f, n, ends) ==
    IF n = 0 THEN BeforeBatch ELSE AfterLayer(f[n - 1], BatchLayers[n], ends)

Follows(f, k, ends) == f = [n \in 0 .. k |-> AfterLayers(f, n, ends)]

LEMMA FollowsExists ==
    ASSUME NEW ends, NEW k \in Nat
    PROVE  \E f : Follows(f, k, ends)
<1> DEFINE S == {n \in 0 .. k : \E f : Follows(f, n, ends)}
<1>1. 0 \in S
  <2> DEFINE f == [n \in 0 .. 0 |-> BeforeBatch]
  <2>1. \A n \in 0 .. 0 : AfterLayers(f, n, ends) = BeforeBatch
    BY DEF AfterLayers
  <2>2. f = [n \in 0 .. 0 |-> AfterLayers(f, n, ends)]
    <3> HIDE DEF f
    <3> SUFFICES f = [n \in 0 .. 0 |-> BeforeBatch]
      BY <2>1
    <3> QED
      BY DEF f
  <2>3. Follows(f, 0, ends)
    BY <2>2 DEF Follows
  <2> QED
    BY <2>3
<1>2. ASSUME NEW n \in 0 .. k, n + 1 \in 0 .. k, n \in S PROVE n + 1 \in S
  <2>1. PICK f : Follows(f, n, ends)
    BY <1>2
  <2> DEFINE g == [i \in 0 .. (n + 1) |->
                     IF i = n + 1 THEN AfterLayer(f[n], BatchLayers[n + 1], ends)
                     ELSE f[i]]
  <2>2. \A i \in 0 .. n : f[i] = AfterLayers(f, i, ends) /\ g[i] = f[i]
    BY <2>1 DEF Follows
  <2>3. \A i \in 0 .. (n + 1) : g[i] = AfterLayers(g, i, ends)
    <3> SUFFICES ASSUME NEW i \in 0 .. (n + 1) PROVE g[i] = AfterLayers(g, i, ends)
      OBVIOUS
    <3>1. CASE i = 0
      <4>1. 0 \in 0 .. n
        OBVIOUS
      <4>2. f[0] = AfterLayers(f, 0, ends) /\ g[0] = f[0]
        BY <2>2, <4>1
      <4> HIDE DEF g
      <4> QED
        BY <3>1, <4>2 DEF AfterLayers
    <3>2. CASE i # 0
      <4>1. i - 1 \in 0 .. n /\ g[i - 1] = f[i - 1]
        BY <2>2, <3>2
      <4>2. g[i] = AfterLayer(f[i - 1], BatchLayers[i], ends)
        <5>1. CASE i = n + 1
          BY <5>1
        <5>2. CASE i # n + 1
          <6>1. i \in 0 .. n
            BY <5>2
          <6> QED
            BY <2>2, <3>2, <6>1 DEF AfterLayers
        <5> QED
          BY <5>1, <5>2
      <4> HIDE DEF g
      <4> QED
        BY <3>2, <4>1, <4>2 DEF AfterLayers
    <3> QED
      BY <3>1, <3>2
  <2>4. Follows(g, n + 1, ends)
    <3> DEFINE h == [i \in 0 .. (n + 1) |-> AfterLayers(g, i, ends)]
    <3>1. \A i \in 0 .. (n + 1) : g[i] = h[i]
      BY <2>3
    <3>2. g = h
      BY <3>1
    <3> HIDE DEF g
    <3> QED
      BY <3>2 DEF Follows
  <2> QED
    BY <1>2, <2>4
<1> HIDE DEF S
<1>3. k \in S
  BY <1>1, <1>2, CountingUp DEF S
<1> QED
  BY <1>3 DEF S

\* The recursive definition defines what it says.
LEMMA AfterBatchFollows ==
    ASSUME NEW ends, Len(BatchLayers) \in Nat
    PROVE  \E f : /\ Follows(f, Len(BatchLayers), ends)
                  /\ AfterBatch(ends) = f[Len(BatchLayers)]
<1> DEFINE f == CHOOSE f : Follows(f, Len(BatchLayers), ends)
<1>1. AfterBatch(ends) = f[Len(BatchLayers)]
  BY DEF AfterBatch, Follows, AfterLayers, BeforeBatch, BatchLayers
<1>2. \E h : Follows(h, Len(BatchLayers), ends)
  BY FollowsExists
<1>3. Follows(f, Len(BatchLayers), ends)
  BY <1>2
<1> QED
  BY <1>1, <1>3

-----------------------------------------------------------------------------
TaskRecord == [status : Statuses, depends_on : SUBSET Id]

LEMMA RecordStatus ==
    ASSUME NEW r \in TaskRecord, NEW s \in Statuses
    PROVE  /\ [r EXCEPT !.status = s] \in TaskRecord
           /\ [r EXCEPT !.status = s].status = s
           /\ [r EXCEPT !.status = s].depends_on = r.depends_on
  BY DEF TaskRecord

LEMMA EventsDiffer ==
    /\ \A e \in {<<"none">>, <<"submit">>, <<"blocked">>, <<"run_start">>} :
          \A s : e # <<"run_end", s>>
    /\ <<"none">> # <<"blocked">> /\ <<"submit">> # <<"blocked">>
    /\ <<"run_start">> \notin {<<"none">>, <<"submit">>, <<"blocked">>}
    /\ \A s, u : <<"run_end", s>> = <<"run_end", u>> => s = u
  OBVIOUS

\* The last of these entries, if there is one, explains the record.
Tells(entries, record) ==
    entries # <<>> => Explains(entries[Len(entries)], record)

LEMMA EntriesTell ==
    ASSUME NEW gated \in BOOLEAN, NEW end \in Outcomes \cup {"running"}
    PROVE  /\ Entries(gated, end) \in Seq(Events) /\ Entries(gated, end) # <<>>
           /\ \A r : r.status = (IF gated THEN "blocked" ELSE end) =>
                 Tells(Entries(gated, end), r)
           /\ ~gated /\ end = "running" => \A r : Tells(Entries(gated, end), r)
<1>1. /\ <<"blocked">> \in Events /\ <<"run_start">> \in Events
      /\ \A s \in Outcomes : <<"run_end", s>> \in Events
  BY DEF Events
<1>2. \A r : Explains(<<"run_start">>, r)
  BY EventsDiffer DEF Explains
<1>3. CASE gated
  <2>1. Entries(gated, end) = << <<"blocked">> >>
    BY <1>3 DEF Entries
  <2>2. \A r : r.status = "blocked" => Explains(<<"blocked">>, r)
    BY EventsDiffer DEF Explains
  <2>3. \A r : r.status = "blocked" => Tells(Entries(gated, end), r)
    BY <2>1, <2>2 DEF Tells
  <2>4. Entries(gated, end) \in Seq(Events) /\ Entries(gated, end) # <<>>
    BY <1>1, <2>1
  <2> QED
    BY <1>3, <2>3, <2>4
<1>4. CASE ~gated /\ end = "running"
  <2>1. Entries(gated, end) = << <<"run_start">> >>
    BY <1>4 DEF Entries
  <2> QED
    BY <1>1, <1>2, <1>4, <2>1 DEF Tells
<1>5. CASE ~gated /\ end # "running"
  <2>1. Entries(gated, end) = << <<"run_start">>, <<"run_end", end>> >>
    BY <1>5 DEF Entries
  <2>2. \A r : r.status = end => Explains(<<"run_end", end>>, r)
    BY EventsDiffer DEF Explains
  <2>3. <<"run_end", end>> \in Events
    BY <1>1, <1>5
  <2> QED
    BY <1>1, <1>5, <2>1, <2>2, <2>3 DEF Tells
<1> QED
  BY <1>3, <1>4, <1>5

\* What a subcommand leaves in the journal, whatever is lost of its entries:
\* of a task whose latest entry is kept the last one.
LEMMA EmitsTell ==
    ASSUME journal \in [Id -> Events], unheard \subseteq Id,
           NEW entries, DOMAIN entries \subseteq Id,
           \A t \in DOMAIN entries : entries[t] \in Seq(Events),
           Emits(entries)
    PROVE  /\ journal' \in [Id -> Events] /\ unheard' \subseteq Id
           /\ \A t \in Id : (t \in DOMAIN entries => entries[t] = <<>>) =>
                 journal'[t] = journal[t] /\ (t \in unheard' <=> t \in unheard)
           /\ \A t \in DOMAIN entries \ unheard' : entries[t] # <<>> =>
                 journal'[t] = entries[t][Len(entries[t])]
<1>1. PICK lost :
          /\ \A t \in DOMAIN entries : lost[t] \in Losses(t, entries[t])
          /\ journal' = [t \in Id |->
                IF t \in DOMAIN entries
                THEN LastKept(journal[t], entries[t], lost[t]) ELSE journal[t]]
          /\ unheard' = {t \in DOMAIN entries : lost[t] > 0}
                \cup {t \in unheard : t \in DOMAIN entries => entries[t] = <<>>}
  BY Zenon DEF Emits
<1>2. ASSUME NEW t \in DOMAIN entries
      PROVE  /\ lost[t] \in 0 .. Len(entries[t]) /\ Len(entries[t]) \in Nat
             /\ entries[t] = <<>> => lost[t] = 0
             /\ entries[t] # <<>> => Len(entries[t]) > 0
  <2>1. entries[t] \in Seq(Events)
    OBVIOUS
  <2>2. Len(entries[t]) \in Nat /\ (entries[t] = <<>> <=> Len(entries[t]) = 0)
    BY <2>1
  <2>3. lost[t] \in 0 .. Len(entries[t])
    BY <1>1, <2>2 DEF Losses
  <2> QED
    BY <2>2, <2>3
<1>3. ASSUME NEW t \in DOMAIN entries
      PROVE  /\ LastKept(journal[t], entries[t], lost[t]) \in Events
             /\ entries[t] = <<>> =>
                   LastKept(journal[t], entries[t], lost[t]) = journal[t]
             /\ entries[t] # <<>> /\ ~(lost[t] > 0) =>
                   LastKept(journal[t], entries[t], lost[t])
                       = entries[t][Len(entries[t])]
  <2>1. entries[t] \in Seq(Events) /\ journal[t] \in Events
    OBVIOUS
  <2>2. CASE lost[t] < Len(entries[t])
    <3>1. LastKept(journal[t], entries[t], lost[t])
            = entries[t][Len(entries[t]) - lost[t]]
      BY <2>2 DEF LastKept
    <3>2. Len(entries[t]) - lost[t] \in 1 .. Len(entries[t])
      BY <1>2, <2>2
    <3>3. ~(lost[t] > 0) => Len(entries[t]) - lost[t] = Len(entries[t])
      BY <1>2
    <3>4. entries[t][Len(entries[t]) - lost[t]] \in Events
      BY <2>1, <3>2, ElementOfSeq
    <3>5. entries[t] # <<>>
      BY <1>2, <2>2
    <3> QED
      BY <3>1, <3>3, <3>4, <3>5
  <2>3. CASE ~(lost[t] < Len(entries[t]))
    <3>1. LastKept(journal[t], entries[t], lost[t]) = journal[t]
      BY <2>3 DEF LastKept
    <3>2. entries[t] # <<>> => lost[t] > 0
      BY <1>2, <2>3
    <3> QED
      BY <2>1, <3>1, <3>2
  <2> QED
    BY <2>2, <2>3
<1>4. \A t \in DOMAIN entries : t \in Id
  OBVIOUS
<1>5. ASSUME NEW t \in Id
      PROVE  /\ t \in DOMAIN entries =>
                    journal'[t] = LastKept(journal[t], entries[t], lost[t])
             /\ t \notin DOMAIN entries => journal'[t] = journal[t]
  BY <1>1
<1>6. journal' \in [Id -> Events]
  BY <1>1, <1>3
<1>7. unheard' \subseteq Id
  BY <1>1
<1>8. ASSUME NEW t \in Id, t \in DOMAIN entries => entries[t] = <<>>
      PROVE  journal'[t] = journal[t] /\ (t \in unheard' <=> t \in unheard)
  <2>1. t \in DOMAIN entries => ~(lost[t] > 0)
    BY <1>2, <1>8
  <2> QED
    BY <1>1, <1>3, <1>5, <1>8, <2>1
<1>9. ASSUME NEW t \in DOMAIN entries \ unheard', entries[t] # <<>>
      PROVE  journal'[t] = entries[t][Len(entries[t])]
  <2>1. ~(lost[t] > 0)
    BY <1>1
  <2>2. LastKept(journal[t], entries[t], lost[t]) = entries[t][Len(entries[t])]
    BY <1>3, <1>9, <2>1
  <2>3. journal'[t] = LastKept(journal[t], entries[t], lost[t])
    BY <1>4, <1>5
  <2> QED
    BY <2>2, <2>3
<1> QED
  BY <1>6, <1>7, <1>8, <1>9

\* ... about one task.
LEMMA EmitTells ==
    ASSUME journal \in [Id -> Events], unheard \subseteq Id,
           NEW t \in Id, NEW entries \in Seq(Events), entries # <<>>,
           Emit(t, entries)
    PROVE  /\ journal' \in [Id -> Events] /\ unheard' \subseteq Id
           /\ \A u \in Id : u # t =>
                 journal'[u] = journal[u] /\ (u \in unheard' <=> u \in unheard)
           /\ t \notin unheard' => journal'[t] = entries[Len(entries)]
<1> DEFINE es == [u \in {t} |-> entries]
<1>1. DOMAIN es = {t} /\ es[t] = entries /\ Emits(es)
  BY DEF Emit
<1> HIDE DEF es
<1>2. /\ DOMAIN es \subseteq Id
      /\ \A u \in DOMAIN es : es[u] \in Seq(Events)
  BY <1>1
<1>3. /\ journal' \in [Id -> Events] /\ unheard' \subseteq Id
      /\ \A u \in Id : (u \in DOMAIN es => es[u] = <<>>) =>
            journal'[u] = journal[u] /\ (u \in unheard' <=> u \in unheard)
      /\ \A u \in DOMAIN es \ unheard' : es[u] # <<>> =>
            journal'[u] = es[u][Len(es[u])]
  BY <1>1, <1>2, EmitsTell
<1> QED
  BY <1>1, <1>3

\* DoneRespectsDependencies, one task at a time.
Respects(stored, t) ==
    stored[t].status = "done" =>
        \A d \in stored[t].depends_on \cap DOMAIN stored :
            stored[d].status = "done" \/ d \in forced

(* The strengthening: nobody depends on, and no journal line is about, a task
   that has yet to be submitted. *)
StoreInv ==
    /\ DOMAIN tasks \subseteq 1 .. issued
    /\ \A t \in DOMAIN tasks : /\ tasks[t] \in TaskRecord
                               /\ tasks[t].depends_on \subseteq 1 .. issued
                               /\ t \notin unheard => Explains(journal[t], tasks[t])
    /\ \A t \in DOMAIN tasks \ forced : Respects(tasks, t)
    /\ corrupt \in BOOLEAN
    /\ corrupt => DOMAIN tasks = {}
    /\ journal \in [Id -> Events]
    /\ \A t \in Id : t > issued => journal[t] = <<"none">>
    /\ issued \in 0 .. MaxTasks
    /\ forced \subseteq Id
    /\ unheard \subseteq Id

-----------------------------------------------------------------------------
\* The batch after n of its layers: the tasks of the others are untouched.
BatchInv(done, n) ==
    /\ DOMAIN done.tasks = DOMAIN tasks
    /\ \A t \in DOMAIN tasks :
          /\ done.tasks[t] \in TaskRecord
          /\ done.tasks[t].depends_on = tasks[t].depends_on
          /\ t \in Pending => Tells(done.entries[t], done.tasks[t])
          /\ (t \in Pending => done.entries[t] = <<>>) => done.tasks[t] = tasks[t]
          /\ (\A i \in 1 .. n : t \notin BatchLayers[i]) => done.tasks[t] = tasks[t]
    /\ \A t \in DOMAIN tasks \ forced : Respects(done.tasks, t)
    /\ done.entries \in [Pending -> Seq(Events)]

LEMMA LayersOfPending ==
    ASSUME StoreInv
    PROVE  /\ Len(BatchLayers) \in Nat
           /\ \A i \in 1 .. Len(BatchLayers) : BatchLayers[i] \subseteq Pending
           /\ \A i, j \in 1 .. Len(BatchLayers) :
                 i # j => BatchLayers[i] \cap BatchLayers[j] = {}
<1> DEFINE g == [t \in Pending |-> tasks[t].depends_on]
<1>1. IsFiniteSet(DOMAIN g) /\ DOMAIN g = Pending
  <2>1. IsFiniteSet(1 .. issued)
    BY FS_Interval DEF StoreInv
  <2> QED
    BY <2>1, FS_Subset DEF StoreInv, Pending
<1>2. Partition(BatchLayers, Pending)
  <2> HIDE DEF g
  <2> QED
    BY <1>1, LayersPartition DEF BatchLayers, g
<1> QED
  BY <1>2 DEF Partition

LEMMA LayerKeepsBatch ==
    ASSUME StoreInv, NEW n \in Nat, n + 1 \in 1 .. Len(BatchLayers),
           NEW ends \in [Pending -> Outcomes \cup {"running"}],
           NEW done, BatchInv(done, n)
    PROVE  BatchInv(AfterLayer(done, BatchLayers[n + 1], ends), n + 1)
<1> DEFINE layer == BatchLayers[n + 1]
           gated == {t \in layer : Unmet(done.tasks, t) # {}}
           Status(t) == IF t \in gated THEN "blocked" ELSE ends[t]
           next == AfterLayer(done, layer, ends)
<1>1. layer \subseteq Pending /\ Pending \subseteq DOMAIN tasks /\ DOMAIN tasks \subseteq Id
  <2>1. Pending \subseteq DOMAIN tasks /\ layer \subseteq Pending
    BY LayersOfPending DEF Pending
  <2>2. DOMAIN tasks \subseteq Id
    BY CommandLineAssumption DEF StoreInv, Id
  <2> QED
    BY <2>1, <2>2
<1>2. 1 .. n \subseteq 1 .. (n + 1) /\ n + 1 \in 1 .. (n + 1)
  OBVIOUS
<1>3. CASE done.raised
  <2>1. next = done
    BY <1>3 DEF AfterLayer
  <2> QED
    BY <1>2, <2>1 DEF BatchInv
<1>4. CASE ~done.raised
  <2>1. /\ next.tasks = [t \in DOMAIN done.tasks |->
                           IF t \in layer THEN [done.tasks[t] EXCEPT !.status = Status(t)]
                           ELSE done.tasks[t]]
        /\ next.entries = [t \in Pending |->
                             IF t \in layer THEN Entries(t \in gated, ends[t])
                             ELSE done.entries[t]]
    BY <1>4 DEF AfterLayer
  <2>2. \A t \in layer : done.tasks[t].status = "pending"
    <3>1. \A t \in layer, i \in 1 .. n : t \notin BatchLayers[i]
      BY LayersOfPending
    <3> QED
      BY <1>1, <3>1 DEF BatchInv, Pending
  <2>3. ASSUME NEW t \in layer
        PROVE  /\ Status(t) \in Statuses
               /\ Status(t) = "done" => Unmet(done.tasks, t) = {}
    <3>1. ends[t] \in Outcomes \cup {"running"}
      BY <1>1
    <3> QED
      BY <3>1 DEF Statuses, Outcomes
  <2>4. ASSUME NEW t \in layer
        PROVE  /\ Entries(t \in gated, ends[t]) \in Seq(Events)
               /\ Entries(t \in gated, ends[t]) # <<>>
               /\ \A r : r.status = Status(t) => Tells(Entries(t \in gated, ends[t]), r)
    <3>1. ends[t] \in Outcomes \cup {"running"} /\ (t \in gated) \in BOOLEAN
      BY <1>1
    <3> HIDE DEF gated
    <3> QED
      BY <3>1, EntriesTell
  <2> HIDE DEF layer, gated, Status, next
  <2>5. ASSUME NEW t \in DOMAIN tasks
        PROVE  /\ next.tasks[t] \in TaskRecord
               /\ next.tasks[t].depends_on = tasks[t].depends_on
               /\ t \in Pending => Tells(next.entries[t], next.tasks[t])
               /\ (t \in Pending => next.entries[t] = <<>>) => next.tasks[t] = tasks[t]
               /\ t \in layer => next.tasks[t].status = Status(t)
               /\ t \notin layer => next.tasks[t] = done.tasks[t]
    <3>1. CASE t \in layer
      <4>1. next.tasks[t] = [done.tasks[t] EXCEPT !.status = Status(t)]
        BY <2>1, <3>1 DEF BatchInv
      <4>2. t \in Pending /\ next.entries[t] = Entries(t \in gated, ends[t])
        BY <1>1, <2>1, <3>1
      <4>3. /\ next.tasks[t] \in TaskRecord /\ next.tasks[t].status = Status(t)
            /\ next.tasks[t].depends_on = done.tasks[t].depends_on
        BY <2>3, <3>1, <4>1, RecordStatus DEF BatchInv
      <4> QED
        BY <2>4, <3>1, <4>2, <4>3 DEF BatchInv
    <3>2. CASE t \notin layer
      <4>1. next.tasks[t] = done.tasks[t]
        BY <2>1, <3>2 DEF BatchInv
      <4>2. t \in Pending => next.entries[t] = done.entries[t]
        BY <2>1, <3>2
      <4> QED
        BY <3>2, <4>1, <4>2 DEF BatchInv
    <3> QED
      BY <3>1, <3>2
  <2>6. DOMAIN next.tasks = DOMAIN tasks
    BY <2>1 DEF BatchInv
  <2>7. ASSUME NEW t \in DOMAIN tasks \ forced, next.tasks[t].status = "done",
               NEW d \in next.tasks[t].depends_on \cap DOMAIN tasks
        PROVE  next.tasks[d].status = "done" \/ d \in forced
    <3>1. done.tasks[d].status = "done" \/ d \in forced
      <4>1. d \in done.tasks[t].depends_on \cap DOMAIN done.tasks
        BY <2>5, <2>7 DEF BatchInv
      <4>2. CASE t \in layer
        BY <2>3, <2>5, <2>7, <4>1, <4>2 DEF Unmet
      <4>3. CASE t \notin layer
        BY <2>5, <2>7, <4>1, <4>3 DEF BatchInv, Respects
      <4> QED
        BY <4>2, <4>3
    <3> QED
      BY <2>2, <2>5, <3>1
  <2>8. \A t \in DOMAIN tasks \ forced : Respects(next.tasks, t)
    BY <2>6, <2>7 DEF Respects
  <2>9. next.entries \in [Pending -> Seq(Events)]
    BY <1>1, <2>1, <2>4 DEF BatchInv
  <2>10. ASSUME NEW t \in DOMAIN tasks, \A i \in 1 .. (n + 1) : t \notin BatchLayers[i]
         PROVE  next.tasks[t] = tasks[t]
    BY <1>2, <2>5, <2>10 DEF BatchInv, layer
  <2> QED
    BY <2>5, <2>6, <2>8, <2>9, <2>10 DEF BatchInv, next, layer
<1> QED
  BY <1>3, <1>4

LEMMA BatchKeepsStore ==
    ASSUME StoreInv, NEW ends \in [Pending -> Outcomes \cup {"running"}]
    PROVE  BatchInv(AfterBatch(ends), Len(BatchLayers))
<1> DEFINE k == Len(BatchLayers)
<1>1. k \in Nat
  BY LayersOfPending
<1>2. PICK f : Follows(f, k, ends) /\ AfterBatch(ends) = f[k]
  BY <1>1, AfterBatchFollows
<1>3. \A n \in 0 .. k : f[n] = AfterLayers(f, n, ends)
  BY <1>2 DEF Follows
<1> DEFINE S == {n \in 0 .. k : BatchInv(f[n], n)}
<1> HIDE DEF k
<1>4. 0 \in S
  <2>1. 0 \in 0 .. k /\ f[0] = AfterLayers(f, 0, ends)
    BY <1>1, <1>3
  <2>2. f[0] = BeforeBatch
    BY <2>1 DEF AfterLayers
  <2>3. BatchInv(f[0], 0)
    <3>1. <<>> \in Seq(Events) /\ \A r : Tells(<<>>, r)
      BY DEF Tells
    <3> QED
      BY <2>2, <3>1 DEF BeforeBatch, BatchInv, StoreInv
  <2> QED
    BY <2>1, <2>3
<1>5. ASSUME NEW n \in 0 .. k, n + 1 \in 0 .. k, n \in S PROVE n + 1 \in S
  <2>1. n \in Nat /\ n + 1 \in 1 .. k /\ n + 1 # 0 /\ (n + 1) - 1 = n
    BY <1>1, <1>5
  <2>2. f[n + 1] = AfterLayers(f, n + 1, ends)
    BY <1>3, <1>5
  <2>3. f[n + 1] = AfterLayer(f[n], BatchLayers[n + 1], ends)
    BY <2>1, <2>2 DEF AfterLayers
  <2>4. BatchInv(f[n], n)
    BY <1>5
  <2>5. BatchInv(f[n + 1], n + 1)
    BY <2>1, <2>3, <2>4, LayerKeepsBatch DEF k
  <2> QED
    BY <1>5, <2>5
<1> HIDE DEF S
<1>6. k \in S
  <2>1. S \in SUBSET (0 .. k)
    BY DEF S
  <2> QED
    BY <1>1, <1>4, <1>5, <2>1, CountingUp
<1> QED
  BY <1>2, <1>6 DEF S, k

-----------------------------------------------------------------------------
LEMMA StoreInit == Init => StoreInv
<1> SUFFICES ASSUME Init PROVE StoreInv
  OBVIOUS
<1>1. DOMAIN tasks = {}
  BY DEF Init
<1>2. journal \in [Id -> Events] /\ \A t \in Id : journal[t] = <<"none">>
  BY DEF Init, Events
<1>3. corrupt \in BOOLEAN /\ ~corrupt /\ forced \subseteq Id /\ unheard \subseteq Id
  BY DEF Init
<1>4. issued \in 0 .. MaxTasks
  BY CommandLineAssumption DEF Init
<1>5. \A t : t \notin DOMAIN tasks
  BY <1>1
<1> QED
  BY <1>2, <1>3, <1>4, <1>5 DEF StoreInv

\* A task is appended, and its journal says that it was submitted or nothing.
LEMMA StoreAppends ==
    ASSUME StoreInv, NEW deps, deps \subseteq DOMAIN tasks, Store(deps),
           UNCHANGED <<journal, unheard>> \/ Emit(issued + 1, << <<"submit">> >>),
           corrupt' = FALSE, forced' = forced
    PROVE  StoreInv'
<1> DEFINE new == issued + 1
<1>1. /\ issued \in Nat /\ new \in Id /\ issued' = new /\ new \in 0 .. MaxTasks
      /\ 1 .. issued \subseteq 1 .. new /\ new \in 1 .. new /\ new \notin 1 .. issued
      /\ new > issued
  BY CommandLineAssumption DEF StoreInv, Store, Id
<1>2. /\ DOMAIN tasks' = DOMAIN tasks \cup {new}
      /\ tasks'[new] = [status |-> "pending", depends_on |-> deps]
      /\ \A t \in DOMAIN tasks : tasks'[t] = tasks[t]
  BY <1>1 DEF Store, StoreInv
<1>3. new \notin DOMAIN tasks /\ 1 .. issued \subseteq Id
  BY <1>1, CommandLineAssumption DEF StoreInv, Id
<1>4. /\ journal' \in [Id -> Events]
      /\ new \notin unheard' => journal'[new] \in {<<"none">>, <<"submit">>}
      /\ \A t \in Id : t # new =>
            journal'[t] = journal[t] /\ (t \in unheard' <=> t \in unheard)
      /\ unheard' \subseteq Id
  <2>1. journal \in [Id -> Events] /\ unheard \subseteq Id /\ journal[new] = <<"none">>
    BY <1>1 DEF StoreInv
  <2>2. CASE UNCHANGED <<journal, unheard>>
    BY <2>1, <2>2
  <2>3. CASE Emit(new, << <<"submit">> >>)
    <3>1. << <<"submit">> >> \in Seq(Events) /\ << <<"submit">> >> # <<>>
      BY DEF Events
    <3> HIDE DEF new
    <3> QED
      BY <1>1, <2>1, <2>3, <3>1, EmitTells
  <2> QED
    BY <2>2, <2>3
<1>5. tasks'[new] \in TaskRecord /\ tasks'[new].status = "pending"
      /\ tasks'[new].depends_on \subseteq 1 .. issued
  BY <1>2, <1>3 DEF StoreInv, TaskRecord, Statuses
<1> HIDE DEF new
<1>6. new \notin unheard' => Explains(journal'[new], tasks'[new])
  BY <1>4, <1>5, EventsDiffer DEF Explains
<1>7. ASSUME NEW t \in DOMAIN tasks
      PROVE  /\ tasks'[t] \in TaskRecord
             /\ tasks'[t].depends_on \subseteq 1 .. issued
             /\ t \notin unheard' => Explains(journal'[t], tasks'[t])
  <2>1. t \in Id /\ t # new
    BY <1>3 DEF StoreInv
  <2> QED
    BY <1>2, <1>4, <2>1 DEF StoreInv
<1>8. ASSUME NEW t \in DOMAIN tasks' \ forced PROVE Respects(tasks, t)'
  <2>1. CASE t = new
    BY <1>5, <2>1 DEF Respects
  <2>2. CASE t # new
    <3>1. t \in DOMAIN tasks /\ tasks'[t] = tasks[t] /\ new \notin tasks[t].depends_on
      BY <1>1, <1>2, <2>2 DEF StoreInv
    <3> QED
      BY <1>2, <3>1 DEF Respects, StoreInv
  <2> QED
    BY <2>1, <2>2
<1>9. DOMAIN tasks' \subseteq 1 .. issued'
  BY <1>1, <1>2 DEF StoreInv
<1>10. \A t \in DOMAIN tasks' :
          /\ tasks'[t] \in TaskRecord
          /\ tasks'[t].depends_on \subseteq 1 .. issued'
          /\ t \notin unheard' => Explains(journal'[t], tasks'[t])
  BY <1>1, <1>2, <1>5, <1>6, <1>7
<1>11. \A t \in Id : t > issued' => journal'[t] = <<"none">>
  <2>1. \A t \in Id : t > new => t > issued /\ t # new
    BY <1>1 DEF Id
  <2> QED
    BY <1>1, <1>4, <2>1 DEF StoreInv
<1>12. /\ corrupt' \in BOOLEAN /\ (corrupt' => DOMAIN tasks' = {})
       /\ forced' \subseteq Id /\ unheard' \subseteq Id
       /\ journal' \in [Id -> Events] /\ issued' \in 0 .. MaxTasks
  BY <1>1, <1>4 DEF StoreInv
<1>13. \A t \in DOMAIN tasks' \ forced' : Respects(tasks, t)'
  BY <1>8
<1> QED
  BY <1>9, <1>10, <1>11, <1>12, <1>13, Zenon DEF StoreInv

\* `run <id>` leaves a status that its last entry explains, or does not contradict.
LEMMA StoreForces ==
    ASSUME StoreInv, NEW t \in DOMAIN tasks, NEW s \in Statuses,
           NEW entries \in Seq(Events), entries # <<>>,
           \A r : r.status = s => Tells(entries, r),
           tasks' = [tasks EXCEPT ![t].status = s],
           Emit(t, entries),
           forced' = forced \cup {t}, corrupt' = corrupt, issued' = issued
    PROVE  StoreInv'
<1>1. t \in Id /\ DOMAIN tasks' = DOMAIN tasks /\ 1 .. issued \subseteq Id
  BY CommandLineAssumption DEF StoreInv, Id
<1>2. /\ tasks'[t] = [tasks[t] EXCEPT !.status = s]
      /\ \A u \in DOMAIN tasks : u # t => tasks'[u] = tasks[u]
  OBVIOUS
<1>3. /\ tasks'[t] \in TaskRecord /\ tasks'[t].status = s
      /\ tasks'[t].depends_on = tasks[t].depends_on
  BY <1>2, RecordStatus DEF StoreInv
<1>4. /\ journal' \in [Id -> Events] /\ unheard' \subseteq Id
      /\ t \notin unheard' => journal'[t] = entries[Len(entries)]
      /\ \A u \in Id : u # t =>
            journal'[u] = journal[u] /\ (u \in unheard' <=> u \in unheard)
  BY <1>1, EmitTells DEF StoreInv
<1>5. ASSUME NEW u \in DOMAIN tasks
      PROVE  /\ tasks'[u] \in TaskRecord
             /\ tasks'[u].depends_on = tasks[u].depends_on
             /\ u \notin unheard' => Explains(journal'[u], tasks'[u])
  <2>1. CASE u = t
    BY <1>3, <1>4, <2>1 DEF Tells
  <2>2. CASE u # t
    <3>1. u \in Id
      BY <1>1 DEF StoreInv
    <3> QED
      BY <1>2, <1>4, <2>2, <3>1 DEF StoreInv
  <2> QED
    BY <2>1, <2>2
<1>6. ASSUME NEW u \in DOMAIN tasks' \ forced' PROVE Respects(tasks, u)'
  <2>1. u # t /\ u \in DOMAIN tasks /\ tasks'[u] = tasks[u]
    BY <1>1, <1>2, <1>6
  <2> QED
    BY <1>1, <1>2, <1>6, <2>1 DEF Respects, StoreInv
<1>7. \A u \in Id : u > issued => journal'[u] = <<"none">>
  <2>1. t \in 1 .. issued /\ issued \in Nat
    BY DEF StoreInv
  <2>2. \A u \in Id : u > issued => u # t
    BY <2>1 DEF Id
  <2> QED
    BY <1>4, <2>2 DEF StoreInv
<1>8. forced' \subseteq Id
  BY <1>1 DEF StoreInv
<1> QED
  BY <1>1, <1>4, <1>5, <1>6, <1>7, <1>8 DEF StoreInv

LEMMA StoreStep == StoreInv /\ [Next]_vars => StoreInv'
<1> SUFFICES ASSUME StoreInv, [Next]_vars PROVE StoreInv'
  OBVIOUS
<1>1. CASE \/ RejectSubmit \/ LegacyReject \/ RunUnknown \/ RunReplays \/ RunDenied
           \/ RunFindsNoPlugin \/ BatchDenied \/ ListTasks \/ GraphOfTasks \/ Export
           \/ StatusOf \/ PluginsList \/ Tick \/ UNCHANGED vars
  <2>1. UNCHANGED <<tasks, corrupt, journal, issued, forced, unheard>>
    BY <1>1, Zenon
       DEF RejectSubmit, LegacyReject, RunUnknown, RunReplays, RunDenied,
           RunFindsNoPlugin, BatchDenied, ListTasks, GraphOfTasks, Export, StatusOf,
           PluginsList, Tick, OnlyAnswers, vars, history
  <2> QED
    BY <2>1 DEF StoreInv, Respects
<1>2. CASE AcceptSubmit \/ SubmitLosesItsLog \/ LegacySubmit
  <2>1. \A deps : SubmitAnswers(deps, TRUE) = 0 => Missing(deps) = {}
    <3>1. 1 # 0 /\ 2 # 0
      OBVIOUS
    <3> QED
      BY <3>1, Zenon DEF SubmitAnswers
  <2>2. \E deps : /\ Missing(deps) = {} /\ Store(deps)
                  /\ \/ UNCHANGED <<journal, unheard>>
                     \/ Emit(issued + 1, << <<"submit">> >>)
                  /\ corrupt' = FALSE /\ forced' = forced
    BY <1>2, <2>1, Zenon DEF AcceptSubmit, SubmitLosesItsLog, LegacySubmit, history
  <2>3. \A deps : Missing(deps) = {} => deps \subseteq DOMAIN tasks
    BY DEF Missing
  <2> QED
    BY <2>2, <2>3, StoreAppends
<1>3. CASE RunIsCutShort
  <2>1. PICK t, left :
            /\ t \in DOMAIN tasks
            /\ left \in Outcomes \cup {tasks[t].status, "running"}
            /\ tasks' = [tasks EXCEPT ![t].status = left]
            /\ Emit(t, Entries(FALSE, "running"))
            /\ forced' = forced \cup {t}
            /\ corrupt' = corrupt /\ issued' = issued
    <3>1. \A t : (IF "legacy_log" \in Faults THEN Outcomes \cup {tasks[t].status} ELSE {})
                     \cup (IF "spawn" \in Faults THEN {"running"} ELSE {})
                   \subseteq Outcomes \cup {tasks[t].status, "running"}
      OBVIOUS
    <3> QED
      BY <1>3, <3>1, Zenon DEF RunIsCutShort
  <2>2. left \in Statuses
    <3>1. tasks[t].status \in Statuses
      BY <2>1 DEF StoreInv, TaskRecord
    <3> QED
      BY <2>1, <3>1 DEF Statuses
  <2>3. /\ Entries(FALSE, "running") \in Seq(Events)
        /\ Entries(FALSE, "running") # <<>>
        /\ \A r : Tells(Entries(FALSE, "running"), r)
    BY EntriesTell
  <2> QED
    BY <2>1, <2>2, <2>3, StoreForces
<1>4. CASE RunExecutes
  <2>1. PICK t \in DOMAIN tasks, outcome \in Outcomes :
            /\ tasks' = [tasks EXCEPT ![t].status = outcome]
            /\ Emit(t, Entries(FALSE, outcome))
            /\ forced' = forced \cup {t}
            /\ corrupt' = corrupt /\ issued' = issued
    BY <1>4, Zenon DEF RunExecutes
  <2>2. outcome \in Statuses
    BY DEF Statuses
  <2>3. /\ Entries(FALSE, outcome) \in Seq(Events)
        /\ Entries(FALSE, outcome) # <<>>
        /\ \A r : r.status = outcome => Tells(Entries(FALSE, outcome), r)
    BY EntriesTell
  <2> QED
    BY <2>1, <2>2, <2>3, StoreForces
<1>5. CASE Batch
  <2>1. PICK ends : /\ ends \in [Pending -> Outcomes \cup {"running"}]
                    /\ tasks' = AfterBatch(ends).tasks
                    /\ Emits(AfterBatch(ends).entries)
                    /\ UNCHANGED <<corrupt, issued, forced>>
    <3>1. PICK ends \in [Pending -> IF "spawn" \in Faults
                                     THEN Outcomes \cup {"running"} ELSE Outcomes] :
              /\ tasks' = AfterBatch(ends).tasks
              /\ Emits(AfterBatch(ends).entries)
              /\ UNCHANGED <<corrupt, issued, forced>>
      BY <1>5, Zenon DEF Batch, history
    <3>2. ends \in [Pending -> Outcomes \cup {"running"}]
      OBVIOUS
    <3> QED
      BY <3>1, <3>2
  <2> DEFINE done == AfterBatch(ends)
  <2>2. BatchInv(done, Len(BatchLayers))
    BY <2>1, BatchKeepsStore
  <2> HIDE DEF done
  <2>3. tasks' = done.tasks /\ Emits(done.entries)
    BY <2>1 DEF done
  <2>4. /\ done.entries \in [Pending -> Seq(Events)]
        /\ Pending \subseteq DOMAIN tasks /\ DOMAIN tasks \subseteq Id
    BY <2>2, CommandLineAssumption DEF BatchInv, Pending, StoreInv, Id
  <2>5. /\ journal' \in [Id -> Events] /\ unheard' \subseteq Id
        /\ \A t \in Id : (t \in Pending => done.entries[t] = <<>>) =>
              journal'[t] = journal[t] /\ (t \in unheard' <=> t \in unheard)
        /\ \A t \in Pending \ unheard' : done.entries[t] # <<>> =>
              journal'[t] = done.entries[t][Len(done.entries[t])]
    <3> DEFINE entries == done.entries
    <3>1. /\ DOMAIN entries = Pending /\ DOMAIN entries \subseteq Id
          /\ \A t \in DOMAIN entries : entries[t] \in Seq(Events)
      BY <2>4
    <3>2. Emits(entries)
      BY <2>3
    <3>3. journal \in [Id -> Events] /\ unheard \subseteq Id
      BY DEF StoreInv
    <3> HIDE DEF entries
    <3>4. /\ journal' \in [Id -> Events] /\ unheard' \subseteq Id
          /\ \A t \in Id : (t \in DOMAIN entries => entries[t] = <<>>) =>
                journal'[t] = journal[t] /\ (t \in unheard' <=> t \in unheard)
          /\ \A t \in DOMAIN entries \ unheard' : entries[t] # <<>> =>
                journal'[t] = entries[t][Len(entries[t])]
      BY <3>1, <3>2, <3>3, EmitsTell
    <3> QED
      BY <3>1, <3>4 DEF entries
  <2>5a. \A t \in Id : t > issued => journal'[t] = <<"none">>
    <3>1. \A t \in Id : t > issued => t \notin Pending
      BY DEF StoreInv, Id, Pending
    <3> QED
      BY <2>5, <3>1 DEF StoreInv
  <2>5b. ASSUME NEW t \in DOMAIN tasks, t \notin unheard'
         PROVE  Explains(journal'[t], done.tasks[t])
    <3>1. t \in Id
      BY <2>4
    <3>2. CASE t \in Pending => done.entries[t] = <<>>
      <4>1. journal'[t] = journal[t] /\ t \notin unheard
        BY <2>5, <2>5b, <3>1, <3>2
      <4>2. done.tasks[t] = tasks[t]
        BY <2>2, <3>2 DEF BatchInv
      <4> QED
        BY <4>1, <4>2 DEF StoreInv
    <3>3. CASE t \in Pending /\ done.entries[t] # <<>>
      <4>1. journal'[t] = done.entries[t][Len(done.entries[t])]
        BY <2>5, <2>5b, <3>3
      <4>2. Tells(done.entries[t], done.tasks[t])
        BY <2>2, <3>3 DEF BatchInv
      <4> QED
        BY <3>3, <4>1, <4>2 DEF Tells
    <3> QED
      BY <3>2, <3>3
  <2>6. \A t \in DOMAIN tasks' \ forced' : Respects(tasks, t)'
    BY <2>1, <2>2, <2>3 DEF BatchInv, Respects
  <2> QED
    BY <2>1, <2>2, <2>3, <2>5, <2>5a, <2>5b, <2>6 DEF BatchInv, StoreInv
<1>6. CASE Clear
  <2>1. /\ UNCHANGED <<journal, issued, forced, unheard>>
        /\ UNCHANGED <<tasks, corrupt>> \/ (tasks' = <<>> /\ corrupt' = FALSE)
    BY <1>6, Zenon DEF Clear
  <2>2. CASE UNCHANGED <<tasks, corrupt>>
    BY <2>1, <2>2 DEF StoreInv, Respects
  <2>3. CASE tasks' = <<>> /\ corrupt' = FALSE
    <3>1. \A t : t \notin DOMAIN tasks'
      BY <2>3
    <3> QED
      BY <2>1, <2>3, <3>1 DEF StoreInv
  <2> QED
    BY <2>1, <2>2, <2>3
<1>7. CASE Damage
  <2>1. UNCHANGED <<journal, issued, forced, unheard>> /\ corrupt' = TRUE /\ DOMAIN tasks' = {}
    BY <1>7 DEF Damage, history
  <2> QED
    BY <2>1 DEF StoreInv, Respects
<1>8. CASE EditRing
  <2>1. PICK s \in Pending, t \in Pending :
            /\ s < t
            /\ tasks' = [tasks EXCEPT ![s].depends_on = @ \cup {t},
                                      ![t].depends_on = @ \cup {s}]
    BY <1>8, Zenon DEF EditRing
  <2>2. UNCHANGED <<corrupt, journal, issued, forced, unheard>>
    BY <1>8, Zenon DEF EditRing, history
  <2>3. /\ s \in DOMAIN tasks /\ t \in DOMAIN tasks /\ s # t
        /\ tasks[s].status = "pending" /\ tasks[t].status = "pending"
    BY <2>1 DEF Pending, StoreInv
  <2>4. /\ DOMAIN tasks' = DOMAIN tasks
        /\ tasks'[s] = [tasks[s] EXCEPT !.depends_on = @ \cup {t}]
        /\ tasks'[t] = [tasks[t] EXCEPT !.depends_on = @ \cup {s}]
        /\ \A u \in DOMAIN tasks : u # s /\ u # t => tasks'[u] = tasks[u]
    BY <2>1, <2>3
  <2>5. {s, t} \subseteq 1 .. issued /\ 1 .. issued \subseteq Id
    BY <2>3, CommandLineAssumption DEF StoreInv, Id
  <2>6. ASSUME NEW u \in {s, t}, NEW v \in {s, t},
               tasks'[u] = [tasks[u] EXCEPT !.depends_on = @ \cup {v}]
        PROVE  /\ tasks'[u] \in TaskRecord
               /\ tasks'[u].status = "pending" /\ tasks[u].status = "pending"
               /\ tasks'[u].depends_on \subseteq 1 .. issued
    BY <2>3, <2>5, <2>6 DEF StoreInv, TaskRecord
  <2>7. ASSUME NEW u \in DOMAIN tasks
        PROVE  /\ tasks'[u] \in TaskRecord
               /\ tasks'[u].status = tasks[u].status
               /\ tasks'[u].depends_on \subseteq 1 .. issued
               /\ tasks'[u] = tasks[u] \/ tasks'[u].status = "pending"
    BY <2>4, <2>6 DEF StoreInv
  <2>8. \A u \in DOMAIN tasks \ unheard : Explains(journal[u], tasks'[u])
    BY <2>7 DEF StoreInv, Explains
  <2>9. ASSUME NEW u \in DOMAIN tasks \ forced PROVE Respects(tasks, u)'
    BY <2>2, <2>4, <2>7 DEF StoreInv, Respects
  <2> QED
    BY <2>2, <2>4, <2>7, <2>8, <2>9 DEF StoreInv
<1> QED
  BY <1>1, <1>2, <1>3, <1>4, <1>5, <1>6, <1>7, <1>8, Zenon DEF Next

LEMMA StoreCorrect == Spec => []StoreInv
  BY StoreInit, StoreStep, PTL DEF Spec

(* No order of submits, batches, clears, edits and faults gets a task past its
   dependencies: for any number of tasks and any graph. *)
THEOREM DoneRespectsDependenciesCorrect == Spec => []DoneRespectsDependencies
<1>1. StoreInv => DoneRespectsDependencies
  BY DEF StoreInv, Respects, DoneRespectsDependencies
<1> QED
  BY StoreCorrect, <1>1, PTL

(* The journal's last word on a stored task agrees with its record unless the
   latest entry about the task was lost, whatever was lost before, for any
   number of tasks and whichever appends fail. *)
THEOREM JournalExplainsStatusCorrect == Spec => []JournalExplainsStatus
<1>1. StoreInv => JournalExplainsStatus
  BY DEF StoreInv, JournalExplainsStatus
<1> QED
  BY StoreCorrect, <1>1, PTL

-----------------------------------------------------------------------------
LEMMA ExitTypes ==
    ASSUME NEW command \in Commands, NEW code \in 0 .. 6
    PROVE  /\ Exits(command, code) => last' \in Answers
           /\ ExitsAfterStarting(command, code) => last' \in Answers
<1>1. \A started \in BOOLEAN :
          [command |-> command, exit |-> code, started |-> started] \in Answers
  BY DEF Answers
<1>2. FALSE \in BOOLEAN /\ TRUE \in BOOLEAN
  OBVIOUS
<1> QED
  BY <1>1, <1>2, Zenon DEF Exits, ExitsAfterStarting

LEMMA CommandNames ==
    {"submit", "run", "run --all", "status", "list", "graph", "export", "plugins",
     "clear", "dispatch submit", "dispatch run"} = Commands
  BY DEF Commands

\* Every step ends in a documented exit code.
LEMMA AnswerStep ==
    ASSUME [Next]_vars, last \in Answers
    PROVE  last' \in Answers
<1>1. \A code \in {0, 1, 2, 3, 4, 5, 6} : code \in 0 .. 6
  OBVIOUS
<1>2. CASE UNCHANGED vars
  BY <1>2 DEF vars
<1>3. CASE RejectSubmit
  <2>1. \A deps, valid : SubmitAnswers(deps, valid) \in {0, 1, 2, 5}
    BY DEF SubmitAnswers
  <2>2. PICK code : code \in {0, 1, 2, 5} /\ Exits("submit", code)
    BY <1>3, <2>1, Zenon DEF RejectSubmit, OnlyAnswers
  <2> QED
    BY <1>1, <2>2, CommandNames, ExitTypes
<1>4. CASE AcceptSubmit \/ SubmitLosesItsLog
  <2>1. Exits("submit", 0) \/ Exits("submit", 1)
    BY <1>4, Zenon DEF AcceptSubmit, SubmitLosesItsLog
  <2> QED
    BY <1>1, <2>1, CommandNames, ExitTypes
<1>5. CASE LegacyReject \/ LegacySubmit
  <2>1. PICK code : code \in {0, 1, 2, 3} /\ Exits("dispatch submit", code)
    <3>1. {0} \cup (IF "legacy_log" \in Faults THEN {1} ELSE {}) \subseteq {0, 1, 2, 3}
      OBVIOUS
    <3> QED
      BY <1>5, <3>1 DEF LegacyReject, LegacySubmit, OnlyAnswers
  <2> QED
    BY <1>1, <2>1, CommandNames, ExitTypes
<1>6. CASE RunUnknown \/ RunReplays \/ RunDenied \/ RunFindsNoPlugin
  <2>1. \/ Exits("run", 0) \/ Exits("run", 2) \/ Exits("run", 3) \/ Exits("run", 6)
        \/ Exits("dispatch run", 1)
    BY <1>6, Zenon DEF RunUnknown, RunReplays, RunDenied, RunFindsNoPlugin, OnlyAnswers
  <2> QED
    BY <1>1, <2>1, CommandNames, ExitTypes
<1>7. CASE RunIsCutShort
  <2>1. ExitsAfterStarting("run", 1)
    BY <1>7, Zenon DEF RunIsCutShort
  <2> QED
    BY <1>1, <2>1, CommandNames, ExitTypes
<1>8. CASE RunExecutes
  <2>1. PICK outcome \in Outcomes : ExitsAfterStarting("run", ExitOf(outcome))
    BY <1>8, Zenon DEF RunExecutes
  <2>2. ExitOf(outcome) \in {0, 1, 4}
    BY <2>1 DEF ExitOf, Outcomes
  <2> QED
    BY <1>1, <2>1, <2>2, CommandNames, ExitTypes
<1>9. CASE BatchDenied
  BY <1>1, <1>9, CommandNames, ExitTypes DEF BatchDenied, OnlyAnswers
<1>10. CASE Batch
  <2>1. PICK code, started : /\ code \in {0, 1} /\ started \in BOOLEAN
                             /\ last' = [command |-> "run --all", exit |-> code,
                                         started |-> started]
    <3>1. PICK ends : last' = [command |-> "run --all",
                               exit |-> IF AfterBatch(ends).raised THEN 1 ELSE 0,
                               started |-> \E t \in Pending :
                                   AfterBatch(ends).tasks[t].status
                                       \notin {"pending", "blocked"}]
      BY <1>10, Zenon DEF Batch
    <3> QED
      BY <3>1
  <2> QED
    BY <1>1, <2>1, CommandNames DEF Answers
<1>11. CASE ListTasks \/ GraphOfTasks \/ Export
  <2>1. \A code : StrictAnswer(code) \in {1, code}
    BY DEF StrictAnswer
  <2>2. PICK command \in {"list", "graph", "export"}, code \in {0, 1} : Exits(command, code)
    BY <1>11, <2>1 DEF ListTasks, GraphOfTasks, Export, OnlyAnswers
  <2> QED
    BY <1>1, <2>2, CommandNames, ExitTypes
<1>12. CASE StatusOf
  <2>1. PICK code \in {0, 1, 2} : Exits("status", code)
    BY <1>12 DEF StatusOf, StrictAnswer, OnlyAnswers
  <2> QED
    BY <1>1, <2>1, CommandNames, ExitTypes
<1>13. CASE PluginsList
  <2>1. PICK code \in {0, 6} : Exits("plugins", code)
    BY <1>13 DEF PluginsList, OnlyAnswers
  <2> QED
    BY <1>1, <2>1, CommandNames, ExitTypes
<1>14. CASE Clear
  <2>1. Exits("clear", 0)
    BY <1>14, Zenon DEF Clear
  <2> QED
    BY <1>1, <2>1, CommandNames, ExitTypes
<1>15. CASE Tick \/ Damage \/ EditRing
  <2>1. last' = Nothing
    BY <1>15, Zenon DEF Tick, Damage, EditRing
  <2> QED
    BY <2>1 DEF Nothing, Answers
<1> QED
  BY <1>2, <1>3, <1>4, <1>5, <1>6, <1>7, <1>8, <1>9, <1>10, <1>11, <1>12, <1>13,
     <1>14, <1>15, Zenon DEF Next

LEMMA ClockStep ==
    ASSUME [Next]_vars, now \in 0 .. MaxTime
    PROVE  now' \in 0 .. MaxTime
<1>1. CASE Tick
  BY <1>1, CommandLineAssumption DEF Tick
<1>2. CASE ~Tick
  <2>1. now' = now
    BY <1>2, Zenon
       DEF Next, vars, history, RejectSubmit, AcceptSubmit, SubmitLosesItsLog,
           LegacyReject, LegacySubmit, RunUnknown, RunReplays, RunDenied,
           RunFindsNoPlugin, RunIsCutShort, RunExecutes, BatchDenied, Batch,
           ListTasks, GraphOfTasks, Export, StatusOf, PluginsList, Clear, Damage,
           EditRing, OnlyAnswers
  <2> QED
    BY <2>1
<1> QED
  BY <1>1, <1>2

(* Every variable keeps its type: no step forges a record, a status or an event,
   and every subcommand ends with one of the exit codes 0 to 6. *)
THEOREM TypeCorrect == Spec => []TypeOK
<1> DEFINE AnswerInv == last \in Answers /\ now \in 0 .. MaxTime
<1>1. Init => AnswerInv
  BY CommandLineAssumption DEF Init, Nothing, Answers
<1>2. AnswerInv /\ [Next]_vars => AnswerInv'
  BY AnswerStep, ClockStep
<1>3. Spec => []AnswerInv
  BY <1>1, <1>2, PTL DEF Spec
<1>4. Spec => []BreakerInv
  BY BreakerInit, BreakerStep, PTL DEF Spec
<1>5. StoreInv /\ BreakerInv /\ AnswerInv => TypeOK
  BY DEF StoreInv, BreakerInv, Answers, TaskRecord, TypeOK
<1> QED
  BY StoreCorrect, <1>3, <1>4, <1>5, PTL
=============================================================================
