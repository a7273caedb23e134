------------------------- MODULE GuardedRunsProofs -------------------------
(***************************************************************************)
(* Theorems about GuardedRuns, for every number of processes, threshold,   *)
(* cooldown, retry limit and every combination of faults.  The theorems    *)
(* that assume Serial are about runs that do not overlap.                  *)
(***************************************************************************)
EXTENDS GuardedRuns, TLAPS

\* The breaker operators map records to records.
LEMMA BreakerTypes ==
    ASSUME NEW r \in BreakerRecord, NEW t \in Nat
    PROVE  /\ Cold \in BreakerRecord
           /\ AllowRequest(r, t) \in BreakerRecord
           /\ RecordFailure(r, t) \in BreakerRecord
           /\ RecordSuccess(r) \in BreakerRecord
<1>1. Cold \in BreakerRecord
  BY DEF Cold, BreakerRecord, BreakerStates
<1>2. AllowRequest(r, t) \in BreakerRecord
  BY DEF AllowRequest, BreakerRecord, BreakerStates
<1>3. \A s \in BreakerRecord : Trip(s, t) \in BreakerRecord
  BY DEF Trip, BreakerRecord, BreakerStates
<1>4. Counted(r) \in BreakerRecord
  BY DEF Counted, BreakerRecord
<1>5. RecordFailure(r, t) \in BreakerRecord
  BY <1>3, <1>4 DEF RecordFailure
<1>6. RecordSuccess(r) \in BreakerRecord
  BY DEF RecordSuccess, BreakerRecord, BreakerStates
<1> QED
  BY <1>1, <1>2, <1>5, <1>6

LEMMA FromRecordType ==
    ASSUME NEW f \in BreakerRecord \cup {NoFile}
    PROVE  FromRecord(f) \in BreakerRecord
  BY BreakerTypes, BreakerAssumption DEF FromRecord, Cold, BreakerRecord, BreakerStates

-----------------------------------------------------------------------------
LEMMA TypeInit == Init => TypeOK
  BY GuardedRunsAssumption DEF Init, TypeOK, Steps, Cold, BreakerRecord, BreakerStates

LEMMA TypeStep == TypeOK /\ [Next]_vars => TypeOK'
<1> SUFFICES ASSUME TypeOK, [Next]_vars PROVE TypeOK'
  OBVIOUS
<1> USE DEF TypeOK, GoTo, Steps
<1>1. ASSUME NEW p \in Proc, Start(p) PROVE TypeOK'
  BY <1>1, GuardedRunsAssumption DEF Start, Cold, BreakerRecord, BreakerStates
<1>2. ASSUME NEW p \in Proc, ReadBreaker(p) PROVE TypeOK'
  BY <1>2, FromRecordType DEF ReadBreaker
<1>3. ASSUME NEW p \in Proc, Deny(p) PROVE TypeOK'
  BY <1>3 DEF Deny
<1>4. ASSUME NEW p \in Proc, Admit(p) PROVE TypeOK'
  BY <1>4, BreakerTypes DEF Admit
<1>5. ASSUME NEW p \in Proc, WriteAdmission(p) PROVE TypeOK'
  BY <1>5 DEF WriteAdmission
<1>6. ASSUME NEW p \in Proc, LoadPlugins(p) PROVE TypeOK'
  BY <1>6 DEF LoadPlugins
<1>7. ASSUME NEW p \in Proc, PluginLoadFails(p) PROVE TypeOK'
  BY <1>7 DEF PluginLoadFails
<1>8. ASSUME NEW p \in Proc, RunSucceeds(p) PROVE TypeOK'
  BY <1>8 DEF RunSucceeds
<1>9. ASSUME NEW p \in Proc, RunFailsAndRetries(p) PROVE TypeOK'
  BY <1>9 DEF RunFailsAndRetries
<1>10. ASSUME NEW p \in Proc, RunFailsFinally(p) PROVE TypeOK'
  BY <1>10 DEF RunFailsFinally
<1>11. ASSUME NEW p \in Proc, SpawnRaises(p) PROVE TypeOK'
  BY <1>11 DEF SpawnRaises
<1>12. ASSUME NEW p \in Proc, RecordSuccessStep(p) PROVE TypeOK'
  BY <1>12, BreakerTypes DEF RecordSuccessStep
<1>13. ASSUME NEW p \in Proc, RecordFailureStep(p) PROVE TypeOK'
  BY <1>13, BreakerTypes DEF RecordFailureStep
<1>14. ASSUME NEW p \in Proc, WriteSuccess(p) PROVE TypeOK'
  BY <1>14 DEF WriteSuccess
<1>15. ASSUME NEW p \in Proc, WriteFailure(p) PROVE TypeOK'
  BY <1>15 DEF WriteFailure
<1>16. ASSUME NEW p \in Proc, RunAllReturns(p) PROVE TypeOK'
  BY <1>16 DEF RunAllReturns
<1>17. ASSUME NEW p \in Proc, Crash(p) PROVE TypeOK'
  BY <1>17 DEF Crash
<1>18. CASE Clear
  BY <1>18 DEF Clear
<1>19. CASE Tick
  BY <1>19 DEF Tick
<1>20. CASE UNCHANGED vars
  BY <1>20 DEF vars
<1> QED
  BY <1>1, <1>2, <1>3, <1>4, <1>5, <1>6, <1>7, <1>8, <1>9, <1>10, <1>11,
     <1>12, <1>13, <1>14, <1>15, <1>16, <1>17, <1>18, <1>19, <1>20
     DEF Next, Step, Progress

(* Every behaviour of the processes keeps the variables in their types; in
   particular breaker.json never holds anything but a well-formed record. *)
THEOREM TypeCorrect == Spec => []TypeOK
  BY TypeInit, TypeStep, PTL DEF Spec

-----------------------------------------------------------------------------
(* What is true of one copy of the breaker, wherever it is kept, when n final
   failures have been recorded so far and the clock shows t. *)
Sound(r, n, t) ==
    /\ r.failure_count <= n
    /\ r.state # "CLOSED" => n >= Threshold
    /\ Threshold > 0 /\ r.state = "CLOSED" => r.failure_count < Threshold
    /\ r.opened_at <= t

(* The inductive invariant: every copy of the breaker is sound.  It is needed
   for the copies in memory as well, because they are what gets written. *)
AllSound ==
    /\ file # NoFile => Sound(file, failures, now)
    /\ \A p \in Proc : Sound(mem[p], failures, now)

LEMMA ColdIsSound ==
    ASSUME NEW n \in Nat, NEW t \in Nat
    PROVE  Sound(Cold, n, t)
  BY BreakerAssumption DEF Sound, Cold

\* Later failures and later clocks keep a copy sound.
LEMMA SoundIsMonotone ==
    ASSUME NEW r \in BreakerRecord, NEW n \in Nat, NEW t \in Nat,
           NEW m \in Nat, NEW u \in Nat, n <= m, t <= u, Sound(r, n, t)
    PROVE  Sound(r, m, u)
  BY BreakerAssumption DEF Sound, BreakerRecord

LEMMA AllowIsSound ==
    ASSUME NEW r \in BreakerRecord, NEW n \in Nat, NEW t \in Nat, Sound(r, n, t)
    PROVE  Sound(AllowRequest(r, t), n, t)
  BY BreakerAssumption DEF Sound, AllowRequest, BreakerRecord, BreakerStates

LEMMA SuccessIsSound ==
    ASSUME NEW r \in BreakerRecord, NEW n \in Nat, NEW t \in Nat
    PROVE  Sound(RecordSuccess(r), n, t)
  BY BreakerAssumption DEF Sound, RecordSuccess, BreakerRecord, BreakerStates

\* A recorded failure is one more failure, and it trips at the threshold.
LEMMA FailureIsSound ==
    ASSUME NEW r \in BreakerRecord, NEW n \in Nat, NEW t \in Nat, Sound(r, n, t)
    PROVE  Sound(RecordFailure(r, t), n + 1, t)
<1>1. CASE r.state = "HALF_OPEN"
  <2>1. RecordFailure(r, t) = [r EXCEPT !.state = "OPEN", !.opened_at = t]
    BY <1>1 DEF RecordFailure, Trip
  <2> QED
    BY <1>1, <2>1, BreakerAssumption DEF Sound, BreakerRecord, BreakerStates
<1>2. CASE r.state # "HALF_OPEN" /\ r.failure_count + 1 >= Threshold
  <2>1. RecordFailure(r, t) =
          [state |-> "OPEN", failure_count |-> r.failure_count + 1, opened_at |-> t]
    BY <1>2 DEF RecordFailure, Trip, Counted, BreakerRecord
  <2> QED
    BY <1>2, <2>1, BreakerAssumption DEF Sound, BreakerRecord, BreakerStates
<1>3. CASE r.state # "HALF_OPEN" /\ ~(r.failure_count + 1 >= Threshold)
  <2>1. RecordFailure(r, t) =
          [state |-> r.state, failure_count |-> r.failure_count + 1,
           opened_at |-> r.opened_at]
    BY <1>3 DEF RecordFailure, Trip, Counted, BreakerRecord
  <2> QED
    BY <1>3, <2>1, BreakerAssumption DEF Sound, BreakerRecord, BreakerStates
<1> QED
  BY <1>1, <1>2, <1>3

LEMMA SoundInit == Init => AllSound
  BY ColdIsSound DEF Init, AllSound

LEMMA SoundStep == TypeOK /\ AllSound /\ [Next]_vars => AllSound'
<1> SUFFICES ASSUME TypeOK, AllSound, [Next]_vars PROVE AllSound'
  OBVIOUS
<1> USE DEF AllSound, TypeOK
\* Steps that touch neither a copy of the breaker, nor the history, nor time.
<1>1. ASSUME UNCHANGED <<file, now, mem, failures>> PROVE AllSound'
  BY <1>1 DEF Sound
\* Steps that replace the copy of p by another sound one.
<1>2. ASSUME NEW p \in Proc, NEW r, Sound(r, failures, now),
             mem' = [mem EXCEPT ![p] = r], UNCHANGED <<file, now, failures>>
      PROVE  AllSound'
  BY <1>2
\* Steps that write the copy of p to breaker.json.
<1>3. ASSUME NEW p \in Proc, file' = mem[p], UNCHANGED <<now, mem, failures>>
      PROVE  AllSound'
  BY <1>3
<1>4. ASSUME NEW p \in Proc, Start(p) PROVE AllSound'
  BY <1>4, <1>2, ColdIsSound DEF Start
<1>5. ASSUME NEW p \in Proc, ReadBreaker(p) PROVE AllSound'
  <2>1. Sound(FromRecord(file), failures, now)
    BY ColdIsSound DEF FromRecord
  <2> QED
    BY <1>5, <2>1, <1>2 DEF ReadBreaker
<1>6. ASSUME NEW p \in Proc, Admit(p) PROVE AllSound'
  BY <1>6, <1>2, AllowIsSound DEF Admit
<1>7. ASSUME NEW p \in Proc, RecordSuccessStep(p) PROVE AllSound'
  BY <1>7, <1>2, SuccessIsSound DEF RecordSuccessStep
<1>8. ASSUME NEW p \in Proc, RecordFailureStep(p) PROVE AllSound'
  <2>1. failures' = failures + 1 /\ now' = now /\ file' = file
    BY <1>8 DEF RecordFailureStep
  <2>2. file # NoFile => Sound(file, failures + 1, now)
    BY SoundIsMonotone
  <2>3. \A q \in Proc : Sound(mem[q], failures + 1, now)
    BY SoundIsMonotone
  <2>4. Sound(RecordFailure(mem[p], now), failures + 1, now)
    BY FailureIsSound
  <2> QED
    BY <1>8, <2>1, <2>2, <2>3, <2>4 DEF RecordFailureStep
<1>9. ASSUME NEW p \in Proc,
             WriteAdmission(p) \/ WriteSuccess(p) \/ WriteFailure(p)
      PROVE  AllSound'
  BY <1>9, <1>3 DEF WriteAdmission, WriteSuccess, WriteFailure
<1>10. ASSUME NEW p \in Proc,
              \/ Deny(p) \/ LoadPlugins(p) \/ PluginLoadFails(p)
              \/ RunSucceeds(p) \/ RunFailsAndRetries(p) \/ RunFailsFinally(p)
              \/ SpawnRaises(p) \/ RunAllReturns(p) \/ Crash(p)
       PROVE  AllSound'
  BY <1>10, <1>1 DEF Deny, LoadPlugins, PluginLoadFails, RunSucceeds,
     RunFailsAndRetries, RunFailsFinally, SpawnRaises, RunAllReturns, Crash
<1>11. CASE Clear
  BY <1>11 DEF Clear
<1>12. CASE Tick
  <2>1. now' = now + 1 /\ UNCHANGED <<file, mem, failures>>
    BY <1>12 DEF Tick
  <2>2. file # NoFile => Sound(file, failures, now + 1)
    BY SoundIsMonotone
  <2>3. \A q \in Proc : Sound(mem[q], failures, now + 1)
    BY SoundIsMonotone
  <2> QED
    BY <2>1, <2>2, <2>3
<1>13. CASE UNCHANGED vars
  BY <1>13, <1>1 DEF vars
<1> QED
  BY <1>4, <1>5, <1>6, <1>7, <1>8, <1>9, <1>10, <1>11, <1>12, <1>13
     DEF Next, Step, Progress

LEMMA SoundImplies ==
    TypeOK /\ AllSound => CountsAreRealFailures /\ RecordsAreSound
<1> SUFFICES ASSUME TypeOK, AllSound, NEW r \in Records
             PROVE  Sound(r, failures, now)
  BY DEF Sound, CountsAreRealFailures, RecordsAreSound, OpenIsEarned,
         ClosedBelowThreshold, CooldownIsBounded
<1> QED
  BY ColdIsSound DEF Records, AllSound, TypeOK, FromRecord

LEMMA AlwaysSound == Spec => [](TypeOK /\ AllSound)
  BY TypeInit, TypeStep, SoundInit, SoundStep, PTL DEF Spec

(* No interleaving of the unlocked read-modify-write cycles, no crash and no
   clear makes a copy of the breaker count a failure that was not recorded. *)
THEOREM CountsCorrect == Spec => []CountsAreRealFailures
  BY AlwaysSound, SoundImplies, PTL

(* Lost updates and stale writes included, no copy is OPEN or HALF_OPEN before
   Threshold final failures, none is CLOSED at the threshold, and none carries
   a stamp in the future. *)
THEOREM RecordsCorrect == Spec => []RecordsAreSound
  BY AlwaysSound, SoundImplies, PTL

-----------------------------------------------------------------------------
(* Runs that do not overlap are the runs of one process after another. *)
Serial == \A p, q \in Proc : p = q

(* What a copy of the breaker owes to n persisted failures in a row. *)
Backed(r, n) == r.failure_count <= n /\ (r.state # "CLOSED" => n >= Threshold)

LEMMA ColdIsBacked ==
    ASSUME NEW n \in Nat
    PROVE  Backed(Cold, n)
  BY DEF Backed, Cold

LEMMA AllowIsBacked ==
    ASSUME NEW r \in BreakerRecord, NEW n \in Nat, NEW t, Backed(r, n)
    PROVE  Backed(AllowRequest(r, t), n)
  BY BreakerAssumption DEF Backed, AllowRequest, BreakerRecord, BreakerStates

LEMMA FailureIsBacked ==
    ASSUME NEW r \in BreakerRecord, NEW n \in Nat, NEW t \in Nat, Backed(r, n)
    PROVE  Backed(RecordFailure(r, t), n + 1)
<1>1. CASE r.state = "HALF_OPEN"
  <2>1. /\ RecordFailure(r, t).failure_count = r.failure_count
        /\ RecordFailure(r, t).state = "OPEN"
    BY <1>1 DEF RecordFailure, Trip, BreakerRecord
  <2> QED
    BY <1>1, <2>1, BreakerAssumption DEF Backed, BreakerRecord
<1>2. CASE r.state # "HALF_OPEN" /\ r.failure_count + 1 >= Threshold
  <2>1. /\ RecordFailure(r, t).failure_count = r.failure_count + 1
    BY <1>2 DEF RecordFailure, Trip, Counted, BreakerRecord
  <2> QED
    BY <1>2, <2>1, BreakerAssumption DEF Backed, BreakerRecord
<1>3. CASE r.state # "HALF_OPEN" /\ ~(r.failure_count + 1 >= Threshold)
  <2>1. /\ RecordFailure(r, t).failure_count = r.failure_count + 1
        /\ RecordFailure(r, t).state = r.state
    BY <1>3 DEF RecordFailure, Trip, Counted, BreakerRecord
  <2> QED
    BY <1>3, <2>1, BreakerAssumption DEF Backed, BreakerRecord
<1> QED
  BY <1>1, <1>2, <1>3

LEMMA SuccessResets ==
    ASSUME NEW r \in BreakerRecord
    PROVE  RecordSuccess(r) = Cold
<1>1. RecordSuccess(r) \in BreakerRecord
  BY BreakerTypes, 0 \in Nat
<1>2. /\ RecordSuccess(r).state = Cold.state
      /\ RecordSuccess(r).failure_count = Cold.failure_count
      /\ RecordSuccess(r).opened_at = Cold.opened_at
  BY DEF RecordSuccess, BreakerRecord, Cold
<1>3. Cold \in BreakerRecord
  BY DEF Cold, BreakerRecord, BreakerStates
<1> QED
  BY <1>1, <1>2, <1>3 DEF BreakerRecord

\* Where the copy of a process is the breaker it decides with and counts on.
Deciding == {"allow_request", "write_admission", "load_plugins", "run", "run_levels",
             "record_success", "record_failure"}

(* The inductive invariant behind OpenNeedsConsecutiveFailures: the failures
   since the last success cover the file and the copy that will replace it. *)
StreakInv ==
    /\ Backed(FromRecord(file), streak)
    /\ \A p \in Proc :
          /\ pc[p] \in Deciding => Backed(mem[p], streak)
          /\ pc[p] = "write_success" => mem[p] = Cold
          /\ pc[p] = "write_failure" => Backed(mem[p], streak + 1)

LEMMA StreakInit == Init => StreakInv
  BY ColdIsBacked DEF Init, StreakInv, Deciding, FromRecord

LEMMA StreakStep ==
    ASSUME Serial
    PROVE  TypeOK /\ StreakInv /\ [Next]_vars => StreakInv'
<1> SUFFICES ASSUME TypeOK, StreakInv, [Next]_vars PROVE StreakInv'
  OBVIOUS
<1> USE DEF TypeOK, GoTo, Steps
<1>1. ASSUME NEW p \in Proc, UNCHANGED <<file, streak, mem>>,
             \/ pc'[p] \in Deciding => pc[p] \in Deciding
             \/ pc'[p] \in {"idle", "read_breaker"},
             pc'[p] \notin {"write_success", "write_failure"}
      PROVE  StreakInv'
  BY <1>1 DEF StreakInv, Serial, Deciding, Backed, FromRecord
<1>2. ASSUME NEW p \in Proc,
             \/ Deny(p) \/ LoadPlugins(p) \/ PluginLoadFails(p)
             \/ RunSucceeds(p) \/ RunFailsAndRetries(p) \/ RunFailsFinally(p)
             \/ SpawnRaises(p) \/ RunAllReturns(p) \/ Crash(p)
       PROVE  StreakInv'
  BY <1>1, <1>2 DEF Deny, LoadPlugins, PluginLoadFails, RunSucceeds, Deciding,
     RunFailsAndRetries, RunFailsFinally, SpawnRaises, RunAllReturns, Crash
<1>3. ASSUME NEW p \in Proc, Start(p) PROVE StreakInv'
  BY <1>3 DEF Start, StreakInv, Serial, Deciding
<1>4. ASSUME NEW p \in Proc, ReadBreaker(p) PROVE StreakInv'
  BY <1>4 DEF ReadBreaker, StreakInv, Serial, Deciding
<1>5. ASSUME NEW p \in Proc, Admit(p) PROVE StreakInv'
  <2>1. Backed(AllowRequest(mem[p], now), streak)
    BY <1>5, AllowIsBacked DEF Admit, StreakInv, Deciding
  <2> QED
    BY <1>5, <2>1 DEF Admit, StreakInv, Serial, Deciding
<1>6. ASSUME NEW p \in Proc, WriteAdmission(p) PROVE StreakInv'
  <2>1. Backed(mem[p], streak) /\ file' = mem[p] /\ file' # NoFile
    BY <1>6, BreakerAssumption DEF WriteAdmission, StreakInv, Deciding
  <2> QED
    BY <1>6, <2>1 DEF WriteAdmission, StreakInv, Serial, Deciding, FromRecord
<1>7. ASSUME NEW p \in Proc, RecordSuccessStep(p) PROVE StreakInv'
  BY <1>7, SuccessResets DEF RecordSuccessStep, StreakInv, Serial, Deciding
<1>8. ASSUME NEW p \in Proc, RecordFailureStep(p) PROVE StreakInv'
  <2>1. Backed(RecordFailure(mem[p], now), streak + 1)
    BY <1>8, FailureIsBacked DEF RecordFailureStep, StreakInv, Deciding
  <2> QED
    BY <1>8, <2>1 DEF RecordFailureStep, StreakInv, Serial, Deciding
<1>9. ASSUME NEW p \in Proc, WriteSuccess(p) PROVE StreakInv'
  <2>1. FromRecord(file') = Cold
    BY <1>9 DEF WriteSuccess, StreakInv, FromRecord
  <2>2. Backed(Cold, 0)
    BY ColdIsBacked
  <2> QED
    BY <1>9, <2>1, <2>2 DEF WriteSuccess, StreakInv, Serial, Deciding
<1>10. ASSUME NEW p \in Proc, WriteFailure(p) PROVE StreakInv'
  <2>1. Backed(mem[p], streak + 1) /\ file' = mem[p] /\ file' # NoFile
    BY <1>10, BreakerAssumption DEF WriteFailure, StreakInv
  <2> QED
    BY <1>10, <2>1 DEF WriteFailure, StreakInv, Serial, Deciding, FromRecord
<1>11. CASE Clear
  BY <1>11, ColdIsBacked DEF Clear, StreakInv, FromRecord
<1>12. CASE Tick \/ UNCHANGED vars
  BY <1>12 DEF Tick, vars, StreakInv
<1> QED
  BY <1>2, <1>3, <1>4, <1>5, <1>6, <1>7, <1>8, <1>9, <1>10, <1>11, <1>12
     DEF Next, Step, Progress

(* Where runs do not overlap, an OPEN breaker has Threshold persisted failures
   behind it with no success in between, crashes and `clear` included. *)
THEOREM OpenNeedsConsecutiveFailuresCorrect ==
    ASSUME Serial
    PROVE  Spec => []OpenNeedsConsecutiveFailures
<1>1. StreakInv => OpenNeedsConsecutiveFailures
  BY DEF StreakInv, Backed, OpenNeedsConsecutiveFailures
<1> QED
  BY TypeInit, TypeStep, StreakInit, StreakStep, <1>1, PTL DEF Spec

-----------------------------------------------------------------------------
\* r is what record_failure makes of the breaker on disk at some instant.
FailedSince(r) ==
    \E t \in FromRecord(file).opened_at .. now : r = RecordFailure(FromRecord(file), t)

(* How the copy of the one running process relates to the breaker on disk, from
   its read to its last write. *)
CopyInv ==
    \A p \in Proc :
        /\ pc[p] = "allow_request" => mem[p] = FromRecord(file)
        /\ pc[p] = "write_admission" =>
              \/ mem[p] = FromRecord(file) /\ mem[p].state # "OPEN"
              \/ /\ FromRecord(file).state = "OPEN"
                 /\ CooledDown(FromRecord(file), now)
                 /\ mem[p] = [FromRecord(file) EXCEPT !.state = "HALF_OPEN"]
        /\ pc[p] \in {"load_plugins", "run", "run_levels", "record_success",
                      "record_failure"} =>
              mem[p] = FromRecord(file) /\ mem[p].state # "OPEN"
        /\ pc[p] = "write_success" =>
              mem[p] = Cold /\ FromRecord(file).state # "OPEN"
        /\ pc[p] = "write_failure" =>
              FailedSince(mem[p]) /\ FromRecord(file).state # "OPEN"

LEMMA CopyInit == Init => CopyInv
  BY DEF Init, CopyInv

LEMMA AdmittedCopy ==
    ASSUME NEW r \in BreakerRecord, NEW t \in Nat, Admits(r, t)
    PROVE  \/ AllowRequest(r, t) = r /\ r.state # "OPEN"
           \/ /\ r.state = "OPEN" /\ CooledDown(r, t)
              /\ AllowRequest(r, t) = [r EXCEPT !.state = "HALF_OPEN"]
  BY DEF Admits, AllowRequest

LEMMA WrittenCopy ==
    ASSUME NEW r \in BreakerRecord
    PROVE  FromRecord(r) = r
  BY BreakerAssumption DEF FromRecord

LEMMA CopyStep ==
    ASSUME Serial, ~MayClear
    PROVE  TypeOK /\ AllSound /\ CopyInv /\ [Next]_vars => CopyInv'
<1> SUFFICES ASSUME TypeOK, AllSound, CopyInv, [Next]_vars PROVE CopyInv'
  OBVIOUS
<1> USE DEF TypeOK, GoTo, Steps
<1> DEFINE disk == FromRecord(file)
<1>1. disk \in BreakerRecord /\ disk.opened_at <= now
  BY FromRecordType, ColdIsSound DEF FromRecord, AllSound, Sound
<1>2. ASSUME NEW p \in Proc,
             \/ Deny(p) \/ LoadPlugins(p) \/ PluginLoadFails(p)
             \/ RunSucceeds(p) \/ RunFailsAndRetries(p) \/ RunFailsFinally(p)
             \/ SpawnRaises(p) \/ RunAllReturns(p) \/ Crash(p) \/ Start(p)
       PROVE  CopyInv'
  BY <1>2 DEF Deny, LoadPlugins, PluginLoadFails, RunSucceeds, RunFailsAndRetries,
     RunFailsFinally, SpawnRaises, RunAllReturns, Crash, Start, CopyInv, Serial
<1>3. ASSUME NEW p \in Proc, ReadBreaker(p) PROVE CopyInv'
  BY <1>3 DEF ReadBreaker, CopyInv, Serial
<1>4. ASSUME NEW p \in Proc, Admit(p) PROVE CopyInv'
  <2>1. /\ mem[p] = disk /\ Admits(disk, now) /\ mem'[p] = AllowRequest(disk, now)
        /\ UNCHANGED <<file, now>> /\ pc'[p] = "write_admission"
    BY <1>4 DEF Admit, CopyInv
  <2>2. \/ mem'[p] = disk /\ disk.state # "OPEN"
        \/ /\ disk.state = "OPEN" /\ CooledDown(disk, now)
           /\ mem'[p] = [disk EXCEPT !.state = "HALF_OPEN"]
    BY <1>1, <2>1, AdmittedCopy
  <2> QED
    BY <2>1, <2>2 DEF CopyInv, Serial
<1>5. ASSUME NEW p \in Proc, WriteAdmission(p) PROVE CopyInv'
  <2>1. /\ file' = mem[p] /\ mem' = mem /\ FromRecord(file') = mem[p]
        /\ pc'[p] \in {"load_plugins", "run_levels"}
    BY <1>5, WrittenCopy DEF WriteAdmission
  <2>2. mem[p].state # "OPEN"
    BY <1>1, <1>5 DEF WriteAdmission, CopyInv, BreakerRecord
  <2> QED
    BY <2>1, <2>2 DEF CopyInv, Serial
<1>6. ASSUME NEW p \in Proc, RecordSuccessStep(p) PROVE CopyInv'
  BY <1>6, SuccessResets DEF RecordSuccessStep, CopyInv, Serial
<1>7. ASSUME NEW p \in Proc, RecordFailureStep(p) PROVE CopyInv'
  <2>1. /\ mem'[p] = RecordFailure(disk, now) /\ disk.state # "OPEN"
        /\ UNCHANGED <<file, now>> /\ pc'[p] = "write_failure"
    BY <1>7 DEF RecordFailureStep, CopyInv
  <2>2. now \in disk.opened_at .. now
    BY <1>1 DEF BreakerRecord
  <2>3. FailedSince(mem[p])'
    BY <2>1, <2>2 DEF FailedSince
  <2> QED
    BY <2>1, <2>3 DEF CopyInv, Serial
<1>8. ASSUME NEW p \in Proc, WriteSuccess(p) \/ WriteFailure(p) PROVE CopyInv'
  BY <1>8 DEF WriteSuccess, WriteFailure, CopyInv, Serial
<1>9. CASE Clear
  BY <1>9 DEF Clear
<1>10. CASE Tick
  <2>1. now' = now + 1 /\ UNCHANGED <<file, pc, mem>>
    BY <1>10 DEF Tick
  <2>2. CooledDown(disk, now) => CooledDown(disk, now')
    BY <1>1, <2>1, BreakerAssumption DEF CooledDown, BreakerRecord
  <2>3. \A t : t \in disk.opened_at .. now => t \in disk.opened_at .. now'
    BY <1>1, <2>1 DEF BreakerRecord
  <2>4. \A p \in Proc : FailedSince(mem[p]) => FailedSince(mem[p])'
    BY <2>1, <2>3 DEF FailedSince
  <2> HIDE DEF disk
  <2>5. disk = FromRecord(file) /\ disk = FromRecord(file')
    BY <2>1 DEF disk
  <2> QED
    BY <2>1, <2>2, <2>4, <2>5 DEF CopyInv
<1>11. CASE UNCHANGED vars
  BY <1>11 DEF vars, CopyInv, FailedSince
<1> QED
  BY <1>2, <1>3, <1>4, <1>5, <1>6, <1>7, <1>8, <1>9, <1>10, <1>11
     DEF Next, Step, Progress

LEMMA PromiseInit == Init => Promise!PromiseInit
  BY DEF Init, Promise!PromiseInit, Promise!Cold, FromRecord, Cold

LEMMA PromiseStep ==
    ASSUME Serial, ~MayClear
    PROVE  TypeOK /\ CopyInv /\ [Next]_vars =>
               [Promise!PromiseNext]_Promise!promiseVars
<1> SUFFICES ASSUME TypeOK, CopyInv, [Next]_vars
             PROVE  Promise!PromiseNext \/ UNCHANGED <<FromRecord(file), now>>
  BY DEF Promise!promiseVars
<1> DEFINE disk == FromRecord(file)
<1>1. disk \in BreakerRecord
  BY FromRecordType DEF TypeOK
<1>2. ASSUME UNCHANGED <<file, now>> PROVE UNCHANGED <<FromRecord(file), now>>
  BY <1>2 DEF FromRecord
<1>3. ASSUME NEW p \in Proc,
             \/ Deny(p) \/ LoadPlugins(p) \/ PluginLoadFails(p)
             \/ RunSucceeds(p) \/ RunFailsAndRetries(p) \/ RunFailsFinally(p)
             \/ SpawnRaises(p) \/ RunAllReturns(p) \/ Crash(p) \/ Start(p)
             \/ ReadBreaker(p) \/ Admit(p) \/ RecordSuccessStep(p)
             \/ RecordFailureStep(p)
       PROVE  UNCHANGED <<file, now>>
  BY <1>3 DEF Deny, LoadPlugins, PluginLoadFails, RunSucceeds, RunFailsAndRetries,
     RunFailsFinally, SpawnRaises, RunAllReturns, Crash, Start, ReadBreaker, Admit,
     RecordSuccessStep, RecordFailureStep
\* The admission is a stutter or the trial.
<1>4. ASSUME NEW p \in Proc, WriteAdmission(p)
      PROVE  Promise!AdmitTrial \/ UNCHANGED <<FromRecord(file), now>>
  <2>1. FromRecord(file') = mem[p] /\ now' = now
    BY <1>4, WrittenCopy DEF WriteAdmission, TypeOK
  <2>2. \/ mem[p] = disk
        \/ /\ disk.state = "OPEN" /\ CooledDown(disk, now)
           /\ mem[p] = [disk EXCEPT !.state = "HALF_OPEN"]
    BY <1>4 DEF WriteAdmission, CopyInv, GoTo
  <2> QED
    BY <2>1, <2>2 DEF Promise!AdmitTrial, Promise!CooledDown, CooledDown
<1>5. ASSUME NEW p \in Proc, WriteSuccess(p) PROVE Promise!Succeed
  <2>1. FromRecord(file') = mem[p] /\ now' = now
    BY <1>5, WrittenCopy DEF WriteSuccess, TypeOK
  <2>2. mem[p] = Cold /\ disk.state # "OPEN"
    BY <1>5 DEF WriteSuccess, CopyInv, GoTo
  <2> QED
    BY <2>1, <2>2 DEF Promise!Succeed, Promise!Cold, Cold
<1>6. ASSUME NEW p \in Proc, WriteFailure(p) PROVE Promise!Fail
  <2>1. FromRecord(file') = mem[p] /\ now' = now
    BY <1>6, WrittenCopy DEF WriteFailure, TypeOK
  <2>2. FailedSince(mem[p]) /\ disk.state # "OPEN"
    BY <1>6 DEF WriteFailure, CopyInv, GoTo
  <2>3. PICK t \in disk.opened_at .. now : mem[p] = RecordFailure(disk, t)
    BY <2>2 DEF FailedSince
  <2>4. RecordFailure(disk, t) = Promise!RecordFailure(disk, t)
    BY DEF RecordFailure, Counted, Trip, Promise!RecordFailure, Promise!Counted,
           Promise!Trip
  <2> QED
    BY <2>1, <2>2, <2>3, <2>4 DEF Promise!Fail
<1>7. ASSUME Tick PROVE Promise!Advance
  BY <1>7 DEF Tick, Promise!Advance, FromRecord
<1>8. CASE Clear
  BY <1>8 DEF Clear
<1>9. CASE UNCHANGED vars
  BY <1>9, <1>2 DEF vars
<1> QED
  BY <1>2, <1>3, <1>4, <1>5, <1>6, <1>7, <1>8, <1>9
     DEF Next, Step, Progress, Promise!PromiseNext

(* GuardedRuns implements BreakerPromise when runs do not overlap and nobody
   clears: reads, admissions, retries, faults and crashes included. *)
THEOREM SerialRunsKeepThePromiseCorrect ==
    ASSUME Serial, ~MayClear
    PROVE  Spec => SerialRunsKeepThePromise
<1>1. Spec => [](TypeOK /\ CopyInv)
  BY AlwaysSound, CopyInit, CopyStep, PTL DEF Spec
<1> QED
  BY <1>1, PromiseInit, PromiseStep, PTL
     DEF Spec, SerialRunsKeepThePromise, Promise!PromiseSpec

LEMMA TrialStep ==
    ASSUME TypeOK, TypeOK', [Promise!PromiseNext]_Promise!promiseVars
    PROVE  FromRecord(file).state = "OPEN" /\ file' # NoFile =>
               \/ file' = file
               \/ /\ file'.state = "HALF_OPEN"
                  /\ CooledDown(file, now)
                  /\ file'.failure_count = file.failure_count
<1> SUFFICES ASSUME FromRecord(file).state = "OPEN", file' # NoFile
             PROVE  \/ file' = file
                    \/ /\ file'.state = "HALF_OPEN"
                       /\ CooledDown(file, now)
                       /\ file'.failure_count = file.failure_count
  OBVIOUS
<1>1. FromRecord(file) = file /\ FromRecord(file') = file' /\ file.state = "OPEN"
  BY DEF FromRecord, Cold
<1>2. file \in BreakerRecord
  BY <1>1 DEF TypeOK, FromRecord, Cold
<1>3. CASE Promise!AdmitTrial
  BY <1>1, <1>2, <1>3
     DEF Promise!AdmitTrial, Promise!CooledDown, CooledDown, BreakerRecord
<1>4. CASE Promise!Succeed \/ Promise!Fail
  BY <1>1, <1>4 DEF Promise!Succeed, Promise!Fail
<1>5. CASE Promise!Advance \/ UNCHANGED Promise!promiseVars
  BY <1>1, <1>5 DEF Promise!Advance, Promise!promiseVars
<1> QED
  BY <1>3, <1>4, <1>5 DEF Promise!PromiseNext

(* Where runs do not overlap, OPEN is left for HALF_OPEN after the cooldown and
   in no other way, with the failure counter kept. *)
THEOREM SerialOpenIsLeftOnlyThroughTrial ==
    ASSUME Serial, ~MayClear
    PROVE  Spec => OpenIsLeftOnlyThroughTrial
<1>1. Spec => [](TypeOK /\ CopyInv)
  BY AlwaysSound, CopyInit, CopyStep, PTL DEF Spec
<1>2. TypeOK /\ TypeOK' /\ [Promise!PromiseNext]_Promise!promiseVars =>
        [ FromRecord(file).state = "OPEN" /\ file' # NoFile =>
            \/ file' = file
            \/ /\ file'.state = "HALF_OPEN"
               /\ CooledDown(file, now)
               /\ file'.failure_count = file.failure_count ]_vars
  BY TrialStep
<1> QED
  BY <1>1, <1>2, TypeStep, PromiseStep, PTL DEF Spec, OpenIsLeftOnlyThroughTrial
=============================================================================
