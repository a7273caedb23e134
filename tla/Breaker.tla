------------------------------ MODULE Breaker ------------------------------
(***************************************************************************)
(* The circuit breaker of service/breaker.py as pure operators on the      *)
(* record that storage/breaker_store.py keeps in breaker.json.  The class  *)
(* owns no I/O: each method below maps a record (and the wall clock it     *)
(* reads) to a record.                                                     *)
(***************************************************************************)
EXTENDS Integers

CONSTANTS
    Threshold,   \* TASKQ_BREAKER_THRESHOLD: int(env), any integer is accepted
    Cooldown,    \* TASKQ_BREAKER_COOLDOWN, in clock units
    NoFile       \* the value read_breaker() reports for an absent breaker.json

BreakerStates == {"CLOSED", "OPEN", "HALF_OPEN"}

BreakerRecord == [state : BreakerStates, failure_count : Nat, opened_at : Nat]

ASSUME BreakerAssumption ==
    /\ Threshold \in Int
    /\ Cooldown \in Int
    /\ NoFile \notin BreakerRecord

Cold == [state |-> "CLOSED", failure_count |-> 0, opened_at |-> 0]

\* None (missing or unreadable file) is a cold CLOSED start.
FromRecord(file) == IF file = NoFile THEN Cold ELSE file

CooledDown(r, now) == now - r.opened_at >= Cooldown

\* allow_request() answers False exactly for an OPEN record still cooling down.
Admits(r, now) == r.state = "OPEN" => CooledDown(r, now)

\* The side effect of allow_request(): OPEN moves to HALF_OPEN, nothing else.
AllowRequest(r, now) ==
    IF r.state = "OPEN" /\ CooledDown(r, now)
    THEN [r EXCEPT !.state = "HALF_OPEN"]
    ELSE r

Trip(r, now) == [r EXCEPT !.state = "OPEN", !.opened_at = now]

Counted(r) == [r EXCEPT !.failure_count = @ + 1]

\* Wrong variant, to confirm RecordsAreSound: trips one failure too early.
TripsEarly(r, now) ==
    IF r.state = "HALF_OPEN" \/ Counted(r).failure_count + 1 >= Threshold
    THEN Trip(Counted(r), now)
    ELSE Counted(r)

\* Wrong variant, to confirm FailedRunsStopTheQueue: trips one failure too late.
TripsLate(r, now) ==
    IF r.state = "HALF_OPEN" \/ Counted(r).failure_count > Threshold
    THEN Trip(Counted(r), now)
    ELSE Counted(r)

RecordFailure(r, now) ==
    IF r.state = "HALF_OPEN" THEN Trip(r, now)
    ELSE IF Counted(r).failure_count >= Threshold THEN Trip(Counted(r), now)
    ELSE Counted(r)

\* Wrong variant, to confirm TypeOK: takes one failure back per success.
ForgetsOneFailure(r) ==
    [r EXCEPT !.state = "CLOSED", !.failure_count = @ - 1, !.opened_at = 0]

\* Wrong variant, to confirm OpenNeedsConsecutiveFailures: the counter stays.
KeepsCounting(r) == [r EXCEPT !.state = "CLOSED", !.opened_at = 0]

RecordSuccess(r) ==
    [r EXCEPT !.state = "CLOSED", !.failure_count = 0, !.opened_at = 0]
=============================================================================
