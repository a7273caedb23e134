--------------------------- MODULE BreakerPromise ---------------------------
(***************************************************************************)
(* What FR-03 and the docstring of class Breaker promise of the breaker as *)
(* the callers see it: one shared record, advanced by whole transitions.   *)
(* GuardedRuns implements it when runs do not overlap.                     *)
(***************************************************************************)
EXTENDS Breaker

VARIABLES breaker, now

promiseVars == <<breaker, now>>

PromiseInit == breaker = Cold /\ now = 0

\* OPEN --(cooldown elapsed, on admission)--> HALF_OPEN
AdmitTrial ==
    /\ breaker.state = "OPEN"
    /\ CooledDown(breaker, now)
    /\ breaker' = [breaker EXCEPT !.state = "HALF_OPEN"]
    /\ UNCHANGED now

\* A run that was admitted ends well: CLOSED, counter zeroed.
Succeed ==
    /\ breaker.state # "OPEN"
    /\ breaker' = Cold
    /\ UNCHANGED now

\* A run that was admitted ends badly, judged at some instant since the trip.
Fail ==
    /\ breaker.state # "OPEN"
    /\ \E t \in breaker.opened_at .. now : breaker' = RecordFailure(breaker, t)
    /\ UNCHANGED now

Advance ==
    /\ now' = now + 1
    /\ UNCHANGED breaker

PromiseNext == AdmitTrial \/ Succeed \/ Fail \/ Advance

PromiseSpec == PromiseInit /\ [][PromiseNext]_promiseVars
=============================================================================
