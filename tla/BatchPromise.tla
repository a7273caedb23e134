---------------------------- MODULE BatchPromise ----------------------------
(***************************************************************************)
(* What FR-02 and FR-06 promise of `run --all`, task by task and without   *)
(* threads, layers or locks: a task starts only when all its dependencies  *)
(* are done, and it is blocked only when one of them ended differently.    *)
(***************************************************************************)
EXTENDS Integers, FiniteSets

CONSTANT Task

VARIABLES depends_on, status

promiseVars == <<depends_on, status>>

PromiseOutcomes == {"done", "failed", "timeout"}

\* Dependencies without a record do not gate a task.
Known(t) == depends_on[t] \cap Task

Move(t, from, to) ==
    /\ status[t] = from
    /\ status' = [status EXCEPT ![t] = to]
    /\ UNCHANGED depends_on

Run(t) ==
    /\ \A d \in Known(t) : status[d] = "done"
    /\ Move(t, "pending", "running")

Finish(t) == \E result \in PromiseOutcomes : Move(t, "running", result)

Block(t) ==
    /\ \E d \in Known(t) : status[d] \notin {"done", "pending"}
    /\ Move(t, "pending", "blocked")

PromiseNext == \E t \in Task : Run(t) \/ Finish(t) \/ Block(t)

PromiseSpec == [][PromiseNext]_promiseVars
=============================================================================
