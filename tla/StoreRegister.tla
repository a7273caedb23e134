--------------------------- MODULE StoreRegister ---------------------------
(***************************************************************************)
(* What the stores promise of one JSON file ("a reader observes either the *)
(* previous complete JSON or the new complete JSON; never a partial        *)
(* write"): a register.  A write takes effect in one instant or not at     *)
(* all, and a read answers what the register held at some instant between  *)
(* its call and its answer.                                                *)
(***************************************************************************)
CONSTANTS Proc, Value, Absent

VARIABLES
    value,  \* content of the file, or Absent
    op,     \* what each process is doing or has done last
    arg     \* value it wants to write, or the answer of its read

vars == <<value, op, arg>>

Quiet == {"idle", "wrote", "failed", "read", "dead"}

Init ==
    /\ value = Absent
    /\ op = [p \in Proc |-> "idle"]
    /\ arg = [p \in Proc |-> Absent]

Becomes(p, from, to) == op[p] \in from /\ op' = [op EXCEPT ![p] = to]

CallWrite(p) ==
    /\ Becomes(p, Quiet, "writing")
    /\ \E v \in Value : arg' = [arg EXCEPT ![p] = v]
    /\ UNCHANGED value

TakeEffect(p) ==
    /\ Becomes(p, {"writing"}, "wrote")
    /\ value' = arg[p]
    /\ arg' = [arg EXCEPT ![p] = Absent]

\* A write that raises has changed nothing.
Fail(p) ==
    /\ Becomes(p, {"writing"}, "failed")
    /\ arg' = [arg EXCEPT ![p] = Absent]
    /\ UNCHANGED value

CallRead(p) ==
    /\ Becomes(p, Quiet, "reading")
    /\ arg' = [arg EXCEPT ![p] = Absent]
    /\ UNCHANGED value

Observe(p) ==
    /\ Becomes(p, {"reading"}, "read")
    /\ arg' = [arg EXCEPT ![p] = value]
    /\ UNCHANGED value

\* A process that is stopped gives no answer, even if it has one already.
Die(p) ==
    /\ Becomes(p, {"writing", "failed", "reading", "read"}, "dead")
    /\ arg' = [arg EXCEPT ![p] = Absent]
    /\ UNCHANGED value

Remove == value' = Absent /\ UNCHANGED <<op, arg>>

Next ==
    \/ \E p \in Proc : \/ CallWrite(p) \/ TakeEffect(p) \/ Fail(p)
                       \/ CallRead(p) \/ Observe(p) \/ Die(p)
    \/ Remove

Spec == Init /\ [][Next]_vars
=============================================================================
