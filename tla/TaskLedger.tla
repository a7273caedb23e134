---------------------------- MODULE TaskLedger ----------------------------
(***************************************************************************)
(* What `submit` promises of tasks.json when nothing but submits write it: *)
(* an append-only list of tasks, each admitted against the list as it was  *)
(* when its turn came.                                                     *)
(***************************************************************************)
EXTENDS Dag

CONSTANT LedgerDepth    \* longest dependency chain admitted, in nodes

VARIABLE ledger

LedgerIds == {ledger[n].id : n \in DOMAIN ledger}

LedgerGraph ==
    [i \in LedgerIds |->
        ledger[CHOOSE n \in DOMAIN ledger : ledger[n].id = i].depends_on]

LedgerInit == ledger = <<>>

\* A new, pending task under an unused id, whose dependencies are all listed
\* and whose longest chain is within the cap.
Admitted(task) ==
    /\ task.id \notin LedgerIds
    /\ task.status = "pending"
    /\ task.depends_on \subseteq LedgerIds
    /\ ChainLength(task.depends_on, LedgerGraph) <= LedgerDepth

LedgerNext ==
    /\ Len(ledger') = Len(ledger) + 1
    /\ \A n \in DOMAIN ledger : ledger'[n] = ledger[n]
    /\ Admitted(ledger'[Len(ledger')])

LedgerSpec == LedgerInit /\ [][LedgerNext]_ledger
===========================================================================
