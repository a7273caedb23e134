--------------------------- MODULE MCCommandLine ---------------------------
(***************************************************************************)
(* Instances of CommandLine for TLC.                                       *)
(***************************************************************************)
EXTENDS CommandLine

\* Everything that can go wrong around a subcommand.
AllFaults == {"plugin", "legacy_log", "spawn", "unlink", "damage", "edit",
              "disk_full"}

\* What a later step can read of breaker.json: the count of a closed breaker
\* and the time at which an open one opened.
ReadableBreaker ==
    LET r == FromRecord(breaker)
    IN  [state |-> r.state,
         failure_count |-> IF r.state = "CLOSED" THEN r.failure_count ELSE 0,
         opened_at |-> IF r.state = "OPEN" THEN r.opened_at ELSE 0]

\* What a later step or property can read: of `last' whether it has its type,
\* for the rest is read as last'; the journal, what is unheard and what was
\* forced only of stored tasks, for an id is generated once, and the journal
\* only where the latest entry is in it; the last failure only after enough.
Readable == <<tasks, corrupt, ReadableBreaker, issued, now, streak,
              IF streak >= Threshold THEN failedAt ELSE 0,
              [t \in DOMAIN tasks \ unheard |-> journal[t]],
              unheard \cap DOMAIN tasks, forced \cap DOMAIN tasks,
              last \in Answers>>
=============================================================================
