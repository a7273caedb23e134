-------------------------- MODULE MCPureFunctions --------------------------
(***************************************************************************)
(* The pure functions on every small input.  service/dag.py: every task    *)
(* list over Node whose depends_on lists have at most MaxDeps entries, in  *)
(* every visiting order, is compared with the definitions of Dag and with  *)
(* the paths of the graph.  observability/: every small table is exported  *)
(* and parsed, every small journal, torn or not, written and read.         *)
(***************************************************************************)
EXTENDS DagAlgorithms, TextFormats

CONSTANTS Node, Outside, MaxDeps, MaxCommand, MaxName, MaxDetail

VARIABLES
    question,  \* which functions the input is for
    list, order, depends_on, \* input of the functions of service/dag.py
    tasks,                   \* input of export_tasks
    details, torn, kept,     \* what is written to the journal
    answer     \* what the functions return, or NoAnswer

dagInput == <<list, order, depends_on>>
journalInput == <<details, torn, kept>>
vars == <<question, dagInput, tasks, journalInput, answer>>

DepLists == BoundedSeq(Node \cup Outside, MaxDeps)

NoAnswer == [given |-> FALSE]

NoDagInput == list = <<>> /\ order = <<>> /\ depends_on = <<>>
NoJournalInput == details = <<>> /\ torn = 0 /\ kept = 0

AskDag ==
    /\ question = "dag"
    /\ list \in [Node -> DepLists]
    /\ order \in SetToSeqs(Node)
    /\ depends_on \in {<<n>> : n \in Node}
    /\ tasks = <<>>
    /\ NoJournalInput

\* TaskSubmission: neither blank nor with a bar.  Names are not validated.
Commands == {c \in BoundedSeq({"w", "nl", "ls", "sp", "-", "sk"}, MaxCommand) :
                Strip(c, Blanks) # <<>>}
Names == {None} \cup BoundedSeq({"w", "nl", "ls", "sp", "-", "sk", "|"}, MaxName)

Plain == [id |-> <<"w">>, command |-> <<"w">>, name |-> None, depends_on |-> <<>>]

AskExport ==
    /\ question = "export"
    /\ \E c \in Commands, n \in Names, d \in {<<>>, << <<"w">>, <<"w">> >>} :
          LET task == [id |-> <<"w">>, command |-> c, name |-> n, depends_on |-> d]
          IN  tasks \in {<<task>>, <<task, Plain>>}
    /\ NoDagInput
    /\ NoJournalInput

AskJournal ==
    /\ question = "journal"
    /\ details \in [1 .. 2 -> BoundedSeq({"w", "nl", "ls", "sk"}, MaxDetail)]
    /\ torn \in 0 .. 2
    /\ kept \in IF torn = 0 THEN {0} ELSE 0 .. Len(EmitLine(details[torn])) - 1
    /\ NoDagInput
    /\ tasks = <<>>

Init == (AskDag \/ AskExport \/ AskJournal) /\ answer = NoAnswer

Answer(to, result) ==
    /\ question = to
    /\ answer = NoAnswer
    /\ answer' = result
    /\ UNCHANGED <<question, dagInput, tasks, journalInput>>

\* chain_length presumes what detect_cycle established.
AnswerDag ==
    Answer("dag", [given |-> TRUE,
                   layers |-> TopologicalLayers(list),
                   cycle |-> DetectCycle(list, order),
                   ancestors |-> AncestorTasks(depends_on, list),
                   length |-> IF Cyclic(GraphOf(list)) THEN 0
                              ELSE ChainLength(ToSet(depends_on), GraphOf(list))])

AnswerExport ==
    Answer("export", LET documents == ExportTasks(tasks)
                     IN  [given |-> TRUE, documents |-> documents,
                          csv |-> ParseCsv(documents.csv),
                          md |-> ParseMd(documents.md)])

AnswerJournal ==
    Answer("journal", LET raw == Journal(details, torn, kept)
                      IN  [given |-> TRUE, raw |-> raw,
                           entries |-> ReadEntries(raw)])

Next == AnswerDag \/ AnswerExport \/ AnswerJournal

Spec == Init /\ [][Next]_vars

Answered(to) == question = to /\ answer.given
-----------------------------------------------------------------------------
(* The in-degree counters of topological_layers agree with peeling by
   definition, for repeated and unknown dependencies and for rings too; the
   layers partition the ids, and without a ring every dependency of an id is
   in a strictly earlier layer: what run_all's barriers rely on. *)
LayersAreOrdered == Answered("dag") => LayersAnswer(list, answer.layers)

(* detect_cycle reports a path exactly for the graphs with a ring, and the
   path is one: consecutive ids are dependencies and the last id closes it. *)
CycleIsGenuine == Answered("dag") => CycleAnswer(list, answer.cycle)

(* ancestor_tasks returns the least upward-closed set of records, also when
   the store holds a ring. *)
AncestorsAreClosure ==
    Answered("dag") => AncestorsAnswer(list, depends_on, answer.ancestors)

\* Upward paths from a dependency; ids without a record end a path.
Paths ==
    {s \in BoundedSeq(Node \cup Outside, Cardinality(Node) + 1) :
        /\ s # <<>>
        /\ s[1] \in ToSet(depends_on)
        /\ \A i \in 1 .. Len(s) - 1 :
              s[i] \in Node /\ s[i + 1] \in ToSet(list[s[i]])}

(* chain_length counts the nodes of the longest path that ends at the new
   task, the new task included: the <n> that check_depth compares. *)
LengthIsLongestPath ==
    Answered("dag") /\ ~Cyclic(GraphOf(list)) =>
        answer.length = 1 + MaxOrZero({Len(s) : s \in Paths})
-----------------------------------------------------------------------------
Expected == [i \in DOMAIN tasks |-> CellValues(NormaliseForExport(tasks[i]))]

NoneHas(cells, chars) == \A i \in DOMAIN cells : ~Has(cells[i], chars)

\* A cell that a Markdown table can hold.
FitsATable(cell) == ~Has(cell, {"|"} \cup LineBreaks) /\ cell = Strip(cell, Blanks)

(* SPEC section 8, 14: the formats agree on the number of tasks and on every
   field.  csv does whatever the texts are; Markdown does for cells without
   bars, line breaks and outer blanks, and bars do not change the number of
   tasks.  No secret is left in any of them (NFR-04). *)
FormatsAgree ==
    Answered("export") =>
        /\ answer.csv = Expected
        /\ (\A r \in DOMAIN Expected : \A i \in DOMAIN Expected[r] :
              FitsATable(Expected[r][i])) => answer.md = Expected
        /\ (\A r \in DOMAIN Expected : NoneHas(Expected[r], LineBreaks))
              => Len(answer.md) = Len(tasks)
        /\ ~Has(answer.documents.md, {"sk"})
        /\ \A r \in DOMAIN answer.documents.csv :
              NoneHas(answer.documents.csv[r], {"sk"})

(* SPEC section 8, 14, for every name and command that is accepted.
   Not kept by the code: see "Disagreements" in the README. *)
FormatsAlwaysAgree ==
    Answered("export") => Len(answer.md) = Len(tasks) /\ answer.md = Expected

Redacted == [i \in DOMAIN details |-> RedactText(details[i])]

(* The journal is one entry per line (SPEC FR-08): read_entries answers what
   emit was given, redacted.  When one line was torn by a kill or a full disk
   it answers the entries with or without that one, or raises; it never
   answers an entry that nobody wrote. *)
JournalReadsBack ==
    Answered("journal") =>
        /\ torn = 0 /\ NoneHas(details, {"ls"}) => answer.entries = Redacted
        /\ answer.entries # Raises =>
              answer.entries \in {Redacted, RemoveAt(Redacted, IF torn = 0 THEN 1 ELSE torn)}
        /\ ~Has(answer.raw, {"sk"})

(* ... and it can always be read.
   Not kept by the code: see "Disagreements" in the README. *)
JournalStaysReadable == Answered("journal") => answer.entries # Raises
=============================================================================
