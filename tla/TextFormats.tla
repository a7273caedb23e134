---------------------------- MODULE TextFormats ----------------------------
(***************************************************************************)
(* What is written for others to read and the readers that go with it: the *)
(* three formats of observability/export.py and the JSON Lines journal of  *)
(* observability/audit.py.  A text is a sequence of characters, of which   *)
(* only those are told apart that some reader or writer treats specially:  *)
(*     "w" any ordinary one     "|" the bar of a Markdown table            *)
(*     "nl" \n                  "ls" U+2028, U+2029, U+0085: a line break   *)
(*     "sp" a blank             for str.splitlines, but not for JSON       *)
(*     "-" a dash or a colon    "sk" a whole secret (SECRET_RE)            *)
(* Tables have the columns id, command, name and depends_on; status and    *)
(* created_at are ordinary words like the id.  Python's csv and json are   *)
(* external: their readers invert their writers.                           *)
(***************************************************************************)
EXTENDS Naturals, SequencesExt

CONSTANTS
    None,   \* a task without a name
    Raises  \* the outcome of a reader that raises

LineBreaks == {"nl", "ls"}
Blanks == {"sp"} \cup LineBreaks

Has(text, chars) == ToSet(text) \cap chars # {}

\* str.split: the pieces between the separators.
Split(text, chars) ==
    FoldLeft(LAMBDA pieces, c :
                IF c \in chars THEN Append(pieces, <<>>)
                ELSE ReplaceAt(pieces, Len(pieces), Append(Last(pieces), c)),
             << <<>> >>, text)

\* str.splitlines: a break at the end of the text starts no further line.
SplitLines(text) ==
    LET pieces == Split(text, LineBreaks)
    IN  IF Last(pieces) = <<>> THEN Front(pieces) ELSE pieces

Joined(pieces, separator) ==
    FlattenSeq([i \in DOMAIN pieces |->
                  IF i = 1 THEN pieces[i] ELSE separator \o pieces[i]])

Strip(text, chars) ==
    LET kept == {i \in DOMAIN text : text[i] \notin chars}
    IN  IF kept = {} THEN <<>>
        ELSE SubSeq(text, CHOOSE i \in kept : \A j \in kept : i <= j,
                          CHOOSE i \in kept : \A j \in kept : i >= j)

REDACTED == <<"w">>

\* redact_text: every line that holds a secret is replaced as a whole.
RedactText(text) ==
    LET lines == Split(text, {"nl"})
    IN  Joined([i \in DOMAIN lines |->
                  IF Has(lines[i], {"sk"}) THEN REDACTED ELSE lines[i]], <<"nl">>)

-----------------------------------------------------------------------------
\* observability/export.py

EXPORT_FIELDS == <<"id", "command", "name", "depends_on">>

RedactLeaf(value) == IF value = None THEN None ELSE RedactText(value)

\* Wrong variant, to confirm FormatsAgree: the name is not redacted.
NormaliseCommandOnly(task) == [task EXCEPT !.command = RedactLeaf(@)]

NormaliseForExport(task) ==
    [task EXCEPT !.command = RedactLeaf(@), !.name = RedactLeaf(@),
                 !.depends_on = [i \in DOMAIN @ |-> RedactLeaf(@[i])]]

\* _stringify: None is the empty text, a list its items between commas.
CellValues(row) ==
    <<row.id, row.command, IF row.name = None THEN <<>> ELSE row.name,
      Joined(row.depends_on, <<"w">>)>>

\* A missing cell is empty, an extra one dropped.
RowToDict(cells) ==
    [i \in DOMAIN EXPORT_FIELDS |-> IF i <= Len(cells) THEN cells[i] ELSE <<>>]

RenderCsv(rows) ==
    <<[i \in DOMAIN EXPORT_FIELDS |-> <<"w">>]>>
        \o [r \in DOMAIN rows |-> CellValues(rows[r])]

ParseCsv(document) ==
    LET Kept(row) == \E i \in DOMAIN row : Strip(row[i], Blanks) # <<>>
        rows == SelectSeq(Tail(document), Kept)
    IN  [r \in DOMAIN rows |-> RowToDict(rows[r])]

TableRow(cells) ==
    <<"|", "sp">> \o Joined(cells, <<"sp", "|", "sp">>) \o <<"sp", "|">>

RenderMd(rows) ==
    LET header == TableRow([i \in DOMAIN EXPORT_FIELDS |-> <<"w">>])
        separator == <<"|">> \o Joined([i \in DOMAIN EXPORT_FIELDS |-> <<"-">>],
                                       <<"|">>) \o <<"|">>
    IN  Joined(<<header, separator>>
                  \o [r \in DOMAIN rows |-> TableRow(CellValues(rows[r]))],
               <<"nl">>) \o <<"nl">>

\* Lines between bars, the first of which is the header, and no separators.
ParseMd(document) ==
    LET IsRow(line) == line # <<>> /\ line[1] = "|" /\ Last(line) = "|"
        CellsOf(line) ==
            LET cells == Split(Strip(line, {"|"}), {"|"})
            IN  [i \in DOMAIN cells |-> Strip(cells[i], Blanks)]
        IsSeparator(cells) ==
            \A i \in DOMAIN cells : ToSet(cells[i]) \subseteq {"-", "sp"}
        lines == SplitLines(document)
        table == SelectSeq([l \in DOMAIN lines |-> Strip(lines[l], Blanks)], IsRow)
        rows == SelectSeq([r \in DOMAIN Tail(table) |-> CellsOf(Tail(table)[r])],
                          LAMBDA cells : ~IsSeparator(cells))
    IN  [r \in DOMAIN rows |-> RowToDict(rows[r])]

\* export_tasks followed by parse_export, in the formats that are texts.
ExportTasks(tasks) ==
    LET rows == [i \in DOMAIN tasks |-> NormaliseForExport(tasks[i])]
    IN  [json |-> rows, csv |-> RenderCsv(rows), md |-> RenderMd(rows)]

-----------------------------------------------------------------------------
\* observability/audit.py: the detail of an entry stands for the entry.

\* Wrong variant, to confirm JournalReadsBack: line breaks are not escaped.
DumpsVerbatim(detail) == <<"{">> \o detail \o <<"}">>

\* json.dumps(ensure_ascii=False) escapes \n and keeps U+2028.
Dumps(detail) ==
    <<"{">> \o [i \in DOMAIN detail |-> IF detail[i] = "nl" THEN "\\n"
                                        ELSE detail[i]] \o <<"}">>

Loads(line) ==
    IF /\ Len(line) >= 2 /\ line[1] = "{" /\ Last(line) = "}"
       /\ Cardinality({i \in DOMAIN line : line[i] \in {"{", "}"}}) = 2
    THEN [i \in 1 .. Len(line) - 2 |-> IF line[i + 1] = "\\n" THEN "nl"
                                       ELSE line[i + 1]]
    ELSE Raises

\* AuditLogger.emit: what one call appends to the file.
EmitLine(detail) == Dumps(RedactText(detail)) \o <<"nl">>

\* The file after a write per detail; of the entry number `torn` only the first
\* `kept` characters got to the disk (0: none was torn).
Journal(details, torn, kept) ==
    FlattenSeq([i \in DOMAIN details |->
                  IF i = torn THEN SubSeq(EmitLine(details[i]), 1, kept)
                  ELSE EmitLine(details[i])])

\* read_entries: one bad line makes the whole answer an exception.
ReadEntries(raw) ==
    LET lines == SelectSeq(SplitLines(raw),
                           LAMBDA line : Strip(line, Blanks) # <<>>)
        entries == [l \in DOMAIN lines |-> Loads(lines[l])]
    IN  IF Raises \in ToSet(entries) THEN Raises ELSE entries
=============================================================================
