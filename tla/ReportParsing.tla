---------------------------- MODULE ReportParsing ----------------------------
(***************************************************************************)
(* The deterministic interpretation of a report PDF (parse_report_text in   *)
(* web/services.py): the three extractions of one paper are read, and what  *)
(* is missing, uncertain or contradictory becomes an attention item that    *)
(* keeps the report from being published unseen.                            *)
(*                                                                         *)
(* A paper is what is printed and how the extractions show it.  Its table   *)
(* (HistoryMatrix) and its detailed assessments (AssessmentTable) carry the *)
(* printed statuses beside the readings.                                    *)
(***************************************************************************)
EXTENDS ReportText, HistoryMatrix, AssessmentTable

CONSTANTS Papers,         \* what PDFs can hold: a set of sets of papers
          NoPaper,
          SplitUps,       \* report_sector_lifecycle: [parent, children, effective]
          ManyColumns,    \* 35
          EnoughRows      \* 65

\* Texts are finite, the dates that they name exist, and lines are numbers.
ASSUME PaperAssumption ==
    /\ NoDate \notin Calendar
    /\ \A family \in Papers : \A p \in family :
          /\ \A dates \in {p.dates.heading, p.dates.top, p.dates.body, p.dates.file} :
                IsFiniteSet(dates) /\ NoDate \notin dates
          /\ Len(p.statements) \in Nat /\ DOMAIN p.statements = 1..Len(p.statements)
          /\ \A i \in DOMAIN p.statements : p.statements[i].value \in Nat

VARIABLES paper, outcome

parsingVars == <<paper, outcome>>

----------------------------------------------------------------------------
(* Which objects a report of a date speaks of (sector_lifecycle.py)         *)

Role(object, date) ==
    LET before(s) == date # NoDate /\ date < s.effective
        parents  == {s \in SplitUps : s.parent = object}
        children == {s \in SplitUps : object \in s.children}
    IN  IF parents # {} THEN IF \A s \in parents : before(s) THEN "active" ELSE "historical_only"
        ELSE IF \E s \in children : before(s) THEN "not_yet_active" ELSE "active"

Active(object, date) == Role(object, date) = "active"

----------------------------------------------------------------------------
(* Parts of the result                                                      *)

\* _report_template_version: the printed one, or the marks of V2.4.
Version(p, matrix) ==
    IF p.version # "unknown" THEN p.version
    ELSE IF p.marks24 /\ matrix.columns >= ManyColumns THEN "V2.4" ELSE "unknown"

Latest(matrix, object) ==
    IF object \in DOMAIN matrix.rows /\ matrix.rows[object] # <<>>
    THEN matrix.rows[object][Len(matrix.rows[object])] ELSE NoStatus

\* An assessment that the matrix contradicts asks for a look, whatever it was.
Compared(record, matrix) ==
    IF Latest(matrix, record.object) \notin {NoStatus, record.status} /\ record.status # NoStatus
    THEN Worse(record, "mismatch", "attention") ELSE record

Records(p, matrix, date) ==
    LET read == SelectSeq(Assessments(p.reading, Version(p, matrix)),
                          LAMBDA record : Active(record.object, date))
    IN  [i \in DOMAIN read |-> Compared(read[i], matrix)]

Ask(kind, severity) == [kind |-> kind, severity |-> severity]
When(condition, item) == IF condition THEN {item} ELSE {}

TextItems(p, version, date, fields) ==
    When(version = "unknown" /\ p.hasDetail, Ask("unknown_template", "warning"))
    \cup When(date.confidence = "low", Ask("report_date", "blocking"))
    \cup When(fields.core = NoPassage, Ask("core_view", "warning"))
    \cup When(fields.market = NoPassage, Ask("market_path", "warning"))

\* Names that no alias maps; a candidate that the report announces is kept only.
TermItems(p) == When("unmapped" \in p.terms, Ask("unmapped", "blocking"))
                \cup When("probable" \in p.terms, Ask("probable", "warning"))

\* Doubtful rows matter while no verified matrix carries the statuses.
RecordItems(p, matrix, records) ==
    When(p.hasDetail /\ records = <<>>, Ask("detailed_assessment_table", "blocking"))
    \cup {Ask("assessment_parse_quality", IF record.quality = "blocking" THEN "blocking" ELSE "warning") :
             record \in {r \in Range(records) : ~matrix.verified /\ r.quality # "verified"}}

MatrixItems(p, matrix) ==
    When(p.hasHistory /\ ~matrix.verified,
         Ask("history_matrix_quality", IF RowCount(matrix) >= EnoughRows THEN "warning" ELSE "blocking"))

LineItems(version, lines) ==
    When(version = "V2.9" /\ lines.conflict, Ask("defense_line_conflict", "blocking"))
    \cup When(version = "V2.9" /\ ~lines.conflict /\ lines.primary = NoLine,
              Ask("defense_line_missing", "blocking"))

TableKinds == {"detailed_assessment_table", "assessment_parse_quality", "history_matrix_quality"}

ParseQuality(items) ==
    IF \E item \in items : item.kind \in TableKinds /\ item.severity = "blocking" THEN "blocking_parse_error"
    ELSE IF \E item \in items : item.kind = "assessment_parse_quality" THEN "needs_attention"
    ELSE "verified_structure"

\* The sectors a report is about: assessed, or named among the main lines.
Mentions(p, records, date) ==
    [object \in {r.object : r \in Range(records)} \cup {o \in p.focus : Active(o, date)} |->
        LET own == {i \in DOMAIN records : records[i].object = object}
        IN  IF own = {} THEN "confirmed"
            ELSE records[CHOOSE i \in own : \A j \in own : j <= i].quality]

\* The date to which the history is frozen is built unchecked: one that does not
\* exist ends the parse.
Fails(p, date) == p.frozen = "impossible" /\ date.value # NoDate

----------------------------------------------------------------------------
(* parse_report_text                                                        *)

MatrixOf(p, date) == IF p.hasLayout THEN HistoryMatrix(p.table, date.value) ELSE NothingRead

Parsed(p, date, matrix, records, items) ==
    [failed |-> FALSE, date |-> date, fields |-> MainFields(p.passages),
     version |-> Version(p, matrix), matrix |-> matrix, records |-> records,
     mentions |-> Mentions(p, records, date.value), lines |-> DefenseLines(p.statements),
     items |-> items, quality |-> ParseQuality(items)]

Items(p, date, matrix, records) ==
    TextItems(p, Version(p, matrix), date, MainFields(p.passages)) \cup TermItems(p)
    \cup RecordItems(p, matrix, records) \cup MatrixItems(p, matrix)
    \cup LineItems(Version(p, matrix), DefenseLines(p.statements))

Failure == [failed |-> TRUE]

ParsingInit == paper = NoPaper /\ outcome = Failure

Interpret(p) ==
    /\ paper' = p
    /\ \E date \in {DetectReportDate(p.dates)} :
         IF Fails(p, date) THEN outcome' = Failure
         ELSE \E matrix \in {MatrixOf(p, date)} : \E records \in {Records(p, matrix, date.value)} :
              \E items \in {Items(p, date, matrix, records)} :
                 outcome' = Parsed(p, date, matrix, records, items)

ParsingNext == paper = NoPaper /\ \E family \in Papers : \E p \in family : Interpret(p)

ParsingSpec == ParsingInit /\ [][ParsingNext]_parsingVars

----------------------------------------------------------------------------
(* Properties                                                               *)

\* What the table prints for a sector in a column: its own row, or the rows that
\* continue it where that one is blank.
Printed(table, topic, column) ==
    LET cells(rows) == {row.cells[column] : row \in rows} \ {Blank}
        own == cells({row \in Range(table.print) : row.display = topic})
    IN  IF own # {} THEN own
        ELSE cells({row \in Range(table.print) : TopicOf(row.display) = topic}) \cup {Blank}

\* No status of a row that was wrapped, cut, split or lost has come to another
\* day or another sector: in every column in which a sector is
\* an object of the reports stands what is printed there, or nothing.
CellsArePrinted ==
    \A topic \in DOMAIN outcome.matrix.rows : \A column \in 1..paper.table.columns :
        Active(topic, paper.table.days[column]) =>
            outcome.matrix.rows[topic][column] \in Printed(paper.table, topic, column) \cup {Blank}

\* What the report will show as an object's status.
Shown(object) ==
    IF outcome.matrix.verified /\ Latest(outcome.matrix, object) \notin {NoStatus, Blank}
    THEN {Latest(outcome.matrix, object)}
    ELSE {r.status : r \in {r \in Range(outcome.records) : r.object = object}}

\* No labelled line is short by just the statuses that the next line has, of
\* another row: the reader of wrapped rows would take them for its own.
RowsApart(table) ==
    \A i \in 2..Len(table.lines) :
        LET line == table.lines[i - 1]
            next == table.lines[i]
        IN  line.label \in Displays /\ next.of # line.of
               => ~Wraps(line.statuses, next.statuses, table.columns)

\* No complete row of a split has a name that begins like a sector's it does not
\* continue: the reader of whole lines would take it for that sector's.
NamesApart(table) ==
    \A i \in DOMAIN table.lines :
        table.lines[i].label \in Splits /\ Len(table.lines[i].statuses) >= table.columns
           => Resembles[table.lines[i].label] \in {NoTopic, Continues[table.lines[i].label]}

\* Text of other rows that came into the cells of an object is not its status.
JudgementsArePrinted ==
    \A object \in DOMAIN paper.judged :
        Active(object, outcome.date.value) => Shown(object) \subseteq {paper.judged[object], NoStatus}

\* No status stands unseen that the paper does not print, where the lines and
\* names of the rows are apart: a matrix is called verified only if its cells are
\* the printed ones (the readers' docstrings: fail-closed), and a report that
\* asks nobody's attention shows the status under which the paper discusses an
\* object (parse_report_text).  Elsewhere a verified matrix can hold the next
\* row's statuses (services.py:1521) or those of a row with a similar name
\* (services.py:1662).
StatusesArePrinted ==
    ~outcome.failed /\ RowsApart(paper.table) /\ NamesApart(paper.table) =>
        /\ outcome.matrix.verified => CellsArePrinted
        /\ outcome.items = {} => JudgementsArePrinted

Moved == {s \in Range(paper.statements) : s.kind = "moved"}

\* A report that asks nobody's attention is certain of what it is about: it has a
\* date, not one that the file name contradicts; a printed history is shown only
\* from a verified matrix; and the core line of a V2.9 report is the one it was
\* moved to, wherever the text names other lines (parse_report_text).
UnattendedIsCertain ==
    ~outcome.failed /\ outcome.items = {} =>
        /\ outcome.date.value # NoDate
        /\ paper.dates.file # {} => outcome.date.value \in paper.dates.file
        /\ paper.hasHistory => outcome.matrix.verified
        /\ outcome.version = "V2.9" => \A s \in Moved : outcome.lines.primary = s.value
=============================================================================
