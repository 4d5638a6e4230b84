---------------------------- MODULE AssessmentTable ----------------------------
(***************************************************************************)
(* The detailed assessments of a report PDF: a table with a row per sector  *)
(* and five cells per row.  Six readers of web/services.py recover it;      *)
(* parse_v23_assessments takes the first that recovers anything.  A reader  *)
(* sees a row through an extraction that may let a neighbour's text into a  *)
(* cell, empty a cell, or print a sector twice.                             *)
(*                                                                         *)
(* A row as it was read: the status words of its judgement cell, the other  *)
(* cells that are empty, what its prose shows of row bleed, its length, and *)
(* like, the text that it has in common with other rows (0: with none).     *)
(***************************************************************************)
EXTENDS Naturals, Sequences, FiniteSets, SequencesExt

CONSTANT ReportOrder    \* per report object, its place in the registry

RowNoise == {"peers",      \* names of two other sectors and no comparison said in words
             "crowd",      \* seven status words or more
             "outlier"}    \* a cell longer than a cell can be
RowCells == {"history", "basis", "condition"}

\* flags stand for validation_flags; quality is quality_status.
Assessment(row, status, flags, quality) ==
    [object |-> row.object, status |-> status, length |-> row.length,
     like |-> row.like, flags |-> flags, quality |-> quality]

NoStatus == ""

\* Mutant: of several status words the first counts.
RowStatus_First(row) == IF row.labels = {} THEN NoStatus ELSE CHOOSE l \in row.labels : TRUE

\* A judgement is the one status that its cell names.
RowStatus(row) == IF Cardinality(row.labels) = 1 THEN CHOOSE l \in row.labels : TRUE ELSE NoStatus

\* _assessment_quality
Quality(flags) == IF flags \cap (RowNoise \cup {"conflict"}) # {} THEN "blocking"
                  ELSE IF flags # {} THEN "attention" ELSE "verified"

Plain(row) == Assessment(row, RowStatus(row), row.empty \cup row.noise,
                         Quality(row.empty \cup row.noise))

\* In a V2.9 row that is bounded by coordinates, peers and an empty condition
\* are legitimate.
Native(row) ==
    LET flags == row.empty \cup row.noise
    IN  IF flags \subseteq {"peers", "crowd", "condition"}
        THEN Assessment(row, RowStatus(row), {}, "verified") ELSE Plain(row)

\* _finalize_layout_assessment keeps a row without a judgement.
Finalized(row) ==
    IF RowStatus(row) # NoStatus THEN Plain(row)
    ELSE Assessment(row, NoStatus, row.empty \cup row.noise \cup {"conflict"}, "blocking")

Judged(rows) == SelectSeq(rows, LAMBDA row : RowStatus(row) # NoStatus)
Each(Op(_), rows) == [i \in DOMAIN rows |-> Op(rows[i])]

\* One record per sector, the one that Wins prefers, in the registry's order.
Unique(records, Wins(_, _)) ==
    LET kept(i) == \A j \in DOMAIN records \ {i} :
                       records[j].object = records[i].object => Wins(i, j)
        places == SetToSortSeq({i \in DOMAIN records : kept(i)}, LAMBDA i, j :
                      ReportOrder[records[i].object] < ReportOrder[records[j].object])
    IN  [k \in DOMAIN places |-> records[places[k]]]

LastOf(records) == Unique(records, LAMBDA i, j : i > j)
LongestOf(records) == Unique(records, LAMBDA i, j :
                        \/ records[i].length > records[j].length
                        \/ records[i].length = records[j].length /\ i < j)

Worse(record, flag, quality) == [record EXCEPT !.flags = @ \cup {flag}, !.quality = quality]

----------------------------------------------------------------------------
(* Checks across rows                                                       *)

Siblings(records, i) == {j \in DOMAIN records : records[j].object = records[i].object}
Repeats(records, i)  == {j \in DOMAIN records : records[j].like = records[i].like /\ records[j].like # 0}
Beside(records, i)   == {i - 1, i + 1} \cap DOMAIN records

\* _validate_assessment_set: contradictory rows and a text used four times are
\* errors, a text like the neighbour's asks for a look.
ValidatedRow(records, i) ==
    LET checks == {flag \in {"conflict", "neighbour", "template"} :
                     CASE flag = "conflict"  -> \E j \in Siblings(records, i) : records[j].status # records[i].status
                       [] flag = "neighbour" -> Beside(records, i) \cap Repeats(records, i) # {}
                       [] flag = "template"  -> Cardinality(Repeats(records, i)) >= 4}
    IN  [records[i] EXCEPT !.flags = @ \cup checks,
                           !.quality = IF checks \cap {"conflict", "template"} # {} THEN "blocking"
                                       ELSE IF checks # {} /\ @ = "verified" THEN "attention" ELSE @]
Validated(records) == [i \in DOMAIN records |-> ValidatedRow(records, i)]

\* _parse_layout_assessments keeps the first row of a sector, as an error; the
\* look that a repeated neighbour asks for replaces any other verdict.
Firsts(records) ==
    LET firsts == Unique(records, LAMBDA i, j : i < j)
        twice(o) == Cardinality({i \in DOMAIN records : records[i].object = o}) > 1
        flagged == [i \in DOMAIN firsts |-> IF twice(firsts[i].object)
                                            THEN Worse(firsts[i], "duplicate", "blocking") ELSE firsts[i]]
    IN  [i \in DOMAIN flagged |-> IF Beside(flagged, i) \cap Repeats(flagged, i) # {}
                                  THEN Worse(flagged[i], "neighbour", "attention") ELSE flagged[i]]

----------------------------------------------------------------------------
(* The readers; a reading has the rows that each extraction offers.          *)

\* _parse_v29_positioned_assessments
V29Glyphs(rows) == LastOf(Each(Native, Judged(rows)))
\* _parse_v29_layout_assessments
V29Layout(rows) == LongestOf(Each(Plain, Judged(rows)))
\* _parse_positioned_assessments
Glyphs(rows) == LastOf(Each(Plain, Judged(rows)))
\* _parse_layout_assessments
LayoutTable(rows) == Firsts(Each(Finalized, rows))
\* parse_v23_assessments, the lines of the text layer
TextRows(rows) == Each(Plain, Judged(rows))
\* _parse_legacy_prose_assessments: statuses that a paragraph states.
Prose(rows) == [i \in DOMAIN rows |-> Assessment(rows[i], RowStatus(rows[i]), {"prose"}, "attention")]

OlderTables == {"V2.3", "V2.3.1", "V2.4", "V2.6"}

\* parse_v23_assessments: the first reader that recovers a row decides.
Assessments(reading, version) ==
    LET native  == version \notin OlderTables
        results == << IF native THEN V29Glyphs(reading.v29glyphs) ELSE <<>>,
                      IF native THEN Validated(V29Layout(reading.v29layout)) ELSE <<>>,
                      Validated(Glyphs(reading.glyphs)),
                      Validated(LayoutTable(reading.layout)),
                      Validated(TextRows(reading.text)),
                      Validated(Prose(Judged(reading.prose))) >>
        found   == {i \in DOMAIN results : results[i] # <<>>}
    IN  IF found = {} THEN <<>> ELSE results[CHOOSE i \in found : \A j \in found : i <= j]
=============================================================================
