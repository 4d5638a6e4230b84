----------------------------- MODULE HistoryMatrix -----------------------------
(***************************************************************************)
(* The history matrix of a report PDF: a table with a row of statuses per   *)
(* display row and a column per trading day.  Three readers of web/         *)
(* services.py recover it, one from the coordinates of the glyphs and two   *)
(* from the layout text, and parse_pdf_history_matrix chooses among them.   *)
(* A reader sees the table through an extraction that may have wrapped,     *)
(* cut, split or lost rows; it must not call a table verified that says     *)
(* something the paper does not.                                           *)
(***************************************************************************)
EXTENDS Naturals, Sequences, FiniteSets, SequencesExt

CONSTANTS Topics,        \* the sectors of the seed bundle
          Splits,        \* display rows that are no sector of their own
          Continues,     \* continuation_rows: the sector a split row continues, or NoTopic
          Resembles,     \* the sector whose name is a prefix of its name, or the reverse
          NoTopic,
          Retired,       \* sectors whose lifecycle is historical_only
          LateTopics,    \* the four that the old catalogue did not have
          CountedSplits, \* split rows that count as active beside the sectors
          MinColumns,    \* 20
          WrapMax,       \* 3
          FullShape,     \* [display |-> 74, active |-> 71]
          Windows        \* accepted_historical_shapes, each with its dates

Displays == Topics \cup Splits

ASSUME MatrixAssumption ==
    /\ Topics \cap Splits = {} /\ NoTopic \notin Displays
    /\ Continues \in [Splits -> Topics \cup {NoTopic}]
    /\ Resembles \in [Splits -> Topics \cup {NoTopic}]
    /\ Retired \subseteq Topics /\ LateTopics \subseteq Topics /\ CountedSplits \subseteq Splits
    /\ MinColumns \in Nat /\ WrapMax \in Nat

Blank == "blank"
Blanks(k) == [i \in 1..k |-> Blank]

\* What a reader returns; window: the dates of the shape that it accepted.
Always == [from |-> 0, through |-> 0]
Reading(columns, rows, verified) ==
    [columns |-> columns, rows |-> rows, verified |-> verified, old |-> FALSE, window |-> Always]
NothingRead == Reading(0, <<>>, FALSE)

----------------------------------------------------------------------------
(* _parse_positioned_history_matrix: rows are [display, cells], with a      *)
(* blank where no glyph lies near the column.                               *)

TopicOf(display) == IF display \in Topics THEN display
                    ELSE IF display \in Splits THEN Continues[display] ELSE NoTopic

\* A row that follows for the same sector fills blanks only.
Fill(left, right) == [i \in DOMAIN left |-> IF left[i] = Blank THEN right[i] ELSE left[i]]

Contradicts(left, right) ==
    \E i \in DOMAIN left : left[i] # right[i] /\ left[i] # Blank /\ right[i] # Blank

\* Split rows observe; a sector printed twice must not contradict itself.
Merge(found, row) ==
    LET topic == TopicOf(row.display)
    IN  IF topic = NoTopic THEN found
        ELSE IF topic \notin DOMAIN found.rows
        THEN [found EXCEPT !.rows = (topic :> row.cells) @@ @]
        ELSE [rows     |-> [found.rows EXCEPT ![topic] = Fill(@, row.cells)],
              conflict |-> found.conflict \/ (row.display \in Topics
                              /\ Contradicts(found.rows[topic], row.cells))]

\* The current shape has no dates.
Shapes == <<FullShape @@ Always>> \o Windows

Positioned(columns, printed) ==
    LET shown  == SelectSeq(printed, LAMBDA row : \E i \in DOMAIN row.cells : row.cells[i] # Blank)
        merged == FoldLeft(Merge, [rows |-> <<>>, conflict |-> FALSE], shown)
        active == IF Len(shown) >= FullShape.display THEN FullShape.active
                  ELSE Cardinality(DOMAIN merged.rows)
                       + Len(SelectSeq(shown, LAMBDA row : row.display \in CountedSplits))
        fits   == SelectSeq(Shapes, LAMBDA w : /\ w.display = Len(shown) /\ w.active = active
                                               /\ DOMAIN merged.rows = Topics)
        m      == Reading(columns, merged.rows, fits # <<>> /\ ~merged.conflict)
    IN  IF columns < MinColumns THEN NothingRead
        ELSE IF fits = <<>> THEN m
        ELSE [m EXCEPT !.window = [from |-> Head(fits).from, through |-> Head(fits).through]]

----------------------------------------------------------------------------
(* The layout readers: lines are [of, label, clear, name, statuses]; of is  *)
(* the row that the paper prints there, which no reader sees, name tells    *)
(* how the text before the statuses looks when it is no label, clear        *)
(* whether the label stands whole in front of its statuses.                 *)

\* parse_pdf_history_matrix: complete lines of sectors only, the last one stands.
Layout(columns, lines) ==
    LET topic(d) == IF d \in Splits THEN Resembles[d] ELSE d
        whole(t) == {i \in DOMAIN lines : /\ topic(lines[i].label) = t /\ lines[i].clear
                                          /\ Len(lines[i].statuses) >= columns}
        found    == {t \in Topics : whole(t) # {}}
        last(t)  == lines[CHOOSE i \in whole(t) : \A j \in whole(t) : j <= i].statuses
        rows     == [t \in found |-> SubSeq(last(t), Len(last(t)) - columns + 1, Len(last(t)))]
        old      == found = Topics \ LateTopics
    IN  IF columns < MinColumns THEN NothingRead
        ELSE [Reading(columns, rows, found = Topics \/ old) EXCEPT !.old = old]

\* Mutant: a row that lost statuses is completed like the rows of a split.
Padded_Any(label, statuses, columns) ==
    LET blanks == Blanks(columns - Len(statuses))
    IN  IF label \in Retired THEN statuses \o blanks ELSE blanks \o statuses

\* A retired sector has its first columns, a split row its last ones; <<>> when
\* the row is none of these and must be complete.
Padded(label, statuses, columns) ==
    LET blanks == Blanks(columns - Len(statuses))
    IN  IF Len(statuses) = columns THEN statuses
        ELSE IF label \in Retired THEN statuses \o blanks
        ELSE IF label \in Splits THEN blanks \o statuses ELSE <<>>

\* The final cells of a row may stand alone on the next line.
Wraps(statuses, following, columns) ==
    \/ Len(statuses) \in 1..WrapMax /\ Len(statuses) + Len(following) = columns
    \/ Len(statuses) + 1 = columns /\ Len(following) = 1

\* What an unlabelled line means: a complete row of an unknown name is kept as
\* evidence, an almost complete one is a row that was not recovered.
Unresolved(line, columns) ==
    /\ Len(line.statuses) + 1 >= columns
    /\ \/ line.name = "glyph"
       \/ line.name = "name" /\ Len(line.statuses) # columns

LegacyLine(columns, lines, found, i) ==
    LET line      == lines[i]
        At(j)     == IF j \in DOMAIN lines THEN lines[j].statuses ELSE <<>>
        wraps     == Wraps(line.statuses, At(i + 1), columns)
        statuses  == IF wraps THEN line.statuses \o At(i + 1) ELSE line.statuses
        row       == Padded(line.label, statuses, columns)
        later     == IF wraps THEN [found EXCEPT !.used = i + 1] ELSE found
        failed    == [later EXCEPT !.failed = TRUE]
        remainder == /\ Len(statuses) + 1 < columns /\ line.label \in Topics \ Retired
                     /\ Len(At(i - 1)) + 1 >= columns
    IN  IF found.used = i \/ line.statuses = <<>> THEN found
        ELSE IF line.label \notin Displays
        THEN [found EXCEPT !.failed = @ \/ Unresolved(line, columns)]
        ELSE IF remainder THEN later
        ELSE IF Len(statuses) > columns \/ row = <<>> THEN failed
        ELSE IF line.label \in DOMAIN found.rows /\ found.rows[line.label] # row THEN failed
        ELSE [later EXCEPT !.rows = (line.label :> row) @@ @]

\* _parse_legacy_layout_history_matrix: every row that stands there must have
\* been recovered.
Legacy(columns, lines) ==
    LET step(found, i) == LegacyLine(columns, lines, found, i)
        found == FoldLeft(step, [rows |-> <<>>, used |-> 0, failed |-> FALSE],
                          [i \in 1..Len(lines) |-> i])
        rows  == [t \in Topics \cap DOMAIN found.rows |-> found.rows[t]]
    IN  IF DOMAIN found.rows = {} THEN NothingRead
        ELSE Reading(columns, rows, ~found.failed)

----------------------------------------------------------------------------
(* Choice and lifecycle window                                              *)

RowCount(m) == Cardinality(DOMAIN m.rows)
Better(m, n) == \/ RowCount(m) > RowCount(n)
                \/ RowCount(m) = RowCount(n) /\ m.verified /\ ~n.verified

\* The first of the best, in the order layout, positioned, legacy.
Best(readings) ==
    readings[CHOOSE i \in DOMAIN readings :
                \A j \in DOMAIN readings : /\ ~Better(readings[j], readings[i])
                                           /\ j < i => Better(readings[i], readings[j])]

\* A printed table as the two extractions show it.  heading: the layout text
\* has the section's heading, and its date ("dated") or not ("bare").
Chosen(table) ==
    LET layout     == Layout(table.columns, table.lines)
        legacy     == IF table.heading = "dated" THEN Legacy(table.columns, table.lines) ELSE NothingRead
        positioned == Positioned(table.columns, table.glyphs)
    IN  IF table.heading = "none" THEN IF RowCount(positioned) > 0 THEN positioned ELSE NothingRead
        ELSE IF layout.old THEN layout
        ELSE Best(<<layout, positioned, legacy>>)

\* _history_shape_matches_report_date
InWindow(m, date) == m.window # Always => /\ date >= m.window.from
                                          /\ m.window.through # 0 => date <= m.window.through

\* parse_pdf_history_matrix with the window of the report date.
HistoryMatrix(table, date) ==
    LET m == Chosen(table) IN [m EXCEPT !.verified = @ /\ InWindow(m, date)]
=============================================================================
