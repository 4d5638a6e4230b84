--------------------------- MODULE MCReportHandlers ---------------------------
(* Instances of ReportHandlers for TLC: what the parser may find. *)
EXTENDS ReportHandlers, TLC

CONSTANTS d1, d2

Found(date, confidence, attention) ==
    [date |-> date, confidence |-> confidence, attention |-> attention,
     complete |-> TRUE, terms |-> "none"]

\* A clean report of either date.
Clean == {Found(d, "high", {}) : d \in Dates}

\* Clean; no date found; a broken table with a warning, neither with a subject;
\* texts and terms missing.
Findings == {Found(d1, "high", {}),
             Found(NoDate, "low", {"report_date"}),
             Found(d1, "high", {"table", "notice"}),
             [Found(d1, "medium", {}) EXCEPT !.complete = FALSE, !.terms = "few"]}

NoHint    == {NoDate}
OtherHint == {d2, NoDate}
MCDates == {d1, d2}

Symmetry == Permutations(Reports) \cup Permutations(Handlers)
=============================================================================
