------------------------------ MODULE ReportText ------------------------------
(***************************************************************************)
(* What parse_report_text (web/services.py) takes from the running text of  *)
(* a report and from its file name: the report date, the three main fields  *)
(* and the defense lines.  A date is the number yyyymmdd.                   *)
(***************************************************************************)
EXTENDS Naturals, Sequences, FiniteSets, SequencesExt

CONSTANT Calendar   \* the dates that exist

NoDate == 0
Year(date) == date \div 10000
Single(S)  == Cardinality(S) = 1
The(S)     == CHOOSE x \in S : TRUE

Detected(value, source, confidence, conflict) ==
    [value |-> value, source |-> source, confidence |-> confidence, conflict |-> conflict]

\* Mutant: a title date stands, whatever the file name says.
Titled_Trusting(date, file) == Detected(date, "pdf_title", "high", FALSE)

\* A title date that the file name contradicts is not trusted.
Titled(date, file) ==
    IF file # {} /\ date \notin file THEN Detected(date, "date_conflict", "low", TRUE)
    ELSE Detected(date, "pdf_title", "high", FALSE)

\* detect_report_date.  heading: dates of the declared live-summary heading;
\* top: of the first twenty lines; body: of the whole text; file: of the file
\* name; monthDay: its month and day, 0 for none.
DetectReportDate(d) ==
    LET years == {Year(date) : date \in d.body}
        named == {date \in Calendar : d.monthDay # 0 /\ Single(years)
                                      /\ date = The(years) * 10000 + d.monthDay}
        latest == CHOOSE date \in d.body : \A other \in d.body : other <= date
    IN  IF Single(d.heading) THEN Titled(The(d.heading), d.file)
        ELSE IF Single(d.top) THEN Titled(The(d.top), d.file)
        ELSE IF Single(d.file) THEN Detected(The(d.file), "filename", "medium", FALSE)
        ELSE IF d.file # {}
        THEN Detected(CHOOSE date \in d.file : \A other \in d.file : date <= other,
                      "date_conflict", "low", TRUE)
        ELSE IF named # {} THEN Detected(The(named), "filename_cross_checked", "medium", FALSE)
        ELSE IF Single(d.body) THEN Detected(The(d.body), "pdf_body", "high", FALSE)
        ELSE IF d.body # {} THEN Detected(latest, "date_conflict", "low", TRUE)
        ELSE Detected(NoDate, "unavailable", "low", FALSE)

----------------------------------------------------------------------------
(* _main_fields: each field is the passage of the first route that finds    *)
(* one.  An execution rule under a defense-line heading counts only beside  *)
(* a core line (_v30_execution_field).                                      *)

CoreRoutes   == <<"bounded_core", "labelled_core", "overview">>
MarketRoutes == <<"bounded_market", "labelled_market", "core_section", "next_session",
                  "close_rule", "trend">>
RiskRoutes   == <<"labelled_risk", "numbered_risk", "bounded_risk">>

NoPassage == "none"
Usable(passages) == IF "core_line" \in passages THEN passages ELSE passages \ {"close_rule"}
FirstPassage(routes, passages) ==
    LET found == {i \in DOMAIN routes : routes[i] \in Usable(passages)}
    IN  IF found = {} THEN NoPassage ELSE routes[CHOOSE i \in found : \A j \in found : i <= j]

MainFields(passages) == [core   |-> FirstPassage(CoreRoutes, passages),
                         market |-> FirstPassage(MarketRoutes, passages),
                         risk   |-> FirstPassage(RiskRoutes, passages)]

----------------------------------------------------------------------------
(* _extract_defense_lines: statements of the text are [kind, value, from].   *)

Evidence(value, role, confidence) == [value |-> value, role |-> role, confidence |-> confidence]

\* _extract_defense_line_candidates: a move says where the core line is now and
\* which line it was; a label alone is weaker.
Candidates(statement) ==
    CASE statement.kind = "moved" -> << Evidence(statement.value, "primary", "high"),
                                        Evidence(statement.from, "secondary", "high") >>
      [] statement.kind = "first_layer"  -> << Evidence(statement.value, "primary", "high") >>
      [] statement.kind = "second_layer" -> << Evidence(statement.value, "secondary", "high") >>
      [] statement.kind = "raised"       -> << Evidence(statement.value, "primary", "high") >>
      [] statement.kind = "core_label"   -> << Evidence(statement.value, "primary", "medium") >>
      [] statement.kind = "next_label"   -> << Evidence(statement.value, "secondary", "medium") >>

NoLine == 0

\* The strong evidence of a role, or else the weak; the most frequent value, or
\* else the highest, is suggested.
DefenseLine(statements, role) ==
    LET clue(at) == Candidates(statements[at[1]])[at[2]]
        evidence == {at \in (DOMAIN statements) \X {1, 2} :
                        at[2] \in DOMAIN Candidates(statements[at[1]]) /\ clue(at).role = role}
        strong   == {at \in evidence : clue(at).confidence = "high"}
        taken    == IF strong = {} THEN evidence ELSE strong
        values   == {clue(at).value : at \in taken}
        count(v) == Cardinality({at \in taken : clue(at).value = v})
        before(v, w) == count(v) < count(w) \/ (count(v) = count(w) /\ v <= w)
    IN  [value    |-> IF values = {} THEN NoLine
                      ELSE CHOOSE v \in values : \A w \in values : before(w, v),
         conflict |-> Cardinality(values) > 1]

DefenseLines(statements) ==
    LET primary   == DefenseLine(statements, "primary")
        secondary == DefenseLine(statements, "secondary")
    IN  [primary |-> primary.value, secondary |-> secondary.value,
         conflict |-> primary.conflict \/ secondary.conflict]
=============================================================================
