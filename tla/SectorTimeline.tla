---------------------------- MODULE SectorTimeline ----------------------------
(***************************************************************************)
(* One report object as its readers see it.  Each published report left a   *)
(* path entry and an assessment for it (SectorPathEntry, SectorAssessment); *)
(* the verified history matrices left the cells of the path ledger          *)
(* (SectorPathHistoryEntry, PathHistory models how).  The Board             *)
(* (web/serializers.py), the sector's research page and the history matrix  *)
(* (web/enhanced_routes.py), the holding intervals and the strategy of a    *)
(* trading day (web/enhanced.py, effective_strategy.py) are computed from   *)
(* them at each request, each by a rule of its own.                         *)
(*                                                                         *)
(* A date has one published report at most (ReportHandlers.OneCurrent).     *)
(***************************************************************************)
EXTENDS MarketCalendar

CONSTANTS ReportDays,              \* dates that reports have
          ActiveFrom,              \* the day a split makes an object of its own, unless it is listed
          Views,                   \* path statuses that reports give it,
          Lines,                   \* that lines of a text layer give it,
          Printed,                 \* and that a matrix adds for days before its own
          WindowDays, MinOverlays, \* of a dormant sector: 20 and 10
          MaxChanges               \* bound on publications and edits

PathStatuses == {"avoid", "strong_watch", "watch", "weak_watch", "turn_hold",
                 "hold", "turn_weak", "exit", "not_mentioned"}

ASSUME TimelineAssumption ==
    /\ ReportDays \subseteq Coverage /\ ActiveFrom \in Nat
    /\ Views \cup Lines \cup Printed \subseteq PathStatuses
    /\ WindowDays \in Nat /\ MinOverlays \in Nat /\ MaxChanges \in Nat

VARIABLES listed,      \* it is one of the sectors, whose reports have path entries
          published,   \* per date, when its report was published: 1, 2, ... or 0
          entry,       \* per date, the SectorPathEntry of its report
          assessment,  \* per date, the SectorAssessment of its report
          cell,        \* per date, the SectorPathHistoryEntry
          changes      \* counts them

timelineVars == <<listed, published, entry, assessment, cell, changes>>

Row(s, x) == [status |-> s, explicit |-> x, manual |-> FALSE]
NoRow  == [status |-> "none", explicit |-> FALSE, manual |-> FALSE]
Marks  == [status: PathStatuses, explicit: BOOLEAN, manual: BOOLEAN] \cup {NoRow}
NoCell == [status |-> "none", source |-> NoDay]
Cells  == [status: PathStatuses, source: ReportDays] \cup {NoCell}

TimelineTypeOK ==
    /\ listed \in BOOLEAN /\ changes \in 0..MaxChanges
    /\ published \in [ReportDays -> Nat]
    /\ entry \in [ReportDays -> Marks] /\ assessment \in [ReportDays -> Marks]
    /\ cell \in [ReportDays -> Cells]

Reports      == {d \in ReportDays : published[d] > 0}
LatestReport == Latest(Reports)
Active(d)    == listed \/ d >= ActiveFrom

----------------------------------------------------------------------------
\* What readers compute.

Told(row) == row.explicit /\ row.status # "not_mentioned"

\* A report's word on the object: the path entry, or else the assessment.
Fact(d) == IF entry[d] # NoRow THEN entry[d] ELSE assessment[d]

\* controlled_trading_day_on_or_before
TradingDayOnOrBefore(day) == Latest({d \in TradingDates : d <= day})

\* Mutant: the report counts on its own day.
EffectiveFrom_SameDay(d) == TradingDayOnOrBefore(d)
EffectiveFrom(d) == NextTradingDay(d)

Spoken == {d \in Reports : Active(d) /\ Told(Fact(d))}

\* effective_strategy_for_trading_day: the facts in force at session t.
InForce(t) == {d \in Spoken : EffectiveFrom(d) # NoDay /\ EffectiveFrom(d) <= t}

Strategy(t) ==
    LET d == Latest(InForce(t))
        s == IF d = NoDay THEN "none" ELSE Fact(d).status
    IN [status |-> IF s = "turn_hold" THEN "hold" ELSE s,
        source |-> d,
        signal |-> IF d # NoDay /\ EffectiveFrom(d) = t THEN s ELSE "none"]

\* latest_explicit_sector_facts.  Mutant: only the assessment is asked.
LatestExplicit_AssessmentOnly == Latest({d \in Reports : Active(d) /\ Told(assessment[d])})
LatestExplicit ==
    Latest({d \in Reports : /\ Active(d) /\ Told(assessment[d])
                            /\ entry[d] # NoRow => Told(entry[d])})

\* path_history, through the latest report
Path == {d \in ReportDays : cell[d] # NoCell /\ Active(d) /\ d <= LatestReport}

CellStatus(d) == cell[d].status

\* effective_statuses: the last status that says something.
Carried(status) ==
    LET d == Latest({e \in DOMAIN status : status[e] # "not_mentioned"})
    IN IF d = NoDay THEN "none" ELSE status[d]

PathCarried == Carried([d \in Path |-> CellStatus(d)])

\* holding_interval_policy_v1.json
StrictHeld == {"turn_hold", "hold"}
StrictEnd  == {"strong_watch", "watch", "weak_watch", "turn_weak", "exit", "avoid"}
BroadHeld  == {"turn_hold", "hold", "strong_watch", "turn_weak"}
BroadEnd   == {"watch", "weak_watch", "exit", "avoid"}

\* active_holding_interval: from the newest cell back to a start or an end.
OpenHolding ==
    LET marks == {d \in Path : CellStatus(d) \in {"turn_hold"} \cup StrictEnd}
        mark  == Latest(marks)
    IN IF PathCarried \notin StrictHeld THEN [kind |-> "closed", start |-> NoDay]
       ELSE IF mark = NoDay \/ CellStatus(mark) # "turn_hold"
            THEN [kind |-> "start_unknown", start |-> NoDay]
       ELSE [kind |-> "active", start |-> mark]

\* One cell of the pass that holding_intervals_for_sector makes over them.
\* Mutant: a second turn_hold does not start again.
PassCell_FirstStart(pass, d, ends) ==
    LET s == CellStatus(d)
    IN IF d \notin Path \/ s = "not_mentioned" THEN pass
       ELSE IF s = "turn_hold" /\ pass.start = NoDay THEN [pass EXCEPT !.start = d, !.effective = s]
       ELSE IF pass.start # NoDay /\ s \in ends
            THEN [start |-> NoDay, effective |-> s,
                  past |-> pass.past \cup {[start |-> pass.start, end |-> d]}]
       ELSE [pass EXCEPT !.effective = s]
PassCell(pass, d, ends) ==
    LET s == CellStatus(d)
    IN IF d \notin Path \/ s = "not_mentioned" THEN pass
       ELSE IF s = "turn_hold" THEN [pass EXCEPT !.start = d, !.effective = s]
       ELSE IF pass.start # NoDay /\ s \in ends
            THEN [start |-> NoDay, effective |-> s,
                  past |-> pass.past \cup {[start |-> pass.start, end |-> d]}]
       ELSE [pass EXCEPT !.effective = s]

Pass(ends) ==
    LET pass[d \in 0..CoverageEnd] ==
            IF d = 0 THEN [start |-> NoDay, effective |-> "not_mentioned", past |-> {}]
            ELSE IF d \in ReportDays THEN PassCell(pass[d - 1], d, ends)
            ELSE pass[d - 1]
    IN pass

Intervals(held, ends) ==
    LET last == Pass(ends)[CoverageEnd]
    IN [open |-> IF last.effective \in held THEN last.start ELSE NoDay, past |-> last.past]

Strict == Intervals(StrictHeld, StrictEnd)
Broad  == Intervals(BroadHeld, BroadEnd)

\* classify_dormant_sector, when the Market Core has the days of `axis`.
Dormant(axis) ==
    LET window == {d \in axis : Cardinality({e \in axis : e > d}) < WindowDays}
        marked == {d \in Path : ReportMarketDate(d) \in window}
    IN /\ Cardinality(marked) >= MinOverlays
       /\ \A d \in marked : CellStatus(d) = "not_mentioned"

\* The sector's row of the Board on session t (sector_payloads, and its lighter twin
\* sector_view_payloads).  Its statuses are the cells' and, for an object without
\* path entries, the latest assessment's when no cell is as new.
Appends == /\ LatestReport # NoDay /\ entry[LatestReport] = NoRow
           /\ \A d \in Path : d < LatestReport
BoardDays == Path \cup {d \in {LatestReport} : Appends}
BoardStatus(d) == IF d \in Path THEN CellStatus(d) ELSE assessment[d].status

BoardEffective(t) == IF Strategy(t).source # NoDay THEN Strategy(t).status
                     ELSE Carried([d \in BoardDays |-> BoardStatus(d)])
Mentioned        == LatestReport # NoDay /\ LatestExplicit = LatestReport
LowAttention(t)  == ~Mentioned /\ Dormant({d \in TradingDates : d <= t})

\* The sector's research page: what it says of the latest report, and the status it
\* carries over the cells.
ResearchMentioned       == LatestReport # NoDay /\ Told(Fact(LatestReport))
ResearchLowAttention(t) == Dormant({d \in TradingDates : d <= t})
ResearchEffective       == PathCarried

\* What the history matrix may show on trading day t: the reports' own rows, in
\* place of cells they contradict, and the cells.
Overlays == {d \in Reports : Active(d) /\ (d \in Path /\ entry[d] # NoRow => entry[d].explicit)}
Shown(t) ==
    {[overlay |-> TRUE, by |-> d, date |-> d, status |-> Fact(d).status] :
        d \in {e \in Overlays : ReportMarketDate(e) = t}}
    \cup {[overlay |-> FALSE, by |-> cell[d].source, date |-> d, status |-> CellStatus(d)] :
        d \in {e \in Path : ReportMarketDate(e) = t}}

\* entry_precedence.  Mutant: cells before the reports' own rows.
Precedes_CellsFirst(x, y) ==
    \/ x.overlay /\ ~y.overlay
    \/ x.overlay = y.overlay /\ published[x.by] < published[y.by]
    \/ x.overlay = y.overlay /\ published[x.by] = published[y.by] /\ x.date <= y.date
Precedes(x, y) ==
    \/ ~x.overlay /\ y.overlay
    \/ x.overlay = y.overlay /\ published[x.by] < published[y.by]
    \/ x.overlay = y.overlay /\ published[x.by] = published[y.by] /\ x.date <= y.date

\* The matrix's entry for trading day t, when it has one.
MatrixEntry(t) == CHOOSE x \in Shown(t) : \A y \in Shown(t) : Precedes(y, x)

----------------------------------------------------------------------------
\* What changes them.

TimelineInit ==
    /\ listed \in BOOLEAN /\ changes = 0
    /\ published = [d \in ReportDays |-> 0]
    /\ entry = [d \in ReportDays |-> NoRow] /\ assessment = [d \in ReportDays |-> NoRow]
    /\ cell = [d \in ReportDays |-> NoCell]

\* ensure_structure, then parse_structured_text: both rows come from a mention or
\* none, or from a record of the assessment table; a line of the text layer may
\* give the path entry another status.  Of a report that predates the object only
\* the rows without a mention are left (parse_report_text).
Fallbacks  == {Row("not_mentioned", FALSE), Row("watch", TRUE)}
Recorded   == {Row(s, TRUE) : s \in Views}
Structures ==
    {[entry |-> r, assessment |-> r] : r \in Fallbacks \cup Recorded}
    \cup {[entry |-> Row(s, s # "not_mentioned"), assessment |-> r] :
             s \in Lines, r \in Fallbacks \cup Recorded}
Unmentioned == Row("not_mentioned", FALSE)
StructuresOf(d) == IF Active(d) THEN Structures ELSE {[entry |-> Unmentioned, assessment |-> Unmentioned]}

\* The cells a verified matrix of date d stands for: its own, and the earlier ones
\* that no later report's matrix has printed.  It repeats what a cell says.
Freeze(d, own, earlier) ==
    [e \in ReportDays |->
        IF e > d \/ ~Active(e) \/ cell[e].source >= d THEN cell[e]
        ELSE [status |-> IF e = d THEN own
                         ELSE IF cell[e] # NoCell THEN cell[e].status ELSE earlier,
              source |-> d]]

Publish(d) ==
    /\ d \notin Reports
    /\ published' = [published EXCEPT ![d] = Cardinality(Reports) + 1]
    /\ \E made \in StructuresOf(d) :
         /\ entry' = [entry EXCEPT ![d] = IF listed THEN made.entry ELSE NoRow]
         /\ assessment' = [assessment EXCEPT ![d] = made.assessment]
         /\ \/ UNCHANGED cell
            \/ \E earlier \in Printed :
                 cell' = Freeze(d, IF listed THEN made.entry.status ELSE made.assessment.status,
                                earlier)
    /\ UNCHANGED listed

\* update_path and update_assessment: an administrator's row.
Manual == [status: Views, explicit: BOOLEAN, manual: {TRUE}]

UpdatePath(d) ==
    /\ d \in Reports /\ entry[d] # NoRow
    /\ \E row \in Manual : entry' = [entry EXCEPT ![d] = row]
    /\ UNCHANGED <<listed, published, assessment, cell>>

UpdateAssessment(d) ==
    /\ d \in Reports
    /\ \E row \in Manual : assessment' = [assessment EXCEPT ![d] = row]
    /\ UNCHANGED <<listed, published, entry, cell>>

\* reparse_missing_assessment_facts: a verified native row of the PDF replaces what
\* an earlier parser stored, unless an administrator has edited it.
ReparseFacts(d) ==
    /\ d \in Reports /\ Active(d) /\ ~assessment[d].manual
    /\ \E row \in Recorded :
         /\ assessment' = [assessment EXCEPT ![d] = row]
         /\ entry' = [entry EXCEPT ![d] = IF @ = NoRow \/ @.manual THEN @ ELSE row]
    /\ UNCHANGED <<listed, published, cell>>

TimelineNext ==
    /\ changes < MaxChanges /\ changes' = changes + 1
    /\ \E d \in ReportDays : Publish(d) \/ UpdatePath(d) \/ UpdateAssessment(d) \/ ReparseFacts(d)

TimelineSpec == TimelineInit /\ [][TimelineNext]_timelineVars

----------------------------------------------------------------------------
\* Properties.

\* A report does not rewrite a session that it does not precede: no publication and
\* no edit of the report of a day changes the strategy of that day or of an earlier
\* session (effective_strategy_for_trading_day starts it at the next trading day),
\* nor the status that the Board gives for such a session while a report is in force
\* there.  Where none is, the Board falls back to the newest cell and does show
\* a report's word in the session of its own day (`or (effective[-1] ...)` in
\* sector_payloads, against the comment above it), so nothing is said of that case.
Touched == {d \in ReportDays : entry'[d] # entry[d] \/ assessment'[d] # assessment[d]}
SessionNotRewritten ==
    [][Touched # {} =>
         \A t \in TradingDates :
            (\A d \in Touched : t <= d) =>
               /\ Strategy(t)' = Strategy(t)
               /\ Strategy(t).source # NoDay => BoardEffective(t)' = BoardEffective(t)]_timelineVars

\* The two computations of the open holding interval agree, a strict interval
\* is open as a broad one from the same start, and intervals do not overlap.
HoldingAgrees ==
    /\ Strict.open = OpenHolding.start
    /\ Strict.open # NoDay => Broad.open = Strict.open
    /\ \A i \in Strict.past :
         /\ i.start < i.end /\ (Strict.open # NoDay => i.end < Strict.open)
         /\ \A j \in Strict.past : i = j \/ i.end <= j.start \/ j.end <= i.start

\* What the Board calls mentioned, or of low attention, the research page calls so
\* too.  Once all reports are in force the Board shows no newer view than the one its
\* strategy stands on, and when besides the ledger has just the reports' own words
\* both pages give the same effective status.  (An edited assessment of a report that
\* predates the object is on the Board alone: Appends does not ask for Active.)
OwnLedger == /\ Active(LatestReport)
             /\ Path = {d \in Reports : Active(d)}
             /\ \A d \in Path : /\ CellStatus(d) = Fact(d).status
                                /\ Told(Fact(d)) <=> CellStatus(d) # "not_mentioned"
BoardAgrees ==
    /\ Mentioned => ResearchMentioned
    /\ \A t \in TradingDates :
         /\ LowAttention(t) => ResearchLowAttention(t)
         /\ InForce(t) = Spoken =>
              /\ LatestExplicit <= Strategy(t).source
              /\ OwnLedger => \/ BoardEffective(t) = ResearchEffective
                              \/ BoardEffective(t) = "hold" /\ ResearchEffective = "turn_hold"

\* The last word on a trading day, when it was also published last, is what the
\* matrix shows there and what the next session follows.
MatrixAgrees ==
    \A t \in TradingDates :
        LET days == {d \in Reports : Active(d) /\ ReportMarketDate(d) = t}
            last == Latest(days)
            next == NextTradingDay(t)
        IN days # {} /\ Told(Fact(last)) /\ (\A d \in days : published[d] <= published[last])
           => /\ MatrixEntry(t).date = last /\ MatrixEntry(t).status = Fact(last).status
              /\ next # NoDay => Strategy(next).source = last

PagesAgree == Reports # {} => HoldingAgrees /\ BoardAgrees /\ MatrixAgrees
=============================================================================
