---------------------------- MODULE ReportLibrary ----------------------------
(***************************************************************************)
(* What the report tables promise to the pages and the ledger that read    *)
(* them: a report is drafted, published once and withdrawn for good, each   *)
(* in one step; its date is open until it is published, and a date shows at *)
(* most one report (tables reports and report_files, docs/architecture.md). *)
(***************************************************************************)
CONSTANTS Reports, Dates, NoDate

VARIABLES stage,    \* of each report: "absent", "draft", "published", "withdrawn"
          dated,    \* the day each report is about, or NoDate
          shown     \* what a Viewer reads: the current published reports

libraryVars == <<stage, dated, shown>>

LibraryInit == /\ stage = [r \in Reports |-> "absent"]
               /\ dated = [r \in Reports |-> NoDate]
               /\ shown = {}

Upload(r) == /\ stage[r] = "absent"
             /\ stage' = [stage EXCEPT ![r] = "draft"]
             /\ dated' = [dated EXCEPT ![r] = NoDate]
             /\ UNCHANGED shown

\* What is not published yet may be about any day.
Date(r) == /\ stage[r] = "draft"
           /\ \E d \in Dates \cup {NoDate} : dated' = [dated EXCEPT ![r] = d]
           /\ UNCHANGED <<stage, shown>>

SameDay(r) == {q \in Reports \ {r} : dated[q] = dated[r]}

\* The other reports of the day make room.  Whether r takes their place is left
\* open: another publication of the day may have told it to make room already,
\* and then the day shows no report (ReportHandlers!ViewerKeepsDate fails so).
Publish(r) == /\ stage[r] = "draft" /\ dated[r] \in Dates
              /\ stage' = [stage EXCEPT ![r] = "published"]
              /\ shown' \in {shown \ SameDay(r), (shown \ SameDay(r)) \cup {r}}
              /\ UNCHANGED dated

Withdraw(r) == /\ stage[r] = "published"
               /\ stage' = [stage EXCEPT ![r] = "withdrawn"]
               /\ shown' = shown \ {r}
               /\ UNCHANGED dated

Change(r) == Upload(r) \/ Date(r) \/ Publish(r) \/ Withdraw(r)

LibrarySpec == LibraryInit /\ [][\E r \in Reports : Change(r)]_libraryVars

\* A date shows at most one report, and only published ones.
OneIsShown == /\ \A r \in shown : r \in Reports /\ stage[r] = "published"
              /\ \A q, r \in shown : dated[q] = dated[r] => q = r

\* Once published, a report keeps its date; it leaves the Viewer by its own
\* withdrawal or by the publication of another report of that date, and does
\* not come back.
LeavesForGood ==
    [][\A r \in Reports : stage[r] \in {"published", "withdrawn"} =>
          /\ dated'[r] = dated[r]
          /\ r \in shown' => r \in shown
          /\ r \in shown /\ r \notin shown' =>
                \/ stage'[r] = "withdrawn"
                \/ \E q \in SameDay(r) : stage[q] = "draft" /\ stage'[q] = "published"]_libraryVars
=============================================================================
