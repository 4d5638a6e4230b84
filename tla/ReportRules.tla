----------------------------- MODULE ReportRules -----------------------------
(***************************************************************************)
(* The pure rules of the report lifecycle (web/models.py, web/services.py, *)
(* web/review_workflow.py, web/website_md.py): what each operation computes *)
(* from the report row a session has loaded.  A row keeps the columns the  *)
(* rules read:                                                             *)
(*   status, interp   Report.status, Report.interpretation_status          *)
(*   date, sure       report_date, report_date_confidence = "high"         *)
(*   confirmed        "user": report_date_confirmed_by_user;               *)
(*                    "md": only report_date_confirmed (website MD)        *)
(*   meta             interpretation_meta_json: attention_items by kind,   *)
(*                    quality_status = "blocking_parse_error", source_kind *)
(*   complete, terms  title and main text present; unresolved UnmappedTerm *)
(*                    rows: none, at most five ("few"), more ("many")      *)
(*   current, stored  is_current; directory of ReportFile.storage_filename *)
(***************************************************************************)
CONSTANTS Dates,    \* report dates
          NoDate    \* report_date is NULL

ASSUME NoDateAssumption == NoDate \notin Dates

Statuses == {"uploaded", "parsing", "needs_review", "blocked",
             "ready_to_publish", "published", "withdrawn", "parse_failed"}

AllowedTransitions ==
    [uploaded         |-> {"parsing"},
     parsing          |-> {"needs_review", "blocked", "parse_failed"},
     needs_review     |-> {"parsing", "blocked", "ready_to_publish"},
     blocked          |-> {"parsing", "needs_review", "ready_to_publish"},
     ready_to_publish |-> {"parsing", "needs_review", "published"},
     published        |-> {"withdrawn"},
     withdrawn        |-> {},
     parse_failed     |-> {"parsing"}]

\* ReportStatus(report.status) raises for a text outside the enumeration.
CanTransition(row, target) ==
    row.status \in Statuses /\ target \in AllowedTransitions[row.status]

----------------------------------------------------------------------------
(* Attention items, by what distinguishes them to the rules.  "table" stands *)
(* for the blocking items about the document (table, matrix, unmapped term), *)
(* "notice" for its warnings, "row" for the warning about one sector's row,  *)
(* the only kind that carries a sector_key.                                  *)
BlockingKinds == {"report_date", "report_date_conflict",
                  "same_date_pdf_conflict", "table"}
Kinds         == BlockingKinds \cup {"notice", "row"}
DateKinds     == {"report_date", "report_date_conflict"}
Subjectless   == Kinds \ {"row"}

Meta == [attention: SUBSET Kinds, blocked: BOOLEAN, md: BOOLEAN]

Row == [status: Statuses \cup {"absent", "failed"},
        interp: {"uploading", "interpreting", "needs_attention", "ready", "failed"},
        date: Dates \cup {NoDate}, sure: BOOLEAN,
        confirmed: {"no", "md", "user"}, meta: Meta, complete: BOOLEAN,
        terms: {"none", "few", "many"}, current: BOOLEAN,
        stored: {"staging", "published"}]

\* Report(created_by=actor, interpretation_status="uploading") with defaults.
FreshRow ==
    [status |-> "uploaded", interp |-> "uploading", date |-> NoDate,
     sure |-> FALSE, confirmed |-> "no",
     meta |-> [attention |-> {}, blocked |-> FALSE, md |-> FALSE],
     complete |-> FALSE, terms |-> "none", current |-> TRUE,
     stored |-> "staging"]

AbsentRow == [FreshRow EXCEPT !.status = "absent"]

\* The UPDATE a session sends: the columns it changed since it loaded the
\* row; every other column keeps what other sessions have committed.
Merge(saved, loaded, mine) ==
    LET Column(c) == IF mine[c] # loaded[c] THEN mine[c] ELSE saved[c]
    IN  [status    |-> Column("status"),    interp   |-> Column("interp"),
         date      |-> Column("date"),      sure     |-> Column("sure"),
         confirmed |-> Column("confirmed"), meta     |-> Column("meta"),
         complete  |-> Column("complete"),  terms    |-> Column("terms"),
         current   |-> Column("current"),   stored   |-> Column("stored")]

\* What the parser may find in a PDF.
Outcome == [date: Dates \cup {NoDate}, confidence: {"high", "medium", "low"},
            attention: SUBSET (Kinds \ {"report_date_conflict", "same_date_pdf_conflict"}),
            complete: BOOLEAN, terms: {"none", "few", "many"}]

Interp(attention) == IF attention = {} THEN "ready" ELSE "needs_attention"

----------------------------------------------------------------------------
(* ReportService.parse                                                      *)
CanStartParse(row) == row.status = "parsing" \/ CanTransition(row, "parsing")

ParseStarted(row) == [row EXCEPT !.status = "parsing", !.interp = "interpreting"]

ParsedRow(row, found) ==
    [row EXCEPT
        !.status   = "needs_review",
        !.interp   = Interp(found.attention),
        !.date     = IF found.date # NoDate /\ found.confidence # "low"
                     THEN found.date ELSE @,
        !.sure     = found.confidence = "high",
        !.meta     = [attention |-> found.attention,
                      blocked   |-> "table" \in found.attention,
                      md        |-> FALSE],
        !.complete = found.complete,
        !.terms    = found.terms]

ParseFailedRow(row) == [row EXCEPT !.status = "parse_failed", !.interp = "failed"]

\* A blocking item added to the metadata after the parse.
Flagged(row, kind) == [row EXCEPT !.meta.attention = @ \cup {kind},
                                  !.meta.blocked   = TRUE]

\* The upload route: the chosen live date differs from the detected one.
HintRefused(row) ==
    [Flagged(row, "report_date_conflict") EXCEPT !.interp = "needs_attention"]

\* WebsiteMdImportService.apply
MdRow(row, date) ==
    [row EXCEPT !.status = "needs_review", !.interp = "ready", !.date = date,
                !.sure = TRUE,
                !.confirmed = IF @ = "user" THEN "user" ELSE "md",
                !.meta = [attention |-> {}, blocked |-> FALSE, md |-> TRUE],
                !.complete = TRUE]

----------------------------------------------------------------------------
(* Publication                                                              *)
DateTrusted(row) == row.date # NoDate /\ (row.sure \/ row.confirmed # "no")

HasBlocking(row) == row.meta.blocked \/ row.meta.attention \cap BlockingKinds # {}

\* Mutant: blocking parse results are not looked at.
Publishable_NoQuality(row, onDisk) ==
    /\ onDisk /\ DateTrusted(row) /\ row.complete /\ row.terms # "many"
    /\ row.status \in {"needs_review", "ready_to_publish"}

\* ReportService._validate_publishable raises nothing.
Publishable(row, onDisk) ==
    /\ onDisk /\ DateTrusted(row) /\ row.complete /\ row.terms # "many"
    /\ ~HasBlocking(row)
    /\ row.status \in {"needs_review", "ready_to_publish"}

\* ... but returns these.
HasWarnings(row) == row.meta.attention \ BlockingKinds # {} \/ row.terms # "none"

\* ReportService.ready
ReadyAllowed(row) ==
    /\ DateTrusted(row) /\ row.terms = "none" /\ ~HasBlocking(row)
    /\ CanTransition(row, "ready_to_publish")

\* Mutant: the promoted name is not recorded.
PublishedRow_KeepName(row) == [row EXCEPT !.status = "published", !.current = TRUE]

\* ReportService.publish, with the promoted file name
PublishedRow(row) ==
    [row EXCEPT !.status = "published", !.current = TRUE, !.stored = "published"]

\* ReportService.patch and _refresh_attention: the texts may be filled in or
\* emptied, of a published report too.
PatchedRow(row, date, confirm, complete) ==
    LET confirmed == IF confirm THEN "user" ELSE row.confirmed
        attention == IF confirmed = "user" THEN row.meta.attention \ {"report_date"}
                                           ELSE row.meta.attention
    IN  [row EXCEPT !.date = IF date = NoDate THEN @ ELSE date,
                    !.confirmed = confirmed, !.sure = @ \/ confirm,
                    !.complete = complete,
                    !.meta.attention = attention, !.interp = Interp(attention)]

\* ReportService.mark_staged_conflict
ConflictRow(row) == [row EXCEPT !.status = "blocked", !.interp = "needs_attention"]

----------------------------------------------------------------------------
(* ReviewWorkflowService                                                    *)
IssueState == {"none", "open", "resolved"}
NoIssues   == [k \in Kinds |-> "none"]

\* sync: a new attention item opens an issue, a known one does not reopen it;
\* a confirmed date settles the open date issues.
SyncedIssues(row, issues) ==
    [k \in Kinds |->
        LET known == IF issues[k] = "none" /\ k \in row.meta.attention
                     THEN "open" ELSE issues[k]
        IN  IF known = "open" /\ k \in DateKinds /\ row.confirmed # "no"
            THEN "resolved" ELSE known]

Open(issues) == {k \in Kinds : issues[k] = "open"}

WorkflowStatus(row, issues) ==
    CASE row.status = "published" -> "published"
      [] row.status # "published" /\ (row.status = "parse_failed" \/ row.interp = "failed")
            -> "failed"
      [] row.status \notin {"published", "parse_failed"} /\ row.interp # "failed"
            /\ (row.status = "parsing" \/ row.interp \in {"uploading", "interpreting"})
            -> "parsing"
      [] OTHER -> IF Open(issues) \cap BlockingKinds # {} THEN "blocked"
                  ELSE IF Open(issues) # {} THEN "needs_review"
                  ELSE "ready_to_publish"

\* Mutants: one status less is left alone.
ApplyState_Failed(row, issues) ==
    IF row.status \in {"published", "withdrawn", "parsing"}
    THEN row ELSE [row EXCEPT !.status = WorkflowStatus(row, issues)]
ApplyState_Withdrawn(row, issues) ==
    IF row.status \in {"published", "parsing", "parse_failed"}
    THEN row ELSE [row EXCEPT !.status = WorkflowStatus(row, issues)]

\* _apply_report_state assigns the status without the transition table.
ApplyState(row, issues) ==
    IF row.status \in {"published", "withdrawn", "parsing", "parse_failed"}
    THEN row
    ELSE [row EXCEPT !.status = WorkflowStatus(row, issues)]

\* resolve: an item goes when it is the issue's own, or when its sector_key
\* equals the issue's subject_key; both are None for the subjectless kinds.
\* A final value that is no date text (NoDate) leaves the date alone.
ResolvedRow(row, kind, date) ==
    LET left  == {k \in row.meta.attention :
                     k # kind /\ ~(k \in Subjectless /\ kind \in Subjectless)}
        dated == IF kind \in DateKinds /\ date # NoDate
                 THEN [row EXCEPT !.date = date, !.confirmed = "user", !.sure = TRUE]
                 ELSE row
    IN  [dated EXCEPT !.meta.attention = left,
                      !.meta.blocked = left \cap BlockingKinds # {},
                      !.interp = Interp(left)]
=============================================================================
