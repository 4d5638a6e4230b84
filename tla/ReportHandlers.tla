---------------------------- MODULE ReportHandlers ----------------------------
(***************************************************************************)
(* The request handlers that move a report through its lifecycle, one       *)
(* action per database transaction (web/app.py, web/services.py,            *)
(* web/review_workflow.py).  Each handler has a session of its own, and in  *)
(* it `mine`, its copy of the report row.  A commit writes the columns the  *)
(* step changed (ReportRules!Merge) and keeps the copy (expire_on_commit =  *)
(* False), which can be stale from then on; a rollback expires it, so that  *)
(* the next read loads the row again.                                       *)
(*                                                                         *)
(* `lock` is SQLite's write lock where it spans a step: the publishing      *)
(* handler holds it from the flush, over the rename of the PDF, to COMMIT.  *)
(***************************************************************************)
EXTENDS ReportRules, FiniteSets, Naturals

CONSTANTS Reports,        \* PDFs by SHA-256; one report row each
          NoReport,
          Handlers,       \* concurrent requests and operator scripts
          NoHandler,
          Ops,            \* the requests of this instance, a subset of AllOps
          ParseOutcomes,  \* what the parser may find, a subset of Outcome
          Hints,          \* report_date_hint values, a subset of Dates and NoDate
          AutoPublish,    \* settings.auto_publish_uploads
          CommitMayFail,  \* the publication's COMMIT can raise
          MaxCrashes      \* bound on process deaths

AllOps == {"upload", "upload_md", "parse", "patch", "ready", "publish",
           "withdraw", "view", "resolve", "term", "reconcile"}

Uploads == {"upload", "upload_md"}

ASSUME ConfigAssumption ==
    /\ NoHandler \notin Handlers /\ NoReport \notin Reports
    /\ Ops \subseteq AllOps
    /\ ParseOutcomes \subseteq Outcome
    /\ Hints \subseteq Dates \cup {NoDate}
    /\ AutoPublish \in BOOLEAN /\ CommitMayFail \in BOOLEAN
    /\ MaxCrashes \in Nat

VARIABLES db,       \* reports (and report_files) rows
          issues,   \* report_review_issues
          events,   \* publish_events of type "published", counted up to 2
          pdf,      \* where the file is: "none", "staging", "published"
          job,      \* what each handler is doing
          lock,     \* holder of the write transaction that spans steps
          crashes

vars == <<db, issues, events, pdf, job, lock, crashes>>

Steps == {"idle", "apply", "parse", "extract", "hint", "rebuild", "structure",
          "auto", "validate", "promote", "commit", "undo", "abort", "undone",
          "sync", "resolve", "decide", "patch", "ready", "withdraw", "term",
          "reconcile", "restore"}

Job == [op: AllOps \cup {"none"}, at: Steps, r: Reports \cup {NoReport},
        mine: Row]

Idle == [op |-> "none", at |-> "idle", r |-> NoReport,
         mine |-> AbsentRow]

TypeOK == /\ db \in [Reports -> Row]
          /\ issues \in [Reports -> [Kinds -> IssueState]]
          /\ events \in [Reports -> 0..2]
          /\ pdf \in [Reports -> {"none", "staging", "published"}]
          /\ job \in [Handlers -> Job]
          /\ lock \in Handlers \cup {NoHandler}
          /\ crashes \in 0..MaxCrashes

Init == /\ db = [r \in Reports |-> AbsentRow]
        /\ issues = [r \in Reports |-> NoIssues]
        /\ events = [r \in Reports |-> 0]
        /\ pdf = [r \in Reports |-> "none"]
        /\ job = [h \in Handlers |-> Idle]
        /\ lock = NoHandler
        /\ crashes = 0

----------------------------------------------------------------------------
Exists(r) == db[r].status # "absent"

\* The upload route is a coroutine without awaits after the file is read: it
\* holds the event loop, and no request starts until it has finished.
LoopFree == \A h \in Handlers : job[h].op \notin Uploads

OnDisk(h) == pdf[job[h].r] = job[h].mine.stored

At(h, step) == job[h].at = step

Goto(h, step) ==
    job' = [job EXCEPT ![h] = IF step = "idle" THEN Idle ELSE [@ EXCEPT !.at = step]]

\* Flush and commit the session's row; continue at step.
Save(h, row, step) ==
    /\ lock = NoHandler
    /\ db' = [db EXCEPT ![job[h].r] = Merge(@, job[h].mine, row)]
    /\ job' = [job EXCEPT ![h] = IF step = "idle" THEN Idle
                                 ELSE [@ EXCEPT !.at = step, !.mine = row]]

\* Roll back and load the row again.
Reload(h, step) ==
    job' = [job EXCEPT ![h] = IF step = "idle" THEN Idle
                              ELSE [@ EXCEPT !.at = step, !.mine = db[job[h].r]]]

\* After a WebDomainError the upload route answers with the review payload;
\* every other route returns the error, after its compensation if it has one.
AfterError(h)     == IF job[h].op \in Uploads THEN "sync" ELSE "idle"
AfterPromotion(h) == IF job[h].op \in Uploads THEN "undo" ELSE "abort"

\* Another report of the same date (reject_same_date_conflict), of any status.
SameDate(r, date) ==
    {q \in Reports \ {r} : Exists(q) /\ date # NoDate /\ db[q].date = date}

\* A published current report of the same date (audit_frozen_path_history).
Shown(date) == {q \in Reports : /\ date # NoDate /\ db[q].date = date
                                /\ db[q].status = "published" /\ db[q].current}

----------------------------------------------------------------------------
(* Requests                                                                 *)
FirstStep(op) == CASE op = "view" -> "sync"
                   [] op = "publish" -> "validate"
                   [] OTHER -> op

\* A threadpool route (or the operator script) loads its report.
Begin(h, op, r) ==
    /\ At(h, "idle") /\ op \in Ops \ Uploads /\ Exists(r)
    /\ LoopFree \/ op = "reconcile"
    /\ job' = [job EXCEPT ![h] = [op |-> op, at |-> FirstStep(op), r |-> r,
                                  mine |-> db[r]]]
    /\ UNCHANGED <<db, issues, events, pdf, lock, crashes>>

\* ReportService.upload of a new file: staged, then recorded.
UploadNew(h, op, r) ==
    /\ At(h, "idle") /\ op \in Ops \cap Uploads /\ ~Exists(r)
    /\ LoopFree /\ lock = NoHandler
    /\ pdf' = [pdf EXCEPT ![r] = "staging"]
    /\ db' = [db EXCEPT ![r] = FreshRow]
    /\ job' = [job EXCEPT ![h] = [op |-> op, r |-> r, mine |-> FreshRow,
                                  at |-> IF op = "upload" THEN "parse" ELSE "apply"]]
    /\ UNCHANGED <<issues, events, lock, crashes>>

\* Mutant: an interpretation in progress counts as done.
UploadDuplicate_ParsingDone(h, op, r) ==
    /\ At(h, "idle") /\ op \in Ops \cap Uploads /\ Exists(r) /\ LoopFree
    /\ op = "upload_md" => db[r].meta.md
    /\ job' = [job EXCEPT ![h] =
                 [op |-> op, r |-> r, mine |-> db[r],
                  at |-> IF db[r].status \in {"uploaded", "parse_failed"} THEN "parse" ELSE "sync"]]
    /\ UNCHANGED <<db, issues, events, pdf, lock, crashes>>

\* The same PDF again: interpreted only if an earlier interpretation did not
\* finish; with a website MD, refused unless that MD was applied.
UploadDuplicate(h, op, r) ==
    /\ At(h, "idle") /\ op \in Ops \cap Uploads /\ Exists(r) /\ LoopFree
    /\ op = "upload_md" => db[r].meta.md
    /\ job' = [job EXCEPT ![h] =
                 [op |-> op, r |-> r, mine |-> db[r],
                  at |-> IF op = "upload_md"
                         THEN IF AutoPublish /\ db[r].status # "published" THEN "auto" ELSE "sync"
                         ELSE IF db[r].status \in {"uploaded", "parsing", "parse_failed"}
                              THEN "parse" ELSE "sync"]]
    /\ UNCHANGED <<db, issues, events, pdf, lock, crashes>>

----------------------------------------------------------------------------
(* Interpretation                                                           *)
ParseStart(h) ==
    /\ At(h, "parse")
    /\ IF CanStartParse(job[h].mine)
       THEN Save(h, ParseStarted(job[h].mine), "extract")
       ELSE Goto(h, AfterError(h)) /\ UNCHANGED <<db>>
    /\ UNCHANGED <<issues, events, pdf, lock, crashes>>

ParseEnd(h) ==
    /\ At(h, "extract") /\ OnDisk(h)
    /\ \E found \in ParseOutcomes :
         /\ job[h].op = "reconcile" => found.date = job[h].mine.date
         /\ Save(h, ParsedRow(job[h].mine, found),
                 CASE job[h].op = "upload"    -> "hint"
                   [] job[h].op = "reconcile" -> "rebuild"
                   [] OTHER                   -> "idle")
    /\ UNCHANGED <<issues, events, pdf, lock, crashes>>

\* Rollback, then the failure is recorded on the row as it is now.
ParseFail(h) ==
    /\ At(h, "extract") /\ lock = NoHandler
    /\ LET failed == ParseFailedRow(db[job[h].r])
       IN  /\ db' = [db EXCEPT ![job[h].r] = failed]
           /\ job' = [job EXCEPT ![h] = IF @.op = "upload"
                                        THEN [@ EXCEPT !.at = "sync", !.mine = failed]
                                        ELSE Idle]
    /\ UNCHANGED <<issues, events, pdf, lock, crashes>>

\* WebsiteMdImportService.apply, one transaction.
ApplyMd(h) ==
    /\ At(h, "apply")
    /\ \E date \in Dates : Save(h, MdRow(job[h].mine, date), IF AutoPublish THEN "auto" ELSE "sync")
    /\ UNCHANGED <<issues, events, pdf, lock, crashes>>

\* The administrator chose a live date for the upload, or none.
CheckHint(h) ==
    /\ At(h, "hint")
    /\ \E hint \in Hints :
         IF hint # NoDate /\ job[h].mine.date # NoDate /\ hint # job[h].mine.date
         THEN Save(h, HintRefused(job[h].mine), "structure")
         ELSE Goto(h, "structure") /\ UNCHANGED <<db>>
    /\ UNCHANGED <<issues, events, pdf, lock, crashes>>

\* EnhancedReportService.parse_structured_text
ParseStructure(h) ==
    /\ At(h, "structure")
    /\ LET mine == job[h].mine
           row  == IF Shown(mine.date) \ {job[h].r} # {}
                   THEN Flagged(mine, "same_date_pdf_conflict") ELSE mine
       IN  Save(h, row, IF job[h].op = "upload" /\ AutoPublish THEN "auto" ELSE "sync")
    /\ UNCHANGED <<issues, events, pdf, lock, crashes>>

----------------------------------------------------------------------------
(* Publication                                                              *)

\* The automatic route: another file of the date blocks the candidate.
AutoConflict(h) ==
    /\ At(h, "auto") /\ SameDate(job[h].r, job[h].mine.date) # {}
    /\ LET md   == job[h].op = "upload_md"  \* rolls back first
           mine == IF md THEN db[job[h].r] ELSE job[h].mine
       IN  IF mine.status = "blocked" \/ CanTransition(mine, "blocked")
           THEN /\ lock = NoHandler
                /\ db' = [db EXCEPT ![job[h].r] = Merge(@, mine, ConflictRow(mine))]
           ELSE UNCHANGED db
    /\ Goto(h, "idle")
    /\ UNCHANGED <<issues, events, pdf, lock, crashes>>

\* publish_strict, or its website MD counterpart.
AutoPublishable(h) ==
    LET mine == job[h].mine
    IN  /\ Publishable(mine, OnDisk(h)) /\ ~HasWarnings(mine)
        /\ Shown(mine.date) \ {job[h].r} = {}

\* Mutant: neither the date nor the frozen history is checked.
AutoDecide_Unchecked(h) ==
    /\ At(h, "auto")
    /\ IF Publishable(job[h].mine, OnDisk(h)) /\ ~HasWarnings(job[h].mine)
       THEN Goto(h, "promote") ELSE Goto(h, "sync")
    /\ UNCHANGED <<db, issues, events, pdf, lock, crashes>>

AutoDecide(h) ==
    /\ At(h, "auto") /\ SameDate(job[h].r, job[h].mine.date) = {}
    /\ IF AutoPublishable(h)
       THEN Goto(h, "promote")
       ELSE IF job[h].op = "upload_md" THEN Reload(h, "sync") ELSE Goto(h, "sync")
    /\ UNCHANGED <<db, issues, events, pdf, lock, crashes>>

\* POST /reports/{id}/publish: a published report is returned as it is; only
\* a website MD report is checked against other files of its date.
PublishValidate(h) ==
    /\ At(h, "validate")
    /\ LET mine == job[h].mine
       IN  \E confirmed \in BOOLEAN :
             IF /\ mine.status # "published"
                /\ mine.meta.md => SameDate(job[h].r, mine.date) = {}
                /\ Publishable(mine, OnDisk(h))
                /\ confirmed \/ ~HasWarnings(mine)
             THEN Goto(h, "promote") ELSE Goto(h, "idle")
    /\ UNCHANGED <<db, issues, events, pdf, lock, crashes>>

\* Mutants: the new name is recorded without a rename; a missing staged file
\* is taken for already promoted.
Promote_NoRename(h) ==
    /\ At(h, "promote") /\ lock = NoHandler
    /\ lock' = h
    /\ Goto(h, "commit")
    /\ UNCHANGED <<db, issues, events, pdf, crashes>>
Promote_AssumeDone(h) ==
    /\ At(h, "promote") /\ lock = NoHandler
    /\ pdf' = [pdf EXCEPT ![job[h].r] = "published"]
    /\ lock' = h
    /\ Goto(h, "commit")
    /\ UNCHANGED <<db, issues, events, crashes>>

\* The status change is flushed, which takes the write lock; then
\* _promote_staged_pdf renames the file, if it is still where it was.
Promote(h) ==
    /\ At(h, "promote") /\ lock = NoHandler
    /\ IF job[h].mine.stored = "staging" /\ pdf[job[h].r] # "staging"
       THEN /\ Goto(h, AfterPromotion(h))  \* source_pdf_unavailable
            /\ UNCHANGED <<pdf, lock>>
       ELSE /\ pdf' = [pdf EXCEPT ![job[h].r] = IF job[h].mine.stored = "staging"
                                                THEN "published" ELSE @]
            /\ lock' = h
            /\ Goto(h, "commit")
    /\ UNCHANGED <<db, issues, events, crashes>>

\* Path history of another source for the same cells (canonical_history_conflict):
\* which cells those are is not modelled, so it may happen at any publication
\* that writes history.  A website MD writes it before the publication that
\* compensates, publish_strict inside it.
HistoryConflict(h) ==
    /\ At(h, "promote") /\ lock = NoHandler
    /\ job[h].op \in Uploads \/ job[h].mine.meta.md
    /\ IF job[h].op = "upload" THEN Goto(h, "undo") ELSE Reload(h, AfterError(h))
    /\ UNCHANGED <<db, issues, events, pdf, lock, crashes>>

\* Mutant: nobody is demoted.
Superseded_None(r, date) == {}

\* Reports that stop being current when r is published.
Superseded(r, date) == SameDate(r, date)

PublishCommit(h) ==
    /\ At(h, "commit") /\ lock = h
    /\ LET r   == job[h].r
           row == PublishedRow(job[h].mine)
           saved == [db EXCEPT ![r] = Merge(@, job[h].mine, row)]
       IN  /\ db' = [q \in Reports |->
                        IF q \in Superseded(r, row.date)
                        THEN [saved[q] EXCEPT !.current = FALSE] ELSE saved[q]]
           /\ events' = [events EXCEPT ![r] = IF @ = 2 THEN 2 ELSE @ + 1]
           /\ job' = [job EXCEPT ![h] = IF @.op \in Uploads
                                        THEN [@ EXCEPT !.at = "sync", !.mine = row]
                                        ELSE Idle]
    /\ lock' = NoHandler
    /\ UNCHANGED <<issues, pdf, crashes>>

\* COMMIT raises and the transaction is rolled back.
PublishCommitFails(h) ==
    /\ CommitMayFail /\ At(h, "commit") /\ lock = h
    /\ lock' = NoHandler
    /\ Goto(h, "abort")
    /\ UNCHANGED <<db, issues, events, pdf, crashes>>

\* _restore_staged_pdf, after the rollback: the row is loaded again, and the file
\* it names now goes back to .staging, whoever promoted it.  The old name is put
\* in the session, for whatever the route still commits: that is the workflow
\* sync of a PDF upload; a website MD upload rolls back once more.
Undo(h) ==
    /\ At(h, "undo") \/ At(h, "abort")
    /\ LET row  == db[job[h].r]
           back == job[h].mine.stored = "staging" /\ row.stored # "staging"
       IN  /\ pdf' = [pdf EXCEPT ![job[h].r] = IF back /\ @ = row.stored THEN "staging" ELSE @]
           /\ Reload(h, CASE At(h, "abort")                  -> "idle"
                          [] back /\ job[h].op = "upload"     -> "undone"
                          [] OTHER                           -> "sync")
    /\ UNCHANGED <<db, issues, events, lock, crashes>>

----------------------------------------------------------------------------
(* Review                                                                   *)

\* ReviewWorkflowService.sync; resolve starts with one and ends with one.  Its
\* commit also writes the file name an undone publication left in the session.
SyncWorkflow(h) ==
    /\ \/ At(h, "sync") \/ At(h, "undone")
       \/ At(h, "resolve") /\ job[h].mine.status # "published"
    /\ LET synced == SyncedIssues(job[h].mine, issues[job[h].r])
           row    == ApplyState(job[h].mine, synced)
       IN  /\ issues' = [issues EXCEPT ![job[h].r] = synced]
           /\ Save(h, IF At(h, "undone") THEN [row EXCEPT !.stored = "staging"] ELSE row,
                   CASE At(h, "resolve")           -> "decide"
                     [] job[h].op = "reconcile"    -> "restore"
                     [] OTHER                      -> "idle")
    /\ UNCHANGED <<events, pdf, lock, crashes>>

\* resolve: published_review_read_only.
ResolveRefused(h) ==
    /\ At(h, "resolve") /\ job[h].mine.status = "published"
    /\ Goto(h, "idle")
    /\ UNCHANGED <<db, issues, events, pdf, lock, crashes>>

\* The decision on one issue.  Repeating a recorded decision changes nothing.
Decide(h, kind) ==
    /\ At(h, "decide") /\ issues[job[h].r][kind] # "none"
    /\ \/ /\ issues[job[h].r][kind] = "resolved"
          /\ Goto(h, "sync") /\ UNCHANGED <<db, issues>>
       \/ LET decided == [issues[job[h].r] EXCEPT ![kind] = "resolved"]
          IN  /\ issues' = [issues EXCEPT ![job[h].r] = decided]
              /\ \E date \in Dates \cup {NoDate} :
                   /\ kind \notin DateKinds => date = NoDate
                   /\ Save(h, ApplyState(ResolvedRow(job[h].mine, kind, date), decided), "sync")
    /\ UNCHANGED <<events, pdf, lock, crashes>>

\* review_issue_not_found
DecideUnknown(h) ==
    /\ At(h, "decide") /\ \E kind \in Kinds : issues[job[h].r][kind] = "none"
    /\ Goto(h, "idle")
    /\ UNCHANGED <<db, issues, events, pdf, lock, crashes>>

\* PATCH of the report, or of its interpretation (which also syncs).
Patch(h) ==
    /\ At(h, "patch")
    /\ \E date \in Dates \cup {NoDate}, confirm, complete \in BOOLEAN, next \in {"idle", "sync"} :
         Save(h, PatchedRow(job[h].mine, date, confirm, complete), next)
    /\ UNCHANGED <<issues, events, pdf, lock, crashes>>

Ready(h) ==
    /\ At(h, "ready")
    /\ IF ReadyAllowed(job[h].mine)
       THEN Save(h, [job[h].mine EXCEPT !.status = "ready_to_publish"], "idle")
       ELSE Goto(h, "idle") /\ UNCHANGED db
    /\ UNCHANGED <<issues, events, pdf, lock, crashes>>

Withdraw(h) ==
    /\ At(h, "withdraw")
    /\ IF CanTransition(job[h].mine, "withdrawn")
       THEN Save(h, [job[h].mine EXCEPT !.status = "withdrawn"], "idle")
       ELSE Goto(h, "idle") /\ UNCHANGED db
    /\ UNCHANGED <<issues, events, pdf, lock, crashes>>

\* resolve_term: one unresolved term less.
ResolveTerm(h) ==
    /\ At(h, "term") /\ lock = NoHandler
    /\ \E left \in {"none", "few", "many"} :
         /\ db[job[h].r].terms = "none" => left = "none"
         /\ db[job[h].r].terms = "few" => left # "many"
         /\ db' = [db EXCEPT ![job[h].r].terms = left]
    /\ Goto(h, "idle")
    /\ UNCHANGED <<issues, events, pdf, lock, crashes>>

----------------------------------------------------------------------------
(* reconcile_existing_report_facts: an operator script takes a published     *)
(* report through the parser again and restores its publication.             *)
ReconcileStart(h) ==
    /\ At(h, "reconcile")
    /\ IF job[h].mine.status = "published" /\ OnDisk(h)
       THEN Save(h, [job[h].mine EXCEPT !.status = "needs_review"], "parse")
       ELSE Goto(h, "idle") /\ UNCHANGED db
    /\ UNCHANGED <<issues, events, pdf, lock, crashes>>

\* Drop the unresolved issues with the ledgers.
ReconcileRebuild(h) ==
    /\ At(h, "rebuild") /\ lock = NoHandler
    /\ issues' = [issues EXCEPT ![job[h].r] =
                    [k \in Kinds |-> IF @[k] = "open" THEN "none" ELSE @[k]]]
    /\ Goto(h, "structure")
    /\ UNCHANGED <<db, events, pdf, lock, crashes>>

\* Restore the publication, unless the rebuilt facts do not validate or
\* contradict the frozen path history: then the script ends with an error.
ReconcileRestore(h) ==
    /\ At(h, "restore") /\ job[h].op = "reconcile"
    /\ \/ /\ Publishable(job[h].mine, OnDisk(h))
          /\ Save(h, [job[h].mine EXCEPT !.status = "published"], "idle")
       \/ Goto(h, "idle") /\ UNCHANGED db
    /\ UNCHANGED <<issues, events, pdf, lock, crashes>>

----------------------------------------------------------------------------
\* The API worker, or the operator script, dies: its sessions are rolled
\* back, the files stay where they are.
Crash(died) ==
    /\ crashes < MaxCrashes
    /\ crashes' = crashes + 1
    /\ \E h \in died : ~At(h, "idle")
    /\ job' = [h \in Handlers |-> IF h \in died THEN Idle ELSE job[h]]
    /\ lock' = IF lock \in died THEN NoHandler ELSE lock
    /\ UNCHANGED <<db, issues, events, pdf>>

Scripts == {h \in Handlers : job[h].op = "reconcile"}

Step(h) == \/ ParseStart(h) \/ ParseEnd(h) \/ ParseFail(h) \/ ApplyMd(h)
           \/ CheckHint(h) \/ ParseStructure(h)
           \/ AutoConflict(h) \/ AutoDecide(h) \/ PublishValidate(h)
           \/ Promote(h) \/ HistoryConflict(h)
           \/ PublishCommit(h) \/ PublishCommitFails(h) \/ Undo(h)
           \/ SyncWorkflow(h) \/ ResolveRefused(h) \/ DecideUnknown(h)
           \/ \E kind \in Kinds : Decide(h, kind)
           \/ Patch(h) \/ Ready(h) \/ Withdraw(h) \/ ResolveTerm(h)
           \/ ReconcileStart(h) \/ ReconcileRebuild(h) \/ ReconcileRestore(h)

Request(h) == \E op \in Ops, r \in Reports :
                 Begin(h, op, r) \/ UploadNew(h, op, r) \/ UploadDuplicate(h, op, r)

Next == \/ \E h \in Handlers : Request(h) \/ Step(h)
        \/ Crash(Handlers \ Scripts)
        \/ \E h \in Scripts : Crash({h})

Spec == Init /\ [][Next]_vars

\* A started handler runs on (threads are scheduled), and the administrator
\* keeps uploading a PDF, alone, whose interpretation was interrupted.
Resubmit(r) == \E h \in Handlers :
                  /\ db[r].status \in {"uploaded", "parsing"}
                  /\ UploadDuplicate(h, "upload", r)

FairSpec == /\ Spec
            /\ \A h \in Handlers : WF_vars(Step(h))
            /\ \A r \in Reports : SF_vars(Resubmit(r))

----------------------------------------------------------------------------
(* Properties                                                               *)

Published(r) == db[r].status = "published"

\* From its first check to its COMMIT or its compensation, a request publishes.
Publishing(h, r) ==
    job[h].r = r /\ job[h].at \in {"auto", "validate", "promote", "commit", "undo", "abort"}

\* No report is being published by two requests, or by three.
PublishersApart ==
    \A r \in Reports, g, h \in Handlers : Publishing(g, r) /\ Publishing(h, r) => g = h
TwoAtMost ==
    \A r \in Reports, f, g, h \in Handlers :
        Publishing(f, r) /\ Publishing(g, r) /\ Publishing(h, r) => f = g \/ g = h \/ f = h

\* What a Viewer reads as published has its original PDF under the recorded
\* name (services.py: the rename comes before the commit, validation before both).
ViewerPdfPresent ==
    \A r \in Reports : Published(r) => db[r].stored = "published" /\ pdf[r] = "published"

\* The file of every report is where its row says, while nobody holds the
\* write lock (_promote_staged_pdf and its compensation, _restore_staged_pdf).
FileWhereRecorded ==
    \A r \in Reports : Exists(r) /\ lock = NoHandler => pdf[r] = db[r].stored

\* Both hold of histories in which nobody publishes a report that another
\* request is publishing: the compensation of one would undo the other.
PdfWhileApart    == []PublishersApart => []ViewerPdfPresent
RecordWhileApart == []PublishersApart => []FileWhereRecorded

\* Two published reports are current for one date only after the date of a
\* published report was edited (publish clears is_current of its date).
OnlyRedatingClashes ==
    [][\A d \in Dates : Cardinality(Shown(d)) <= 1 /\ Cardinality(Shown(d)') > 1 =>
          \E r \in Reports : Published(r) /\ db'[r].date # db[r].date]_vars

\* One current published report for each date.
OneCurrent == \A d \in Dates : Cardinality(Shown(d)) <= 1

\* A date that has a report for Viewers loses it only when that report is
\* withdrawn, dated anew or taken into reconciliation.
ViewerKeepsDate ==
    [][\A d \in Dates : Shown(d) # {} /\ Shown(d)' = {} =>
          \E r \in Shown(d) :
             \/ db'[r].status = "withdrawn" \/ db'[r].date # d
             \/ \E h \in Handlers : job[h].op = "reconcile" /\ job[h].r = r]_vars

\* A published report leaves that status by withdrawal (or reconciliation),
\* and a withdrawn one stays withdrawn (docs/report-lifecycle.md).
PublishedOnlyWithdrawn ==
    [][\A r \in Reports :
          /\ Published(r) /\ ~Published(r)' =>
                \/ db'[r].status = "withdrawn"
                \/ \E h \in Handlers : job[h].op = "reconcile" /\ job[h].r = r
          /\ db[r].status = "withdrawn" => db'[r].status = "withdrawn"]_vars

\* The library as its readers see it, whatever copies the handlers hold.
Stage(row) == CASE row.status = "absent"    -> "absent"
                [] row.status = "published" -> "published"
                [] row.status = "withdrawn" -> "withdrawn"
                [] OTHER                    -> "draft"

stages == [r \in Reports |-> Stage(db[r])]
dates  == [r \in Reports |-> db[r].date]
onView == {r \in Reports : Published(r) /\ db[r].current}

Library == INSTANCE ReportLibrary WITH stage <- stages, dated <- dates, shown <- onView

\* However publications, withdrawals and uploads interleave, the tables are the
\* library: the transactions of a handler, with a copy that may be stale, amount
\* to one change of one report at a time (publish, withdraw, sync).  Holds while
\* TwoAtMost does.
LibraryImplemented == Library!LibrarySpec

PublishedOnce == \A r \in Reports : events[r] <= 1

\* Publication happens once per report, even when two requests race for it: the
\* second finds the staged file gone.  Its compensation stages the file again,
\* so that a third, still publishing, would find it.
OnceWhileTwo == []TwoAtMost => []PublishedOnce

\* The stored status is one that ReportStatus knows.
KnownStatus == \A r \in Reports : db[r].status \in Statuses \cup {"absent"}

\* What is published has a trusted date and no blocking parse result, and was
\* complete when it was published: only an edit made afterwards can take its
\* texts away (_validate_publishable; PATCH accepts empty texts).
PublishedIsVetted ==
    [][\A r \in Reports : Published(r)' =>
          /\ DateTrusted(db'[r]) /\ ~HasBlocking(db'[r])
          /\ ~db'[r].complete => /\ Published(r)
                                /\ \/ ~db[r].complete
                                   \/ \E h \in Handlers : At(h, "patch") /\ job[h].r = r]_vars

\* No report is published while an issue that must be handled is open.
RequiredIssueBlocks ==
    \A r \in Reports : Published(r) => Open(issues[r]) \cap BlockingKinds = {}

\* Automatic publication never takes the Viewer's report of a date away.
AutoNeverReplaces ==
    [][\A h \in Handlers, q \in Reports :
          (/\ job[h].op \in Uploads /\ At(h, "commit") /\ ~At(h, "commit")'
           /\ Published(q) /\ db[q].current) => db'[q].current]_vars

\* An interrupted interpretation does not stay interrupted.
InterruptedRecovers ==
    \A r \in Reports : db[r].status \in {"uploaded", "parsing"}
                          ~> db[r].status \notin {"uploaded", "parsing"}
=============================================================================
