-------------------------- MODULE ReportRequests_proofs --------------------------
(***************************************************************************)
(* Proofs about the requests that change a report, beyond its files: what   *)
(* the rows of the library may become.                                      *)
(*                                                                         *)
(* One request after the other (Serially), for any number of reports, all   *)
(* the requests of the service, with crashes and commits that fail:         *)
(*   SerialStatuses      Spec /\ []Serially => []KnownStatus                *)
(*   SerialVetted        Spec /\ []Serially => PublishedIsVetted            *)
(*   SerialWithdrawal    Spec /\ []Serially => PublishedOnlyWithdrawn       *)
(*   SerialKeepsDate     Spec /\ []Serially => ViewerKeepsDate              *)
(*   SerialNeverReplaces Spec /\ []Serially => AutoNeverReplaces            *)
(* and, without the reconciliation script,                                  *)
(*   SerialOnce          Spec /\ []Serially => []PublishedOnce              *)
(*   SerialClashes       Spec /\ []Serially => OnlyRedatingClashes          *)
(* The invariant is that the copy of the handler at work is the row, and    *)
(* fits the step it is at; a step is then one of a few Moves of the rows.   *)
(*                                                                         *)
(* Requests that race, for any number of handlers, reports, crashes and     *)
(* failing commits, if they are among RaceOps:                              *)
(*   RaceOneCurrent      Spec => []OneCurrent                               *)
(*   RaceStatuses        Spec => []KnownStatus                              *)
(*   RaceVetted          Spec => PublishedIsVetted                          *)
(*   RaceNeverReplaces   Spec => AutoNeverReplaces                          *)
(*   RaceRequired        Spec => []RequiredIssueBlocks                      *)
(* A copy may then be stale, but in its status only: what an interpretation *)
(* found is changed by an interpretation, and uploads exclude one another.  *)
(* RaceOps cannot be widened: a stale edit, decision or reconciliation      *)
(* violates one of the first four, a decision the last.                     *)
(* If no process dies, they are among OnceOps, and no report is being       *)
(* published by three of them (TwoAtMost),                                  *)
(*   RaceOnce            Spec => OnceWhileTwo                               *)
(*   RaceImplements      Spec /\ []TwoAtMost => LibraryImplemented          *)
(*   RaceWithdrawal      Spec /\ []TwoAtMost => PublishedOnlyWithdrawn      *)
(*   LibraryKeepsDates   what ReportLibrary promises of the dates           *)
(* While somebody may publish a report, no review that an upload syncs has  *)
(* anything to change: a sync of the report came before.  Who is left when  *)
(* a report has been published finds no file to promote, and is the last.   *)
(***************************************************************************)
EXTENDS ReportHandlers_proofs, FiniteSetTheorems

----------------------------------------------------------------------------
(* Requests one after the other                                             *)

\* Requests that do not overlap: at most one handler is at work.
Serially == \A g, h \in Handlers : Busy(g) /\ Busy(h) => g = h

\* What _validate_publishable asks for, whatever the status.  An edit may take
\* texts away, but not the rest.
Trusted(row) == DateTrusted(row) /\ ~HasBlocking(row)
Vetted(row)  == Trusted(row) /\ row.complete

\* A row that one request after the other may leave.
Good(row) == /\ row.status \in Statuses \cup {"absent"}
             /\ row.interp = "failed" => row.status = "parse_failed"
             /\ row.status = "published" => Trusted(row)

\* What a handler may rely on at a step, having looked at the row before.
Fit(op, at, row) ==
    /\ at = "extract" => row.status = "parsing"
    /\ at = "apply" => row.status = "uploaded"
    /\ at \in {"hint", "structure", "rebuild", "decide"} => row.status # "published"
    /\ at \in {"promote", "commit"} => Publishable(row, TRUE)
    /\ at = "reconcile" => op = "reconcile"
    /\ at = "validate" => op \notin Uploads

\* Automatic publication has found no other report of the date.
Clear(op, at, r, row) ==
    op \in Uploads /\ at \in {"promote", "commit"} => SameDate(r, row.date) = {}

\* The copy a handler works on is the row.
UpToDate(j) == /\ j.mine = db[j.r]
               /\ Fit(j.op, j.at, j.mine)
               /\ Clear(j.op, j.at, j.r, j.mine)

\* The invariant of requests that do not overlap.
SInv == /\ TInv
        /\ \A r \in Reports : Good(db[r])
        /\ \A h \in Handlers : Busy(h) => UpToDate(job[h])

\* What a step of the handler with job j, other than a publication, may do to
\* its row.
Change(j, row, new) ==
    /\ new \in Row /\ Good(new) /\ new.status # "absent" /\ new.current = row.current
    /\ row.status = "published" => new.status \in {"published", "withdrawn"} \/ j.op = "reconcile"
    /\ row.status = "withdrawn" => new.status = "withdrawn"
    /\ new.status = "published" => row.status = "published" \/ j.op = "reconcile"
    /\ new.status = "published" /\ ~new.complete =>
          row.status = "published" /\ (~row.complete \/ j.at = "patch")

\* The publication: its report is current, others of the date no longer are.
Publication(r) ==
    LET row == PublishedRow(db[r])
        saved == [db EXCEPT ![r] = row]
    IN  db' = [q \in Reports |-> IF q \in Superseded(r, row.date)
                                 THEN [saved[q] EXCEPT !.current = FALSE] ELSE saved[q]]

\* What happens to the rows, one request after the other.
Moves ==
    \/ UNCHANGED db
    \/ \E r \in Reports : ~Exists(r) /\ db' = [db EXCEPT ![r] = FreshRow]
    \/ \E h \in Handlers : /\ Busy(h) /\ ~At(h, "commit")
                           /\ \E new : /\ Change(job[h], db[job[h].r], new)
                                       /\ db' = [db EXCEPT ![job[h].r] = new]
    \/ \E h \in Handlers : /\ At(h, "commit") /\ Publication(job[h].r)

----------------------------------------------------------------------------
\* What the rules leave of the columns the invariant reads.
LEMMA ParsedColumns ==
    ASSUME NEW row \in Row
    PROVE  /\ LET new == ParseStarted(row)
              IN  new.status = "parsing" /\ new.interp = "interpreting" /\ new.current = row.current
           /\ LET new == ParseFailedRow(row)
              IN  new.status = "parse_failed" /\ new.current = row.current
           /\ LET new == HintRefused(row)
              IN  new.status = row.status /\ new.interp = "needs_attention" /\ new.current = row.current
           /\ \A kind \in Kinds : LET new == Flagged(row, kind)
              IN  new.status = row.status /\ new.interp = row.interp /\ new.current = row.current
           /\ \A date \in Dates : LET new == MdRow(row, date)
              IN  new.status = "needs_review" /\ new.interp = "ready" /\ new.current = row.current
           /\ \A found \in Outcome : LET new == ParsedRow(row, found)
              IN  /\ new.status = "needs_review" /\ new.interp \in {"ready", "needs_attention"}
                  /\ new.current = row.current
  <1>1. /\ LET new == ParseStarted(row)
           IN  new.status = "parsing" /\ new.interp = "interpreting" /\ new.current = row.current
        /\ LET new == ParseFailedRow(row)
           IN  new.status = "parse_failed" /\ new.current = row.current
    BY DEF Row, ParseStarted, ParseFailedRow
  <1>2. \A kind \in Kinds : LET new == Flagged(row, kind)
              IN  new.status = row.status /\ new.interp = row.interp /\ new.current = row.current
    BY DEF Row, Flagged
  <1>3. LET new == HintRefused(row)
        IN  new.status = row.status /\ new.interp = "needs_attention" /\ new.current = row.current
    BY DEF Row, Flagged, HintRefused
  <1>4. \A date \in Dates : LET new == MdRow(row, date)
              IN  new.status = "needs_review" /\ new.interp = "ready" /\ new.current = row.current
    BY DEF Row, MdRow
  <1>5. \A found \in Outcome : LET new == ParsedRow(row, found)
              IN  /\ new.status = "needs_review" /\ new.interp \in {"ready", "needs_attention"}
                  /\ new.current = row.current
    BY DEF Row, ParsedRow, Interp
  <1> QED BY <1>1, <1>2, <1>3, <1>4, <1>5

\* What a review, a publication and an edit leave of them.
LEMMA ReviewedColumns ==
    ASSUME NEW row \in Row
    PROVE  /\ LET new == ConflictRow(row)
              IN  new.status = "blocked" /\ new.interp = "needs_attention" /\ new.current = row.current
           /\ \A status : LET new == [row EXCEPT !.status = status]
              IN  /\ new.status = status /\ new.interp = row.interp /\ new.current = row.current
                  /\ (Trusted(row) => Trusted(new)) /\ new.complete = row.complete
           /\ LET new == PublishedRow(row)
              IN  /\ new.status = "published" /\ new.interp = row.interp /\ new.current
                  /\ new.date = row.date /\ (Trusted(row) => Trusted(new)) /\ new.complete = row.complete
           /\ \A date \in Dates \cup {NoDate}, confirm, complete \in BOOLEAN :
              LET new == PatchedRow(row, date, confirm, complete)
              IN  /\ new.status = row.status /\ new.interp \in {"ready", "needs_attention"}
                  /\ new.current = row.current /\ (Trusted(row) => Trusted(new))
           /\ \A kind \in Kinds, date \in Dates \cup {NoDate} :
              LET new == ResolvedRow(row, kind, date)
              IN  /\ new.status = row.status /\ new.interp \in {"ready", "needs_attention"}
                  /\ new.current = row.current
  <1>1. LET new == ConflictRow(row)
        IN  new.status = "blocked" /\ new.interp = "needs_attention" /\ new.current = row.current
    BY DEF Row, ConflictRow
  <1>2. ASSUME NEW status
        PROVE  LET new == [row EXCEPT !.status = status]
               IN  /\ new.status = status /\ new.interp = row.interp /\ new.current = row.current
                   /\ (Trusted(row) => Trusted(new)) /\ new.complete = row.complete
    BY DEF Row, Trusted, DateTrusted, HasBlocking
  <1>3. LET new == PublishedRow(row)
        IN  /\ new.status = "published" /\ new.interp = row.interp /\ new.current
            /\ new.date = row.date /\ (Trusted(row) => Trusted(new)) /\ new.complete = row.complete
    BY DEF Row, PublishedRow, Trusted, DateTrusted, HasBlocking
  <1>4. ASSUME NEW date \in Dates \cup {NoDate}, NEW confirm \in BOOLEAN, NEW complete \in BOOLEAN
        PROVE  LET new == PatchedRow(row, date, confirm, complete)
               IN  /\ new.status = row.status /\ new.interp \in {"ready", "needs_attention"}
                   /\ new.current = row.current /\ (Trusted(row) => Trusted(new))
    <2> DEFINE new == PatchedRow(row, date, confirm, complete)
    <2>1. /\ new.status = row.status /\ new.current = row.current
          /\ new.date = IF date = NoDate THEN row.date ELSE date
          /\ new.confirmed = IF confirm THEN "user" ELSE row.confirmed
          /\ new.sure = (row.sure \/ confirm)
          /\ new.meta.blocked = row.meta.blocked
      BY DEF PatchedRow, Row, Meta
    <2>2. new.meta.attention \subseteq row.meta.attention
      BY DEF PatchedRow, Row, Meta
    <2>3. new.interp \in {"ready", "needs_attention"}
      BY DEF PatchedRow, Row, Interp
    <2> HIDE DEF new
    <2>4. Trusted(row) => Trusted(new)
      <3>1. DateTrusted(row) => DateTrusted(new)
        BY <2>1 DEF DateTrusted, Row
      <3>2. ~HasBlocking(row) => ~HasBlocking(new)
        BY <2>1, <2>2 DEF HasBlocking
      <3> QED BY <3>1, <3>2 DEF Trusted
    <2> QED BY <2>1, <2>3, <2>4 DEF new
  <1>5. ASSUME NEW kind \in Kinds, NEW date \in Dates \cup {NoDate}
        PROVE  LET new == ResolvedRow(row, kind, date)
               IN  /\ new.status = row.status /\ new.interp \in {"ready", "needs_attention"}
                   /\ new.current = row.current
    <2>1. CASE kind \in DateKinds /\ date # NoDate
      BY <2>1 DEF ResolvedRow, Row, Interp
    <2>2. CASE ~(kind \in DateKinds /\ date # NoDate)
      BY <2>2 DEF ResolvedRow, Row, Interp
    <2> QED BY <2>1, <2>2
  <1> QED BY <1>1, <1>2, <1>3, <1>4, <1>5

\* The status that the review gives is one of the vocabulary, unless the
\* interpretation has failed.
LEMMA AppliedColumns ==
    ASSUME NEW row \in Row, NEW known, row.status \in Statuses,
           row.interp = "failed" => row.status = "parse_failed"
    PROVE  LET new == ApplyState(row, known)
           IN  /\ new.status \in Statuses /\ new.interp = row.interp /\ new.current = row.current
               /\ row.status \in {"published", "withdrawn", "parsing", "parse_failed"} => new = row
               /\ row.status \notin {"published", "withdrawn", "parsing", "parse_failed"} =>
                     new.status \in {"parsing", "blocked", "needs_review", "ready_to_publish"}
  <1>1. CASE row.status \in {"published", "withdrawn", "parsing", "parse_failed"}
    BY <1>1 DEF ApplyState
  <1>2. CASE row.status \notin {"published", "withdrawn", "parsing", "parse_failed"}
    <2>1. WorkflowStatus(row, known) \in {"parsing", "blocked", "needs_review", "ready_to_publish"}
      BY <1>2 DEF WorkflowStatus
    <2>2. ApplyState(row, known) = [row EXCEPT !.status = WorkflowStatus(row, known)]
      BY <1>2 DEF ApplyState
    <2> QED BY <1>2, <2>1, <2>2, ReviewedColumns DEF Statuses
  <1> QED BY <1>1, <1>2

\* An up-to-date copy is written as it is.
LEMMA MergeUpToDate ==
    ASSUME NEW row \in Row, NEW new \in Row
    PROVE  Merge(row, row, new) = new
  BY DEF Merge, Row

----------------------------------------------------------------------------
(* Steps of the handler that is at work.                                    *)

\* The facts about its row.
LEMMA AtWork ==
    ASSUME SInv, NEW h \in Handlers, Busy(h)
    PROVE  LET r == job[h].r IN
           /\ r \in Reports /\ job[h].mine = db[r] /\ db[r] \in Row /\ job[h] \in Job
           /\ Good(db[r]) /\ db[r].status # "absent" /\ db[r].status \in Statuses
           /\ Fit(job[h].op, job[h].at, db[r]) /\ Clear(job[h].op, job[h].at, r, db[r])
  <1>1. HasReport(job[h]) /\ UpToDate(job[h]) /\ job[h] \in Job
    BY DEF SInv, TInv, CopiesHaveReports, TypeOK
  <1>2. job[h].r \in Reports /\ db[job[h].r] \in Row /\ db[job[h].r].status # "absent"
    BY <1>1 DEF HasReport, Exists, SInv, TInv, TypeOK
  <1> QED BY <1>1, <1>2 DEF UpToDate, SInv, Good

\* Only its own job changes.
LEMMA JobMoves ==
    ASSUME SInv, Serially, TInv', NEW h \in Handlers, NEW j,
           Busy(h) \/ \A g \in Handlers : ~Busy(g),
           job' = [job EXCEPT ![h] = j],
           \A r \in Reports : Good(db'[r]),
           j.at # "idle" =>
              /\ j.mine = db'[j.r] /\ Fit(j.op, j.at, j.mine)
              /\ j.op \in Uploads /\ j.at \in {"promote", "commit"}
                    => UNCHANGED db /\ Clear(j.op, j.at, j.r, j.mine)
    PROVE  SInv'
  <1>1. \A g \in Handlers : job'[g] = IF g = h THEN j ELSE job[g]
    BY DEF SInv, TInv, TypeOK
  <1>2. \A g \in Handlers : Busy(g)' => g = h /\ j.at # "idle"
    BY <1>1 DEF Serially, Busy
  <1>3. ASSUME j.at # "idle", NEW g \in Handlers, g = h PROVE UpToDate(job[g])'
    <2>1. job'[g] = j
      BY <1>1, <1>3
    <2>2. db'[j.r] = j.mine /\ Fit(j.op, j.at, j.mine)
      BY <1>3
    <2>3. Clear(j.op, j.at, j.r, j.mine)'
      BY <1>3 DEF Clear, SameDate, Exists
    <2> QED BY <2>1, <2>2, <2>3 DEF UpToDate, Fit, Clear, SameDate, Exists, Publishable
  <1> QED BY <1>2, <1>3 DEF SInv

\* The handler goes to another step with the row it has.
LEMMA SerialGoto ==
    ASSUME SInv, Serially, TInv', NEW h \in Handlers, Busy(h), NEW step \in Steps, Goto(h, step),
           UNCHANGED db,
           step # "idle" => /\ Fit(job[h].op, step, db[job[h].r])
                            /\ Clear(job[h].op, step, job[h].r, db[job[h].r])
    PROVE  SInv' /\ Moves
  <1> DEFINE j == IF step = "idle" THEN Idle ELSE [job[h] EXCEPT !.at = step]
  <1>1. job[h].mine = db[job[h].r] /\ job[h] \in Job
    BY AtWork
  <1>2. /\ j.at = step
        /\ step # "idle" => j.op = job[h].op /\ j.r = job[h].r /\ j.mine = job[h].mine
    BY <1>1 DEF Job, Idle
  <1>3. job' = [job EXCEPT ![h] = j]
    BY DEF Goto
  <1> HIDE DEF j
  <1>4. \A r \in Reports : Good(db'[r])
    BY DEF SInv
  <1>5. SInv'
    BY <1>1, <1>2, <1>3, <1>4, JobMoves
  <1> QED BY <1>5 DEF Moves

\* It rolls back and loads the row again, which is as it was.
LEMMA SerialReload ==
    ASSUME SInv, Serially, TInv', NEW h \in Handlers, Busy(h), NEW step \in {"sync", "idle", "undone"},
           Reload(h, step), UNCHANGED db
    PROVE  SInv' /\ Moves
  <1> DEFINE j == IF step = "idle" THEN Idle ELSE [job[h] EXCEPT !.at = step, !.mine = db[job[h].r]]
  <1>1. job[h].mine = db[job[h].r] /\ job[h] \in Job
    BY AtWork
  <1>2. /\ j.at = step
        /\ step # "idle" => j.r = job[h].r /\ j.mine = db[job[h].r]
    BY <1>1 DEF Job, Idle
  <1>3. job' = [job EXCEPT ![h] = j]
    BY DEF Reload
  <1> HIDE DEF j
  <1>4. \A r \in Reports : Good(db'[r])
    BY DEF SInv
  <1>5. Fit(j.op, j.at, j.mine)
    BY <1>2 DEF Fit
  <1>6. SInv'
    BY <1>1, <1>2, <1>3, <1>4, <1>5, JobMoves
  <1> QED BY <1>6 DEF Moves

\* It commits a row and goes on: nobody else has written in between.
LEMMA SerialSave ==
    ASSUME SInv, Serially, TInv', NEW h \in Handlers, Busy(h), ~At(h, "commit"),
           NEW new, Change(job[h], db[job[h].r], new),
           NEW step \in Steps \ {"promote", "commit"}, Save(h, new, step),
           Fit(job[h].op, step, new)
    PROVE  SInv' /\ Moves
  <1> DEFINE j == IF step = "idle" THEN Idle ELSE [job[h] EXCEPT !.at = step, !.mine = new]
  <1>1. job[h].mine = db[job[h].r] /\ job[h] \in Job /\ job[h].r \in Reports /\ db[job[h].r] \in Row
    BY AtWork
  <1>2. /\ j.at = step
        /\ step # "idle" => j.op = job[h].op /\ j.r = job[h].r /\ j.mine = new
    BY <1>1 DEF Job, Idle
  <1>3. job' = [job EXCEPT ![h] = j] /\ db' = [db EXCEPT ![job[h].r] = Merge(@, job[h].mine, new)]
    BY DEF Save
  <1> HIDE DEF j
  <1>4. db' = [db EXCEPT ![job[h].r] = new]
    BY <1>1, <1>3, MergeUpToDate DEF Change
  <1>5. \A r \in Reports : db'[r] = IF r = job[h].r THEN new ELSE db[r]
    BY <1>4 DEF SInv, TInv, TypeOK
  <1>6. \A r \in Reports : Good(db'[r])
    BY <1>5 DEF SInv, Change
  <1>7. SInv'
    BY <1>1, <1>2, <1>3, <1>5, <1>6, JobMoves
  <1> QED BY <1>4, <1>7 DEF Moves

----------------------------------------------------------------------------
(* The actions.                                                             *)

\* A request begins: nobody else is at work.
LEMMA RequestMoves ==
    ASSUME SInv, Serially, Serially', TInv', NEW h \in Handlers, Request(h)
    PROVE  SInv' /\ Moves
  <1> PICK op \in Ops, r \in Reports :
         Begin(h, op, r) \/ UploadNew(h, op, r) \/ UploadDuplicate(h, op, r)
    BY DEF Request
  <1>0. op \in AllOps /\ db[r] \in Row /\ FreshRow \in Row
    BY ConfigAssumption, FreshRows DEF SInv, TInv, TypeOK
  <1>a. ASSUME NEW j, j.at # "idle", At(h, "idle"), job' = [job EXCEPT ![h] = j]
        PROVE  \A g \in Handlers : ~Busy(g)
    <2>1. \A g \in Handlers : job'[g] = IF g = h THEN j ELSE job[g]
      BY <1>a DEF SInv, TInv, TypeOK
    <2> QED BY <1>a, <2>1 DEF Serially, Busy, At
  <1>1. ASSUME NEW at \in Steps, At(h, "idle"), at # "idle", at \notin {"promote", "commit"},
               Fit(op, at, db[r]),
               job' = [job EXCEPT ![h] = [op |-> op, at |-> at, r |-> r, mine |-> db[r]]],
               UNCHANGED db
        PROVE  SInv' /\ Moves
    <2> DEFINE j == [op |-> op, at |-> at, r |-> r, mine |-> db[r]]
    <2>1. j.at = at /\ j.op = op /\ j.mine = db[j.r]
      OBVIOUS
    <2>2. job' = [job EXCEPT ![h] = j]
      BY <1>1
    <2> HIDE DEF j
    <2>3. \A g \in Handlers : ~Busy(g)
      BY <1>a, <1>1, <2>1, <2>2
    <2>4. \A q \in Reports : Good(db'[q])
      BY <1>1 DEF SInv
    <2>5. SInv'
      BY <1>1, <2>1, <2>2, <2>3, <2>4, JobMoves
    <2> QED BY <1>1, <2>5 DEF Moves
  <1>2. CASE Begin(h, op, r)
    <2>1. FirstStep(op) \in Steps \ {"idle", "promote", "commit"}
      BY <1>2, <1>0 DEF Begin, FirstStep, Steps, AllOps, Uploads
    <2>2. Fit(op, FirstStep(op), db[r])
      BY <1>2, <1>0 DEF Begin, FirstStep, AllOps, Uploads, Fit
    <2> QED BY <1>1, <1>2, <2>1, <2>2 DEF Begin
  <1>3. CASE UploadDuplicate(h, op, r)
    <2> DEFINE at == IF op = "upload_md"
                     THEN IF AutoPublish /\ db[r].status # "published" THEN "auto" ELSE "sync"
                     ELSE IF db[r].status \in {"uploaded", "parsing", "parse_failed"}
                          THEN "parse" ELSE "sync"
    <2>1. at \in Steps \ {"idle", "promote", "commit"} /\ Fit(op, at, db[r])
      BY DEF Steps, Fit
    <2>2. job' = [job EXCEPT ![h] = [op |-> op, at |-> at, r |-> r, mine |-> db[r]]]
      BY <1>3 DEF UploadDuplicate
    <2> QED BY <1>1, <1>3, <2>1, <2>2 DEF UploadDuplicate
  <1>4. CASE UploadNew(h, op, r)
    <2> DEFINE j == [op |-> op, r |-> r, mine |-> FreshRow,
                     at |-> IF op = "upload" THEN "parse" ELSE "apply"]
    <2>1. j.at \in {"parse", "apply"} /\ j.r = r /\ j.mine = FreshRow /\ j.op = op
      OBVIOUS
    <2> HIDE DEF j
    <2>2. /\ job' = [job EXCEPT ![h] = j] /\ At(h, "idle")
          /\ db' = [db EXCEPT ![r] = FreshRow] /\ ~Exists(r)
      BY <1>4 DEF UploadNew, j
    <2>3. FreshRow.status = "uploaded" /\ FreshRow.interp = "uploading"
      BY DEF FreshRow
    <2>4. Good(FreshRow) /\ Fit(j.op, j.at, FreshRow)
      BY <2>1, <2>3 DEF Good, Fit, Statuses
    <2>5. \A q \in Reports : db'[q] = IF q = r THEN FreshRow ELSE db[q]
      BY <2>2 DEF SInv, TInv, TypeOK
    <2>6. \A q \in Reports : Good(db'[q])
      BY <2>4, <2>5 DEF SInv
    <2>7. \A g \in Handlers : ~Busy(g)
      BY <1>a, <2>1, <2>2
    <2>8. SInv'
      BY <2>1, <2>2, <2>4, <2>5, <2>6, <2>7, JobMoves
    <2> QED BY <2>2, <2>8 DEF Moves
  <1> QED BY <1>2, <1>3, <1>4

\* The file is interpreted (parse, _apply_website_md_path).
LEMMA InterpretationMoves ==
    ASSUME SInv, Serially, TInv', NEW h \in Handlers,
           ParseStart(h) \/ ParseEnd(h) \/ ParseFail(h) \/ ApplyMd(h) \/ CheckHint(h)
              \/ ParseStructure(h)
    PROVE  SInv' /\ Moves
  <1> DEFINE row == db[job[h].r]
             op  == job[h].op
  <1>0. Busy(h) /\ ~At(h, "commit")
    BY DEF ParseStart, ParseEnd, ParseFail, ApplyMd, CheckHint, ParseStructure, At, Busy
  <1>1. /\ job[h].r \in Reports /\ job[h].mine = row /\ row \in Row /\ job[h] \in Job
        /\ Good(row) /\ row.status \in Statuses
        /\ Fit(op, job[h].at, row)
    BY <1>0, AtWork
  <1>2. CASE ParseStart(h)
    <2>1. CASE CanStartParse(row)
      <3>1. row.status \notin {"published", "withdrawn"}
        BY <2>1 DEF CanStartParse, CanTransition, AllowedTransitions
      <3>2. ParseStarted(row) \in Row
        BY <1>1, ParsingKeeps DEF Keeps, Statuses
      <3>3. Change(job[h], row, ParseStarted(row))
        BY <1>1, <3>1, <3>2, ParsedColumns DEF Change, Good, Statuses
      <3>4. Fit(op, "extract", ParseStarted(row))
        BY <1>1, ParsedColumns DEF Fit
      <3> QED BY <1>0, <1>1, <1>2, <2>1, <3>3, <3>4, SerialSave DEF ParseStart, Steps
    <2>2. CASE ~CanStartParse(row)
      <3>1. AfterError(h) \in {"sync", "idle"}
        BY DEF AfterError
      <3>2. Fit(op, AfterError(h), row) /\ Clear(op, AfterError(h), job[h].r, row)
        BY <3>1 DEF Fit, Clear
      <3> QED BY <1>0, <1>1, <1>2, <2>2, <3>1, <3>2, SerialGoto DEF ParseStart, Steps
    <2> QED BY <2>1, <2>2
  <1>3. CASE ParseEnd(h)
    <2>1. PICK found \in ParseOutcomes :
            Save(h, ParsedRow(row, found),
                 CASE op = "upload" -> "hint" [] op = "reconcile" -> "rebuild" [] OTHER -> "idle")
      BY <1>1, <1>3 DEF ParseEnd
    <2> DEFINE step == CASE op = "upload" -> "hint" [] op = "reconcile" -> "rebuild" [] OTHER -> "idle"
    <2>2. found \in Outcome /\ row.status = "parsing"
      BY <1>1, <1>3, ConfigAssumption DEF ParseEnd, At, Fit
    <2>3. ParsedRow(row, found) \in Row
      BY <1>1, <2>2, ParsingKeeps DEF Keeps
    <2>4. Change(job[h], row, ParsedRow(row, found))
      BY <1>1, <2>2, <2>3, ParsedColumns DEF Change, Good, Statuses
    <2>5. step \in {"hint", "rebuild", "idle"}
      OBVIOUS
    <2>6. Fit(op, step, ParsedRow(row, found))
      BY <1>1, <2>2, <2>5, ParsedColumns DEF Fit
    <2>7. Save(h, ParsedRow(row, found), step)
      BY <2>1
    <2> HIDE DEF step
    <2> QED BY <1>0, <2>4, <2>5, <2>6, <2>7, SerialSave DEF Steps
  <1>4. CASE ParseFail(h)
    <2> DEFINE failed == ParseFailedRow(row)
               j == IF op = "upload" THEN [job[h] EXCEPT !.at = "sync", !.mine = failed] ELSE Idle
    <2>1. failed \in Row /\ row.status = "parsing"
      BY <1>1, <1>4, ParsingKeeps DEF Keeps, ParseFail, At, Fit, Statuses
    <2>2. Change(job[h], row, failed)
      BY <1>1, <2>1, ParsedColumns DEF Change, Good, Statuses
    <2>3. db' = [db EXCEPT ![job[h].r] = failed] /\ job' = [job EXCEPT ![h] = j]
      BY <1>4 DEF ParseFail
    <2> HIDE DEF failed
    <2>4. /\ j.at \in {"sync", "idle"}
          /\ j.at # "idle" => j.r = job[h].r /\ j.mine = failed
      BY <1>1 DEF Job, Idle
    <2> HIDE DEF j
    <2>5. \A r \in Reports : db'[r] = IF r = job[h].r THEN failed ELSE db[r]
      BY <2>3 DEF SInv, TInv, TypeOK
    <2>6. \A r \in Reports : Good(db'[r])
      BY <2>2, <2>5 DEF SInv, Change
    <2>7. Fit(j.op, j.at, j.mine)
      BY <2>4 DEF Fit
    <2>8. SInv'
      BY <1>0, <1>1, <2>3, <2>4, <2>5, <2>6, <2>7, JobMoves
    <2> QED BY <1>0, <2>2, <2>3, <2>8 DEF Moves
  <1>5. CASE ApplyMd(h)
    <2>1. PICK date \in Dates :
            Save(h, MdRow(row, date), IF AutoPublish THEN "auto" ELSE "sync")
      BY <1>1, <1>5 DEF ApplyMd
    <2>2. row.status = "uploaded"
      BY <1>1, <1>5 DEF ApplyMd, At, Fit
    <2>3. MdRow(row, date) \in Row
      BY <1>1, <2>2, ParsingKeeps DEF Keeps
    <2>4. Change(job[h], row, MdRow(row, date))
      BY <1>1, <2>2, <2>3, ParsedColumns DEF Change, Good, Statuses
    <2> DEFINE step == IF AutoPublish THEN "auto" ELSE "sync"
    <2>5. step \in {"auto", "sync"} /\ Save(h, MdRow(row, date), step)
      BY <2>1
    <2> HIDE DEF step
    <2>6. Fit(op, step, MdRow(row, date))
      BY <2>5 DEF Fit
    <2> QED BY <1>0, <2>4, <2>5, <2>6, SerialSave DEF Steps
  <1>6. CASE CheckHint(h)
    <2>1. row.status # "published"
      BY <1>1, <1>6 DEF CheckHint, At, Fit
    <2>2. CASE Save(h, HintRefused(row), "structure")
      <3>1. HintRefused(row) \in Row
        BY <1>1, ParsingKeeps DEF Keeps, Statuses
      <3>2. Change(job[h], row, HintRefused(row))
        BY <1>1, <2>1, <3>1, ParsedColumns DEF Change, Good, Statuses
      <3>3. Fit(op, "structure", HintRefused(row))
        BY <1>1, <2>1, ParsedColumns DEF Fit
      <3> QED BY <1>0, <2>2, <3>2, <3>3, SerialSave DEF Steps
    <2>3. CASE Goto(h, "structure") /\ UNCHANGED db
      <3>1. Fit(op, "structure", row) /\ Clear(op, "structure", job[h].r, row)
        BY <2>1 DEF Fit, Clear
      <3> QED BY <1>0, <2>3, <3>1, SerialGoto DEF Steps
    <2> QED BY <1>1, <1>6, <2>2, <2>3 DEF CheckHint
  <1>7. CASE ParseStructure(h)
    <2>1. row.status # "published"
      BY <1>1, <1>7 DEF ParseStructure, At, Fit
    <2> DEFINE new == IF Shown(row.date) \ {job[h].r} # {}
                      THEN Flagged(row, "same_date_pdf_conflict") ELSE row
               step == IF op = "upload" /\ AutoPublish THEN "auto" ELSE "sync"
    <2>2. Save(h, new, step) /\ step \in {"auto", "sync"}
      BY <1>1, <1>7 DEF ParseStructure
    <2>3. Change(job[h], row, new)
      <3>1. Flagged(row, "same_date_pdf_conflict") \in Row
        BY <1>1, ParsingKeeps DEF Keeps, Statuses, Kinds, BlockingKinds
      <3>2. new \in {Flagged(row, "same_date_pdf_conflict"), row}
        OBVIOUS
      <3> HIDE DEF new
      <3>3. "same_date_pdf_conflict" \in Kinds
        BY DEF Kinds, BlockingKinds
      <3>4. new \in Row /\ new.status = row.status /\ new.interp = row.interp /\ new.current = row.current
        BY <1>1, <3>1, <3>2, <3>3, ParsedColumns
      <3> QED BY <1>1, <2>1, <3>4 DEF Change, Good, Statuses
    <2> HIDE DEF new, step
    <2>4. Fit(op, step, new)
      BY <2>2 DEF Fit
    <2> QED BY <1>0, <2>2, <2>3, <2>4, SerialSave DEF Steps
  <1> QED BY <1>2, <1>3, <1>4, <1>5, <1>6, <1>7

\* A publication is prepared, or given up (publish_strict, publish).
LEMMA PublicationMoves ==
    ASSUME SInv, Serially, TInv', NEW h \in Handlers,
           AutoConflict(h) \/ AutoDecide(h) \/ PublishValidate(h) \/ Promote(h)
              \/ HistoryConflict(h) \/ PublishCommitFails(h) \/ Undo(h)
    PROVE  SInv' /\ Moves
  <1> DEFINE r   == job[h].r
             row == db[r]
             op  == job[h].op
  <1>0. Busy(h)
    BY DEF AutoConflict, AutoDecide, PublishValidate, Promote, HistoryConflict,
           PublishCommitFails, Undo, At, Busy
  <1>1. /\ r \in Reports /\ job[h].mine = row /\ row \in Row /\ job[h] \in Job
        /\ Good(row) /\ row.status \in Statuses
        /\ Fit(op, job[h].at, row) /\ Clear(op, job[h].at, r, row)
    BY <1>0, AtWork
  <1>a. ASSUME NEW step \in {"sync", "idle", "undo", "abort"}
        PROVE  step \in Steps /\ Fit(op, step, row) /\ Clear(op, step, r, row)
    BY <1>a DEF Steps, Fit, Clear
  <1>b. ASSUME NEW onDisk \in BOOLEAN, Publishable(row, onDisk)
        PROVE  Fit(op, "promote", row) /\ Fit(op, "commit", row)
    BY <1>b DEF Publishable, Fit
  <1>c. OnDisk(h) \in BOOLEAN
    BY DEF OnDisk
  <1>2. CASE AutoConflict(h)
    <2>1. CASE row.status = "blocked" \/ CanTransition(row, "blocked")
      <3> DEFINE new == ConflictRow(row)
      <3>1. row.status \notin {"published", "withdrawn", "absent"}
        BY <1>1, <2>1 DEF CanTransition, AllowedTransitions, Statuses
      <3>2. new \in Row
        BY <1>1, <3>1, ReviewKeeps DEF Keeps
      <3>3. Change(job[h], row, new)
        BY <1>1, <3>1, <3>2, ReviewedColumns DEF Change, Good, Statuses
      <3>4. Merge(row, row, new) = new
        BY <1>1, <3>2, MergeUpToDate
      <3>5. db' = [db EXCEPT ![r] = new]
        BY <1>1, <1>2, <2>1, <3>4 DEF AutoConflict
      <3> HIDE DEF new
      <3>6. \A q \in Reports : Good(db'[q])
        BY <3>3, <3>5 DEF SInv, TInv, TypeOK, Change
      <3>7. job' = [job EXCEPT ![h] = Idle] /\ Idle.at = "idle" /\ ~At(h, "commit")
        BY <1>2 DEF AutoConflict, Goto, Idle, At
      <3>8. SInv'
        BY <1>0, <3>6, <3>7, JobMoves
      <3> QED BY <1>0, <3>3, <3>5, <3>7, <3>8 DEF Moves
    <2>2. CASE ~(row.status = "blocked" \/ CanTransition(row, "blocked"))
      <3>1. Goto(h, "idle") /\ UNCHANGED db
        BY <1>1, <1>2, <2>2 DEF AutoConflict
      <3> QED BY <1>0, <1>a, <3>1, SerialGoto
    <2> QED BY <2>1, <2>2
  <1>3. CASE AutoDecide(h)
    <2>1. CASE AutoPublishable(h)
      <3>1. Goto(h, "promote") /\ UNCHANGED db
        BY <1>3, <2>1 DEF AutoDecide
      <3>2. Fit(op, "promote", row)
        BY <1>1, <1>b, <1>c, <2>1 DEF AutoPublishable
      <3>3. Clear(op, "promote", r, row)
        BY <1>1, <1>3 DEF AutoDecide, Clear
      <3> QED BY <1>0, <3>1, <3>2, <3>3, SerialGoto DEF Steps
    <2>2. CASE ~AutoPublishable(h)
      <3>1. (Reload(h, "sync") \/ Goto(h, "sync")) /\ UNCHANGED db
        BY <1>3, <2>2 DEF AutoDecide
      <3> QED BY <1>0, <1>a, <3>1, SerialGoto, SerialReload
    <2> QED BY <2>1, <2>2
  <1>4. CASE PublishValidate(h)
    <2>1. CASE Goto(h, "promote") /\ Publishable(row, OnDisk(h))
      <3>1. Fit(op, "promote", row)
        BY <1>b, <1>c, <2>1
      <3>2. Clear(op, "promote", r, row)
        BY <1>1, <1>4 DEF PublishValidate, At, Fit, Clear
      <3> QED BY <1>0, <1>4, <2>1, <3>1, <3>2, SerialGoto DEF PublishValidate, Steps
    <2>2. CASE Goto(h, "idle")
      BY <1>0, <1>4, <1>a, <2>2, SerialGoto DEF PublishValidate
    <2> QED BY <1>1, <1>4, <2>1, <2>2 DEF PublishValidate
  <1>5. CASE Promote(h)
    <2>1. CASE Goto(h, AfterPromotion(h))
      BY <1>0, <1>5, <1>a, <2>1, SerialGoto DEF Promote, AfterPromotion
    <2>2. CASE Goto(h, "commit")
      <3>1. Fit(op, "commit", row) /\ Clear(op, "commit", r, row)
        BY <1>1, <1>5 DEF Promote, At, Fit, Clear
      <3> QED BY <1>0, <1>5, <2>2, <3>1, SerialGoto DEF Promote, Steps
    <2> QED BY <1>5, <2>1, <2>2 DEF Promote
  <1>6. CASE HistoryConflict(h)
    <2>1. CASE Goto(h, "undo")
      BY <1>0, <1>6, <1>a, <2>1, SerialGoto DEF HistoryConflict
    <2>2. CASE Reload(h, AfterError(h))
      BY <1>0, <1>6, <2>2, SerialReload DEF HistoryConflict, AfterError
    <2> QED BY <1>6, <2>1, <2>2 DEF HistoryConflict
  <1>7. CASE PublishCommitFails(h)
    BY <1>0, <1>7, <1>a, SerialGoto DEF PublishCommitFails
  <1>8. CASE Undo(h)
    <2>1. UNCHANGED db /\ \E step \in {"sync", "idle", "undone"} : Reload(h, step)
      BY <1>8 DEF Undo
    <2> QED BY <1>0, <2>1, SerialReload
  <1> QED BY <1>2, <1>3, <1>4, <1>5, <1>6, <1>7, <1>8

\* A publication is committed.
LEMMA CommitMoves ==
    ASSUME SInv, Serially, TInv', NEW h \in Handlers, PublishCommit(h)
    PROVE  SInv' /\ Moves
  <1> DEFINE r   == job[h].r
             row == db[r]
             new == PublishedRow(row)
             j   == IF job[h].op \in Uploads THEN [job[h] EXCEPT !.at = "sync", !.mine = new] ELSE Idle
  <1>1. Busy(h) /\ At(h, "commit")
    BY DEF PublishCommit, At, Busy
  <1>2. /\ r \in Reports /\ job[h].mine = row /\ row \in Row /\ job[h] \in Job
        /\ Good(row) /\ row.status \in Statuses /\ Publishable(row, TRUE)
    BY <1>1, AtWork DEF At, Fit
  <1>3. new \in Row
    BY <1>2 DEF PublishedRow, Row, Statuses
  <1>4. Good(new)
    <2>1. Trusted(row) /\ row.interp # "failed"
      BY <1>2 DEF Publishable, Trusted, Good
    <2> QED BY <1>2, <2>1, ReviewedColumns DEF Good, Statuses
  <1>5. Merge(row, row, new) = new
    BY <1>2, <1>3, MergeUpToDate
  <1> DEFINE saved == [db EXCEPT ![r] = new]
  <1>6. /\ db' = [q \in Reports |-> IF q \in Superseded(r, new.date)
                                    THEN [saved[q] EXCEPT !.current = FALSE] ELSE saved[q]]
        /\ job' = [job EXCEPT ![h] = j]
    BY <1>2, <1>5 DEF PublishCommit
  <1>7. Publication(r)
    BY <1>6 DEF Publication
  <1>8. /\ j.at \in {"sync", "idle"}
        /\ j.at # "idle" => j.r = r /\ j.mine = new
    BY <1>2 DEF Job, Idle
  <1> HIDE DEF j
  <1>9. \A q \in Reports : saved[q] \in Row /\ Good(saved[q])
    BY <1>2, <1>3, <1>4 DEF SInv, TInv, TypeOK
  <1>10. saved[r] = new /\ r \notin Superseded(r, new.date)
    BY <1>2 DEF SInv, TInv, TypeOK, Superseded, SameDate
  <1> HIDE DEF saved, new
  <1>11. \A other \in Row : Good(other) => Good([other EXCEPT !.current = FALSE])
    BY DEF Row, Good, Trusted, DateTrusted, HasBlocking
  <1>12. \A q \in Reports : Good(db'[q])
    BY <1>6, <1>9, <1>11
  <1>13. db'[r] = new
    BY <1>2, <1>6, <1>10
  <1>14. Fit(j.op, j.at, j.mine)
    BY <1>8 DEF Fit
  <1>15. SInv'
    BY <1>1, <1>6, <1>8, <1>12, <1>13, <1>14, JobMoves
  <1> QED BY <1>1, <1>7, <1>15 DEF Moves

\* The review is brought up to date, and an issue decided (ReviewWorkflowService).
LEMMA ReviewMoves ==
    ASSUME SInv, Serially, TInv', NEW h \in Handlers,
           SyncWorkflow(h) \/ ResolveRefused(h) \/ DecideUnknown(h)
              \/ (\E kind \in Kinds : Decide(h, kind))
    PROVE  SInv' /\ Moves
  <1> DEFINE r   == job[h].r
             row == db[r]
             op  == job[h].op
  <1>0. Busy(h) /\ ~At(h, "commit")
    BY DEF SyncWorkflow, ResolveRefused, DecideUnknown, Decide, At, Busy
  <1>1. /\ r \in Reports /\ job[h].mine = row /\ row \in Row /\ job[h] \in Job
        /\ Good(row) /\ row.status \in Statuses
        /\ Fit(op, job[h].at, row)
    BY <1>0, AtWork
  <1>a. ASSUME NEW step \in {"sync", "idle"}
        PROVE  step \in Steps /\ Fit(op, step, row) /\ Clear(op, step, r, row)
    BY <1>a DEF Steps, Fit, Clear
  <1>b. ASSUME NEW known
        PROVE  /\ Change(job[h], row, ApplyState(row, known))
               /\ row.status # "published" => ApplyState(row, known).status # "published"
    <2> DEFINE new == ApplyState(row, known)
    <2>1. /\ new.status \in Statuses /\ new.interp = row.interp /\ new.current = row.current
          /\ row.status \in {"published", "withdrawn", "parsing", "parse_failed"} => new = row
          /\ row.status \notin {"published", "withdrawn", "parsing", "parse_failed"} =>
                new.status \in {"parsing", "blocked", "needs_review", "ready_to_publish"}
      BY <1>1, AppliedColumns DEF Good
    <2>2. new \in Row
      <3>1. CASE row.status \in {"published", "withdrawn", "parsing", "parse_failed"}
        BY <1>1, <2>1, <3>1
      <3>2. CASE row.status \notin {"published", "withdrawn", "parsing", "parse_failed"}
        <4>1. new = [row EXCEPT !.status = WorkflowStatus(row, known)]
          BY <3>2 DEF ApplyState
        <4>2. WorkflowStatus(row, known) \in Statuses
          BY <1>1, <2>1, <4>1, ReviewedColumns
        <4> QED BY <1>1, <4>1, <4>2, StatusColumn
      <3> QED BY <3>1, <3>2
    <2> HIDE DEF new
    <2>3. Change(job[h], row, new) /\ (row.status # "published" => new.status # "published")
      BY <1>1, <2>1, <2>2 DEF Change, Good, Statuses
    <2> QED BY <2>3 DEF new
  <1>2. CASE SyncWorkflow(h)
    <2> DEFINE plain == ApplyState(row, SyncedIssues(row, issues[r]))
               new == IF At(h, "undone") THEN [plain EXCEPT !.stored = "staging"] ELSE plain
               step == CASE At(h, "resolve") -> "decide"
                         [] op = "reconcile" -> "restore"
                         [] OTHER            -> "idle"
    <2>1. Save(h, new, step)
      BY <1>1, <1>2 DEF SyncWorkflow
    <2>2. Change(job[h], row, new) /\ (row.status # "published" => new.status # "published")
      <3>1. Change(job[h], row, plain) /\ (row.status # "published" => plain.status # "published")
        BY <1>b
      <3> HIDE DEF plain
      <3>2. CASE At(h, "undone")
        <4>1. /\ new \in Row /\ new.status = plain.status /\ new.interp = plain.interp
              /\ new.current = plain.current /\ new.complete = plain.complete
              /\ Trusted(plain) => Trusted(new)
          BY <3>1, <3>2 DEF Change, Row, Trusted, DateTrusted, HasBlocking
        <4> HIDE DEF new
        <4> QED BY <3>1, <4>1 DEF Change, Good
      <3>3. CASE ~At(h, "undone")
        BY <3>1, <3>3
      <3> QED BY <3>2, <3>3
    <2>3. /\ step \in {"decide", "restore", "idle"}
          /\ step = "decide" => row.status # "published"
      BY <1>1, <1>2 DEF SyncWorkflow, At
    <2> HIDE DEF new, step
    <2>4. Fit(op, step, new)
      BY <2>2, <2>3 DEF Fit
    <2> QED BY <1>0, <2>1, <2>2, <2>3, <2>4, SerialSave DEF Steps
  <1>3. CASE ResolveRefused(h) \/ DecideUnknown(h)
    BY <1>0, <1>3, <1>a, SerialGoto DEF ResolveRefused, DecideUnknown
  <1>4. CASE \E kind \in Kinds : Decide(h, kind)
    <2>1. PICK kind \in Kinds : Decide(h, kind)
      BY <1>4
    <2>2. CASE Goto(h, "sync") /\ UNCHANGED db
      BY <1>0, <1>a, <2>2, SerialGoto
    <2>3. ASSUME NEW date \in Dates \cup {NoDate}, NEW decided,
                 Save(h, ApplyState(ResolvedRow(row, kind, date), decided), "sync")
          PROVE  SInv' /\ Moves
      <3> DEFINE told == ResolvedRow(row, kind, date)
                 new == ApplyState(told, decided)
      <3>1. /\ told.status = row.status /\ told.interp \in {"ready", "needs_attention"}
            /\ told.current = row.current /\ told \in Row
        BY <1>1, ReviewedColumns, ReviewKeeps DEF Keeps, Statuses
      <3>2. row.status # "published"
        BY <1>1, <2>1 DEF Decide, At, Fit
      <3>3. CASE row.status = "parse_failed"
        <4>1. new = told
          BY <3>1, <3>3 DEF ApplyState
        <4>2. Change(job[h], row, new)
          BY <1>1, <3>1, <3>3, <4>1 DEF Change, Good, Statuses
        <4>3. Fit(op, "sync", new)
          BY DEF Fit
        <4> QED BY <1>0, <2>3, <4>2, <4>3, SerialSave DEF Steps
      <3>4. CASE row.status # "parse_failed"
        <4>1. /\ new.status \in Statuses /\ new.interp = told.interp /\ new.current = row.current
              /\ row.status \in {"withdrawn", "parsing"} => new = told
              /\ row.status \notin {"withdrawn", "parsing"} =>
                    new.status \in {"parsing", "blocked", "needs_review", "ready_to_publish"}
          BY <1>1, <3>1, <3>2, <3>4, AppliedColumns
        <4>2. new \in Row
          <5>1. CASE row.status \in {"withdrawn", "parsing"}
            BY <3>1, <4>1, <5>1
          <5>2. CASE row.status \notin {"withdrawn", "parsing"}
            <6>1. new = [told EXCEPT !.status = WorkflowStatus(told, decided)]
              BY <3>1, <3>2, <3>4, <5>2 DEF ApplyState
            <6>2. WorkflowStatus(told, decided) \in Statuses
              BY <3>1, <4>1, <6>1, ReviewedColumns
            <6> QED BY <3>1, <6>1, <6>2, StatusColumn
          <5> QED BY <5>1, <5>2
        <4>3. Change(job[h], row, new)
          BY <1>1, <3>1, <3>2, <3>4, <4>1, <4>2 DEF Change, Good, Statuses
        <4>4. Fit(op, "sync", new)
          BY DEF Fit
        <4> QED BY <1>0, <2>3, <4>3, <4>4, SerialSave DEF Steps
      <3> QED BY <3>3, <3>4
    <2> QED BY <1>1, <2>1, <2>2, <2>3 DEF Decide
  <1> QED BY <1>2, <1>3, <1>4

\* An administrator edits, withdraws, readies or reconciles a report.
LEMMA ManualMoves ==
    ASSUME SInv, Serially, TInv', NEW h \in Handlers,
           Patch(h) \/ Ready(h) \/ Withdraw(h) \/ ResolveTerm(h)
              \/ ReconcileStart(h) \/ ReconcileRebuild(h) \/ ReconcileRestore(h)
    PROVE  SInv' /\ Moves
  <1> DEFINE r   == job[h].r
             row == db[r]
             op  == job[h].op
  <1>0. Busy(h) /\ ~At(h, "commit")
    BY DEF Patch, Ready, Withdraw, ResolveTerm, ReconcileStart, ReconcileRebuild,
           ReconcileRestore, At, Busy
  <1>1. /\ r \in Reports /\ job[h].mine = row /\ row \in Row /\ job[h] \in Job
        /\ Good(row) /\ row.status \in Statuses
        /\ Fit(op, job[h].at, row)
    BY <1>0, AtWork
  <1>a. Fit(op, "idle", row) /\ Clear(op, "idle", r, row) /\ "idle" \in Steps
    BY DEF Steps, Fit, Clear
  <1>b. ASSUME Goto(h, "idle"), UNCHANGED db PROVE SInv' /\ Moves
    BY <1>0, <1>a, <1>b, SerialGoto
  <1>2. CASE Patch(h)
    <2>1. PICK date \in Dates \cup {NoDate}, confirm \in BOOLEAN, complete \in BOOLEAN,
               next \in {"idle", "sync"} :
            Save(h, PatchedRow(row, date, confirm, complete), next)
      BY <1>1, <1>2 DEF Patch
    <2> DEFINE new == PatchedRow(row, date, confirm, complete)
    <2>2. /\ new.status = row.status /\ new.interp \in {"ready", "needs_attention"}
          /\ new.current = row.current /\ (Trusted(row) => Trusted(new))
      BY <1>1, ReviewedColumns
    <2>7. job[h].at = "patch"
      BY <1>2 DEF Patch, At
    <2>3. new \in Row
      BY <1>1, ReviewKeeps DEF Keeps, Statuses
    <2>4. Save(h, new, next)
      BY <2>1
    <2> HIDE DEF new
    <2>5. Change(job[h], row, new)
      BY <1>1, <2>2, <2>3, <2>7 DEF Change, Good, Statuses
    <2>6. Fit(op, next, new)
      BY DEF Fit
    <2> QED BY <1>0, <2>4, <2>5, <2>6, SerialSave DEF Steps
  <1>c. ASSUME NEW status \in Statuses, Save(h, [row EXCEPT !.status = status], "idle"),
               status = "published" => op = "reconcile" /\ Trusted(row) /\ row.complete,
               row.status = "published" => status = "withdrawn" \/ op = "reconcile",
               row.status # "withdrawn", row.status # "parse_failed", status # "parse_failed"
        PROVE  SInv' /\ Moves
    <2> DEFINE new == [row EXCEPT !.status = status]
    <2>1. /\ new \in Row /\ new.status = status /\ new.interp = row.interp
          /\ new.current = row.current /\ (Trusted(row) => Trusted(new)) /\ new.complete = row.complete
      <3>1. new \in Row /\ new.status = status
        BY <1>1, StatusColumn
      <3>2. /\ new.interp = row.interp /\ new.current = row.current
            /\ (Trusted(row) => Trusted(new)) /\ new.complete = row.complete
        BY <1>1, ReviewedColumns
      <3> QED BY <3>1, <3>2
    <2> HIDE DEF new
    <2>2. Change(job[h], row, new)
      BY <1>1, <1>c, <2>1 DEF Change, Good, Statuses
    <2>3. Fit(op, "idle", new)
      BY DEF Fit
    <2> QED BY <1>0, <1>c, <2>2, <2>3, SerialSave DEF Steps, new
  <1>3. CASE Ready(h)
    <2>1. CASE ReadyAllowed(row)
      <3>1. row.status \in {"needs_review", "blocked"}
        BY <1>1, <2>1 DEF ReadyAllowed, CanTransition, AllowedTransitions, Statuses
      <3> QED BY <1>1, <1>3, <1>c, <2>1, <3>1 DEF Ready, Statuses
    <2>2. CASE ~ReadyAllowed(row)
      BY <1>1, <1>3, <1>b, <2>2 DEF Ready
    <2> QED BY <2>1, <2>2
  <1>4. CASE Withdraw(h)
    <2>1. CASE CanTransition(row, "withdrawn")
      <3>1. row.status = "published"
        BY <1>1, <2>1 DEF CanTransition, AllowedTransitions, Statuses
      <3> QED BY <1>1, <1>4, <1>c, <2>1, <3>1 DEF Withdraw, Statuses
    <2>2. CASE ~CanTransition(row, "withdrawn")
      BY <1>1, <1>4, <1>b, <2>2 DEF Withdraw
    <2> QED BY <2>1, <2>2
  <1>5. CASE ResolveTerm(h)
    <2>1. PICK left \in {"none", "few", "many"} : db' = [db EXCEPT ![r].terms = left]
      BY <1>5 DEF ResolveTerm
    <2> DEFINE new == [row EXCEPT !.terms = left]
    <2>2. db' = [db EXCEPT ![r] = new]
      BY <2>1
    <2>3. /\ new \in Row /\ new.status = row.status /\ new.interp = row.interp
          /\ new.current = row.current /\ (Trusted(row) => Trusted(new)) /\ new.complete = row.complete
      BY <1>1 DEF Row, Trusted, DateTrusted, HasBlocking
    <2> HIDE DEF new
    <2>4. Change(job[h], row, new)
      BY <1>1, <2>3 DEF Change, Good, Statuses
    <2>5. \A q \in Reports : Good(db'[q])
      BY <2>2, <2>4 DEF SInv, TInv, TypeOK, Change
    <2>6. job' = [job EXCEPT ![h] = Idle] /\ Idle.at = "idle"
      BY <1>5 DEF ResolveTerm, Goto, Idle
    <2>7. SInv'
      BY <1>0, <2>5, <2>6, JobMoves
    <2> QED BY <1>0, <2>2, <2>4, <2>7 DEF Moves
  <1>6. CASE ReconcileStart(h)
    <2>1. op = "reconcile"
      BY <1>1, <1>6 DEF ReconcileStart, At, Fit
    <2>2. CASE row.status = "published" /\ Save(h, [row EXCEPT !.status = "needs_review"], "parse")
      <3> DEFINE new == [row EXCEPT !.status = "needs_review"]
      <3>0. "needs_review" \in Statuses
        BY DEF Statuses
      <3>1. /\ new \in Row /\ new.status = "needs_review" /\ new.interp = row.interp
            /\ new.current = row.current
        BY <1>1, <3>0, StatusColumn, ReviewedColumns
      <3> HIDE DEF new
      <3>2. Change(job[h], row, new)
        BY <1>1, <2>1, <2>2, <3>1 DEF Change, Good, Statuses
      <3>3. Fit(op, "parse", new)
        BY DEF Fit
      <3> QED BY <1>0, <2>2, <3>2, <3>3, SerialSave DEF Steps, new
    <2> QED BY <1>1, <1>6, <1>b, <2>2 DEF ReconcileStart
  <1>7. CASE ReconcileRebuild(h)
    <2>1. Fit(op, "structure", row) /\ Clear(op, "structure", r, row)
      BY <1>1, <1>7 DEF ReconcileRebuild, At, Fit, Clear
    <2> QED BY <1>0, <1>7, <2>1, SerialGoto DEF ReconcileRebuild, Steps
  <1>8. CASE ReconcileRestore(h)
    <2>1. CASE /\ Publishable(row, OnDisk(h))
               /\ Save(h, [row EXCEPT !.status = "published"], "idle")
      <3>1. /\ row.status \in {"needs_review", "ready_to_publish"} /\ Trusted(row) /\ row.complete
            /\ op = "reconcile"
        BY <1>8, <2>1 DEF ReconcileRestore, Publishable, Trusted
      <3> QED BY <1>c, <2>1, <3>1 DEF Statuses
    <2> QED BY <1>1, <1>8, <1>b, <2>1 DEF ReconcileRestore
  <1> QED BY <1>2, <1>3, <1>4, <1>5, <1>6, <1>7, <1>8

\* A process dies: the rows stay.
LEMMA CrashMoves ==
    ASSUME SInv, NEW died \in SUBSET Handlers, Crash(died), TInv'
    PROVE  SInv' /\ Moves
  <1>1. UNCHANGED db /\ \A g \in Handlers : job'[g] = IF g \in died THEN Idle ELSE job[g]
    BY DEF Crash
  <1>2. Idle.at = "idle"
    BY DEF Idle
  <1>3. \A g \in Handlers : Busy(g)' => Busy(g) /\ job'[g] = job[g]
    BY <1>1, <1>2 DEF Busy
  <1>a. ASSUME NEW g \in Handlers, Busy(g)' PROVE UpToDate(job[g])'
    <2>1. UpToDate(job[g]) /\ job'[g] = job[g]
      BY <1>3, <1>a DEF SInv
    <2> QED BY <1>1, <2>1 DEF UpToDate, Fit, Clear, SameDate, Exists
  <1>4. SInv'
    BY <1>1, <1>a DEF SInv
  <1> QED BY <1>1, <1>4 DEF Moves

\* Every step of requests that do not overlap keeps the invariant.
LEMMA SerialNext == SInv /\ Serially /\ Serially' /\ [Next]_vars => SInv' /\ [Moves]_vars
  <1> SUFFICES ASSUME SInv, Serially, Serially', [Next]_vars PROVE SInv' /\ [Moves]_vars
    OBVIOUS
  <1>1. TInv'
    BY TypedNext DEF SInv
  <1>2. ASSUME NEW h \in Handlers, Request(h) PROVE SInv' /\ Moves
    BY <1>1, <1>2, RequestMoves
  <1>3. ASSUME NEW h \in Handlers, Step(h) PROVE SInv' /\ Moves
    BY <1>1, <1>3, InterpretationMoves, PublicationMoves, CommitMoves, ReviewMoves, ManualMoves
       DEF Step
  <1>4. CASE Crash(Handlers \ Scripts)
    BY <1>1, <1>4, CrashMoves
  <1>5. ASSUME NEW h \in Scripts, Crash({h}) PROVE SInv' /\ Moves
    <2>1. {h} \in SUBSET Handlers
      BY DEF Scripts
    <2> QED BY <1>1, <1>5, <2>1, CrashMoves
  <1>6. CASE UNCHANGED vars
    BY <1>1, <1>6 DEF vars, SInv, Busy, UpToDate, Fit, Clear, SameDate, Exists
  <1> QED BY <1>2, <1>3, <1>4, <1>5, <1>6 DEF Next

\* The empty library satisfies it.
LEMMA SerialInit == Init => SInv
  <1> SUFFICES ASSUME Init PROVE SInv
    OBVIOUS
  <1>1. AbsentRow.status = "absent" /\ AbsentRow.interp = "uploading"
    BY DEF AbsentRow, FreshRow
  <1>2. \A r \in Reports : Good(db[r])
    BY <1>1 DEF Init, Good
  <1>3. \A h \in Handlers : ~Busy(h)
    BY DEF Init, Idle, Busy
  <1> QED BY <1>2, <1>3, TypedInit DEF SInv

\* So it holds throughout, and the rows move as said.
LEMMA SerialReach == Spec /\ []Serially => []SInv /\ [][Moves]_vars
  BY SerialInit, SerialNext, PTL DEF Spec

----------------------------------------------------------------------------
(* What holds of requests that do not overlap.                              *)

\* What a move does to one row: a publication, or a change that keeps the
\* properties below.
LEMMA RowMoves ==
    ASSUME SInv, Serially, Moves, NEW q \in Reports
    PROVE  \/ db'[q] = db[q]
           \/ ~Exists(q) /\ db'[q].status = "uploaded"
           \/ \E h \in Handlers : /\ Busy(h) /\ job[h].r = q
                                  /\ Change(job[h], db[q], db'[q])
           \/ /\ Publication(q) /\ db'[q] = PublishedRow(db[q]) /\ Publishable(db[q], TRUE)
              /\ \E h \in Handlers : At(h, "commit") /\ job[h].r = q
           \/ \E h \in Handlers : /\ At(h, "commit") /\ q \in SameDate(job[h].r, db[job[h].r].date)
                                  /\ db'[q] = [db[q] EXCEPT !.current = FALSE]
                                  /\ db'[job[h].r] = PublishedRow(db[job[h].r])
  <1>0. db[q] \in Row /\ FreshRow.status = "uploaded"
    BY DEF SInv, TInv, TypeOK, FreshRow
  <1>1. CASE UNCHANGED db
    BY <1>1
  <1>2. CASE \E r \in Reports : ~Exists(r) /\ db' = [db EXCEPT ![r] = FreshRow]
    BY <1>0, <1>2 DEF SInv, TInv, TypeOK
  <1>3. CASE \E h \in Handlers : /\ Busy(h) /\ ~At(h, "commit")
                           /\ \E new : /\ Change(job[h], db[job[h].r], new)
                                       /\ db' = [db EXCEPT ![job[h].r] = new]
    <2>a. PICK h \in Handlers :
             Busy(h) /\ \E new : /\ Change(job[h], db[job[h].r], new)
                                 /\ db' = [db EXCEPT ![job[h].r] = new]
      BY <1>3
    <2>1. PICK new : Change(job[h], db[job[h].r], new) /\ db' = [db EXCEPT ![job[h].r] = new]
      BY <2>a
    <2>2. db'[q] = IF q = job[h].r THEN new ELSE db[q]
      BY <2>1 DEF SInv, TInv, TypeOK
    <2> QED BY <2>a, <2>1, <2>2
  <1>4. CASE \E h \in Handlers : At(h, "commit") /\ Publication(job[h].r)
    <2>1. PICK h \in Handlers : At(h, "commit") /\ Publication(job[h].r)
      BY <1>4
    <2> DEFINE r == job[h].r
    <2>2. r \in Reports /\ db[r] \in Row /\ Publishable(db[r], TRUE)
      BY <2>1, AtWork DEF At, Busy, Fit
    <2>3. PublishedRow(db[r]).date = db[r].date
      BY <2>2, ReviewedColumns
    <2> DEFINE saved == [db EXCEPT ![r] = PublishedRow(db[r])]
    <2>4. db'[q] = IF q \in SameDate(r, db[r].date)
                   THEN [saved[q] EXCEPT !.current = FALSE] ELSE saved[q]
      BY <2>1, <2>3 DEF Publication, Superseded
    <2>5. saved[q] = IF q = r THEN PublishedRow(db[r]) ELSE db[q]
      BY DEF SInv, TInv, TypeOK
    <2>6. r \notin SameDate(r, db[r].date)
      BY DEF SameDate
    <2>7. db'[r] = PublishedRow(db[r])
      BY <2>1, <2>2, <2>3, <2>6 DEF Publication, Superseded, SInv, TInv, TypeOK
    <2> HIDE DEF saved
    <2> QED BY <2>1, <2>2, <2>4, <2>5, <2>6, <2>7
  <1> QED BY <1>1, <1>2, <1>3, <1>4 DEF Moves

\* What a published or withdrawn report becomes.
LEMMA StatusMoves ==
    ASSUME SInv, Serially, Moves, NEW q \in Reports
    PROVE  /\ Published(q) => \/ db'[q].status \in {"published", "withdrawn"}
                              \/ \E h \in Handlers : job[h].op = "reconcile" /\ job[h].r = q
           /\ db[q].status = "withdrawn" => db'[q].status = "withdrawn"
  <1>1. db[q] \in Row
    BY DEF SInv, TInv, TypeOK
  <1>2. CASE db'[q] = db[q]
    BY <1>2 DEF Published
  <1>3. CASE ~Exists(q)
    BY <1>3 DEF Exists, Published
  <1>4. CASE \E h \in Handlers : job[h].r = q /\ Change(job[h], db[q], db'[q])
    BY <1>4 DEF Change, Published
  <1>5. CASE db'[q] = PublishedRow(db[q]) /\ Publishable(db[q], TRUE)
    BY <1>1, <1>5, ReviewedColumns DEF Publishable
  <1>6. CASE db'[q] = [db[q] EXCEPT !.current = FALSE]
    BY <1>1, <1>6 DEF Published, Row
  <1> QED BY <1>2, <1>3, <1>4, <1>5, <1>6, RowMoves

\* No request stores a status outside ReportStatus (_apply_report_state
\* assigns what WorkflowStatus says).
THEOREM SerialStatuses == Spec /\ []Serially => []KnownStatus
  <1>1. SInv => KnownStatus
    BY DEF SInv, Good, KnownStatus
  <1> QED BY <1>1, SerialReach, PTL

\* What is published was vetted, and only an edit made afterwards takes its
\* texts away (_validate_publishable, patch).
THEOREM SerialVetted == Spec /\ []Serially => PublishedIsVetted
  <1> DEFINE Goes == \A r \in Reports : Published(r)' =>
          /\ DateTrusted(db'[r]) /\ ~HasBlocking(db'[r])
          /\ ~db'[r].complete => /\ Published(r)
                                /\ \/ ~db[r].complete
                                   \/ \E h \in Handlers : At(h, "patch") /\ job[h].r = r
  <1>1. SInv /\ SInv' /\ Serially /\ [Moves]_vars => [Goes]_vars
    <2> SUFFICES ASSUME SInv, SInv', Serially, Moves, NEW q \in Reports, Published(q)'
                 PROVE  /\ Trusted(db'[q])
                        /\ ~db'[q].complete =>
                              /\ db[q].status = "published"
                              /\ \/ ~db[q].complete
                                 \/ \E h \in Handlers : job[h].at = "patch" /\ job[h].r = q
      BY DEF Trusted, Published, At
    <2>1. db[q] \in Row /\ Trusted(db'[q])
      BY DEF SInv, TInv, TypeOK, Good, Published
    <2>2. CASE db'[q] = db[q]
      BY <2>1, <2>2 DEF Published
    <2>3. CASE db'[q].status = "uploaded"
      BY <2>3 DEF Published
    <2>4. CASE \E h \in Handlers : job[h].r = q /\ Change(job[h], db[q], db'[q])
      BY <2>1, <2>4 DEF Change, Published
    <2>5. CASE db'[q] = PublishedRow(db[q]) /\ Publishable(db[q], TRUE)
      BY <2>1, <2>5, ReviewedColumns DEF Publishable
    <2>6. CASE db'[q] = [db[q] EXCEPT !.current = FALSE]
      BY <2>1, <2>6 DEF Published, Row
    <2> QED BY <2>2, <2>3, <2>4, <2>5, <2>6, RowMoves
  <1>2. Spec /\ []Serially => [][Goes]_vars
    BY <1>1, SerialReach, PTL
  <1> QED BY <1>2 DEF PublishedIsVetted

\* A published report leaves that status by withdrawal or reconciliation
\* only, and a withdrawn one never returns (ALLOWED_TRANSITIONS, which
\* _apply_report_state and restore bypass).
THEOREM SerialWithdrawal == Spec /\ []Serially => PublishedOnlyWithdrawn
  <1> DEFINE Goes == \A r \in Reports :
          /\ Published(r) /\ ~Published(r)' =>
                \/ db'[r].status = "withdrawn"
                \/ \E h \in Handlers : job[h].op = "reconcile" /\ job[h].r = r
          /\ db[r].status = "withdrawn" => db'[r].status = "withdrawn"
  <1>1. SInv /\ Serially /\ [Moves]_vars => [Goes]_vars
    <2> SUFFICES ASSUME SInv, Serially, Moves PROVE Goes
      OBVIOUS
    <2> QED BY StatusMoves DEF Published
  <1>2. Spec /\ []Serially => [][Goes]_vars
    BY <1>1, SerialReach, PTL
  <1> QED BY <1>2 DEF PublishedOnlyWithdrawn

\* A date loses its report for Viewers only by withdrawal, a new date or
\* reconciliation: a publication puts its own report in the place of the one
\* it demotes (publish).
THEOREM SerialKeepsDate == Spec /\ []Serially => ViewerKeepsDate
  <1> DEFINE Goes == \A d \in Dates : Shown(d) # {} /\ Shown(d)' = {} =>
          \E r \in Shown(d) :
             \/ db'[r].status = "withdrawn" \/ db'[r].date # d
             \/ \E h \in Handlers : job[h].op = "reconcile" /\ job[h].r = r
  <1>1. SInv /\ Serially /\ [Moves]_vars => [Goes]_vars
    <2> SUFFICES ASSUME SInv, Serially, Moves, NEW d \in Dates, NEW q \in Shown(d), Shown(d)' = {}
                 PROVE  \/ db'[q].status = "withdrawn" \/ db'[q].date # d
                        \/ \E h \in Handlers : job[h].op = "reconcile" /\ job[h].r = q
      OBVIOUS
    <2>1. /\ q \in Reports /\ db[q].status = "published" /\ db[q].current /\ db[q].date = d
          /\ d # NoDate /\ db[q] \in Row
      BY NoDateAssumption DEF Shown, SInv, TInv, TypeOK
    <2>2. \A r \in Reports : ~(db'[r].date = d /\ db'[r].status = "published" /\ db'[r].current)
      BY <2>1 DEF Shown
    <2>3. CASE db'[q] = db[q]
      BY <2>1, <2>2, <2>3
    <2>4. CASE ~Exists(q)
      BY <2>1, <2>4 DEF Exists
    <2>5. CASE \E h \in Handlers : job[h].r = q /\ Change(job[h], db[q], db'[q])
      BY <2>1, <2>2, <2>5 DEF Change
    <2>6. CASE db'[q] = PublishedRow(db[q]) /\ Publishable(db[q], TRUE)
      BY <2>1, <2>6 DEF Publishable
    <2>7. ASSUME NEW h \in Handlers, At(h, "commit"), q \in SameDate(job[h].r, db[job[h].r].date),
                 db'[job[h].r] = PublishedRow(db[job[h].r])
          PROVE  FALSE
      <3> DEFINE r == job[h].r
      <3>1. r \in Reports /\ db[r] \in Row /\ db[r].date = d
        BY <2>1, <2>7, AtWork DEF At, Busy, SameDate
      <3>2. db'[r].date = d /\ db'[r].status = "published" /\ db'[r].current
        BY <2>7, <3>1, ReviewedColumns
      <3> QED BY <2>2, <3>1, <3>2
    <2> QED BY <2>1, <2>3, <2>4, <2>5, <2>6, <2>7, RowMoves
  <1>2. Spec /\ []Serially => [][Goes]_vars
    BY <1>1, SerialReach, PTL
  <1> QED BY <1>2 DEF ViewerKeepsDate

\* Automatic publication never takes the Viewer's report of a date away: it
\* has found no other report of that date (reject_same_date_conflict).
THEOREM SerialNeverReplaces == Spec /\ []Serially => AutoNeverReplaces
  <1> DEFINE Goes == \A h \in Handlers, q \in Reports :
          (/\ job[h].op \in Uploads /\ At(h, "commit") /\ ~At(h, "commit")'
           /\ Published(q) /\ db[q].current) => db'[q].current
  <1>1. SInv /\ Serially /\ [Moves]_vars => [Goes]_vars
    <2> SUFFICES ASSUME SInv, Serially, Moves, NEW h \in Handlers, NEW q \in Reports,
                        job[h].op \in Uploads, At(h, "commit"), Published(q), db[q].current
                 PROVE  db'[q].current
      OBVIOUS
    <2>1. db[q] \in Row /\ SameDate(job[h].r, db[job[h].r].date) = {}
      BY AtWork DEF SInv, TInv, TypeOK, At, Busy, Clear
    <2>2. \A g \in Handlers : Busy(g) => g = h
      BY DEF Serially, At, Busy
    <2>3. \A g \in Handlers : At(g, "commit") => SameDate(job[g].r, db[job[g].r].date) = {}
      BY <2>1, <2>2 DEF At, Busy
    <2>4. CASE ~Exists(q)
      BY <2>4 DEF Exists, Published
    <2>5. CASE \E g \in Handlers : Change(job[g], db[q], db'[q])
      BY <2>5 DEF Change
    <2>6. CASE db'[q] = PublishedRow(db[q])
      BY <2>1, <2>6, ReviewedColumns
    <2> QED BY <2>3, <2>4, <2>5, <2>6, RowMoves
  <1>2. Spec /\ []Serially => [][Goes]_vars
    BY <1>1, SerialReach, PTL
  <1> QED BY <1>2 DEF AutoNeverReplaces

----------------------------------------------------------------------------
(* Instances without reconciliation.                                        *)

\* A handler serves one of the instance's requests from its start to its end.
OfOps == \A h \in Handlers : Busy(h) => job[h].op \in Ops

\* A handler serves the request it has begun.
LEMMA StepKeepsOp ==
    ASSUME TInv, NEW h \in Handlers, Step(h)
    PROVE  /\ \A g \in Handlers \ {h} : job'[g] = job[g]
           /\ Busy(h)' => job'[h].op = job[h].op
  <1>1. job \in [Handlers -> Job] /\ job[h] \in Job /\ Idle.at = "idle"
    BY DEF TInv, TypeOK, Idle
  <1>2. ASSUME NEW j, job' = [job EXCEPT ![h] = j], j.at = "idle" \/ j.op = job[h].op
        PROVE  /\ \A g \in Handlers \ {h} : job'[g] = job[g]
               /\ Busy(h)' => job'[h].op = job[h].op
    BY <1>1, <1>2 DEF Busy
  <1>3. ASSUME NEW step, NEW row
        PROVE  /\ [job[h] EXCEPT !.at = step].op = job[h].op
               /\ [job[h] EXCEPT !.at = step, !.mine = row].op = job[h].op
    BY <1>1 DEF Job
  <1>4. ASSUME NEW step, Goto(h, step)
        PROVE  /\ \A g \in Handlers \ {h} : job'[g] = job[g]
               /\ Busy(h)' => job'[h].op = job[h].op
    BY <1>1, <1>2, <1>3, <1>4 DEF Goto
  <1>5. ASSUME NEW step, NEW row, Save(h, row, step)
        PROVE  /\ \A g \in Handlers \ {h} : job'[g] = job[g]
               /\ Busy(h)' => job'[h].op = job[h].op
    BY <1>1, <1>2, <1>3, <1>5 DEF Save
  <1>6. ASSUME NEW step, Reload(h, step)
        PROVE  /\ \A g \in Handlers \ {h} : job'[g] = job[g]
               /\ Busy(h)' => job'[h].op = job[h].op
    BY <1>1, <1>2, <1>3, <1>6 DEF Reload
  <1>7. CASE ParseStart(h) \/ ParseEnd(h) \/ ApplyMd(h) \/ CheckHint(h) \/ ParseStructure(h)
    BY <1>4, <1>5, <1>7 DEF ParseStart, ParseEnd, ApplyMd, CheckHint, ParseStructure
  <1>8. CASE ParseFail(h)
    <2>1. job' = [job EXCEPT ![h] = IF job[h].op = "upload"
                     THEN [job[h] EXCEPT !.at = "sync", !.mine = ParseFailedRow(db[job[h].r])]
                     ELSE Idle]
      BY <1>8 DEF ParseFail
    <2> QED BY <1>1, <1>2, <1>3, <2>1
  <1>b. CASE PublishCommit(h)
    <2>1. job' = [job EXCEPT ![h] = IF job[h].op \in Uploads
                     THEN [job[h] EXCEPT !.at = "sync", !.mine = PublishedRow(job[h].mine)]
                     ELSE Idle]
      BY <1>b DEF PublishCommit
    <2> QED BY <1>1, <1>2, <1>3, <2>1
  <1>9. CASE \/ AutoConflict(h) \/ AutoDecide(h) \/ PublishValidate(h) \/ Promote(h)
             \/ HistoryConflict(h) \/ PublishCommitFails(h) \/ Undo(h)
    BY <1>4, <1>6, <1>9 DEF AutoConflict, AutoDecide, PublishValidate, Promote, HistoryConflict,
       PublishCommitFails, Undo
  <1>10. CASE \/ SyncWorkflow(h) \/ ResolveRefused(h) \/ DecideUnknown(h)
              \/ \E kind \in Kinds : Decide(h, kind)
    BY <1>4, <1>5, <1>10 DEF SyncWorkflow, ResolveRefused, DecideUnknown, Decide
  <1>11. CASE \/ Patch(h) \/ Ready(h) \/ Withdraw(h) \/ ResolveTerm(h)
              \/ ReconcileStart(h) \/ ReconcileRebuild(h) \/ ReconcileRestore(h)
    BY <1>4, <1>5, <1>11 DEF Patch, Ready, Withdraw, ResolveTerm, ReconcileStart,
       ReconcileRebuild, ReconcileRestore
  <1> QED BY <1>7, <1>8, <1>b, <1>9, <1>10, <1>11 DEF Step

\* No request comes from outside Ops.
LEMMA OpsKept == TInv /\ OfOps /\ [Next]_vars => OfOps'
  <1> SUFFICES ASSUME TInv, OfOps, [Next]_vars PROVE OfOps'
    OBVIOUS
  <1>1. ASSUME NEW h \in Handlers, Request(h) PROVE OfOps'
    <2>1. PICK op \in Ops, r \in Reports :
             Begin(h, op, r) \/ UploadNew(h, op, r) \/ UploadDuplicate(h, op, r)
      BY <1>1 DEF Request
    <2>2. \A g \in Handlers : job'[g].op = IF g = h THEN op ELSE job[g].op
      BY <2>1 DEF Begin, UploadNew, UploadDuplicate, TInv, TypeOK
    <2>3. \A g \in Handlers \ {h} : job'[g] = job[g]
      BY <2>1 DEF Begin, UploadNew, UploadDuplicate, TInv, TypeOK
    <2> QED BY <2>2, <2>3 DEF OfOps, Busy
  <1>2. ASSUME NEW h \in Handlers, Step(h) PROVE OfOps'
    <2>1. Busy(h)
      BY <1>2 DEF Step, ParseStart, ParseEnd, ParseFail, ApplyMd, CheckHint, ParseStructure,
         AutoConflict, AutoDecide, PublishValidate, Promote, HistoryConflict, PublishCommit,
         PublishCommitFails, Undo, SyncWorkflow, ResolveRefused, DecideUnknown, Decide, Patch, Ready,
         Withdraw, ResolveTerm, ReconcileStart, ReconcileRebuild, ReconcileRestore, At, Busy
    <2> QED BY <1>2, <2>1, StepKeepsOp DEF OfOps, Busy
  <1>3. ASSUME NEW died \in SUBSET Handlers, Crash(died) PROVE OfOps'
    BY <1>3 DEF Crash, OfOps, Busy, Idle
  <1>4. \A h \in Scripts : {h} \in SUBSET Handlers
    BY DEF Scripts
  <1>5. CASE UNCHANGED vars
    BY <1>5 DEF vars, OfOps, Busy
  <1> QED BY <1>1, <1>2, <1>3, <1>4, <1>5 DEF Next

\* The rows of an instance are finitely many, and a report that was published
\* once stays published or is withdrawn.
FiniteRows == IsFiniteSet({r \in Reports : Exists(r)})
OnceAndKept == \A r \in Reports :
    events[r] <= 1 /\ (events[r] # 0 => db[r].status \in {"published", "withdrawn"})

\* A publication event is written by the commit of a publication only.
LEMMA EventsMove ==
    ASSUME [Next]_vars
    PROVE  UNCHANGED events \/ \E h \in Handlers : PublishCommit(h)
  <1>1. ASSUME NEW h \in Handlers, Request(h) PROVE UNCHANGED events
    BY <1>1 DEF Request, Begin, UploadNew, UploadDuplicate
  <1>2. ASSUME NEW h \in Handlers, Step(h), ~PublishCommit(h) PROVE UNCHANGED events
    BY <1>2 DEF Step, ParseStart, ParseEnd, ParseFail, ApplyMd, CheckHint, ParseStructure,
         AutoConflict, AutoDecide, PublishValidate, Promote, HistoryConflict,
         PublishCommitFails, Undo, SyncWorkflow, ResolveRefused, DecideUnknown, Decide, Patch, Ready,
         Withdraw, ResolveTerm, ReconcileStart, ReconcileRebuild, ReconcileRestore
  <1>3. ASSUME NEW died, Crash(died) PROVE UNCHANGED events
    BY <1>3 DEF Crash
  <1> QED BY <1>1, <1>2, <1>3 DEF Next, vars

\* Without reconciliation, a row leaves "published" by withdrawal only.
LEMMA KeptMoves ==
    ASSUME SInv, Serially, Moves, OfOps, "reconcile" \notin Ops, NEW q \in Reports,
           db[q].status \in {"published", "withdrawn"}
    PROVE  db'[q].status \in {"published", "withdrawn"}
  <1>1. db[q] \in Row
    BY DEF SInv, TInv, TypeOK
  <1>2. CASE ~Exists(q)
    BY <1>2 DEF Exists
  <1>3. CASE \E h \in Handlers : Busy(h) /\ Change(job[h], db[q], db'[q])
    BY <1>3 DEF Change, OfOps
  <1>4. CASE db'[q] = PublishedRow(db[q])
    BY <1>1, <1>4, ReviewedColumns
  <1>5. CASE db'[q] = [db[q] EXCEPT !.current = FALSE]
    BY <1>1, <1>5 DEF Row
  <1> QED BY <1>2, <1>3, <1>4, <1>5, RowMoves

\* A step keeps what PublishedOnce needs.
LEMMA OnceKept ==
    SInv /\ Serially /\ Serially' /\ OfOps /\ OnceAndKept /\ "reconcile" \notin Ops /\ [Next]_vars
       => OnceAndKept'
  <1> SUFFICES ASSUME SInv, Serially, Serially', OfOps, OnceAndKept, "reconcile" \notin Ops,
                      [Next]_vars, NEW r \in Reports
               PROVE  (events[r] <= 1 /\ (events[r] # 0 => db[r].status \in {"published", "withdrawn"}))'
    BY DEF OnceAndKept
  <1>1. events \in [Reports -> 0..2] /\ db[r] \in Row
    BY DEF SInv, TInv, TypeOK
  <1>2. db[r].status \in {"published", "withdrawn"} => db'[r].status \in {"published", "withdrawn"}
    BY SerialNext, KeptMoves DEF vars
  <1>3. CASE UNCHANGED events
    BY <1>2, <1>3 DEF OnceAndKept
  <1>4. ASSUME NEW h \in Handlers, PublishCommit(h)
        PROVE  (events[r] <= 1 /\ (events[r] # 0 => db[r].status \in {"published", "withdrawn"}))'
    <2>1. /\ job[h].r \in Reports /\ job[h].mine = db[job[h].r] /\ db[job[h].r] \in Row
          /\ Publishable(db[job[h].r], TRUE)
      BY <1>4, AtWork DEF PublishCommit, At, Busy, Fit
    <2>2. events' = [events EXCEPT ![job[h].r] = IF @ = 2 THEN 2 ELSE @ + 1]
      BY <1>4 DEF PublishCommit
    <2>3. CASE r = job[h].r
      <3>1. events[r] = 0
        BY <1>1, <2>1, <2>3 DEF OnceAndKept, Publishable
      <3>2. events'[r] = 1
        BY <1>1, <2>2, <2>3, <3>1
      <3>3. PublishedRow(db[r]).status = "published" /\ Merge(db[r], db[r], PublishedRow(db[r])) = PublishedRow(db[r])
        <4>1. PublishedRow(db[r]) \in Row
          BY <1>1 DEF PublishedRow, Row, Statuses
        <4> QED BY <1>1, <4>1, ReviewedColumns, MergeUpToDate
      <3>4. r \notin Superseded(r, PublishedRow(db[r]).date)
        BY DEF Superseded, SameDate
      <3>5. db'[r] = PublishedRow(db[r])
        BY <1>1, <1>4, <2>1, <2>3, <3>3, <3>4 DEF PublishCommit, SInv, TInv, TypeOK
      <3> QED BY <3>2, <3>3, <3>5
    <2>4. CASE r # job[h].r
      BY <1>1, <1>2, <2>2, <2>4 DEF OnceAndKept
    <2> QED BY <2>3, <2>4
  <1> QED BY <1>3, <1>4, EventsMove

\* A report is published once: a second request finds it published.
THEOREM SerialOnce ==
    ASSUME "reconcile" \notin Ops
    PROVE  Spec /\ []Serially => []PublishedOnce
  <1>1. Init => OfOps /\ OnceAndKept
    BY DEF Init, OfOps, Busy, Idle, OnceAndKept
  <1>2. OnceAndKept => PublishedOnce
    BY DEF OnceAndKept, PublishedOnce
  <1>3. SInv => TInv
    BY DEF SInv
  <1>4. SInv /\ Serially /\ Serially' /\ OfOps /\ OnceAndKept /\ [Next]_vars => OnceAndKept'
    BY OnceKept
  <1> QED BY <1>1, <1>2, <1>3, <1>4, OpsKept, SerialReach, PTL DEF Spec

\* A step adds one row at most.
LEMMA FiniteMoves == SInv /\ Serially /\ FiniteRows /\ [Moves]_vars => FiniteRows'
  <1> SUFFICES ASSUME SInv, Serially, FiniteRows, [Moves]_vars PROVE FiniteRows'
    OBVIOUS
  <1> DEFINE Rows == {r \in Reports : Exists(r)}
  <1>1. CASE UNCHANGED vars
    BY <1>1 DEF vars, FiniteRows, Exists
  <1>2. CASE Moves
    <2>1. ASSUME NEW r \in Reports, db' = [db EXCEPT ![r] = FreshRow] PROVE FiniteRows'
      <3>1. Rows' = Rows \cup {r}
        BY <2>1 DEF SInv, TInv, TypeOK, Exists, FreshRow
      <3> QED BY <3>1, FS_AddElement DEF FiniteRows
    <2>2. CASE \A r \in Reports : Exists(r)' => Exists(r)
      <3>1. Rows' \subseteq Rows
        BY <2>2
      <3> QED BY <3>1, FS_Subset DEF FiniteRows
    <2>3. ASSUME NEW h \in Handlers, Busy(h), NEW new, db' = [db EXCEPT ![job[h].r] = new]
          PROVE  \A r \in Reports : Exists(r)' => Exists(r)
      BY <2>3, AtWork DEF SInv, TInv, TypeOK, Exists
    <2>4. ASSUME NEW h \in Handlers, At(h, "commit"), Publication(job[h].r)
          PROVE  \A r \in Reports : Exists(r)' => Exists(r)
      <3> DEFINE r == job[h].r
                 saved == [db EXCEPT ![r] = PublishedRow(db[r])]
      <3>1. Exists(r)
        BY <2>4, AtWork DEF At, Busy, Exists
      <3>2. \A q \in Reports \ {r} : saved[q] = db[q] /\ db[q] \in Row
        BY DEF SInv, TInv, TypeOK
      <3>3. \A q \in Reports \ {r} : db'[q] \in {saved[q], [saved[q] EXCEPT !.current = FALSE]}
        BY <2>4 DEF Publication
      <3> HIDE DEF saved
      <3>4. \A q \in Reports \ {r} : db'[q].status = db[q].status
        BY <3>2, <3>3 DEF Row
      <3> QED BY <3>1, <3>4 DEF Exists
    <2>5. CASE UNCHANGED db
      BY <2>2, <2>5 DEF Exists
    <2> QED BY <1>2, <2>1, <2>2, <2>3, <2>4, <2>5 DEF Moves
  <1> QED BY <1>1, <1>2

\* Of a finite set with at most one element, no two are different, and the
\* other way round.
LEMMA AtMostOne ==
    /\ \A S : (\A q, r \in S : q = r) => Cardinality(S) \in {0, 1}
    /\ \A S : IsFiniteSet(S) /\ Cardinality(S) <= 1 => \A q, r \in S : q = r
  <1>1. ASSUME NEW S, \A q, r \in S : q = r PROVE Cardinality(S) \in {0, 1}
    <2>1. CASE S = {}
      BY <2>1, FS_EmptySet
    <2>2. CASE S # {}
      <3>1. PICK q \in S : TRUE
        BY <2>2
      <3>2. S = {q}
        BY <1>1, <3>1
      <3>3. Cardinality({q}) = 1
        BY FS_Singleton
      <3> QED BY <3>2, <3>3
    <2> QED BY <2>1, <2>2
  <1>2. ASSUME NEW S, IsFiniteSet(S), Cardinality(S) <= 1, NEW q \in S, NEW r \in S PROVE q = r
    <2> SUFFICES ASSUME q # r PROVE FALSE
      OBVIOUS
    <2>1. /\ IsFiniteSet(S \ {q}) /\ IsFiniteSet((S \ {q}) \ {r})
          /\ Cardinality(S \ {q}) = Cardinality(S) - 1
          /\ Cardinality((S \ {q}) \ {r}) = Cardinality(S \ {q}) - 1
      BY <1>2, FS_RemoveElement
    <2>2. Cardinality((S \ {q}) \ {r}) \in Nat /\ Cardinality(S) \in Nat
      BY <1>2, <2>1, FS_CardinalityType
    <2> QED BY <1>2, <2>1, <2>2
  <1> QED BY <1>1, <1>2

\* Two published reports are current for one date only after the date of a
\* published one was edited: a publication makes the others give way (publish).
THEOREM SerialClashes ==
    ASSUME "reconcile" \notin Ops
    PROVE  Spec /\ []Serially => OnlyRedatingClashes
  <1> DEFINE Goes == \A d \in Dates : Cardinality(Shown(d)) <= 1 /\ Cardinality(Shown(d)') > 1 =>
          \E r \in Reports : Published(r) /\ db'[r].date # db[r].date
  <1>1. SInv /\ Serially /\ OfOps /\ FiniteRows /\ [Moves]_vars => [Goes]_vars
    <2> SUFFICES ASSUME SInv, Serially, OfOps, FiniteRows, Moves, NEW d \in Dates,
                        Cardinality(Shown(d)) <= 1,
                        \A r \in Reports : Published(r) => db'[r].date = db[r].date
                 PROVE  ~(Cardinality(Shown(d)') > 1)
      OBVIOUS
    <2>1. \A q, r \in Shown(d) : q = r
      <3>1. Shown(d) \subseteq {r \in Reports : Exists(r)}
        BY DEF Shown, Exists
      <3>2. IsFiniteSet(Shown(d))
        BY <3>1, FS_Subset DEF FiniteRows
      <3> QED BY <3>2, AtMostOne
    <2>2. ASSUME NEW q \in Shown(d)'
          PROVE  q \in Shown(d) \/ (Publication(q) /\ db'[q] = PublishedRow(db[q]))
      <3>1. /\ q \in Reports /\ db'[q].status = "published" /\ db'[q].current /\ db'[q].date = d
            /\ d # NoDate /\ db[q] \in Row
        BY <2>2, NoDateAssumption DEF Shown, SInv, TInv, TypeOK
      <3>2. CASE db'[q] = db[q]
        BY <3>1, <3>2 DEF Shown
      <3>3. CASE \E h \in Handlers : Busy(h) /\ Change(job[h], db[q], db'[q])
        BY <3>1, <3>3 DEF Change, OfOps, Shown, Published
      <3>4. CASE db'[q] = [db[q] EXCEPT !.current = FALSE]
        BY <3>1, <3>4 DEF Row
      <3> QED BY <3>1, <3>2, <3>3, <3>4, RowMoves
    <2>3. ASSUME NEW q \in Shown(d)', Publication(q), db'[q] = PublishedRow(db[q])
          PROVE  \A p \in Shown(d)' : p = q
      <3> SUFFICES ASSUME NEW p \in Shown(d)', p # q PROVE FALSE
        OBVIOUS
      <3>1. /\ p \in Reports /\ db'[p].status = "published" /\ db'[p].current /\ db'[p].date = d
            /\ d # NoDate /\ db[p] \in Row /\ q \in Reports /\ db[q] \in Row /\ db'[q].date = d
        BY NoDateAssumption DEF Shown, SInv, TInv, TypeOK
      <3>2. db[q].date = d /\ PublishedRow(db[q]).date = d
        BY <2>3, <3>1, ReviewedColumns
      <3> DEFINE saved == [db EXCEPT ![q] = PublishedRow(db[q])]
      <3>3. saved[p] = db[p]
        BY DEF SInv, TInv, TypeOK
      <3>4. db'[p] = IF p \in SameDate(q, d) THEN [saved[p] EXCEPT !.current = FALSE] ELSE saved[p]
        BY <2>3, <3>1, <3>2 DEF Publication, Superseded
      <3> HIDE DEF saved
      <3>5. p \notin SameDate(q, d)
        BY <3>1, <3>3, <3>4 DEF Row
      <3> QED BY <3>1, <3>3, <3>4, <3>5 DEF SameDate, Exists
    <2>4. \A p, q \in Shown(d)' : p = q
      BY <2>1, <2>2, <2>3
    <2>5. Cardinality(Shown(d)') \in {0, 1}
      BY <2>4, AtMostOne
    <2> QED BY <2>5
  <1>2. Init => OfOps /\ FiniteRows
    <2> SUFFICES ASSUME Init PROVE OfOps /\ FiniteRows
      OBVIOUS
    <2>1. OfOps
      BY DEF Init, OfOps, Busy, Idle
    <2>2. {r \in Reports : Exists(r)} = {}
      BY DEF Init, Exists, AbsentRow, FreshRow
    <2> QED BY <2>1, <2>2, FS_EmptySet DEF FiniteRows
  <1>3. SInv => TInv
    BY DEF SInv
  <1>4. Spec /\ []Serially => [][Goes]_vars
    BY <1>1, <1>2, <1>3, OpsKept, FiniteMoves, SerialReach, PTL DEF Spec
  <1> QED BY <1>4 DEF OnlyRedatingClashes

----------------------------------------------------------------------------
(* Requests that race.                                                      *)

\* The requests that change no fact of an interpreted report.  The others do, from
\* a copy that may be stale, and are where the properties below end.
RaceOps == {"upload", "upload_md", "publish", "withdraw", "ready", "term"}

\* Statuses of reports with and without facts.
Parsed   == {"needs_review", "blocked", "ready_to_publish", "published", "withdrawn"}
Unparsed == {"uploaded", "parsing", "parse_failed"}

\* A row that racing requests may leave.
Sound(row) == /\ row.status \in Parsed \cup Unparsed \cup {"absent"}
              /\ row.status \in Parsed => row.interp \in {"ready", "needs_attention"}
              /\ row.status = "published" => Vetted(row)
              /\ row.status \in Unparsed => ~row.meta.md

\* What an interpretation finds and nothing but an interpretation changes.
SameFacts(a, b) == /\ a.date = b.date /\ a.sure = b.sure /\ a.confirmed = b.confirmed
                   /\ a.complete = b.complete /\ a.meta = b.meta

\* Rows that no copy tells apart.
Alike(a, b) == a.status = b.status /\ a.interp = b.interp /\ SameFacts(a, b)

\* Steps at which an upload works on the facts.
Interpreting == {"parse", "apply", "extract", "hint", "structure"}

\* The steps of a request.
OnRoute(op, at) ==
    \/ op = "upload" /\ at \in {"parse", "extract", "hint", "structure", "auto", "promote",
                                "commit", "undo", "abort", "undone", "sync"}
    \/ op = "upload_md" /\ at \in {"apply", "auto", "promote", "commit", "undo", "abort", "sync"}
    \/ op = "publish" /\ at \in {"validate", "promote", "commit", "abort"}
    \/ op \in {"withdraw", "ready", "term"} /\ at = op

\* A copy may be stale in its status; its facts, once there are any, are not.
\* An interpretation works on the row as it is.
Follows(j, row) ==
    /\ OnRoute(j.op, j.at)
    /\ Sound(j.mine) /\ j.mine.status # "absent"
    /\ j.mine.status \in Parsed => row.status \in Parsed /\ SameFacts(j.mine, row)
    /\ j.at \in Interpreting => Alike(j.mine, row)
    /\ j.at \in {"parse", "apply", "extract"} => j.mine.status \in Unparsed
    /\ j.at \in {"hint", "structure"} => j.mine.status = "needs_review"
    /\ j.at \in {"auto", "undone"} => j.mine.status \in Parsed
    /\ j.at = "sync" => j.mine.status \in Parsed \cup {"parse_failed"}
    /\ j.at \in {"promote", "commit", "undo", "abort"} => Publishable(j.mine, TRUE)

\* One upload at a time; no other copy of what it interprets has facts yet.
OneUpload == \A g, h \in Handlers : job[g].op \in Uploads /\ job[h].op \in Uploads => g = h

Alone == \A g, h \in Handlers :
            (/\ g # h /\ Busy(g) /\ Busy(h)
             /\ job[h].at \in Interpreting /\ job[g].r = job[h].r)
                => job[g].mine.status \notin Parsed

\* One current published report for each date.
Unique == \A q, r \in Reports :
             (/\ db[q].status = "published" /\ db[q].current
              /\ db[r].status = "published" /\ db[r].current
              /\ db[q].date = db[r].date /\ db[q].date # NoDate) => q = r

\* Every copy follows its row.
Follow == \A h \in Handlers : Busy(h) =>
             /\ Follows(job[h], db[job[h].r])
             /\ Clear(job[h].op, job[h].at, job[h].r, job[h].mine)

\* The invariant of racing requests.
RInv == /\ TInv
        /\ \A r \in Reports : Sound(db[r])
        /\ Follow /\ OneUpload /\ Alone /\ Unique

----------------------------------------------------------------------------
(* Rows and copies.                                                         *)

\* A copy that follows a row follows every row alike.
LEMMA AlikeFollows ==
    ASSUME NEW j, NEW a, NEW b, Follows(j, a), Alike(a, b)
    PROVE  Follows(j, b)
  BY DEF Follows, Alike, SameFacts

\* Of a row that is flushed, the columns that were changed are written.
LEMMA MergedColumns ==
    ASSUME NEW saved, NEW loaded, NEW mine
    PROVE  LET new == Merge(saved, loaded, mine)
           IN  /\ new.status = IF mine.status # loaded.status THEN mine.status ELSE saved.status
               /\ new.interp = IF mine.interp # loaded.interp THEN mine.interp ELSE saved.interp
               /\ new.current = IF mine.current # loaded.current THEN mine.current ELSE saved.current
               /\ SameFacts(loaded, saved) => SameFacts(new, mine)
               /\ Alike(loaded, saved) => Alike(new, mine)
  <1> DEFINE new == Merge(saved, loaded, mine)
  <1>1. /\ new.status = IF mine.status # loaded.status THEN mine.status ELSE saved.status
        /\ new.interp = IF mine.interp # loaded.interp THEN mine.interp ELSE saved.interp
        /\ new.current = IF mine.current # loaded.current THEN mine.current ELSE saved.current
    BY DEF Merge
  <1>2. /\ new.date = IF mine.date # loaded.date THEN mine.date ELSE saved.date
        /\ new.sure = IF mine.sure # loaded.sure THEN mine.sure ELSE saved.sure
        /\ new.confirmed = IF mine.confirmed # loaded.confirmed THEN mine.confirmed ELSE saved.confirmed
        /\ new.complete = IF mine.complete # loaded.complete THEN mine.complete ELSE saved.complete
        /\ new.meta = IF mine.meta # loaded.meta THEN mine.meta ELSE saved.meta
    BY DEF Merge
  <1> HIDE DEF new
  <1>3. /\ SameFacts(loaded, saved) => SameFacts(new, mine)
        /\ Alike(loaded, saved) => Alike(new, mine)
    BY <1>1, <1>2 DEF SameFacts, Alike
  <1> QED BY <1>1, <1>3 DEF new

\* A rule that changes the status alone.
LEMMA SameFactsKept ==
    ASSUME NEW row \in Row
    PROVE  /\ \A status : SameFacts([row EXCEPT !.status = status], row)
           /\ SameFacts(ConflictRow(row), row)
           /\ SameFacts(PublishedRow(row), row)
           /\ SameFacts(ParseStarted(row), row)
           /\ SameFacts(ParseFailedRow(row), row)
           /\ \A known : SameFacts(ApplyState(row, known), row)
  <1>1. \A status : SameFacts([row EXCEPT !.status = status], row)
    BY DEF SameFacts, Row
  <1>2. SameFacts(ConflictRow(row), row) /\ SameFacts(PublishedRow(row), row)
    BY DEF SameFacts, Row, ConflictRow, PublishedRow
  <1>3. SameFacts(ParseStarted(row), row) /\ SameFacts(ParseFailedRow(row), row)
    BY DEF SameFacts, Row, ParseStarted, ParseFailedRow
  <1>4. \A known : SameFacts(ApplyState(row, known), row)
    BY <1>1 DEF ApplyState, SameFacts
  <1> QED BY <1>1, <1>2, <1>3, <1>4

\* Whether a row is vetted is a question of its facts.
LEMMA VettedFacts ==
    ASSUME NEW a, NEW b, SameFacts(a, b), Vetted(a) PROVE Vetted(b)
  BY DEF SameFacts, Vetted, Trusted, DateTrusted, HasBlocking

\* A handler at work.
LEMMA RaceWork ==
    ASSUME RInv, NEW h \in Handlers, Busy(h)
    PROVE  LET r == job[h].r IN
           /\ r \in Reports /\ db[r] \in Row /\ Exists(r) /\ Sound(db[r])
           /\ job[h] \in Job /\ job[h].mine \in Row
           /\ Follows(job[h], db[r])
           /\ Clear(job[h].op, job[h].at, r, job[h].mine)
  <1>1. HasReport(job[h]) /\ job[h] \in Job
    BY DEF RInv, TInv, CopiesHaveReports, TypeOK
  <1> QED BY <1>1 DEF RInv, TInv, TypeOK, HasReport, Follow, Job

\* Handlers other than an upload do not interpret, so that of two handlers the
\* one that interprets is the upload.
LEMMA OneInterprets ==
    ASSUME RInv, NEW g \in Handlers, NEW h \in Handlers, g # h, Busy(g), job[h].op \in Uploads
    PROVE  job[g].op \notin Uploads /\ job[g].at \notin Interpreting
  <1>1. job[g].op \notin Uploads
    BY DEF RInv, OneUpload
  <1>2. OnRoute(job[g].op, job[g].at)
    BY RaceWork DEF Follows
  <1> QED BY <1>1, <1>2 DEF OnRoute, Interpreting, Uploads

----------------------------------------------------------------------------
(* What a step may do to the invariant.                                     *)

\* The handler's job alone changes.
LEMMA RaceMove ==
    ASSUME RInv, TInv', NEW h \in Handlers, NEW j, job' = [job EXCEPT ![h] = j], UNCHANGED db,
           j.op \in Uploads => \A g \in Handlers \ {h} : job[g].op \notin Uploads,
           j.at # "idle" => /\ Follows(j, db[j.r]) /\ Clear(j.op, j.at, j.r, j.mine)
                            /\ \A g \in Handlers \ {h} : Busy(g) /\ job[g].r = j.r =>
                                  /\ j.at \in Interpreting => job[g].mine.status \notin Parsed
                                  /\ job[g].at \in Interpreting => j.mine.status \notin Parsed
    PROVE  RInv'
  <1>1. \A g \in Handlers : job'[g] = IF g = h THEN j ELSE job[g]
    BY DEF RInv, TInv, TypeOK
  <1>2. (\A r \in Reports : Sound(db[r]))' /\ Unique'
    BY DEF RInv, Unique
  <1>3. Follow'
    <2> SUFFICES ASSUME NEW g \in Handlers, Busy(g)'
                 PROVE  /\ Follows(job'[g], db'[job'[g].r])
                        /\ Clear(job[g].op, job[g].at, job[g].r, job[g].mine)'
      BY DEF Follow
    <2>1. CASE g = h
      <3>1. job'[g] = j /\ j.at # "idle"
        BY <1>1, <2>1 DEF Busy
      <3> QED BY <3>1 DEF Clear, SameDate, Exists
    <2>2. CASE g # h
      <3>1. job'[g] = job[g] /\ Busy(g)
        BY <1>1, <2>2 DEF Busy
      <3> QED BY <3>1 DEF Clear, SameDate, Exists, RInv, Follow
    <2> QED BY <2>1, <2>2
  <1>4. OneUpload'
    BY <1>1 DEF OneUpload, RInv
  <1>5. Alone'
    BY <1>1 DEF Alone, RInv, Busy
  <1> QED BY <1>2, <1>3, <1>4, <1>5 DEF RInv

\* A step of a handler that writes no row.
LEMMA RaceGoto ==
    ASSUME RInv, TInv', NEW h \in Handlers, Busy(h), NEW step, Goto(h, step), UNCHANGED db,
           step # "idle" =>
              LET j == [job[h] EXCEPT !.at = step]
              IN  /\ Follows(j, db[job[h].r]) /\ Clear(job[h].op, step, job[h].r, job[h].mine)
                  /\ step \in Interpreting => job[h].at \in Interpreting
    PROVE  RInv'
  <1> DEFINE j == IF step = "idle" THEN Idle ELSE [job[h] EXCEPT !.at = step]
  <1>1. job[h] \in Job
    BY RaceWork
  <1>2. /\ step # "idle" => /\ j.at = step /\ j.op = job[h].op /\ j.r = job[h].r /\ j.mine = job[h].mine
                            /\ Follows(j, db[j.r])
        /\ step = "idle" => j.at = "idle" /\ j.op = "none"
    BY <1>1 DEF Job, Idle
  <1>3. job' = [job EXCEPT ![h] = j]
    BY DEF Goto
  <1> HIDE DEF j
  <1>4. ASSUME j.op \in Uploads, NEW g \in Handlers \ {h} PROVE job[g].op \notin Uploads
    BY <1>2, <1>4 DEF RInv, OneUpload, Uploads
  <1>5. ASSUME j.at # "idle", NEW g \in Handlers \ {h}, Busy(g), job[g].r = j.r
        PROVE  /\ j.at \in Interpreting => job[g].mine.status \notin Parsed
               /\ job[g].at \in Interpreting => j.mine.status \notin Parsed
    BY <1>2, <1>5 DEF RInv, Alone
  <1> QED BY <1>2, <1>3, <1>4, <1>5, RaceMove

\* It reads its row again: it had facts, and has them still.
LEMMA RaceReload ==
    ASSUME RInv, TInv', NEW h \in Handlers, Busy(h), job[h].mine.status \in Parsed,
           NEW step \in {"sync", "undone", "idle"}, Reload(h, step), UNCHANGED db,
           step = "sync" => job[h].op \in Uploads,
           step = "undone" => job[h].op = "upload"
    PROVE  RInv'
  <1> DEFINE j == IF step = "idle" THEN Idle ELSE [job[h] EXCEPT !.at = step, !.mine = db[job[h].r]]
  <1>1. job[h] \in Job /\ Sound(db[job[h].r]) /\ Follows(job[h], db[job[h].r]) /\ db[job[h].r] \in Row
    BY RaceWork
  <1>2. /\ step # "idle" => /\ j.at = step /\ j.op = job[h].op /\ j.r = job[h].r
                            /\ j.mine = db[job[h].r]
        /\ step = "idle" => j.at = "idle" /\ j.op = "none"
    BY <1>1 DEF Job, Idle
  <1>3. job' = [job EXCEPT ![h] = j]
    BY DEF Reload
  <1> HIDE DEF j
  <1>4. step # "idle" => Follows(j, db[j.r]) /\ Clear(j.op, j.at, j.r, j.mine)
    <2> SUFFICES ASSUME step # "idle" PROVE Follows(j, db[j.r]) /\ Clear(j.op, j.at, j.r, j.mine)
      OBVIOUS
    <2>1. /\ db[j.r].status \in Parsed /\ j.mine = db[j.r] /\ j.at \in {"sync", "undone"}
          /\ j.op \in Uploads /\ (j.at = "undone" => j.op = "upload")
      BY <1>1, <1>2 DEF Follows, Uploads
    <2>2. SameFacts(j.mine, db[j.r]) /\ Sound(j.mine) /\ j.mine.status # "absent"
      BY <1>1, <1>2, <2>1 DEF SameFacts, Parsed
    <2> QED BY <2>1, <2>2 DEF Follows, Clear, OnRoute, Uploads, Interpreting
  <1>5. ASSUME j.op \in Uploads, NEW g \in Handlers \ {h} PROVE job[g].op \notin Uploads
    BY <1>2, <1>5 DEF RInv, OneUpload, Uploads
  <1>6. ASSUME j.at # "idle", NEW g \in Handlers \ {h}, Busy(g), job[g].r = j.r
        PROVE  /\ j.at \in Interpreting => job[g].mine.status \notin Parsed
               /\ job[g].at \in Interpreting => j.mine.status \notin Parsed
    BY <1>2, <1>6, OneInterprets DEF Interpreting, Uploads
  <1> QED BY <1>2, <1>3, <1>4, <1>5, <1>6, RaceMove

\* What a step of a handler at j other than a publication may do to its row.
Alters(j, row, new) ==
    /\ new \in Row /\ Sound(new) /\ new.status # "absent" /\ new.current = row.current
    /\ row.status \in Parsed => /\ new.status \in Parsed
                                /\ SameFacts(row, new) \/ j.at \in Interpreting
    /\ j.op \notin Uploads /\ j.mine.status \notin Parsed => Alike(row, new)
    /\ new.status = "published" => row.status = "published"

\* A step that writes the handler's row.
LEMMA RaceWrite ==
    ASSUME RInv, TInv', NEW h \in Handlers, Busy(h), NEW j, job' = [job EXCEPT ![h] = j],
           NEW new, Alters(job[h], db[job[h].r], new), db' = [db EXCEPT ![job[h].r] = new],
           \/ j = Idle
           \/ /\ job[h].op \in Uploads /\ j.op = job[h].op /\ j.r = job[h].r
              /\ Follows(j, new) /\ j.at \notin {"promote", "commit"}
              /\ j.at \in Interpreting => job[h].at \in Interpreting
    PROVE  RInv'
  <1> DEFINE r == job[h].r
             row == db[r]
  <1>1. \A g \in Handlers : job'[g] = IF g = h THEN j ELSE job[g]
    BY DEF RInv, TInv, TypeOK
  <1>2. r \in Reports /\ row \in Row /\ Exists(r) /\ Sound(row) /\ Follows(job[h], row)
    BY RaceWork
  <1>3. \A q \in Reports : db'[q] = IF q = r THEN new ELSE db[q]
    BY DEF RInv, TInv, TypeOK
  <1> HIDE DEF r, row
  <1>4. \A q \in Reports : Sound(db'[q])
    BY <1>3 DEF Alters, RInv
  <1>5. row.status \in Parsed \cup Unparsed
    BY <1>2 DEF Sound, Exists, row
  <1>6. new.status = "published" => row.status = "published" /\ SameFacts(row, new)
    <2> SUFFICES ASSUME new.status = "published" PROVE row.status = "published" /\ SameFacts(row, new)
      OBVIOUS
    <2>1. row.status = "published" /\ "published" \in Parsed
      BY DEF Alters, r, row, Parsed
    <2>2. job[h].at \notin Interpreting
      BY <1>2, <2>1 DEF Follows, Alike, Interpreting, Unparsed
    <2> QED BY <2>1, <2>2 DEF Alters, r, row
  <1>7. Unique'
    <2>1. \A q \in Reports : db'[q].status = "published" =>
             /\ db[q].status = "published" /\ db'[q].date = db[q].date
             /\ db'[q].current = db[q].current
      BY <1>3, <1>6 DEF Alters, SameFacts, r, row
    <2> QED BY <2>1 DEF RInv, Unique
  <1>8. OneUpload'
    BY <1>1 DEF RInv, OneUpload, Idle, Uploads
  <1>9. Alone'
    <2> SUFFICES ASSUME NEW f \in Handlers, NEW g \in Handlers, f # g, Busy(f)', Busy(g)',
                        job'[g].at \in Interpreting, job'[f].r = job'[g].r
                 PROVE  job'[f].mine.status \notin Parsed
      BY DEF Alone
    <2>1. CASE g = h
      <3>1. job'[g] = j /\ job'[f] = job[f] /\ Busy(f) /\ j.at # "idle"
        BY <1>1, <2>1 DEF Busy
      <3>2. j.r = r /\ job[h].at \in Interpreting
        BY <2>1, <3>1 DEF Idle, Interpreting, r
      <3> QED BY <2>1, <3>1, <3>2 DEF RInv, Alone, r
    <2>2. CASE f = h
      <3>1. job'[f] = j /\ job'[g] = job[g] /\ Busy(g) /\ j.at # "idle"
        BY <1>1, <2>2 DEF Busy
      <3>2. job[h].op \in Uploads
        BY <3>1 DEF Idle
      <3> QED BY <2>2, <3>1, <3>2, OneInterprets
    <2>3. CASE f # h /\ g # h
      BY <1>1, <2>3 DEF RInv, Alone, Busy
    <2> QED BY <2>1, <2>2, <2>3
  <1>10. ASSUME NEW g \in Handlers, g # h, Busy(g) PROVE Follows(job[g], db'[job[g].r])
    <2>1. Follows(job[g], db[job[g].r]) /\ job[g].r \in Reports
      BY <1>10, RaceWork
    <2>2. CASE job[g].r # r
      BY <1>3, <2>1, <2>2
    <2>3. CASE job[g].r = r
      <3>1. db'[job[g].r] = new /\ Follows(job[g], row)
        BY <1>2, <1>3, <2>1, <2>3 DEF row
      <3>2. CASE row.status \in Parsed
        <4>1. new.status \in Parsed
          BY <3>2 DEF Alters, r, row
        <4>2. job[g].mine.status \in Parsed => SameFacts(job[g].mine, new)
          <5> SUFFICES ASSUME job[g].mine.status \in Parsed PROVE SameFacts(job[g].mine, new)
            OBVIOUS
          <5>1. job[h].at \notin Interpreting
            BY <1>10, <2>3 DEF RInv, Alone, r
          <5>2. SameFacts(row, new)
            BY <3>2, <5>1 DEF Alters, r, row
          <5> QED BY <3>1, <5>2 DEF Follows, SameFacts
        <4>3. job[g].at \in Interpreting => Alike(job[g].mine, new)
          <5> SUFFICES ASSUME job[g].at \in Interpreting PROVE Alike(job[g].mine, new)
            OBVIOUS
          <5>1. job[h].op \notin Uploads
            BY <1>10, OneInterprets
          <5>2. job[h].mine.status \notin Parsed
            BY <1>10, <2>3 DEF RInv, Alone, r
          <5>3. Alike(row, new)
            BY <5>1, <5>2 DEF Alters, r, row
          <5> QED BY <3>1, <5>3 DEF Follows, Alike, SameFacts
        <4> QED BY <3>1, <4>1, <4>2, <4>3 DEF Follows
      <3>3. CASE row.status \in Unparsed
        <4>1. job[g].mine.status \notin Parsed
          BY <3>1, <3>3 DEF Follows, Parsed, Unparsed
        <4>2. job[g].at \in Interpreting => Alike(row, new)
          <5>1. job[h].mine.status \notin Parsed
            BY <1>2, <3>3 DEF Follows, Parsed, Unparsed
          <5> QED BY <1>10, <5>1, OneInterprets DEF Alters, r, row
        <4>3. job[g].at \in Interpreting => Alike(job[g].mine, new)
          BY <3>1, <4>2 DEF Follows, Alike, SameFacts
        <4> QED BY <3>1, <4>1, <4>3 DEF Follows
      <3> QED BY <1>5, <3>2, <3>3
    <2> QED BY <2>2, <2>3
  <1>11. ASSUME NEW g \in Handlers, g # h, Busy(g)
         PROVE  Clear(job[g].op, job[g].at, job[g].r, job[g].mine)'
    <2>1. job'[g] = job[g] /\ Clear(job[g].op, job[g].at, job[g].r, job[g].mine)
      BY <1>1, <1>11 DEF RInv, Follow
    <2> SUFFICES ASSUME job[g].op \in Uploads, job[g].at \in {"promote", "commit"},
                        NEW q \in Reports
                 PROVE  db'[q].date = db[q].date /\ (Exists(q)' => Exists(q))
      BY <2>1 DEF Clear, SameDate
    <2>2. job[h].op \notin Uploads /\ job[h].at \notin Interpreting
      BY <1>11, OneInterprets
    <2>3. SameFacts(row, new)
      <3>1. CASE job[h].mine.status \in Parsed
        BY <1>2, <2>2, <3>1 DEF Follows, Alters, r, row
      <3>2. CASE job[h].mine.status \notin Parsed
        BY <2>2, <3>2 DEF Alters, Alike, r, row
      <3> QED BY <3>1, <3>2
    <2> QED BY <1>2, <1>3, <2>3 DEF SameFacts, Exists, row
  <1>12. Follow'
    <2> SUFFICES ASSUME NEW g \in Handlers, Busy(g)'
                 PROVE  /\ Follows(job'[g], db'[job'[g].r])
                        /\ Clear(job[g].op, job[g].at, job[g].r, job[g].mine)'
      BY DEF Follow
    <2>1. CASE g = h
      <3>1. job'[g] = j /\ j.at # "idle"
        BY <1>1, <2>1 DEF Busy
      <3>2. j.r = r /\ Follows(j, new) /\ j.at \notin {"promote", "commit"}
        BY <3>1 DEF Idle, r
      <3> QED BY <1>2, <1>3, <3>1, <3>2 DEF Clear
    <2>2. CASE g # h
      <3>1. job'[g] = job[g] /\ Busy(g)
        BY <1>1, <2>2 DEF Busy
      <3> QED BY <1>10, <1>11, <2>2, <3>1
    <2> QED BY <2>1, <2>2
  <1> QED BY <1>4, <1>7, <1>8, <1>9, <1>12 DEF RInv

\* An interpretation commits a row and goes on.
LEMMA RaceInterpret ==
    ASSUME RInv, TInv', NEW h \in Handlers, Busy(h), job[h].at \in Interpreting,
           NEW row \in Row, Sound(row), row.status \notin {"absent", "published"},
           row.current = job[h].mine.current,
           job[h].mine.status \in Parsed => row.status \in Parsed,
           NEW step \in {"extract", "hint", "structure", "auto", "sync"}, Save(h, row, step),
           OnRoute(job[h].op, step),
           step = "extract" => row.status = "parsing",
           step \in {"hint", "structure"} => row.status = "needs_review",
           step \in {"auto", "sync"} => row.status \in Parsed
    PROVE  RInv'
  <1> DEFINE r == job[h].r
             new == Merge(db[r], job[h].mine, row)
             j == [job[h] EXCEPT !.at = step, !.mine = row]
  <1>1. /\ r \in Reports /\ db[r] \in Row /\ job[h].mine \in Row /\ job[h] \in Job
        /\ Follows(job[h], db[r])
    BY RaceWork
  <1>2. /\ j.at = step /\ j.op = job[h].op /\ j.r = r /\ j.mine = row
        /\ job' = [job EXCEPT ![h] = j] /\ db' = [db EXCEPT ![r] = new]
    BY <1>1 DEF Job, Save
  <1>3. /\ new \in Row /\ Alike(new, row)
        /\ new.current = IF row.current # job[h].mine.current THEN row.current ELSE db[r].current
    BY <1>1, MergeIsRow, MergedColumns DEF Follows
  <1> HIDE DEF j, new, r
  <1>4. Sound(new) /\ new.status = row.status /\ new.current = db[r].current
    BY <1>3 DEF Sound, Alike, SameFacts, Parsed, Vetted
  <1>5. job[h].op \in Uploads
    BY <1>1 DEF Follows, OnRoute, Interpreting, Uploads
  <1>6. db[r].status = job[h].mine.status
    BY <1>1 DEF Follows, Alike
  <1>7. Alters(job[h], db[r], new)
    BY <1>3, <1>4, <1>5, <1>6 DEF Alters
  <1>8. Follows(j, row)
    BY <1>2 DEF Follows, Alike, SameFacts, Parsed, Unparsed
  <1>9. Follows(j, new)
    BY <1>3, <1>8, AlikeFollows DEF Alike, SameFacts
  <1> QED BY <1>2, <1>5, <1>7, <1>9, RaceWrite DEF r

\* A copy that has facts changes the status and is done.
LEMMA RaceUpdate ==
    ASSUME RInv, TInv', NEW h \in Handlers, Busy(h), job[h].at \notin Interpreting,
           NEW copy \in Row, copy.status \in Parsed, SameFacts(copy, db[job[h].r]),
           NEW row \in Row, SameFacts(row, copy), row.current = copy.current,
           row.interp \in {"ready", "needs_attention"},
           row.status \in Parsed, row.status = "published" => copy.status = "published",
           db[job[h].r].status \in Parsed,
           job[h].op \in Uploads \/ job[h].mine.status \in Parsed,
           db' = [db EXCEPT ![job[h].r] = Merge(@, copy, row)], job' = [job EXCEPT ![h] = Idle]
    PROVE  RInv'
  <1> DEFINE r == job[h].r
             new == Merge(db[r], copy, row)
  <1>1. r \in Reports /\ db[r] \in Row /\ Sound(db[r])
    BY RaceWork
  <1>2. /\ new \in Row /\ SameFacts(new, row)
        /\ new.status = IF row.status # copy.status THEN row.status ELSE db[r].status
        /\ new.interp = IF row.interp # copy.interp THEN row.interp ELSE db[r].interp
        /\ new.current = IF row.current # copy.current THEN row.current ELSE db[r].current
    BY <1>1, MergeIsRow, MergedColumns
  <1>3. db' = [db EXCEPT ![r] = new]
    OBVIOUS
  <1> HIDE DEF r, new
  <1>4. SameFacts(db[r], new)
    BY <1>2 DEF SameFacts, r
  <1>5. new.status \in Parsed /\ (new.status = "published" => db[r].status = "published")
    BY <1>2 DEF r
  <1>6. new.interp \in {"ready", "needs_attention"}
    BY <1>1, <1>2 DEF Sound, r
  <1>7. new.status = "published" => Vetted(new)
    BY <1>1, <1>4, <1>5, VettedFacts DEF Sound
  <1>8. Sound(new)
    BY <1>5, <1>6, <1>7 DEF Sound, Parsed, Unparsed
  <1>9. Alters(job[h], db[r], new)
    BY <1>2, <1>4, <1>5, <1>8 DEF Alters, Parsed
  <1> QED BY <1>3, <1>9, RaceWrite DEF r

----------------------------------------------------------------------------
(* The actions.                                                             *)

\* A request begins with a copy of the row; an upload finds no other upload.
LEMMA RaceRequest ==
    ASSUME RInv, TInv', NEW h \in Handlers, Request(h), Ops \subseteq RaceOps
    PROVE  RInv'
  <1> PICK op \in Ops, r \in Reports :
         Begin(h, op, r) \/ UploadNew(h, op, r) \/ UploadDuplicate(h, op, r)
    BY DEF Request
  <1>0. op \in RaceOps /\ db[r] \in Row /\ Sound(db[r])
    BY DEF RInv, TInv, TypeOK
  <1>1. ASSUME NEW at, Exists(r), at \in {"parse", "auto", "validate", "withdraw", "ready", "term", "sync"},
               LoopFree, OnRoute(op, at),
               at = "parse" => db[r].status \in Unparsed,
               at \in {"auto", "sync"} => db[r].status \in Parsed,
               job' = [job EXCEPT ![h] = [op |-> op, at |-> at, r |-> r, mine |-> db[r]]],
               UNCHANGED db
        PROVE  RInv'
    <2> DEFINE j == [op |-> op, at |-> at, r |-> r, mine |-> db[r]]
    <2>1. j.op = op /\ j.at = at /\ j.r = r /\ j.mine = db[r]
      OBVIOUS
    <2>2. job' = [job EXCEPT ![h] = j]
      BY <1>1
    <2> HIDE DEF j
    <2>3. SameFacts(db[r], db[r]) /\ Alike(db[r], db[r])
      BY DEF SameFacts, Alike
    <2>4. Follows(j, db[r])
      BY <1>0, <1>1, <2>1, <2>3 DEF Follows, Exists
    <2>5. Clear(j.op, j.at, j.r, j.mine)
      BY <1>1, <2>1 DEF Clear
    <2>6. \A g \in Handlers : job[g].op \notin Uploads
      BY <1>1 DEF LoopFree
    <2>7. ASSUME NEW g \in Handlers \ {h}, Busy(g), job[g].r = r
          PROVE  /\ j.at \in Interpreting => job[g].mine.status \notin Parsed
                 /\ job[g].at \notin Interpreting
      <3>1. Follows(job[g], db[r])
        BY <2>7, RaceWork
      <3>2. job[g].at \notin Interpreting
        BY <2>6, <2>7, <3>1 DEF Follows, OnRoute, Interpreting, Uploads
      <3>3. j.at \in Interpreting => db[r].status \notin Parsed
        BY <1>1, <2>1 DEF Interpreting, Parsed, Unparsed
      <3> QED BY <3>1, <3>2, <3>3 DEF Follows
    <2> QED BY <1>1, <2>1, <2>2, <2>4, <2>5, <2>6, <2>7, RaceMove
  <1>2. CASE Begin(h, op, r)
    <2>1. FirstStep(op) \in {"validate", "withdraw", "ready", "term"} /\ OnRoute(op, FirstStep(op))
      BY <1>0, <1>2 DEF Begin, FirstStep, RaceOps, Uploads, OnRoute
    <2>2. LoopFree
      BY <1>0, <1>2 DEF Begin, RaceOps
    <2> QED BY <1>1, <1>2, <2>1, <2>2 DEF Begin
  <1>3. CASE UploadDuplicate(h, op, r)
    <2> DEFINE at == IF op = "upload_md"
                     THEN IF AutoPublish /\ db[r].status # "published" THEN "auto" ELSE "sync"
                     ELSE IF db[r].status \in {"uploaded", "parsing", "parse_failed"}
                          THEN "parse" ELSE "sync"
    <2>1. at \in {"parse", "auto", "sync"} /\ OnRoute(op, at)
      BY <1>3 DEF UploadDuplicate, Uploads, OnRoute
    <2>2. at = "parse" => db[r].status \in Unparsed
      BY DEF Unparsed
    <2>3. at \in {"auto", "sync"} => db[r].status \in Parsed
      BY <1>0, <1>3 DEF UploadDuplicate, Exists, Sound, Unparsed
    <2>4. job' = [job EXCEPT ![h] = [op |-> op, at |-> at, r |-> r, mine |-> db[r]]]
      BY <1>3 DEF UploadDuplicate
    <2> HIDE DEF at
    <2> QED BY <1>1, <1>3, <2>1, <2>2, <2>3, <2>4 DEF UploadDuplicate
  <1>4. CASE UploadNew(h, op, r)
    <2> DEFINE j == [op |-> op, r |-> r, mine |-> FreshRow,
                     at |-> IF op = "upload" THEN "parse" ELSE "apply"]
    <2>1. /\ j.at \in {"parse", "apply"} /\ j.r = r /\ j.mine = FreshRow /\ j.op = op
          /\ OnRoute(op, j.at)
      BY <1>4 DEF OnRoute, UploadNew, Uploads
    <2> HIDE DEF j
    <2>2. /\ job' = [job EXCEPT ![h] = j] /\ LoopFree
          /\ db' = [db EXCEPT ![r] = FreshRow] /\ ~Exists(r)
      BY <1>4 DEF UploadNew, j
    <2>3. /\ FreshRow.status = "uploaded" /\ ~FreshRow.meta.md
          /\ SameFacts(FreshRow, FreshRow) /\ Alike(FreshRow, FreshRow)
      BY DEF FreshRow, SameFacts, Alike
    <2>4. Sound(FreshRow)
      BY <2>3 DEF Sound, Parsed, Unparsed
    <2>5. Follows(j, FreshRow) /\ \A q, row : Clear(j.op, j.at, q, row)
      BY <2>1, <2>3, <2>4 DEF Follows, Parsed, Unparsed, Clear
    <2>6. \A q \in Reports : db'[q] = IF q = r THEN FreshRow ELSE db[q]
      BY <2>2 DEF RInv, TInv, TypeOK
    <2>7. \A g \in Handlers : job'[g] = IF g = h THEN j ELSE job[g]
      BY <2>2 DEF RInv, TInv, TypeOK
    <2>8. \A g \in Handlers : job[g].op \notin Uploads
      BY <2>2 DEF LoopFree
    <2>9. \A g \in Handlers : Busy(g) => /\ job[g].r # r /\ job[g].r \in Reports
                                         /\ job[g].at \notin Interpreting
      <3> SUFFICES ASSUME NEW g \in Handlers, Busy(g)
                   PROVE  /\ job[g].r # r /\ job[g].r \in Reports
                          /\ job[g].at \notin Interpreting
        OBVIOUS
      <3>1. Exists(job[g].r) /\ Follows(job[g], db[job[g].r]) /\ job[g].r \in Reports
        BY RaceWork
      <3> QED BY <2>2, <2>8, <3>1 DEF Follows, OnRoute, Interpreting, Uploads
    <2>10. (\A q \in Reports : Sound(db[q]))'
      BY <2>4, <2>6 DEF RInv
    <2>11. Follow'
      <3> SUFFICES ASSUME NEW g \in Handlers, Busy(g)'
                   PROVE  /\ Follows(job'[g], db'[job'[g].r])
                          /\ Clear(job[g].op, job[g].at, job[g].r, job[g].mine)'
        BY DEF Follow
      <3>1. CASE g = h
        BY <2>1, <2>5, <2>6, <2>7, <3>1 DEF Clear
      <3>2. CASE g # h
        <4>1. job'[g] = job[g] /\ Busy(g)
          BY <2>7, <3>2 DEF Busy
        <4>2. db'[job[g].r] = db[job[g].r]
          BY <2>6, <2>9, <4>1
        <4> QED BY <2>8, <4>1, <4>2 DEF RInv, Follow, Clear
      <3> QED BY <3>1, <3>2
    <2>12. OneUpload'
      BY <2>7, <2>8 DEF OneUpload
    <2>13. Alone'
      BY <2>1, <2>7, <2>9 DEF Alone, Busy
    <2>14. Unique'
      BY <2>3, <2>6 DEF RInv, Unique
    <2> QED BY <2>10, <2>11, <2>12, <2>13, <2>14 DEF RInv
  <1> QED BY <1>2, <1>3, <1>4

\* The upload interprets its file, while others hold copies without facts.
LEMMA RaceInterpretation ==
    ASSUME RInv, TInv', NEW h \in Handlers,
           \/ ParseStart(h) \/ ParseEnd(h) \/ ParseFail(h) \/ ApplyMd(h)
           \/ CheckHint(h) \/ ParseStructure(h)
    PROVE  RInv'
  <1> DEFINE r == job[h].r
             mine == job[h].mine
             op == job[h].op
  <1>1. Busy(h) /\ job[h].at \in Interpreting
    BY DEF ParseStart, ParseEnd, ParseFail, ApplyMd, CheckHint, ParseStructure, At, Busy,
           Interpreting
  <1>2. /\ r \in Reports /\ db[r] \in Row /\ Exists(r) /\ Sound(db[r])
        /\ job[h] \in Job /\ mine \in Row /\ Follows(job[h], db[r])
    BY <1>1, RaceWork
  <1>3. /\ OnRoute(op, job[h].at) /\ Sound(mine) /\ mine.status # "absent" /\ Alike(mine, db[r])
        /\ job[h].at \in {"parse", "apply", "extract"} => mine.status \in Unparsed
        /\ job[h].at \in {"hint", "structure"} => mine.status = "needs_review"
    BY <1>1, <1>2 DEF Follows
  <1> HIDE DEF r, mine, op
  <1>4. CASE ParseStart(h)
    <2>1. job[h].at = "parse" /\ op = "upload" /\ mine.status \in Unparsed
      BY <1>3, <1>4 DEF ParseStart, At, OnRoute
    <2>2. CASE CanStartParse(mine)
      <3>1. ParseStarted(mine) \in Row /\ ParseStarted(mine).status = "parsing"
            /\ ParseStarted(mine).current = mine.current
            /\ ParseStarted(mine).meta = mine.meta
        BY <1>2, <1>3, ParsingKeeps, ParsedColumns, SameFactsKept DEF Keeps, SameFacts
      <3>2. Sound(ParseStarted(mine))
        BY <1>3, <2>1, <3>1 DEF Sound, Parsed, Unparsed
      <3>3. Save(h, ParseStarted(mine), "extract")
        BY <1>4, <2>2 DEF ParseStart, mine
      <3>4. mine.status \notin Parsed /\ OnRoute(op, "extract")
        BY <2>1 DEF Parsed, Unparsed, OnRoute
      <3> QED BY <1>1, <3>1, <3>2, <3>3, <3>4, RaceInterpret DEF mine, op
    <2>3. CASE ~CanStartParse(mine)
      <3>1. mine.status \in {"uploaded", "parsing", "parse_failed"}
        BY <2>1 DEF Unparsed
      <3> QED BY <2>3, <3>1 DEF CanStartParse, CanTransition, AllowedTransitions, Statuses
    <2> QED BY <2>2, <2>3
  <1>5. CASE ParseEnd(h)
    <2>1. op = "upload" /\ mine.status \in Unparsed
      BY <1>3, <1>5 DEF ParseEnd, At, OnRoute
    <2>2. PICK found \in ParseOutcomes : Save(h, ParsedRow(mine, found), "hint")
      BY <1>5, <2>1 DEF ParseEnd, mine, op
    <2> DEFINE row == ParsedRow(mine, found)
    <2>3. /\ row \in Row /\ row.status = "needs_review" /\ row.current = mine.current
          /\ row.interp \in {"ready", "needs_attention"}
      BY <1>2, <1>3, ConfigAssumption, ParsingKeeps, ParsedColumns DEF Keeps
    <2> HIDE DEF row
    <2>4. Sound(row) /\ OnRoute(op, "hint") /\ row.status \in Parsed
      BY <2>1, <2>3 DEF Sound, Parsed, Unparsed, OnRoute
    <2>5. Save(h, row, "hint")
      BY <2>2 DEF row
    <2> QED BY <1>1, <2>3, <2>4, <2>5, RaceInterpret DEF mine, op
  <1>6. CASE ParseFail(h)
    <2>1. op = "upload" /\ db[r].status \in Unparsed
      BY <1>3, <1>6 DEF ParseFail, At, OnRoute, Alike
    <2> DEFINE failed == ParseFailedRow(db[r])
               j == [job[h] EXCEPT !.at = "sync", !.mine = failed]
    <2>2. db' = [db EXCEPT ![r] = failed] /\ job' = [job EXCEPT ![h] = j]
      BY <1>6, <2>1 DEF ParseFail, r, op
    <2>3. j.at = "sync" /\ j.op = op /\ j.r = r /\ j.mine = failed
      BY <1>2 DEF Job, r, op
    <2>4. /\ failed \in Row /\ failed.status = "parse_failed" /\ failed.current = db[r].current
          /\ failed.meta = db[r].meta
      BY <1>2, ParsingKeeps, ParsedColumns, SameFactsKept DEF Keeps, SameFacts, Exists
    <2> HIDE DEF failed, j
    <2>5. Sound(failed)
      BY <1>2, <2>1, <2>4 DEF Sound, Parsed, Unparsed
    <2>6. Alters(job[h], db[r], failed)
      BY <2>1, <2>4, <2>5 DEF Alters, Parsed, Unparsed, op, Uploads
    <2>7. Follows(j, failed)
      BY <2>1, <2>3, <2>4, <2>5 DEF Follows, OnRoute, Parsed, Interpreting
    <2>8. j.at \notin Interpreting /\ op \in Uploads
      BY <2>1, <2>3 DEF Interpreting, Uploads
    <2> QED BY <1>1, <2>2, <2>3, <2>6, <2>7, <2>8, RaceWrite DEF r, op
  <1>7. CASE ApplyMd(h)
    <2>1. op = "upload_md" /\ mine.status \in Unparsed
      BY <1>3, <1>7 DEF ApplyMd, At, OnRoute
    <2>2. PICK date \in Dates, step \in {"auto", "sync"} : Save(h, MdRow(mine, date), step)
      BY <1>7 DEF ApplyMd, mine
    <2> DEFINE row == MdRow(mine, date)
    <2>3. /\ row \in Row /\ row.status = "needs_review" /\ row.current = mine.current
          /\ row.interp = "ready"
      BY <1>2, <1>3, ParsingKeeps, ParsedColumns DEF Keeps
    <2> HIDE DEF row
    <2>4. Sound(row) /\ OnRoute(op, step) /\ row.status \in Parsed
      BY <2>1, <2>3 DEF Sound, Parsed, Unparsed, OnRoute
    <2>5. Save(h, row, step)
      BY <2>2 DEF row
    <2> QED BY <1>1, <2>3, <2>4, <2>5, RaceInterpret DEF mine, op
  <1>8. CASE CheckHint(h)
    <2>1. /\ op = "upload" /\ mine.status = "needs_review" /\ "needs_review" \in Parsed
          /\ job[h].at = "hint"
      BY <1>3, <1>8 DEF CheckHint, At, OnRoute, Parsed
    <2>2. OnRoute(op, "structure") /\ "structure" \in Interpreting
      BY <2>1 DEF OnRoute, Interpreting
    <2>3. CASE Save(h, HintRefused(mine), "structure")
      <3> DEFINE row == HintRefused(mine)
      <3>1. /\ row \in Row /\ row.status = "needs_review" /\ row.current = mine.current
            /\ row.interp = "needs_attention"
        BY <1>2, <1>3, <2>1, ParsingKeeps, ParsedColumns DEF Keeps
      <3>2. Save(h, row, "structure")
        BY <2>3
      <3> HIDE DEF row
      <3>3. Sound(row)
        BY <3>1 DEF Sound, Parsed, Unparsed
      <3> QED BY <1>1, <2>1, <2>2, <3>1, <3>2, <3>3, RaceInterpret DEF mine, op
    <2>4. CASE Goto(h, "structure") /\ UNCHANGED db
      <3> DEFINE j == [job[h] EXCEPT !.at = "structure"]
      <3>1. j.at = "structure" /\ j.op = op /\ j.mine = mine
        BY <1>2 DEF Job, op, mine
      <3> HIDE DEF j
      <3>2. Follows(j, db[r])
        BY <1>3, <2>1, <2>2, <3>1 DEF Follows, Alike
      <3>3. Clear(op, "structure", r, mine)
        BY DEF Clear
      <3> QED BY <1>1, <2>4, <3>2, <3>3, RaceGoto DEF r, op, mine, j
    <2> QED BY <1>8, <2>3, <2>4 DEF CheckHint, mine
  <1>9. CASE ParseStructure(h)
    <2>1. op = "upload" /\ mine.status = "needs_review" /\ "needs_review" \in Parsed
      BY <1>3, <1>9 DEF ParseStructure, At, OnRoute, Parsed
    <2>2. PICK row \in {mine, Flagged(mine, "same_date_pdf_conflict")}, step \in {"auto", "sync"} :
            Save(h, row, step)
      BY <1>9 DEF ParseStructure, mine
    <2>3. OnRoute(op, step)
      BY <2>1 DEF OnRoute
    <2>4. /\ row \in Row /\ row.status = "needs_review" /\ row.current = mine.current
          /\ row.interp = mine.interp
      <3>1. CASE row = mine
        BY <1>2, <2>1, <3>1
      <3>2. CASE row = Flagged(mine, "same_date_pdf_conflict")
        <4>1. "same_date_pdf_conflict" \in Kinds
          BY DEF Kinds, BlockingKinds
        <4>2. row \in Row
          BY <1>2, <1>3, <3>2, <4>1, ParsingKeeps DEF Keeps
        <4> QED BY <1>2, <2>1, <3>2, <4>1, <4>2, ParsedColumns
      <3> QED BY <2>2, <3>1, <3>2
    <2>5. Sound(row)
      BY <1>3, <2>1, <2>4 DEF Sound, Parsed, Unparsed
    <2> QED BY <1>1, <2>1, <2>2, <2>3, <2>4, <2>5, RaceInterpret DEF mine, op
  <1> QED BY <1>4, <1>5, <1>6, <1>7, <1>8, <1>9

\* A publication is prepared, or given up.
LEMMA RacePromotion ==
    ASSUME RInv, TInv', NEW h \in Handlers,
           \/ AutoConflict(h) \/ AutoDecide(h) \/ PublishValidate(h)
           \/ Promote(h) \/ HistoryConflict(h) \/ Undo(h)
    PROVE  RInv'
  <1> DEFINE r == job[h].r
             mine == job[h].mine
             op == job[h].op
  <1>1. Busy(h) /\ job[h].at \in {"auto", "validate", "promote", "undo", "abort"}
    BY DEF AutoConflict, AutoDecide, PublishValidate, Promote, HistoryConflict, Undo, At, Busy
  <1>2. /\ r \in Reports /\ db[r] \in Row /\ Exists(r) /\ Sound(db[r])
        /\ job[h] \in Job /\ mine \in Row /\ Follows(job[h], db[r])
        /\ Clear(op, job[h].at, r, mine)
    BY <1>1, RaceWork
  <1>3. /\ OnRoute(op, job[h].at) /\ Sound(mine) /\ mine.status # "absent"
        /\ mine.status \in Parsed => db[r].status \in Parsed /\ SameFacts(mine, db[r])
        /\ job[h].at = "auto" => mine.status \in Parsed
        /\ job[h].at \in {"promote", "undo", "abort"} => Publishable(mine, TRUE)
        /\ job[h].at \notin Interpreting
    BY <1>1, <1>2 DEF Follows, Interpreting
  <1>4. ASSUME NEW at, [job[h] EXCEPT !.at = at].mine.status # mine.status \/ [job[h] EXCEPT !.at = at].at # at
        PROVE  FALSE
    BY <1>2, <1>4 DEF Job
  \* The steps it may go to.
  <1>5. ASSUME NEW at \in {"idle", "sync", "promote", "commit", "undo", "abort"},
               Goto(h, at), UNCHANGED db,
               at \in {"sync", "undo"} => op \in Uploads /\ mine.status \in Parsed,
               at = "abort" => job[h].at = "promote",
               at \in {"promote", "commit", "undo", "abort"} => Publishable(mine, TRUE),
               at \in {"promote", "commit"} => Clear(op, at, r, mine)
        PROVE  RInv'
    <2> DEFINE j == [job[h] EXCEPT !.at = at]
    <2>1. j.at = at /\ j.op = op /\ j.mine = mine
      BY <1>2 DEF Job
    <2> HIDE DEF j
    <2>2. at # "idle" => OnRoute(op, at)
      BY <1>1, <1>3, <1>5 DEF OnRoute, Uploads
    <2>3. at # "idle" => Follows(j, db[r])
      BY <1>3, <1>5, <2>1, <2>2 DEF Follows, Interpreting
    <2>4. Clear(op, at, r, mine) /\ at \notin Interpreting
      BY <1>5 DEF Clear, Interpreting
    <2> QED BY <1>1, <1>5, <2>3, <2>4, RaceGoto DEF j
  <1>6. CASE AutoConflict(h)
    <2>1. job[h].at = "auto" /\ Goto(h, "idle")
      BY <1>6 DEF AutoConflict, At
    <2>2. mine.status \in Parsed /\ db[r].status \in Parsed /\ SameFacts(mine, db[r])
      BY <1>3, <2>1
    <2>3. CASE UNCHANGED db
      BY <1>5, <2>1, <2>3
    <2>4. ASSUME NEW copy \in {mine, db[r]},
                 db' = [db EXCEPT ![r] = Merge(@, copy, ConflictRow(copy))]
          PROVE  RInv'
      <3>1. copy \in Row /\ copy.status \in Parsed /\ SameFacts(copy, db[r])
        BY <1>2, <2>2 DEF SameFacts
      <3>2. ConflictRow(copy) \in Row
        BY <3>1, ReviewKeeps DEF Keeps, Parsed
      <3>3. /\ ConflictRow(copy).status = "blocked" /\ ConflictRow(copy).interp = "needs_attention"
            /\ ConflictRow(copy).current = copy.current /\ SameFacts(ConflictRow(copy), copy)
        BY <3>1, ReviewedColumns, SameFactsKept
      <3>4. job' = [job EXCEPT ![h] = Idle] /\ "blocked" \in Parsed
        BY <2>1 DEF Goto, Parsed
      <3> QED BY <1>1, <1>3, <2>2, <2>4, <3>1, <3>2, <3>3, <3>4, RaceUpdate
    <2> QED BY <1>6, <2>3, <2>4 DEF AutoConflict
  <1>7. CASE AutoDecide(h)
    <2>1. job[h].at = "auto" /\ op \in Uploads /\ UNCHANGED db /\ SameDate(r, mine.date) = {}
      BY <1>3, <1>7 DEF AutoDecide, At, OnRoute, Uploads
    <2>2. CASE AutoPublishable(h)
      <3>1. Goto(h, "promote") /\ Publishable(mine, TRUE)
        BY <1>7, <2>2 DEF AutoDecide, AutoPublishable, Publishable
      <3> QED BY <1>5, <2>1, <3>1 DEF Clear
    <2>3. CASE Goto(h, "sync")
      BY <1>3, <1>5, <2>1, <2>3
    <2>4. CASE Reload(h, "sync")
      BY <1>1, <1>3, <2>1, <2>4, RaceReload
    <2> QED BY <1>7, <2>2, <2>3, <2>4 DEF AutoDecide
  <1>8. CASE PublishValidate(h)
    <2>1. job[h].at = "validate" /\ op = "publish" /\ UNCHANGED db
      BY <1>3, <1>8 DEF PublishValidate, At, OnRoute
    <2>2. Goto(h, "idle") \/ (Goto(h, "promote") /\ Publishable(mine, TRUE))
      BY <1>8 DEF PublishValidate, Publishable
    <2> QED BY <1>5, <2>1, <2>2 DEF Clear, Uploads
  <1>9. job[h].at \in {"promote", "undo", "abort"} => mine.status \in Parsed /\ Publishable(mine, TRUE)
    BY <1>3 DEF Publishable, Parsed
  <1>10. CASE Promote(h)
    <2>1. job[h].at = "promote" /\ UNCHANGED db
      BY <1>10 DEF Promote, At
    <2>2. CASE Goto(h, AfterPromotion(h))
      BY <1>5, <1>9, <2>1, <2>2 DEF AfterPromotion
    <2>3. CASE Goto(h, "commit")
      BY <1>2, <1>3, <1>5, <2>1, <2>3 DEF Clear
    <2> QED BY <1>10, <2>2, <2>3 DEF Promote
  <1>11. CASE HistoryConflict(h)
    <2>1. job[h].at = "promote" /\ UNCHANGED db
      BY <1>11 DEF HistoryConflict, At
    <2>2. CASE Goto(h, "undo") /\ op = "upload"
      BY <1>5, <1>9, <2>1, <2>2 DEF Uploads
    <2>3. CASE Reload(h, AfterError(h))
      BY <1>1, <1>9, <2>1, <2>3, RaceReload DEF AfterError
    <2> QED BY <1>11, <2>2, <2>3 DEF HistoryConflict
  <1>12. CASE Undo(h)
    <2>1. PICK step \in {"idle", "undone", "sync"} :
             /\ Reload(h, step)
             /\ step = "undone" => op = "upload"
             /\ step = "sync" => job[h].at # "abort"
      BY <1>12 DEF Undo, At
    <2>2. job[h].at \in {"undo", "abort"} /\ UNCHANGED db
      BY <1>12 DEF Undo, At
    <2>3. job[h].at = "undo" => op \in Uploads
      BY <1>3 DEF OnRoute, Uploads
    <2> QED BY <1>1, <1>9, <2>1, <2>2, <2>3, RaceReload
  <1> QED BY <1>6, <1>7, <1>8, <1>10, <1>11, <1>12

\* A publication is committed: the others of its date give way in the same
\* transaction, and no request dates a report in between.
LEMMA RaceCommit ==
    ASSUME RInv, TInv', NEW h \in Handlers, PublishCommit(h) \/ PublishCommitFails(h)
    PROVE  RInv'
  <1> DEFINE r == job[h].r
             mine == job[h].mine
             op == job[h].op
             row == PublishedRow(mine)
  <1>1. Busy(h) /\ job[h].at = "commit"
    BY DEF PublishCommit, PublishCommitFails, At, Busy
  <1>2. /\ r \in Reports /\ db[r] \in Row /\ Exists(r) /\ Sound(db[r])
        /\ job[h] \in Job /\ mine \in Row /\ Follows(job[h], db[r])
    BY <1>1, RaceWork
  <1>3. /\ OnRoute(op, "commit") /\ Sound(mine) /\ Publishable(mine, TRUE)
    BY <1>1, <1>2 DEF Follows
  <1>4. /\ mine.status \in Parsed /\ mine.status # "published" /\ mine.date # NoDate /\ Vetted(mine)
    BY <1>3 DEF Publishable, DateTrusted, Vetted, Trusted, Parsed
  <1>5. db[r].status \in Parsed /\ SameFacts(mine, db[r])
    BY <1>2, <1>4 DEF Follows
  <1>6. /\ row.status = "published" /\ row.date = mine.date /\ row.interp = mine.interp
        /\ Vetted(row) /\ SameFacts(row, mine)
    BY <1>2, <1>4, ReviewedColumns, SameFactsKept DEF Vetted
  <1>7. CASE PublishCommitFails(h)
    <2> DEFINE k == [job[h] EXCEPT !.at = "abort"]
    <2>1. k.at = "abort" /\ k.op = op /\ k.mine = mine
      BY <1>2 DEF Job
    <2> HIDE DEF k
    <2>2. Follows(k, db[r])
      BY <1>2, <1>3, <1>4, <2>1 DEF Follows, OnRoute, Interpreting
    <2>3. Clear(op, "abort", r, mine) /\ "abort" \notin Interpreting
      BY DEF Clear, Interpreting
    <2>4. Goto(h, "abort") /\ UNCHANGED db
      BY <1>7 DEF PublishCommitFails
    <2> QED BY <1>1, <2>2, <2>3, <2>4, RaceGoto DEF k
  <1>8. CASE PublishCommit(h)
    <2> DEFINE new == Merge(db[r], mine, row)
               saved == [db EXCEPT ![r] = new]
               j == IF op \in Uploads THEN [job[h] EXCEPT !.at = "sync", !.mine = row] ELSE Idle
    <2>1. /\ db' = [q \in Reports |-> IF q \in SameDate(r, mine.date)
                                      THEN [saved[q] EXCEPT !.current = FALSE] ELSE saved[q]]
          /\ job' = [job EXCEPT ![h] = j]
      BY <1>6, <1>8 DEF PublishCommit, Superseded
    <2>2. /\ new.status = "published" /\ SameFacts(new, db[r]) /\ new.interp = db[r].interp
      BY <1>4, <1>5, <1>6, MergedColumns DEF SameFacts
    <2>3. /\ j.at # "idle" => /\ j.at = "sync" /\ j.op = op /\ j.r = r /\ j.mine = row
                              /\ op \in Uploads
          /\ j.at = "idle" => j.op = "none"
      BY <1>2 DEF Job, Idle
    <2> HIDE DEF j
    <2>4. \A g \in Handlers : job'[g] = IF g = h THEN j ELSE job[g]
      BY <2>1 DEF RInv, TInv, TypeOK
    <2>5. saved[r] = new /\ \A q \in Reports \ {r} : saved[q] = db[q]
      BY <1>2 DEF RInv, TInv, TypeOK
    <2> HIDE DEF new, saved, row, mine, op, r
    <2>6. \A q \in Reports \ {r} : Alike(db[q], db'[q]) /\ (db'[q].current => db[q].current)
      <3>1. ASSUME NEW some \in Row
            PROVE  Alike(some, [some EXCEPT !.current = FALSE]) /\ ~[some EXCEPT !.current = FALSE].current
                   /\ Alike(some, some)
        BY DEF Row, Alike, SameFacts
      <3>2. \A q \in Reports : db[q] \in Row
        BY DEF RInv, TInv, TypeOK
      <3> QED BY <2>1, <2>5, <3>1, <3>2
    <2>7. \A q \in SameDate(r, mine.date) : ~db'[q].current
      <3>1. ASSUME NEW some \in Row
            PROVE  ~[some EXCEPT !.current = FALSE].current
        BY DEF Row
      <3>2. \A q \in SameDate(r, mine.date) : q \in Reports \ {r} /\ db[q] \in Row
        BY DEF SameDate, RInv, TInv, TypeOK
      <3> QED BY <2>1, <2>5, <3>1, <3>2
    <2>8. db'[r] = new
      BY <1>2, <2>1, <2>5 DEF SameDate
    <2>9. \A q \in Reports : /\ SameFacts(db[q], db'[q]) /\ (Exists(q)' <=> Exists(q))
                             /\ db[q].status \in Parsed => db'[q].status \in Parsed
      BY <1>2, <2>2, <2>6, <2>8 DEF Alike, SameFacts, Exists, Parsed
    <2>10. \A q \in Reports : Sound(db'[q])
      <3>1. Sound(new)
        <4>1. Vetted(new)
          BY <1>4, <1>5, <2>2, VettedFacts DEF SameFacts
        <4> QED BY <1>2, <1>5, <2>2, <4>1 DEF Sound, Parsed, Unparsed
      <3>2. ASSUME NEW q \in Reports \ {r} PROVE Sound(db'[q])
        <4>1. Sound(db[q]) /\ Alike(db[q], db'[q])
          BY <2>6 DEF RInv
        <4>2. Vetted(db[q]) => Vetted(db'[q])
          BY <4>1, VettedFacts DEF Alike
        <4> QED BY <4>1, <4>2 DEF Sound, Alike, SameFacts
      <3> QED BY <2>8, <3>1, <3>2
    <2>11. Unique'
      <3> SUFFICES ASSUME NEW p \in Reports, NEW q \in Reports, p # q,
                          db'[p].status = "published", db'[p].current,
                          db'[q].status = "published", db'[q].current,
                          db'[p].date = db'[q].date, db'[p].date # NoDate
                   PROVE  FALSE
        BY DEF Unique
      <3>1. ASSUME NEW o \in Reports \ {r}, db'[o].status = "published", db'[o].current
            PROVE  db'[o].date # mine.date /\ db[o].status = "published" /\ db[o].current
        <4>1. db[o].status = "published" /\ db[o].current /\ db[o].date = db'[o].date
          BY <2>6, <3>1 DEF Alike, SameFacts
        <4>2. o \notin SameDate(r, mine.date)
          BY <2>7, <3>1
        <4> QED BY <1>4, <4>1, <4>2 DEF SameDate, Exists
      <3>2. db'[r].date = mine.date
        BY <1>5, <2>2, <2>8 DEF SameFacts
      <3>3. p # r /\ q # r
        BY <3>1, <3>2
      <3>4. /\ db[p].status = "published" /\ db[p].current /\ db[p].date = db'[p].date
            /\ db[q].status = "published" /\ db[q].current /\ db[q].date = db'[q].date
        BY <2>9, <3>1, <3>3 DEF SameFacts
      <3> QED BY <3>4 DEF RInv, Unique
    <2>12. Follow'
      <3> SUFFICES ASSUME NEW g \in Handlers, Busy(g)'
                   PROVE  /\ Follows(job'[g], db'[job'[g].r])
                          /\ Clear(job[g].op, job[g].at, job[g].r, job[g].mine)'
        BY DEF Follow
      <3>1. CASE g = h
        <4>1. job'[g] = j /\ j.at = "sync" /\ j.op = op /\ op \in Uploads /\ j.r = r /\ j.mine = row
          BY <2>3, <2>4, <3>1 DEF Busy
        <4>2. OnRoute(op, "sync")
          BY <4>1 DEF OnRoute, Uploads, RInv
        <4>3. Sound(row) /\ SameFacts(row, new) /\ row.status \in Parsed
          BY <1>3, <1>4, <1>5, <1>6, <2>2 DEF Sound, SameFacts, Parsed, Unparsed
        <4>4. Follows(j, new)
          BY <1>6, <2>2, <4>1, <4>2, <4>3 DEF Follows, Interpreting, Parsed
        <4> QED BY <2>8, <4>1, <4>4 DEF Clear
      <3>2. CASE g # h
        <4>1. job'[g] = job[g] /\ Busy(g)
          BY <2>4, <3>2 DEF Busy
        <4>2. /\ Follows(job[g], db[job[g].r]) /\ job[g].r \in Reports
              /\ Clear(job[g].op, job[g].at, job[g].r, job[g].mine)
          BY <4>1, RaceWork
        <4>3. job[g].at \in Interpreting => job[g].r # r
          BY <1>1, <1>4, <3>2, <4>1 DEF RInv, Alone, r, mine
        <4>4. Follows(job[g], db'[job[g].r])
          <5>1. CASE job[g].r # r
            BY <2>6, <4>2, <5>1, AlikeFollows
          <5>2. CASE job[g].r = r
            BY <2>9, <4>2, <4>3, <5>2 DEF Follows, SameFacts
          <5> QED BY <5>1, <5>2
        <4>5. Clear(job[g].op, job[g].at, job[g].r, job[g].mine)'
          BY <2>9, <4>1, <4>2 DEF Clear, SameDate, SameFacts
        <4> QED BY <4>1, <4>4, <4>5
      <3> QED BY <3>1, <3>2
    <2>13. OneUpload'
      BY <2>3, <2>4 DEF RInv, OneUpload, Uploads, op
    <2>14. Alone'
      <3> SUFFICES ASSUME NEW f \in Handlers, NEW g \in Handlers, f # g, Busy(f)', Busy(g)',
                          job'[g].at \in Interpreting, job'[f].r = job'[g].r
                   PROVE  job'[f].mine.status \notin Parsed
        BY DEF Alone
      <3>1. g # h
        BY <2>3, <2>4 DEF Interpreting, Busy
      <3>2. job'[g] = job[g] /\ Busy(g)
        BY <2>4, <3>1 DEF Busy
      <3>3. CASE f = h
        BY <2>3, <2>4, <3>1, <3>2, <3>3, OneInterprets DEF Busy, op
      <3>4. CASE f # h
        BY <2>4, <3>2, <3>4 DEF RInv, Alone, Busy
      <3> QED BY <3>3, <3>4
    <2> QED BY <2>10, <2>11, <2>12, <2>13, <2>14 DEF RInv
  <1> QED BY <1>7, <1>8

\* A report without facts is neither made ready nor withdrawn.
LEMMA OnlyWithFacts ==
    ASSUME NEW row, Sound(row), row.status # "absent",
           CanTransition(row, "ready_to_publish") \/ CanTransition(row, "withdrawn")
    PROVE  row.status \in Parsed
  <1>1. "ready_to_publish" \notin {"parsing"} /\ "withdrawn" \notin {"parsing"}
    OBVIOUS
  <1>2. /\ AllowedTransitions["uploaded"] = {"parsing"}
        /\ AllowedTransitions["parsing"] = {"needs_review", "blocked", "parse_failed"}
        /\ AllowedTransitions["parse_failed"] = {"parsing"}
    BY DEF AllowedTransitions
  <1>3. row.status \notin Unparsed
    BY <1>1, <1>2 DEF CanTransition, Unparsed
  <1> QED BY <1>3 DEF Sound

\* A stale copy is written: it changes the status, and no fact.
LEMMA RaceReview ==
    ASSUME RInv, TInv', NEW h \in Handlers,
           \/ SyncWorkflow(h) \/ ResolveRefused(h) \/ DecideUnknown(h)
           \/ \E kind \in Kinds : Decide(h, kind)
           \/ Patch(h) \/ Ready(h) \/ Withdraw(h) \/ ResolveTerm(h)
           \/ ReconcileStart(h) \/ ReconcileRebuild(h) \/ ReconcileRestore(h)
    PROVE  RInv'
  <1> DEFINE r == job[h].r
             mine == job[h].mine
             op == job[h].op
  <1>1. Busy(h) /\ job[h].at \in {"sync", "undone", "resolve", "decide", "patch", "ready", "withdraw",
                                  "term", "reconcile", "rebuild", "restore"}
    BY DEF SyncWorkflow, ResolveRefused, DecideUnknown, Decide, Patch, Ready, Withdraw,
           ResolveTerm, ReconcileStart, ReconcileRebuild, ReconcileRestore, At, Busy
  <1>2. /\ r \in Reports /\ db[r] \in Row /\ Exists(r) /\ Sound(db[r])
        /\ job[h] \in Job /\ mine \in Row /\ Follows(job[h], db[r])
    BY <1>1, RaceWork
  <1>3. /\ OnRoute(op, job[h].at) /\ Sound(mine) /\ mine.status # "absent"
        /\ mine.status \in Parsed => db[r].status \in Parsed /\ SameFacts(mine, db[r])
        /\ job[h].at = "sync" => mine.status \in Parsed \cup {"parse_failed"}
        /\ job[h].at = "undone" => mine.status \in Parsed
        /\ job[h].at \notin Interpreting
    BY <1>1, <1>2 DEF Follows, Interpreting
  <1> HIDE DEF r, mine, op
  <1>4. CASE ResolveRefused(h) \/ DecideUnknown(h) \/ (\E kind \in Kinds : Decide(h, kind)) \/ Patch(h)
    BY <1>3, <1>4 DEF ResolveRefused, DecideUnknown, Decide, Patch, At, OnRoute
  <1>5. CASE ReconcileStart(h) \/ ReconcileRebuild(h) \/ ReconcileRestore(h)
    BY <1>3, <1>5 DEF ReconcileStart, ReconcileRebuild, ReconcileRestore, At, OnRoute
  <1>6. CASE Goto(h, "idle") /\ UNCHANGED db
    BY <1>1, <1>6, RaceGoto
  \* The status of a copy that has facts is written, and the handler is done.
  <1>7. ASSUME NEW row \in Row, mine.status \in Parsed, SameFacts(row, mine),
               row.current = mine.current, row.interp = mine.interp, row.status \in Parsed,
               row.status = "published" => mine.status = "published", Save(h, row, "idle")
        PROVE  RInv'
    <2>1. db[r].status \in Parsed /\ SameFacts(mine, db[r])
      BY <1>3, <1>7
    <2>2. mine.interp \in {"ready", "needs_attention"}
      BY <1>3, <1>7 DEF Sound
    <2>3. db' = [db EXCEPT ![r] = Merge(@, mine, row)] /\ job' = [job EXCEPT ![h] = Idle]
      BY <1>7 DEF Save, r, mine
    <2> QED BY <1>1, <1>2, <1>3, <1>7, <2>1, <2>2, <2>3, RaceUpdate DEF r, mine
  <1>8. CASE SyncWorkflow(h)
    <2>1. job[h].at \in {"sync", "undone"} /\ op \in Uploads
      BY <1>3, <1>8 DEF SyncWorkflow, At, OnRoute, Uploads
    <2> DEFINE row == ApplyState(mine, SyncedIssues(mine, issues[r]))
               named == IF At(h, "undone") THEN [row EXCEPT !.stored = "staging"] ELSE row
    <2>2. Save(h, named, "idle")
      BY <1>8, <2>1 DEF SyncWorkflow, At, mine, r, op, Uploads
    <2>3. CASE mine.status = "parse_failed"
      <3>1. named = mine
        BY <1>3, <2>3 DEF ApplyState, At, Parsed
      <3>2. Merge(db[r], mine, mine) = db[r]
        BY <1>2 DEF Merge, Row
      <3>3. UNCHANGED db
        BY <1>2, <2>2, <3>1, <3>2 DEF Save, r, mine, RInv, TInv, TypeOK
      <3>4. Goto(h, "idle")
        BY <2>2 DEF Save, Goto
      <3> QED BY <1>6, <3>3, <3>4
    <2>4. CASE mine.status \in Parsed
      <3>1. mine.status \in Statuses /\ mine.interp # "failed"
        BY <1>3, <2>4 DEF Sound, Parsed, Statuses
      <3>2. /\ row.status \in Statuses /\ row.interp = mine.interp /\ row.current = mine.current
            /\ mine.status \in {"published", "withdrawn"} => row = mine
            /\ mine.status \notin {"published", "withdrawn"} =>
                  row.status \in {"parsing", "blocked", "needs_review", "ready_to_publish"}
            /\ SameFacts(row, mine)
        BY <1>2, <2>4, <3>1, AppliedColumns, SameFactsKept DEF Parsed
      <3>3. row.status # "parsing"
        <4>1. CASE mine.status \in {"published", "withdrawn"}
          BY <3>2, <4>1
        <4>2. CASE mine.status \in {"needs_review", "blocked", "ready_to_publish"}
          <5>1. mine.interp \in {"ready", "needs_attention"}
            BY <1>3, <2>4 DEF Sound
          <5>2. WorkflowStatus(mine, SyncedIssues(mine, issues[r])) # "parsing"
            BY <4>2, <5>1 DEF WorkflowStatus
          <5>3. row.status = WorkflowStatus(mine, SyncedIssues(mine, issues[r]))
            BY <1>2, <4>2, ReviewedColumns DEF ApplyState
          <5> QED BY <5>2, <5>3
        <4> QED BY <2>4, <4>1, <4>2 DEF Parsed
      <3>4. row.status \in Parsed /\ (row.status = "published" => mine.status = "published")
        BY <2>4, <3>2, <3>3 DEF Parsed
      <3>5. row \in Row
        <4> DEFINE known == SyncedIssues(mine, issues[r])
        <4>1. issues[r] \in [Kinds -> IssueState]
          BY <1>2 DEF RInv, TInv, TypeOK
        <4>2. known \in [Kinds -> IssueState]
          BY <1>2, <4>1, SyncedIsIssues
        <4> HIDE DEF known
        <4>3. Keeps(mine, ApplyState(mine, known))
          BY <1>2, <1>3, <4>2, ReviewKeeps
        <4> QED BY <4>3 DEF Keeps, known
      <3> HIDE DEF row
      <3>6. /\ named \in Row /\ SameFacts(named, row) /\ named.status = row.status
            /\ named.interp = row.interp /\ named.current = row.current
        BY <3>5 DEF Row, SameFacts
      <3>7. SameFacts(named, mine)
        BY <3>2, <3>6 DEF SameFacts
      <3> HIDE DEF named
      <3> QED BY <1>7, <2>2, <2>4, <3>2, <3>4, <3>6, <3>7
    <2> QED BY <1>3, <2>1, <2>3, <2>4
  <1>9. CASE Ready(h)
    <2>1. CASE ReadyAllowed(mine)
      <3> DEFINE row == [mine EXCEPT !.status = "ready_to_publish"]
      <3>1. mine.status \in Parsed
        BY <1>3, <2>1, OnlyWithFacts DEF ReadyAllowed
      <3>a. row.status = "ready_to_publish" /\ row.interp = mine.interp /\ row.current = mine.current
        BY <1>2, ReviewedColumns
      <3>b. SameFacts(row, mine)
        BY <1>2, SameFactsKept
      <3>c. row \in Row
        BY <1>2, "ready_to_publish" \in Statuses, StatusColumn DEF Statuses
      <3>2. row.status = "ready_to_publish" /\ row.interp = mine.interp /\ row.current = mine.current
            /\ SameFacts(row, mine) /\ row \in Row
        BY <3>a, <3>b, <3>c
      <3>3. Save(h, row, "idle") /\ row.status \in Parsed
        BY <1>9, <2>1, <3>2 DEF Ready, mine, Parsed
      <3> HIDE DEF row
      <3> QED BY <1>7, <3>1, <3>2, <3>3
    <2>2. CASE ~ReadyAllowed(mine)
      BY <1>6, <1>9, <2>2 DEF Ready, mine
    <2> QED BY <2>1, <2>2
  <1>10. CASE Withdraw(h)
    <2>1. CASE CanTransition(mine, "withdrawn")
      <3> DEFINE row == [mine EXCEPT !.status = "withdrawn"]
      <3>1. mine.status \in Parsed
        BY <1>3, <2>1, OnlyWithFacts
      <3>a. row.status = "withdrawn" /\ row.interp = mine.interp /\ row.current = mine.current
        BY <1>2, ReviewedColumns
      <3>b. SameFacts(row, mine)
        BY <1>2, SameFactsKept
      <3>c. row \in Row
        BY <1>2, "withdrawn" \in Statuses, StatusColumn DEF Statuses
      <3>2. row.status = "withdrawn" /\ row.interp = mine.interp /\ row.current = mine.current
            /\ SameFacts(row, mine) /\ row \in Row
        BY <3>a, <3>b, <3>c
      <3>3. Save(h, row, "idle") /\ row.status \in Parsed
        BY <1>10, <2>1, <3>2 DEF Withdraw, mine, Parsed
      <3> HIDE DEF row
      <3> QED BY <1>7, <3>1, <3>2, <3>3
    <2>2. CASE ~CanTransition(mine, "withdrawn")
      BY <1>6, <1>10, <2>2 DEF Withdraw, mine
    <2> QED BY <2>1, <2>2
  <1>11. CASE ResolveTerm(h)
    <2>1. PICK left \in {"none", "few", "many"} : db' = [db EXCEPT ![r].terms = left]
      BY <1>11 DEF ResolveTerm, r
    <2> DEFINE new == [db[r] EXCEPT !.terms = left]
    <2>2. /\ new \in Row /\ Alike(db[r], new) /\ new.current = db[r].current
          /\ db' = [db EXCEPT ![r] = new]
      BY <1>2, <2>1 DEF Row, Alike, SameFacts
    <2>3. job' = [job EXCEPT ![h] = Idle]
      BY <1>11 DEF ResolveTerm, Goto
    <2> HIDE DEF new
    <2>4. Sound(new)
      BY <1>2, <2>2, VettedFacts DEF Sound, Alike, SameFacts
    <2>5. Alters(job[h], db[r], new)
      BY <1>2, <2>2, <2>4 DEF Alters, Alike, SameFacts, Exists
    <2> QED BY <1>1, <2>2, <2>3, <2>5, RaceWrite DEF r
  <1> QED BY <1>4, <1>5, <1>8, <1>9, <1>10, <1>11

\* A process dies: the rows stay.
LEMMA RaceCrash ==
    ASSUME RInv, TInv', NEW died \in SUBSET Handlers, Crash(died)
    PROVE  RInv'
  <1>1. (\A g \in Handlers : job'[g] = IF g \in died THEN Idle ELSE job[g]) /\ UNCHANGED db
    BY DEF Crash
  <1>2. Idle.at = "idle" /\ Idle.op \notin Uploads
    BY DEF Idle, Uploads
  <1>3. \A g \in Handlers : Busy(g)' => Busy(g) /\ job'[g] = job[g]
    BY <1>1, <1>2 DEF Busy
  <1>4. (\A r \in Reports : Sound(db[r]))' /\ Unique'
    BY <1>1 DEF RInv, Unique
  <1>5. Follow'
    BY <1>1, <1>3 DEF RInv, Follow, Clear, SameDate, Exists
  <1>6. OneUpload'
    BY <1>1, <1>2 DEF RInv, OneUpload
  <1>7. Alone'
    BY <1>3 DEF RInv, Alone
  <1> QED BY <1>4, <1>5, <1>6, <1>7 DEF RInv

\* The empty library satisfies the invariant.
LEMMA RaceInit == Init => RInv
  <1> SUFFICES ASSUME Init PROVE RInv
    OBVIOUS
  <1>1. \A h \in Handlers : ~Busy(h) /\ job[h].op \notin Uploads
    BY DEF Init, Idle, Busy, Uploads
  <1>2. \A r \in Reports : db[r].status = "absent"
    BY DEF Init, AbsentRow, FreshRow
  <1> QED BY <1>1, <1>2, TypedInit DEF RInv, Sound, Follow, OneUpload, Alone, Unique, Parsed, Unparsed

\* Every step of racing requests keeps it.
LEMMA RaceNext == Ops \subseteq RaceOps /\ RInv /\ [Next]_vars => RInv'
  <1> SUFFICES ASSUME Ops \subseteq RaceOps, RInv, [Next]_vars PROVE RInv'
    OBVIOUS
  <1>0. TInv'
    BY TypedNext DEF RInv
  <1>1. ASSUME NEW h \in Handlers, Request(h) PROVE RInv'
    BY <1>0, <1>1, RaceRequest
  <1>2. ASSUME NEW h \in Handlers, Step(h) PROVE RInv'
    BY <1>0, <1>2, RaceInterpretation, RacePromotion, RaceCommit, RaceReview DEF Step
  <1>3. ASSUME Crash(Handlers \ Scripts) PROVE RInv'
    BY <1>0, <1>3, RaceCrash
  <1>4. ASSUME NEW h \in Scripts, Crash({h}) PROVE RInv'
    <2>1. {h} \in SUBSET Handlers
      BY DEF Scripts
    <2> QED BY <1>0, <1>4, <2>1, RaceCrash
  <1>5. CASE UNCHANGED vars
    BY <1>0, <1>5 DEF vars, RInv, Follow, OneUpload, Alone, Unique, Busy, Clear, SameDate, Exists
  <1> QED BY <1>1, <1>2, <1>3, <1>4, <1>5 DEF Next

\* However requests interleave, fail to commit or die, no date has two current
\* published reports (publish demotes the others in its own transaction).
THEOREM RaceOneCurrent ==
    ASSUME Ops \subseteq RaceOps
    PROVE  Spec => []OneCurrent
  <1>1. RInv => OneCurrent
    <2> SUFFICES ASSUME RInv, NEW d \in Dates PROVE Cardinality(Shown(d)) <= 1
      BY DEF OneCurrent
    <2>1. \A q, r \in Shown(d) : q = r
      BY DEF Shown, RInv, Unique
    <2>2. Cardinality(Shown(d)) \in {0, 1}
      BY <2>1, AtMostOne
    <2> QED BY <2>2
  <1> QED BY RaceInit, RaceNext, <1>1, PTL DEF Spec

\* No status outside ReportStatus is ever stored, whatever stale copy a request
\* writes (_apply_report_state).
THEOREM RaceStatuses ==
    ASSUME Ops \subseteq RaceOps
    PROVE  Spec => []KnownStatus
  <1>1. RInv => KnownStatus
    BY DEF RInv, Sound, KnownStatus, Parsed, Unparsed, Statuses
  <1> QED BY RaceInit, RaceNext, <1>1, PTL DEF Spec

\* What is published was vetted, although the publication and the row it writes
\* are read apart from each other (_validate_publishable).
THEOREM RaceVetted ==
    ASSUME Ops \subseteq RaceOps
    PROVE  Spec => PublishedIsVetted
  <1> DEFINE Goes == \A r \in Reports : Published(r)' =>
          /\ DateTrusted(db'[r]) /\ ~HasBlocking(db'[r])
          /\ ~db'[r].complete => /\ Published(r)
                                /\ \/ ~db[r].complete
                                   \/ \E h \in Handlers : At(h, "patch") /\ job[h].r = r
  <1>1. RInv' => [Goes]_vars
    BY DEF RInv, Sound, Published, Vetted, Trusted
  <1>2. Spec => [][Goes]_vars
    BY <1>1, RaceInit, RaceNext, PTL DEF Spec
  <1> QED BY <1>2 DEF PublishedIsVetted

\* A handler leaves the point before COMMIT by committing or by failing to.
LEMMA CommitLeft ==
    ASSUME NEW h \in Handlers, Step(h), At(h, "commit")
    PROVE  PublishCommit(h) \/ PublishCommitFails(h)
  BY DEF Step, At, ParseStart, ParseEnd, ParseFail, ApplyMd, CheckHint,
         ParseStructure, AutoConflict, AutoDecide, PublishValidate, Promote,
         HistoryConflict, Undo, SyncWorkflow, ResolveRefused, DecideUnknown, Decide,
         Patch, Ready, Withdraw, ResolveTerm, ReconcileStart, ReconcileRebuild,
         ReconcileRestore

\* An automatic publication demotes nobody, and a failing one writes no row.
LEMMA AutoCommit ==
    ASSUME RInv, NEW h \in Handlers, At(h, "commit"), job[h].op \in Uploads,
           NEW q \in Reports, db[q].current, PublishCommit(h) \/ PublishCommitFails(h)
    PROVE  db'[q].current
  <1> DEFINE r     == job[h].r
             mine  == job[h].mine
             row   == PublishedRow(mine)
             saved == [db EXCEPT ![r] = Merge(@, mine, row)]
  <1>1. Busy(h) /\ job[h].at = "commit"
    BY DEF At, Busy
  <1>2. mine \in Row /\ r \in Reports /\ db \in [Reports -> Row] /\ SameDate(r, mine.date) = {}
    BY <1>1, RaceWork DEF RInv, TInv, TypeOK, Follow, Clear
  <1>3. row.current /\ row.date = mine.date
    BY <1>2, ReviewedColumns
  <1> HIDE DEF row
  <1>4. CASE PublishCommitFails(h)
    BY <1>4 DEF PublishCommitFails
  <1>5. CASE PublishCommit(h)
    <2>1. db' = [p \in Reports |-> IF p \in Superseded(r, row.date)
                                   THEN [saved[p] EXCEPT !.current = FALSE] ELSE saved[p]]
      BY <1>5 DEF PublishCommit, row
    <2>2. db'[q] = saved[q]
      BY <1>2, <1>3, <2>1 DEF Superseded
    <2>3. CASE q # r
      BY <1>2, <2>2, <2>3
    <2>4. CASE q = r
      <3>1. saved[q] = Merge(db[q], mine, row)
        BY <1>2, <2>4
      <3>2. Merge(db[q], mine, row).current =
               IF row.current # mine.current THEN row.current ELSE db[q].current
        BY MergedColumns
      <3>3. Merge(db[q], mine, row).current
        BY <1>3, <3>2
      <3> QED BY <2>2, <3>1, <3>3
    <2> QED BY <2>3, <2>4
  <1> QED BY <1>4, <1>5

\* Automatic publication never takes the Viewer's report of a date away, however
\* requests interleave: the check for other reports of the date and the commit
\* are apart, but no request dates a report in between.
THEOREM RaceNeverReplaces ==
    ASSUME Ops \subseteq RaceOps
    PROVE  Spec => AutoNeverReplaces
  <1> DEFINE Goes == \A h \in Handlers, q \in Reports :
          (/\ job[h].op \in Uploads /\ At(h, "commit") /\ ~At(h, "commit")'
           /\ Published(q) /\ db[q].current) => db'[q].current
  <1>1. RInv /\ [Next]_vars => [Goes]_vars
    <2> SUFFICES ASSUME RInv, Next, NEW h \in Handlers, NEW q \in Reports,
                        job[h].op \in Uploads, At(h, "commit"), ~At(h, "commit")',
                        Published(q), db[q].current
                 PROVE  db'[q].current
      OBVIOUS
    <2>1. ASSUME NEW g \in Handlers, Request(g) PROVE FALSE
      <3>1. At(g, "idle") /\ \E j : job' = [job EXCEPT ![g] = j]
        BY <2>1 DEF Request, Begin, UploadNew, UploadDuplicate
      <3>2. job'[h] = job[h]
        BY <3>1 DEF At, RInv, TInv, TypeOK
      <3> QED BY <3>2 DEF At
    <2>2. ASSUME NEW g \in Handlers, Step(g) PROVE db'[q].current
      <3>1. g = h
        BY <2>2, StepKeepsOp DEF RInv, At
      <3> QED BY <2>2, <3>1, CommitLeft, AutoCommit
    <2>3. ASSUME NEW died, Crash(died) PROVE db'[q].current
      BY <2>3 DEF Crash
    <2> QED BY <2>1, <2>2, <2>3 DEF Next
  <1>2. Spec => [][Goes]_vars
    BY <1>1, RaceInit, RaceNext, PTL DEF Spec
  <1> QED BY <1>2 DEF AutoNeverReplaces

----------------------------------------------------------------------------
(* The issues that block a publication.                                     *)

\* What waits for an interpretation has no attention items.
Bare(row) == row.status \notin Parsed => row.meta.attention = {}

\* While an issue that must be handled is open, its item is in the metadata,
\* which is where the publication looks.
OpenIsFlagged(r) ==
    \A k \in BlockingKinds : issues[r][k] = "open" => k \in db[r].meta.attention

\* The invariant of the review.
FInv == /\ RInv
        /\ \A r \in Reports : Bare(db[r]) /\ OpenIsFlagged(r)
        /\ \A h \in Handlers : Busy(h) => Bare(job[h].mine)

\* A review that is synced opens an issue for an item, never without one.
LEMMA SyncedOpens ==
    ASSUME NEW row, NEW known, NEW k \in Kinds, SyncedIssues(row, known)[k] = "open"
    PROVE  known[k] = "open" \/ k \in row.meta.attention
  BY DEF SyncedIssues

\* Of racing requests, a step adds items and takes none away.
LEMMA FlagWrite ==
    ASSUME FInv, RInv', NEW h \in Handlers, NEW j, job' = [job EXCEPT ![h] = j],
           j.at # "idle" => Bare(j.mine),
           NEW r \in Reports, NEW new, db' = [db EXCEPT ![r] = new],
           Bare(new), db[r].meta.attention \subseteq new.meta.attention,
           \A q \in Reports, k \in BlockingKinds : issues'[q][k] = "open" =>
              issues[q][k] = "open" \/ (q = r /\ k \in new.meta.attention)
    PROVE  FInv'
  <1>1. \A g \in Handlers : job'[g] = IF g = h THEN j ELSE job[g]
    BY DEF FInv, RInv, TInv, TypeOK
  <1>2. \A q \in Reports : db'[q] = IF q = r THEN new ELSE db[q]
    BY DEF FInv, RInv, TInv, TypeOK
  <1>3. \A q \in Reports : Bare(db'[q]) /\ db[q].meta.attention \subseteq db'[q].meta.attention
    BY <1>2 DEF FInv
  <1>4. \A q \in Reports : OpenIsFlagged(q)'
    BY <1>2, <1>3 DEF FInv, OpenIsFlagged
  <1>5. ASSUME NEW g \in Handlers, Busy(g)' PROVE Bare(job'[g].mine)
    BY <1>1, <1>5 DEF FInv, Busy
  <1> QED BY <1>3, <1>4, <1>5 DEF FInv, Bare

\* A step that leaves the rows and the issues.
LEMMA FlagMove ==
    ASSUME FInv, RInv', UNCHANGED <<db, issues>>, NEW h \in Handlers, NEW j,
           job' = [job EXCEPT ![h] = j], j.at # "idle" => Bare(j.mine)
    PROVE  FInv'
  <1>1. \A g \in Handlers : job'[g] = IF g = h THEN j ELSE job[g]
    BY DEF FInv, RInv, TInv, TypeOK
  <1>2. \A g \in Handlers : Busy(g)' => Bare(job'[g].mine)
    BY <1>1 DEF FInv, Busy
  <1> QED BY <1>2 DEF FInv, OpenIsFlagged, Bare

LEMMA FlagGoto ==
    ASSUME FInv, RInv', UNCHANGED <<db, issues>>, NEW h \in Handlers, Busy(h), NEW step,
           Goto(h, step) \/ Reload(h, step)
    PROVE  FInv'
  <1>1. /\ job[h] \in Job /\ Bare(job[h].mine) /\ job[h].r \in Reports /\ Bare(db[job[h].r])
    BY RaceWork DEF FInv
  <1>2. PICK mine \in {job[h].mine, db[job[h].r]} :
           job' = [job EXCEPT ![h] = IF step = "idle" THEN Idle
                                     ELSE [job[h] EXCEPT !.at = step, !.mine = mine]]
    <2>1. [job[h] EXCEPT !.at = step, !.mine = job[h].mine] = [job[h] EXCEPT !.at = step]
      BY <1>1 DEF Job
    <2> QED BY <2>1 DEF Goto, Reload
  <1>3. /\ [job[h] EXCEPT !.at = step, !.mine = mine].mine = mine
        /\ Idle.at = "idle"
    BY <1>1 DEF Job, Idle
  <1> QED BY <1>1, <1>2, <1>3, FlagMove

\* The upload saves what it has found: nothing was flagged before, or more is now.
LEMMA FlagInterpret ==
    ASSUME FInv, RInv', UNCHANGED issues, NEW h \in Handlers, Busy(h), job[h].at \in Interpreting,
           NEW row, Bare(row), job[h].mine.meta.attention \subseteq row.meta.attention,
           NEW step \in Steps \ {"idle"}, Save(h, row, step)
    PROVE  FInv'
  <1> DEFINE r   == job[h].r
             new == Merge(db[r], job[h].mine, row)
             j   == [job[h] EXCEPT !.at = step, !.mine = row]
  <1>1. /\ r \in Reports /\ job[h] \in Job /\ Alike(job[h].mine, db[r])
    BY RaceWork DEF FInv, Follows
  <1>2. j.mine = row /\ job' = [job EXCEPT ![h] = j] /\ db' = [db EXCEPT ![r] = new]
    BY <1>1 DEF Job, Save
  <1>3. Alike(new, row)
    BY <1>1, MergedColumns
  <1> HIDE DEF r, new, j
  <1>4. Bare(new) /\ db[r].meta.attention \subseteq new.meta.attention
    BY <1>1, <1>3 DEF Alike, SameFacts, Bare, r
  <1> QED BY <1>1, <1>2, <1>4, FlagWrite

\* A copy is flushed whose items are as they were loaded.
LEMMA FlagFlush ==
    ASSUME FInv, RInv', NEW h \in Handlers, Busy(h), NEW j, job' = [job EXCEPT ![h] = j],
           j.at # "idle" => Bare(j.mine),
           NEW copy, NEW row, row.meta = copy.meta,
           row.status = copy.status \/ (row.status \in Parsed /\ db[job[h].r].status \in Parsed),
           db' = [db EXCEPT ![job[h].r] = Merge(@, copy, row)],
           \A q \in Reports, k \in BlockingKinds : issues'[q][k] = "open" =>
              issues[q][k] = "open" \/ (q = job[h].r /\ k \in db[q].meta.attention)
    PROVE  FInv'
  <1> DEFINE r   == job[h].r
             new == Merge(db[r], copy, row)
  <1>1. r \in Reports /\ Bare(db[r])
    BY RaceWork DEF FInv
  <1>2. /\ new.meta = db[r].meta
        /\ new.status = IF row.status # copy.status THEN row.status ELSE db[r].status
    BY DEF Merge
  <1>3. db' = [db EXCEPT ![r] = new]
    OBVIOUS
  <1> HIDE DEF new, r
  <1>4. Bare(new)
    BY <1>1, <1>2 DEF Bare, r
  <1>5. \A q \in Reports, k \in BlockingKinds : issues'[q][k] = "open" =>
           issues[q][k] = "open" \/ (q = r /\ k \in new.meta.attention)
    BY <1>2 DEF r
  <1> QED BY <1>1, <1>2, <1>3, <1>4, <1>5, FlagWrite

LEMMA FlagInterpretation ==
    ASSUME FInv, RInv', NEW h \in Handlers,
           \/ ParseStart(h) \/ ParseEnd(h) \/ ParseFail(h) \/ ApplyMd(h)
           \/ CheckHint(h) \/ ParseStructure(h)
    PROVE  FInv'
  <1> DEFINE r    == job[h].r
             mine == job[h].mine
  <1>1. Busy(h) /\ job[h].at \in Interpreting /\ UNCHANGED issues
    BY DEF ParseStart, ParseEnd, ParseFail, ApplyMd, CheckHint, ParseStructure, At, Busy,
           Interpreting
  <1>2. /\ job[h] \in Job /\ mine \in Row /\ mine.status # "absent" /\ r \in Reports
        /\ db[r] \in Row /\ Alike(mine, db[r])
        /\ job[h].at \in {"parse", "apply", "extract"} => mine.meta.attention = {}
        /\ job[h].at \in {"hint", "structure"} => mine.status = "needs_review"
        /\ Bare(mine) /\ Bare(db[r]) /\ OnRoute(job[h].op, job[h].at)
    BY <1>1, RaceWork DEF FInv, Follows, Bare, Parsed, Unparsed
  <1>3. ASSUME NEW row, Bare(row), mine.meta.attention \subseteq row.meta.attention,
               NEW step \in Steps \ {"idle"}, Save(h, row, step)
        PROVE  FInv'
    BY <1>1, <1>3, FlagInterpret
  <1>4. ASSUME NEW step, Goto(h, step), UNCHANGED db PROVE FInv'
    BY <1>1, <1>4, FlagGoto
  <1> HIDE DEF mine, r
  <1>5. CASE ParseStart(h)
    <2>1. ParseStarted(mine).meta = mine.meta /\ mine.meta.attention = {}
      BY <1>2, <1>5, SameFactsKept DEF SameFacts, ParseStart, At
    <2>2. Bare(ParseStarted(mine))
      BY <2>1 DEF Bare
    <2> QED BY <1>3, <1>4, <1>5, <2>1, <2>2 DEF ParseStart, Steps, mine
  <1>6. CASE ParseEnd(h)
    <2>1. mine.meta.attention = {} /\ job[h].op = "upload"
      BY <1>2, <1>6 DEF ParseEnd, At, OnRoute
    <2>2. PICK found \in ParseOutcomes : Save(h, ParsedRow(mine, found), "hint")
      BY <1>6, <2>1 DEF ParseEnd, mine
    <2>3. Bare(ParsedRow(mine, found))
      BY <1>2, ConfigAssumption, ParsedColumns DEF Bare, Parsed
    <2> QED BY <1>3, <2>1, <2>2, <2>3 DEF Steps
  <1>7. CASE ParseFail(h)
    <2> DEFINE failed == ParseFailedRow(db[r])
               j == IF job[h].op = "upload" THEN [job[h] EXCEPT !.at = "sync", !.mine = failed]
                                            ELSE Idle
    <2>1. db' = [db EXCEPT ![r] = failed] /\ job' = [job EXCEPT ![h] = j]
      BY <1>7 DEF ParseFail, r
    <2>2. failed.meta = db[r].meta /\ db[r].meta.attention = {}
      BY <1>2, <1>7, SameFactsKept DEF SameFacts, ParseFail, At, Alike
    <2>3. j.mine = failed \/ j.at = "idle"
      BY <1>2 DEF Job, Idle
    <2> HIDE DEF failed, j
    <2>4. Bare(failed)
      BY <2>2 DEF Bare
    <2> QED BY <1>1, <1>2, <2>1, <2>2, <2>3, <2>4, FlagWrite
  <1>8. CASE ApplyMd(h)
    <2>1. PICK date \in Dates, step \in {"auto", "sync"} : Save(h, MdRow(mine, date), step)
      BY <1>8 DEF ApplyMd, mine
    <2>2. mine.meta.attention = {}
      BY <1>2, <1>8 DEF ApplyMd, At
    <2>3. Bare(MdRow(mine, date))
      BY <1>2, ParsedColumns DEF Bare, Parsed
    <2> QED BY <1>3, <2>1, <2>2, <2>3 DEF Steps
  <1>9. ASSUME NEW row \in {mine, HintRefused(mine), Flagged(mine, "same_date_pdf_conflict")},
               job[h].at \in {"hint", "structure"}
        PROVE  Bare(row) /\ mine.meta.attention \subseteq row.meta.attention
    <2>1. ASSUME NEW kind PROVE mine.meta.attention \subseteq Flagged(mine, kind).meta.attention
      BY <1>2 DEF Flagged, Row, Meta
    <2>2. HintRefused(mine).meta = Flagged(mine, "report_date_conflict").meta
      BY <1>2 DEF HintRefused, Flagged, Row
    <2>3. row.status = mine.status
      BY <1>2, <1>9 DEF HintRefused, Flagged, Row
    <2> QED BY <1>2, <1>9, <2>1, <2>2, <2>3 DEF Bare, Parsed
  <1>10. CASE CheckHint(h)
    BY <1>3, <1>4, <1>9, <1>10 DEF CheckHint, At, Steps, mine
  <1>11. CASE ParseStructure(h)
    <2>1. PICK row \in {mine, Flagged(mine, "same_date_pdf_conflict")}, step \in {"auto", "sync"} :
            Save(h, row, step)
      BY <1>11 DEF ParseStructure, mine
    <2> QED BY <1>3, <1>9, <1>11, <2>1 DEF ParseStructure, At, Steps
  <1> QED BY <1>5, <1>6, <1>7, <1>8, <1>10, <1>11

LEMMA FlagCommit ==
    ASSUME FInv, RInv', NEW h \in Handlers, PublishCommit(h)
    PROVE  FInv'
  <1> DEFINE r    == job[h].r
             mine == job[h].mine
             row  == PublishedRow(mine)
             new  == Merge(db[r], mine, row)
             j    == IF job[h].op \in Uploads THEN [job[h] EXCEPT !.at = "sync", !.mine = row]
                     ELSE Idle
  <1>1. Busy(h) /\ UNCHANGED issues
    BY DEF PublishCommit, At, Busy
  <1>2. /\ r \in Reports /\ mine \in Row /\ db[r] \in Row /\ job[h] \in Job
    BY <1>1, RaceWork DEF FInv
  <1>3. row.meta = mine.meta /\ row.status = "published" /\ new.meta = db[r].meta
        /\ (new.status = "published" \/ new.status = db[r].status)
    BY <1>2 DEF PublishedRow, Row, Merge
  <1>4. /\ \A g \in Handlers : job'[g] = IF g = h THEN j ELSE job[g]
        /\ j.mine = row \/ j.at = "idle"
    BY <1>2 DEF PublishCommit, FInv, RInv, TInv, TypeOK, Job, Idle
  <1>5. \A q \in Reports : db'[q].meta = db[q].meta
                           /\ (db'[q].status = db[q].status \/ db'[q].status = "published")
    <2>1. \A q \in Reports :
             db'[q] = IF q \in Superseded(r, row.date)
                      THEN [(IF q = r THEN new ELSE db[q]) EXCEPT !.current = FALSE]
                      ELSE IF q = r THEN new ELSE db[q]
      BY <1>2 DEF PublishCommit, FInv, RInv, TInv, TypeOK
    <2>2. new \in Row /\ \A q \in Reports : db[q] \in Row
      <3>1. row \in Row
        <4>1. row = [mine EXCEPT !.status = "published", !.current = TRUE, !.stored = "published"]
          BY DEF PublishedRow
        <4> HIDE DEF row, mine
        <4> QED BY <1>2, <4>1 DEF Row, Statuses
      <3> QED BY <1>2, <3>1, MergeIsRow DEF FInv, RInv, TInv, TypeOK
    <2> HIDE DEF new, row, r
    <2>3. \A a \in Row : LET b == [a EXCEPT !.current = FALSE]
                         IN  b.meta = a.meta /\ b.status = a.status
      BY DEF Row
    <2> QED BY <1>3, <2>1, <2>2, <2>3
  <1> HIDE DEF new, row, r, mine, j
  <1>6. \A g \in Handlers : Busy(g)' => Bare(job'[g].mine)
    BY <1>3, <1>4 DEF FInv, Busy, Bare, Parsed
  <1>7. \A q \in Reports : Bare(db'[q])
    BY <1>5 DEF FInv, Bare, Parsed
  <1>8. \A q \in Reports : OpenIsFlagged(q)'
    BY <1>1, <1>5 DEF FInv, OpenIsFlagged
  <1> QED BY <1>6, <1>7, <1>8 DEF FInv, Bare

\* A report is blocked, synced, readied or withdrawn, or a term is mapped: the
\* items stay, and a sync opens issues for items that are there.
LEMMA FlagReview ==
    ASSUME FInv, RInv', NEW h \in Handlers,
           AutoConflict(h) \/ SyncWorkflow(h) \/ Ready(h) \/ Withdraw(h) \/ ResolveTerm(h)
    PROVE  FInv'
  <1> DEFINE r    == job[h].r
             mine == job[h].mine
  <1>1. Busy(h)
    BY DEF AutoConflict, SyncWorkflow, Ready, Withdraw, ResolveTerm, At, Busy
  <1>2. /\ db[r] \in Row /\ mine \in Row /\ r \in Reports /\ job[h] \in Job
        /\ mine.status # "absent" /\ Sound(mine) /\ Follows(job[h], db[r])
        /\ mine.status \in Parsed => db[r].status \in Parsed /\ SameFacts(mine, db[r])
        /\ Bare(mine) /\ Bare(db[r]) /\ job[h].at # "resolve"
    BY <1>1, RaceWork DEF FInv, Follows, OnRoute
  <1>3. Idle.at = "idle"
    BY DEF Idle
  <1>4. ASSUME NEW step, Goto(h, step), UNCHANGED <<db, issues>> PROVE FInv'
    BY <1>1, <1>4, FlagGoto
  <1>5. ASSUME NEW status \in Parsed, mine.status \in Parsed, UNCHANGED issues,
               Save(h, [mine EXCEPT !.status = status], "idle")
        PROVE  FInv'
    <2> DEFINE row == [mine EXCEPT !.status = status]
    <2>1. row.meta = mine.meta /\ row.status = status
      BY <1>2 DEF Row
    <2>2. db' = [db EXCEPT ![r] = Merge(@, mine, row)] /\ job' = [job EXCEPT ![h] = Idle]
      BY <1>5 DEF Save
    <2> HIDE DEF row, mine
    <2> QED BY <1>1, <1>2, <1>3, <1>5, <2>1, <2>2, FlagFlush
  <1>6. CASE AutoConflict(h)
    <2>1. job' = [job EXCEPT ![h] = Idle] /\ UNCHANGED issues
      BY <1>6 DEF AutoConflict, Goto
    <2>2. db[r].status \in Parsed
      BY <1>2, <1>6 DEF AutoConflict, At, Follows
    <2>3. ASSUME NEW copy \in {mine, db[r]}, db' = [db EXCEPT ![r] = Merge(@, copy, ConflictRow(copy))]
          PROVE  FInv'
      <3>1. ConflictRow(copy).meta = copy.meta /\ ConflictRow(copy).status = "blocked"
        BY <1>2, <2>3 DEF ConflictRow, Row
      <3>2. ConflictRow(copy).status \in Parsed
        BY <3>1 DEF Parsed
      <3> QED BY <1>1, <1>3, <2>1, <2>2, <2>3, <3>1, <3>2, FlagFlush
    <2>4. ASSUME UNCHANGED db PROVE FInv'
      BY <1>3, <2>1, <2>4, FlagMove
    <2> QED BY <1>6, <2>3, <2>4 DEF AutoConflict
  <1>7. CASE SyncWorkflow(h)
    <2> DEFINE synced == SyncedIssues(mine, issues[r])
               state  == ApplyState(mine, synced)
               row    == IF At(h, "undone") THEN [state EXCEPT !.stored = "staging"] ELSE state
    <2>1. PICK step : Save(h, row, step)
      BY <1>2, <1>7 DEF SyncWorkflow, At
    <2> DEFINE j == IF step = "idle" THEN Idle ELSE [job[h] EXCEPT !.at = step, !.mine = row]
    <2>a. state.meta = mine.meta
      BY <1>2, SameFactsKept DEF SameFacts
    <2>b. row.meta = state.meta /\ row.status = state.status
      BY <1>2 DEF ApplyState, Row
    <2>2. row.meta = mine.meta
      BY <2>a, <2>b
    <2>3. issues' = [issues EXCEPT ![r] = synced]
      BY <1>7 DEF SyncWorkflow
    <2>4. db' = [db EXCEPT ![r] = Merge(@, mine, row)] /\ job' = [job EXCEPT ![h] = j]
      BY <2>1 DEF Save
    <2>5. j.at = "idle" \/ j.mine = row
      BY <1>2 DEF Job, Idle
    <2>6. ASSUME NEW q \in Reports, NEW k \in BlockingKinds, issues'[q][k] = "open"
          PROVE  issues[q][k] = "open" \/ (q = r /\ k \in db[q].meta.attention)
      <3>1. issues'[q] = IF q = r THEN synced ELSE issues[q]
        BY <2>3 DEF FInv, RInv, TInv, TypeOK
      <3>2. k \in Kinds
        BY DEF Kinds
      <3>3. q = r => issues[r][k] = "open" \/ k \in mine.meta.attention
        BY <2>6, <3>1, <3>2, SyncedOpens
      <3>4. k \in mine.meta.attention => k \in db[r].meta.attention
        BY <1>2 DEF Bare, SameFacts
      <3> QED BY <2>6, <3>1, <3>3, <3>4
    <2>7. row.status = mine.status \/ (row.status \in Parsed /\ mine.status \in Parsed)
      <3>1. CASE mine.status \in {"published", "withdrawn", "parsing", "parse_failed"}
        BY <2>b, <3>1 DEF ApplyState
      <3>2. CASE mine.status \notin {"published", "withdrawn", "parsing", "parse_failed"}
        <4>1. mine.status \in Parsed /\ mine.interp \in {"ready", "needs_attention"}
          BY <1>2, <1>7, <3>2 DEF SyncWorkflow, At, Follows, Sound
        <4>2. WorkflowStatus(mine, synced) \in Parsed
          BY <3>2, <4>1 DEF WorkflowStatus, Parsed
        <4>3. state = [mine EXCEPT !.status = WorkflowStatus(mine, synced)]
          BY <3>2 DEF ApplyState
        <4>4. row.status = WorkflowStatus(mine, synced)
          BY <1>2, <2>b, <4>3 DEF Row
        <4> QED BY <4>1, <4>2, <4>4
      <3> QED BY <3>1, <3>2
    <2> HIDE DEF row, state, synced, j
    <2>8. j.at # "idle" => Bare(j.mine)
      BY <1>2, <2>2, <2>5, <2>7 DEF Bare
    <2> QED BY <1>1, <1>2, <2>2, <2>4, <2>6, <2>7, <2>8, FlagFlush
  <1>8. CASE Ready(h)
    <2>1. ReadyAllowed(mine) => mine.status \in Parsed
      BY <1>2, OnlyWithFacts DEF ReadyAllowed
    <2> QED BY <1>4, <1>5, <1>8, <2>1 DEF Ready, Parsed
  <1>9. CASE Withdraw(h)
    <2>1. CanTransition(mine, "withdrawn") => mine.status \in Parsed
      BY <1>2, OnlyWithFacts
    <2> QED BY <1>4, <1>5, <1>9, <2>1 DEF Withdraw, Parsed
  <1>10. CASE ResolveTerm(h)
    <2>1. PICK left \in {"none", "few", "many"} : db' = [db EXCEPT ![r].terms = left]
      BY <1>10 DEF ResolveTerm
    <2> DEFINE new == [db[r] EXCEPT !.terms = left]
    <2>2. new.meta = db[r].meta /\ new.status = db[r].status
      BY <1>2 DEF Row
    <2>3. db' = [db EXCEPT ![r] = new] /\ job' = [job EXCEPT ![h] = Idle] /\ UNCHANGED issues
      BY <1>10, <2>1 DEF ResolveTerm, Goto
    <2> HIDE DEF new
    <2>4. Bare(new)
      BY <1>2, <2>2 DEF Bare
    <2> QED BY <1>2, <1>3, <2>2, <2>3, <2>4, FlagWrite
  <1> QED BY <1>6, <1>7, <1>8, <1>9, <1>10

\* A publication is prepared or given up.
LEMMA FlagPromotion ==
    ASSUME FInv, RInv', NEW h \in Handlers,
           \/ AutoDecide(h) \/ PublishValidate(h) \/ Promote(h) \/ HistoryConflict(h)
           \/ PublishCommitFails(h) \/ Undo(h) \/ ResolveRefused(h) \/ DecideUnknown(h)
    PROVE  FInv'
  <1>1. Busy(h) /\ UNCHANGED <<db, issues>>
    BY DEF AutoDecide, PublishValidate, Promote, HistoryConflict, PublishCommitFails, Undo,
           ResolveRefused, DecideUnknown, At, Busy
  <1>2. \E step : Goto(h, step) \/ Reload(h, step)
    BY DEF AutoDecide, PublishValidate, Promote, HistoryConflict, PublishCommitFails, Undo,
           ResolveRefused, DecideUnknown
  <1> QED BY <1>1, <1>2, FlagGoto

\* A request begins with the row as it is.
LEMMA FlagRequest ==
    ASSUME FInv, RInv', NEW h \in Handlers, Request(h)
    PROVE  FInv'
  <1>1. PICK op \in Ops, r \in Reports :
           Begin(h, op, r) \/ UploadNew(h, op, r) \/ UploadDuplicate(h, op, r)
    BY DEF Request
  <1>2. Bare(db[r])
    BY DEF FInv
  <1>3. UNCHANGED issues
    BY <1>1 DEF Begin, UploadNew, UploadDuplicate
  <1>4. CASE Begin(h, op, r) \/ UploadDuplicate(h, op, r)
    <2>1. PICK step : job' = [job EXCEPT ![h] = [op |-> op, at |-> step, r |-> r, mine |-> db[r]]]
      BY <1>4 DEF Begin, UploadDuplicate
    <2>2. UNCHANGED db
      BY <1>4 DEF Begin, UploadDuplicate
    <2> QED BY <1>2, <1>3, <2>1, <2>2, FlagMove
  <1>5. CASE UploadNew(h, op, r)
    <2>1. PICK step : job' = [job EXCEPT ![h] = [op |-> op, at |-> step, r |-> r, mine |-> FreshRow]]
      BY <1>5 DEF UploadNew
    <2>2. db' = [db EXCEPT ![r] = FreshRow] /\ db[r].status = "absent"
      BY <1>5 DEF UploadNew, Exists
    <2>3. Bare(FreshRow) /\ db[r].meta.attention = {}
      BY <1>2, <2>2 DEF Bare, FreshRow, Parsed
    <2> QED BY <1>3, <2>1, <2>2, <2>3, FlagWrite
  <1> QED BY <1>1, <1>4, <1>5

\* Every step of racing requests keeps the items of the open issues.
LEMMA FlagNext == Ops \subseteq RaceOps /\ FInv /\ [Next]_vars => FInv'
  <1> SUFFICES ASSUME Ops \subseteq RaceOps, FInv, [Next]_vars PROVE FInv'
    OBVIOUS
  <1>0. RInv'
    BY RaceNext DEF FInv
  <1>1. ASSUME NEW h \in Handlers, Request(h) PROVE FInv'
    BY <1>0, <1>1, FlagRequest
  <1>2. ASSUME NEW h \in Handlers, Step(h) PROVE FInv'
    <2>1. CASE PublishCommit(h)
      BY <1>0, <2>1, FlagCommit
    <2>2. ASSUME \/ (\E kind \in Kinds : Decide(h, kind)) \/ Patch(h)
                 \/ ReconcileStart(h) \/ ReconcileRebuild(h) \/ ReconcileRestore(h)
          PROVE  FALSE
      <3>1. Busy(h)
        BY <2>2 DEF Decide, Patch, ReconcileStart, ReconcileRebuild, ReconcileRestore, At, Busy
      <3>2. OnRoute(job[h].op, job[h].at)
        BY <3>1, RaceWork DEF FInv, Follows
      <3> QED BY <2>2, <3>2 DEF Decide, Patch, ReconcileStart, ReconcileRebuild,
                                ReconcileRestore, At, OnRoute
    <2> QED BY <1>0, <1>2, <2>1, <2>2, FlagInterpretation, FlagReview, FlagPromotion DEF Step
  <1>3. ASSUME NEW died, Crash(died) PROVE FInv'
    <2>1. UNCHANGED <<db, issues>> /\ \A g \in Handlers : job'[g] = job[g] \/ job'[g].at = "idle"
      BY <1>3 DEF Crash, Idle
    <2>2. \A g \in Handlers : Busy(g)' => Bare(job'[g].mine)
      BY <2>1 DEF FInv, Busy
    <2> QED BY <1>0, <2>1, <2>2 DEF FInv, OpenIsFlagged, Bare
  <1>4. CASE UNCHANGED vars
    BY <1>0, <1>4 DEF vars, FInv, OpenIsFlagged, Bare, Busy
  <1> QED BY <1>1, <1>2, <1>3, <1>4 DEF Next

\* Without decisions and edits, no report is published over an open issue that
\* must be handled, whatever copies the requests hold (_validate_publishable looks
\* at the metadata only): resolve, which drops items of other issues, is what the
\* failing run needs.
THEOREM RaceRequired ==
    ASSUME Ops \subseteq RaceOps
    PROVE  Spec => []RequiredIssueBlocks
  <1>1. Init => FInv
    <2> SUFFICES ASSUME Init PROVE FInv
      OBVIOUS
    <2>1. RInv /\ \A h \in Handlers : ~Busy(h)
      BY RaceInit DEF Init, Idle, Busy
    <2>2. \A r \in Reports : Bare(db[r]) /\ OpenIsFlagged(r)
      BY DEF Init, AbsentRow, FreshRow, Bare, OpenIsFlagged, NoIssues, Kinds
    <2> QED BY <2>1, <2>2 DEF FInv
  <1>2. FInv => RequiredIssueBlocks
    BY DEF FInv, RInv, Sound, Vetted, Trusted, HasBlocking, OpenIsFlagged, RequiredIssueBlocks, Published, Open
  <1> QED BY <1>1, FlagNext, <1>2, PTL DEF Spec

----------------------------------------------------------------------------
(* Publication happens once.                                                *)

\* Requests among which a published report is never taken back.
OnceOps == {"upload", "publish", "withdraw", "term"}

\* Statuses of a publication, and those that it may start from.
Gone    == {"published", "withdrawn"}
Pending == {"needs_review", "ready_to_publish"}

\* The name of the file tells whether the report has been published.
Settled(row) == row.status \in Gone <=> row.stored = "published"

\* A row that a sync of the review leaves as it is.
Quiet(row, known) ==
    \/ row.status \in Gone
    \/ row.status \in Pending /\ WorkflowStatus(row, SyncedIssues(row, known)) = row.status

\* Somebody beside the upload may still publish the report.
Keen(r) == \E g \in Handlers : /\ Busy(g) /\ job[g].op \notin Uploads /\ job[g].r = r
                               /\ job[g].mine.status \in Pending

\* An upload of r, which nobody else may publish, works on the status that is
\* stored; otherwise it has nothing to change.
Harmless(j) ==
    \/ /\ ~Keen(j.r) /\ db[j.r].status = j.mine.status
       /\ j.at = "auto" => j.mine.status = "needs_review"
    \/ /\ Quiet(j.mine, issues[j.r])
       /\ j.at \notin {"auto", "promote", "commit", "undo", "abort"}
       /\ db[j.r].status \in Gone \cup {j.mine.status}

\* A report that nobody uploads has been synced before it may be published.
Rested(r) == (/\ db[r].status \in Pending
              /\ \A h \in Handlers : job[h].op \in Uploads => job[h].r # r)
                 => Quiet(db[r], issues[r])

\* No sync of r changes a status under a publication.
Calm(r) == /\ Keen(r) => Quiet(db[r], issues[r])
           /\ Rested(r)
           /\ \A h \in Handlers : (job[h].op \in Uploads /\ job[h].r = r) => Harmless(job[h])

\* A commit has failed: the file has been renamed, the row does not say so, and
\* no publication of r succeeds again.
Stuck(r) == /\ db[r].stored = "staging" /\ pdf[r] = "published"
            /\ \A h \in Handlers : At(h, "commit") => job[h].r # r

\* What is published is published once.
PublishesOnce(r) == /\ Settled(db[r])
                    /\ events[r] # 0 => db[r].stored = "published"
                    /\ events[r] <= 1
                    /\ Stuck(r) \/ Calm(r)

EachOnce == \A r \in Reports : PublishesOnce(r)

CopiesSettled == \A h \in Handlers : Busy(h) => Settled(job[h].mine)

\* A handler that may publish r.
Rival(h, r) == Publishing(h, r) /\ job[h].mine.status \in Pending

\* Under a commit the file has its new name.  Who may still publish what has been
\* published is alone, is no upload and finds the file promoted: it gives up.
LastRival ==
    \A r \in Reports, h \in Handlers :
       /\ At(h, "commit") /\ job[h].r = r => pdf[r] = "published"
       /\ db[r].stored = "published" /\ Rival(h, r) =>
             /\ pdf[r] = "published" /\ job[h].op = "publish" /\ ~At(h, "commit")
             /\ \A g \in Handlers : Rival(g, r) => g = h

\* No copy is ahead of its row, and no upload takes a published file back.
CopiesFollow ==
    \A h \in Handlers : Busy(h) =>
       /\ job[h].mine.stored = "published" => db[job[h].r].stored = "published"
       /\ ~At(h, "undone")
       /\ At(h, "abort") /\ job[h].op \in Uploads => Stuck(job[h].r)

\* The invariant of racing requests of OnceOps.
OInv == RInv /\ OfOps /\ EachOnce /\ CopiesSettled /\ LastRival /\ CopiesFollow


----------------------------------------------------------------------------
\* Rows that no copy tells apart are quiet together.
LEMMA QuietAlike ==
    ASSUME NEW a, NEW b, NEW known, Alike(a, b)
    PROVE  Quiet(a, known) <=> Quiet(b, known)
  <1>1. SyncedIssues(a, known) = SyncedIssues(b, known)
    BY DEF Alike, SameFacts, SyncedIssues
  <1> DEFINE synced == SyncedIssues(a, known)
  <1>2. WorkflowStatus(a, synced) = WorkflowStatus(b, synced)
    <2> HIDE DEF synced
    <2> QED BY DEF Alike, WorkflowStatus
  <1> QED BY <1>1, <1>2 DEF Quiet, Alike

\* A second sync finds nothing to do.
LEMMA SyncedAgain ==
    ASSUME NEW a, NEW b, NEW known, SameFacts(a, b)
    PROVE  SyncedIssues(b, SyncedIssues(a, known)) = SyncedIssues(a, known)
  <1> DEFINE once == SyncedIssues(a, known)
  <1>1. \A k \in Kinds :
           once[k] = LET seen == IF known[k] = "none" /\ k \in a.meta.attention
                                 THEN "open" ELSE known[k]
                     IN  IF seen = "open" /\ k \in DateKinds /\ a.confirmed # "no"
                         THEN "resolved" ELSE seen
    BY DEF SyncedIssues
  <1>2. once = [k \in Kinds |-> once[k]]
    BY DEF SyncedIssues
  <1> HIDE DEF once
  <1>3. SyncedIssues(b, once) = [k \in Kinds |-> once[k]]
    BY <1>1 DEF SyncedIssues, SameFacts
  <1> QED BY <1>2, <1>3 DEF once

\* The status that the review gives to an interpreted report that nobody has
\* published depends on the issues alone.
LEMMA ReviewedStatus ==
    ASSUME NEW a, NEW b, NEW known,
           a.status \in Pending \cup {"blocked"}, a.interp \in {"ready", "needs_attention"},
           b.status \in Pending \cup {"blocked"}, b.interp \in {"ready", "needs_attention"}
    PROVE  /\ WorkflowStatus(a, known) = WorkflowStatus(b, known)
           /\ WorkflowStatus(a, known) \in Pending \cup {"blocked"}
  BY DEF WorkflowStatus, Pending

----------------------------------------------------------------------------
(* What a step other than a publication does to its row.                    *)

\* What a request may do to its row, publication aside.
Touch(row, new) == /\ new \in Row /\ new.current = row.current /\ new.stored = row.stored
                   /\ new.status = "published" => row.status = "published"
                   /\ row.status # "absent" => new.status # "absent"
                   /\ row.status \in Gone => new.date = row.date

Touched(h) == \/ UNCHANGED db
              \/ \E new : /\ Touch(db[job[h].r], new)
                          /\ db' = [db EXCEPT ![job[h].r] = new]

\* A copy is flushed that no rule has published, redated or demoted.
LEMMA FlushTouches ==
    ASSUME RInv, NEW h \in Handlers, Busy(h), NEW copy \in Row, NEW row, Keeps(copy, row),
           row.current = copy.current,
           db[job[h].r].status \in Gone => row.date = copy.date,
           db' = [db EXCEPT ![job[h].r] = Merge(@, copy, row)]
    PROVE  Touched(h)
  <1> DEFINE r   == job[h].r
             new == Merge(db[r], copy, row)
  <1>1. r \in Reports /\ db[r] \in Row /\ db[r].status # "absent" /\ row \in Row
    BY RaceWork DEF Keeps, Exists
  <1>2. new \in Row
    BY <1>1, MergeIsRow
  <1>3. /\ new.status = IF row.status # copy.status THEN row.status ELSE db[r].status
        /\ new.date = IF row.date # copy.date THEN row.date ELSE db[r].date
        /\ new.current = IF row.current # copy.current THEN row.current ELSE db[r].current
        /\ new.stored = IF row.stored # copy.stored THEN row.stored ELSE db[r].stored
    BY DEF Merge
  <1>4. db' = [db EXCEPT ![r] = new]
    OBVIOUS
  <1> HIDE DEF new
  <1>5. Touch(db[r], new)
    <2>1. new.status # "absent"
      BY <1>1, <1>3 DEF Keeps, Row, Statuses
    <2> QED BY <1>1, <1>2, <1>3, <2>1 DEF Touch, Keeps
  <1> QED BY <1>4, <1>5 DEF Touched

\* The upload interprets its file, which is not published.
LEMMA InterpretationTouches ==
    ASSUME RInv, NEW h \in Handlers,
           \/ ParseStart(h) \/ ParseEnd(h) \/ ParseFail(h) \/ ApplyMd(h)
           \/ CheckHint(h) \/ ParseStructure(h)
    PROVE  Touched(h)
  <1> DEFINE r    == job[h].r
             mine == job[h].mine
  <1>1. Busy(h) /\ job[h].at \in Interpreting
    BY DEF ParseStart, ParseEnd, ParseFail, ApplyMd, CheckHint, ParseStructure, At, Busy,
           Interpreting
  <1>2. /\ db[r] \in Row /\ mine \in Row /\ r \in Reports /\ mine.status # "absent"
        /\ Alike(mine, db[r]) /\ db[r].status \notin Gone /\ db[r].status # "absent"
    BY <1>1, RaceWork DEF Follows, Alike, Interpreting, Unparsed, Gone, Exists
  <1>3. ASSUME NEW row, Keeps(mine, row), row.current = mine.current, NEW step, Save(h, row, step)
        PROVE  Touched(h)
    <2>1. db' = [db EXCEPT ![r] = Merge(@, mine, row)]
      BY <1>3 DEF Save
    <2> QED BY <1>1, <1>2, <1>3, <2>1, FlushTouches
  <1>4. Keeps(mine, mine)
    BY <1>2 DEF Keeps
  <1> HIDE DEF mine, r
  <1>5. CASE ParseStart(h)
    <2>1. Keeps(mine, ParseStarted(mine)) /\ ParseStarted(mine).current = mine.current
      BY <1>2, ParsingKeeps, ParsedColumns
    <2> QED BY <1>3, <1>5, <2>1 DEF ParseStart, Touched, mine
  <1>6. CASE ParseEnd(h)
    <2>1. PICK found \in ParseOutcomes : \E step : Save(h, ParsedRow(mine, found), step)
      BY <1>6 DEF ParseEnd, mine
    <2>2. Keeps(mine, ParsedRow(mine, found)) /\ ParsedRow(mine, found).current = mine.current
      BY <1>2, ConfigAssumption, ParsingKeeps, ParsedColumns
    <2> QED BY <1>3, <2>1, <2>2
  <1>7. CASE ParseFail(h)
    <2> DEFINE failed == ParseFailedRow(db[r])
    <2>1. Keeps(db[r], failed) /\ failed.current = db[r].current
      BY <1>2, ParsingKeeps, ParsedColumns
    <2>2. db' = [db EXCEPT ![r] = failed]
      BY <1>7 DEF ParseFail, r
    <2> HIDE DEF failed
    <2>3. Touch(db[r], failed)
      BY <1>2, <2>1 DEF Touch, Keeps
    <2> QED BY <2>2, <2>3 DEF Touched, r
  <1>8. CASE ApplyMd(h)
    <2>1. PICK date \in Dates : \E step : Save(h, MdRow(mine, date), step)
      BY <1>8 DEF ApplyMd, mine
    <2>2. Keeps(mine, MdRow(mine, date)) /\ MdRow(mine, date).current = mine.current
      BY <1>2, ParsingKeeps, ParsedColumns
    <2> QED BY <1>3, <2>1, <2>2
  <1>9. CASE CheckHint(h)
    <2>1. Keeps(mine, HintRefused(mine)) /\ HintRefused(mine).current = mine.current
      BY <1>2, ParsingKeeps, ParsedColumns
    <2> QED BY <1>3, <1>9, <2>1 DEF CheckHint, Touched, mine
  <1>10. CASE ParseStructure(h)
    <2>1. PICK row \in {mine, Flagged(mine, "same_date_pdf_conflict")} : \E step : Save(h, row, step)
      BY <1>10 DEF ParseStructure, mine
    <2>2. "same_date_pdf_conflict" \in Kinds
      BY DEF Kinds, BlockingKinds
    <2>3. Keeps(mine, row) /\ row.current = mine.current
      BY <1>2, <1>4, <2>1, <2>2, ParsingKeeps, ParsedColumns
    <2> QED BY <1>3, <2>1, <2>3
  <1> QED BY <1>5, <1>6, <1>7, <1>8, <1>9, <1>10

\* A report is blocked, synced, readied or withdrawn, or a term is mapped.
LEMMA ReviewTouches ==
    ASSUME RInv, NEW h \in Handlers, ~At(h, "undone"),
           AutoConflict(h) \/ SyncWorkflow(h) \/ Ready(h) \/ Withdraw(h) \/ ResolveTerm(h)
    PROVE  Touched(h)
  <1> DEFINE r    == job[h].r
             mine == job[h].mine
  <1>1. Busy(h)
    BY DEF AutoConflict, SyncWorkflow, Ready, Withdraw, ResolveTerm, At, Busy
  <1>2. /\ db[r] \in Row /\ mine \in Row /\ r \in Reports /\ mine.status # "absent"
        /\ db[r].status # "absent" /\ Sound(mine) /\ job[h].at # "resolve"
    BY <1>1, RaceWork DEF Follows, Exists, OnRoute
  <1>3. ASSUME NEW copy \in Row, NEW row, Keeps(copy, row), row.current = copy.current,
               row.date = copy.date, db' = [db EXCEPT ![r] = Merge(@, copy, row)]
        PROVE  Touched(h)
    BY <1>1, <1>3, FlushTouches
  <1> HIDE DEF mine, r
  <1>4. CASE AutoConflict(h)
    <2>1. ASSUME NEW copy \in Row PROVE Keeps(copy, ConflictRow(copy))
      BY <2>1 DEF Keeps, ConflictRow, Row, Statuses
    <2>2. ASSUME NEW copy \in Row
          PROVE  ConflictRow(copy).current = copy.current /\ ConflictRow(copy).date = copy.date
      BY <2>2 DEF ConflictRow, Row
    <2>3. \/ UNCHANGED db
          \/ \E copy \in {mine, db[r]} : db' = [db EXCEPT ![r] = Merge(@, copy, ConflictRow(copy))]
      BY <1>4 DEF AutoConflict, mine, r
    <2> QED BY <1>2, <1>3, <2>1, <2>2, <2>3 DEF Touched
  <1>5. ASSUME NEW status \in Statuses \ {"published"}, NEW step,
               Save(h, [mine EXCEPT !.status = status], step)
        PROVE  Touched(h)
    <2> DEFINE row == [mine EXCEPT !.status = status]
    <2>1. Keeps(mine, row)
      BY <1>2, <1>5, StatusColumn DEF Keeps, Statuses
    <2>2. row.current = mine.current /\ row.date = mine.date
      BY <1>2 DEF Row
    <2>3. db' = [db EXCEPT ![r] = Merge(@, mine, row)]
      BY <1>5 DEF Save, mine, r
    <2> QED BY <1>2, <1>3, <2>1, <2>2, <2>3
  <1>6. CASE SyncWorkflow(h)
    <2>1. PICK step : Save(h, ApplyState(mine, SyncedIssues(mine, issues[r])), step)
      BY <1>2, <1>6 DEF SyncWorkflow, At, mine, r
    <2> DEFINE synced == SyncedIssues(mine, issues[r])
               row    == ApplyState(mine, synced)
    <2>2. synced \in [Kinds -> IssueState]
      BY <1>2, SyncedIsIssues DEF RInv, TInv, TypeOK
    <2>3. row.date = mine.date
      BY <1>2, SameFactsKept DEF SameFacts
    <2> HIDE DEF synced
    <2>4. Keeps(mine, row)
      BY <1>2, <2>2, ReviewKeeps
    <2>5. row.current = mine.current
      BY <1>2 DEF ApplyState, Row
    <2>6. db' = [db EXCEPT ![r] = Merge(@, mine, row)]
      BY <2>1 DEF Save, mine, r, synced
    <2> QED BY <1>2, <1>3, <2>3, <2>4, <2>5, <2>6
  <1>7. CASE Ready(h)
    BY <1>5, <1>7 DEF Ready, Statuses, Touched, mine
  <1>8. CASE Withdraw(h)
    BY <1>5, <1>8 DEF Withdraw, Statuses, Touched, mine
  <1>9. CASE ResolveTerm(h)
    <2>1. PICK left \in {"none", "few", "many"} : db' = [db EXCEPT ![r].terms = left]
      BY <1>9 DEF ResolveTerm, r
    <2>2. Touch(db[r], [db[r] EXCEPT !.terms = left])
      BY <1>2 DEF Touch, Row
    <2>3. db' = [db EXCEPT ![r] = [db[r] EXCEPT !.terms = left]]
      BY <2>1
    <2> QED BY <2>2, <2>3 DEF Touched, r
  <1> QED BY <1>4, <1>6, <1>7, <1>8, <1>9

\* A step that is no publication touches the row of its report at most.
LEMMA StepTouches ==
    ASSUME Ops \subseteq RaceOps, RInv, NEW h \in Handlers, Step(h), ~PublishCommit(h),
           ~At(h, "undone")
    PROVE  Busy(h) /\ Touched(h)
  <1>1. Busy(h)
    BY DEF Step, At, Busy, ParseStart, ParseEnd, ParseFail, ApplyMd, CheckHint,
           ParseStructure, AutoConflict, AutoDecide, PublishValidate, Promote,
           HistoryConflict, PublishCommit, PublishCommitFails, Undo, SyncWorkflow,
           ResolveRefused, DecideUnknown, Decide, Patch, Ready, Withdraw, ResolveTerm,
           ReconcileStart, ReconcileRebuild, ReconcileRestore
  <1>2. OnRoute(job[h].op, job[h].at)
    BY <1>1, RaceWork DEF Follows
  <1>3. \/ ParseStart(h) \/ ParseEnd(h) \/ ParseFail(h) \/ ApplyMd(h)
        \/ CheckHint(h) \/ ParseStructure(h)
        \/ AutoConflict(h) \/ SyncWorkflow(h) \/ Ready(h) \/ Withdraw(h) \/ ResolveTerm(h)
        \/ UNCHANGED db
    <2>1. ASSUME \/ (\E kind \in Kinds : Decide(h, kind)) \/ Patch(h)
                 \/ ReconcileStart(h) \/ ReconcileRestore(h)
          PROVE  FALSE
      BY <1>2, <2>1 DEF Decide, Patch, ReconcileStart, ReconcileRestore, At, OnRoute
    <2>2. ASSUME \/ AutoDecide(h) \/ PublishValidate(h) \/ Promote(h) \/ HistoryConflict(h)
                 \/ PublishCommitFails(h) \/ ResolveRefused(h) \/ DecideUnknown(h)
                 \/ ReconcileRebuild(h) \/ Undo(h)
          PROVE  UNCHANGED db
      BY <2>2 DEF AutoDecide, PublishValidate, Promote, HistoryConflict, PublishCommitFails, Undo,
                  ResolveRefused, DecideUnknown, ReconcileRebuild
    <2> QED BY <2>1, <2>2 DEF Step
  <1> QED BY <1>1, <1>3, InterpretationTouches, ReviewTouches DEF Touched

----------------------------------------------------------------------------
(* What a step may do to the invariant.                                     *)

\* A handler at work.
LEMMA OnceWork ==
    ASSUME OInv, Ops \subseteq OnceOps, NEW h \in Handlers, Busy(h)
    PROVE  LET r == job[h].r
               mine == job[h].mine IN
           /\ r \in Reports /\ db[r] \in Row /\ mine \in Row /\ job[h] \in Job /\ PublishesOnce(r)
           /\ Settled(mine) /\ Sound(mine) /\ Sound(db[r])
           /\ mine.stored = "published" => db[r].stored = "published"
           /\ mine.status \in Gone => db[r].status \in Gone
           /\ Follows(job[h], db[r])
           /\ \/ job[h].op = "upload"
              \/ job[h].op = "publish" /\ job[h].at \in {"validate", "promote", "commit", "abort"}
              \/ job[h].op \in {"withdraw", "term"} /\ job[h].at = job[h].op
           /\ ~At(h, "undone")
           /\ job[h].at \in {"promote", "commit", "undo", "abort"} =>
                 mine.status \in Pending /\ mine.stored = "staging" /\ Rival(h, r)
           /\ job[h].op \in Uploads => \A g \in Handlers \ {h} : job[g].op \notin Uploads
  <1> DEFINE r == job[h].r
             mine == job[h].mine
  <1>1. /\ r \in Reports /\ db[r] \in Row /\ Sound(db[r]) /\ job[h] \in Job /\ mine \in Row
        /\ Follows(job[h], db[r])
    BY RaceWork DEF OInv
  <1>2. job[h].op \in OnceOps /\ Settled(mine) /\ PublishesOnce(r)
    BY <1>1 DEF OInv, OfOps, EachOnce, CopiesSettled
  <1>3. mine.stored = "published" => db[r].stored = "published"
    BY DEF OInv, CopiesFollow
  <1>4. mine.status \in Gone => db[r].status \in Gone
    BY <1>2, <1>3 DEF PublishesOnce, Settled
  <1>5. \/ job[h].op = "upload"
        \/ job[h].op = "publish" /\ job[h].at \in {"validate", "promote", "commit", "abort"}
        \/ job[h].op \in {"withdraw", "term"} /\ job[h].at = job[h].op
    BY <1>1, <1>2 DEF Follows, OnRoute, OnceOps
  <1>6. job[h].op \in Uploads => \A g \in Handlers \ {h} : job[g].op \notin Uploads
    BY DEF OInv, RInv, OneUpload
  <1>7. ~At(h, "undone")
    BY DEF OInv, CopiesFollow
  <1>8. ASSUME job[h].at \in {"promote", "commit", "undo", "abort"}
        PROVE  mine.status \in Pending /\ mine.stored = "staging" /\ Rival(h, r)
    <2>1. mine.status \in Pending
      BY <1>1, <1>8 DEF Follows, Publishable, Pending
    <2>2. mine.stored = "staging"
      BY <1>1, <1>2, <2>1 DEF Settled, Pending, Gone, Row
    <2> QED BY <1>8, <2>1, <2>2 DEF Rival, Publishing
  <1> QED BY <1>1, <1>2, <1>3, <1>4, <1>5, <1>6, <1>7, <1>8 DEF Follows

\* Nobody else may publish what an upload interprets.
LEMMA NobodyKeen ==
    ASSUME OInv, NEW h \in Handlers, Busy(h), job[h].op \in Uploads, job[h].at \in Interpreting
    PROVE  ~Keen(job[h].r)
  <1> SUFFICES ASSUME NEW g \in Handlers, Busy(g), job[g].op \notin Uploads, job[g].r = job[h].r,
                      job[g].mine.status \in Pending
               PROVE  FALSE
    BY DEF Keen
  <1>1. job[g].mine.status \in Parsed /\ g # h
    BY DEF Pending, Parsed
  <1> QED BY <1>1 DEF OInv, RInv, Alone

\* A report whose row no copy tells from what it was.
LEMMA CalmStays ==
    ASSUME RInv, NEW h \in Handlers, NEW j, job' = [job EXCEPT ![h] = j],
           NEW q \in Reports, Calm(q), Alike(db[q], db'[q]), issues'[q] = issues[q],
           (j.at # "idle" /\ j.op \notin Uploads /\ j.r = q /\ j.mine.status \in Pending) =>
              Keen(q) \/ (LoopFree /\ Quiet(db[q], issues[q])),
           (j.op \in Uploads /\ j.r = q) => Harmless(j),
           (job[h].op \in Uploads /\ job[h].r = q /\ ~(j.op \in Uploads /\ j.r = q)) =>
              (db[q].status \in Pending => Quiet(db[q], issues[q]))
    PROVE  Calm(q)'
  <1>1. \A g \in Handlers : job'[g] = IF g = h THEN j ELSE job[g]
    BY DEF RInv, TInv, TypeOK
  <1>2. Quiet(db'[q], issues'[q]) <=> Quiet(db[q], issues[q])
    BY QuietAlike
  <1>3. Keen(q)' => Keen(q) \/ (LoopFree /\ Quiet(db[q], issues[q]))
    BY <1>1 DEF Keen, Busy
  <1>4. db'[q].status = db[q].status
    BY DEF Alike
  <1>5. Rested(q)'
    BY <1>1, <1>2, <1>4 DEF Rested, Calm
  <1>6. ASSUME NEW g \in Handlers, job'[g].op \in Uploads, job'[g].r = q
        PROVE  Harmless(job[g])'
    <2>1. Harmless(job'[g])
      BY <1>1, <1>6 DEF Calm
    <2>2. Keen(q)' => Keen(q) \/ (g = h /\ LoopFree /\ Keen(q)')
      BY <1>1, <1>3, <1>6 DEF LoopFree
    <2>3. (g = h /\ LoopFree) => ~(Keen(q)' /\ ~Keen(q))
      BY <1>1, <1>6 DEF Keen, Busy
    <2>4. Keen(q)' => Keen(q)
      BY <2>2, <2>3
    <2> QED BY <1>4, <1>6, <2>1, <2>4 DEF Harmless
  <1>7. Keen(q)' => Quiet(db[q], issues[q])'
    BY <1>2, <1>3 DEF Calm
  <1> QED BY <1>5, <1>6, <1>7 DEF Calm

\* Publication of a report whose commit failed is over.
LEMMA StuckStays ==
    ASSUME RInv, NEW h \in Handlers, NEW j, job' = [job EXCEPT ![h] = j],
           NEW q \in Reports, Stuck(q), db'[q].stored = db[q].stored, pdf'[q] = pdf[q],
           j.at = "commit" => j.r # q
    PROVE  Stuck(q)'
  BY DEF Stuck, At, RInv, TInv, TypeOK

\* Of both.
LEMMA OnceStays ==
    ASSUME RInv, NEW h \in Handlers, NEW j, job' = [job EXCEPT ![h] = j],
           NEW q \in Reports, PublishesOnce(q), Alike(db[q], db'[q]), db'[q].stored = db[q].stored,
           issues'[q] = issues[q], events'[q] = events[q], pdf'[q] = pdf[q],
           j.at = "commit" => j.r # q,
           Calm(q) /\ ~Stuck(q) =>
             /\ (j.at # "idle" /\ j.op \notin Uploads /\ j.r = q /\ j.mine.status \in Pending) =>
                   Keen(q) \/ (LoopFree /\ Quiet(db[q], issues[q]))
             /\ (j.op \in Uploads /\ j.r = q) => Harmless(j)
             /\ (job[h].op \in Uploads /\ job[h].r = q /\ ~(j.op \in Uploads /\ j.r = q)) =>
                   (db[q].status \in Pending => Quiet(db[q], issues[q]))
    PROVE  PublishesOnce(q)'
  <1>1. Settled(db[q]) /\ (Stuck(q) \/ Calm(q))
    BY DEF PublishesOnce
  <1>2. Settled(db[q])'
    BY <1>1 DEF Settled, Alike
  <1>3. CASE Stuck(q)
    <2>1. Stuck(q)'
      BY <1>3, StuckStays
    <2> QED BY <1>2, <2>1 DEF PublishesOnce
  <1>4. CASE Calm(q) /\ ~Stuck(q)
    <2>1. Calm(q)'
      BY <1>4, CalmStays
    <2> QED BY <1>2, <2>1 DEF PublishesOnce
  <1> QED BY <1>1, <1>3, <1>4

\* What a handler does to one report leaves the others alone.
LEMMA OnceElsewhere ==
    ASSUME RInv, NEW h \in Handlers, NEW j, job' = [job EXCEPT ![h] = j],
           NEW q \in Reports, PublishesOnce(q), Alike(db[q], db'[q]), db'[q].stored = db[q].stored,
           issues'[q] = issues[q], events'[q] = events[q], pdf'[q] = pdf[q],
           j.r # q, job[h].r # q \/ job[h].op \notin Uploads
    PROVE  PublishesOnce(q)'
  BY OnceStays

\* Rows are alike to themselves.
LEMMA AlikeSelf == \A row : Alike(row, row)
  BY DEF Alike, SameFacts

\* A handler moves on or is done; its row is alike.
LEMMA OnceMove ==
    ASSUME OInv, Ops \subseteq OnceOps, NEW h \in Handlers, Busy(h),
           NEW j, job' = [job EXCEPT ![h] = j],
           \A q \in Reports : Alike(db[q], db'[q]) /\ db'[q].stored = db[q].stored,
           UNCHANGED <<issues, events, pdf>>,
           \/ /\ j = Idle
              /\ (/\ job[h].op \in Uploads /\ Calm(job[h].r) /\ ~Stuck(job[h].r)
                  /\ db[job[h].r].status \in Pending) =>
                    Quiet(db[job[h].r], issues[job[h].r])
           \/ /\ j.op = job[h].op /\ j.r = job[h].r /\ j.at \notin {"idle", "commit"} /\ Settled(j.mine)
              /\ j.op \notin Uploads => j.mine = job[h].mine
              /\ (j.op \in Uploads /\ Calm(j.r)) => Harmless(j)
    PROVE  EachOnce' /\ CopiesSettled'
  <1>1. job[h].r \in Reports /\ \A g \in Handlers : job'[g] = IF g = h THEN j ELSE job[g]
    BY OnceWork DEF OInv, RInv, TInv, TypeOK
  <1>2. CopiesSettled'
    BY <1>1 DEF OInv, CopiesSettled, Busy, Idle
  <1>3. Idle.at = "idle" /\ Idle.op \notin Uploads /\ Idle.r \notin Reports
    BY ConfigAssumption DEF Idle, Uploads
  <1>4. ASSUME NEW q \in Reports PROVE PublishesOnce(q)'
    <2>1. PublishesOnce(q) /\ RInv
      BY DEF OInv, EachOnce
    <2>2. CASE job[h].r # q
      BY <1>3, <2>1, <2>2, OnceElsewhere
    <2>3. CASE job[h].r = q
      <3>1. (j.at # "idle" /\ j.op \notin Uploads /\ j.r = q /\ j.mine.status \in Pending) => Keen(q)
        BY <1>3, <2>3 DEF Keen
      <3>2. Calm(q) => ((j.op \in Uploads /\ j.r = q) => Harmless(j))
        BY <1>3
      <3>3. Calm(q) /\ ~Stuck(q) => ((job[h].op \in Uploads /\ job[h].r = q /\ ~(j.op \in Uploads /\ j.r = q)) =>
                           (db[q].status \in Pending => Quiet(db[q], issues[q])))
        BY <2>3
      <3>4. j.at = "commit" => j.r # q
        BY <1>3
      <3> QED BY <2>1, <3>1, <3>2, <3>3, <3>4, OnceStays
    <2> QED BY <2>2, <2>3
  <1> QED BY <1>2, <1>4 DEF EachOnce

\* An upload writes its row.
LEMMA OnceWrite ==
    ASSUME OInv, Ops \subseteq OnceOps, NEW h \in Handlers, Busy(h), job[h].op \in Uploads,
           NEW j, job' = [job EXCEPT ![h] = j],
           \A q \in Reports \ {job[h].r} : db'[q] = db[q] /\ issues'[q] = issues[q],
           UNCHANGED <<events, pdf>>,
           db'[job[h].r].stored = db[job[h].r].stored,
           db'[job[h].r].status \in Gone <=> db[job[h].r].status \in Gone,
           \/ /\ j = Idle
              /\ (Calm(job[h].r) /\ (Keen(job[h].r) \/ db'[job[h].r].status \in Pending)) =>
                    Quiet(db'[job[h].r], issues'[job[h].r])
           \/ /\ j.op = job[h].op /\ j.r = job[h].r /\ j.at \notin {"idle", "commit"} /\ Settled(j.mine)
              /\ Calm(j.r) => /\ ~Keen(j.r) /\ db'[j.r].status = j.mine.status
                              /\ j.at = "auto" => j.mine.status = "needs_review"
    PROVE  EachOnce' /\ CopiesSettled'
  <1> PICK r \in Reports : r = job[h].r
    BY OnceWork
  <1>1. /\ PublishesOnce(r) /\ RInv
        /\ \A g \in Handlers : job'[g] = IF g = h THEN j ELSE job[g]
    BY OnceWork DEF OInv, RInv, TInv, TypeOK
  <1>2. CopiesSettled'
    BY <1>1 DEF OInv, CopiesSettled, Busy, Idle
  <1>3. Idle.at = "idle" /\ Idle.op \notin Uploads /\ Idle.r \notin Reports
    BY ConfigAssumption DEF Idle, Uploads
  <1>4. ASSUME NEW q \in Reports \ {r} PROVE PublishesOnce(q)'
    <2>1. PublishesOnce(q) /\ Alike(db[q], db'[q])
      BY AlikeSelf DEF OInv, EachOnce
    <2> QED BY <1>1, <1>3, <2>1, OnceElsewhere
  <1>5. Settled(db[r])'
    BY <1>1 DEF PublishesOnce, Settled
  <1>6. (events[r] # 0 => db[r].stored = "published")' /\ (events[r] <= 1)'
    BY <1>1 DEF PublishesOnce
  <1>7. CASE Stuck(r)
    <2>1. Stuck(r)'
      BY <1>1, <1>3, <1>7, StuckStays
    <2> QED BY <1>2, <1>4, <1>5, <1>6, <2>1 DEF EachOnce, PublishesOnce
  <1>8. CASE Calm(r)
    <2>1. Keen(r)' => Keen(r)
      BY <1>1, <1>3 DEF Keen, Busy, Idle
    <2>2. \A g \in Handlers \ {h} : job[g].op \notin Uploads
      BY OnceWork
    <2>3. CASE j = Idle
      <3>1. \A g \in Handlers : job'[g].op \notin Uploads
        BY <1>1, <1>3, <2>2, <2>3
      <3>2. (Keen(r) \/ db'[r].status \in Pending) => Quiet(db'[r], issues'[r])
        BY <1>3, <1>8, <2>3
      <3>3. Calm(r)'
        BY <2>1, <3>1, <3>2 DEF Calm, Rested
      <3> QED BY <1>2, <1>4, <1>5, <1>6, <3>3 DEF EachOnce, PublishesOnce
    <2>4. CASE j # Idle
      <3>1. /\ j.op \in Uploads /\ j.r = r /\ ~Keen(r) /\ db'[r].status = j.mine.status
            /\ j.at = "auto" => j.mine.status = "needs_review"
        BY <1>8, <2>4
      <3>2. \A g \in Handlers : job'[g].op \in Uploads => g = h /\ job'[g] = j
        BY <1>1, <2>2
      <3>3. job'[h] = j /\ ~Keen(r)'
        BY <1>1, <2>1, <3>1
      <3>4. Rested(r)'
        BY <3>1, <3>3 DEF Rested
      <3>5. ASSUME NEW g \in Handlers, job'[g].op \in Uploads, job'[g].r = r
            PROVE  Harmless(job[g])'
        BY <3>1, <3>2, <3>3, <3>5 DEF Harmless
      <3>6. Calm(r)'
        BY <3>3, <3>4, <3>5 DEF Calm
      <3> QED BY <1>2, <1>4, <1>5, <1>6, <3>6 DEF EachOnce, PublishesOnce
    <2> QED BY <2>3, <2>4
  <1> QED BY <1>1, <1>7, <1>8 DEF PublishesOnce

\* An interpretation commits a row and goes on.
LEMMA OnceInterpret ==
    ASSUME OInv, Ops \subseteq OnceOps, NEW h \in Handlers, Busy(h), job[h].at \in Interpreting,
           job[h].op \in Uploads, job[h].mine.status \notin Gone,
           NEW row \in Row, row.stored = job[h].mine.stored, row.status \notin Gone,
           NEW step \in {"extract", "hint", "structure", "auto", "sync"},
           step = "auto" => row.status = "needs_review",
           Save(h, row, step), UNCHANGED <<issues, events, pdf>>
    PROVE  EachOnce' /\ CopiesSettled'
  <1> DEFINE r == job[h].r
             mine == job[h].mine
             new == Merge(db[r], mine, row)
             j == [job[h] EXCEPT !.at = step, !.mine = row]
  <1>1. /\ r \in Reports /\ db[r] \in Row /\ mine \in Row /\ job[h] \in Job /\ Settled(mine)
        /\ Follows(job[h], db[r]) /\ ~Keen(r)
    BY OnceWork, NobodyKeen
  <1>2. /\ j.at = step /\ j.op = job[h].op /\ j.r = r /\ j.mine = row
        /\ job' = [job EXCEPT ![h] = j] /\ db' = [db EXCEPT ![r] = new]
    BY <1>1 DEF Job, Save
  <1>3. Alike(mine, db[r])
    BY <1>1 DEF Follows
  <1>4. Alike(new, row)
    BY <1>3, MergedColumns
  <1>5. new.stored = db[r].stored
    BY DEF Merge
  <1> HIDE DEF j, new
  <1>6. /\ db'[r] = new
        /\ \A q \in Reports \ {r} : db'[q] = db[q] /\ issues'[q] = issues[q]
    BY <1>1, <1>2 DEF OInv, RInv, TInv, TypeOK
  <1>7. db'[r].stored = db[r].stored /\ db'[r].status = row.status
    BY <1>4, <1>5, <1>6 DEF Alike
  <1>8. db'[r].status \in Gone <=> db[r].status \in Gone
    BY <1>3, <1>7 DEF Alike
  <1>9. Settled(j.mine)
    BY <1>1, <1>2 DEF Settled
  <1> HIDE DEF r, mine
  <1>10. /\ ~Keen(j.r) /\ db'[j.r].status = j.mine.status
         /\ j.at = "auto" => j.mine.status = "needs_review"
    BY <1>1, <1>2, <1>7
  <1>11. j.at \notin {"idle", "commit"}
    BY <1>2
  <1> QED BY <1>2, <1>6, <1>7, <1>8, <1>9, <1>10, <1>11, OnceWrite DEF r

----------------------------------------------------------------------------
(* The actions.                                                             *)

\* The upload interprets its file.
LEMMA OnceInterpretation ==
    ASSUME OInv, Ops \subseteq OnceOps, NEW h \in Handlers,
           \/ ParseStart(h) \/ ParseEnd(h) \/ ParseFail(h) \/ ApplyMd(h)
           \/ CheckHint(h) \/ ParseStructure(h)
    PROVE  EachOnce' /\ CopiesSettled'
  <1> DEFINE mine == job[h].mine
  <1>1. /\ Busy(h) /\ job[h].at \in Interpreting
        /\ UNCHANGED <<issues, events, pdf>>
    BY DEF ParseStart, ParseEnd, ParseFail, ApplyMd, CheckHint, ParseStructure, At, Busy,
           Interpreting
  <1> PICK r \in Reports : r = job[h].r
    BY <1>1, OnceWork
  <1>2. /\ db[r] \in Row /\ mine \in Row /\ job[h] \in Job /\ Settled(mine) /\ Follows(job[h], db[r])
        /\ Sound(mine) /\ Sound(db[r])
    BY <1>1, OnceWork
  <1>3. job[h].op = "upload" /\ "upload" \in Uploads
    BY <1>1, OnceWork DEF Interpreting, Uploads
  <1>4. /\ mine.status # "absent" /\ Alike(mine, db[r]) /\ OnRoute("upload", job[h].at)
        /\ job[h].at \in {"parse", "extract"} => mine.status \in Unparsed
        /\ job[h].at \in {"hint", "structure"} => mine.status = "needs_review"
        /\ mine.status \notin Gone
    BY <1>1, <1>2, <1>3 DEF Follows, OnRoute, Interpreting, Gone, Unparsed
  <1> HIDE DEF mine
  \* It writes a row that is not published.
  <1>5. ASSUME NEW row \in Row, row.stored = mine.stored, row.status \notin Gone,
               NEW step \in {"extract", "hint", "structure", "auto", "sync"},
               step = "auto" => row.status = "needs_review", Save(h, row, step)
        PROVE  EachOnce' /\ CopiesSettled'
    BY <1>1, <1>3, <1>4, <1>5, OnceInterpret DEF mine
  <1>6. CASE ParseStart(h)
    <2>1. mine.status \in {"uploaded", "parsing", "parse_failed"}
      BY <1>4, <1>6 DEF ParseStart, At, Unparsed
    <2>2. CanStartParse(mine)
      BY <2>1 DEF CanStartParse, CanTransition, AllowedTransitions, Statuses
    <2>3. Save(h, ParseStarted(mine), "extract")
      BY <1>6, <2>2 DEF ParseStart, mine
    <2>4. /\ ParseStarted(mine) \in Row /\ ParseStarted(mine).stored = mine.stored
          /\ ParseStarted(mine).status = "parsing"
      BY <1>2, <1>4, ParsingKeeps, ParsedColumns DEF Keeps
    <2> QED BY <1>5, <2>3, <2>4 DEF Gone
  <1>7. CASE ParseEnd(h)
    <2>1. PICK found \in ParseOutcomes : Save(h, ParsedRow(mine, found), "hint")
      BY <1>3, <1>7 DEF ParseEnd, mine
    <2> DEFINE row == ParsedRow(mine, found)
    <2>2. row \in Row /\ row.stored = mine.stored /\ row.status = "needs_review"
      BY <1>2, <1>4, ConfigAssumption, ParsingKeeps, ParsedColumns DEF Keeps
    <2>3. Save(h, row, "hint")
      BY <2>1
    <2> HIDE DEF row
    <2> QED BY <1>5, <2>2, <2>3 DEF Gone
  <1>8. CASE ParseFail(h)
    <2> DEFINE failed == ParseFailedRow(db[r])
               j == [job[h] EXCEPT !.at = "sync", !.mine = failed]
    <2>1. db' = [db EXCEPT ![r] = failed] /\ job' = [job EXCEPT ![h] = j]
      BY <1>3, <1>8 DEF ParseFail
    <2>2. j.at = "sync" /\ j.op = job[h].op /\ j.r = r /\ j.mine = failed
      BY <1>2 DEF Job
    <2>3. db[r].status # "absent" /\ db[r].status = mine.status
      BY <1>4 DEF Alike
    <2>a. Keeps(db[r], failed)
      BY <1>2, <2>3, ParsingKeeps
    <2>b. failed.status = "parse_failed"
      BY <1>2, ParsedColumns
    <2>4. failed.stored = db[r].stored /\ failed.status = "parse_failed"
      BY <2>a, <2>b DEF Keeps
    <2> HIDE DEF failed, j
    <2>5. /\ db'[r] = failed
          /\ \A q \in Reports \ {r} : db'[q] = db[q] /\ issues'[q] = issues[q]
      BY <1>1, <2>1 DEF OInv, RInv, TInv, TypeOK
    <2>6. Settled(db[r])
      BY <1>1, OnceWork DEF PublishesOnce
    <2>7. Settled(j.mine)
      BY <1>4, <2>2, <2>3, <2>4, <2>6 DEF Settled, Gone
    <2>8. db'[r].status \in Gone <=> db[r].status \in Gone
      BY <1>4, <2>3, <2>4, <2>5 DEF Gone
    <2>9. ~Keen(j.r)
      BY <1>1, <1>3, <2>2, NobodyKeen
    <2>10. /\ j.op = job[h].op /\ j.r = job[h].r /\ j.at \notin {"idle", "commit"} /\ Settled(j.mine)
           /\ Calm(j.r) => /\ ~Keen(j.r) /\ db'[j.r].status = j.mine.status
                           /\ j.at = "auto" => j.mine.status = "needs_review"
      BY <2>2, <2>5, <2>7, <2>9
    <2>11. db'[r].stored = db[r].stored
      BY <2>4, <2>5
    <2>12. /\ job[h].op \in Uploads /\ UNCHANGED <<events, pdf>>
           /\ \A q \in Reports \ {job[h].r} : db'[q] = db[q] /\ issues'[q] = issues[q]
      BY <1>1, <1>3, <2>5
    <2> QED BY <1>1, <2>1, <2>8, <2>10, <2>11, <2>12, OnceWrite
  <1>9. CASE ApplyMd(h)
    BY <1>4, <1>9 DEF ApplyMd, At, OnRoute
  <1>10. CASE CheckHint(h)
    <2>1. CASE Save(h, HintRefused(mine), "structure")
      <3>1. /\ HintRefused(mine) \in Row /\ HintRefused(mine).stored = mine.stored
            /\ HintRefused(mine).status = mine.status
        BY <1>2, <1>4, ParsingKeeps, ParsedColumns DEF Keeps
      <3> QED BY <1>4, <1>5, <2>1, <3>1
    <2>2. CASE Goto(h, "structure") /\ UNCHANGED db
      <3> DEFINE j == [job[h] EXCEPT !.at = "structure"]
      <3>1. j.at = "structure" /\ j.op = job[h].op /\ j.mine = mine /\ j.r = r
        BY <1>2 DEF Job, mine
      <3>2. job' = [job EXCEPT ![h] = j]
        BY <2>2 DEF Goto
      <3> HIDE DEF j
      <3>3. ~Keen(j.r) /\ db[j.r].status = j.mine.status
        BY <1>1, <1>3, <1>4, <3>1, NobodyKeen DEF Alike
      <3>4. Harmless(j)
        BY <3>1, <3>3 DEF Harmless
      <3>5. \A q \in Reports : Alike(db[q], db'[q]) /\ db'[q].stored = db[q].stored
        BY <2>2, AlikeSelf
      <3>6. /\ j.op = job[h].op /\ j.r = job[h].r /\ j.at \notin {"idle", "commit"} /\ Settled(j.mine)
            /\ j.op \in Uploads
        BY <1>2, <1>3, <3>1
      <3> QED BY <1>1, <3>2, <3>4, <3>5, <3>6, OnceMove
    <2> QED BY <1>10, <2>1, <2>2 DEF CheckHint, mine
  <1>11. CASE ParseStructure(h)
    <2>1. mine.status = "needs_review"
      BY <1>4, <1>11 DEF ParseStructure, At
    <2>2. PICK row \in {mine, Flagged(mine, "same_date_pdf_conflict")}, step \in {"auto", "sync"} :
            Save(h, row, step)
      BY <1>11 DEF ParseStructure, mine
    <2>3. "same_date_pdf_conflict" \in Kinds
      BY DEF Kinds, BlockingKinds
    <2>4. LET flagged == Flagged(mine, "same_date_pdf_conflict")
          IN  flagged \in Row /\ flagged.stored = mine.stored /\ flagged.status = mine.status
      BY <1>2, <1>4, <2>3, ParsingKeeps, ParsedColumns DEF Keeps
    <2>5. row \in Row /\ row.stored = mine.stored /\ row.status = "needs_review"
      BY <1>2, <2>1, <2>2, <2>4
    <2> QED BY <1>5, <2>2, <2>5 DEF Gone
  <1> QED BY <1>6, <1>7, <1>8, <1>9, <1>10, <1>11

\* A publication is given up: the row is read again.
LEMMA OnceReload ==
    ASSUME OInv, Ops \subseteq OnceOps, NEW h \in Handlers, Busy(h),
           NEW step \in {"sync", "idle"}, Reload(h, step), UNCHANGED <<db, issues, events, pdf>>,
           step = "sync" => job[h].op \in Uploads,
           step = "idle" /\ job[h].op \in Uploads => Stuck(job[h].r)
    PROVE  EachOnce' /\ CopiesSettled'
  <1> PICK r \in Reports : r = job[h].r
    BY OnceWork
  <1>1. job[h] \in Job /\ Settled(db[r])
    BY OnceWork DEF PublishesOnce
  <1>2. \A q \in Reports : Alike(db[q], db'[q]) /\ db'[q].stored = db[q].stored
    BY AlikeSelf
  <1>3. CASE step = "idle"
    <2>1. job' = [job EXCEPT ![h] = Idle]
      BY <1>3 DEF Reload
    <2> QED BY <1>2, <1>3, <2>1, OnceMove
  <1>4. CASE step = "sync"
    <2> DEFINE j == [job[h] EXCEPT !.at = "sync", !.mine = db[r]]
    <2>1. j.at = "sync" /\ j.op = job[h].op /\ j.r = r /\ j.mine = db[r]
      BY <1>1 DEF Job
    <2>2. job' = [job EXCEPT ![h] = j]
      BY <1>4 DEF Reload
    <2> HIDE DEF j
    <2>3. Calm(r) => Harmless(j)
      BY <2>1 DEF Calm, Harmless
    <2>4. /\ j.op = job[h].op /\ j.r = job[h].r /\ j.at \notin {"idle", "commit"} /\ Settled(j.mine)
          /\ j.op \in Uploads
      BY <1>1, <1>4, <2>1
    <2> QED BY <1>2, <2>1, <2>2, <2>3, <2>4, OnceMove
  <1> QED BY <1>3, <1>4

\* A publication is prepared, or given up.
LEMMA OncePromotion ==
    ASSUME OInv, Ops \subseteq OnceOps, NEW h \in Handlers,
           \/ AutoConflict(h) \/ AutoDecide(h) \/ PublishValidate(h)
           \/ Promote(h) \/ HistoryConflict(h) \/ Undo(h)
    PROVE  EachOnce' /\ CopiesSettled'
  <1> DEFINE mine == job[h].mine
  <1>1. /\ Busy(h) /\ UNCHANGED <<issues, events>>
        /\ job[h].at \in {"auto", "validate", "promote", "undo", "abort"}
    BY DEF AutoConflict, AutoDecide, PublishValidate, Promote, HistoryConflict, Undo, At, Busy
  <1> PICK r \in Reports : r = job[h].r
    BY <1>1, OnceWork
  <1>2. /\ db[r] \in Row /\ mine \in Row /\ job[h] \in Job /\ Settled(mine) /\ Follows(job[h], db[r])
        /\ Sound(mine) /\ Sound(db[r]) /\ PublishesOnce(r)
        /\ mine.stored = "published" => db[r].stored = "published"
        /\ mine.status \in Gone => db[r].status \in Gone
    BY <1>1, OnceWork
  <1>3. /\ job[h].op \in {"upload", "publish"} /\ "upload" \in Uploads /\ "publish" \notin Uploads
        /\ job[h].at = "auto" => job[h].op = "upload"
        /\ job[h].at \in {"undo", "auto"} => job[h].op = "upload"
        /\ job[h].at \in {"promote", "undo", "abort"} => mine.status \in Pending /\ mine.stored = "staging"
    BY <1>1, <1>2, OnceWork DEF Follows, OnRoute, Uploads
  <1>4. Calm(r) /\ job[h].op \in Uploads => Harmless(job[h]) /\ ~Keen(r) /\ db[r].status = mine.status
    <2>1. job[h].op \in Uploads => job[h].at \in {"auto", "promote", "undo", "abort"}
      BY <1>1, <1>2 DEF Follows, OnRoute, Uploads
    <2> QED BY <2>1 DEF Calm, Harmless
  <1> HIDE DEF mine
  \* It goes on with the copy it has, or ends.
  <1>5. ASSUME NEW at \in {"idle", "sync", "promote", "undo", "abort"}, Goto(h, at), UNCHANGED <<db, pdf>>,
               at \in {"idle", "abort"} => job[h].op \notin Uploads
        PROVE  EachOnce' /\ CopiesSettled'
    <2>1. \A q \in Reports : Alike(db[q], db'[q]) /\ db'[q].stored = db[q].stored
      BY <1>5, AlikeSelf
    <2>2. CASE at = "idle"
      BY <1>1, <1>5, <2>1, <2>2, OnceMove DEF Goto
    <2>3. CASE at # "idle"
      <3> DEFINE j == [job[h] EXCEPT !.at = at]
      <3>1. j.at = at /\ j.op = job[h].op /\ j.r = r /\ j.mine = mine
        BY <1>2 DEF Job, mine
      <3>2. job' = [job EXCEPT ![h] = j]
        BY <1>5, <2>3 DEF Goto
      <3> HIDE DEF j
      <3>3. (j.op \in Uploads /\ Calm(j.r)) => Harmless(j)
        BY <1>4, <1>5, <3>1 DEF Harmless, mine
      <3>4. /\ j.op = job[h].op /\ j.r = job[h].r /\ j.at \notin {"idle", "commit"} /\ Settled(j.mine)
            /\ j.op \notin Uploads => j.mine = job[h].mine
        BY <1>2, <1>5, <2>3, <3>1 DEF mine
      <3> QED BY <1>1, <1>5, <2>1, <3>2, <3>3, <3>4, OnceMove
    <2> QED BY <2>2, <2>3
  <1>6. CASE AutoConflict(h)
    <2>1. job[h].at = "auto" /\ job[h].op = "upload" /\ UNCHANGED pdf /\ job' = [job EXCEPT ![h] = Idle]
      BY <1>3, <1>6 DEF AutoConflict, At, Goto
    <2>2. Calm(r) => ~Keen(r) /\ db[r].status = mine.status /\ mine.status = "needs_review"
      BY <1>3, <1>4, <2>1 DEF Harmless, mine
    <2>3. mine.status \notin Gone /\ db[r].status \notin Gone
      <3>1. Stuck(r) => db[r].status \notin Gone
        BY <1>2 DEF Stuck, PublishesOnce, Settled
      <3>2. Calm(r) => db[r].status \notin Gone
        BY <2>2 DEF Gone
      <3> QED BY <1>2, <3>1, <3>2 DEF PublishesOnce
    <2>4. CASE UNCHANGED db
      <3>1. ~Calm(r)
        <4> SUFFICES ASSUME Calm(r) PROVE FALSE
          OBVIOUS
        <4>1. mine.status = "needs_review"
          BY <2>2
        <4>2. CanTransition(mine, "blocked")
          BY <4>1 DEF CanTransition, AllowedTransitions, Statuses
        <4>3. db' = [db EXCEPT ![r] = Merge(db[r], mine, ConflictRow(mine))]
          BY <1>6, <2>1, <4>2 DEF AutoConflict, mine
        <4>4. db'[r] = Merge(db[r], mine, ConflictRow(mine))
          BY <4>3 DEF OInv, RInv, TInv, TypeOK
        <4>5. db'[r].status = "blocked"
          BY <1>2, <4>1, <4>4, MergedColumns, ReviewedColumns
        <4> QED BY <2>2, <2>4, <4>1, <4>5
      <3>2. \A q \in Reports : Alike(db[q], db'[q]) /\ db'[q].stored = db[q].stored
        BY <2>4, AlikeSelf
      <3> QED BY <1>1, <2>1, <3>1, <3>2, OnceMove
    <2>5. CASE db' = [db EXCEPT ![r] = Merge(db[r], mine, ConflictRow(mine))]
      <3> DEFINE new == Merge(db[r], mine, ConflictRow(mine))
      <3>1. ConflictRow(mine).status = "blocked"
        BY <1>2, ReviewedColumns
      <3>2. new.status = IF mine.status # "blocked" THEN "blocked" ELSE db[r].status
        BY <3>1, MergedColumns
      <3>3. ConflictRow(mine).stored = mine.stored
        BY <1>2 DEF ConflictRow, Row
      <3>4. new.stored = db[r].stored
        BY <3>3 DEF Merge
      <3> HIDE DEF new
      <3>5. /\ db'[r] = new
            /\ \A q \in Reports \ {r} : db'[q] = db[q] /\ issues'[q] = issues[q]
        BY <1>1, <2>5 DEF OInv, RInv, TInv, TypeOK, new
      <3>6. db'[r].status \in Gone <=> db[r].status \in Gone
        BY <2>3, <3>2, <3>5 DEF Gone
      <3>7. ~(Calm(r) /\ (Keen(r) \/ db'[r].status \in Pending))
        BY <2>2, <3>2, <3>5 DEF Pending
      <3> QED BY <1>1, <1>3, <2>1, <3>4, <3>5, <3>6, <3>7, OnceWrite
    <2> QED BY <1>6, <2>1, <2>4, <2>5 DEF AutoConflict, mine
  <1>7. CASE AutoDecide(h)
    <2>1. Goto(h, "promote") \/ Goto(h, "sync")
      BY <1>3, <1>7 DEF AutoDecide, At
    <2> QED BY <1>5, <1>7, <2>1 DEF AutoDecide
  <1>8. CASE PublishValidate(h)
    <2>1. job[h].op = "publish"
      BY <1>2, <1>8 DEF PublishValidate, At, Follows, OnRoute
    <2>2. Goto(h, "promote") \/ Goto(h, "idle")
      BY <1>8 DEF PublishValidate
    <2> QED BY <1>3, <1>5, <1>8, <2>1, <2>2 DEF PublishValidate
  <1>9. CASE HistoryConflict(h)
    <2>1. CASE Goto(h, "undo")
      BY <1>5, <1>9, <2>1 DEF HistoryConflict
    <2>2. CASE Reload(h, AfterError(h)) /\ job[h].op # "upload"
      <3>1. AfterError(h) = "idle" /\ job[h].op \notin Uploads
        BY <1>3, <2>2 DEF AfterError
      <3> QED BY <1>1, <1>9, <2>2, <3>1, OnceReload DEF HistoryConflict
    <2> QED BY <1>9, <2>1, <2>2 DEF HistoryConflict
  <1>10. CASE Promote(h)
    <2>1. mine.stored = "staging" /\ mine.status \in Pending /\ job[h].at = "promote"
      BY <1>3, <1>10 DEF Promote, At
    <2>2. CASE pdf[r] # "staging"
      <3>1. Goto(h, AfterPromotion(h)) /\ UNCHANGED <<db, pdf>>
        BY <1>10, <2>1, <2>2 DEF Promote, mine
      <3> QED BY <1>5, <3>1 DEF AfterPromotion
    <2>3. CASE pdf[r] = "staging"
      <3> DEFINE j == [job[h] EXCEPT !.at = "commit"]
      <3>1. j.at = "commit" /\ j.op = job[h].op /\ j.r = r /\ j.mine = mine
        BY <1>2 DEF Job, mine
      <3>2. job' = [job EXCEPT ![h] = j] /\ pdf' = [pdf EXCEPT ![r] = "published"] /\ UNCHANGED db
        BY <1>10, <2>1, <2>3 DEF Promote, Goto, mine
      <3> HIDE DEF j
      <3>3. ASSUME NEW q \in Reports \ {r} PROVE PublishesOnce(q)'
        <4>1. PublishesOnce(q) /\ pdf'[q] = pdf[q] /\ Alike(db[q], db'[q]) /\ RInv
          BY <3>2, AlikeSelf DEF OInv, EachOnce, RInv, TInv, TypeOK
        <4> QED BY <1>1, <3>1, <3>2, <4>1, OnceElsewhere
      <3>4. PublishesOnce(r)'
        <4>1. Calm(r)
          BY <1>2, <2>3 DEF PublishesOnce, Stuck
        <4>2. (j.op \in Uploads /\ j.r = r) => Harmless(j)
          BY <1>4, <3>1, <4>1 DEF Harmless, mine
        <4>3. j.op \notin Uploads => Keen(r)
          BY <1>1, <2>1, <3>1 DEF Keen, mine
        <4>4. Alike(db[r], db'[r]) /\ RInv
          BY <3>2, AlikeSelf DEF OInv
        <4>5. Calm(r)'
          BY <1>1, <3>1, <3>2, <4>1, <4>2, <4>3, <4>4, CalmStays
        <4> QED BY <1>1, <1>2, <3>2, <4>5 DEF PublishesOnce, Settled
      <3>5. CopiesSettled'
        BY <1>2, <3>1, <3>2 DEF OInv, CopiesSettled, Busy, RInv, TInv, TypeOK
      <3> QED BY <3>3, <3>4, <3>5 DEF EachOnce
    <2> QED BY <2>2, <2>3
  <1>11. CASE Undo(h)
    <2>1. job[h].at \in {"undo", "abort"} /\ mine.stored = "staging" /\ Rival(h, r)
      BY <1>1, <1>3, <1>11, OnceWork DEF Undo, At
    <2>2. CASE db[r].stored = "staging"
      <3> DEFINE step == IF job[h].at = "abort" THEN "idle" ELSE "sync"
      <3>1. Reload(h, step)
        BY <1>11, <2>1, <2>2 DEF Undo, At, mine
      <3>2. pdf' = [pdf EXCEPT ![r] = pdf[r]] /\ UNCHANGED <<db, issues, events>>
        BY <1>11, <2>2 DEF Undo, mine
      <3>3. UNCHANGED pdf
        BY <3>2 DEF OInv, RInv, TInv, TypeOK
      <3>4. step = "sync" => job[h].op \in Uploads
        BY <1>3, <2>1
      <3>5. (step = "idle" /\ job[h].op \in Uploads) => Stuck(r)
        BY <1>1, <2>1 DEF OInv, CopiesFollow, At
      <3>6. step \in {"sync", "idle"}
        OBVIOUS
      <3> HIDE DEF step
      <3> QED BY <1>1, <3>1, <3>2, <3>3, <3>4, <3>5, <3>6, OnceReload
    <2>3. CASE db[r].stored = "published"
      <3>1. job[h].op = "publish" /\ job[h].op \notin Uploads /\ job[h].at = "abort"
        BY <1>3, <2>1, <2>3 DEF OInv, LastRival
      <3>2. job' = [job EXCEPT ![h] = Idle] /\ UNCHANGED <<db, issues, events>>
        BY <1>11, <3>1 DEF Undo, At, Reload
      <3>3. \A q \in Reports \ {r} : pdf'[q] = pdf[q]
        BY <1>11 DEF Undo, OInv, RInv, TInv, TypeOK
      <3>4. Idle.at = "idle" /\ Idle.op \notin Uploads /\ Idle.r \notin Reports
        BY ConfigAssumption DEF Idle, Uploads
      <3>5. ASSUME NEW q \in Reports \ {r} PROVE PublishesOnce(q)'
        <4>1. PublishesOnce(q) /\ pdf'[q] = pdf[q] /\ Alike(db[q], db'[q]) /\ RInv
          BY <3>2, <3>3, AlikeSelf DEF OInv, EachOnce
        <4> QED BY <1>1, <3>2, <3>4, <4>1, OnceElsewhere
      <3>6. Calm(r) /\ Alike(db[r], db'[r]) /\ RInv
        BY <1>2, <2>3, <3>2, AlikeSelf DEF PublishesOnce, Stuck, OInv
      <3>7. Calm(r)'
        BY <1>1, <3>1, <3>2, <3>4, <3>6, CalmStays
      <3>8. PublishesOnce(r)'
        BY <1>2, <3>2, <3>7 DEF PublishesOnce, Settled
      <3>9. CopiesSettled'
        BY <3>2, <3>4 DEF OInv, CopiesSettled, Busy, RInv, TInv, TypeOK
      <3> QED BY <3>5, <3>8, <3>9 DEF EachOnce
    <2> QED BY <1>2, <2>2, <2>3 DEF Row
  <1> QED BY <1>6, <1>7, <1>8, <1>9, <1>10, <1>11

\* A failed commit leaves the file where it was put, and no other holds the lock.
LEMMA FailedIsStuck ==
    ASSUME OInv, Ops \subseteq OnceOps, NEW h \in Handlers, PublishCommitFails(h),
           NEW r \in Reports, r = job[h].r
    PROVE  Stuck(r)'
  <1>1. Busy(h) /\ job[h].at = "commit" /\ lock = h /\ UNCHANGED <<db, pdf>>
    BY DEF PublishCommitFails, At, Busy
  <1>2. Rival(h, r) /\ db[r] \in Row /\ job[h] \in Job
    BY <1>1, OnceWork
  <1>3. pdf[r] = "published" /\ db[r].stored = "staging"
    BY <1>1, <1>2 DEF OInv, LastRival, At, Row
  <1> DEFINE j == [job[h] EXCEPT !.at = "abort"]
  <1>4. job' = [job EXCEPT ![h] = j] /\ j.at = "abort" /\ j.r = r
    BY <1>2 DEF PublishCommitFails, Goto, Job
  <1> HIDE DEF j
  <1>5. \A g \in Handlers : job'[g] = IF g = h THEN j ELSE job[g]
    BY <1>4 DEF OInv, RInv, TInv, TypeOK
  <1>6. \A g \in Handlers : job'[g].at # "commit"
    BY <1>1, <1>4, <1>5 DEF OInv, RInv, TInv, LockSpansCommit
  <1> QED BY <1>1, <1>3, <1>6 DEF Stuck, At

\* A publication is committed: the name in the row says that there was none
\* before; or it fails, and the file is left where it is.
LEMMA OnceCommit ==
    ASSUME OInv, Ops \subseteq OnceOps, NEW h \in Handlers, PublishCommit(h) \/ PublishCommitFails(h)
    PROVE  EachOnce' /\ CopiesSettled'
  <1> DEFINE mine == job[h].mine
  <1>1. Busy(h) /\ job[h].at = "commit" /\ UNCHANGED issues /\ lock = h
    BY DEF PublishCommit, PublishCommitFails, At, Busy
  <1> PICK r \in Reports : r = job[h].r
    BY <1>1, OnceWork
  <1>2. /\ db[r] \in Row /\ mine \in Row /\ job[h] \in Job /\ Settled(mine) /\ Follows(job[h], db[r])
        /\ PublishesOnce(r)
    BY <1>1, OnceWork
  <1>3. /\ mine.status \in Pending /\ mine.stored = "staging" /\ mine.status # "published"
        /\ SameFacts(mine, db[r]) /\ db[r].status \in Parsed /\ Rival(h, r)
    <2>1. mine.status \in Pending /\ mine.stored = "staging" /\ Rival(h, r)
      BY <1>1, OnceWork
    <2> QED BY <1>2, <2>1 DEF Follows, Pending, Parsed
  <1>4. pdf[r] = "published" /\ db[r].stored = "staging"
    BY <1>1, <1>2, <1>3 DEF OInv, LastRival, At, Row
  <1>5. ~Stuck(r) /\ Calm(r) /\ events[r] = 0
    <2>1. ~Stuck(r)
      BY <1>1 DEF Stuck, At
    <2>2. events[r] = 0
      BY <1>2, <1>4 DEF PublishesOnce
    <2> QED BY <1>2, <2>1, <2>2 DEF PublishesOnce
  <1>6. CASE PublishCommitFails(h)
    <2> DEFINE j == [job[h] EXCEPT !.at = "abort"]
    <2>1. job' = [job EXCEPT ![h] = j] /\ UNCHANGED <<db, events, pdf>>
      BY <1>6 DEF PublishCommitFails, Goto
    <2>2. j.at = "abort" /\ j.op = job[h].op /\ j.r = r /\ j.mine = mine
      BY <1>2 DEF Job
    <2> HIDE DEF j
    <2>3. ASSUME NEW q \in Reports \ {r} PROVE PublishesOnce(q)'
      <3>1. PublishesOnce(q) /\ Alike(db[q], db'[q]) /\ RInv
        BY <2>1, AlikeSelf DEF OInv, EachOnce
      <3> QED BY <1>1, <2>1, <2>2, <3>1, OnceElsewhere
    <2>4. Stuck(r)'
      BY <1>6, FailedIsStuck
    <2>5. PublishesOnce(r)'
      BY <1>2, <2>1, <2>4 DEF PublishesOnce, Settled
    <2>6. CopiesSettled'
      BY <1>2, <2>1, <2>2 DEF OInv, CopiesSettled, Busy, RInv, TInv, TypeOK
    <2> QED BY <2>3, <2>5, <2>6 DEF EachOnce
  <1>7. CASE PublishCommit(h)
    <2> DEFINE row == PublishedRow(mine)
               new == Merge(db[r], mine, row)
               saved == [db EXCEPT ![r] = new]
               j == IF job[h].op \in Uploads THEN [job[h] EXCEPT !.at = "sync", !.mine = row] ELSE Idle
    <2>1. /\ db' = [q \in Reports |-> IF q \in Superseded(r, row.date)
                                      THEN [saved[q] EXCEPT !.current = FALSE] ELSE saved[q]]
          /\ job' = [job EXCEPT ![h] = j] /\ UNCHANGED pdf
          /\ events' = [events EXCEPT ![r] = IF events[r] = 2 THEN 2 ELSE events[r] + 1]
      BY <1>7 DEF PublishCommit
    <2>2. row.status = "published" /\ row.stored = "published"
      BY <1>2 DEF PublishedRow, Row
    <2>3. new.status = "published" /\ new.stored = "published"
      BY <1>3, <2>2 DEF Merge
    <2>4. /\ \/ j = Idle /\ job[h].op \notin Uploads
             \/ j.at = "sync" /\ j.op = job[h].op /\ j.r = r /\ j.mine = row /\ j.op \in Uploads
          /\ Idle.at = "idle" /\ Idle.op \notin Uploads /\ Idle.r \notin Reports
      BY <1>2, ConfigAssumption DEF Job, Idle, Uploads
    <2> HIDE DEF j
    <2>5. \A g \in Handlers : job'[g] = IF g = h THEN j ELSE job[g]
      BY <2>1 DEF OInv, RInv, TInv, TypeOK
    <2>6. saved[r] = new /\ \A q \in Reports \ {r} : saved[q] = db[q]
      BY <1>2 DEF OInv, RInv, TInv, TypeOK
    <2> HIDE DEF new, saved, row, mine
    <2>7. ASSUME NEW q \in Reports \ {r} PROVE PublishesOnce(q)'
      <3>1. ASSUME NEW some \in Row
            PROVE  /\ Alike(some, [some EXCEPT !.current = FALSE])
                   /\ [some EXCEPT !.current = FALSE].stored = some.stored
        BY DEF Row, Alike, SameFacts
      <3>2. db[q] \in Row /\ saved[q] = db[q]
        BY <2>6 DEF OInv, RInv, TInv, TypeOK
      <3>3. Alike(db[q], db'[q]) /\ db'[q].stored = db[q].stored
        BY <2>1, <3>1, <3>2, AlikeSelf
      <3>4. PublishesOnce(q) /\ events'[q] = events[q] /\ RInv
        BY <2>1 DEF OInv, EachOnce, RInv, TInv, TypeOK
      <3> QED BY <1>1, <2>1, <2>4, <3>3, <3>4, OnceElsewhere
    <2>8. db'[r] = new
      BY <2>1, <2>6 DEF Superseded, SameDate
    <2>9. events'[r] = 1
      BY <1>5, <2>1 DEF OInv, RInv, TInv, TypeOK
    <2>10. CopiesSettled'
      BY <2>2, <2>4, <2>5 DEF OInv, CopiesSettled, Busy, Settled, Gone
    <2>11. db'[r].status \in Gone /\ db'[r].status \notin Pending
      BY <2>3, <2>8 DEF Gone, Pending
    <2>12. ASSUME NEW g \in Handlers, job'[g].op \in Uploads, job'[g].r = r
           PROVE  Harmless(job[g])'
      <3>1. CASE g = h
        <4>1. job'[g].at = "sync" /\ job'[g].mine.status = "published"
          BY <2>2, <2>4, <2>5, <2>12, <3>1
        <4>2. Quiet(job[g].mine, issues[job[g].r])'
          BY <4>1 DEF Quiet, Gone
        <4> QED BY <2>11, <2>12, <4>1, <4>2 DEF Harmless
      <3>2. CASE g # h
        <4>1. job'[g] = job[g] /\ Harmless(job[g])
          BY <1>5, <2>5, <2>12, <3>2 DEF Calm
        <4>2. job[h].op \notin Uploads
          BY <2>12, <3>2, <4>1 DEF OInv, RInv, OneUpload
        <4>3. Keen(r)
          BY <1>1, <1>3, <4>2 DEF Keen, mine
        <4> QED BY <1>1, <2>11, <2>12, <4>1, <4>3 DEF Harmless
      <3> QED BY <3>1, <3>2
    <2>13. Calm(r)'
      BY <2>11, <2>12 DEF Calm, Rested, Quiet
    <2>14. PublishesOnce(r)'
      BY <2>3, <2>8, <2>9, <2>13 DEF PublishesOnce, Settled, Gone
    <2> QED BY <2>7, <2>10, <2>14 DEF EachOnce
  <1> QED BY <1>6, <1>7

\* A sync of the review that has nothing to change changes nothing.
LEMMA QuietSync ==
    ASSUME NEW mine \in Row, NEW known, Quiet(mine, known)
    PROVE  ApplyState(mine, SyncedIssues(mine, known)) = mine
  <1>1. CASE mine.status \in Gone
    BY <1>1 DEF ApplyState, Gone
  <1>2. CASE mine.status \notin Gone
    <2>1. /\ mine.status \in Pending
          /\ WorkflowStatus(mine, SyncedIssues(mine, known)) = mine.status
      BY <1>2 DEF Quiet
    <2>2. [mine EXCEPT !.status = mine.status] = mine
      BY DEF Row
    <2> QED BY <2>1, <2>2 DEF ApplyState, Pending
  <1> QED BY <1>1, <1>2

\* The review is synced at the end of an upload: under a publication it changes
\* nothing, and after the last one nothing is left to change.
LEMMA OnceSync ==
    ASSUME OInv, Ops \subseteq OnceOps, NEW h \in Handlers, SyncWorkflow(h)
    PROVE  EachOnce' /\ CopiesSettled'
  <1> DEFINE mine == job[h].mine
  <1>1. Busy(h) /\ job[h].at \in {"sync", "resolve"} /\ UNCHANGED <<events, pdf>>
    BY OnceWork DEF SyncWorkflow, At, Busy
  <1> PICK r \in Reports : r = job[h].r
    BY <1>1, OnceWork
  <1>2. /\ db[r] \in Row /\ mine \in Row /\ job[h] \in Job /\ Settled(mine) /\ Follows(job[h], db[r])
        /\ Sound(mine) /\ Sound(db[r]) /\ PublishesOnce(r)
    BY <1>1, OnceWork
  <1>3. job[h].op = "upload" /\ "upload" \in Uploads /\ job[h].at = "sync"
    BY <1>1, <1>2, OnceWork DEF Uploads, Follows, OnRoute
  <1>4. /\ mine.status \in Parsed \cup {"parse_failed"} /\ mine.status # "absent"
        /\ mine.status \in Parsed => db[r].status \in Parsed /\ SameFacts(mine, db[r])
    BY <1>2, <1>3 DEF Follows
  <1> HIDE DEF mine
  <1> DEFINE synced == SyncedIssues(mine, issues[r])
             row == ApplyState(mine, synced)
             new == Merge(db[r], mine, row)
  <1>5. /\ db' = [db EXCEPT ![r] = new] /\ issues' = [issues EXCEPT ![r] = synced]
        /\ job' = [job EXCEPT ![h] = Idle]
    BY <1>3, <1>1 DEF SyncWorkflow, At, Save, mine
  <1>6. row.stored = mine.stored
    <2>1. synced \in [Kinds -> IssueState]
      BY <1>2, SyncedIsIssues DEF OInv, RInv, TInv, TypeOK
    <2> HIDE DEF synced
    <2> QED BY <1>2, <1>4, <2>1, ReviewKeeps DEF Keeps
  <1>7. new.stored = db[r].stored
    BY <1>6 DEF Merge
  <1>8. row = mine => new = db[r]
    BY <1>2 DEF Merge, Row
  <1>9. /\ new.status = IF row.status # mine.status THEN row.status ELSE db[r].status
        /\ new.interp = IF row.interp # mine.interp THEN row.interp ELSE db[r].interp
        /\ SameFacts(mine, db[r]) => SameFacts(new, row)
    BY MergedColumns DEF SameFacts
  \* What is pending or blocked is given the status of its issues.
  <1>10. /\ mine.status \notin Pending \cup {"blocked"} => row = mine
         /\ mine.status \in Pending \cup {"blocked"} =>
               /\ row.status = WorkflowStatus(mine, synced) /\ row.interp = mine.interp
               /\ SameFacts(row, mine) /\ row.status \in Pending \cup {"blocked"}
    <2>1. CASE mine.status \notin Pending \cup {"blocked"}
      BY <1>4, <2>1 DEF ApplyState, Pending, Parsed
    <2>2. CASE mine.status \in Pending \cup {"blocked"}
      <3>1. row = [mine EXCEPT !.status = WorkflowStatus(mine, synced)]
        BY <2>2 DEF ApplyState, Pending
      <3>2. row.status = WorkflowStatus(mine, synced) /\ row.interp = mine.interp
        BY <1>2, <3>1, ReviewedColumns
      <3>3. mine.interp \in {"ready", "needs_attention"}
        BY <1>2, <2>2 DEF Sound, Pending, Parsed
      <3> HIDE DEF row, synced
      <3>4. SameFacts(row, mine)
        BY <1>2, <3>1, SameFactsKept
      <3> QED BY <2>2, <3>2, <3>3, <3>4, ReviewedStatus DEF Pending
    <2> QED BY <2>1, <2>2
  <1>11. /\ db'[r] = new /\ issues'[r] = synced
         /\ \A q \in Reports \ {r} : db'[q] = db[q] /\ issues'[q] = issues[q]
    BY <1>5 DEF OInv, RInv, TInv, TypeOK
  <1>12. Quiet(mine, issues[r]) => row = mine
    BY <1>2, QuietSync
  <1>13. SyncedIssues(mine, synced) = synced /\ (SameFacts(mine, db[r]) => SyncedIssues(db[r], synced) = synced)
    BY SyncedAgain DEF SameFacts
  <1>14. SameFacts(mine, new) => SyncedIssues(new, synced) = synced
    BY SyncedAgain
  <1> HIDE DEF new, row, synced
  <1>15. Calm(r) => Harmless(job[h])
    BY <1>3 DEF Calm
  <1>16. new.status \in Gone <=> db[r].status \in Gone
    <2>1. CASE row = mine
      BY <1>8, <2>1
    <2>2. CASE row # mine
      <3>1. mine.status \in Pending \cup {"blocked"} /\ row.status \notin Gone
        BY <1>10, <2>2 DEF Pending, Gone
      <3>2. db[r].status \notin Gone
        <4>1. Stuck(r) => db[r].status \notin Gone
          BY <1>2 DEF Stuck, PublishesOnce, Settled
        <4>2. Calm(r) => db[r].status = mine.status
          BY <1>12, <1>15, <2>2 DEF Harmless, mine
        <4> QED BY <1>2, <3>1, <4>1, <4>2 DEF PublishesOnce, Pending, Gone
      <3> QED BY <1>9, <3>1, <3>2
    <2> QED BY <2>1, <2>2
  <1>17. ASSUME Calm(r), Keen(r) \/ new.status \in Pending PROVE Quiet(new, synced)
    <2>1. CASE new.status \in Gone
      BY <2>1 DEF Quiet
    <2>2. ASSUME Quiet(mine, issues[r]), db[r].status \in Gone \cup {mine.status}, new.status \notin Gone
          PROVE  Quiet(new, synced)
      <3>1. new = db[r] /\ row = mine /\ db[r].status = mine.status
        BY <1>8, <1>12, <2>2
      <3>2. mine.status \in Pending /\ WorkflowStatus(mine, synced) = mine.status
        BY <2>2, <3>1 DEF Quiet, synced
      <3>3. mine.interp \in {"ready", "needs_attention"} /\ db[r].interp \in {"ready", "needs_attention"}
        BY <1>2, <3>1, <3>2 DEF Sound, Pending, Parsed
      <3>4. SyncedIssues(db[r], synced) = synced
        BY <1>4, <1>13, <3>2 DEF Pending, Parsed
      <3>5. WorkflowStatus(db[r], synced) = WorkflowStatus(mine, synced)
        BY <3>1, <3>2, <3>3, ReviewedStatus
      <3> QED BY <3>1, <3>2, <3>4, <3>5 DEF Quiet
    <2>3. ASSUME ~Keen(r), db[r].status = mine.status, new.status \notin Gone
          PROVE  Quiet(new, synced)
      <3>1. new.status \in Pending
        BY <1>17, <2>3
      <3>2. mine.status \in Pending \cup {"blocked"}
        BY <1>8, <1>10, <2>3, <3>1
      <3>3. new.status = WorkflowStatus(mine, synced) /\ SameFacts(mine, new)
            /\ new.interp = db[r].interp
        <4>1. row.status = WorkflowStatus(mine, synced) /\ SameFacts(row, mine) /\ row.interp = mine.interp
          BY <1>10, <3>2
        <4>2. SameFacts(new, row)
          BY <1>4, <1>9, <3>2 DEF Pending, Parsed
        <4>3. SameFacts(mine, new)
          BY <4>1, <4>2 DEF SameFacts
        <4> QED BY <1>9, <2>3, <4>1, <4>3
      <3>4. mine.interp \in {"ready", "needs_attention"} /\ new.interp \in {"ready", "needs_attention"}
        BY <1>2, <2>3, <3>2, <3>3 DEF Sound, Pending, Parsed
      <3>5. WorkflowStatus(new, synced) = WorkflowStatus(mine, synced)
        BY <3>1, <3>2, <3>4, ReviewedStatus
      <3> QED BY <1>14, <3>1, <3>3, <3>5 DEF Quiet
    <2>4. \/ Quiet(mine, issues[r]) /\ db[r].status \in Gone \cup {mine.status}
          \/ ~Keen(r) /\ db[r].status = mine.status
      BY <1>15, <1>17 DEF Harmless, mine
    <2> QED BY <2>1, <2>2, <2>3, <2>4
  <1>18. /\ job[h].op \in Uploads /\ db'[r].stored = db[r].stored
         /\ \A q \in Reports \ {job[h].r} : db'[q] = db[q] /\ issues'[q] = issues[q]
    BY <1>3, <1>7, <1>11
  <1>19. db'[r].status \in Gone <=> db[r].status \in Gone
    BY <1>11, <1>16
  <1>20. (Calm(r) /\ (Keen(r) \/ db'[r].status \in Pending)) => Quiet(db'[r], issues'[r])
    BY <1>11, <1>17
  <1> QED BY <1>1, <1>5, <1>18, <1>19, <1>20, OnceWrite

\* A published report is withdrawn: a copy that shows it published is right.
LEMMA OnceWithdraw ==
    ASSUME OInv, Ops \subseteq OnceOps, NEW h \in Handlers, Withdraw(h)
    PROVE  EachOnce' /\ CopiesSettled'
  <1> DEFINE mine == job[h].mine
  <1>1. Busy(h) /\ job[h].at = "withdraw" /\ UNCHANGED <<issues, events, pdf>>
    BY DEF Withdraw, At, Busy
  <1> PICK r \in Reports : r = job[h].r
    BY <1>1, OnceWork
  <1>2. /\ db[r] \in Row /\ mine \in Row /\ job[h] \in Job /\ Settled(mine)
        /\ PublishesOnce(r) /\ Sound(mine)
        /\ mine.stored = "published" => db[r].stored = "published"
    BY <1>1, OnceWork
  <1>3. job[h].op \notin Uploads
    BY <1>1, OnceWork DEF Uploads, Follows, OnRoute
  <1> HIDE DEF mine
  <1>4. CASE ~CanTransition(mine, "withdrawn")
    <2>1. job' = [job EXCEPT ![h] = Idle] /\ UNCHANGED db
      BY <1>4 DEF Withdraw, Goto, mine
    <2>2. \A q \in Reports : Alike(db[q], db'[q]) /\ db'[q].stored = db[q].stored
      BY <2>1, AlikeSelf
    <2> QED BY <1>1, <1>3, <2>1, <2>2, OnceMove
  <1>5. CASE CanTransition(mine, "withdrawn")
    <2> DEFINE row == [mine EXCEPT !.status = "withdrawn"]
               new == Merge(db[r], mine, row)
    <2>1. mine.status = "published"
      <3>1. /\ "withdrawn" \notin AllowedTransitions["uploaded"]
            /\ "withdrawn" \notin AllowedTransitions["parsing"]
            /\ "withdrawn" \notin AllowedTransitions["needs_review"]
            /\ "withdrawn" \notin AllowedTransitions["blocked"]
            /\ "withdrawn" \notin AllowedTransitions["ready_to_publish"]
            /\ "withdrawn" \notin AllowedTransitions["withdrawn"]
            /\ "withdrawn" \notin AllowedTransitions["parse_failed"]
        BY DEF AllowedTransitions
      <3> QED BY <1>5, <3>1 DEF CanTransition, Statuses
    <2>2. db[r].stored = "published" /\ db[r].status \in Gone
      BY <1>2, <2>1 DEF Settled, Gone, PublishesOnce
    <2>3. row.status = "withdrawn" /\ row.stored = mine.stored
      BY <1>2 DEF Row
    <2>4. new.status = "withdrawn" /\ new.stored = "published"
      BY <2>1, <2>2, <2>3 DEF Merge
    <2>5. db' = [db EXCEPT ![r] = new] /\ job' = [job EXCEPT ![h] = Idle]
      BY <1>5 DEF Withdraw, Save, mine
    <2> HIDE DEF new, row
    <2>6. db'[r] = new /\ \A q \in Reports \ {r} : db'[q] = db[q]
      BY <2>5 DEF OInv, RInv, TInv, TypeOK
    <2>7. \A g \in Handlers : job'[g] = IF g = h THEN Idle ELSE job[g]
      BY <2>5 DEF OInv, RInv, TInv, TypeOK
    <2>8. Idle.at = "idle" /\ Idle.op \notin Uploads /\ Idle.r \notin Reports
      BY ConfigAssumption DEF Idle, Uploads
    <2>9. ASSUME NEW q \in Reports \ {r} PROVE PublishesOnce(q)'
      <3>1. PublishesOnce(q) /\ Alike(db[q], db'[q]) /\ db'[q].stored = db[q].stored /\ RInv
        BY <2>6, AlikeSelf DEF OInv, EachOnce
      <3> QED BY <1>1, <2>5, <2>8, <3>1, OnceElsewhere
    <2>10. db'[r].status \in Gone /\ db'[r].status \notin Pending
      BY <2>4, <2>6 DEF Gone, Pending
    <2>11. Calm(r)
      BY <1>2, <2>2 DEF PublishesOnce, Stuck
    <2>12. ASSUME NEW g \in Handlers, job'[g].op \in Uploads, job'[g].r = r
           PROVE  Harmless(job[g])'
      <3>1. job'[g] = job[g] /\ Harmless(job[g])
        BY <2>7, <2>8, <2>11, <2>12 DEF Calm
      <3>2. job[g].r = r
        BY <2>7, <2>8, <2>12, <3>1
      <3>3. job[g].at \in {"promote", "commit", "undo", "abort"} => job[g].mine.status \notin Gone
        BY OnceWork DEF Busy, Pending, Gone
      <3>4. /\ Quiet(job[g].mine, issues[r])
            /\ job[g].at \notin {"auto", "promote", "commit", "undo", "abort"}
        BY <2>2, <2>12, <3>1, <3>3 DEF Harmless, Quiet, Gone
      <3> QED BY <1>1, <2>10, <2>12, <3>1, <3>4 DEF Harmless
    <2>13. Calm(r)'
      BY <2>10, <2>12 DEF Calm, Rested, Quiet
    <2>14. PublishesOnce(r)'
      BY <1>1, <1>2, <2>4, <2>6, <2>13 DEF PublishesOnce, Settled, Gone
    <2>15. CopiesSettled'
      BY <2>7, <2>8 DEF OInv, CopiesSettled, Busy
    <2> QED BY <2>9, <2>14, <2>15 DEF EachOnce
  <1> QED BY <1>4, <1>5

\* A term is mapped, which no rule of a status reads.
LEMMA OnceTerm ==
    ASSUME OInv, Ops \subseteq OnceOps, NEW h \in Handlers, ResolveTerm(h)
    PROVE  EachOnce' /\ CopiesSettled'
  <1>1. Busy(h) /\ job[h].at = "term" /\ UNCHANGED <<issues, events, pdf>>
    BY DEF ResolveTerm, At, Busy
  <1> PICK r \in Reports : r = job[h].r
    BY <1>1, OnceWork
  <1>2. job[h].op \notin Uploads
    BY <1>1, OnceWork DEF Uploads, Follows, OnRoute
  <1>3. PICK left \in {"none", "few", "many"} : db' = [db EXCEPT ![r].terms = left]
    BY DEF ResolveTerm
  <1>4. ASSUME NEW some \in Row
        PROVE  LET new == [some EXCEPT !.terms = left]
               IN  Alike(some, new) /\ new.stored = some.stored
    BY DEF Row, Alike, SameFacts
  <1>5. \A q \in Reports : Alike(db[q], db'[q]) /\ db'[q].stored = db[q].stored
    BY <1>3, <1>4, AlikeSelf DEF OInv, RInv, TInv, TypeOK
  <1>6. job' = [job EXCEPT ![h] = Idle]
    BY DEF ResolveTerm, Goto
  <1> QED BY <1>1, <1>2, <1>5, <1>6, OnceMove

\* A publication or a withdrawal begins while nobody uploads, and then the
\* review has been synced.
LEMMA OnceRequest ==
    ASSUME OInv, Ops \subseteq OnceOps, NEW h \in Handlers, Request(h)
    PROVE  EachOnce' /\ CopiesSettled'
  <1> PICK op \in Ops, r \in Reports :
         Begin(h, op, r) \/ UploadNew(h, op, r) \/ UploadDuplicate(h, op, r)
    BY DEF Request
  <1>1. op \in OnceOps /\ ~Busy(h) /\ RInv
    BY DEF Begin, UploadNew, UploadDuplicate, At, Busy, OInv
  <1>2. LoopFree
    BY <1>1 DEF Begin, UploadNew, UploadDuplicate, OnceOps
  <1>3. job[h].op \notin Uploads
    BY <1>2 DEF LoopFree
  \* A copy of the row as it is.
  <1>4. ASSUME NEW at, at \notin {"idle", "auto", "promote", "commit", "undo", "abort"}, UNCHANGED <<db, issues, events, pdf>>,
               job' = [job EXCEPT ![h] = [op |-> op, at |-> at, r |-> r, mine |-> db[r]]]
        PROVE  EachOnce' /\ CopiesSettled'
    <2> DEFINE j == [op |-> op, at |-> at, r |-> r, mine |-> db[r]]
    <2>1. j.op = op /\ j.at = at /\ j.r = r /\ j.mine = db[r] /\ job' = [job EXCEPT ![h] = j]
      BY <1>4
    <2> HIDE DEF j
    <2>2. \A g \in Handlers : job'[g] = IF g = h THEN j ELSE job[g]
      BY <2>1 DEF OInv, RInv, TInv, TypeOK
    <2>3. Settled(db[r])
      BY DEF OInv, EachOnce, PublishesOnce
    <2>4. CopiesSettled'
      BY <2>1, <2>2, <2>3 DEF OInv, CopiesSettled, Busy
    <2>5. ASSUME NEW q \in Reports PROVE PublishesOnce(q)'
      <3>1. /\ PublishesOnce(q) /\ Alike(db[q], db'[q]) /\ db'[q].stored = db[q].stored
            /\ issues'[q] = issues[q] /\ events'[q] = events[q] /\ pdf'[q] = pdf[q]
        BY <1>4, AlikeSelf DEF OInv, EachOnce
      <3>2. CASE q # r
        BY <1>1, <1>3, <2>1, <3>1, <3>2, OnceElsewhere
      <3>3. CASE q = r
        <4>1. ASSUME Calm(q), j.mine.status \in Pending PROVE LoopFree /\ Quiet(db[q], issues[q])
          BY <1>2, <2>1, <3>3, <4>1 DEF Calm, Rested, LoopFree
        <4>2. ASSUME Calm(q) PROVE Harmless(j)
          BY <1>4, <2>1, <3>3, <4>2 DEF Calm, Harmless
        <4>3. j.at # "commit"
          BY <1>4, <2>1
        <4> QED BY <1>1, <1>3, <2>1, <3>1, <4>1, <4>2, <4>3, OnceStays
      <3> QED BY <3>2, <3>3
    <2> QED BY <2>4, <2>5 DEF EachOnce
  <1>5. CASE Begin(h, op, r)
    <2>1. FirstStep(op) \notin {"idle", "auto", "promote", "commit", "undo", "abort"}
      BY <1>1, <1>5 DEF Begin, FirstStep, OnceOps, Uploads
    <2> QED BY <1>4, <1>5, <2>1 DEF Begin
  <1>6. CASE UploadDuplicate(h, op, r)
    <2>1. op = "upload"
      BY <1>1, <1>6 DEF UploadDuplicate, OnceOps, Uploads
    <2> DEFINE at == IF db[r].status \in {"uploaded", "parsing", "parse_failed"} THEN "parse" ELSE "sync"
    <2>2. job' = [job EXCEPT ![h] = [op |-> op, at |-> at, r |-> r, mine |-> db[r]]]
      BY <1>6, <2>1 DEF UploadDuplicate
    <2>3. at \notin {"idle", "auto", "promote", "commit", "undo", "abort"}
      OBVIOUS
    <2> HIDE DEF at
    <2> QED BY <1>4, <1>6, <2>2, <2>3 DEF UploadDuplicate
  <1>7. CASE UploadNew(h, op, r)
    <2> DEFINE j == [op |-> op, r |-> r, mine |-> FreshRow,
                     at |-> IF op = "upload" THEN "parse" ELSE "apply"]
    <2>1. /\ j.at \in {"parse", "apply"} /\ j.r = r /\ j.mine = FreshRow /\ j.op \in Uploads
      BY <1>7 DEF UploadNew
    <2>2. /\ job' = [job EXCEPT ![h] = j] /\ db' = [db EXCEPT ![r] = FreshRow] /\ ~Exists(r)
          /\ pdf' = [pdf EXCEPT ![r] = "staging"] /\ UNCHANGED <<issues, events>>
      BY <1>7 DEF UploadNew
    <2> HIDE DEF j
    <2>3. FreshRow.status = "uploaded" /\ FreshRow.stored = "staging"
      BY DEF FreshRow
    <2>4. \A g \in Handlers : job'[g] = IF g = h THEN j ELSE job[g]
      BY <2>2 DEF OInv, RInv, TInv, TypeOK
    <2>5. /\ db'[r] = FreshRow
          /\ \A q \in Reports \ {r} : db'[q] = db[q] /\ pdf'[q] = pdf[q]
      BY <2>2 DEF OInv, RInv, TInv, TypeOK
    <2>6. CopiesSettled'
      BY <2>1, <2>3, <2>4 DEF OInv, CopiesSettled, Busy, Settled, Gone
    <2>7. ASSUME NEW q \in Reports \ {r} PROVE PublishesOnce(q)'
      <3>1. PublishesOnce(q) /\ Alike(db[q], db'[q]) /\ db'[q].stored = db[q].stored
        BY <2>5, AlikeSelf DEF OInv, EachOnce
      <3> QED BY <1>1, <1>3, <2>1, <2>2, <2>5, <3>1, OnceElsewhere
    <2>8. ~Keen(r)'
      <3> SUFFICES ASSUME NEW g \in Handlers, Busy(g)', job'[g].op \notin Uploads, job'[g].r = r
                   PROVE  FALSE
        BY DEF Keen
      <3>1. job'[g] = job[g] /\ Busy(g)
        BY <2>1, <2>4 DEF Busy
      <3> QED BY <2>2, <3>1 DEF OInv, RInv, TInv, CopiesHaveReports, HasReport
    <2>9. ASSUME NEW g \in Handlers, job'[g].op \in Uploads, job'[g].r = r
          PROVE  Harmless(job[g])'
      <3>1. job'[g] = j
        BY <1>2, <2>4, <2>9 DEF LoopFree
      <3>2. j.mine.status = db'[r].status /\ j.at # "auto"
        BY <2>1, <2>5
      <3> QED BY <2>8, <2>9, <3>1, <3>2 DEF Harmless
    <2>10. Calm(r)'
      BY <2>3, <2>5, <2>8, <2>9 DEF Calm, Rested, Pending
    <2>11. events[r] = 0
      <3>1. db[r].status \notin Gone
        BY <2>2 DEF Exists, Gone
      <3>2. PublishesOnce(r) /\ events[r] \in 0..2
        BY DEF OInv, EachOnce, RInv, TInv, TypeOK
      <3> QED BY <3>1, <3>2 DEF PublishesOnce, Settled
    <2>12. PublishesOnce(r)'
      BY <2>2, <2>3, <2>5, <2>10, <2>11 DEF PublishesOnce, Settled, Gone
    <2> QED BY <2>6, <2>7, <2>12 DEF EachOnce
  <1> QED BY <1>5, <1>6, <1>7

----------------------------------------------------------------------------
(* Who may still publish.                                                   *)

PublishingSteps == {"auto", "validate", "promote", "commit", "undo", "abort"}

\* The job j with which h goes on, publication committed or not begun aside:
\* nobody becomes a rival of what has been published, and only the last rival
\* moves a promoted file.
Goes(h, j) ==
    /\ job' = [job EXCEPT ![h] = j]
    /\ j.at = "commit" => pdf[j.r] = "staging" /\ pdf'[j.r] = "published"
    /\ (j.at \in PublishingSteps /\ j.mine.status \in Pending /\ db[j.r].stored = "published") =>
          Rival(h, j.r) /\ job[h].op = j.op
    /\ j.at # "idle" =>
          /\ j.r \in Reports /\ j.at # "undone"
          /\ j.mine.stored = "published" => db[j.r].stored = "published"
          /\ j.at = "abort" /\ j.op \in Uploads => Stuck(j.r)'

LEMMA RivalsKept ==
    ASSUME OInv, Ops \subseteq OnceOps, NEW h \in Handlers, NEW j, Goes(h, j),
           \A q \in Reports :
              /\ db'[q].stored = db[q].stored
              /\ pdf[q] = "published" =>
                    \/ pdf'[q] = "published" \/ ~Exists(q)
                    \/ db[q].stored = "published" /\ Rival(h, q) /\ j.at = "idle"
    PROVE  LastRival' /\ CopiesFollow'
  <1>1. \A g \in Handlers : job'[g] = IF g = h THEN j ELSE job[g]
    BY DEF Goes, OInv, RInv, TInv, TypeOK
  <1>2. ASSUME NEW g \in Handlers, job[g].at # "idle"
        PROVE  /\ job[g].r \in Reports /\ Exists(job[g].r)
               /\ At(g, "commit") => Rival(g, job[g].r)
    BY <1>2, OnceWork, RaceWork DEF OInv, Busy, At
  <1>3. ASSUME NEW q \in Reports, db[q].stored = "published", NEW g \in Handlers, Rival(g, q)'
        PROVE  Rival(g, q) /\ job'[g].op = job[g].op
    BY <1>1, <1>3 DEF Rival, Publishing, Goes, PublishingSteps
  <1>4. ASSUME NEW q \in Reports, NEW g \in Handlers, At(g, "commit")', job'[g].r = q
        PROVE  pdf'[q] = "published"
    <2>1. CASE g = h
      BY <1>1, <1>4, <2>1 DEF At, Goes
    <2>2. CASE g # h
      <3>1. At(g, "commit") /\ job[g].r = q /\ Rival(g, q) /\ Exists(q)
        BY <1>1, <1>2, <1>4, <2>2 DEF At
      <3>2. pdf[q] = "published" /\ db[q].stored # "published"
        BY <3>1 DEF OInv, LastRival
      <3> QED BY <3>1, <3>2
    <2> QED BY <2>1, <2>2
  <1>5. ASSUME NEW q \in Reports, NEW g \in Handlers, db'[q].stored = "published", Rival(g, q)'
        PROVE  /\ pdf'[q] = "published" /\ job'[g].op = "publish" /\ ~At(g, "commit")'
               /\ \A f \in Handlers : Rival(f, q)' => f = g
    <2>1. db[q].stored = "published" /\ Rival(g, q) /\ job'[g].op = job[g].op
      BY <1>3, <1>5
    <2>2. /\ pdf[q] = "published" /\ job[g].op = "publish" /\ ~At(g, "commit")
          /\ \A f \in Handlers : Rival(f, q) => f = g
      BY <2>1 DEF OInv, LastRival
    <2>3. \A f \in Handlers : Rival(f, q)' => f = g
      BY <1>3, <2>1, <2>2
    <2>4. Exists(q)
      BY <2>1 DEF OInv, EachOnce, PublishesOnce, Settled, Gone, Exists
    <2>5. job'[g].at # "idle" /\ job'[g].r = q
      BY <1>5 DEF Rival, Publishing
    <2>6. ~At(g, "commit")'
      BY <1>1, <2>2, <2>5 DEF At, Goes
    <2>7. pdf'[q] = "published"
      BY <1>1, <2>2, <2>4, <2>5
    <2> QED BY <2>1, <2>2, <2>3, <2>6, <2>7
  <1>6. LastRival'
    BY <1>4, <1>5 DEF LastRival
  <1>7. ASSUME NEW q \in Reports, Stuck(q), Exists(q) PROVE Stuck(q)'
    BY <1>1, <1>7 DEF Stuck, At, Goes
  <1>8. ASSUME NEW g \in Handlers, Busy(g)'
        PROVE  /\ job'[g].mine.stored = "published" => db'[job'[g].r].stored = "published"
               /\ ~At(g, "undone")'
               /\ At(g, "abort")' /\ job'[g].op \in Uploads => Stuck(job[g].r)'
    <2>1. CASE g = h
      <3>1. job'[g] = j /\ j.at # "idle"
        BY <1>1, <1>8, <2>1 DEF Busy
      <3>2. /\ j.r \in Reports /\ j.at # "undone"
            /\ j.mine.stored = "published" => db'[j.r].stored = "published"
            /\ j.at = "abort" /\ j.op \in Uploads => Stuck(j.r)'
        BY <3>1 DEF Goes
      <3>3. Stuck(j.r)' => Stuck(job[g].r)'
        BY <3>1 DEF Stuck, At
      <3> QED BY <3>1, <3>2, <3>3 DEF At
    <2>2. CASE g # h
      <3>1. job'[g] = job[g] /\ Busy(g)
        BY <1>1, <1>8, <2>2 DEF Busy
      <3>2. job[g].r \in Reports /\ Exists(job[g].r)
        BY <1>2, <3>1 DEF Busy
      <3>3. /\ job[g].mine.stored = "published" => db[job[g].r].stored = "published"
            /\ ~At(g, "undone")
            /\ At(g, "abort") /\ job[g].op \in Uploads => Stuck(job[g].r)
        BY <3>1 DEF OInv, CopiesFollow
      <3> PICK q \in Reports : q = job[g].r
        BY <3>2
      <3>4. Stuck(q) => Stuck(q)'
        BY <1>7, <3>2
      <3>5. Stuck(q)' => Stuck(job[g].r)'
        BY <3>1 DEF Stuck, At
      <3> QED BY <3>1, <3>2, <3>3, <3>4, <3>5 DEF At
    <2> QED BY <2>1, <2>2
  <1>9. CopiesFollow'
    BY <1>8 DEF CopiesFollow
  <1> QED BY <1>6, <1>9

\* A step that publishes nothing keeps the names, and leaves a promoted file where
\* it is unless it undoes the last publication.
Going(h) == \E j : /\ Goes(h, j)
                   /\ \A q \in Reports :
                        /\ db'[q].stored = db[q].stored
                        /\ pdf[q] = "published" =>
                              \/ pdf'[q] = "published" \/ ~Exists(q)
                              \/ db[q].stored = "published" /\ Rival(h, q) /\ j.at = "idle"

LEMMA NamesStay ==
    ASSUME OInv, Ops \subseteq OnceOps, NEW h \in Handlers, Step(h), ~PublishCommit(h)
    PROVE  Busy(h) /\ \A q \in Reports : db'[q].stored = db[q].stored
  <1>1. ~At(h, "undone")
    BY DEF OInv, CopiesFollow, Busy, At
  <1>2. Ops \subseteq RaceOps
    BY DEF OnceOps, RaceOps
  <1>3. Busy(h) /\ Touched(h)
    BY <1>1, <1>2, StepTouches DEF OInv
  <1>4. ASSUME NEW new, Touch(db[job[h].r], new), db' = [db EXCEPT ![job[h].r] = new], NEW q \in Reports
        PROVE  db'[q].stored = db[q].stored
    BY <1>4 DEF Touch, OInv, RInv, TInv, TypeOK
  <1> QED BY <1>3, <1>4 DEF Touched

\* A handler goes on, no file moved.
LEMMA GoesOn ==
    ASSUME OInv, Ops \subseteq OnceOps, NEW h \in Handlers, Step(h), ~PublishCommit(h),
           UNCHANGED pdf, NEW j, job' = [job EXCEPT ![h] = j],
           \/ j = Idle
           \/ /\ j.op = job[h].op /\ j.r = job[h].r /\ j.at \notin {"commit", "undone"}
              /\ j.mine.stored = "published" => db[job[h].r].stored = "published"
              /\ j.at \in PublishingSteps =>
                    \/ db[job[h].r].stored = "staging"
                    \/ job[h].at \in PublishingSteps /\ j.mine = job[h].mine
              /\ j.at = "abort" /\ j.op \in Uploads => Stuck(job[h].r) /\ UNCHANGED db
    PROVE  Going(h)
  <1>1. Busy(h) /\ \A q \in Reports : db'[q].stored = db[q].stored
    BY NamesStay
  <1> PICK r \in Reports : r = job[h].r
    BY <1>1, OnceWork
  <1>2. CASE j = Idle
    <2>1. Idle.at = "idle"
      BY DEF Idle
    <2> QED BY <1>1, <1>2, <2>1 DEF Going, Goes, PublishingSteps
  <1>3. CASE j # Idle
    <2>1. j.at = "abort" /\ j.op \in Uploads => Stuck(r)'
      <3> SUFFICES ASSUME j.at = "abort", j.op \in Uploads PROVE Stuck(r)'
        OBVIOUS
      <3>1. Stuck(r) /\ UNCHANGED <<db, pdf>>
        BY <1>3
      <3>2. \A g \in Handlers : job'[g] = IF g = h THEN j ELSE job[g]
        BY DEF OInv, RInv, TInv, TypeOK
      <3> QED BY <3>1, <3>2 DEF Stuck, At
    <2>2. j.r = r /\ (Stuck(r)' => Stuck(j.r)')
      BY <1>3 DEF Stuck, At
    <2>3. (j.at \in PublishingSteps /\ j.mine.status \in Pending /\ db[r].stored = "published") => Rival(h, r)
      BY <1>3 DEF Rival, Publishing, PublishingSteps
    <2>4. Goes(h, j)
      BY <1>3, <2>1, <2>2, <2>3 DEF Goes
    <2> QED BY <1>1, <2>4 DEF Going
  <1> QED BY <1>2, <1>3

\* The upload interprets its file, which is not published.
LEMMA InterpretationGoes ==
    ASSUME OInv, Ops \subseteq OnceOps, NEW h \in Handlers, Step(h), ~PublishCommit(h),
           \/ ParseStart(h) \/ ParseEnd(h) \/ ParseFail(h) \/ ApplyMd(h)
           \/ CheckHint(h) \/ ParseStructure(h)
    PROVE  Going(h)
  <1> DEFINE mine == job[h].mine
  <1>1. /\ Busy(h) /\ job[h].at \in Interpreting /\ UNCHANGED pdf
    BY DEF ParseStart, ParseEnd, ParseFail, ApplyMd, CheckHint, ParseStructure, At, Busy,
           Interpreting
  <1> PICK r \in Reports : r = job[h].r
    BY <1>1, OnceWork
  <1>2. /\ db[r] \in Row /\ mine \in Row /\ job[h] \in Job /\ Settled(mine) /\ Follows(job[h], db[r])
        /\ PublishesOnce(r) /\ job[h].op = "upload" /\ "upload" \in Uploads
    BY <1>1, OnceWork DEF Interpreting, Uploads
  <1>3. /\ mine.status # "absent" /\ Alike(mine, db[r]) /\ OnRoute("upload", job[h].at)
        /\ mine.status \notin Gone
    BY <1>1, <1>2 DEF Follows, Interpreting, Gone, Unparsed
  <1>4. db[r].stored = "staging" /\ mine.stored = "staging"
    BY <1>2, <1>3 DEF Alike, PublishesOnce, Settled, Row
  <1>5. ASSUME NEW row, Keeps(mine, row), NEW step \in {"extract", "hint", "structure", "auto", "sync"},
               Save(h, row, step)
        PROVE  Going(h)
    <2> DEFINE j == [job[h] EXCEPT !.at = step, !.mine = row]
    <2>1. job' = [job EXCEPT ![h] = j]
      BY <1>5 DEF Save
    <2>2. j.at = step /\ j.op = job[h].op /\ j.r = r /\ j.mine = row
      BY <1>2 DEF Job
    <2>3. row.stored = "staging"
      BY <1>4, <1>5 DEF Keeps
    <2> HIDE DEF j
    <2> QED BY <1>1, <1>4, <1>5, <2>1, <2>2, <2>3, GoesOn
  <1>6. ASSUME NEW step \in {"sync", "structure"}, Goto(h, step) PROVE Going(h)
    <2> DEFINE j == [job[h] EXCEPT !.at = step]
    <2>1. job' = [job EXCEPT ![h] = j]
      BY <1>6 DEF Goto
    <2>2. j.at = step /\ j.op = job[h].op /\ j.r = r /\ j.mine = mine
      BY <1>2 DEF Job
    <2> HIDE DEF j
    <2> QED BY <1>1, <1>4, <1>6, <2>1, <2>2, GoesOn
  <1> HIDE DEF mine
  <1>7. CASE ParseStart(h)
    <2>1. Keeps(mine, ParseStarted(mine))
      BY <1>2, <1>3, ParsingKeeps
    <2> QED BY <1>2, <1>5, <1>6, <1>7, <2>1 DEF ParseStart, AfterError, mine
  <1>8. CASE ParseEnd(h)
    <2>1. PICK found \in ParseOutcomes : Save(h, ParsedRow(mine, found), "hint")
      BY <1>2, <1>8 DEF ParseEnd, mine
    <2>2. Keeps(mine, ParsedRow(mine, found))
      BY <1>2, <1>3, ConfigAssumption, ParsingKeeps
    <2> QED BY <1>5, <2>1, <2>2
  <1>9. CASE ParseFail(h)
    <2> DEFINE failed == ParseFailedRow(db[r])
               j == [job[h] EXCEPT !.at = "sync", !.mine = failed]
    <2>1. job' = [job EXCEPT ![h] = j]
      BY <1>2, <1>9 DEF ParseFail
    <2>2. j.at = "sync" /\ j.op = job[h].op /\ j.r = r /\ j.mine = failed
      BY <1>2 DEF Job
    <2>3. Keeps(db[r], failed)
      BY <1>2, <1>3, ParsingKeeps DEF Alike
    <2>4. failed.stored = "staging"
      BY <1>4, <2>3 DEF Keeps
    <2> HIDE DEF j, failed
    <2> QED BY <1>1, <1>4, <2>1, <2>2, <2>4, GoesOn
  <1>10. CASE ApplyMd(h)
    BY <1>3, <1>10 DEF ApplyMd, At, OnRoute
  <1>11. CASE CheckHint(h)
    <2>1. Keeps(mine, HintRefused(mine))
      BY <1>2, <1>3, ParsingKeeps
    <2> QED BY <1>5, <1>6, <1>11, <2>1 DEF CheckHint, mine
  <1>12. CASE ParseStructure(h)
    <2>1. PICK row \in {mine, Flagged(mine, "same_date_pdf_conflict")}, step \in {"auto", "sync"} :
            Save(h, row, step)
      BY <1>12 DEF ParseStructure, mine
    <2>2. "same_date_pdf_conflict" \in Kinds
      BY DEF Kinds, BlockingKinds
    <2>3. Keeps(mine, Flagged(mine, "same_date_pdf_conflict"))
      BY <1>2, <1>3, <2>2, ParsingKeeps
    <2>4. Keeps(mine, mine)
      BY <1>2, <1>3 DEF Keeps
    <2> QED BY <1>5, <2>1, <2>3, <2>4
  <1> QED BY <1>7, <1>8, <1>9, <1>10, <1>11, <1>12

\* A publication is prepared, or given up.
LEMMA PromotionGoes ==
    ASSUME OInv, Ops \subseteq OnceOps, NEW h \in Handlers, Step(h), ~PublishCommit(h),
           \/ AutoConflict(h) \/ AutoDecide(h) \/ PublishValidate(h)
           \/ Promote(h) \/ HistoryConflict(h) \/ PublishCommitFails(h) \/ Undo(h)
    PROVE  Going(h)
  <1> DEFINE mine == job[h].mine
  <1>1. Busy(h) /\ job[h].at \in PublishingSteps
    BY DEF AutoConflict, AutoDecide, PublishValidate, Promote, HistoryConflict, PublishCommitFails,
           Undo, At, Busy, PublishingSteps
  <1> PICK r \in Reports : r = job[h].r
    BY <1>1, OnceWork
  <1>2. /\ db[r] \in Row /\ mine \in Row /\ job[h] \in Job
        /\ mine.stored = "published" => db[r].stored = "published"
    BY <1>1, OnceWork
  <1>3. ASSUME NEW step \in {"idle", "sync", "promote", "undo", "abort"}, Goto(h, step), UNCHANGED pdf,
               step = "abort" => job[h].op \notin Uploads
        PROVE  Going(h)
    <2>1. CASE step = "idle"
      BY <1>1, <1>3, <2>1, GoesOn DEF Goto
    <2>2. CASE step # "idle"
      <3> DEFINE j == [job[h] EXCEPT !.at = step]
      <3>1. job' = [job EXCEPT ![h] = j]
        BY <1>3, <2>2 DEF Goto
      <3>2. j.at = step /\ j.op = job[h].op /\ j.r = r /\ j.mine = mine
        BY <1>2 DEF Job
      <3> HIDE DEF j
      <3> QED BY <1>1, <1>2, <1>3, <2>2, <3>1, <3>2, GoesOn
    <2> QED BY <2>1, <2>2
  <1>4. ASSUME NEW step \in {"idle", "sync"}, Reload(h, step), UNCHANGED pdf PROVE Going(h)
    <2>1. CASE step = "idle"
      BY <1>1, <1>4, <2>1, GoesOn DEF Reload
    <2>2. CASE step = "sync"
      <3> DEFINE j == [job[h] EXCEPT !.at = step, !.mine = db[r]]
      <3>1. job' = [job EXCEPT ![h] = j]
        BY <1>4, <2>2 DEF Reload
      <3>2. j.at = "sync" /\ j.op = job[h].op /\ j.r = r /\ j.mine = db[r]
        BY <1>2, <2>2 DEF Job
      <3> HIDE DEF j
      <3> QED BY <1>1, <1>2, <1>4, <3>1, <3>2, GoesOn DEF PublishingSteps
    <2> QED BY <2>1, <2>2
  <1>5. CASE AutoConflict(h)
    BY <1>3, <1>5 DEF AutoConflict
  <1>6. CASE AutoDecide(h)
    BY <1>3, <1>4, <1>6 DEF AutoDecide
  <1>7. CASE PublishValidate(h)
    <2>1. (Goto(h, "promote") \/ Goto(h, "idle")) /\ UNCHANGED pdf
      BY <1>7 DEF PublishValidate
    <2> QED BY <1>3, <2>1
  <1>8. CASE HistoryConflict(h)
    BY <1>3, <1>4, <1>8 DEF HistoryConflict, AfterError
  <1>9. CASE Promote(h)
    <2>1. CASE Goto(h, AfterPromotion(h)) /\ UNCHANGED pdf
      BY <1>3, <2>1 DEF AfterPromotion
    <2>2. CASE ~(Goto(h, AfterPromotion(h)) /\ UNCHANGED pdf)
      <3> DEFINE j == [job[h] EXCEPT !.at = "commit"]
      <3>1. /\ pdf[r] = "staging" /\ pdf' = [pdf EXCEPT ![r] = "published"]
            /\ job' = [job EXCEPT ![h] = j] /\ UNCHANGED db
        <4>1. mine.stored = "staging"
          BY <1>1, <1>9, OnceWork DEF Promote, At
        <4> QED BY <1>9, <2>2, <4>1 DEF Promote, Goto
      <3>2. j.at = "commit" /\ j.op = job[h].op /\ j.r = r /\ j.mine = mine
        BY <1>2 DEF Job
      <3> HIDE DEF j
      <3>3. pdf \in [Reports -> {"none", "staging", "published"}]
        BY DEF OInv, RInv, TInv, TypeOK
      <3>4. Rival(h, r) \/ mine.status \notin Pending
        BY <1>1 DEF Rival, Publishing, PublishingSteps
      <3>5. Goes(h, j)
        BY <1>2, <3>1, <3>2, <3>3, <3>4 DEF Goes
      <3> QED BY <3>1, <3>3, <3>5 DEF Going
    <2> QED BY <2>1, <2>2
  <1>10. CASE PublishCommitFails(h)
    <2> PICK j : j = [job[h] EXCEPT !.at = "abort"]
      OBVIOUS
    <2>1. job' = [job EXCEPT ![h] = j] /\ UNCHANGED <<db, pdf>>
      BY <1>10 DEF PublishCommitFails, Goto
    <2>2. j.at = "abort" /\ j.op = job[h].op /\ j.r = r /\ j.mine = mine
      BY <1>2 DEF Job
    <2>3. Stuck(r)'
      BY <1>10, FailedIsStuck
    <2>4. Stuck(j.r)'
      BY <2>2, <2>3 DEF Stuck, At
    <2>5. Rival(h, r) \/ mine.status \notin Pending
      BY <1>1 DEF Rival, Publishing, PublishingSteps
    <2>6. Goes(h, j)
      BY <1>2, <2>1, <2>2, <2>4, <2>5 DEF Goes
    <2> QED BY <2>1, <2>6 DEF Going
  <1>11. CASE Undo(h)
    <2>0. job[h].at \in {"undo", "abort"} /\ UNCHANGED db
      BY <1>11 DEF Undo, At
    <2>1. Rival(h, r) /\ job[h].at \in {"undo", "abort"} /\ UNCHANGED db
      BY <1>1, <2>0, OnceWork
    <2>2. CASE db[r].stored = "staging"
      <3>1. UNCHANGED pdf
        <4>1. pdf' = [pdf EXCEPT ![r] = pdf[r]]
          BY <1>11, <2>2 DEF Undo
        <4> QED BY <4>1 DEF OInv, RInv, TInv, TypeOK
      <3>2. Reload(h, "idle") \/ Reload(h, "sync")
        BY <1>11, <2>2 DEF Undo
      <3> QED BY <1>4, <3>1, <3>2
    <2>3. CASE db[r].stored = "published"
      <3>1. job[h].op = "publish"
        BY <2>1, <2>3 DEF OInv, LastRival
      <3>2. At(h, "abort")
        BY <1>1, <2>1, <3>1, OnceWork DEF At
      <3>3. job' = [job EXCEPT ![h] = Idle] /\ Idle.at = "idle"
        BY <1>11, <3>1, <3>2 DEF Undo, At, Reload, Idle
      <3>4. Goes(h, Idle)
        BY <3>3 DEF Goes, PublishingSteps
      <3>5. \A q \in Reports \ {r} : pdf'[q] = pdf[q]
        BY <1>11 DEF Undo, OInv, RInv, TInv, TypeOK
      <3> QED BY <2>1, <2>3, <3>3, <3>4, <3>5 DEF Going
    <2> QED BY <1>2, <2>2, <2>3 DEF Row
  <1> QED BY <1>5, <1>6, <1>7, <1>8, <1>9, <1>10, <1>11

\* A commit leaves one rival at most, who publishes on request.
LEMMA CommitRivals ==
    ASSUME OInv, Ops \subseteq OnceOps, TwoAtMost, NEW h \in Handlers, PublishCommit(h)
    PROVE  LastRival' /\ CopiesFollow'
  <1> DEFINE mine == job[h].mine
  <1>1. Busy(h) /\ job[h].at = "commit" /\ lock = h /\ UNCHANGED pdf
    BY DEF PublishCommit, At, Busy
  <1> PICK r \in Reports : r = job[h].r
    BY <1>1, OnceWork
  <1>2. /\ db[r] \in Row /\ mine \in Row /\ job[h] \in Job /\ PublishesOnce(r)
        /\ mine.stored = "staging" /\ mine.status \in Pending /\ Rival(h, r)
    BY <1>1, OnceWork
  <1>3. pdf[r] = "published" /\ Calm(r)
    BY <1>1, <1>2 DEF OInv, LastRival, At, PublishesOnce, Stuck
  <1> DEFINE row == PublishedRow(mine)
             new == Merge(db[r], mine, row)
             saved == [db EXCEPT ![r] = new]
  <1>4. PICK j :
           /\ job' = [job EXCEPT ![h] = j]
           /\ \/ j.at = "idle"
              \/ j.at = "sync" /\ j.r = r
    <2> DEFINE k == IF job[h].op \in Uploads THEN [job[h] EXCEPT !.at = "sync", !.mine = row] ELSE Idle
    <2>1. job' = [job EXCEPT ![h] = k]
      BY DEF PublishCommit
    <2>2. k.at = "idle" \/ (k.at = "sync" /\ k.r = r)
      BY <1>2 DEF Idle, Job
    <2> QED BY <2>1, <2>2
  <1>5. \A g \in Handlers : job'[g] = IF g = h THEN j ELSE job[g]
    BY <1>4 DEF OInv, RInv, TInv, TypeOK
  <1>6. new.stored = "published"
    BY <1>2 DEF Merge, PublishedRow, Row
  <1>7. db' = [q \in Reports |-> IF q \in Superseded(r, row.date)
                                 THEN [saved[q] EXCEPT !.current = FALSE] ELSE saved[q]]
    BY DEF PublishCommit
  <1>8. saved[r] = new /\ \A q \in Reports \ {r} : saved[q] = db[q] /\ db[q] \in Row
    BY DEF OInv, RInv, TInv, TypeOK
  <1> HIDE DEF new, saved, row, mine
  <1>9. ASSUME NEW q \in Reports \ {r} PROVE db'[q].stored = db[q].stored
    BY <1>7, <1>8 DEF Row
  <1>10. db'[r].stored = "published"
    BY <1>6, <1>7, <1>8 DEF Superseded, SameDate
  <1>11. ASSUME NEW g \in Handlers, At(g, "commit")' PROVE FALSE
    BY <1>1, <1>4, <1>5, <1>11 DEF At, OInv, RInv, TInv, LockSpansCommit
  <1>12. ASSUME NEW q \in Reports, NEW g \in Handlers, Rival(g, q)'
         PROVE  Rival(g, q) /\ g # h /\ job'[g] = job[g]
    BY <1>4, <1>5, <1>12 DEF Rival, Publishing
  \* Beside the handler that commits there is one more at most, and no upload.
  <1>13. ASSUME NEW g \in Handlers \ {h}, Rival(g, r)
         PROVE  job[g].op = "publish" /\ \A f \in Handlers \ {h} : Rival(f, r) => f = g
    <2>1. Busy(g) /\ job[g].r = r /\ job[g].at \in PublishingSteps
      BY <1>13 DEF Rival, Publishing, PublishingSteps, Busy
    <2>2. ASSUME job[g].op \in Uploads PROVE FALSE
      <3>1. job[h].op \notin Uploads
        BY <2>2 DEF OInv, RInv, OneUpload
      <3>2. Keen(r)
        BY <1>1, <1>2, <3>1 DEF Keen, mine
      <3>3. Harmless(job[g])
        BY <1>3, <2>1, <2>2 DEF Calm
      <3>4. job[g].at = "validate"
        BY <2>1, <3>2, <3>3 DEF Harmless, PublishingSteps
      <3>5. OnRoute(job[g].op, job[g].at)
        BY <2>1, OnceWork DEF Follows
      <3> QED BY <2>2, <3>4, <3>5 DEF OnRoute, Uploads
    <2>3. job[g].op = "publish"
      BY <2>1, <2>2, OnceWork DEF Uploads, PublishingSteps
    <2>4. \A f \in Handlers \ {h} : Rival(f, r) => f = g
      BY <1>2, <1>13 DEF TwoAtMost, Rival
    <2> QED BY <2>3, <2>4
  <1>14. LastRival'
    <2> SUFFICES ASSUME NEW q \in Reports, NEW g \in Handlers, db'[q].stored = "published", Rival(g, q)'
                 PROVE  /\ pdf'[q] = "published" /\ job'[g].op = "publish"
                        /\ \A f \in Handlers : Rival(f, q)' => f = g
      BY <1>11 DEF LastRival
    <2>1. Rival(g, q) /\ g # h /\ job'[g] = job[g]
      BY <1>12
    <2>2. CASE q = r
      BY <1>1, <1>3, <1>12, <1>13, <2>1, <2>2
    <2>3. CASE q # r
      <3>1. db[q].stored = "published"
        BY <1>9, <2>3
      <3>2. pdf[q] = "published" /\ job[g].op = "publish" /\ \A f \in Handlers : Rival(f, q) => f = g
        BY <2>1, <3>1 DEF OInv, LastRival
      <3> QED BY <1>1, <1>12, <2>1, <3>2
    <2> QED BY <2>2, <2>3
  <1>15. ASSUME NEW g \in Handlers, Busy(g)'
         PROVE  /\ job'[g].mine.stored = "published" => db'[job'[g].r].stored = "published"
                /\ ~At(g, "undone")'
                /\ At(g, "abort")' /\ job'[g].op \in Uploads => Stuck(job[g].r)'
    <2>1. CASE g = h
      BY <1>4, <1>5, <1>10, <1>15, <2>1 DEF At, Busy
    <2>2. CASE g # h
      <3>1. job'[g] = job[g] /\ Busy(g)
        BY <1>5, <1>15, <2>2 DEF Busy
      <3> PICK q \in Reports : q = job[g].r
        BY <3>1, OnceWork
      <3>2. /\ job[g].mine.stored = "published" => db[q].stored = "published"
            /\ ~At(g, "undone")
            /\ At(g, "abort") /\ job[g].op \in Uploads => Stuck(q)
        BY <3>1 DEF OInv, CopiesFollow
      <3>3. Stuck(q) => q # r
        BY <1>1 DEF Stuck, At
      <3>4. Stuck(q) => Stuck(job[g].r)'
        BY <1>1, <1>9, <1>11, <3>1, <3>3 DEF Stuck
      <3> QED BY <1>9, <1>10, <3>1, <3>2, <3>4 DEF At
    <2> QED BY <2>1, <2>2
  <1>16. CopiesFollow'
    BY <1>15 DEF CopiesFollow
  <1> QED BY <1>14, <1>16

\* A request begins with a copy of the row as it is.
LEMMA RequestGoes ==
    ASSUME OInv, Ops \subseteq OnceOps, NEW h \in Handlers, Request(h)
    PROVE  Going(h)
  <1> PICK op \in Ops, r \in Reports :
         Begin(h, op, r) \/ UploadNew(h, op, r) \/ UploadDuplicate(h, op, r)
    BY DEF Request
  <1>1. op \in OnceOps /\ Settled(db[r])
    BY DEF OInv, EachOnce, PublishesOnce
  <1>2. ASSUME NEW at, at \in {"validate", "withdraw", "term", "parse", "sync"}, UNCHANGED <<db, pdf>>,
               job' = [job EXCEPT ![h] = [op |-> op, at |-> at, r |-> r, mine |-> db[r]]]
        PROVE  Going(h)
    <2> PICK j : j = [op |-> op, at |-> at, r |-> r, mine |-> db[r]]
      OBVIOUS
    <2>1. db[r].status \in Pending => db[r].stored # "published"
      BY <1>1 DEF Settled, Pending, Gone
    <2>2. Goes(h, j)
      BY <1>2, <2>1 DEF Goes, PublishingSteps
    <2> QED BY <1>2, <2>2 DEF Going
  <1>3. CASE Begin(h, op, r)
    <2>1. FirstStep(op) \in {"validate", "withdraw", "term"}
      BY <1>1, <1>3 DEF Begin, FirstStep, OnceOps, Uploads
    <2> QED BY <1>2, <1>3, <2>1 DEF Begin
  <1>4. CASE UploadDuplicate(h, op, r)
    <2>1. op = "upload"
      BY <1>1, <1>4 DEF UploadDuplicate, OnceOps, Uploads
    <2> DEFINE at == IF db[r].status \in {"uploaded", "parsing", "parse_failed"} THEN "parse" ELSE "sync"
    <2>2. job' = [job EXCEPT ![h] = [op |-> op, at |-> at, r |-> r, mine |-> db[r]]]
      BY <1>4, <2>1 DEF UploadDuplicate
    <2>3. at \in {"parse", "sync"}
      OBVIOUS
    <2> HIDE DEF at
    <2>4. PICK step : step = at
      OBVIOUS
    <2> QED BY <1>2, <1>4, <2>2, <2>3, <2>4 DEF UploadDuplicate
  <1>5. CASE UploadNew(h, op, r)
    <2> PICK j : j = [op |-> op, r |-> r, mine |-> FreshRow,
                      at |-> IF op = "upload" THEN "parse" ELSE "apply"]
      OBVIOUS
    <2>1. /\ job' = [job EXCEPT ![h] = j] /\ db' = [db EXCEPT ![r] = FreshRow] /\ ~Exists(r)
          /\ pdf' = [pdf EXCEPT ![r] = "staging"]
      BY <1>5 DEF UploadNew
    <2>2. j.at \in {"parse", "apply"} /\ j.r = r /\ j.mine.stored = "staging"
      BY DEF FreshRow
    <2>3. db \in [Reports -> Row] /\ pdf \in [Reports -> {"none", "staging", "published"}]
      BY DEF OInv, RInv, TInv, TypeOK
    <2>4. db[r].stored = "staging" /\ FreshRow.stored = "staging"
      BY <1>1, <2>1, <2>3 DEF Settled, Gone, Exists, Row, FreshRow
    <2>5. Goes(h, j)
      BY <2>1, <2>2 DEF Goes, PublishingSteps
    <2>6. \A q \in Reports : db'[q].stored = db[q].stored /\ (pdf'[q] = pdf[q] \/ ~Exists(q))
      BY <2>1, <2>3, <2>4
    <2> QED BY <2>5, <2>6 DEF Going
  <1> QED BY <1>3, <1>4, <1>5

\* The steps that these requests take.
LEMMA StepsOfOnceOps ==
    ASSUME OInv, Ops \subseteq OnceOps, NEW h \in Handlers, Step(h)
    PROVE  \/ ParseStart(h) \/ ParseEnd(h) \/ ParseFail(h) \/ ApplyMd(h) \/ CheckHint(h) \/ ParseStructure(h)
           \/ AutoConflict(h) \/ AutoDecide(h) \/ PublishValidate(h)
           \/ Promote(h) \/ HistoryConflict(h) \/ Undo(h)
           \/ PublishCommit(h) \/ PublishCommitFails(h)
           \/ SyncWorkflow(h) \/ Withdraw(h) \/ ResolveTerm(h)
  <1>1. ASSUME \/ ResolveRefused(h) \/ DecideUnknown(h) \/ (\E kind \in Kinds : Decide(h, kind))
               \/ Patch(h) \/ Ready(h)
               \/ ReconcileStart(h) \/ ReconcileRebuild(h) \/ ReconcileRestore(h)
        PROVE  FALSE
    <2>1. Busy(h) /\ job[h].at \in {"resolve", "decide", "patch", "ready", "reconcile", "rebuild", "restore"}
      BY <1>1 DEF ResolveRefused, DecideUnknown, Decide, Patch, Ready, ReconcileStart,
                  ReconcileRebuild, ReconcileRestore, At, Busy
    <2>2. /\ OnRoute(job[h].op, job[h].at)
          /\ \/ job[h].op = "upload"
             \/ job[h].op \in {"withdraw", "term"} /\ job[h].at = job[h].op
      BY <2>1, OnceWork DEF Follows
    <2> QED BY <2>1, <2>2 DEF OnRoute
  <1> QED BY <1>1 DEF Step

\* Of them all, commits aside.
LEMMA StepGoes ==
    ASSUME OInv, Ops \subseteq OnceOps, NEW h \in Handlers, Step(h), ~PublishCommit(h)
    PROVE  Going(h)
  <1>1. CASE \/ ParseStart(h) \/ ParseEnd(h) \/ ParseFail(h) \/ ApplyMd(h)
             \/ CheckHint(h) \/ ParseStructure(h)
    BY <1>1, InterpretationGoes
  <1>2. CASE \/ AutoConflict(h) \/ AutoDecide(h) \/ PublishValidate(h)
             \/ Promote(h) \/ HistoryConflict(h) \/ PublishCommitFails(h) \/ Undo(h)
    BY <1>2, PromotionGoes
  <1>3. CASE SyncWorkflow(h) \/ Withdraw(h) \/ ResolveTerm(h)
    <2>1. Busy(h) /\ job[h].at \in {"sync", "resolve", "withdraw", "term", "undone"} /\ UNCHANGED pdf
      BY <1>3 DEF SyncWorkflow, Withdraw, ResolveTerm, At, Busy
    <2>2. OnRoute(job[h].op, job[h].at) /\ job[h].op \in {"upload", "withdraw", "term"} /\ ~At(h, "undone")
      BY <2>1, OnceWork DEF Follows
    <2>3. job[h].at # "resolve" /\ job[h].op # "reconcile"
      BY <2>1, <2>2 DEF OnRoute
    <2>4. job' = [job EXCEPT ![h] = Idle]
      BY <1>3, <2>2, <2>3 DEF SyncWorkflow, Withdraw, ResolveTerm, Save, Goto, At
    <2> QED BY <2>1, <2>4, GoesOn
  <1> QED BY <1>1, <1>2, <1>3, StepsOfOnceOps

\* Every step of racing requests of OnceOps keeps the invariant, while no report is
\* being published by three.
LEMMA OnceNext == Ops \subseteq OnceOps /\ MaxCrashes = 0 /\ TwoAtMost /\ OInv /\ [Next]_vars => OInv'
  <1> SUFFICES ASSUME Ops \subseteq OnceOps, MaxCrashes = 0, TwoAtMost, OInv, [Next]_vars PROVE OInv'
    OBVIOUS
  <1>1. RInv'
    <2>1. Ops \subseteq RaceOps
      BY DEF OnceOps, RaceOps
    <2> QED BY <2>1, RaceNext DEF OInv
  <1>2. OfOps'
    BY OpsKept DEF OInv, RInv
  <1>3. ASSUME NEW h \in Handlers, Step(h) PROVE EachOnce' /\ CopiesSettled'
    <2>1. CASE ParseStart(h) \/ ParseEnd(h) \/ ParseFail(h) \/ ApplyMd(h) \/ CheckHint(h) \/ ParseStructure(h)
      BY <2>1, OnceInterpretation
    <2>2. CASE \/ AutoConflict(h) \/ AutoDecide(h) \/ PublishValidate(h)
               \/ Promote(h) \/ HistoryConflict(h) \/ Undo(h)
      BY <2>2, OncePromotion
    <2>3. CASE PublishCommit(h) \/ PublishCommitFails(h)
      BY <2>3, OnceCommit
    <2>4. CASE SyncWorkflow(h) \/ Withdraw(h) \/ ResolveTerm(h)
      BY <2>4, OnceSync, OnceWithdraw, OnceTerm
    <2> QED BY <1>3, <2>1, <2>2, <2>3, <2>4, StepsOfOnceOps
  <1>4. ASSUME NEW h \in Handlers, Request(h) PROVE EachOnce' /\ CopiesSettled'
    BY <1>4, OnceRequest
  <1>a. ASSUME NEW h \in Handlers, Going(h) PROVE LastRival' /\ CopiesFollow'
    BY <1>a, RivalsKept DEF Going
  <1>b. ASSUME NEW h \in Handlers, Step(h) PROVE LastRival' /\ CopiesFollow'
    <2>1. CASE PublishCommit(h)
      BY <2>1, CommitRivals
    <2>2. CASE ~PublishCommit(h)
      BY <1>a, <1>b, <2>2, StepGoes
    <2> QED BY <2>1, <2>2
  <1>c. ASSUME NEW h \in Handlers, Request(h) PROVE LastRival' /\ CopiesFollow'
    BY <1>a, <1>c, RequestGoes
  <1>5. ASSUME NEW died, Crash(died) PROVE FALSE
    BY <1>5 DEF Crash, OInv, RInv, TInv, TypeOK
  <1>6. ASSUME UNCHANGED vars PROVE EachOnce' /\ CopiesSettled'
    <2>1. UNCHANGED <<db, issues, events, pdf, job>>
      BY <1>6 DEF vars
    <2>2. \A r \in Reports : Keen(r)' <=> Keen(r)
      BY <2>1 DEF Keen, Busy
    <2>3. ASSUME NEW r \in Reports, Calm(r) PROVE Calm(r)'
      <3>1. \A h \in Handlers : (job[h].op \in Uploads /\ job[h].r = r) => Harmless(job[h])'
        BY <2>1, <2>2, <2>3 DEF Calm, Harmless
      <3> QED BY <2>1, <2>2, <2>3, <3>1 DEF Calm, Rested
    <2>4. \A r \in Reports : Stuck(r) => Stuck(r)'
      BY <2>1 DEF Stuck, At
    <2>5. EachOnce'
      BY <2>1, <2>3, <2>4 DEF OInv, EachOnce, PublishesOnce, Settled
    <2> QED BY <2>1, <2>5 DEF OInv, CopiesSettled, Busy, Settled
  <1>d. ASSUME UNCHANGED vars PROVE LastRival' /\ CopiesFollow'
    BY <1>d DEF vars, OInv, LastRival, CopiesFollow, Rival, Publishing, At, Busy, Stuck
  <1>7. EachOnce' /\ CopiesSettled' /\ LastRival' /\ CopiesFollow'
    BY <1>3, <1>4, <1>5, <1>6, <1>b, <1>c, <1>d DEF Next
  <1> QED BY <1>1, <1>2, <1>7 DEF OInv

\* The initial states.
LEMMA OnceInit == Init => OInv
  <1> SUFFICES ASSUME Init PROVE OInv
    OBVIOUS
  <1>1. \A h \in Handlers : ~Busy(h) /\ job[h].op \notin Uploads
    BY DEF Init, Idle, Busy, Uploads
  <1>2. \A r \in Reports : db[r].status = "absent" /\ db[r].stored = "staging" /\ events[r] = 0
    BY DEF Init, AbsentRow, FreshRow
  <1>3. OfOps /\ CopiesSettled
    BY <1>1 DEF OfOps, CopiesSettled
  <1>4. \A r \in Reports : Calm(r)
    BY <1>1, <1>2 DEF Calm, Keen, Rested, Pending
  <1>5. EachOnce
    BY <1>2, <1>4 DEF EachOnce, PublishesOnce, Settled, Gone
  <1>6. LastRival /\ CopiesFollow
    BY <1>1, <1>2 DEF LastRival, CopiesFollow, Init, Idle, At
  <1> QED BY <1>3, <1>5, <1>6, RaceInit DEF OInv

\* OnceWhileTwo: a report is published once, although two requests may publish it
\* at the same time, be it the upload or an administrator, and a COMMIT may fail:
\* the second finds the file gone, and no sync of the review opens the report
\* again.  A third, which finds what the compensation of the second has staged
\* again, a death in between, or a report declared ready beside it breaks this.
THEOREM RaceOnce ==
    ASSUME Ops \subseteq OnceOps, MaxCrashes = 0
    PROVE  Spec => OnceWhileTwo
  <1>1. OInv => PublishedOnce
    BY DEF OInv, EachOnce, PublishesOnce, PublishedOnce
  <1> QED BY <1>1, OnceInit, OnceNext, PTL DEF Spec, OnceWhileTwo

----------------------------------------------------------------------------
(* The library of reports (ReportLibrary).                                  *)

\* What such a step is to the readers: the name of the file tells whether the
\* report has left the drafts, and the step leaves that name.
LEMMA TouchIsChange ==
    ASSUME OInv, EachOnce', NEW h \in Handlers, Busy(h), Touched(h)
    PROVE  [\E r \in Reports : Library!Change(r)]_(Library!libraryVars)
  <1> DEFINE r == job[h].r
  <1>1. r \in Reports /\ db[r] \in Row /\ db[r].status # "absent" /\ db \in [Reports -> Row]
    BY RaceWork DEF OInv, RInv, TInv, TypeOK, Exists
  <1>2. CASE UNCHANGED db
    BY <1>2 DEF Library!libraryVars, stages, dates, onView, Published
  <1>3. ASSUME NEW new, Touch(db[r], new), db' = [db EXCEPT ![r] = new]
        PROVE  Library!Change(r) \/ UNCHANGED Library!libraryVars
    <2>1. db' = [q \in Reports |-> IF q = r THEN new ELSE db[q]]
      BY <1>1, <1>3
    <2> HIDE DEF r
    <2>2. db[r].status \in Gone <=> new.status \in Gone
      <3>1. Settled(db[r]) /\ Settled(db'[r])
        BY <1>1 DEF OInv, EachOnce, PublishesOnce
      <3> QED BY <1>1, <1>3, <2>1, <3>1 DEF Settled, Touch
    <2>3. CASE db[r].status \notin Gone
      <3>1. Stage(db[r]) = "draft" /\ Stage(new) = "draft"
        BY <1>1, <1>3, <2>2, <2>3 DEF Stage, Gone, Touch
      <3>2. stages' = stages
        BY <1>1, <2>1, <3>1 DEF stages
      <3>3. onView' = onView
        BY <1>1, <2>1, <2>2, <2>3 DEF onView, Published, Gone
      <3>4. dates' = [dates EXCEPT ![r] = new.date] /\ new.date \in Dates \cup {NoDate}
        BY <1>1, <1>3, <2>1 DEF dates, Touch, Row
      <3>5. stages[r] = "draft"
        BY <1>1, <3>1 DEF stages
      <3> QED BY <3>2, <3>3, <3>4, <3>5 DEF Library!Change, Library!Date
    <2>4. CASE db[r].status \in Gone
      <3>1. new.status \in {db[r].status, "withdrawn"} /\ new.date = db[r].date /\ new.current = db[r].current
        BY <1>3, <2>2, <2>4 DEF Gone, Touch
      <3>2. dates' = dates
        BY <1>1, <2>1, <3>1 DEF dates
      <3>3. CASE new.status = db[r].status
        <4>1. stages' = stages
          BY <1>1, <2>1, <3>3 DEF stages, Stage
        <4>2. onView' = onView
          BY <1>1, <2>1, <3>1, <3>3 DEF onView, Published
        <4> QED BY <3>2, <4>1, <4>2 DEF Library!libraryVars
      <3>4. CASE new.status # db[r].status
        <4>1. db[r].status = "published" /\ new.status = "withdrawn"
          BY <2>4, <3>1, <3>4 DEF Gone
        <4>2. stages[r] = "published" /\ stages' = [stages EXCEPT ![r] = "withdrawn"]
          BY <1>1, <2>1, <4>1 DEF stages, Stage
        <4>3. onView' = onView \ {r}
          BY <1>1, <2>1, <4>1 DEF onView, Published
        <4> QED BY <3>2, <4>2, <4>3 DEF Library!Change, Library!Withdraw
      <3> QED BY <3>3, <3>4
    <2> QED BY <2>3, <2>4
  <1> QED BY <1>1, <1>2, <1>3 DEF Touched

\* A publication, whose copy may be stale, publishes a draft with a date and makes
\* room for it.
LEMMA CommitIsChange ==
    ASSUME OInv, Ops \subseteq OnceOps, NEW h \in Handlers, PublishCommit(h)
    PROVE  \E r \in Reports : Library!Change(r)
  <1> DEFINE mine  == job[h].mine
             row   == PublishedRow(mine)
  <1>1. Busy(h) /\ job[h].at = "commit"
    BY DEF PublishCommit, At, Busy
  <1> PICK r \in Reports : r = job[h].r
    BY <1>1, RaceWork DEF OInv
  <1> DEFINE new   == Merge(db[r], mine, row)
             saved == [db EXCEPT ![r] = new]
  <1>2. /\ db \in [Reports -> Row] /\ db[r] \in Row /\ mine \in Row /\ Exists(r)
        /\ SameFacts(mine, db[r]) /\ DateTrusted(mine) /\ mine.status # "published"
        /\ mine.stored = "staging" /\ db[r].stored = "staging"
    <2>1. mine.status \in Pending /\ DateTrusted(mine) /\ db \in [Reports -> Row] /\ mine \in Row
      BY <1>1, RaceWork DEF OInv, RInv, TInv, TypeOK, Follows, Publishable, Pending
    <2>2. Settled(mine)
      BY <1>1 DEF OInv, CopiesSettled
    <2>3. mine.stored = "staging"
      BY <2>1, <2>2 DEF Settled, Pending, Gone, Row
    <2>4. db[r].stored = "staging"
      <3>1. Rival(h, r)
        BY <1>1, OnceWork
      <3> QED BY <1>1, <2>1, <3>1 DEF OInv, LastRival, At, Row
    <2> QED BY <1>1, <2>1, <2>3, <2>4, RaceWork DEF OInv, Follows, Pending, Parsed
  <1>3. db[r].status \notin Gone /\ db[r].status # "absent"
    BY <1>2 DEF OInv, EachOnce, PublishesOnce, Settled, Exists
  <1>4. row.status = "published" /\ row.date = mine.date
    BY <1>2, ReviewedColumns
  <1>5. db' = [q \in Reports |-> IF q \in Superseded(r, row.date)
                                 THEN [saved[q] EXCEPT !.current = FALSE] ELSE saved[q]]
    BY DEF PublishCommit
  <1>6. new.status = "published" /\ new.date = db[r].date
    BY <1>2, <1>4 DEF Merge
  <1>7. db[r].date \in Dates /\ db[r].date = mine.date
    BY <1>2 DEF SameFacts, DateTrusted, Row
  <1> HIDE DEF row, new, mine
  <1>8. db'[r] = new /\ DOMAIN db' = Reports
    BY <1>2, <1>5 DEF Superseded, SameDate
  <1>9. ASSUME NEW q \in Reports \ {r}
        PROVE  /\ db'[q].status = db[q].status /\ db'[q].date = db[q].date
               /\ db'[q].current <=> db[q].current /\ q \notin SameDate(r, db[r].date)
    <2>1. saved[q] = db[q] /\ db[q] \in Row
      BY <1>2
    <2>2. Superseded(r, row.date) = SameDate(r, db[r].date)
      BY <1>4, <1>7 DEF Superseded
    <2> HIDE DEF saved
    <2>3. db'[q] = IF q \in SameDate(r, db[r].date) THEN [db[q] EXCEPT !.current = FALSE] ELSE db[q]
      BY <1>5, <2>1, <2>2
    <2> QED BY <2>1, <2>3 DEF Row
  <1>10. stages[r] = "draft" /\ dates[r] \in Dates
    BY <1>3, <1>7 DEF stages, Stage, dates, Gone
  <1>11. stages' = [stages EXCEPT ![r] = "published"]
    BY <1>6, <1>8, <1>9 DEF stages, Stage
  <1>12. dates' = dates
    BY <1>6, <1>8, <1>9 DEF dates
  <1>13. ASSUME NEW q \in Reports \ {r}
         PROVE  q \in onView' <=> q \in onView /\ q \notin Library!SameDay(r)
    <2>1. q \in SameDate(r, db[r].date) <=> Exists(q) /\ q \in Library!SameDay(r)
      BY <1>7, NoDateAssumption DEF SameDate, Library!SameDay, dates
    <2>2. q \in onView' <=> db'[q].status = "published" /\ db'[q].current
      BY DEF onView, Published
    <2> QED BY <1>9, <2>1, <2>2 DEF onView, Published, Exists
  <1>14. r \notin onView /\ r \notin Library!SameDay(r) /\ onView \subseteq Reports /\ onView' \subseteq Reports
    BY <1>3 DEF onView, Published, Library!SameDay, Gone
  <1>15. onView' \in {onView \ Library!SameDay(r), (onView \ Library!SameDay(r)) \cup {r}}
    <2>1. CASE r \in onView'
      BY <1>13, <1>14, <2>1
    <2>2. CASE r \notin onView'
      BY <1>13, <1>14, <2>2
    <2> QED BY <2>1, <2>2
  <1> QED BY <1>10, <1>11, <1>12, <1>15 DEF Library!Change, Library!Publish

\* Every step changes one report of the library, or none.
LEMMA LibraryStep ==
    Ops \subseteq OnceOps /\ OInv /\ EachOnce' /\ [Next]_vars
        => [\E r \in Reports : Library!Change(r)]_(Library!libraryVars)
  <1> SUFFICES ASSUME Ops \subseteq OnceOps, OInv, EachOnce', [Next]_vars
               PROVE  [\E r \in Reports : Library!Change(r)]_(Library!libraryVars)
    OBVIOUS
  <1>1. UNCHANGED db => UNCHANGED Library!libraryVars
    BY DEF Library!libraryVars, stages, dates, onView, Published
  <1>2. ASSUME NEW h \in Handlers, Request(h)
        PROVE  [\E r \in Reports : Library!Change(r)]_(Library!libraryVars)
    <2> PICK op \in Ops, r \in Reports :
           Begin(h, op, r) \/ UploadNew(h, op, r) \/ UploadDuplicate(h, op, r)
      BY <1>2 DEF Request
    <2>1. CASE UploadNew(h, op, r)
      <3>1. db[r].status = "absent" /\ db' = [db EXCEPT ![r] = FreshRow] /\ db \in [Reports -> Row]
        BY <2>1 DEF UploadNew, Exists, OInv, RInv, TInv, TypeOK
      <3>2. FreshRow.status = "uploaded" /\ FreshRow.date = NoDate
        BY DEF FreshRow
      <3>3. stages[r] = "absent" /\ stages' = [stages EXCEPT ![r] = "draft"]
        BY <3>1, <3>2 DEF stages, Stage
      <3>4. dates' = [dates EXCEPT ![r] = NoDate]
        BY <3>1, <3>2 DEF dates
      <3>5. onView' = onView
        BY <3>1, <3>2 DEF onView, Published
      <3> QED BY <3>3, <3>4, <3>5 DEF Library!Change, Library!Upload
    <2>2. CASE ~UploadNew(h, op, r)
      BY <1>1, <2>2 DEF Begin, UploadDuplicate
    <2> QED BY <2>1, <2>2
  <1>3. ASSUME NEW h \in Handlers, Step(h)
        PROVE  [\E r \in Reports : Library!Change(r)]_(Library!libraryVars)
    <2>1. Ops \subseteq RaceOps /\ RInv
      BY DEF OnceOps, RaceOps, OInv
    <2>2. CASE PublishCommit(h)
      BY <2>2, CommitIsChange
    <2>3. CASE ~PublishCommit(h)
      <3>1. ~At(h, "undone")
        BY DEF OInv, CopiesFollow, Busy, At
      <3> QED BY <1>3, <2>1, <2>3, <3>1, StepTouches, TouchIsChange
    <2> QED BY <2>2, <2>3
  <1>4. ASSUME NEW died, Crash(died) PROVE UNCHANGED db
    BY <1>4 DEF Crash
  <1>5. UNCHANGED vars => UNCHANGED db
    BY DEF vars
  <1> QED BY <1>1, <1>2, <1>3, <1>4, <1>5 DEF Next

\* LibraryImplemented: a behaviour of racing requests is, to those who read the
\* tables, one of the library, in which every publication and withdrawal is a
\* single step.  A third publisher of a report, or a death in between, breaks
\* this, as it breaks RaceOnce.
THEOREM RaceImplements ==
    ASSUME Ops \subseteq OnceOps, MaxCrashes = 0
    PROVE  Spec /\ []TwoAtMost => LibraryImplemented
  <1>1. Init => Library!LibraryInit
    BY DEF Init, Library!LibraryInit, stages, dates, onView, Stage, Published, AbsentRow, FreshRow
  <1>2. OInv /\ TwoAtMost /\ [Next]_vars
           => [\E r \in Reports : Library!Change(r)]_(Library!libraryVars)
    BY OnceNext, LibraryStep DEF OInv
  <1> QED BY <1>1, <1>2, OnceInit, OnceNext, PTL DEF Spec, LibraryImplemented, Library!LibrarySpec

\* A published report leaves that status by withdrawal only, and a withdrawn one
\* stays withdrawn, although every sync of a review and every withdrawal writes
\* the status of a copy that may be stale (_apply_report_state, withdraw).
THEOREM RaceWithdrawal ==
    ASSUME Ops \subseteq OnceOps, MaxCrashes = 0
    PROVE  Spec /\ []TwoAtMost => PublishedOnlyWithdrawn
  <1> DEFINE Leaves ==
          \A r \in Reports :
            /\ Published(r) /\ ~Published(r)' =>
                  \/ db'[r].status = "withdrawn"
                  \/ \E h \in Handlers : job[h].op = "reconcile" /\ job[h].r = r
            /\ db[r].status = "withdrawn" => db'[r].status = "withdrawn"
  <1>1. OInv /\ TwoAtMost /\ [Next]_vars => [Leaves]_vars
    <2> SUFFICES ASSUME OInv, TwoAtMost, [Next]_vars, NEW r \in Reports
                 PROVE  /\ stages[r] = "published" => stages'[r] \in {"published", "withdrawn"}
                        /\ stages[r] = "withdrawn" => stages'[r] = "withdrawn"
      BY DEF stages, Stage, Published
    <2>1. [\E q \in Reports : Library!Change(q)]_(Library!libraryVars)
      BY OnceNext, LibraryStep DEF OInv
    <2>2. stages = [q \in Reports |-> stages[q]]
      BY DEF stages
    <2> QED BY <2>1, <2>2 DEF Library!Change, Library!Upload, Library!Date, Library!Publish,
                              Library!Withdraw, Library!libraryVars
  <1>2. Spec /\ []TwoAtMost => [][Leaves]_vars
    BY <1>1, OnceInit, OnceNext, PTL DEF Spec
  <1> QED BY <1>2 DEF PublishedOnlyWithdrawn

\* What the library promises of the dates, for every such behaviour of the handlers.
THEOREM LibraryKeepsDates ==
    ASSUME Ops \subseteq OnceOps, MaxCrashes = 0
    PROVE  Spec /\ []TwoAtMost => []Library!OneIsShown /\ Library!LeavesForGood
  <1> DEFINE Leaves ==
          \A r \in Reports : stages[r] \in {"published", "withdrawn"} =>
            /\ dates'[r] = dates[r]
            /\ r \in onView' => r \in onView
            /\ r \in onView /\ r \notin onView' =>
                  \/ stages'[r] = "withdrawn"
                  \/ \E q \in Library!SameDay(r) : stages[q] = "draft" /\ stages'[q] = "published"
  <1>1. Library!LibraryInit => Library!OneIsShown
    BY DEF Library!LibraryInit, Library!OneIsShown
  <1>2. Library!OneIsShown /\ [\E r \in Reports : Library!Change(r)]_(Library!libraryVars)
           => Library!OneIsShown' /\ [Leaves]_(Library!libraryVars)
    <2> SUFFICES ASSUME Library!OneIsShown, [\E r \in Reports : Library!Change(r)]_(Library!libraryVars)
                 PROVE  Library!OneIsShown' /\ [Leaves]_(Library!libraryVars)
      OBVIOUS
    <2>1. /\ stages = [q \in Reports |-> stages[q]] /\ dates = [q \in Reports |-> dates[q]]
          /\ onView \subseteq Reports
      BY DEF stages, dates, onView
    <2>2. CASE UNCHANGED Library!libraryVars
      <3>1. stages' = stages /\ dates' = dates /\ onView' = onView
        BY <2>2 DEF Library!libraryVars
      <3> QED BY <2>2, <3>1 DEF Library!OneIsShown
    <2>3. ASSUME NEW r \in Reports, Library!Upload(r)
          PROVE  Library!OneIsShown' /\ Leaves
      <3>1. /\ stages[r] = "absent" /\ onView' = onView
            /\ \A q \in Reports \ {r} : stages'[q] = stages[q] /\ dates'[q] = dates[q]
        BY <2>1, <2>3 DEF Library!Upload
      <3>2. r \notin onView
        BY <3>1 DEF Library!OneIsShown
      <3> QED BY <2>1, <3>1, <3>2 DEF Library!OneIsShown
    <2>4. ASSUME NEW r \in Reports, Library!Date(r)
          PROVE  Library!OneIsShown' /\ Leaves
      <3>1. /\ stages[r] = "draft" /\ onView' = onView /\ stages' = stages
            /\ \A q \in Reports \ {r} : dates'[q] = dates[q]
        BY <2>1, <2>4 DEF Library!Date
      <3>2. r \notin onView
        BY <3>1 DEF Library!OneIsShown
      <3> QED BY <2>1, <3>1, <3>2 DEF Library!OneIsShown
    <2>5. ASSUME NEW r \in Reports, Library!Publish(r)
          PROVE  Library!OneIsShown' /\ Leaves
      <3>1. /\ stages[r] = "draft" /\ stages'[r] = "published" /\ dates' = dates
            /\ \A q \in Reports \ {r} : stages'[q] = stages[q]
            /\ onView' \subseteq (onView \ Library!SameDay(r)) \cup {r}
            /\ onView \ Library!SameDay(r) \subseteq onView'
        BY <2>1, <2>5 DEF Library!Publish
      <3>2. \A q \in onView' : q = r \/ (q \in onView /\ dates[q] # dates[r])
        BY <2>1, <3>1 DEF Library!SameDay
      <3>3. r \notin onView
        BY <3>1 DEF Library!OneIsShown
      <3>4. Library!OneIsShown'
        BY <2>1, <3>1, <3>2, <3>3 DEF Library!OneIsShown
      <3>5. ASSUME NEW q \in Reports, stages[q] \in {"published", "withdrawn"}
            PROVE  /\ q \in onView' => q \in onView
                   /\ q \in onView /\ q \notin onView' => r \in Library!SameDay(q)
        BY <3>1, <3>2, <3>5 DEF Library!SameDay
      <3> QED BY <3>1, <3>4, <3>5
    <2>6. ASSUME NEW r \in Reports, Library!Withdraw(r)
          PROVE  Library!OneIsShown' /\ Leaves
      <3>1. /\ stages'[r] = "withdrawn" /\ dates' = dates /\ onView' = onView \ {r}
            /\ \A q \in Reports \ {r} : stages'[q] = stages[q]
        BY <2>1, <2>6 DEF Library!Withdraw
      <3> QED BY <2>1, <3>1 DEF Library!OneIsShown
    <2> QED BY <2>2, <2>3, <2>4, <2>5, <2>6 DEF Library!Change
  <1>3. Library!LibrarySpec => []Library!OneIsShown /\ [][Leaves]_(Library!libraryVars)
    BY <1>1, <1>2, PTL DEF Library!LibrarySpec
  <1>4. Spec /\ []TwoAtMost => []Library!OneIsShown /\ [][Leaves]_(Library!libraryVars)
    BY <1>3, RaceImplements, PTL DEF LibraryImplemented
  <1> QED BY <1>4 DEF Library!LeavesForGood
=============================================================================
