-------------------------- MODULE ReportHandlers_proofs --------------------------
(***************************************************************************)
(* Proofs about ReportHandlers, for every set of reports, dates and         *)
(* concurrent handlers, and every choice of requests, parse results,        *)
(* commit failures and crashes:                                             *)
(*   TypeCorrect   Spec => []TypeOK                                         *)
(*   ViewerHasPdf  Spec => PdfWhileApart                                    *)
(* and, where no commit fails and no process dies,                          *)
(*   FilesStayRecorded  Spec => RecordWhileApart                            *)
(* ViewerHasPdf needs an inductive invariant that ties together four things *)
(* the code keeps in four places: the row, the copies of the row in the     *)
(* sessions, the file, and the write lock that spans rename and commit.     *)
(***************************************************************************)
EXTENDS ReportHandlers, TLAPS

Busy(h) == job[h].at # "idle"

\* A handler at work has a report that is on file, and a copy of its row.
HasReport(j) == j.r \in Reports /\ Exists(j.r) /\ j.mine.status # "absent"

CopiesHaveReports == \A h \in Handlers : Busy(h) => HasReport(job[h])

\* The lock spans exactly the rename and the commit.
LockSpansCommit == \A h \in Handlers : lock = h <=> job[h].at = "commit"

\* What holds whoever publishes what at a time.
TInv == TypeOK /\ CopiesHaveReports /\ LockSpansCommit

\* A row that says the file is in published/ is right.
FilesFollowRows ==
    \A r \in Reports : db[r].stored = "published" => pdf[r] = "published"

\* A published row says so.
PublishedRowsPromoted ==
    \A r \in Reports : db[r].status = "published" => db[r].stored = "published"

\* A session's copy may be stale, but a promotion it has seen has happened.
SeesPromotions(j) ==
    /\ j.mine.stored = "published" => db[j.r].stored = "published"
    /\ j.mine.status = "published" => j.mine.stored = "published"
    /\ j.op = "reconcile" /\ j.at # "reconcile" => j.mine.stored = "published"

CopiesSeePromotions == \A h \in Handlers : Busy(h) => SeesPromotions(job[h])

\* A handler that publishes a staged file finds it in .staging, has renamed it,
\* or takes back what the row does not record: nobody else has touched it.
OwnsFile(j) ==
    /\ j.at # "undone"
    /\ j.mine.stored = "staging" =>
          /\ j.at = "promote" => pdf[j.r] = "staging"
          /\ j.at \in {"commit", "undo", "abort"} => db[j.r].stored = "staging"
    /\ j.at = "commit" => pdf[j.r] = "published"

PublishersOwnFiles == \A h \in Handlers : OwnsFile(job[h])

IInv == /\ TInv
        /\ FilesFollowRows /\ PublishedRowsPromoted
        /\ CopiesSeePromotions /\ PublishersOwnFiles

----------------------------------------------------------------------------
(* What the rules of ReportRules do to a row.                               *)

\* What every rule but publication does: the row stays a row, the file name
\* stays, nothing becomes published or disappears.
Keeps(row, new) == /\ new \in Row
                   /\ new.stored = row.stored
                   /\ new.status = "published" => row.status = "published"
                   /\ row.status # "absent" => new.status # "absent"

\* The same, where the status stays as well.
Twin(row, new) == new \in Row /\ new.stored = row.stored /\ new.status = row.status

\* One column with a new value leaves a row; several columns are written one
\* after the other.
LEMMA Columns ==
    ASSUME NEW row \in Row
    PROVE  /\ \A date \in Dates \cup {NoDate} : Twin(row, [row EXCEPT !.date = date])
           /\ \A sure \in BOOLEAN : Twin(row, [row EXCEPT !.sure = sure])
           /\ \A confirmed \in {"no", "md", "user"} : Twin(row, [row EXCEPT !.confirmed = confirmed])
           /\ \A meta \in Meta : Twin(row, [row EXCEPT !.meta = meta])
           /\ \A complete \in BOOLEAN : Twin(row, [row EXCEPT !.complete = complete])
           /\ \A terms \in {"none", "few", "many"} : Twin(row, [row EXCEPT !.terms = terms])
           /\ \A interp \in {"uploading", "interpreting", "needs_attention", "ready", "failed"} :
                 Twin(row, [row EXCEPT !.interp = interp])
  <1>1. \A date \in Dates \cup {NoDate} : Twin(row, [row EXCEPT !.date = date])
    BY DEF Twin, Row
  <1>2. \A sure \in BOOLEAN : Twin(row, [row EXCEPT !.sure = sure])
    BY DEF Twin, Row
  <1>3. \A confirmed \in {"no", "md", "user"} : Twin(row, [row EXCEPT !.confirmed = confirmed])
    BY DEF Twin, Row
  <1>4. \A meta \in Meta : Twin(row, [row EXCEPT !.meta = meta])
    BY DEF Twin, Row
  <1>5. \A complete \in BOOLEAN : Twin(row, [row EXCEPT !.complete = complete])
    BY DEF Twin, Row
  <1>6. \A terms \in {"none", "few", "many"} : Twin(row, [row EXCEPT !.terms = terms])
    BY DEF Twin, Row
  <1>7. \A interp \in {"uploading", "interpreting", "needs_attention", "ready", "failed"} :
           Twin(row, [row EXCEPT !.interp = interp])
    BY DEF Twin, Row
  <1> QED BY <1>1, <1>2, <1>3, <1>4, <1>5, <1>6, <1>7

\* Status and file name.
LEMMA StatusColumn ==
    ASSUME NEW row \in Row, NEW status \in Statuses
    PROVE  /\ [row EXCEPT !.status = status] \in Row
           /\ [row EXCEPT !.status = status].status = status
           /\ [row EXCEPT !.status = status].stored = row.stored
  BY DEF Row, Statuses

\* The file and the status stay over two changes if they stay over each.
LEMMA TwinIsTransitive ==
    ASSUME NEW a, NEW b, NEW c, Twin(a, b), Twin(b, c) PROVE Twin(a, c)
  BY DEF Twin

\* A row is written column by column, so that a commit of a stale copy still
\* leaves a row.
LEMMA MergeIsRow ==
    ASSUME NEW saved \in Row, NEW loaded \in Row, NEW mine \in Row
    PROVE  Merge(saved, loaded, mine) \in Row
  BY DEF Merge, Row

\* The interpretation rules keep the file name and publish nothing.
LEMMA ParsingKeeps ==
    ASSUME NEW row \in Row, row.status # "absent"
    PROVE  /\ Keeps(row, ParseStarted(row))
           /\ Keeps(row, ParseFailedRow(row))
           /\ Keeps(row, HintRefused(row))
           /\ \A kind \in Kinds : Keeps(row, Flagged(row, kind))
           /\ \A date \in Dates : Keeps(row, MdRow(row, date))
           /\ \A found \in Outcome : Keeps(row, ParsedRow(row, found))
  <1>1. Keeps(row, ParseStarted(row)) /\ Keeps(row, ParseFailedRow(row))
    <2>1. ASSUME NEW status \in Statuses \ {"published"}, NEW interp \in {"interpreting", "failed"}
          PROVE  Keeps(row, [row EXCEPT !.status = status, !.interp = interp])
      <3> DEFINE a == [row EXCEPT !.status = status]
      <3>1. a \in Row /\ a.status = status /\ a.stored = row.stored /\ status # "absent"
        BY StatusColumn DEF Statuses
      <3> HIDE DEF a
      <3>2. Twin(a, [a EXCEPT !.interp = interp])
        BY <3>1, Columns
      <3>3. Keeps(row, [a EXCEPT !.interp = interp])
        BY <3>1, <3>2 DEF Keeps, Twin
      <3> QED BY <3>3 DEF a
    <2> QED BY <2>1 DEF ParseStarted, ParseFailedRow, Statuses
  <1>2. \A kind \in Kinds : Keeps(row, Flagged(row, kind))
    BY DEF Keeps, Flagged, Row, Meta
  <1>3. Keeps(row, HintRefused(row))
    <2>1. Flagged(row, "report_date_conflict") \in Row
          /\ Keeps(row, Flagged(row, "report_date_conflict"))
      BY <1>2 DEF Keeps, Kinds, BlockingKinds
    <2>2. Twin(Flagged(row, "report_date_conflict"), HintRefused(row))
      BY <2>1, Columns DEF HintRefused
    <2> QED BY <2>1, <2>2 DEF Keeps, Twin
  <1>4. ASSUME NEW date \in Dates
        PROVE  Keeps(row, MdRow(row, date))
    <2>1. [attention |-> {}, blocked |-> FALSE, md |-> TRUE] \in Meta
      BY DEF Meta
    <2> DEFINE confirmed == IF row.confirmed = "user" THEN "user" ELSE "md"
               a == [row EXCEPT !.status = "needs_review"]
               b == [a EXCEPT !.interp = "ready"]
               c == [b EXCEPT !.date = date]
               d == [c EXCEPT !.sure = TRUE]
               e == [d EXCEPT !.confirmed = confirmed]
               f == [e EXCEPT !.meta = [attention |-> {}, blocked |-> FALSE, md |-> TRUE]]
               g == [f EXCEPT !.complete = TRUE]
    <2>2. MdRow(row, date) = g
      BY DEF MdRow
    <2>3. a \in Row /\ a.status = "needs_review" /\ a.stored = row.stored
      BY StatusColumn DEF Statuses
    <2> HIDE DEF a
    <2>4. Twin(a, b) BY <2>3, Columns
    <2>5. b \in Row BY <2>4 DEF Twin
    <2> HIDE DEF b
    <2>6. Twin(b, c) BY <2>5, Columns
    <2>7. c \in Row BY <2>6 DEF Twin
    <2> HIDE DEF c
    <2>8. Twin(c, d) BY <2>7, Columns
    <2>9. d \in Row BY <2>8 DEF Twin
    <2> HIDE DEF d
    <2>10. Twin(d, e) BY <2>9, Columns
    <2>11. e \in Row BY <2>10 DEF Twin
    <2> HIDE DEF e
    <2>12. Twin(e, f) BY <2>1, <2>11, Columns
    <2>13. f \in Row BY <2>12 DEF Twin
    <2> HIDE DEF f
    <2>14. Twin(f, g) BY <2>13, Columns
    <2> HIDE DEF g
    <2>15. Twin(a, g)
      BY <2>4, <2>6, <2>8, <2>10, <2>12, <2>14, TwinIsTransitive
    <2> QED BY <2>2, <2>3, <2>15 DEF Keeps, Twin
  <1>5. ASSUME NEW found \in Outcome
        PROVE  Keeps(row, ParsedRow(row, found))
    <2>1. found.attention \in SUBSET Kinds
      BY DEF Outcome
    <2>2. [attention |-> found.attention, blocked |-> "table" \in found.attention,
           md |-> FALSE] \in Meta
      BY <2>1 DEF Meta
    <2>3. /\ found.date \in Dates \cup {NoDate}
          /\ found.complete \in BOOLEAN
          /\ found.terms \in {"none", "few", "many"}
      BY DEF Outcome
    <2> DEFINE date == IF found.date # NoDate /\ found.confidence # "low"
                       THEN found.date ELSE row.date
               meta == [attention |-> found.attention,
                        blocked |-> "table" \in found.attention, md |-> FALSE]
    <2>4. date \in Dates \cup {NoDate}
      BY <2>3 DEF Row
    <2>5. ParsedRow(row, found) =
            [row EXCEPT !.status = "needs_review", !.interp = Interp(found.attention),
                        !.date = date, !.sure = found.confidence = "high",
                        !.meta = meta, !.complete = found.complete, !.terms = found.terms]
      BY DEF ParsedRow, Row
    <2>6. Interp(found.attention) \in {"needs_attention", "ready"}
      BY DEF Interp
    <2>7. (found.confidence = "high") \in BOOLEAN
      OBVIOUS
    <2> DEFINE a == [row EXCEPT !.status = "needs_review"]
               b == [a EXCEPT !.interp = Interp(found.attention)]
               c == [b EXCEPT !.date = date]
               d == [c EXCEPT !.sure = found.confidence = "high"]
               e == [d EXCEPT !.meta = meta]
               f == [e EXCEPT !.complete = found.complete]
               g == [f EXCEPT !.terms = found.terms]
    <2>8. ParsedRow(row, found) = g /\ meta \in Meta
      BY <2>2, <2>5
    <2> HIDE DEF date, meta
    <2>9. a \in Row /\ a.status = "needs_review" /\ a.stored = row.stored
      BY StatusColumn DEF Statuses
    <2> HIDE DEF a
    <2>10. Twin(a, b) BY <2>6, <2>9, Columns
    <2>11. b \in Row BY <2>10 DEF Twin
    <2> HIDE DEF b
    <2>12. Twin(b, c) BY <2>4, <2>11, Columns
    <2>13. c \in Row BY <2>12 DEF Twin
    <2> HIDE DEF c
    <2>14. Twin(c, d) BY <2>7, <2>13, Columns
    <2>15. d \in Row BY <2>14 DEF Twin
    <2> HIDE DEF d
    <2>16. Twin(d, e) BY <2>8, <2>15, Columns
    <2>17. e \in Row BY <2>16 DEF Twin
    <2> HIDE DEF e
    <2>18. Twin(e, f) BY <2>3, <2>17, Columns
    <2>19. f \in Row BY <2>18 DEF Twin
    <2> HIDE DEF f
    <2>20. Twin(f, g) BY <2>3, <2>19, Columns
    <2> HIDE DEF g
    <2>21. Twin(a, g)
      BY <2>10, <2>12, <2>14, <2>16, <2>18, <2>20, TwinIsTransitive
    <2> QED BY <2>8, <2>9, <2>21 DEF Keeps, Twin
  <1> QED BY <1>1, <1>2, <1>3, <1>4, <1>5

\* So do the review rules, the edits and the manual transitions.
LEMMA ReviewKeeps ==
    ASSUME NEW row \in Row, row.status # "absent"
    PROVE  /\ Keeps(row, ConflictRow(row))
           /\ \A date \in Dates \cup {NoDate}, confirm, complete \in BOOLEAN :
                 Keeps(row, PatchedRow(row, date, confirm, complete))
           /\ \A kind \in Kinds, date \in Dates \cup {NoDate} :
                 Keeps(row, ResolvedRow(row, kind, date))
           /\ \A known \in [Kinds -> IssueState] : Keeps(row, ApplyState(row, known))
  <1>1. Keeps(row, ConflictRow(row))
    BY DEF Keeps, ConflictRow, Row, Statuses
  <1>2. ASSUME NEW date \in Dates \cup {NoDate}, NEW confirm \in BOOLEAN, NEW complete \in BOOLEAN
        PROVE  Keeps(row, PatchedRow(row, date, confirm, complete))
    <2>1. ASSUME NEW attention \in SUBSET Kinds
          PROVE  [row.meta EXCEPT !.attention = attention] \in Meta
      BY DEF Row, Meta
    <2>2. row.meta.attention \in SUBSET Kinds
      BY DEF Row, Meta
    <2> DEFINE confirmed == IF confirm THEN "user" ELSE row.confirmed
               attention == IF confirmed = "user" THEN row.meta.attention \ {"report_date"}
                                                  ELSE row.meta.attention
    <2>3. attention \in SUBSET Kinds /\ confirmed \in {"no", "md", "user"}
      BY <2>2 DEF Row
    <2>4. PatchedRow(row, date, confirm, complete) =
            [row EXCEPT !.date = IF date = NoDate THEN @ ELSE date,
                        !.confirmed = confirmed, !.sure = @ \/ confirm,
                        !.complete = complete,
                        !.meta = [row.meta EXCEPT !.attention = attention],
                        !.interp = Interp(attention)]
      BY DEF PatchedRow, Row
    <2> HIDE DEF confirmed, attention
    <2>5. Interp(attention) \in {"needs_attention", "ready"}
      BY DEF Interp
    <2>6. [row.meta EXCEPT !.attention = attention] \in Meta
      BY <2>1, <2>3
    <2> DEFINE later == IF date = NoDate THEN row.date ELSE date
               sure  == row.sure \/ confirm
               a == [row EXCEPT !.date = later]
               b == [a EXCEPT !.confirmed = confirmed]
               c == [b EXCEPT !.sure = sure]
               d == [c EXCEPT !.complete = complete]
               e == [d EXCEPT !.meta = [row.meta EXCEPT !.attention = attention]]
               f == [e EXCEPT !.interp = Interp(attention)]
    <2>7. PatchedRow(row, date, confirm, complete) = f
      BY <2>4
    <2>8. later \in Dates \cup {NoDate} /\ sure \in BOOLEAN
      BY DEF Row
    <2> HIDE DEF later, sure
    <2>9. Twin(row, a) BY <2>8, Columns
    <2>10. a \in Row BY <2>9 DEF Twin
    <2> HIDE DEF a
    <2>11. Twin(a, b) BY <2>3, <2>10, Columns
    <2>12. b \in Row BY <2>11 DEF Twin
    <2> HIDE DEF b
    <2>13. Twin(b, c) BY <2>8, <2>12, Columns
    <2>14. c \in Row BY <2>13 DEF Twin
    <2> HIDE DEF c
    <2>15. Twin(c, d) BY <2>14, Columns
    <2>16. d \in Row BY <2>15 DEF Twin
    <2> HIDE DEF d
    <2>17. Twin(d, e) BY <2>6, <2>16, Columns
    <2>18. e \in Row BY <2>17 DEF Twin
    <2> HIDE DEF e
    <2>19. Twin(e, f) BY <2>5, <2>18, Columns
    <2> HIDE DEF f
    <2>20. Twin(row, f)
      BY <2>9, <2>11, <2>13, <2>15, <2>17, <2>19, TwinIsTransitive
    <2> QED BY <2>7, <2>20 DEF Keeps, Twin
  <1>3. ASSUME NEW kind \in Kinds, NEW date \in Dates \cup {NoDate}
        PROVE  Keeps(row, ResolvedRow(row, kind, date))
    <2> DEFINE left  == {k \in row.meta.attention :
                            k # kind /\ ~(k \in Subjectless /\ kind \in Subjectless)}
               dated == IF kind \in DateKinds /\ date # NoDate
                        THEN [row EXCEPT !.date = date, !.confirmed = "user", !.sure = TRUE]
                        ELSE row
               meta  == [row.meta EXCEPT !.attention = left,
                                         !.blocked = left \cap BlockingKinds # {}]
    <2>1. left \in SUBSET Kinds
      BY DEF Row, Meta
    <2>2. dated \in Row /\ dated.meta = row.meta /\ dated.status = row.status
                        /\ dated.stored = row.stored
      <3>1. CASE kind \in DateKinds /\ date # NoDate
        BY <3>1 DEF Row
      <3>2. CASE ~(kind \in DateKinds /\ date # NoDate)
        BY <3>2
      <3> QED BY <3>1, <3>2
    <2>3. (left \cap BlockingKinds # {}) \in BOOLEAN
      OBVIOUS
    <2> HIDE DEF left
    <2>4. meta \in Meta
      BY <2>1, <2>3 DEF Row, Meta
    <2>5. ResolvedRow(row, kind, date) = [dated EXCEPT !.meta = meta, !.interp = Interp(left)]
      BY <2>2 DEF ResolvedRow, Row, Meta, left
    <2>6. Interp(left) \in {"needs_attention", "ready"}
      BY DEF Interp
    <2> DEFINE told == [dated EXCEPT !.meta = meta]
    <2>7. ResolvedRow(row, kind, date) = [told EXCEPT !.interp = Interp(left)]
      BY <2>5
    <2> HIDE DEF dated, meta
    <2>8. Twin(row, dated)
      BY <2>2 DEF Twin
    <2>9. Twin(dated, told)
      BY <2>2, <2>4, Columns
    <2>10. told \in Row
      BY <2>9 DEF Twin
    <2> HIDE DEF told
    <2>11. Twin(told, [told EXCEPT !.interp = Interp(left)])
      BY <2>6, <2>10, Columns
    <2>12. Twin(row, ResolvedRow(row, kind, date))
      BY <2>7, <2>8, <2>9, <2>11, TwinIsTransitive
    <2> QED BY <2>12 DEF Keeps, Twin
  <1>4. \A known \in [Kinds -> IssueState] : Keeps(row, ApplyState(row, known))
    BY DEF Keeps, ApplyState, WorkflowStatus, Row, Statuses
  <1> QED BY <1>1, <1>2, <1>3, <1>4

\* A sync of the issues leaves every issue in one of its three states.
LEMMA SyncedIsIssues ==
    ASSUME NEW row \in Row, NEW known \in [Kinds -> IssueState]
    PROVE  SyncedIssues(row, known) \in [Kinds -> IssueState]
  BY DEF SyncedIssues, IssueState

\* The initial rows are rows.
LEMMA FreshRows == FreshRow \in Row /\ AbsentRow \in Row
  BY DEF FreshRow, AbsentRow, Row, Meta, Statuses

\* The row a publication commits.
LEMMA PublishedIsRow ==
    ASSUME NEW row \in Row
    PROVE  /\ PublishedRow(row) \in Row
           /\ PublishedRow(row).status = "published" /\ PublishedRow(row).stored = "published"
  <1> DEFINE a == [row EXCEPT !.status = "published"]
             b == [a EXCEPT !.current = TRUE]
             c == [b EXCEPT !.stored = "published"]
  <1>1. PublishedRow(row) = c
    BY DEF PublishedRow
  <1>2. a \in Row /\ a.status = "published"
    BY StatusColumn DEF Statuses
  <1> HIDE DEF a
  <1>3. b \in Row /\ b.status = "published"
    BY <1>2 DEF Row
  <1> HIDE DEF b
  <1>4. c \in Row /\ c.status = "published" /\ c.stored = "published"
    BY <1>3 DEF Row
  <1> HIDE DEF c
  <1> QED BY <1>1, <1>4

----------------------------------------------------------------------------
(* Types.  The invariant does not depend on who publishes what at a time.    *)

\* The usual step: the handler goes to another step, rows stay rows and no row
\* disappears.
LEMMA TypedStep ==
    ASSUME TInv, NEW h \in Handlers, NEW j \in Job, job' = [job EXCEPT ![h] = j],
           \A r \in Reports : db'[r] \in Row /\ (Exists(r) => Exists(r)'),
           db' \in [Reports -> Row],
           issues' \in [Reports -> [Kinds -> IssueState]], events' \in [Reports -> 0..2],
           pdf' \in [Reports -> {"none", "staging", "published"}], crashes' = crashes,
           j.at # "idle" => j.r \in Reports /\ db'[j.r].status # "absent" /\ j.mine.status # "absent",
           lock' = IF j.at = "commit" THEN h ELSE IF lock = h THEN NoHandler ELSE lock,
           j.at = "commit" => lock \in {NoHandler, h}
    PROVE  TInv'
  <1>1. \A g \in Handlers : job'[g] = IF g = h THEN j ELSE job[g]
    BY DEF TInv, TypeOK
  <1>2. TypeOK'
    BY DEF TInv, TypeOK
  <1>3. CopiesHaveReports'
    BY <1>1 DEF TInv, CopiesHaveReports, Busy, HasReport, Exists
  <1>4. LockSpansCommit'
    BY <1>1, ConfigAssumption DEF TInv, LockSpansCommit
  <1> QED BY <1>2, <1>3, <1>4 DEF TInv

\* The handler has a report on file and a copy of its row.
LEMMA WorkIsTyped ==
    ASSUME TInv, NEW h \in Handlers, Busy(h)
    PROVE  /\ job[h] \in Job /\ job[h].mine \in Row /\ job[h].mine.status # "absent"
           /\ job[h].r \in Reports /\ Exists(job[h].r) /\ db[job[h].r] \in Row
           /\ issues[job[h].r] \in [Kinds -> IssueState]
  BY DEF TInv, TypeOK, CopiesHaveReports, HasReport, Job

\* It moves on, with the copy it has or with the row as it is now.
LEMMA TypedGoto ==
    ASSUME TInv, NEW h \in Handlers, Busy(h), job[h].at # "commit",
           NEW step \in Steps \ {"commit"}, Goto(h, step) \/ Reload(h, step),
           issues' \in [Reports -> [Kinds -> IssueState]],
           pdf' \in [Reports -> {"none", "staging", "published"}],
           UNCHANGED <<db, events, lock, crashes>>
    PROVE  TInv'
  <1>1. PICK j : /\ j \in {Idle, [job[h] EXCEPT !.at = step],
                            [job[h] EXCEPT !.at = step, !.mine = db[job[h].r]]}
                 /\ job' = [job EXCEPT ![h] = j]
    BY DEF Goto, Reload
  <1>2. /\ j \in Job /\ j.at # "commit"
        /\ j.at # "idle" => j.r = job[h].r /\ j.mine \in {job[h].mine, db[job[h].r]}
    <2>1. CASE j = Idle
      BY <2>1, FreshRows DEF Idle, Job, Steps
    <2>2. ASSUME NEW row \in {job[h].mine, db[job[h].r]}, j = [job[h] EXCEPT !.at = step, !.mine = row]
          PROVE  j \in Job /\ j.at = step /\ j.r = job[h].r /\ j.mine = row
      <3>1. row \in Row /\ job[h] \in Job
        BY WorkIsTyped
      <3> QED BY <2>2, <3>1 DEF Job
    <2>3. [job[h] EXCEPT !.at = step] = [job[h] EXCEPT !.at = step, !.mine = job[h].mine]
      BY WorkIsTyped DEF Job
    <2> QED BY <1>1, <2>1, <2>2, <2>3
  <1>3. j.at # "idle" => j.r \in Reports /\ db'[j.r].status # "absent" /\ j.mine.status # "absent"
    BY <1>2, WorkIsTyped DEF Exists
  <1>4. /\ \A r \in Reports : db'[r] \in Row /\ (Exists(r) => Exists(r)')
        /\ db' \in [Reports -> Row] /\ events' \in [Reports -> 0..2]
    BY DEF TInv, TypeOK, Exists
  <1>5. /\ lock' = IF j.at = "commit" THEN h ELSE IF lock = h THEN NoHandler ELSE lock
        /\ j.at = "commit" => lock \in {NoHandler, h}
    BY <1>2 DEF TInv, LockSpansCommit
  <1>6. j \in Job /\ job' = [job EXCEPT ![h] = j]
    BY <1>1, <1>2
  <1> QED BY <1>3, <1>4, <1>5, <1>6, TypedStep

\* A row is written, column by column, and the handler moves on.
LEMMA TypedWrite ==
    ASSUME TInv, NEW h \in Handlers, Busy(h), job[h].at # "commit",
           NEW loaded \in Row, NEW row \in Row, row.status # "absent",
           db' = [db EXCEPT ![job[h].r] = Merge(@, loaded, row)],
           NEW j \in Job, job' = [job EXCEPT ![h] = j], j.at # "commit",
           j.at # "idle" => j.r = job[h].r /\ j.mine.status # "absent",
           issues' \in [Reports -> [Kinds -> IssueState]],
           UNCHANGED <<events, pdf, lock, crashes>>
    PROVE  TInv'
  <1> DEFINE saved == Merge(db[job[h].r], loaded, row)
  <1>1. saved \in Row
    BY WorkIsTyped, MergeIsRow
  <1>2. saved.status = IF row.status # loaded.status THEN row.status ELSE db[job[h].r].status
    BY DEF Merge
  <1>3. saved.status # "absent"
    BY <1>2, WorkIsTyped DEF Exists
  <1>4. db' = [db EXCEPT ![job[h].r] = saved]
    OBVIOUS
  <1> HIDE DEF saved
  <1>5. /\ \A r \in Reports : db'[r] \in Row /\ (Exists(r) => Exists(r)')
        /\ db' \in [Reports -> Row] /\ db'[job[h].r].status # "absent"
    BY <1>1, <1>3, <1>4, WorkIsTyped DEF TInv, TypeOK, Exists
  <1>6. lock # h /\ lock' = lock /\ job[h].r \in Reports
    BY WorkIsTyped DEF TInv, LockSpansCommit
  <1>7. events' \in [Reports -> 0..2] /\ pdf' \in [Reports -> {"none", "staging", "published"}]
    BY DEF TInv, TypeOK
  <1> QED BY <1>5, <1>6, <1>7, TypedStep

\* The session's row is committed.
LEMMA TypedSave ==
    ASSUME TInv, NEW h \in Handlers, Busy(h), job[h].at # "commit",
           NEW row \in Row, row.status # "absent",
           NEW step \in Steps \ {"commit"},
           Save(h, row, step) \/ (Goto(h, step) /\ UNCHANGED db),
           issues' \in [Reports -> [Kinds -> IssueState]],
           UNCHANGED <<events, pdf, lock, crashes>>
    PROVE  TInv'
  <1>1. CASE Goto(h, step) /\ UNCHANGED db
    <2>1. pdf' \in [Reports -> {"none", "staging", "published"}]
      BY DEF TInv, TypeOK
    <2> QED BY <1>1, <2>1, TypedGoto
  <1>2. CASE Save(h, row, step)
    <2> DEFINE j == IF step = "idle" THEN Idle ELSE [job[h] EXCEPT !.at = step, !.mine = row]
    <2>1. /\ j \in Job /\ j.at # "commit"
          /\ j.at # "idle" => j.r = job[h].r /\ j.mine = row
      BY WorkIsTyped, FreshRows DEF Idle, Job, Steps
    <2>2. /\ job' = [job EXCEPT ![h] = j]
          /\ db' = [db EXCEPT ![job[h].r] = Merge(@, job[h].mine, row)]
      BY <1>2 DEF Save
    <2> HIDE DEF j
    <2> QED BY <2>1, <2>2, WorkIsTyped, TypedWrite
  <1> QED BY <1>1, <1>2

\* A request is for a report on file, or puts one there.
LEMMA TypedRequest ==
    ASSUME TInv, NEW h \in Handlers, Request(h)
    PROVE  TInv'
  <1> PICK op \in Ops, r \in Reports :
         Begin(h, op, r) \/ UploadNew(h, op, r) \/ UploadDuplicate(h, op, r)
    BY DEF Request
  <1>0. op \in AllOps /\ db[r] \in Row
    BY ConfigAssumption DEF TInv, TypeOK
  <1>1. /\ job[h].at = "idle" /\ lock # h /\ UNCHANGED <<issues, events, lock, crashes>>
        /\ issues' \in [Reports -> [Kinds -> IssueState]] /\ events' \in [Reports -> 0..2]
    BY DEF Begin, UploadNew, UploadDuplicate, At, TInv, TypeOK, LockSpansCommit
  <1>2. CASE Begin(h, op, r) \/ UploadDuplicate(h, op, r)
    <2>1. PICK at \in Steps \ {"commit", "idle"} :
            /\ job' = [job EXCEPT ![h] = [op |-> op, at |-> at, r |-> r, mine |-> db[r]]]
            /\ Exists(r) /\ UNCHANGED <<db, pdf>>
      <3>1. CASE Begin(h, op, r)
        <4>1. FirstStep(op) \in Steps \ {"commit", "idle"}
          BY <1>0, <3>1 DEF Begin, FirstStep, Steps, AllOps, Uploads
        <4> QED BY <3>1, <4>1 DEF Begin
      <3>2. CASE UploadDuplicate(h, op, r)
        <4> DEFINE at == IF op = "upload_md"
                         THEN IF AutoPublish /\ db[r].status # "published" THEN "auto" ELSE "sync"
                         ELSE IF db[r].status \in {"uploaded", "parsing", "parse_failed"}
                              THEN "parse" ELSE "sync"
        <4>1. at \in Steps \ {"commit", "idle"}
          BY DEF Steps
        <4>2. job' = [job EXCEPT ![h] = [op |-> op, at |-> at, r |-> r, mine |-> db[r]]]
          BY <3>2 DEF UploadDuplicate
        <4> HIDE DEF at
        <4> QED BY <3>2, <4>1, <4>2 DEF UploadDuplicate
      <3> QED BY <1>2, <3>1, <3>2
    <2> DEFINE j == [op |-> op, at |-> at, r |-> r, mine |-> db[r]]
    <2>2. j \in Job /\ j.at = at /\ j.r = r /\ j.mine = db[r]
      BY <1>0 DEF Job
    <2>3. job' = [job EXCEPT ![h] = j]
      BY <2>1
    <2> HIDE DEF j
    <2>4. /\ \A q \in Reports : db'[q] \in Row /\ (Exists(q) => Exists(q)')
          /\ db' \in [Reports -> Row] /\ pdf' \in [Reports -> {"none", "staging", "published"}]
      BY <2>1 DEF TInv, TypeOK, Exists
    <2>5. /\ j.at # "commit" /\ (j.at # "idle" => j.r \in Reports /\ db'[j.r].status # "absent"
                                                      /\ j.mine.status # "absent")
          /\ lock' = IF j.at = "commit" THEN h ELSE IF lock = h THEN NoHandler ELSE lock
      BY <1>1, <2>1, <2>2 DEF Exists
    <2>6. j \in Job /\ crashes' = crashes
      BY <1>1, <2>2
    <2> QED BY <1>1, <2>3, <2>4, <2>5, <2>6, TypedStep
  <1>3. CASE UploadNew(h, op, r)
    <2> DEFINE j == [op |-> op, r |-> r, mine |-> FreshRow,
                     at |-> IF op = "upload" THEN "parse" ELSE "apply"]
    <2>1. j \in Job /\ j.at \in {"parse", "apply"} /\ j.r = r /\ j.mine = FreshRow
      BY <1>0, FreshRows DEF Job, Steps
    <2>2. /\ job' = [job EXCEPT ![h] = j] /\ db' = [db EXCEPT ![r] = FreshRow]
          /\ pdf' = [pdf EXCEPT ![r] = "staging"]
      BY <1>3 DEF UploadNew
    <2> HIDE DEF j
    <2>3. FreshRow.status # "absent"
      BY DEF FreshRow
    <2>4. /\ \A q \in Reports : db'[q] \in Row /\ (Exists(q) => Exists(q)')
          /\ db' \in [Reports -> Row] /\ pdf' \in [Reports -> {"none", "staging", "published"}]
          /\ db'[r].status # "absent"
      BY <2>2, <2>3, FreshRows DEF TInv, TypeOK, Exists
    <2> QED BY <1>1, <2>1, <2>2, <2>3, <2>4, TypedStep
  <1> QED BY <1>2, <1>3

\* Interpretation.
LEMMA TypedInterpretation ==
    ASSUME TInv, NEW h \in Handlers,
           \/ ParseStart(h) \/ ParseEnd(h) \/ ParseFail(h) \/ ApplyMd(h)
           \/ CheckHint(h) \/ ParseStructure(h)
    PROVE  TInv'
  <1> DEFINE mine == job[h].mine
  <1>1. /\ Busy(h) /\ job[h].at # "commit" /\ UNCHANGED <<issues, events, pdf, lock, crashes>>
        /\ issues' \in [Reports -> [Kinds -> IssueState]]
    BY DEF ParseStart, ParseEnd, ParseFail, ApplyMd, CheckHint, ParseStructure, At, Busy, TInv, TypeOK
  <1>2. mine \in Row /\ mine.status # "absent"
    BY <1>1, WorkIsTyped
  <1>3. CASE ParseFail(h)
    <2> DEFINE failed == ParseFailedRow(db[job[h].r])
               j == IF job[h].op = "upload"
                    THEN [job[h] EXCEPT !.at = "sync", !.mine = failed] ELSE Idle
    <2>1. Keeps(db[job[h].r], failed)
      BY <1>1, WorkIsTyped, ParsingKeeps DEF Exists
    <2>2. failed \in Row /\ failed.status # "absent"
      BY <1>1, <2>1, WorkIsTyped DEF Keeps, Exists
    <2>3. job' = [job EXCEPT ![h] = j] /\ db' = [db EXCEPT ![job[h].r] = failed]
      BY <1>3 DEF ParseFail
    <2> HIDE DEF failed
    <2>4. /\ j \in Job /\ j.at # "commit"
          /\ j.at # "idle" => j.r = job[h].r /\ j.mine = failed
      BY <1>1, <2>2, WorkIsTyped, FreshRows DEF Idle, Job, Steps
    <2> HIDE DEF j
    <2>5. /\ \A q \in Reports : db'[q] \in Row /\ (Exists(q) => Exists(q)')
          /\ db' \in [Reports -> Row] /\ db'[job[h].r].status # "absent"
      BY <1>1, <2>2, <2>3, WorkIsTyped DEF TInv, TypeOK, Exists
    <2>6. lock' = lock /\ lock # h /\ job[h].r \in Reports
      BY <1>1, WorkIsTyped DEF TInv, LockSpansCommit
    <2>7. events' \in [Reports -> 0..2] /\ pdf' \in [Reports -> {"none", "staging", "published"}]
      BY <1>1 DEF TInv, TypeOK
    <2> QED BY <1>1, <2>2, <2>3, <2>4, <2>5, <2>6, <2>7, TypedStep
  <1>4. ASSUME ~ParseFail(h)
        PROVE  \E row \in Row, step \in Steps \ {"commit"} :
                  /\ row.status # "absent"
                  /\ Save(h, row, step) \/ (Goto(h, step) /\ UNCHANGED db)
    <2> USE DEF Steps
    <2>1. /\ Keeps(mine, ParseStarted(mine)) /\ Keeps(mine, HintRefused(mine))
          /\ Keeps(mine, mine) /\ Keeps(mine, Flagged(mine, "same_date_pdf_conflict"))
          /\ \A date \in Dates : Keeps(mine, MdRow(mine, date))
          /\ \A found \in ParseOutcomes : Keeps(mine, ParsedRow(mine, found))
      <3>1. Keeps(mine, mine) /\ "same_date_pdf_conflict" \in Kinds
        BY <1>2 DEF Keeps, Kinds, BlockingKinds
      <3> QED BY <1>2, <3>1, ParsingKeeps, ConfigAssumption
    <2>2. CASE ParseStart(h)
      BY <1>2, <2>1, <2>2 DEF ParseStart, Keeps, AfterError
    <2>3. CASE ParseEnd(h)
      BY <1>2, <2>1, <2>3 DEF ParseEnd, Keeps
    <2>4. CASE ApplyMd(h)
      BY <1>2, <2>1, <2>4 DEF ApplyMd, Keeps
    <2>5. CASE CheckHint(h)
      BY <1>2, <2>1, <2>5 DEF CheckHint, Keeps
    <2>6. CASE ParseStructure(h)
      BY <1>2, <2>1, <2>6 DEF ParseStructure, Keeps
    <2> QED BY <1>4, <2>2, <2>3, <2>4, <2>5, <2>6
  <1> QED BY <1>1, <1>3, <1>4, TypedSave

\* Publication, with its compensation.
LEMMA TypedPublication ==
    ASSUME TInv, NEW h \in Handlers,
           \/ AutoConflict(h) \/ AutoDecide(h) \/ PublishValidate(h) \/ Promote(h)
           \/ HistoryConflict(h) \/ PublishCommit(h) \/ PublishCommitFails(h) \/ Undo(h)
    PROVE  TInv'
  <1> DEFINE r == job[h].r
             mine == job[h].mine
  <1>1. Busy(h)
    BY DEF AutoConflict, AutoDecide, PublishValidate, Promote, HistoryConflict, PublishCommit,
           PublishCommitFails, Undo, At, Busy
  <1>2. /\ job[h] \in Job /\ mine \in Row /\ mine.status # "absent"
        /\ r \in Reports /\ db[r] \in Row /\ db[r].status # "absent"
    BY <1>1, WorkIsTyped DEF Exists
  <1>3. /\ issues \in [Reports -> [Kinds -> IssueState]] /\ events \in [Reports -> 0..2]
        /\ pdf \in [Reports -> {"none", "staging", "published"}] /\ db \in [Reports -> Row]
        /\ \A q \in Reports : db[q] \in Row
    BY DEF TInv, TypeOK
  <1>4. CASE AutoConflict(h)
    <2>1. job[h].at = "auto" /\ Goto(h, "idle") /\ UNCHANGED <<issues, events, pdf, lock, crashes>>
      BY <1>4 DEF AutoConflict, At
    <2>2. CASE UNCHANGED db
      <3>1. "idle" \in Steps \ {"commit"} /\ job[h].at # "commit" /\ issues' = issues /\ pdf' = pdf
            /\ UNCHANGED <<db, events, lock, crashes>> /\ Goto(h, "idle")
        BY <2>1, <2>2 DEF Steps
      <3> QED BY <1>1, <1>3, <3>1, TypedGoto
    <2>3. ASSUME NEW copy \in {mine, db[r]}, db' = [db EXCEPT ![r] = Merge(@, copy, ConflictRow(copy))]
          PROVE  TInv'
      <3>0. copy \in Row /\ copy.status # "absent"
        BY <1>2
      <3>1. Keeps(copy, ConflictRow(copy))
        BY <3>0, ReviewKeeps
      <3>3. ConflictRow(copy) \in Row /\ ConflictRow(copy).status # "absent"
        BY <3>0, <3>1 DEF Keeps
      <3>2. Idle \in Job /\ Idle.at = "idle" /\ job' = [job EXCEPT ![h] = Idle]
        BY <2>1, FreshRows DEF Goto, Idle, Job, Steps
      <3> QED BY <1>1, <1>3, <2>1, <2>3, <3>0, <3>2, <3>3, TypedWrite
    <2> QED BY <1>4, <2>2, <2>3 DEF AutoConflict
  <1>5. CASE \/ AutoDecide(h) \/ PublishValidate(h) \/ HistoryConflict(h) \/ Undo(h)
             \/ Promote(h) /\ mine.stored = "staging" /\ pdf[r] # "staging"
    <2>1. /\ job[h].at # "commit" /\ UNCHANGED <<db, issues, events, lock, crashes>>
          /\ \E step \in Steps \ {"commit"} : Goto(h, step) \/ Reload(h, step)
      BY <1>5 DEF AutoDecide, PublishValidate, HistoryConflict, Undo, Promote, At, AfterError,
                  AfterPromotion, Steps
    <2>2. pdf' \in [Reports -> {"none", "staging", "published"}]
      BY <1>3, <1>5 DEF AutoDecide, PublishValidate, HistoryConflict, Undo, Promote
    <2> QED BY <1>1, <1>3, <2>1, <2>2, TypedGoto
  <1>6. CASE Promote(h) /\ ~(mine.stored = "staging" /\ pdf[r] # "staging")
    <2> DEFINE j == [job[h] EXCEPT !.at = "commit"]
    <2>1. /\ job' = [job EXCEPT ![h] = j] /\ lock = NoHandler /\ lock' = h
          /\ UNCHANGED <<db, issues, events, crashes>>
          /\ pdf' = [pdf EXCEPT ![r] = IF mine.stored = "staging" THEN "published" ELSE @]
      BY <1>6 DEF Promote, Goto
    <2>2. /\ j \in Job /\ j.at = "commit" /\ j.r = r /\ j.mine = mine
      BY <1>2 DEF Job, Steps
    <2> HIDE DEF j
    <2>3. /\ \A q \in Reports : db'[q] \in Row /\ (Exists(q) => Exists(q)')
          /\ db' \in [Reports -> Row] /\ pdf' \in [Reports -> {"none", "staging", "published"}]
      BY <1>2, <1>3, <2>1 DEF Exists
    <2> QED BY <1>2, <1>3, <2>1, <2>2, <2>3, TypedStep
  <1>7. CASE PublishCommit(h)
    <2> DEFINE row == PublishedRow(mine)
               saved == Merge(db[r], mine, row)
               j == IF job[h].op \in Uploads
                    THEN [job[h] EXCEPT !.at = "sync", !.mine = row] ELSE Idle
               marked == [db EXCEPT ![r] = saved]
    <2>1. row \in Row /\ row.status = "published" /\ row.stored = "published"
      BY <1>2, PublishedIsRow
    <2>2. saved \in Row /\ saved.status # "absent"
      <3>1. saved.status = IF row.status # mine.status THEN row.status ELSE db[r].status
        BY DEF Merge
      <3>2. saved \in Row
        BY <1>2, <2>1, MergeIsRow
      <3> HIDE DEF saved, row
      <3> QED BY <1>2, <2>1, <3>1, <3>2
    <2>3. j \in Job /\ j.at # "commit" /\ (j.at # "idle" => j.r = r /\ j.mine = row)
      BY <1>2, <2>1, FreshRows DEF Job, Idle, Steps
    <2>4. /\ db' = [q \in Reports |-> IF q \in Superseded(r, row.date)
                                      THEN [marked[q] EXCEPT !.current = FALSE] ELSE marked[q]]
          /\ job' = [job EXCEPT ![h] = j] /\ lock' = NoHandler /\ lock = h
          /\ events' = [events EXCEPT ![r] = IF @ = 2 THEN 2 ELSE @ + 1]
          /\ UNCHANGED <<issues, pdf, crashes>>
      BY <1>7 DEF PublishCommit
    <2> HIDE DEF saved, j, row
    <2>5. \A q \in Reports : marked[q] \in Row /\ (Exists(q) => marked[q].status # "absent")
      BY <1>2, <1>3, <2>2 DEF Exists
    <2>6. marked[r].status # "absent"
      BY <1>2, <1>3, <2>2
    <2> HIDE DEF marked
    <2>7. \A q \in Reports : db'[q] \in Row /\ db'[q].status = marked[q].status
      <3>1. ASSUME NEW some \in Row
            PROVE  /\ [some EXCEPT !.current = FALSE] \in Row
                   /\ [some EXCEPT !.current = FALSE].status = some.status
        BY DEF Row
      <3> QED BY <2>4, <2>5, <3>1
    <2>8. /\ \A q \in Reports : db'[q] \in Row /\ (Exists(q) => Exists(q)')
          /\ db' \in [Reports -> Row] /\ db'[r].status # "absent"
      BY <1>2, <2>4, <2>5, <2>6, <2>7 DEF Exists
    <2>9. events' \in [Reports -> 0..2]
      BY <1>2, <1>3, <2>4
    <2> QED BY <1>2, <1>3, <2>1, <2>3, <2>4, <2>8, <2>9, TypedStep
  <1>8. CASE PublishCommitFails(h)
    <2> DEFINE j == [job[h] EXCEPT !.at = "abort"]
    <2>1. /\ job' = [job EXCEPT ![h] = j] /\ lock = h /\ lock' = NoHandler
          /\ UNCHANGED <<db, issues, events, pdf, crashes>>
      BY <1>8 DEF PublishCommitFails, Goto
    <2>2. /\ j \in Job /\ j.at = "abort" /\ j.r = r /\ j.mine = mine
      BY <1>2 DEF Job, Steps
    <2> HIDE DEF j
    <2>3. \A q \in Reports : db'[q] \in Row /\ (Exists(q) => Exists(q)')
      BY <1>3, <2>1 DEF Exists
    <2> QED BY <1>2, <1>3, <2>1, <2>2, <2>3, TypedStep
  <1> QED BY <1>4, <1>5, <1>6, <1>7, <1>8

\* Review, edits and manual transitions.
LEMMA TypedReview ==
    ASSUME TInv, NEW h \in Handlers,
           \/ SyncWorkflow(h) \/ ResolveRefused(h) \/ DecideUnknown(h)
           \/ \E kind \in Kinds : Decide(h, kind)
           \/ Patch(h) \/ Ready(h) \/ Withdraw(h) \/ ResolveTerm(h)
           \/ ReconcileStart(h) \/ ReconcileRebuild(h) \/ ReconcileRestore(h)
    PROVE  TInv'
  <1> DEFINE r == job[h].r
             mine == job[h].mine
  <1>1. /\ Busy(h) /\ job[h].at # "commit" /\ UNCHANGED <<events, pdf, lock, crashes>>
    BY DEF SyncWorkflow, ResolveRefused, DecideUnknown, Decide, Patch, Ready, Withdraw, ResolveTerm,
           ReconcileStart, ReconcileRebuild, ReconcileRestore, At, Busy
  <1>2. /\ mine \in Row /\ mine.status # "absent" /\ issues[r] \in [Kinds -> IssueState]
        /\ r \in Reports /\ db[r] \in Row /\ db[r].status # "absent"
        /\ issues \in [Reports -> [Kinds -> IssueState]]
        /\ pdf \in [Reports -> {"none", "staging", "published"}]
        /\ \A known \in [Kinds -> IssueState] : [issues EXCEPT ![r] = known] \in [Reports -> [Kinds -> IssueState]]
    BY <1>1, WorkIsTyped DEF Exists, TInv, TypeOK
  <1>3. ASSUME NEW row \in Row, row.status # "absent", NEW step \in Steps \ {"commit"},
               Save(h, row, step) \/ (Goto(h, step) /\ UNCHANGED db),
               issues' \in [Reports -> [Kinds -> IssueState]]
        PROVE  TInv'
    BY <1>1, <1>3, TypedSave
  <1>4. \A status \in Statuses : [mine EXCEPT !.status = status] \in Row
                                 /\ [mine EXCEPT !.status = status].status = status
    BY <1>2, StatusColumn
  <1>5. CASE SyncWorkflow(h)
    <2> DEFINE synced == SyncedIssues(mine, issues[r])
               row == ApplyState(mine, synced)
    <2>1. synced \in [Kinds -> IssueState]
      BY <1>2, SyncedIsIssues
    <2>2. Keeps(mine, row)
      BY <1>2, <2>1, ReviewKeeps
    <2>3. PICK step \in {"decide", "restore", "idle"} :
            /\ Save(h, IF At(h, "undone") THEN [row EXCEPT !.stored = "staging"] ELSE row, step)
            /\ issues' = [issues EXCEPT ![r] = synced]
      BY <1>5 DEF SyncWorkflow
    <2> HIDE DEF synced, row
    <2>4. /\ row \in Row /\ row.status # "absent"
          /\ [row EXCEPT !.stored = "staging"] \in Row
          /\ [row EXCEPT !.stored = "staging"].status # "absent"
      BY <1>2, <2>2 DEF Keeps, Row
    <2> QED BY <1>2, <1>3, <2>1, <2>3, <2>4 DEF Steps
  <1>6. CASE ResolveRefused(h) \/ DecideUnknown(h)
    <2>1. "idle" \in Steps \ {"commit"} /\ issues' = issues /\ pdf' = pdf
          /\ UNCHANGED <<db, events, lock, crashes>> /\ Goto(h, "idle")
      BY <1>6 DEF ResolveRefused, DecideUnknown, Steps
    <2> QED BY <1>1, <1>2, <2>1, TypedGoto
  <1>7. ASSUME NEW kind \in Kinds, Decide(h, kind)
        PROVE  TInv'
    <2>1. CASE Goto(h, "sync") /\ UNCHANGED <<db, issues>>
      <3>1. "sync" \in Steps \ {"commit"} /\ issues' = issues /\ pdf' = pdf
            /\ UNCHANGED <<db, events, lock, crashes>> /\ Goto(h, "sync")
        BY <1>1, <2>1 DEF Steps
      <3> QED BY <1>1, <1>2, <3>1, TypedGoto
    <2>2. CASE ~(Goto(h, "sync") /\ UNCHANGED <<db, issues>>)
      <3> DEFINE decided == [issues[r] EXCEPT ![kind] = "resolved"]
      <3>1. PICK date \in Dates \cup {NoDate} :
              /\ issues' = [issues EXCEPT ![r] = decided]
              /\ Save(h, ApplyState(ResolvedRow(mine, kind, date), decided), "sync")
        BY <1>7, <2>2 DEF Decide
      <3>2. decided \in [Kinds -> IssueState]
        BY <1>2 DEF IssueState
      <3> DEFINE resolved == ResolvedRow(mine, kind, date)
      <3>6. Keeps(mine, resolved)
        BY <1>2, ReviewKeeps
      <3> HIDE DEF decided, resolved
      <3>3. resolved \in Row /\ resolved.status # "absent"
        BY <1>2, <3>6 DEF Keeps
      <3>7. Keeps(resolved, ApplyState(resolved, decided))
        BY <3>2, <3>3, ReviewKeeps
      <3>4. ApplyState(resolved, decided) \in Row /\ ApplyState(resolved, decided).status # "absent"
        BY <3>3, <3>7 DEF Keeps
      <3>5. Save(h, ApplyState(resolved, decided), "sync")
        BY <3>1 DEF resolved
      <3> QED BY <1>2, <1>3, <3>1, <3>2, <3>4, <3>5 DEF Steps
    <2> QED BY <2>1, <2>2
  <1>8. CASE Patch(h)
    <2>1. PICK date \in Dates \cup {NoDate}, confirm \in BOOLEAN, complete \in BOOLEAN,
               next \in {"idle", "sync"} : Save(h, PatchedRow(mine, date, confirm, complete), next)
      BY <1>8 DEF Patch
    <2> DEFINE patched == PatchedRow(mine, date, confirm, complete)
    <2>2. Keeps(mine, patched)
      BY <1>2, ReviewKeeps
    <2>3. Save(h, patched, next) /\ issues' = issues
      BY <1>8, <2>1 DEF Patch
    <2> HIDE DEF patched
    <2>4. patched \in Row /\ patched.status # "absent"
      BY <1>2, <2>2 DEF Keeps
    <2>5. next \in Steps \ {"commit"}
      BY DEF Steps
    <2> QED BY <1>2, <1>3, <2>3, <2>4, <2>5
  <1>9. CASE Ready(h) \/ Withdraw(h) \/ ReconcileStart(h) \/ ReconcileRestore(h)
    <2>1. PICK status \in {"ready_to_publish", "withdrawn", "needs_review", "published"},
               step \in {"idle", "parse"} :
            Save(h, [mine EXCEPT !.status = status], step) \/ (Goto(h, step) /\ UNCHANGED db)
      BY <1>9 DEF Ready, Withdraw, ReconcileStart, ReconcileRestore
    <2>2. [mine EXCEPT !.status = status] \in Row /\ [mine EXCEPT !.status = status].status # "absent"
      BY <1>4 DEF Statuses
    <2>3. issues' = issues
      BY <1>9 DEF Ready, Withdraw, ReconcileStart, ReconcileRestore
    <2> QED BY <1>2, <1>3, <2>1, <2>2, <2>3 DEF Steps
  <1>10. CASE ResolveTerm(h)
    <2>1. PICK left \in {"none", "few", "many"} : db' = [db EXCEPT ![r].terms = left]
      BY <1>10 DEF ResolveTerm
    <2> DEFINE row == [db[r] EXCEPT !.terms = left]
    <2>2. row \in Row /\ row.status # "absent"
      BY <1>2 DEF Row
    <2>3. Merge(db[r], db[r], row) = row
      BY <1>2, <2>2 DEF Merge, Row
    <2>4. db' = [db EXCEPT ![r] = Merge(@, db[r], row)]
      BY <2>1, <2>3
    <2> HIDE DEF row
    <2>5. Idle \in Job /\ Idle.at = "idle" /\ job' = [job EXCEPT ![h] = Idle]
      BY <1>10, FreshRows DEF ResolveTerm, Goto, Idle, Job, Steps
    <2>6. issues' = issues
      BY <1>10 DEF ResolveTerm
    <2> QED BY <1>1, <1>2, <2>2, <2>4, <2>5, <2>6, TypedWrite
  <1>11. CASE ReconcileRebuild(h)
    <2>1. [k \in Kinds |-> IF issues[r][k] = "open" THEN "none" ELSE issues[r][k]] \in [Kinds -> IssueState]
      BY <1>2 DEF IssueState
    <2>2. issues' \in [Reports -> [Kinds -> IssueState]]
      BY <1>2, <1>11, <2>1 DEF ReconcileRebuild
    <2> QED BY <1>1, <1>2, <1>11, <2>2, TypedGoto DEF ReconcileRebuild, Steps
  <1> QED BY <1>5, <1>6, <1>7, <1>8, <1>9, <1>10, <1>11

\* Handlers that die take their copies and their lock with them.
LEMMA TypedCrash ==
    ASSUME TInv, NEW died \in SUBSET Handlers, Crash(died)
    PROVE  TInv'
  <1>1. \A g \in Handlers : job'[g] = IF g \in died THEN Idle ELSE job[g]
    BY DEF Crash
  <1>2. Idle \in Job /\ Idle.at = "idle"
    BY FreshRows DEF Idle, Job, Steps
  <1>3. TypeOK'
    BY <1>2, ConfigAssumption DEF Crash, TInv, TypeOK
  <1>4. CopiesHaveReports'
    BY <1>1, <1>2 DEF Crash, TInv, CopiesHaveReports, Busy, HasReport, Exists
  <1>5. LockSpansCommit'
    BY <1>1, <1>2, ConfigAssumption DEF Crash, TInv, LockSpansCommit
  <1> QED BY <1>3, <1>4, <1>5 DEF TInv

\* Nothing is on file and nothing runs at the start.
LEMMA TypedInit == Init => TInv
  <1> SUFFICES ASSUME Init PROVE TInv
    OBVIOUS
  <1>1. \A h \in Handlers : job[h] = Idle
    BY DEF Init
  <1>2. Idle \in Job /\ Idle.at = "idle"
    BY FreshRows DEF Idle, Job, Steps
  <1>3. TypeOK
    BY <1>2, FreshRows, ConfigAssumption DEF Init, TypeOK, NoIssues, IssueState
  <1>4. CopiesHaveReports /\ LockSpansCommit
    BY <1>1, <1>2, ConfigAssumption DEF Init, CopiesHaveReports, Busy, LockSpansCommit
  <1> QED BY <1>3, <1>4 DEF TInv

LEMMA TypedNext == TInv /\ [Next]_vars => TInv'
  <1> SUFFICES ASSUME TInv, [Next]_vars PROVE TInv'
    OBVIOUS
  <1>1. ASSUME NEW h \in Handlers, Request(h) PROVE TInv'
    BY <1>1, TypedRequest
  <1>2. ASSUME NEW h \in Handlers, Step(h) PROVE TInv'
    BY <1>2, TypedInterpretation, TypedPublication, TypedReview DEF Step
  <1>3. ASSUME Crash(Handlers \ Scripts) PROVE TInv'
    BY <1>3, TypedCrash
  <1>4. ASSUME NEW h \in Scripts, Crash({h}) PROVE TInv'
    <2>1. {h} \in SUBSET Handlers
      BY DEF Scripts
    <2> QED BY <1>4, <2>1, TypedCrash
  <1>5. CASE UNCHANGED vars
    BY <1>5 DEF vars, TInv, TypeOK, CopiesHaveReports, Busy, HasReport, Exists, LockSpansCommit
  <1> QED BY <1>1, <1>2, <1>3, <1>4, <1>5 DEF Next

\* Every variable keeps its type: the copies the sessions hold, merged column
\* by column into what others committed, never leave anything but a row.
THEOREM TypeCorrect == Spec => []TypeOK
  <1>1. TInv => TypeOK
    BY DEF TInv
  <1> QED BY TypedInit, TypedNext, <1>1, PTL DEF Spec

----------------------------------------------------------------------------
(* What a step of a handler does to the invariant.                          *)

\* Steps at which nothing is promised about the file.
Plain == Steps \ {"commit", "reconcile", "promote", "undo", "abort", "undone"}

\* A handler that only moves on, or loads its row again.
LEMMA MoveKeeps ==
    ASSUME IInv, TInv', NEW h \in Handlers, NEW j, job' = [job EXCEPT ![h] = j],
           j.at # "idle" => SeesPromotions(j) /\ OwnsFile(j),
           UNCHANGED <<db, pdf>>
    PROVE  IInv'
  <1> USE DEF IInv
  <1>1. FilesFollowRows' /\ PublishedRowsPromoted'
    BY DEF FilesFollowRows, PublishedRowsPromoted
  <1>2. \A g \in Handlers : job'[g] = IF g = h THEN j ELSE job[g]
    BY DEF TInv, TypeOK
  <1>3. CopiesSeePromotions'
    BY <1>2 DEF CopiesSeePromotions, Busy, SeesPromotions
  <1>4. PublishersOwnFiles'
    BY <1>2 DEF PublishersOwnFiles, OwnsFile
  <1> QED BY <1>1, <1>3, <1>4

\* Going to a step other than the commit.
LEMMA GotoKeeps ==
    ASSUME IInv, TInv', NEW h \in Handlers, Busy(h),
           NEW step \in Steps \ {"commit", "reconcile", "undone"}, Goto(h, step),
           job[h].op # "reconcile" \/ step = "idle" \/ job[h].at # "reconcile",
           job[h].mine.stored = "staging" =>
              /\ step = "promote" => pdf[job[h].r] = "staging"
              /\ step \in {"undo", "abort"} => db[job[h].r].stored = "staging",
           UNCHANGED <<db, pdf>>
    PROVE  IInv'
  <1>1. CASE step = "idle"
    <2>1. job' = [job EXCEPT ![h] = Idle] /\ Idle.at = "idle"
      BY <1>1 DEF Goto, Idle
    <2> QED BY <2>1, MoveKeeps
  <1>2. CASE step # "idle"
    <2> DEFINE j == [job[h] EXCEPT !.at = step]
    <2>1. job[h] \in Job
      BY WorkIsTyped DEF IInv
    <2>2. j.at = step /\ j.op = job[h].op /\ j.r = job[h].r /\ j.mine = job[h].mine
      BY <2>1 DEF Job
    <2>3. SeesPromotions(job[h])
      BY DEF IInv, CopiesSeePromotions
    <2>4. SeesPromotions(j) /\ OwnsFile(j)
      BY <1>2, <2>2, <2>3 DEF SeesPromotions, OwnsFile
    <2>5. job' = [job EXCEPT ![h] = j]
      BY <1>2 DEF Goto
    <2> HIDE DEF j
    <2> QED BY <2>4, <2>5, MoveKeeps
  <1> QED BY <1>1, <1>2

\* Reading the row again after a rollback.
LEMMA ReloadKeeps ==
    ASSUME IInv, TInv', NEW h \in Handlers, Busy(h),
           NEW step \in {"sync", "idle"}, job[h].at # "reconcile",
           Reload(h, step), UNCHANGED <<db, pdf>>
    PROVE  IInv'
  <1>1. CASE step = "idle"
    <2>1. job' = [job EXCEPT ![h] = Idle] /\ Idle.at = "idle"
      BY <1>1 DEF Reload, Idle
    <2> QED BY <2>1, MoveKeeps
  <1>2. CASE step = "sync"
    <2> DEFINE j == [job[h] EXCEPT !.at = step, !.mine = db[job[h].r]]
    <2>1. job[h] \in Job /\ SeesPromotions(job[h]) /\ job[h].r \in Reports
      BY WorkIsTyped DEF IInv, CopiesSeePromotions
    <2>2. j.at = "sync" /\ j.op = job[h].op /\ j.r = job[h].r /\ j.mine = db[job[h].r]
      BY <1>2, <2>1 DEF Job
    <2> HIDE DEF j
    <2>3. SeesPromotions(j) /\ OwnsFile(j)
      BY <2>1, <2>2 DEF SeesPromotions, OwnsFile, IInv, PublishedRowsPromoted
    <2>4. job' = [job EXCEPT ![h] = j]
      BY <1>2 DEF Reload, j
    <2> QED BY <2>3, <2>4, MoveKeeps
  <1> QED BY <1>1, <1>2

\* A commit of one row, other than the publication's.
LEMMA RowKeeps ==
    ASSUME IInv, TInv', NEW h \in Handlers,
           NEW r \in Reports, NEW row, row.stored = db[r].stored,
           row.status = "published" => row.stored = "published",
           db' = [db EXCEPT ![r] = row],
           NEW j, j.at # "idle" => /\ j.r = r /\ j.at \in Plain
                                   /\ j.mine.stored = "published" => db[r].stored = "published"
                                   /\ j.mine.status = "published" => j.mine.stored = "published"
                                   /\ j.op = "reconcile" => j.mine.stored = "published",
           job' = [job EXCEPT ![h] = j], UNCHANGED pdf
    PROVE  IInv'
  <1>1. \A q \in Reports : /\ db'[q].stored = db[q].stored
                           /\ db'[q].status = "published" => db'[q].stored = "published"
    BY DEF IInv, TInv, TypeOK, PublishedRowsPromoted
  <1>2. \A g \in Handlers : job'[g] = IF g = h THEN j ELSE job[g]
    BY DEF IInv, TInv, TypeOK
  <1>3. \A g \in Handlers : Busy(g) => job[g].r \in Reports
    BY WorkIsTyped DEF IInv
  <1>4. FilesFollowRows' /\ PublishedRowsPromoted'
    BY <1>1 DEF IInv, FilesFollowRows, PublishedRowsPromoted
  <1>5. CopiesSeePromotions'
    BY <1>1, <1>2, <1>3 DEF IInv, CopiesSeePromotions, Busy, SeesPromotions
  <1>6. PublishersOwnFiles'
    <2> SUFFICES ASSUME NEW g \in Handlers PROVE OwnsFile(job[g])'
      BY DEF PublishersOwnFiles
    <2>1. CASE g = h
      BY <1>2, <2>1 DEF OwnsFile, Plain
    <2>2. CASE g # h /\ Busy(g)
      BY <1>1, <1>2, <1>3, <2>2 DEF IInv, PublishersOwnFiles, OwnsFile
    <2>3. CASE g # h /\ ~Busy(g)
      BY <1>2, <2>3 DEF OwnsFile, Busy
    <2> QED BY <2>1, <2>2, <2>3
  <1> QED BY <1>4, <1>5, <1>6 DEF IInv

\* Merging the changes a rule made to a copy keeps the file name as stored.
LEMMA MergeKeeps ==
    ASSUME IInv, NEW r \in Reports, NEW mine, NEW row,
           row.stored = mine.stored,
           mine.stored = "published" => db[r].stored = "published",
           row.status = "published" => row.stored = "published"
    PROVE  /\ Merge(db[r], mine, row).stored = db[r].stored
           /\ Merge(db[r], mine, row).status = "published"
                 => Merge(db[r], mine, row).stored = "published"
  <1> DEFINE saved == Merge(db[r], mine, row)
  <1>1. saved.stored = IF row.stored # mine.stored THEN row.stored ELSE db[r].stored
    BY DEF Merge
  <1>2. saved.status = IF row.status # mine.status THEN row.status ELSE db[r].status
    BY DEF Merge
  <1> HIDE DEF saved
  <1>3. /\ saved.stored = db[r].stored
        /\ saved.status = "published" => saved.stored = "published"
    BY <1>1, <1>2 DEF IInv, PublishedRowsPromoted
  <1> QED BY <1>3 DEF saved

\* A commit of the session's row.
LEMMA SaveKeeps ==
    ASSUME IInv, TInv', NEW h \in Handlers, Busy(h),
           NEW row, row.stored = job[h].mine.stored,
           row.status = "published" => row.stored = "published",
           NEW step \in Plain,
           job[h].op = "reconcile" => row.stored = "published",
           Save(h, row, step), UNCHANGED pdf
    PROVE  IInv'
  <1> DEFINE saved == Merge(db[job[h].r], job[h].mine, row)
             j == IF step = "idle" THEN Idle ELSE [job[h] EXCEPT !.at = step, !.mine = row]
  <1>1. SeesPromotions(job[h]) /\ job[h] \in Job /\ job[h].r \in Reports
    BY WorkIsTyped DEF IInv, CopiesSeePromotions
  <1>2. /\ saved.stored = db[job[h].r].stored
        /\ saved.status = "published" => saved.stored = "published"
    BY <1>1, MergeKeeps DEF SeesPromotions
  <1>3. j.at # "idle" => j.at = step /\ j.r = job[h].r /\ j.op = job[h].op /\ j.mine = row
    BY <1>1 DEF Job, Idle
  <1>4. j.at # "idle" => /\ j.r = job[h].r /\ j.at \in Plain
                         /\ j.mine.stored = "published" => db[job[h].r].stored = "published"
                         /\ j.mine.status = "published" => j.mine.stored = "published"
                         /\ j.op = "reconcile" => j.mine.stored = "published"
    BY <1>1, <1>3 DEF SeesPromotions
  <1>5. db' = [db EXCEPT ![job[h].r] = saved] /\ job' = [job EXCEPT ![h] = j]
    BY DEF Save
  <1> HIDE DEF saved, j
  <1> QED BY <1>1, <1>2, <1>4, <1>5, RowKeeps

\* The usual step: a rule applied to the copy is committed, or the handler
\* moves on.
LEMMA RuleKeeps ==
    ASSUME IInv, TInv', NEW h \in Handlers, Busy(h), job[h].at # "reconcile",
           NEW row, Keeps(job[h].mine, row), NEW step \in Plain,
           Save(h, row, step) \/ (Goto(h, step) /\ UNCHANGED db), UNCHANGED pdf
    PROVE  IInv'
  <1>1. SeesPromotions(job[h])
    BY DEF IInv, CopiesSeePromotions
  <1>2. CASE Save(h, row, step)
    <2>1. /\ row.stored = job[h].mine.stored
          /\ row.status = "published" => row.stored = "published"
          /\ job[h].op = "reconcile" => row.stored = "published"
      BY <1>1 DEF Keeps, SeesPromotions
    <2> QED BY <1>2, <2>1, SaveKeeps
  <1>3. CASE Goto(h, step) /\ UNCHANGED db
    BY <1>3, GotoKeeps DEF Plain
  <1> QED BY <1>2, <1>3

----------------------------------------------------------------------------
(* The actions.                                                             *)

\* Requests: a new PDF has no session of its own yet, an old one has a row.
LEMMA RequestKeeps ==
    ASSUME IInv, TInv', NEW h \in Handlers, Request(h)
    PROVE  IInv'
  <1> PICK op \in Ops, r \in Reports :
         Begin(h, op, r) \/ UploadNew(h, op, r) \/ UploadDuplicate(h, op, r)
    BY DEF Request
  <1>0. op \in AllOps /\ db[r] \in Row
    BY ConfigAssumption DEF IInv, TInv, TypeOK
  <1>1. ASSUME NEW at \in Steps \ {"promote", "commit", "undo", "abort", "undone"},
               at = "reconcile" \/ op # "reconcile",
               job' = [job EXCEPT ![h] = [op |-> op, at |-> at, r |-> r, mine |-> db[r]]],
               UNCHANGED <<db, pdf>>
        PROVE  IInv'
    <2> DEFINE j == [op |-> op, at |-> at, r |-> r, mine |-> db[r]]
    <2>1. SeesPromotions(j) /\ OwnsFile(j)
      BY <1>1 DEF SeesPromotions, OwnsFile, IInv, PublishedRowsPromoted
    <2>2. job' = [job EXCEPT ![h] = j]
      BY <1>1
    <2> HIDE DEF j
    <2> QED BY <1>1, <2>1, <2>2, MoveKeeps
  <1>2. CASE Begin(h, op, r)
    <2>1. FirstStep(op) \in Steps \ {"promote", "commit", "undo", "abort", "undone"}
      BY <1>2, <1>0 DEF Begin, FirstStep, Steps, AllOps, Uploads
    <2>2. FirstStep(op) = "reconcile" \/ op # "reconcile"
      BY DEF FirstStep
    <2> QED BY <1>1, <1>2, <2>1, <2>2 DEF Begin
  <1>3. CASE UploadDuplicate(h, op, r)
    <2> DEFINE at == IF op = "upload_md"
                     THEN IF AutoPublish /\ db[r].status # "published" THEN "auto" ELSE "sync"
                     ELSE IF db[r].status \in {"uploaded", "parsing", "parse_failed"}
                          THEN "parse" ELSE "sync"
    <2>1. /\ at \in Steps \ {"promote", "commit", "undo", "abort", "undone"}
          /\ op # "reconcile" /\ UNCHANGED <<db, pdf>>
      BY <1>3 DEF UploadDuplicate, Uploads, Steps
    <2>2. job' = [job EXCEPT ![h] = [op |-> op, at |-> at, r |-> r, mine |-> db[r]]]
      BY <1>3 DEF UploadDuplicate
    <2> HIDE DEF at
    <2> QED BY <1>1, <2>1, <2>2
  <1>4. CASE UploadNew(h, op, r)
    <2> DEFINE j == [op |-> op, r |-> r, mine |-> FreshRow,
                     at |-> IF op = "upload" THEN "parse" ELSE "apply"]
    <2>1. j.at \in {"parse", "apply"} /\ j.r = r /\ j.mine = FreshRow /\ j.op # "reconcile"
      BY <1>4 DEF UploadNew, Uploads
    <2> HIDE DEF j
    <2>2. /\ job' = [job EXCEPT ![h] = j] /\ db[r].status = "absent"
          /\ db' = [db EXCEPT ![r] = FreshRow] /\ pdf' = [pdf EXCEPT ![r] = "staging"]
      BY <1>4 DEF UploadNew, Exists, j
    <2>3. FreshRow.stored = "staging" /\ FreshRow.status = "uploaded"
      BY DEF FreshRow
    <2>4. \A g \in Handlers : Busy(g) => job[g].r # r /\ job[g].r \in Reports
      BY <2>2, WorkIsTyped DEF IInv, Exists
    <2>5. \A g \in Handlers : job'[g] = IF g = h THEN j ELSE job[g]
      BY <2>2 DEF IInv, TInv, TypeOK
    <2>6. \A q \in Reports : IF q = r THEN db'[q] = FreshRow /\ pdf'[q] = "staging"
                                      ELSE db'[q] = db[q] /\ pdf'[q] = pdf[q]
      BY <2>2 DEF IInv, TInv, TypeOK
    <2>7. FilesFollowRows' /\ PublishedRowsPromoted'
      BY <2>3, <2>6 DEF IInv, FilesFollowRows, PublishedRowsPromoted
    <2>8. CopiesSeePromotions'
      <3> SUFFICES ASSUME NEW g \in Handlers, Busy(g)' PROVE SeesPromotions(job[g])'
        BY DEF CopiesSeePromotions
      <3>1. CASE g = h
        BY <2>1, <2>3, <2>5, <3>1 DEF SeesPromotions
      <3>2. CASE g # h
        BY <2>4, <2>5, <2>6, <3>2 DEF Busy, IInv, CopiesSeePromotions, SeesPromotions
      <3> QED BY <3>1, <3>2
    <2>9. PublishersOwnFiles'
      <3> SUFFICES ASSUME NEW g \in Handlers PROVE OwnsFile(job[g])'
        BY DEF PublishersOwnFiles
      <3>1. CASE g = h
        BY <2>1, <2>5, <3>1 DEF OwnsFile
      <3>2. CASE g # h /\ Busy(g)
        BY <2>4, <2>5, <2>6, <3>2 DEF IInv, PublishersOwnFiles, OwnsFile
      <3>3. CASE g # h /\ ~Busy(g)
        BY <2>5, <3>3 DEF OwnsFile, Busy
      <3> QED BY <3>1, <3>2, <3>3
    <2> QED BY <2>7, <2>8, <2>9 DEF IInv
  <1> QED BY <1>2, <1>3, <1>4

\* Interpretation: every rule keeps the file name and publishes nothing.
LEMMA InterpretationKeeps ==
    ASSUME IInv, TInv', NEW h \in Handlers,
           \/ ParseStart(h) \/ ParseEnd(h) \/ ParseFail(h) \/ ApplyMd(h)
           \/ CheckHint(h) \/ ParseStructure(h)
    PROVE  IInv'
  <1> DEFINE mine == job[h].mine
  <1>1. Busy(h) /\ job[h].at # "reconcile" /\ UNCHANGED pdf
    BY DEF ParseStart, ParseEnd, ParseFail, ApplyMd, CheckHint, ParseStructure, At, Busy
  <1>2. mine \in Row /\ mine.status # "absent" /\ job[h].r \in Reports /\ db[job[h].r] \in Row
    BY <1>1, WorkIsTyped DEF IInv
  <1>3. CASE ParseFail(h)
    <2> DEFINE failed == ParseFailedRow(db[job[h].r])
               j == IF job[h].op = "upload"
                    THEN [job[h] EXCEPT !.at = "sync", !.mine = failed] ELSE Idle
    <2>1. Keeps(db[job[h].r], failed)
      BY <1>1, WorkIsTyped, ParsingKeeps DEF IInv, Exists
    <2>2. failed.stored = db[job[h].r].stored /\ failed.status # "published"
      BY <1>2, <2>1 DEF Keeps, ParseFailedRow, Row
    <2>3. db' = [db EXCEPT ![job[h].r] = failed] /\ job' = [job EXCEPT ![h] = j]
      BY <1>3 DEF ParseFail
    <2> HIDE DEF failed
    <2>4. j.at # "idle" => j.r = job[h].r /\ j.mine = failed /\ j.op # "reconcile" /\ j.at = "sync"
      BY <1>1, WorkIsTyped DEF IInv, Job, Idle
    <2> HIDE DEF j
    <2>5. j.at # "idle" => /\ j.r = job[h].r /\ j.at \in Plain
                           /\ j.mine.stored = "published" => db[job[h].r].stored = "published"
                           /\ j.mine.status = "published" => j.mine.stored = "published"
                           /\ j.op = "reconcile" => j.mine.stored = "published"
      BY <2>2, <2>4 DEF Plain, Steps
    <2>6. failed.status = "published" => failed.stored = "published"
      BY <2>2
    <2> QED BY <1>1, <1>2, <2>2, <2>3, <2>5, <2>6, RowKeeps
  <1>4. ASSUME ~ParseFail(h)
        PROVE  \E step \in Plain : \E row :
                  Keeps(mine, row) /\ (Save(h, row, step) \/ (Goto(h, step) /\ UNCHANGED db))
    <2> USE DEF Plain, Steps
    <2>1. /\ Keeps(mine, ParseStarted(mine)) /\ Keeps(mine, HintRefused(mine))
          /\ Keeps(mine, mine) /\ Keeps(mine, Flagged(mine, "same_date_pdf_conflict"))
          /\ \A date \in Dates : Keeps(mine, MdRow(mine, date))
          /\ \A found \in ParseOutcomes : Keeps(mine, ParsedRow(mine, found))
      <3>1. Keeps(mine, mine) /\ "same_date_pdf_conflict" \in Kinds
        BY <1>2 DEF Keeps, Kinds, BlockingKinds
      <3> QED BY <1>2, <3>1, ParsingKeeps, ConfigAssumption
    <2>2. CASE ParseStart(h)
      BY <2>1, <2>2 DEF ParseStart, AfterError
    <2>3. CASE ParseEnd(h)
      BY <2>1, <2>3 DEF ParseEnd
    <2>4. CASE ApplyMd(h)
      BY <2>1, <2>4 DEF ApplyMd
    <2>5. CASE CheckHint(h)
      BY <2>1, <2>5 DEF CheckHint
    <2>6. CASE ParseStructure(h)
      BY <2>1, <2>6 DEF ParseStructure
    <2> QED BY <1>4, <2>2, <2>3, <2>4, <2>5, <2>6
  <1> QED BY <1>1, <1>3, <1>4, RuleKeeps

\* Publication up to its commit, and the compensation.  A publication starts
\* with its file on disk; whoever else names the staged file is not publishing
\* it, so the compensation finds the row as it was and moves nothing.
LEMMA PromotionKeeps ==
    ASSUME IInv, TInv', PublishersApart, NEW h \in Handlers,
           \/ AutoConflict(h) \/ AutoDecide(h) \/ PublishValidate(h)
           \/ Promote(h) \/ HistoryConflict(h) \/ Undo(h)
    PROVE  IInv'
  <1> DEFINE r == job[h].r
             mine == job[h].mine
  <1>1. Busy(h) /\ job[h].at \in {"auto", "validate", "promote", "undo", "abort"}
    BY DEF AutoConflict, AutoDecide, PublishValidate, Promote, HistoryConflict, Undo, At, Busy
  <1>2. /\ job[h] \in Job /\ mine \in Row /\ mine.status # "absent" /\ TInv
        /\ SeesPromotions(job[h]) /\ OwnsFile(job[h])
        /\ r \in Reports /\ db[r] \in Row /\ db[r].status # "absent"
        /\ mine.stored \in {"staging", "published"} /\ db[r].stored \in {"staging", "published"}
        /\ db[r].stored = "published" => pdf[r] = "published"
    <2>1. mine \in Row /\ mine.status # "absent" /\ job[h] \in Job /\ TInv
          /\ r \in Reports /\ db[r] \in Row /\ db[r].status # "absent"
      BY <1>1, WorkIsTyped DEF IInv, Exists
    <2>2. mine.stored \in {"staging", "published"} /\ db[r].stored \in {"staging", "published"}
      BY <2>1 DEF Row
    <2> QED BY <1>1, <2>1, <2>2 DEF IInv, CopiesSeePromotions, PublishersOwnFiles, FilesFollowRows
  <1>3. {"sync", "idle", "promote", "undo", "abort"} \subseteq Steps \ {"commit", "reconcile", "undone"}
    BY DEF Steps
  <1>4. CASE AutoConflict(h)
    <2>1. Goto(h, "idle") /\ UNCHANGED pdf
      BY <1>4 DEF AutoConflict
    <2>2. CASE UNCHANGED db
      <3>1. UNCHANGED <<db, pdf>> /\ "idle" \notin {"promote", "undo", "abort"}
        BY <2>1, <2>2
      <3> QED BY <1>1, <1>3, <2>1, <3>1, GotoKeeps
    <2>3. ASSUME NEW copy \in {mine, db[r]}, db' = [db EXCEPT ![r] = Merge(@, copy, ConflictRow(copy))]
          PROVE  IInv'
      <3>1. copy \in Row /\ (copy.stored = "published" => db[r].stored = "published")
        BY <1>2 DEF SeesPromotions
      <3>2. ConflictRow(copy).stored = copy.stored /\ ConflictRow(copy).status = "blocked"
        BY <3>1 DEF ConflictRow, Row
      <3> DEFINE saved == Merge(db[r], copy, ConflictRow(copy))
      <3>3. /\ saved.stored = db[r].stored
            /\ saved.status = "published" => saved.stored = "published"
        BY <1>2, <3>1, <3>2, MergeKeeps
      <3>4. db' = [db EXCEPT ![r] = saved]
        BY <2>3
      <3> HIDE DEF saved
      <3>5. Idle.at = "idle" /\ job' = [job EXCEPT ![h] = Idle]
        BY <2>1 DEF Goto, Idle
      <3> QED BY <1>2, <2>1, <3>3, <3>4, <3>5, RowKeeps
    <2> QED BY <1>4, <2>2, <2>3 DEF AutoConflict
  <1>5. CASE AutoDecide(h) \/ PublishValidate(h)
    <2>1. UNCHANGED <<db, pdf>> /\ job[h].at \in {"auto", "validate"}
      BY <1>5 DEF AutoDecide, PublishValidate, At
    <2>2. \/ Goto(h, "promote") /\ pdf[r] = mine.stored
          \/ Goto(h, "sync") \/ Goto(h, "idle") \/ Reload(h, "sync")
      BY <1>5 DEF AutoDecide, PublishValidate, AutoPublishable, Publishable, OnDisk
    <2>3. CASE Goto(h, "promote") /\ pdf[r] = mine.stored
      <3>1. mine.stored = "staging" => pdf[r] = "staging"
        BY <2>3
      <3> QED BY <1>1, <1>3, <2>1, <2>3, <3>1, GotoKeeps
    <2>4. CASE Goto(h, "sync")
      BY <1>1, <1>3, <2>1, <2>4, GotoKeeps
    <2>5. CASE Goto(h, "idle")
      BY <1>1, <1>3, <2>1, <2>5, GotoKeeps
    <2>6. CASE Reload(h, "sync")
      BY <1>1, <2>1, <2>6, ReloadKeeps
    <2> QED BY <2>2, <2>3, <2>4, <2>5, <2>6
  <1>6. CASE HistoryConflict(h)
    <2>1. UNCHANGED <<db, pdf>> /\ job[h].at = "promote"
      BY <1>6 DEF HistoryConflict, At
    <2>2. CASE Goto(h, "undo")
      <3>1. mine.stored = "staging" => db[r].stored = "staging"
        BY <1>2, <2>1 DEF OwnsFile
      <3> QED BY <1>1, <1>3, <2>1, <2>2, <3>1, GotoKeeps
    <2>3. CASE Reload(h, AfterError(h))
      BY <1>1, <2>1, <2>3, ReloadKeeps DEF AfterError
    <2> QED BY <1>6, <2>2, <2>3 DEF HistoryConflict
  <1>7. CASE Undo(h)
    <2>1. UNCHANGED db /\ job[h].at \in {"undo", "abort"}
      BY <1>7 DEF Undo, At
    <2>2. ~(mine.stored = "staging" /\ db[r].stored # "staging")
      BY <1>2, <2>1 DEF OwnsFile
    <2>3. pdf' = pdf /\ (Reload(h, "idle") \/ Reload(h, "sync"))
      BY <1>2, <1>7, <2>2 DEF Undo, TInv, TypeOK
    <2> QED BY <1>1, <2>1, <2>3, ReloadKeeps
  <1>8. CASE Promote(h)
    <2>1. job[h].at = "promote" /\ UNCHANGED db
      BY <1>8 DEF Promote, At
    <2>2. mine.stored = "staging" => pdf[r] = "staging" /\ db[r].stored = "staging"
      BY <1>2, <2>1 DEF OwnsFile
    <2> DEFINE j == [job[h] EXCEPT !.at = "commit"]
    <2>3. /\ job' = [job EXCEPT ![h] = j]
          /\ pdf' = [pdf EXCEPT ![r] = IF mine.stored = "staging" THEN "published" ELSE @]
      BY <1>8, <2>2 DEF Promote, Goto
    <2>4. j.at = "commit" /\ j.op = job[h].op /\ j.r = r /\ j.mine = mine
      BY <1>2 DEF Job
    <2> HIDE DEF j
    <2>5. \A q \in Reports : pdf'[q] = IF q = r THEN "published" ELSE pdf[q]
      BY <1>2, <2>3 DEF SeesPromotions, TInv, TypeOK
    <2>6. \A g \in Handlers : job'[g] = IF g = h THEN j ELSE job[g]
      BY <1>2, <2>3 DEF TInv, TypeOK
    <2>7. FilesFollowRows' /\ PublishedRowsPromoted'
      BY <2>1, <2>5 DEF IInv, FilesFollowRows, PublishedRowsPromoted
    <2>8. CopiesSeePromotions'
      <3>1. SeesPromotions(j)
        BY <1>2, <2>1, <2>4 DEF SeesPromotions
      <3> QED BY <2>1, <2>6, <3>1 DEF IInv, CopiesSeePromotions, Busy, SeesPromotions
    <2>9. PublishersOwnFiles'
      <3> SUFFICES ASSUME NEW g \in Handlers PROVE OwnsFile(job[g])'
        BY DEF PublishersOwnFiles
      <3>1. CASE g = h
        BY <1>2, <2>1, <2>2, <2>4, <2>5, <2>6, <3>1 DEF OwnsFile
      <3>2. CASE g # h /\ ~Busy(g)
        BY <2>6, <3>2 DEF OwnsFile, Busy
      <3>3. CASE g # h /\ Busy(g)
        <4>1. job'[g] = job[g] /\ OwnsFile(job[g]) /\ job[g].r \in Reports
          BY <2>6, <3>3, WorkIsTyped DEF IInv, PublishersOwnFiles
        <4>2. job[g].at \in {"promote", "commit"} => job[g].r # r
          BY <1>2, <2>1, <3>3 DEF PublishersApart, Publishing
        <4> QED BY <2>1, <2>5, <4>1, <4>2 DEF OwnsFile
      <3> QED BY <3>1, <3>2, <3>3
    <2> QED BY <2>7, <2>8, <2>9 DEF IInv
  <1> QED BY <1>4, <1>5, <1>6, <1>7, <1>8

\* The commit of a publication records what the promotion did; a commit that
\* raises leaves the row naming .staging, and the compensation to the next step.
LEMMA CommitKeeps ==
    ASSUME IInv, TInv', PublishersApart, NEW h \in Handlers,
           PublishCommit(h) \/ PublishCommitFails(h)
    PROVE  IInv'
  <1> DEFINE r == job[h].r
             mine == job[h].mine
  <1>1. Busy(h) /\ job[h].at = "commit" /\ lock = h /\ UNCHANGED pdf
    BY DEF PublishCommit, PublishCommitFails, At, Busy
  <1>2. /\ job[h] \in Job /\ mine \in Row /\ TInv
        /\ SeesPromotions(job[h]) /\ OwnsFile(job[h]) /\ r \in Reports /\ db[r] \in Row
        /\ pdf[r] = "published"
        /\ mine.stored = "staging" => db[r].stored = "staging"
    <2>1. OwnsFile(job[h]) /\ SeesPromotions(job[h])
      BY <1>1 DEF IInv, CopiesSeePromotions, PublishersOwnFiles
    <2> QED BY <1>1, <2>1, WorkIsTyped DEF IInv, OwnsFile
  <1>3. CASE PublishCommitFails(h)
    <2>1. "abort" \in Steps \ {"commit", "reconcile", "undone"}
      BY DEF Steps
    <2>2. Goto(h, "abort") /\ UNCHANGED <<db, pdf>>
      BY <1>1, <1>3 DEF PublishCommitFails
    <2> QED BY <1>1, <1>2, <2>1, <2>2, GotoKeeps
  <1>4. CASE PublishCommit(h)
    <2> DEFINE row == PublishedRow(mine)
               saved == Merge(db[r], mine, row)
               j == IF job[h].op \in Uploads
                    THEN [job[h] EXCEPT !.at = "sync", !.mine = row] ELSE Idle
               marked == [db EXCEPT ![r] = saved]
    <2>1. row \in Row /\ row.status = "published" /\ row.stored = "published"
      BY <1>2, PublishedIsRow
    <2>2. saved \in Row /\ saved.stored = "published"
      <3>1. saved \in Row
        BY <1>2, <2>1, MergeIsRow
      <3>2. saved.stored = IF row.stored # mine.stored THEN row.stored ELSE db[r].stored
        BY DEF Merge
      <3> HIDE DEF saved, row
      <3> QED BY <1>2, <2>1, <3>1, <3>2 DEF SeesPromotions
    <2>3. j.at # "idle" => j.at = "sync" /\ j.r = r /\ j.mine = row /\ j.op # "reconcile"
      BY <1>2 DEF Job, Idle, Uploads
    <2>4. /\ db' = [q \in Reports |-> IF q \in Superseded(r, row.date)
                                      THEN [marked[q] EXCEPT !.current = FALSE] ELSE marked[q]]
          /\ job' = [job EXCEPT ![h] = j]
      BY <1>4 DEF PublishCommit
    <2> HIDE DEF saved, j, row
    <2>5. \A q \in Reports : marked[q] \in Row /\ marked[q] = IF q = r THEN saved ELSE db[q]
      BY <1>2, <2>2 DEF TInv, TypeOK
    <2> HIDE DEF marked
    <2>6. \A q \in Reports : db'[q].stored = marked[q].stored /\ db'[q].status = marked[q].status
      <3>1. ASSUME NEW some \in Row
            PROVE  /\ [some EXCEPT !.current = FALSE].stored = some.stored
                   /\ [some EXCEPT !.current = FALSE].status = some.status
        BY DEF Row
      <3> QED BY <2>4, <2>5, <3>1
    <2>7. \A q \in Reports : /\ db'[q].stored = IF q = r THEN "published" ELSE db[q].stored
                             /\ q # r => db'[q].status = db[q].status
      BY <2>2, <2>5, <2>6
    <2>8. \A g \in Handlers : job'[g] = IF g = h THEN j ELSE job[g]
      BY <1>2, <2>4 DEF TInv, TypeOK
    <2>9. FilesFollowRows' /\ PublishedRowsPromoted'
      BY <1>1, <1>2, <2>7 DEF IInv, FilesFollowRows, PublishedRowsPromoted
    <2>10. CopiesSeePromotions'
      <3> SUFFICES ASSUME NEW g \in Handlers, Busy(g)' PROVE SeesPromotions(job[g])'
        BY DEF CopiesSeePromotions
      <3>1. CASE g = h
        BY <1>2, <2>1, <2>3, <2>7, <2>8, <3>1 DEF Busy, SeesPromotions
      <3>2. CASE g # h
        <4>1. job'[g] = job[g] /\ SeesPromotions(job[g]) /\ job[g].r \in Reports
          BY <2>8, <3>2, WorkIsTyped DEF Busy, IInv, CopiesSeePromotions
        <4> QED BY <2>7, <4>1 DEF SeesPromotions
      <3> QED BY <3>1, <3>2
    <2>11. PublishersOwnFiles'
      <3> SUFFICES ASSUME NEW g \in Handlers PROVE OwnsFile(job[g])'
        BY DEF PublishersOwnFiles
      <3>1. CASE g = h
        BY <2>3, <2>8, <3>1 DEF OwnsFile, Idle
      <3>2. CASE g # h /\ ~Busy(g)
        BY <2>8, <3>2 DEF OwnsFile, Busy
      <3>3. CASE g # h /\ Busy(g)
        <4>1. job'[g] = job[g] /\ OwnsFile(job[g]) /\ job[g].r \in Reports
          BY <2>8, <3>3, WorkIsTyped DEF IInv, PublishersOwnFiles
        <4>2. job[g].at \in {"promote", "commit", "undo", "abort"} => job[g].r # r
          BY <1>1, <1>2, <3>3 DEF PublishersApart, Publishing
        <4> QED BY <1>1, <2>7, <4>1, <4>2 DEF OwnsFile
      <3> QED BY <3>1, <3>2, <3>3
    <2> QED BY <2>9, <2>10, <2>11 DEF IInv
  <1> QED BY <1>3, <1>4

\* Review, edits and manual transitions.
LEMMA ReviewStepKeeps ==
    ASSUME IInv, TInv', NEW h \in Handlers,
           \/ SyncWorkflow(h) \/ ResolveRefused(h) \/ DecideUnknown(h)
           \/ \E kind \in Kinds : Decide(h, kind)
           \/ Patch(h) \/ Ready(h) \/ Withdraw(h) \/ ResolveTerm(h)
    PROVE  IInv'
  <1> DEFINE r == job[h].r
             mine == job[h].mine
  <1>1. /\ Busy(h) /\ job[h].at # "reconcile" /\ UNCHANGED pdf
    BY DEF SyncWorkflow, ResolveRefused, DecideUnknown, Decide, Patch, Ready, Withdraw,
           ResolveTerm, At, Busy
  <1>2. /\ mine \in Row /\ mine.status # "absent" /\ r \in Reports /\ db[r] \in Row
        /\ issues[r] \in [Kinds -> IssueState] /\ ~At(h, "undone")
    BY <1>1, WorkIsTyped DEF IInv, PublishersOwnFiles, OwnsFile, At
  <1>3. {"sync", "idle", "decide", "restore"} \subseteq Plain
    BY DEF Plain, Steps
  <1>4. ASSUME NEW row, Keeps(mine, row), NEW step \in {"sync", "idle", "decide", "restore"},
               Save(h, row, step) \/ (Goto(h, step) /\ UNCHANGED db)
        PROVE  IInv'
    BY <1>1, <1>3, <1>4, RuleKeeps
  <1>5. Keeps(mine, mine)
    BY <1>2 DEF Keeps
  <1>6. CASE SyncWorkflow(h)
    <2> DEFINE synced == SyncedIssues(mine, issues[r])
    <2>1. Keeps(mine, ApplyState(mine, synced))
      BY <1>2, SyncedIsIssues, ReviewKeeps
    <2>2. \E step \in {"decide", "restore", "idle"} : Save(h, ApplyState(mine, synced), step)
      BY <1>2, <1>6 DEF SyncWorkflow
    <2> HIDE DEF synced
    <2> QED BY <1>4, <2>1, <2>2
  <1>7. CASE ResolveRefused(h) \/ DecideUnknown(h)
    BY <1>4, <1>5, <1>7 DEF ResolveRefused, DecideUnknown
  <1>8. ASSUME NEW kind \in Kinds, Decide(h, kind)
        PROVE  IInv'
    <2>1. CASE Goto(h, "sync") /\ UNCHANGED <<db, issues>>
      BY <1>4, <1>5, <2>1
    <2>2. CASE ~(Goto(h, "sync") /\ UNCHANGED <<db, issues>>)
      <3> DEFINE decided == [issues[r] EXCEPT ![kind] = "resolved"]
      <3>1. PICK date \in Dates \cup {NoDate} :
              Save(h, ApplyState(ResolvedRow(mine, kind, date), decided), "sync")
        BY <1>8, <2>2 DEF Decide
      <3>2. decided \in [Kinds -> IssueState]
        BY <1>2 DEF IssueState
      <3> DEFINE resolved == ResolvedRow(mine, kind, date)
      <3>3. Keeps(mine, resolved)
        BY <1>2, ReviewKeeps
      <3>4. resolved \in Row /\ resolved.status # "absent"
        BY <1>2, <3>3 DEF Keeps
      <3> HIDE DEF decided, resolved
      <3>5. Keeps(resolved, ApplyState(resolved, decided))
        BY <3>2, <3>4, ReviewKeeps
      <3>6. Keeps(mine, ApplyState(resolved, decided))
        BY <3>3, <3>5 DEF Keeps
      <3>7. Save(h, ApplyState(resolved, decided), "sync")
        BY <3>1 DEF resolved
      <3> QED BY <1>4, <3>6, <3>7
    <2> QED BY <2>1, <2>2
  <1>9. CASE Patch(h)
    <2>1. PICK date \in Dates \cup {NoDate}, confirm \in BOOLEAN, complete \in BOOLEAN,
               next \in {"idle", "sync"} : Save(h, PatchedRow(mine, date, confirm, complete), next)
      BY <1>9 DEF Patch
    <2>2. Keeps(mine, PatchedRow(mine, date, confirm, complete))
      BY <1>2, ReviewKeeps
    <2> QED BY <1>4, <2>1, <2>2
  <1>10. CASE Ready(h) \/ Withdraw(h)
    <2>1. PICK status \in {"ready_to_publish", "withdrawn"} :
            Save(h, [mine EXCEPT !.status = status], "idle") \/ (Goto(h, "idle") /\ UNCHANGED db)
      BY <1>10 DEF Ready, Withdraw
    <2>2. status \in Statuses
      BY DEF Statuses
    <2>3. Keeps(mine, [mine EXCEPT !.status = status])
      BY <1>2, <2>2, StatusColumn DEF Keeps
    <2> QED BY <1>4, <2>1, <2>3
  <1>11. CASE ResolveTerm(h)
    <2> PICK left \in {"none", "few", "many"} : db' = [db EXCEPT ![r].terms = left]
      BY <1>11 DEF ResolveTerm
    <2> DEFINE row == [db[r] EXCEPT !.terms = left]
    <2>1. /\ row.stored = db[r].stored /\ row.status = db[r].status
          /\ db' = [db EXCEPT ![r] = row]
      BY <1>2 DEF Row
    <2>2. row.status = "published" => row.stored = "published"
      BY <1>2, <2>1 DEF IInv, PublishedRowsPromoted
    <2>3. Idle.at = "idle" /\ job' = [job EXCEPT ![h] = Idle]
      BY <1>11 DEF ResolveTerm, Goto, Idle
    <2> HIDE DEF row
    <2> QED BY <1>1, <1>2, <2>1, <2>2, <2>3, RowKeeps
  <1> QED BY <1>6, <1>7, <1>8, <1>9, <1>10, <1>11

\* Reconciliation starts from a published report, so that what it restores is
\* published already.
LEMMA ReconcileKeeps ==
    ASSUME IInv, TInv', NEW h \in Handlers,
           ReconcileStart(h) \/ ReconcileRebuild(h) \/ ReconcileRestore(h)
    PROVE  IInv'
  <1> DEFINE mine == job[h].mine
  <1>1. Busy(h) /\ UNCHANGED pdf
    BY DEF ReconcileStart, ReconcileRebuild, ReconcileRestore, At, Busy
  <1>2. mine \in Row /\ SeesPromotions(job[h])
    BY <1>1, WorkIsTyped DEF IInv, CopiesSeePromotions
  <1>3. /\ {"idle", "parse", "structure"} \subseteq Plain
        /\ {"idle", "parse", "structure"} \subseteq Steps \ {"commit", "reconcile", "undone"}
    BY DEF Plain, Steps
  <1>4. CASE Goto(h, "idle") /\ UNCHANGED db
    <2>1. UNCHANGED <<db, pdf>>
      BY <1>1, <1>4
    <2> QED BY <1>1, <1>3, <1>4, <2>1, GotoKeeps
  <1>5. CASE ReconcileStart(h) /\ ~(Goto(h, "idle") /\ UNCHANGED db)
    <2> DEFINE row == [mine EXCEPT !.status = "needs_review"]
    <2>1. mine.status = "published" /\ Save(h, row, "parse")
      BY <1>5 DEF ReconcileStart
    <2>2. row.stored = mine.stored /\ row.status = "needs_review" /\ row.stored = "published"
      BY <1>2, <2>1 DEF Row, SeesPromotions
    <2> HIDE DEF row
    <2> QED BY <1>1, <1>3, <2>1, <2>2, SaveKeeps
  <1>6. CASE ReconcileRebuild(h)
    <2>1. Goto(h, "structure") /\ UNCHANGED <<db, pdf>> /\ job[h].at = "rebuild"
      BY <1>6 DEF ReconcileRebuild, At
    <2> QED BY <1>1, <1>3, <2>1, GotoKeeps
  <1>7. CASE ReconcileRestore(h) /\ ~(Goto(h, "idle") /\ UNCHANGED db)
    <2> DEFINE row == [mine EXCEPT !.status = "published"]
    <2>1. Save(h, row, "idle") /\ job[h].op = "reconcile" /\ job[h].at = "restore"
      BY <1>7 DEF ReconcileRestore, At
    <2>2. row.stored = mine.stored /\ row.stored = "published"
      BY <1>2, <2>1 DEF Row, SeesPromotions
    <2> HIDE DEF row
    <2> QED BY <1>1, <1>3, <2>1, <2>2, SaveKeeps
  <1> QED BY <1>4, <1>5, <1>6, <1>7

\* Handlers that die take their copies and their lock with them.
LEMMA CrashKeeps ==
    ASSUME IInv, TInv', NEW died \in SUBSET Handlers, Crash(died)
    PROVE  IInv'
  <1>1. \A g \in Handlers : job'[g] = IF g \in died THEN Idle ELSE job[g]
    BY DEF Crash
  <1>2. Idle.at = "idle"
    BY DEF Idle
  <1>3. FilesFollowRows' /\ PublishedRowsPromoted'
    BY DEF Crash, IInv, FilesFollowRows, PublishedRowsPromoted
  <1>4. CopiesSeePromotions'
    BY <1>1, <1>2 DEF Crash, IInv, CopiesSeePromotions, Busy, SeesPromotions
  <1>5. PublishersOwnFiles'
    BY <1>1, <1>2 DEF Crash, IInv, PublishersOwnFiles, OwnsFile
  <1> QED BY <1>3, <1>4, <1>5 DEF IInv

\* Nothing is on file and nothing runs at the start.
LEMMA InitHolds == Init => IInv
  <1> SUFFICES ASSUME Init PROVE IInv
    OBVIOUS
  <1>1. (\A h \in Handlers : job[h] = Idle) /\ Idle.at = "idle"
    BY DEF Init, Idle
  <1>2. AbsentRow.stored = "staging" /\ AbsentRow.status = "absent"
    BY DEF AbsentRow, FreshRow
  <1>3. FilesFollowRows /\ PublishedRowsPromoted
    BY <1>2 DEF Init, FilesFollowRows, PublishedRowsPromoted
  <1>4. CopiesSeePromotions /\ PublishersOwnFiles
    BY <1>1 DEF CopiesSeePromotions, Busy, PublishersOwnFiles, OwnsFile
  <1> QED BY <1>3, <1>4, TypedInit DEF IInv

\* Every step keeps the invariant, unless a report is being published twice.
LEMMA NextKeeps == IInv /\ PublishersApart /\ [Next]_vars => IInv'
  <1> SUFFICES ASSUME IInv, PublishersApart, [Next]_vars PROVE IInv'
    OBVIOUS
  <1>0. TInv'
    BY TypedNext DEF IInv
  <1>1. ASSUME NEW h \in Handlers, Request(h) PROVE IInv'
    BY <1>0, <1>1, RequestKeeps
  <1>2. ASSUME NEW h \in Handlers, Step(h) PROVE IInv'
    BY <1>0, <1>2, InterpretationKeeps, PromotionKeeps, CommitKeeps, ReviewStepKeeps, ReconcileKeeps
       DEF Step
  <1>3. ASSUME Crash(Handlers \ Scripts) PROVE IInv'
    BY <1>0, <1>3, CrashKeeps
  <1>4. ASSUME NEW h \in Scripts, Crash({h}) PROVE IInv'
    <2>1. {h} \in SUBSET Handlers
      BY DEF Scripts
    <2> QED BY <1>0, <1>4, <2>1, CrashKeeps
  <1>5. CASE UNCHANGED vars
    BY <1>0, <1>5 DEF vars, IInv, FilesFollowRows, PublishedRowsPromoted,
       CopiesSeePromotions, Busy, SeesPromotions, PublishersOwnFiles, OwnsFile
  <1> QED BY <1>1, <1>2, <1>3, <1>4, <1>5 DEF Next

----------------------------------------------------------------------------
\* A published report has its PDF where its row says, for any number of reports
\* and of concurrent requests, whatever crashes or fails to commit, as long as
\* nobody publishes a report that another request is publishing: run
\* PublishTwice shows what that does.
THEOREM ViewerHasPdf == Spec => PdfWhileApart
  <1>1. IInv => ViewerPdfPresent
    BY DEF IInv, FilesFollowRows, PublishedRowsPromoted, ViewerPdfPresent, Published
  <1> QED BY InitHolds, NextKeeps, <1>1, PTL DEF Spec, PdfWhileApart

----------------------------------------------------------------------------
(* Where the files are.                                                     *)

\* The file of a report is where its row says, except between the rename and
\* the commit of a publication of it.
FilesRecorded ==
    \A r \in Reports :
        (Exists(r) /\ ~\E h \in Handlers : lock = h /\ job[h].r = r) => pdf[r] = db[r].stored

\* A step that moves no file, records no other name for one, and leaves the
\* publication that holds the lock where it is.
Still == /\ UNCHANGED <<pdf, lock>>
         /\ \A r \in Reports : db'[r].stored = db[r].stored /\ (Exists(r)' => Exists(r))
         /\ \A h \in Handlers : lock = h => job'[h] = job[h]

\* The usual step: the handler moves on, reads its row again, or writes a row
\* with the same file name; the lock, if it is held, is another handler's.
LEMMA RestIsStill ==
    ASSUME IInv, NEW h \in Handlers, job[h].at # "commit", NEW j, job' = [job EXCEPT ![h] = j],
           \/ UNCHANGED db
           \/ \E r \in Reports : \E row : /\ Exists(r) /\ row.stored = db[r].stored
                                           /\ db' = [db EXCEPT ![r] = row],
           UNCHANGED <<pdf, lock>>
    PROVE  Still
  <1>1. \A g \in Handlers : lock = g => job'[g] = job[g]
    BY DEF IInv, TInv, TypeOK, LockSpansCommit
  <1>2. \A r \in Reports : db'[r].stored = db[r].stored /\ (Exists(r)' => Exists(r))
    BY DEF IInv, TInv, TypeOK, Exists
  <1> QED BY <1>1, <1>2 DEF Still

\* A commit of the session's row with the file name it was loaded with.
LEMMA SaveIsStill ==
    ASSUME IInv, NEW h \in Handlers, Busy(h), job[h].at # "commit",
           NEW row, NEW step, Save(h, row, step) \/ (Goto(h, step) /\ UNCHANGED db),
           row.stored = job[h].mine.stored, UNCHANGED <<pdf, lock>>
    PROVE  Still
  <1>1. job[h].r \in Reports /\ Exists(job[h].r)
    BY WorkIsTyped DEF IInv
  <1>2. CASE Save(h, row, step)
    <2> DEFINE saved == Merge(db[job[h].r], job[h].mine, row)
    <2>1. saved.stored = db[job[h].r].stored
      BY DEF Merge
    <2>2. db' = [db EXCEPT ![job[h].r] = saved]
      BY <1>2 DEF Save
    <2>3. \E j : job' = [job EXCEPT ![h] = j]
      BY <1>2 DEF Save
    <2> HIDE DEF saved
    <2> QED BY <1>1, <2>1, <2>2, <2>3, RestIsStill
  <1>3. CASE Goto(h, step) /\ UNCHANGED db
    <2>1. \E j : job' = [job EXCEPT ![h] = j]
      BY <1>3 DEF Goto
    <2> QED BY <1>3, <2>1, RestIsStill
  <1> QED BY <1>2, <1>3

\* Every rule keeps the file name and the compensation finds nothing to take
\* back, so that only the upload of a new PDF and the three steps that hold or
\* take the lock are not still.
LEMMA StepIsStill ==
    ASSUME IInv, NEW h \in Handlers, Step(h),
           ~Promote(h), ~PublishCommit(h), ~PublishCommitFails(h)
    PROVE  Still
  <1> DEFINE r == job[h].r
             mine == job[h].mine
  <1>1. /\ Busy(h) /\ job[h].at # "commit" /\ mine \in Row /\ mine.status # "absent"
        /\ r \in Reports /\ db[r] \in Row /\ Exists(r)
        /\ issues[r] \in [Kinds -> IssueState]
    <2>1. Busy(h) /\ job[h].at # "commit"
      BY DEF Step, ParseStart, ParseEnd, ParseFail, ApplyMd, CheckHint, ParseStructure,
             AutoConflict, AutoDecide, PublishValidate, HistoryConflict, Undo, SyncWorkflow,
             ResolveRefused, DecideUnknown, Decide, Patch, Ready, Withdraw, ResolveTerm,
             ReconcileStart, ReconcileRebuild, ReconcileRestore, At, Busy
    <2> QED BY <2>1, WorkIsTyped DEF IInv
  <1> HIDE DEF r, mine
  <1>2. CASE ParseStart(h)
    BY <1>1, <1>2, ParsingKeeps, SaveIsStill DEF ParseStart, Keeps, mine
  <1>3. CASE ParseEnd(h)
    <2>1. PICK found \in ParseOutcomes, step \in Steps : Save(h, ParsedRow(mine, found), step)
      BY <1>3 DEF ParseEnd, mine, Steps
    <2>2. ParsedRow(mine, found).stored = mine.stored
      BY <1>1, ConfigAssumption, ParsingKeeps DEF Keeps
    <2> QED BY <1>1, <1>3, <2>1, <2>2, SaveIsStill DEF ParseEnd, mine
  <1>4. CASE ParseFail(h)
    <2>1. ParseFailedRow(db[r]).stored = db[r].stored
      BY <1>1, ParsingKeeps DEF Keeps, Exists
    <2>2. \E j : job' = [job EXCEPT ![h] = j]
      BY <1>4 DEF ParseFail
    <2>3. db' = [db EXCEPT ![r] = ParseFailedRow(db[r])] /\ UNCHANGED <<pdf, lock>>
      BY <1>4 DEF ParseFail, r
    <2> QED BY <1>1, <2>1, <2>2, <2>3, RestIsStill
  <1>5. CASE ApplyMd(h)
    <2>1. PICK date \in Dates, step \in Steps : Save(h, MdRow(mine, date), step)
      BY <1>5 DEF ApplyMd, mine, Steps
    <2>2. MdRow(mine, date).stored = mine.stored
      BY <1>1, ParsingKeeps DEF Keeps
    <2> QED BY <1>1, <1>5, <2>1, <2>2, SaveIsStill DEF ApplyMd, mine
  <1>6. CASE CheckHint(h)
    <2>1. HintRefused(mine).stored = mine.stored
      BY <1>1, ParsingKeeps DEF Keeps
    <2>2. Save(h, HintRefused(mine), "structure") \/ (Goto(h, "structure") /\ UNCHANGED db)
      BY <1>6 DEF CheckHint, mine
    <2> QED BY <1>1, <1>6, <2>1, <2>2, SaveIsStill DEF CheckHint, mine
  <1>7. CASE ParseStructure(h)
    <2>1. PICK row \in {mine, Flagged(mine, "same_date_pdf_conflict")}, step \in Steps : Save(h, row, step)
      BY <1>7 DEF ParseStructure, mine, Steps
    <2>2. row.stored = mine.stored
      BY <1>1, ParsingKeeps DEF Keeps, Kinds, BlockingKinds
    <2> QED BY <1>1, <1>7, <2>1, <2>2, SaveIsStill DEF ParseStructure, mine
  <1>8. CASE AutoConflict(h)
    <2>1. \E j : job' = [job EXCEPT ![h] = j]
      BY <1>8 DEF AutoConflict, Goto
    <2>2. CASE UNCHANGED db
      BY <1>1, <1>8, <2>1, <2>2, RestIsStill DEF AutoConflict
    <2>3. ASSUME NEW copy \in {mine, db[r]}, db' = [db EXCEPT ![r] = Merge(@, copy, ConflictRow(copy))]
          PROVE  Still
      <3>1. ConflictRow(copy).stored = copy.stored
        BY <1>1 DEF ConflictRow, Row
      <3>2. Merge(db[r], copy, ConflictRow(copy)).stored = db[r].stored
        BY <3>1 DEF Merge
      <3> QED BY <1>1, <1>8, <2>1, <2>3, <3>2, RestIsStill DEF AutoConflict
    <2> QED BY <1>8, <2>2, <2>3 DEF AutoConflict, mine, r
  <1>9. CASE AutoDecide(h) \/ PublishValidate(h) \/ HistoryConflict(h)
    <2>1. \E j : job' = [job EXCEPT ![h] = j]
      BY <1>9 DEF AutoDecide, PublishValidate, HistoryConflict, Goto, Reload
    <2> QED BY <1>1, <1>9, <2>1, RestIsStill DEF AutoDecide, PublishValidate, HistoryConflict
  <1>10. CASE SyncWorkflow(h)
    <2> DEFINE synced == SyncedIssues(mine, issues[r])
    <2>0. ~At(h, "undone")
      BY DEF IInv, PublishersOwnFiles, OwnsFile, At
    <2>1. PICK step : Save(h, ApplyState(mine, synced), step)
      BY <1>10, <2>0 DEF SyncWorkflow, mine, r
    <2>2. ApplyState(mine, synced).stored = mine.stored
      BY <1>1, SyncedIsIssues, ReviewKeeps DEF Keeps
    <2> QED BY <1>1, <1>10, <2>1, <2>2, SaveIsStill DEF SyncWorkflow, mine
  <1>11. CASE ResolveRefused(h) \/ DecideUnknown(h)
    <2>1. \E j : job' = [job EXCEPT ![h] = j]
      BY <1>11 DEF ResolveRefused, DecideUnknown, Goto
    <2> QED BY <1>1, <1>11, <2>1, RestIsStill DEF ResolveRefused, DecideUnknown
  <1>12. ASSUME NEW kind \in Kinds, Decide(h, kind)
         PROVE  Still
    <2>1. CASE Goto(h, "sync") /\ UNCHANGED db
      BY <1>1, <1>12, <2>1, SaveIsStill DEF Decide
    <2>2. CASE ~(Goto(h, "sync") /\ UNCHANGED <<db, issues>>)
      <3> DEFINE decided == [issues[r] EXCEPT ![kind] = "resolved"]
      <3>1. PICK date \in Dates \cup {NoDate} :
              Save(h, ApplyState(ResolvedRow(mine, kind, date), decided), "sync")
        BY <1>12, <2>2 DEF Decide, mine, r
      <3> DEFINE resolved == ResolvedRow(mine, kind, date)
      <3>2. decided \in [Kinds -> IssueState]
        BY <1>1 DEF IssueState
      <3>3. Keeps(mine, resolved)
        BY <1>1, ReviewKeeps
      <3> HIDE DEF decided, resolved
      <3>4. Keeps(resolved, ApplyState(resolved, decided))
        BY <1>1, <3>2, <3>3, ReviewKeeps DEF Keeps
      <3>5. ApplyState(resolved, decided).stored = mine.stored
        BY <3>3, <3>4 DEF Keeps
      <3>6. Save(h, ApplyState(resolved, decided), "sync") /\ UNCHANGED <<pdf, lock>>
        BY <1>12, <3>1 DEF resolved, Decide
      <3> QED BY <1>1, <3>5, <3>6, SaveIsStill DEF mine
    <2> QED BY <2>1, <2>2
  <1>13. CASE Patch(h)
    <2>1. PICK date \in Dates \cup {NoDate}, confirm, complete \in BOOLEAN, next \in {"idle", "sync"} :
            Save(h, PatchedRow(mine, date, confirm, complete), next)
      BY <1>13 DEF Patch, mine
    <2>2. PatchedRow(mine, date, confirm, complete).stored = mine.stored
      BY <1>1, ReviewKeeps DEF Keeps
    <2> QED BY <1>1, <1>13, <2>1, <2>2, SaveIsStill DEF Patch, mine
  <1>14. CASE Ready(h) \/ Withdraw(h) \/ ReconcileStart(h) \/ ReconcileRestore(h)
    <2>1. PICK status, step : \/ Save(h, [mine EXCEPT !.status = status], step)
                              \/ Goto(h, step) /\ UNCHANGED db
      BY <1>14 DEF Ready, Withdraw, ReconcileStart, ReconcileRestore, mine
    <2>2. [mine EXCEPT !.status = status].stored = mine.stored
      BY <1>1 DEF Row
    <2>3. UNCHANGED <<pdf, lock>>
      BY <1>14 DEF Ready, Withdraw, ReconcileStart, ReconcileRestore
    <2> QED BY <1>1, <2>1, <2>2, <2>3, SaveIsStill DEF mine
  <1>15. CASE ResolveTerm(h)
    <2>1. PICK left : db' = [db EXCEPT ![r].terms = left]
      BY <1>15 DEF ResolveTerm, r
    <2>2. [db[r] EXCEPT !.terms = left].stored = db[r].stored
      BY <1>1 DEF Row
    <2>3. \E j : job' = [job EXCEPT ![h] = j]
      BY <1>15 DEF ResolveTerm, Goto
    <2>4. db' = [db EXCEPT ![r] = [db[r] EXCEPT !.terms = left]]
      BY <2>1
    <2> QED BY <1>1, <1>15, <2>2, <2>3, <2>4, RestIsStill DEF ResolveTerm
  <1>16. CASE ReconcileRebuild(h)
    <2>1. \E j : job' = [job EXCEPT ![h] = j]
      BY <1>16 DEF ReconcileRebuild, Goto
    <2> QED BY <1>1, <1>16, <2>1, RestIsStill DEF ReconcileRebuild
  <1>17. CASE Undo(h)
    <2>1. \E j : job' = [job EXCEPT ![h] = j]
      BY <1>17 DEF Undo, Reload
    <2>2. ~(mine.stored = "staging" /\ db[r].stored # "staging")
      BY <1>1, <1>17 DEF IInv, PublishersOwnFiles, OwnsFile, Undo, At, mine, r, Row
    <2>3. UNCHANGED <<db, pdf, lock>>
      BY <1>1, <1>17, <2>2 DEF Undo, IInv, TInv, TypeOK, mine, r
    <2> QED BY <1>1, <2>1, <2>3, RestIsStill
  <1> QED BY <1>2, <1>3, <1>4, <1>5, <1>6, <1>7, <1>8, <1>9, <1>10, <1>11, <1>12, <1>13, <1>14,
             <1>15, <1>16, <1>17 DEF Step

\* So does a request for a report that is on file.
LEMMA StillKeeps ==
    ASSUME FilesRecorded, Still PROVE FilesRecorded'
  <1> SUFFICES ASSUME NEW r \in Reports, Exists(r)',
                      ~\E h \in Handlers : lock' = h /\ job'[h].r = r
               PROVE  pdf'[r] = db'[r].stored
    BY DEF FilesRecorded
  <1>1. ~\E h \in Handlers : lock = h /\ job[h].r = r
    BY DEF Still
  <1> QED BY <1>1 DEF Still, FilesRecorded

\* Every step keeps the files where their rows say, if nothing fails to commit.
LEMMA RecordedNext ==
    ASSUME IInv, IInv', FilesRecorded, [Next]_vars, ~CommitMayFail, MaxCrashes = 0
    PROVE  FilesRecorded'
  <1>1. ASSUME NEW h \in Handlers, Request(h) PROVE FilesRecorded'
    <2>1. PICK op \in Ops, r \in Reports :
             Begin(h, op, r) \/ UploadNew(h, op, r) \/ UploadDuplicate(h, op, r)
      BY <1>1 DEF Request
    <2>2. CASE Begin(h, op, r) \/ UploadDuplicate(h, op, r)
      <3>1. \E j : job' = [job EXCEPT ![h] = j]
        BY <2>2 DEF Begin, UploadDuplicate
      <3>2. job[h].at # "commit" /\ UNCHANGED <<db, pdf, lock>>
        BY <2>2 DEF Begin, UploadDuplicate, At
      <3> QED BY <3>1, <3>2, RestIsStill, StillKeeps
    <2>3. CASE UploadNew(h, op, r)
      <3>1. /\ db' = [db EXCEPT ![r] = FreshRow] /\ pdf' = [pdf EXCEPT ![r] = "staging"]
            /\ lock = NoHandler /\ lock' = lock /\ FreshRow.stored = "staging"
        BY <2>3 DEF UploadNew, FreshRow
      <3>2. ASSUME NEW q \in Reports, Exists(q)' PROVE pdf'[q] = db'[q].stored
        <4>1. CASE q = r
          BY <3>1, <4>1 DEF IInv, TInv, TypeOK
        <4>2. CASE q # r
          <5>1. db'[q] = db[q] /\ pdf'[q] = pdf[q]
            BY <3>1, <4>2 DEF IInv, TInv, TypeOK
          <5>2. Exists(q) /\ ~\E g \in Handlers : lock = g /\ job[g].r = q
            BY <3>1, <3>2, <5>1, ConfigAssumption DEF Exists
          <5> QED BY <5>1, <5>2 DEF FilesRecorded
        <4> QED BY <4>1, <4>2
      <3> QED BY <3>2 DEF FilesRecorded
    <2> QED BY <2>1, <2>2, <2>3
  <1>2. ASSUME NEW h \in Handlers, Promote(h) PROVE FilesRecorded'
    <2> DEFINE r == job[h].r
    <2>1. Busy(h) /\ job[h].at # "commit" /\ job[h] \in Job /\ r \in Reports
      <3>1. Busy(h) /\ job[h].at # "commit"
        BY <1>2 DEF Promote, At, Busy
      <3> QED BY <3>1, WorkIsTyped DEF IInv
    <2>2. CASE job[h].mine.stored = "staging" /\ pdf[r] # "staging"
      <3>1. \E j : job' = [job EXCEPT ![h] = j]
        BY <1>2, <2>2 DEF Promote, Goto
      <3> QED BY <1>2, <2>1, <2>2, <3>1, RestIsStill, StillKeeps DEF Promote
    <2>3. CASE ~(job[h].mine.stored = "staging" /\ pdf[r] # "staging")
      <3>1. /\ lock = NoHandler /\ lock' = h /\ UNCHANGED db
            /\ pdf' = [pdf EXCEPT ![r] = IF job[h].mine.stored = "staging" THEN "published" ELSE @]
            /\ job' = [job EXCEPT ![h] = [job[h] EXCEPT !.at = "commit"]]
        BY <1>2, <2>3 DEF Promote, Goto
      <3>2. job'[h].r = r
        BY <2>1, <3>1 DEF IInv, TInv, TypeOK, Job
      <3>3. ASSUME NEW q \in Reports, Exists(q)', q # r PROVE pdf'[q] = db'[q].stored
        <4>1. pdf'[q] = pdf[q] /\ db'[q] = db[q] /\ Exists(q)
          BY <3>1, <3>3 DEF IInv, TInv, TypeOK, Exists
        <4> QED BY <3>1, <4>1, ConfigAssumption DEF FilesRecorded
      <3> QED BY <3>1, <3>2, <3>3 DEF FilesRecorded
    <2> QED BY <2>2, <2>3
  <1>3. ASSUME NEW h \in Handlers, PublishCommit(h) PROVE FilesRecorded'
    <2> DEFINE r == job[h].r
               row == PublishedRow(job[h].mine)
               saved == [db EXCEPT ![r] = Merge(@, job[h].mine, row)]
    <2>1. /\ job[h].at = "commit" /\ lock = h /\ r \in Reports /\ pdf[r] = "published"
          /\ job[h].mine \in Row /\ db[r] \in Row
          /\ job[h].mine.stored = "published" => db[r].stored = "published"
      <3>1. job[h].at = "commit" /\ lock = h
        BY <1>3 DEF PublishCommit, At
      <3>2. Busy(h) /\ SeesPromotions(job[h]) /\ OwnsFile(job[h])
        BY <3>1 DEF Busy, IInv, CopiesSeePromotions, PublishersOwnFiles
      <3> QED BY <3>1, <3>2, WorkIsTyped DEF IInv, SeesPromotions, OwnsFile
    <2>2. /\ db' = [q \in Reports |-> IF q \in Superseded(r, row.date)
                                      THEN [saved[q] EXCEPT !.current = FALSE] ELSE saved[q]]
          /\ lock' = NoHandler /\ UNCHANGED pdf
      BY <1>3 DEF PublishCommit
    <2>3. \A q \in Reports : db'[q].stored = saved[q].stored /\ db'[q].status = saved[q].status
      <3>1. ASSUME NEW some \in Row
            PROVE  /\ [some EXCEPT !.current = FALSE].stored = some.stored
                   /\ [some EXCEPT !.current = FALSE].status = some.status
        BY DEF Row
      <3>2. row \in Row
        BY <2>1, PublishedIsRow
      <3>3. \A q \in Reports : saved[q] \in Row
        BY <2>1, <3>2, MergeIsRow DEF IInv, TInv, TypeOK
      <3> HIDE DEF saved, row
      <3>4. ASSUME NEW q \in Reports
            PROVE  db'[q].stored = saved[q].stored /\ db'[q].status = saved[q].status
        <4>1. CASE q \in Superseded(r, row.date)
          BY <2>2, <3>1, <3>3, <4>1
        <4>2. CASE q \notin Superseded(r, row.date)
          BY <2>2, <4>2
        <4> QED BY <4>1, <4>2
      <3> QED BY <3>4
    <2>4. \A q \in Reports \ {r} : saved[q] = db[q]
      BY DEF IInv, TInv, TypeOK
    <2>5. saved[r].stored = "published"
      <3>1. row.stored = "published"
        BY <2>1 DEF PublishedRow, Row
      <3>2. Merge(db[r], job[h].mine, row).stored = "published"
        BY <2>1, <3>1 DEF Merge
      <3> QED BY <2>1, <3>2 DEF IInv, TInv, TypeOK
    <2>6. ASSUME NEW q \in Reports \ {r}, Exists(q)' PROVE pdf'[q] = db'[q].stored
      <3>1. Exists(q) /\ db'[q].stored = db[q].stored
        BY <2>3, <2>4, <2>6 DEF Exists
      <3>2. ~\E g \in Handlers : lock = g /\ job[g].r = q
        BY <2>1, <2>6
      <3> QED BY <2>2, <3>1, <3>2 DEF FilesRecorded
    <2> HIDE DEF saved
    <2> QED BY <2>1, <2>2, <2>3, <2>5, <2>6 DEF FilesRecorded
  <1>4. ASSUME NEW h \in Handlers, Step(h) PROVE FilesRecorded'
    <2>1. ~PublishCommitFails(h)
      BY DEF PublishCommitFails
    <2> QED BY <1>2, <1>3, <1>4, <2>1, StepIsStill, StillKeeps
  <1>5. ASSUME NEW died, Crash(died) PROVE FALSE
    BY <1>5 DEF Crash, IInv, TInv, TypeOK
  <1>6. CASE UNCHANGED vars
    BY <1>6 DEF vars, FilesRecorded, Exists
  <1> QED BY <1>1, <1>4, <1>5, <1>6 DEF Next

\* While no commit fails, no process dies and nobody publishes a report that
\* another request is publishing, the file of every report is where its row says
\* whenever nobody holds the write lock: the rename and the commit of a
\* publication are one step for everybody else.  A death between the two, or a
\* commit that raises, is enough to leave them apart.
THEOREM FilesStayRecorded ==
    ASSUME ~CommitMayFail, MaxCrashes = 0
    PROVE  Spec => RecordWhileApart
  <1>1. Init => FilesRecorded
    BY DEF Init, FilesRecorded, Exists, AbsentRow, FreshRow
  <1>2. IInv /\ IInv' /\ FilesRecorded /\ [Next]_vars => FilesRecorded'
    BY RecordedNext
  <1>3. FilesRecorded => FileWhereRecorded
    BY ConfigAssumption DEF FilesRecorded, FileWhereRecorded
  <1> QED BY <1>1, <1>2, <1>3, InitHolds, NextKeeps, PTL DEF Spec, RecordWhileApart
=============================================================================
