--------------------------- MODULE MarketDays_proofs ---------------------------
(***************************************************************************)
(* Proofs about the two lanes of a trading day.                             *)
(*                                                                         *)
(* DailyAdvance, for any securities, calendar, jobs, prices and backfills,  *)
(* with writes that may fail and jobs that are killed:                      *)
(*   DailyType    DailySpec => []DailyTypeOK                                *)
(*   Covered      DailySpec => []SuccessIsCovered                           *)
(*   Completed    DailySpec => []CompletedDaysOnly                          *)
(*   ClosesStay   DailySpec => CloseStays                                   *)
(* A job inserts the rows its session holds without asking again whether    *)
(* they are there.  That is right because a session that has flushed its    *)
(* rows holds the write lock until its commit (Held).                       *)
(*                                                                         *)
(* SectorTimeline, for any calendar, report dates and views:                *)
(*   TimelineType      TimelineSpec => []TimelineTypeOK                     *)
(*   SessionsAreFinal  TimelineSpec => SessionNotRewritten                  *)
(*   PagesAlwaysAgree  TimelineSpec => []PagesAgree                         *)
(* A report comes into force on the trading day after its date, and one     *)
(* that is not published has no rows (Unwritten): so its first rows, like   *)
(* every later edit, leave the sessions up to its date alone.               *)
(* The pages agree because each of them, whatever it is made of, has its    *)
(* last word from the latest active report that told one; the holding of a  *)
(* session, folded over the days, by the first day where two folds would    *)
(* differ.                                                                  *)
(*                                                                         *)
(* LanesAreApart: a behaviour of both lanes is one of each.                 *)
(***************************************************************************)
EXTENDS MarketDays, MarketCalendar_proofs, FiniteSetTheorems

(* The completed closes.                                                   *)

\* A job at work is about a day that was over when it began; the symbols still
\* to be asked for in batches are securities.
SoundJob(p) ==
    /\ job[p].at # "idle" =>
         job[p].expected \in TradingDates /\ Over(job[p].expected, now, CompleteAfter)
    /\ job[p].at = "batches" => job[p].todo \subseteq Proxies

DailyGood == DailyTypeOK /\ ClockOK /\ \A p \in Jobs : SoundJob(p)

\* Rows are prices of symbols.
LEMMA NothingType == Nothing \in [Symbols -> Rows]
  BY DEF Nothing, Rows

\* A job that rests.
LEMMA IdleType == Idle \in Job /\ Idle.at = "idle" /\ Idle.rows = Nothing
  BY NothingType DEF Idle, Job, Modes

\* At the start of the day nothing is stored or recorded that is not so.
LEMMA DailyInitGood == DailyInit => DailyGood
  <1> SUFFICES ASSUME DailyInit PROVE DailyGood
    OBVIOUS
  <1>1. ClockOK
    BY FirstInstantIn DEF DailyInit, ClockInit, ClockOK
  <1>2. job \in [Jobs -> Job] /\ \A p \in Jobs : job[p].at = "idle"
    BY IdleType DEF DailyInit
  <1>3. daily \in [Symbols -> [TradingDates -> Rows]]
    BY DEF DailyInit, Rows
  <1>4. due \subseteq Modes /\ backfills \in 0..MaxBackfills /\ writer \in Jobs \cup {NoJob}
        /\ success \subseteq TradingDates
    BY AdvanceAssumption DEF DailyInit, Modes
  <1> QED BY <1>1, <1>2, <1>3, <1>4 DEF DailyGood, SoundJob, DailyTypeOK

----------------------------------------------------------------------------
(* Steps of a job                                                           *)

\* A job goes on with the same day, or ends.
Stays(p) == \E new \in Job :
              /\ job' = [job EXCEPT ![p] = new]
              /\ new.at = "idle" \/ (job[p].at # "idle" /\ new.expected = job[p].expected)
              /\ new.at = "batches" => new.todo \subseteq Proxies

\* What a step of a job writes: rows of its day.
Writes(p) == \/ UNCHANGED daily
             \/ \E rows \in [Symbols -> Rows] : Insert(p, rows)

\* One step of job p.
Acts(p) == Work(p) \/ WriteFails(p) \/ Kill(p)

\* A job at work has its day, its symbols and what it found.
LEMMA JobType ==
    ASSUME DailyGood, NEW p \in Jobs
    PROVE  /\ job[p] \in Job /\ job \in [Jobs -> Job]
           /\ job[p].rows \in [Symbols -> Rows] /\ job[p].todo \in SUBSET Symbols
           /\ job[p].at = "batches" => job[p].todo \subseteq Proxies
  BY DEF DailyGood, DailyTypeOK, Job, SoundJob

\* A job that comes to rest ends.
LEMMA EndsStays ==
    ASSUME DailyGood, NEW p \in Jobs, job' = [job EXCEPT ![p] = Idle]
    PROVE  Stays(p)
  BY IdleType DEF Stays

\* The capture of the anchor.
LEMMA CaptureAnchorActs ==
    ASSUME DailyGood, NEW p \in Jobs, CaptureAnchor(p)
    PROVE  Stays(p) /\ Writes(p)
  <1> DEFINE j == job[p]
  <1>1. j.at # "idle" /\ UNCHANGED daily
    BY DEF CaptureAnchor
  <1>2. \/ \E next \in {"proxies", "coverage"} : job' = [job EXCEPT ![p] = [j EXCEPT !.at = next]]
        \/ \E c \in Closes : job' = [job EXCEPT ![p] = [j EXCEPT !.at = "anchorCommit", !.rows[Anchor] = c]]
    BY DEF CaptureAnchor, Goes
  <1>3. \A next \in {"proxies", "coverage"} :
          LET new == [j EXCEPT !.at = next]
          IN  new \in Job /\ new.expected = j.expected /\ new.at # "batches"
    BY JobType DEF Job
  <1>4. ASSUME NEW c \in Closes
        PROVE  LET new == [j EXCEPT !.at = "anchorCommit", !.rows[Anchor] = c]
               IN  new \in Job /\ new.expected = j.expected /\ new.at # "batches"
    <2>1. [j.rows EXCEPT ![Anchor] = c] \in [Symbols -> Rows]
      BY JobType DEF Rows
    <2> QED BY <2>1, JobType DEF Job
  <1> QED BY <1>1, <1>2, <1>3, <1>4 DEF Stays, Writes

\* A commit goes on with the same day, and writes what the job holds.
LEMMA CommitsActs ==
    ASSUME DailyGood, NEW p \in Jobs, NEW next \in {"proxies", "coverage"},
           job[p].at # "idle", Commits(p, next)
    PROVE  Stays(p) /\ Writes(p)
  <1> DEFINE new == [job[p] EXCEPT !.at = next, !.rows = Nothing]
  <1>1. new \in Job /\ new.expected = job[p].expected /\ new.at # "batches"
    BY JobType, NothingType DEF Job
  <1>2. job' = [job EXCEPT ![p] = new] /\ Insert(p, job[p].rows)
    BY DEF Commits
  <1> QED BY <1>1, <1>2, JobType DEF Stays, Writes

\* The capture of the securities.
LEMMA CaptureProxiesActs ==
    ASSUME DailyGood, NEW p \in Jobs, CaptureProxies(p)
    PROVE  Stays(p) /\ Writes(p)
  <1> DEFINE todo == {s \in Proxies : ~Sees(p, s)}
             new  == [job[p] EXCEPT !.at = "batches", !.todo = todo]
  <1>1. todo \in SUBSET Symbols /\ todo \subseteq Proxies
    BY DEF Symbols
  <1>3. job' = [job EXCEPT ![p] = new] /\ job[p].at # "idle" /\ UNCHANGED daily
    BY DEF CaptureProxies
  <1> HIDE DEF todo
  <1>2. new \in Job /\ new.expected = job[p].expected /\ new.todo = todo
    BY <1>1, JobType DEF Job
  <1> QED BY <1>1, <1>2, <1>3 DEF Stays, Writes

\* A batch of the capture does the same.
LEMMA CaptureBatchActs ==
    ASSUME DailyGood, NEW p \in Jobs, CaptureBatch(p)
    PROVE  Stays(p) /\ Writes(p)
  <1> DEFINE j == job[p]
  <1>1. j.at # "idle" /\ UNCHANGED daily
    BY DEF CaptureBatch
  <1>2. CASE job' = [job EXCEPT ![p].at = "coverage", ![p].todo = {}]
    <2> DEFINE new == [j EXCEPT !.at = "coverage", !.todo = {}]
    <2>1. /\ new \in Job /\ new.expected = j.expected /\ new.at # "batches"
          /\ job' = [job EXCEPT ![p] = new]
      BY <1>2, JobType DEF Job
    <2> QED BY <1>1, <2>1 DEF Stays, Writes
  <1>3. CASE ~(job' = [job EXCEPT ![p].at = "coverage", ![p].todo = {}])
    <2>1. PICK batch \in SUBSET j.todo, quotes \in [Proxies -> Rows] :
            /\ \A s \in Proxies \ batch : quotes[s] = NoClose
            /\ job' = [job EXCEPT ![p].todo = @ \ batch,
                         ![p].rows = [s \in Symbols |-> IF s \in batch THEN quotes[s] ELSE @[s]]]
      BY <1>3 DEF CaptureBatch
    <2>2. j.todo \subseteq Proxies /\ j.todo \in SUBSET Symbols /\ j.rows \in [Symbols -> Rows]
      BY JobType DEF CaptureBatch
    <2> DEFINE rows == [s \in Symbols |-> IF s \in batch THEN quotes[s] ELSE j.rows[s]]
               new  == [j EXCEPT !.todo = @ \ batch, !.rows = rows]
    <2>3. rows \in [Symbols -> Rows]
      <3>1. \A s \in Symbols : (IF s \in batch THEN quotes[s] ELSE j.rows[s]) \in Rows
        BY <2>2
      <3> QED BY <3>1
    <2>4. job' = [job EXCEPT ![p] = new]
      BY <2>1
    <2> HIDE DEF rows
    <2>5. new \in Job /\ new.expected = j.expected /\ new.todo \subseteq Proxies
      BY <2>2, <2>3, JobType DEF Job
    <2> QED BY <1>1, <2>4, <2>5 DEF Stays, Writes
  <1> QED BY <1>2, <1>3

\* The coverage and the repair of what it misses.
LEMMA ReadCoverageActs ==
    ASSUME DailyGood, NEW p \in Jobs, ReadCoverage(p)
    PROVE  Stays(p) /\ Writes(p)
  <1> DEFINE missing == Missing(p)
             new     == [job[p] EXCEPT !.at = "repair", !.todo = missing]
  <1>1. missing \in SUBSET Symbols
    BY DEF Missing
  <1>2. job' = [job EXCEPT ![p] = new] /\ job[p].at # "idle" /\ UNCHANGED daily
    BY DEF ReadCoverage
  <1> HIDE DEF missing
  <1>3. new \in Job /\ new.expected = job[p].expected /\ new.at = "repair"
    BY <1>1, JobType DEF Job
  <1> QED BY <1>2, <1>3 DEF Stays, Writes

\* So does a repair that fails,
LEMMA RepairFailsActs ==
    ASSUME DailyGood, NEW p \in Jobs, RepairFails(p)
    PROVE  Stays(p) /\ Writes(p)
  <1>1. job[p].at = "repair" /\ UNCHANGED daily
    BY DEF RepairFails
  <1>2. PICK left \in SUBSET job[p].todo : job' = [job EXCEPT ![p].todo = left]
    BY DEF RepairFails
  <1> DEFINE new == [job[p] EXCEPT !.todo = left]
  <1>3. new \in Job /\ new.expected = job[p].expected /\ new.at = "repair"
    BY <1>1, JobType DEF Job
  <1>4. job' = [job EXCEPT ![p] = new]
    BY <1>2
  <1> QED BY <1>1, <1>3, <1>4 DEF Stays, Writes

\* What a repair inserts is the session's rows, with the symbol's or without.
LEMMA RepairInserts ==
    ASSUME DailyGood, NEW p \in Jobs, Repair(p)
    PROVE  /\ job[p].at = "repair" /\ MayWrite(p) /\ writer' = NoJob
           /\ UNCHANGED <<now, due, success, backfills>>
           /\ \E rows \in [Symbols -> Rows] :
                /\ Insert(p, rows)
                /\ \A s \in Symbols : rows[s] = job[p].rows[s] \/ ~Has(s, job[p].expected)
           /\ \E new \in Job : /\ job' = [job EXCEPT ![p] = new]
                               /\ new.at = "repair" /\ new.expected = job[p].expected
                               /\ new.rows = Nothing
  <1>1. PICK s \in job[p].todo, close \in Closes, previous \in BOOLEAN :
          RepairOne(p, s, close, previous)
    BY DEF Repair
  <1>2. job[p].at = "repair" /\ UNCHANGED <<now, due, success, backfills>>
    BY DEF Repair
  <1> DEFINE inserts  == ~Has(s, job[p].expected) /\ (s = Anchor => previous)
             rows     == IF inserts THEN [job[p].rows EXCEPT ![s] = close] ELSE job[p].rows
             conflict == job[p].conflict \/ (Has(s, job[p].expected)
                                              /\ daily[s][job[p].expected] # close)
             new      == [job[p] EXCEPT !.todo = @ \ {s}, !.rows = Nothing, !.conflict = conflict]
  <1>3. /\ MayWrite(p) /\ Insert(p, rows) /\ writer' = NoJob
        /\ job' = [job EXCEPT ![p] = new]
    BY <1>1 DEF RepairOne
  <1>4. s \in Symbols /\ job[p].rows \in [Symbols -> Rows]
    BY JobType
  <1>5. rows \in [Symbols -> Rows]
    <2>1. [job[p].rows EXCEPT ![s] = close] \in [Symbols -> Rows]
      BY <1>4 DEF Rows
    <2> QED BY <1>4, <2>1
  <1>6. \A t \in Symbols : rows[t] = job[p].rows[t] \/ ~Has(t, job[p].expected)
    BY <1>4
  <1>7. conflict \in BOOLEAN
    BY JobType DEF Job
  <1> HIDE DEF rows, conflict
  <1>8. /\ new \in Job /\ new.at = "repair" /\ new.expected = job[p].expected
        /\ new.rows = Nothing
    BY <1>2, <1>7, JobType, NothingType DEF Job
  <1> QED BY <1>2, <1>3, <1>5, <1>6, <1>8

\* and one that does not.
LEMMA RepairActs ==
    ASSUME DailyGood, NEW p \in Jobs, Repair(p)
    PROVE  Stays(p) /\ Writes(p)
  <1>1. Writes(p)
    BY RepairInserts DEF Writes
  <1>2. Stays(p)
    BY RepairInserts DEF Stays
  <1> QED BY <1>1, <1>2

\* The completion records a success for the day.
LEMMA FinishActs ==
    ASSUME DailyGood, NEW p \in Jobs, Finish(p)
    PROVE  Stays(p) /\ Writes(p)
  <1>1. Insert(p, job[p].rows) /\ job' = [job EXCEPT ![p] = Idle]
    BY DEF Finish
  <1> QED BY <1>1, EndsStays, JobType DEF Writes

\* Every step of a job.
LEMMA ActsStay ==
    ASSUME DailyGood, NEW p \in Jobs, Acts(p)
    PROVE  Stays(p) /\ Writes(p)
  <1>1. CASE CaptureAnchor(p)
    BY <1>1, CaptureAnchorActs
  <1>2. CASE CommitAnchor(p)
    BY <1>2, CommitsActs DEF CommitAnchor
  <1>3. CASE CaptureProxies(p)
    BY <1>3, CaptureProxiesActs
  <1>4. CASE CaptureBatch(p)
    BY <1>4, CaptureBatchActs
  <1>5. CASE CommitProxies(p)
    BY <1>5, CommitsActs DEF CommitProxies
  <1>6. CASE ReadCoverage(p)
    BY <1>6, ReadCoverageActs
  <1>7. CASE RepairFails(p)
    BY <1>7, RepairFailsActs
  <1>8. CASE Repair(p)
    BY <1>8, RepairActs
  <1>9. CASE Finish(p)
    BY <1>9, FinishActs
  <1>10. CASE WriteFails(p) \/ Kill(p)
    <2>1. Ends(p)
      BY <1>10 DEF WriteFails, Kill
    <2> QED BY <2>1, EndsStays DEF Ends, Writes
  <1> QED BY <1>1, <1>2, <1>3, <1>4, <1>5, <1>6, <1>7, <1>8, <1>9, <1>10 DEF Acts, Work

\* What else a step of a job changes.
LEMMA ActsFrame ==
    ASSUME DailyGood, NEW p \in Jobs, Acts(p)
    PROVE  /\ UNCHANGED <<now, due, backfills>>
           /\ writer' \in {writer, p, NoJob}
           /\ UNCHANGED success \/ (Finish(p) /\ success' \subseteq success \cup {job[p].expected})
  <1>1. CASE Repair(p)
    BY <1>1, RepairInserts
  <1>2. CASE WriteFails(p) \/ Kill(p)
    BY <1>2 DEF WriteFails, Kill, Ends
  <1>3. CASE Finish(p)
    BY <1>3 DEF Finish
  <1>4. CASE CommitAnchor(p) \/ CommitProxies(p)
    BY <1>4 DEF CommitAnchor, CommitProxies, Commits
  <1>5. CASE CaptureAnchor(p) \/ CaptureProxies(p) \/ CaptureBatch(p) \/ RepairFails(p)
    BY <1>5 DEF CaptureAnchor, CaptureProxies, CaptureBatch, RepairFails
  <1>6. CASE ReadCoverage(p)
    BY <1>6 DEF ReadCoverage
  <1> QED BY <1>1, <1>2, <1>3, <1>4, <1>5, <1>6 DEF Acts, Work

----------------------------------------------------------------------------
(* DailyGood is inductive                                                        *)

\* A job's row keeps its shape, and its day stays over.
LEMMA InsertKeepsType ==
    ASSUME DailyGood, NEW p \in Jobs, NEW rows \in [Symbols -> Rows], Insert(p, rows)
    PROVE  daily' \in [Symbols -> [TradingDates -> Rows]]
  BY DEF Insert, DailyGood, DailyTypeOK

\* Every act keeps the types.
LEMMA ActsGood ==
    ASSUME DailyGood, NEW p \in Jobs, Acts(p)
    PROVE  DailyGood'
  <1>1. Stays(p) /\ Writes(p)
    BY ActsStay
  <1>2. PICK new \in Job :
          /\ job' = [job EXCEPT ![p] = new]
          /\ new.at = "idle" \/ (job[p].at # "idle" /\ new.expected = job[p].expected)
          /\ new.at = "batches" => new.todo \subseteq Proxies
    BY <1>1 DEF Stays
  <1>3. /\ UNCHANGED <<now, due, backfills>>
        /\ writer' \in {writer, p, NoJob}
        /\ UNCHANGED success \/ (Finish(p) /\ success' \subseteq success \cup {job[p].expected})
    BY ActsFrame
  <1>4. daily' \in [Symbols -> [TradingDates -> Rows]]
    BY <1>1, InsertKeepsType DEF Writes, DailyGood, DailyTypeOK
  <1>5. job' \in [Jobs -> Job]
    BY <1>2 DEF DailyGood, DailyTypeOK
  <1>6. success' \subseteq TradingDates
    <2>1. Finish(p) => job[p].expected \in TradingDates
      BY DEF Finish, DailyGood, SoundJob
    <2> QED BY <1>3, <2>1 DEF DailyGood, DailyTypeOK
  <1>7. DailyTypeOK' /\ ClockOK'
    BY <1>3, <1>4, <1>5, <1>6 DEF DailyGood, DailyTypeOK, ClockOK
  <1>8. ASSUME NEW q \in Jobs PROVE SoundJob(q)'
    <2>1. job'[q] = IF q = p THEN new ELSE job[q]
      BY <1>2 DEF DailyGood, DailyTypeOK
    <2>2. SoundJob(q)
      BY DEF DailyGood
    <2> QED BY <1>2, <1>3, <2>1, <2>2 DEF SoundJob, Over
  <1> QED BY <1>7, <1>8 DEF DailyGood

\* A job begins with the day that is completed.
LEMMA StartGood ==
    ASSUME DailyGood, NEW p \in Jobs, NEW mode \in Modes, Start(p, mode)
    PROVE  DailyGood' /\ daily' = daily /\ success' = success /\ writer' = writer
           /\ \E new \in Job : job' = [job EXCEPT ![p] = new] /\ new.at # "repair"
  <1> DEFINE day == ExpectedLatestCompletedTradingDay(now)
             at  == IF mode = "advance" /\ day = now.day THEN "anchor" ELSE "coverage"
             new == [Idle EXCEPT !.at = at, !.mode = mode, !.expected = day]
  <1>1. /\ day # NoDay /\ due' = due \ {mode} /\ job' = [job EXCEPT ![p] = new]
        /\ UNCHANGED <<now, daily, writer, success, backfills>>
    BY DEF Start
  <1>2. day \in TradingDates /\ Over(day, now, CompleteAfter)
    BY <1>1, LatestOverIsOver DEF ExpectedLatestCompletedTradingDay
  <1>3. at \in {"anchor", "coverage"}
    OBVIOUS
  <1> HIDE DEF day, at
  <1>4. new \in Job /\ new.at = at /\ new.expected = day
    BY <1>2, <1>3, IdleType DEF Job, Idle
  <1>5. job' \in [Jobs -> Job] /\ \A q \in Jobs : job'[q] = IF q = p THEN new ELSE job[q]
    BY <1>1, <1>4 DEF DailyGood, DailyTypeOK
  <1>6. DailyTypeOK' /\ ClockOK'
    BY <1>1, <1>5 DEF DailyGood, DailyTypeOK, ClockOK
  <1>7. ASSUME NEW q \in Jobs PROVE SoundJob(q)'
    <2>1. SoundJob(q)
      BY DEF DailyGood
    <2> QED BY <1>1, <1>2, <1>3, <1>4, <1>5, <2>1 DEF SoundJob, Over
  <1>8. DailyGood'
    BY <1>6, <1>7 DEF DailyGood
  <1> QED BY <1>1, <1>3, <1>4, <1>8

\* What an operator's backfill writes: answered closes of days that are over,
\* and what was there elsewhere.
LEMMA OperateWrites ==
    ASSUME DailyGood, Operate
    PROVE  /\ writer = NoJob /\ UNCHANGED <<now, job, due, writer, success>>
           /\ backfills' \in 0..MaxBackfills
           /\ \E s \in Symbols, row \in [TradingDates -> Rows] :
                /\ daily' = [daily EXCEPT ![s] = row]
                /\ \A d \in TradingDates :
                     \/ row[d] = daily[s][d]
                     \/ row[d] # NoClose /\ Over(d, now, CompleteAfter)
  <1>1. PICK s \in Symbols, answer \in Answers :
          \/ \E replace \in BOOLEAN : Backfill(s, replace, answer)
          \/ BackfillSelected(s, answer)
    BY DEF Operate
  <1>2. PICK bars : answer \in [bars -> Closes]
    BY DEF Answers
  <1> DEFINE days == CompletedBars(DOMAIN answer)
             accepted == Acceptable(s, days)
  <1>3. /\ writer = NoJob /\ UNCHANGED <<now, job, due, writer, success>>
        /\ \E chosen \in SUBSET days :
             daily' = [daily EXCEPT ![s] = [d \in TradingDates |->
                         IF d \in chosen THEN answer[d] ELSE daily[s][d]]]
    <2>1. CASE BackfillSelected(s, answer)
      <3>1. daily' = [daily EXCEPT ![s] = [d \in TradingDates |->
                         IF d \in days THEN answer[d] ELSE daily[s][d]]]
        BY <2>1 DEF BackfillSelected
      <3> QED BY <2>1, <3>1 DEF BackfillSelected
    <2>2. CASE \E replace \in BOOLEAN : Backfill(s, replace, answer)
      <3>1. PICK replace \in BOOLEAN : Backfill(s, replace, answer)
        BY <2>2
      <3> DEFINE chosen == {d \in accepted : replace \/ ~Has(s, d)}
      <3>2. chosen \in SUBSET days
        BY DEF Acceptable
      <3>3. daily' = [daily EXCEPT ![s] = [d \in TradingDates |->
                        IF d \in accepted /\ (replace \/ ~Has(s, d))
                        THEN answer[d] ELSE daily[s][d]]]
        BY <3>1 DEF Backfill
      <3>4. \A d : d \in chosen <=> d \in accepted /\ (replace \/ ~Has(s, d))
        OBVIOUS
      <3> HIDE DEF days, accepted, chosen
      <3>5. daily' = [daily EXCEPT ![s] = [d \in TradingDates |->
                        IF d \in chosen THEN answer[d] ELSE daily[s][d]]]
        BY <3>3, <3>4
      <3>6. writer = NoJob /\ UNCHANGED <<now, job, due, writer, success>>
        BY <3>1 DEF Backfill
      <3> QED BY <3>2, <3>5, <3>6
    <2> QED BY <1>1, <2>1, <2>2
  <1>4. PICK chosen \in SUBSET days :
          daily' = [daily EXCEPT ![s] = [d \in TradingDates |->
                      IF d \in chosen THEN answer[d] ELSE daily[s][d]]]
    BY <1>3
  <1> DEFINE row == [d \in TradingDates |-> IF d \in chosen THEN answer[d] ELSE daily[s][d]]
  <1>5. \A d \in chosen : answer[d] \in Closes /\ Over(d, now, CompleteAfter)
    BY <1>2 DEF CompletedBars
  <1>6. daily[s] \in [TradingDates -> Rows]
    BY DEF DailyGood, DailyTypeOK
  <1>7. row \in [TradingDates -> Rows]
    BY <1>5, <1>6 DEF Rows
  <1>8. \A d \in TradingDates : \/ row[d] = daily[s][d]
                                \/ row[d] # NoClose /\ Over(d, now, CompleteAfter)
    BY <1>5, AdvanceAssumption
  <1>9. backfills' \in 0..MaxBackfills
    BY AdvanceAssumption DEF Operate, DailyGood, DailyTypeOK
  <1>10. daily' = [daily EXCEPT ![s] = row]
    BY <1>4
  <1> HIDE DEF row
  <1> QED BY <1>3, <1>7, <1>8, <1>9, <1>10

\* So does every operation.
LEMMA OperateGood ==
    ASSUME DailyGood, Operate
    PROVE  DailyGood'
  <1>1. /\ UNCHANGED <<now, job, due, writer, success>> /\ backfills' \in 0..MaxBackfills
        /\ daily' \in [Symbols -> [TradingDates -> Rows]]
    BY OperateWrites DEF DailyGood, DailyTypeOK
  <1> QED BY <1>1 DEF DailyGood, DailyTypeOK, ClockOK, SoundJob, Over

\* Time passes.
LEMMA TickGood ==
    ASSUME DailyGood, DailyTick
    PROVE  DailyGood'
  <1>1. now' \in NextInstants(now) /\ now \in Instants
    BY DEF DailyTick, Tick, DailyGood, ClockOK
  <1>2. ClockOK'
    BY <1>1 DEF ClockOK, NextInstants
  <1>3. due' \subseteq Modes
    <2>1. \A slot \in Slots : slot[1] \in Modes
      BY DEF Slots, Modes
    <2> DEFINE elapsed == {x \in Slots : \E day \in (now.day..now'.day) \ Weekends :
                             LET at == [day |-> day, minute |-> x[2]]
                             IN  Before(now, at) /\ ~Before(now', at)}
    <2>2. Elapsed(now, now') = {slot[1] : slot \in elapsed}
      BY DEF Elapsed
    <2>3. elapsed \subseteq Slots
      OBVIOUS
    <2> HIDE DEF elapsed
    <2>4. Elapsed(now, now') \subseteq Modes
      BY <2>1, <2>2, <2>3
    <2> QED BY <2>4 DEF DailyTick, DailyGood, DailyTypeOK
  <1>4. DailyTypeOK'
    BY <1>3 DEF DailyTick, DailyGood, DailyTypeOK
  <1>5. ASSUME NEW p \in Jobs PROVE SoundJob(p)'
    <2>1. SoundJob(p) /\ job' = job
      BY DEF DailyGood, DailyTick
    <2>2. CompleteAfter \in Nat
      BY DEF CompleteAfter, At
    <2>3. \A d \in TradingDates : Over(d, now, CompleteAfter) => Over(d, now', CompleteAfter)
      BY <1>1, <2>2, OverStays, DaysAreNat
    <2> QED BY <2>1, <2>3 DEF SoundJob
  <1> QED BY <1>2, <1>4, <1>5 DEF DailyGood

\* The disjuncts of a step.
LEMMA Disjuncts ==
    ASSUME DailyNext
    PROVE  \/ \E p \in Jobs : Acts(p) \/ \E mode \in Modes : Start(p, mode)
           \/ Operate \/ DailyTick
  BY DEF DailyNext, Acts

\* So does every step of the closes,
LEMMA DailyStepGood ==
    ASSUME DailyGood, [DailyNext]_<<now, dailyVars>>
    PROVE  DailyGood'
  <1>1. CASE UNCHANGED <<now, dailyVars>>
    BY <1>1 DEF dailyVars, DailyGood, DailyTypeOK, ClockOK, SoundJob, Over
  <1>2. CASE DailyNext
    BY <1>2, Disjuncts, ActsGood, StartGood, OperateGood, TickGood
  <1> QED BY <1>1, <1>2

\* and they hold throughout.
LEMMA DailyAlwaysGood == DailySpec => []DailyGood
  <1>1. DailyInit => DailyGood
    BY DailyInitGood
  <1>2. DailyGood /\ [DailyNext]_<<now, dailyVars>> => DailyGood'
    BY DailyStepGood
  <1> QED BY <1>1, <1>2, PTL DEF DailySpec

\* DailyTypeOK: every variable keeps its type through captures, repairs,
\* failures, kills and backfills.
THEOREM DailyType == DailySpec => []DailyTypeOK
  <1>1. DailyGood => DailyTypeOK
    BY DEF DailyGood
  <1> QED BY <1>1, DailyAlwaysGood, PTL

----------------------------------------------------------------------------
(* What is stored stays stored, and is of completed days                    *)

\* What an insert leaves in the table.
LEMMA InsertStores ==
    ASSUME DailyGood, NEW p \in Jobs, NEW rows \in [Symbols -> Rows], Insert(p, rows),
           NEW s \in Symbols, NEW d \in TradingDates
    PROVE  daily'[s][d] = IF d = job[p].expected /\ rows[s] # NoClose THEN rows[s] ELSE daily[s][d]
  BY DEF Insert

\* Every step: a stored close stays, and a new one is of a day that is over.
LEMMA StepStores ==
    ASSUME DailyGood, [DailyNext]_<<now, dailyVars>>,
           NEW s \in Symbols, NEW d \in TradingDates
    PROVE  /\ Has(s, d) => Has(s, d)'
           /\ Has(s, d)' => Has(s, d) \/ Over(d, now, CompleteAfter)
  <1>1. CASE \E p \in Jobs : Acts(p)
    <2>1. PICK p \in Jobs : Acts(p)
      BY <1>1
    <2>2. CASE UNCHANGED daily
      BY <2>2 DEF Has
    <2>3. CASE \E rows \in [Symbols -> Rows] : Insert(p, rows)
      <3>1. PICK rows \in [Symbols -> Rows] : Insert(p, rows)
        BY <2>3
      <3>2. daily'[s][d] = IF d = job[p].expected /\ rows[s] # NoClose THEN rows[s] ELSE daily[s][d]
        BY <3>1, InsertStores
      <3>3. CASE job[p].at # "idle"
        <4>1. Over(job[p].expected, now, CompleteAfter)
          BY <3>3 DEF DailyGood, SoundJob
        <4> QED BY <3>2, <4>1 DEF Has
      <3>4. CASE job[p].at = "idle"
        <4>1. FALSE
          BY <2>1, <3>4 DEF Acts, Work, WriteFails, Kill, CaptureAnchor, CommitAnchor,
             CaptureProxies, CaptureBatch, CommitProxies, ReadCoverage, RepairFails, Repair, Finish
        <4> QED BY <4>1
      <3> QED BY <3>3, <3>4
    <2> QED BY <2>1, <2>2, <2>3, ActsStay DEF Writes
  <1>2. CASE Operate
    <2>1. PICK t \in Symbols, row \in [TradingDates -> Rows] :
            /\ daily' = [daily EXCEPT ![t] = row]
            /\ \A e \in TradingDates : \/ row[e] = daily[t][e]
                                       \/ row[e] # NoClose /\ Over(e, now, CompleteAfter)
      BY <1>2, OperateWrites
    <2>2. daily'[s] = IF s = t THEN row ELSE daily[s]
      BY <2>1 DEF DailyGood, DailyTypeOK
    <2> QED BY <2>1, <2>2 DEF Has
  <1>3. CASE UNCHANGED daily
    BY <1>3 DEF Has
  <1>4. ASSUME NEW p \in Jobs, NEW mode \in Modes, Start(p, mode) PROVE UNCHANGED daily
    BY <1>4 DEF Start
  <1>5. DailyTick \/ UNCHANGED <<now, dailyVars>> => UNCHANGED daily
    BY DEF DailyTick, dailyVars
  <1> QED BY <1>1, <1>2, <1>3, <1>4, <1>5, Disjuncts

\* A success: no symbol is missing, in the table or in the session whose rows
\* the same commit inserts.
LEMMA FinishCovers ==
    ASSUME DailyGood, NEW p \in Jobs, Finish(p), NEW d \in success', d \notin success,
           NEW s \in Symbols
    PROVE  Has(s, d)'
  <1>1. /\ d = job[p].expected /\ Missing(p) = {} /\ Insert(p, job[p].rows)
        /\ d \in TradingDates
    BY DEF Finish, DailyGood, SoundJob
  <1>2. Sees(p, s)
    BY <1>1 DEF Missing
  <1>3. daily'[s][d] = IF job[p].rows[s] # NoClose THEN job[p].rows[s] ELSE daily[s][d]
    BY <1>1, InsertStores, JobType
  <1> QED BY <1>1, <1>2, <1>3 DEF Sees, Has

\* Every step keeps a day that is a success covered.
LEMMA StepCovered ==
    ASSUME DailyGood, SuccessIsCovered, [DailyNext]_<<now, dailyVars>>
    PROVE  SuccessIsCovered'
  <1> SUFFICES ASSUME NEW d \in success', NEW s \in Symbols PROVE Has(s, d)'
    BY DEF SuccessIsCovered
  <1>1. CASE d \in success
    <2>1. Has(s, d) /\ d \in TradingDates
      BY <1>1 DEF SuccessIsCovered, DailyGood, DailyTypeOK
    <2> QED BY <2>1, StepStores
  <1>2. CASE d \notin success
    <2>1. PICK p \in Jobs : Finish(p)
      <3>1. ASSUME NEW p \in Jobs, Acts(p) PROVE Finish(p)
        BY <1>2, <3>1, ActsFrame
      <3>2. ASSUME NEW p \in Jobs, NEW mode \in Modes, Start(p, mode) PROVE FALSE
        BY <1>2, <3>2 DEF Start
      <3>3. ~(Operate \/ DailyTick \/ UNCHANGED <<now, dailyVars>>)
        BY <1>2, OperateWrites DEF DailyTick, dailyVars
      <3> QED BY <3>1, <3>2, <3>3, Disjuncts
    <2> QED BY <1>2, <2>1, FinishCovers
  <1> QED BY <1>1, <1>2

\* SuccessIsCovered: a run row that says success has a row of its day for the
\* anchor and every security, for good.
THEOREM Covered == DailySpec => []SuccessIsCovered
  <1>1. DailyInit => SuccessIsCovered
    BY DEF DailyInit, SuccessIsCovered
  <1>2. DailyGood /\ SuccessIsCovered /\ [DailyNext]_<<now, dailyVars>> => SuccessIsCovered'
    BY StepCovered
  <1> QED BY <1>1, <1>2, DailyAlwaysGood, PTL DEF DailySpec

\* Over days stay over with every step.
LEMMA StepOver ==
    ASSUME DailyGood, [DailyNext]_<<now, dailyVars>>, NEW d \in TradingDates,
           Over(d, now, CompleteAfter)
    PROVE  Over(d, now', CompleteAfter)
  <1>1. CASE DailyTick
    <2>1. now' \in NextInstants(now) /\ now \in Instants
      BY <1>1 DEF DailyTick, Tick, DailyGood, ClockOK
    <2>2. CompleteAfter \in Nat /\ d \in Nat
      BY DaysAreNat DEF CompleteAfter, At
    <2> QED BY <2>1, <2>2, OverStays
  <1>2. CASE ~DailyTick
    <2>1. ASSUME NEW p \in Jobs, Acts(p) PROVE now' = now
      BY <2>1, ActsFrame
    <2>2. ASSUME NEW p \in Jobs, NEW mode \in Modes, Start(p, mode) PROVE now' = now
      BY <2>2 DEF Start
    <2>3. Operate \/ UNCHANGED <<now, dailyVars>> => now' = now
      BY OperateWrites
    <2>4. now' = now
      BY <1>2, <2>1, <2>2, <2>3, Disjuncts
    <2> QED BY <2>4
  <1> QED BY <1>1, <1>2

\* CompletedDaysOnly: no capture, repair or backfill stores the close of a day
\* that is not completed.
THEOREM Completed == DailySpec => []CompletedDaysOnly
  <1>1. DailyInit => CompletedDaysOnly
    BY DEF DailyInit, CompletedDaysOnly, Has
  <1>2. ASSUME DailyGood, CompletedDaysOnly, [DailyNext]_<<now, dailyVars>>
        PROVE  CompletedDaysOnly'
    <2> SUFFICES ASSUME NEW s \in Symbols, NEW d \in TradingDates, Has(s, d)'
                 PROVE  Over(d, now', CompleteAfter)
      BY DEF CompletedDaysOnly
    <2>1. Over(d, now, CompleteAfter)
      BY <1>2, StepStores DEF CompletedDaysOnly
    <2> QED BY <1>2, <2>1, StepOver
  <1> QED BY <1>1, <1>2, DailyAlwaysGood, PTL DEF DailySpec

----------------------------------------------------------------------------
(* No job changes a stored close                                            *)

\* A session that has flushed its rows holds the write lock, and none of them
\* is in the table.
Held(p) == job[p].at = "repair" /\ job[p].rows # Nothing =>
             writer = p /\ Unique(p, job[p].rows)

AllHeld == \A p \in Jobs : Held(p)

\* A job that may write and holds flushed rows inserts only what is not there.
LEMMA HeldInsertKeeps ==
    ASSUME DailyGood, NEW p \in Jobs, NEW rows \in [Symbols -> Rows], Insert(p, rows),
           NEW s \in Symbols, NEW d \in TradingDates, Has(s, d),
           d = job[p].expected => rows[s] = NoClose
    PROVE  daily'[s][d] = daily[s][d]
  BY InsertStores

\* What a writing step of a job inserts was not stored.
LEMMA ActsKeep ==
    ASSUME DailyGood, AllHeld, NEW p \in Jobs, Acts(p),
           NEW s \in Symbols, NEW d \in TradingDates, Has(s, d)
    PROVE  daily'[s][d] = daily[s][d]
  <1> DEFINE rows == job[p].rows
  <1>1. rows \in [Symbols -> Rows]
    BY JobType
  <1>2. ASSUME job[p].at = "repair", d = job[p].expected PROVE rows[s] = NoClose
    BY <1>2 DEF AllHeld, Held, Unique, Nothing
  <1>3. CASE CommitAnchor(p) \/ CommitProxies(p)
    <2>1. Insert(p, rows) /\ Unique(p, rows)
      BY <1>3 DEF CommitAnchor, CommitProxies, Commits
    <2>2. d = job[p].expected => rows[s] = NoClose
      BY <2>1 DEF Unique
    <2> QED BY <1>1, <2>1, <2>2, HeldInsertKeeps
  <1>4. CASE Finish(p)
    <2>1. Insert(p, rows) /\ job[p].at = "repair"
      BY <1>4 DEF Finish
    <2> QED BY <1>1, <1>2, <2>1, HeldInsertKeeps
  <1>5. CASE Repair(p)
    <2>1. job[p].at = "repair"
      BY <1>5, RepairInserts
    <2>2. PICK new \in [Symbols -> Rows] :
            /\ Insert(p, new)
            /\ \A t \in Symbols : new[t] = rows[t] \/ ~Has(t, job[p].expected)
      BY <1>5, RepairInserts
    <2>3. d = job[p].expected => new[s] = NoClose
      BY <1>2, <2>1, <2>2
    <2> QED BY <2>2, <2>3, HeldInsertKeeps
  <1>6. CASE UNCHANGED daily
    BY <1>6
  <1>7. CaptureAnchor(p) \/ CaptureProxies(p) \/ CaptureBatch(p) \/ ReadCoverage(p)
        \/ RepairFails(p) \/ WriteFails(p) \/ Kill(p) => UNCHANGED daily
    BY DEF CaptureAnchor, CaptureProxies, CaptureBatch, ReadCoverage, RepairFails,
           WriteFails, Kill, Ends
  <1> QED BY <1>3, <1>4, <1>5, <1>6, <1>7 DEF Acts, Work

\* A step of one job leaves the other jobs' flushed rows unsaved and unstored.
LEMMA ActsHeld ==
    ASSUME DailyGood, AllHeld, NEW p \in Jobs, Acts(p), NEW q \in Jobs
    PROVE  Held(q)'
  <1> SUFFICES ASSUME job'[q].at = "repair", job'[q].rows # Nothing
               PROVE  writer' = q /\ Unique(q, job[q].rows)'
    BY DEF Held
  <1>1. CASE q # p
    <2>1. PICK new \in Job : job' = [job EXCEPT ![p] = new]
      BY ActsStay DEF Stays
    <2>2. job'[q] = job[q]
      BY <1>1, <2>1 DEF DailyGood, DailyTypeOK
    <2>3. writer = q /\ Unique(q, job[q].rows) /\ ~MayWrite(p)
      BY <1>1, <2>2, AdvanceAssumption DEF AllHeld, Held, MayWrite
    <2>4. UNCHANGED <<daily, writer>>
      <3>1. ~(CommitAnchor(p) \/ CommitProxies(p) \/ Finish(p))
        BY <2>3 DEF CommitAnchor, CommitProxies, Commits, Finish
      <3>2. ~Repair(p)
        BY <2>3, RepairInserts
      <3>3. ReadCoverage(p) => UNCHANGED <<daily, writer>>
        BY <2>3 DEF ReadCoverage
      <3>4. WriteFails(p) \/ Kill(p) => UNCHANGED <<daily, writer>>
        BY <1>1, <2>3 DEF WriteFails, Kill, Ends
      <3>5. CaptureAnchor(p) \/ CaptureProxies(p) \/ CaptureBatch(p) \/ RepairFails(p)
              => UNCHANGED <<daily, writer>>
        BY DEF CaptureAnchor, CaptureProxies, CaptureBatch, RepairFails
      <3> QED BY <3>1, <3>2, <3>3, <3>4, <3>5 DEF Acts, Work
    <2> QED BY <2>2, <2>3, <2>4 DEF Unique, Has
  <1>2. CASE q = p
    <2>1. CASE ReadCoverage(p)
      <3>1. job'[p].rows = job[p].rows /\ job'[p].expected = job[p].expected /\ UNCHANGED daily
        BY <2>1, JobType DEF ReadCoverage, DailyGood, DailyTypeOK, Job
      <3>2. job[p].rows # Nothing
        BY <1>2, <3>1
      <3>3. writer' = p /\ Unique(p, job[p].rows)
        BY <2>1, <3>2 DEF ReadCoverage
      <3> QED BY <1>2, <3>1, <3>3 DEF Unique, Has
    <2>2. CASE RepairFails(p)
      <3>1. job[p].at = "repair" /\ UNCHANGED <<daily, writer>>
        BY <2>2 DEF RepairFails
      <3>2. job'[p].rows = job[p].rows /\ job'[p].expected = job[p].expected
        <4>1. PICK left \in SUBSET job[p].todo : job' = [job EXCEPT ![p].todo = left]
          BY <2>2 DEF RepairFails
        <4> QED BY <4>1, JobType DEF Job
      <3>3. writer = p /\ Unique(p, job[p].rows)
        BY <1>2, <3>1, <3>2 DEF AllHeld, Held
      <3> QED BY <1>2, <3>1, <3>2, <3>3 DEF Unique, Has
    <2>3. CASE Repair(p)
      <3>1. job'[p].rows = Nothing
        BY <2>3, RepairInserts DEF DailyGood, DailyTypeOK
      <3> QED BY <1>2, <3>1
    <2>4. CASE CommitAnchor(p) \/ CommitProxies(p)
      <3>1. job'[p].at \in {"proxies", "coverage"}
        BY <2>4, JobType DEF CommitAnchor, CommitProxies, Commits, Job
      <3> QED BY <1>2, <3>1
    <2>5. CASE CaptureAnchor(p) \/ CaptureProxies(p) \/ CaptureBatch(p)
      <3>1. CaptureAnchor(p) => job'[p].at # "repair"
        BY JobType DEF CaptureAnchor, Goes, Job
      <3>2. CaptureProxies(p) => job'[p].at # "repair"
        BY JobType DEF CaptureProxies, Job
      <3>3. CaptureBatch(p) => job'[p].at # "repair"
        <4> SUFFICES ASSUME CaptureBatch(p), job[p].at = "batches"
                     PROVE  job'[p].at # "repair"
          BY DEF CaptureBatch
        <4>1. CASE job' = [job EXCEPT ![p].at = "coverage", ![p].todo = {}]
          BY <4>1, JobType DEF Job
        <4>2. CASE ~(job' = [job EXCEPT ![p].at = "coverage", ![p].todo = {}])
          <5>1. PICK batch \in SUBSET job[p].todo, quotes \in [Proxies -> Rows] :
                  job' = [job EXCEPT ![p].todo = @ \ batch,
                            ![p].rows = [s \in Symbols |-> IF s \in batch THEN quotes[s] ELSE @[s]]]
            BY <4>2 DEF CaptureBatch
          <5> DEFINE rows == [s \in Symbols |-> IF s \in batch THEN quotes[s] ELSE job[p].rows[s]]
                     new  == [job[p] EXCEPT !.todo = @ \ batch, !.rows = rows]
          <5>2. job' = [job EXCEPT ![p] = new]
            BY <5>1
          <5> HIDE DEF rows
          <5>3. new.at = "batches"
            BY JobType DEF Job
          <5> QED BY <5>2, <5>3, JobType
        <4> QED BY <4>1, <4>2
      <3> QED BY <1>2, <2>5, <3>1, <3>2, <3>3
    <2>6. CASE Finish(p) \/ WriteFails(p) \/ Kill(p)
      <3>1. job'[p] = Idle
        BY <2>6, JobType DEF Finish, WriteFails, Kill, Ends
      <3> QED BY <1>2, <3>1, IdleType
    <2> QED BY <2>1, <2>2, <2>3, <2>4, <2>5, <2>6 DEF Acts, Work
  <1> QED BY <1>1, <1>2

\* Every step keeps what a job has read or stored.
LEMMA StepHeld ==
    ASSUME DailyGood, AllHeld, [DailyNext]_<<now, dailyVars>>
    PROVE  AllHeld'
  <1> SUFFICES ASSUME NEW q \in Jobs PROVE Held(q)'
    BY DEF AllHeld
  <1>1. ASSUME NEW p \in Jobs, Acts(p) PROVE Held(q)'
    BY <1>1, ActsHeld
  <1>2. ASSUME NEW p \in Jobs, NEW mode \in Modes, Start(p, mode) PROVE Held(q)'
    <2>1. daily' = daily /\ writer' = writer
      BY <1>2, StartGood
    <2>2. PICK new \in Job : job' = [job EXCEPT ![p] = new] /\ new.at # "repair"
      BY <1>2, StartGood
    <2>3. job'[q].at = "repair" => job'[q] = job[q]
      BY <2>2 DEF DailyGood, DailyTypeOK
    <2> QED BY <2>1, <2>3 DEF AllHeld, Held, Unique, Has
  <1>3. CASE Operate
    <2>1. writer = NoJob /\ UNCHANGED <<job, writer>>
      BY <1>3, OperateWrites
    <2>2. ~(job[q].at = "repair" /\ job[q].rows # Nothing)
      BY <2>1, AdvanceAssumption DEF AllHeld, Held
    <2> QED BY <2>1, <2>2 DEF Held
  <1>4. CASE DailyTick \/ UNCHANGED <<now, dailyVars>>
    <2>1. UNCHANGED <<daily, job, writer>>
      BY <1>4 DEF DailyTick, dailyVars
    <2> QED BY <2>1 DEF AllHeld, Held, Unique, Has
  <1> QED BY <1>1, <1>2, <1>3, <1>4, Disjuncts

\* So it is held throughout.
LEMMA AlwaysHeld == DailySpec => []AllHeld
  <1>1. DailyInit => AllHeld
    BY IdleType DEF DailyInit, AllHeld, Held
  <1>2. DailyGood /\ AllHeld /\ [DailyNext]_<<now, dailyVars>> => AllHeld'
    BY StepHeld
  <1> QED BY <1>1, <1>2, DailyAlwaysGood, PTL DEF DailySpec

\* CloseStays: whatever the other job or an operator has written between two
\* steps of a job, none of its commits replaces a stored close.
THEOREM ClosesStay == DailySpec => CloseStays
  <1> DEFINE Keep == job' # job => \A s \in Symbols, d \in TradingDates :
                                     Has(s, d) => daily'[s][d] = daily[s][d]
  <1>1. ASSUME DailyGood, AllHeld, [DailyNext]_<<now, dailyVars>>
        PROVE  [Keep]_<<now, dailyVars>>
    <2> SUFFICES ASSUME job' # job, NEW s \in Symbols, NEW d \in TradingDates, Has(s, d)
                 PROVE  daily'[s][d] = daily[s][d]
      OBVIOUS
    <2>1. ASSUME NEW p \in Jobs, Acts(p) PROVE daily'[s][d] = daily[s][d]
      BY <1>1, <2>1, ActsKeep
    <2>2. ASSUME NEW p \in Jobs, NEW mode \in Modes, Start(p, mode) PROVE daily' = daily
      BY <2>2 DEF Start
    <2>3. ~Operate
      BY <1>1, OperateWrites
    <2>4. DailyTick \/ UNCHANGED <<now, dailyVars>> => daily' = daily
      BY DEF DailyTick, dailyVars
    <2> QED BY <1>1, <2>1, <2>2, <2>3, <2>4, Disjuncts
  <1>2. CloseStays <=> [][Keep]_<<now, dailyVars>>
    BY PTL DEF CloseStays
  <1> QED BY <1>1, <1>2, DailyAlwaysGood, AlwaysHeld, PTL DEF DailySpec

----------------------------------------------------------------------------
(* The reports' word.                                                       *)

Unwritten == \A d \in ReportDays : published[d] = 0 => entry[d] = NoRow /\ assessment[d] = NoRow

TimelineTyped == TimelineTypeOK /\ Unwritten

Written == [status: PathStatuses, explicit: BOOLEAN, manual: BOOLEAN]

\* Report days are covered calendar days.
LEMMA ReportDaysAreNat == ReportDays \subseteq Nat /\ ReportDays \subseteq Coverage
  BY TimelineAssumption, DaysAreNat

\* Rows that reports and administrators give are rows.
LEMMA RowsTyped ==
    /\ \A s \in Views \cup Lines, x \in BOOLEAN : Row(s, x) \in Written
    /\ Fallbacks \subseteq Written /\ Recorded \subseteq Written /\ Manual \subseteq Written
    /\ \A made \in Structures : made.entry \in Written /\ made.assessment \in Written
    /\ \A d, made : made \in StructuresOf(d) => made.entry \in Written /\ made.assessment \in Written
    /\ Written \subseteq Marks /\ NoRow \in Marks /\ NoRow \notin Written
  <1>1. \A s \in PathStatuses, x \in BOOLEAN : Row(s, x) \in Written
    BY DEF Row, Written
  <1>2. Views \cup Lines \subseteq PathStatuses
    BY TimelineAssumption
  <1>3. Fallbacks \subseteq Written /\ Recorded \subseteq Written
    BY <1>1, <1>2 DEF Fallbacks, Recorded, PathStatuses
  <1>4. Manual \subseteq Written
    BY <1>2 DEF Manual, Written
  <1>5. \A made \in Structures : made.entry \in Written /\ made.assessment \in Written
    <2> SUFFICES ASSUME NEW made \in Structures
                 PROVE  made.entry \in Written /\ made.assessment \in Written
      OBVIOUS
    <2>1. CASE \E r \in Fallbacks \cup Recorded : made = [entry |-> r, assessment |-> r]
      BY <1>3, <2>1
    <2>2. CASE \E s \in Lines, r \in Fallbacks \cup Recorded :
                 made = [entry |-> Row(s, s # "not_mentioned"), assessment |-> r]
      <3>1. PICK s \in Lines, r \in Fallbacks \cup Recorded :
              made = [entry |-> Row(s, s # "not_mentioned"), assessment |-> r]
        BY <2>2
      <3>2. Row(s, s # "not_mentioned") \in Written
        BY <1>1, <1>2
      <3> QED BY <1>3, <3>1, <3>2
    <2> QED BY <2>1, <2>2 DEF Structures
  <1>6. Written \subseteq Marks /\ NoRow \in Marks
    BY DEF Written, Marks
  <1>8. Unmentioned \in Written
    BY <1>3 DEF Unmentioned, Fallbacks
  <1>9. ASSUME NEW d, NEW made \in StructuresOf(d)
        PROVE  made.entry \in Written /\ made.assessment \in Written
    <2>1. CASE Active(d)
      BY <1>5, <2>1 DEF StructuresOf
    <2>2. CASE ~Active(d)
      <3>1. StructuresOf(d) = {[entry |-> Unmentioned, assessment |-> Unmentioned]}
        BY <2>2 DEF StructuresOf
      <3>2. made.entry = Unmentioned /\ made.assessment = Unmentioned
        BY <3>1
      <3> QED BY <1>8, <3>2
    <2> QED BY <2>1, <2>2
  <1>7. NoRow \notin Written
    BY DEF NoRow, Written, PathStatuses
  <1>10. \A d, made : made \in StructuresOf(d) => made.entry \in Written /\ made.assessment \in Written
    BY <1>9
  <1> QED BY <1>1, <1>2, <1>3, <1>4, <1>5, <1>6, <1>7, <1>10

\* The number of reports is a natural number.
LEMMA ReportsCounted == Cardinality(Reports) \in Nat
  <1>1. IsFiniteSet(Coverage)
    BY CalendarAssumption, FS_Interval DEF Coverage
  <1>2. Reports \subseteq Coverage
    BY ReportDaysAreNat DEF Reports
  <1> QED BY <1>1, <1>2, FS_Subset, FS_CardinalityType

\* A matrix leaves cells of statuses and of report dates.
LEMMA FreezeTyped ==
    ASSUME TimelineTyped, NEW d \in ReportDays, NEW own \in PathStatuses, NEW earlier \in PathStatuses
    PROVE  Freeze(d, own, earlier) \in [ReportDays -> Cells]
  <1> SUFFICES ASSUME NEW e \in ReportDays PROVE Freeze(d, own, earlier)[e] \in Cells
    BY DEF Freeze
  <1>1. cell[e] \in Cells
    BY DEF TimelineTyped, TimelineTypeOK
  <1> DEFINE s == IF e = d THEN own ELSE IF cell[e] # NoCell THEN cell[e].status ELSE earlier
  <1>2. s \in PathStatuses
    BY <1>1 DEF Cells
  <1>3. Freeze(d, own, earlier)[e] = cell[e]
        \/ Freeze(d, own, earlier)[e] = [status |-> s, source |-> d]
    BY DEF Freeze
  <1> HIDE DEF s
  <1> QED BY <1>1, <1>2, <1>3 DEF Cells

\* Before the first report the pages are typed.
LEMMA TimelineInitTyped == TimelineInit => TimelineTyped
  <1>1. NoRow \in Marks /\ NoCell \in Cells /\ 0 \in 0..MaxChanges
    BY TimelineAssumption DEF Marks, Cells
  <1> QED BY <1>1 DEF TimelineInit, TimelineTyped, TimelineTypeOK, Unwritten

\* A publication gives the report its rows.
LEMMA PublishTyped ==
    ASSUME TimelineTyped, NEW d \in ReportDays, Publish(d), changes' \in 0..MaxChanges
    PROVE  /\ TimelineTyped'
           /\ published[d] = 0 /\ assessment'[d] # assessment[d]
           /\ \A e \in ReportDays : e # d => /\ published'[e] = published[e]
                                             /\ entry'[e] = entry[e] /\ assessment'[e] = assessment[e]
  <1>1. PICK made \in StructuresOf(d) :
          /\ entry' = [entry EXCEPT ![d] = IF listed THEN made.entry ELSE NoRow]
          /\ assessment' = [assessment EXCEPT ![d] = made.assessment]
          /\ \/ UNCHANGED cell
             \/ \E earlier \in Printed :
                  cell' = Freeze(d, IF listed THEN made.entry.status ELSE made.assessment.status,
                                 earlier)
    BY DEF Publish
  <1>2. made.entry \in Written /\ made.assessment \in Written
    BY RowsTyped
  <1>3. published' = [published EXCEPT ![d] = Cardinality(Reports) + 1] /\ listed' = listed
        /\ d \notin Reports
    BY DEF Publish
  <1>4. published \in [ReportDays -> Nat] /\ entry \in [ReportDays -> Marks]
        /\ assessment \in [ReportDays -> Marks] /\ cell \in [ReportDays -> Cells]
        /\ listed \in BOOLEAN
    BY DEF TimelineTyped, TimelineTypeOK
  <1>5. published' \in [ReportDays -> Nat] /\ published'[d] # 0 /\ published[d] = 0
    BY <1>3, <1>4, ReportsCounted DEF Reports
  <1>6. entry' \in [ReportDays -> Marks]
    BY <1>1, <1>2, <1>4, RowsTyped
  <1>7. assessment' \in [ReportDays -> Marks] /\ assessment'[d] = made.assessment
    BY <1>1, <1>2, <1>4, RowsTyped
  <1>8. cell' \in [ReportDays -> Cells]
    <2> DEFINE own == IF listed THEN made.entry.status ELSE made.assessment.status
    <2>1. own \in PathStatuses
      BY <1>2 DEF Written
    <2>2. UNCHANGED cell \/ \E earlier \in Printed : cell' = Freeze(d, own, earlier)
      BY <1>1
    <2> HIDE DEF own
    <2> QED BY <1>4, <2>1, <2>2, FreezeTyped, TimelineAssumption
  <1>9. \A e \in ReportDays : e # d => /\ published'[e] = published[e]
                                       /\ entry'[e] = entry[e] /\ assessment'[e] = assessment[e]
    BY <1>1, <1>3, <1>4
  <1>10. Unwritten'
    BY <1>5, <1>9 DEF Unwritten, TimelineTyped
  <1>11. assessment'[d] # assessment[d]
    BY <1>2, <1>5, <1>7, RowsTyped DEF TimelineTyped, Unwritten
  <1> QED BY <1>3, <1>4, <1>5, <1>6, <1>7, <1>8, <1>9, <1>10, <1>11 DEF TimelineTyped, TimelineTypeOK

\* An edit changes rows of a published report.
LEMMA EditTyped ==
    ASSUME TimelineTyped, NEW d \in ReportDays, changes' \in 0..MaxChanges,
           UpdatePath(d) \/ UpdateAssessment(d) \/ ReparseFacts(d)
    PROVE  TimelineTyped' /\ published' = published
  <1>1. published \in [ReportDays -> Nat] /\ entry \in [ReportDays -> Marks]
        /\ assessment \in [ReportDays -> Marks]
    BY DEF TimelineTyped, TimelineTypeOK
  <1>2. /\ d \in Reports /\ UNCHANGED <<listed, published, cell>>
        /\ \E row \in Written :
             /\ entry' = entry \/ entry' = [entry EXCEPT ![d] = row]
             /\ assessment' = assessment \/ assessment' = [assessment EXCEPT ![d] = row]
    <2>1. CASE UpdatePath(d)
      <3>1. PICK row \in Manual : entry' = [entry EXCEPT ![d] = row]
        BY <2>1 DEF UpdatePath
      <3>2. row \in Written
        BY RowsTyped
      <3> QED BY <2>1, <3>1, <3>2 DEF UpdatePath
    <2>2. CASE UpdateAssessment(d)
      <3>1. PICK row \in Manual : assessment' = [assessment EXCEPT ![d] = row]
        BY <2>2 DEF UpdateAssessment
      <3>2. row \in Written
        BY RowsTyped
      <3> QED BY <2>2, <3>1, <3>2 DEF UpdateAssessment
    <2>3. CASE ReparseFacts(d)
      <3>1. PICK row \in Recorded :
              /\ assessment' = [assessment EXCEPT ![d] = row]
              /\ entry' = [entry EXCEPT ![d] = IF @ = NoRow \/ @.manual THEN @ ELSE row]
        BY <2>3 DEF ReparseFacts
      <3>2. row \in Written
        BY RowsTyped
      <3>3. entry' = entry \/ entry' = [entry EXCEPT ![d] = row]
        BY <1>1, <3>1
      <3> QED BY <2>3, <3>1, <3>2, <3>3 DEF ReparseFacts
    <2> QED BY <2>1, <2>2, <2>3
  <1>3. entry' \in [ReportDays -> Marks] /\ assessment' \in [ReportDays -> Marks]
    BY <1>1, <1>2, RowsTyped
  <1>4. Unwritten'
    <2> SUFFICES ASSUME NEW e \in ReportDays, published[e] = 0
                 PROVE  entry'[e] = NoRow /\ assessment'[e] = NoRow
      BY <1>2 DEF Unwritten
    <2>1. e # d
      BY <1>2 DEF Reports
    <2>2. entry'[e] = entry[e] /\ assessment'[e] = assessment[e]
      BY <1>1, <1>2, <2>1
    <2> QED BY <2>2 DEF TimelineTyped, Unwritten
  <1> QED BY <1>2, <1>3, <1>4 DEF TimelineTyped, TimelineTypeOK

\* Every step of the timeline keeps the types,
LEMMA TimelineStepTyped ==
    ASSUME TimelineTyped, [TimelineNext]_timelineVars
    PROVE  TimelineTyped'
  <1>1. CASE UNCHANGED timelineVars
    BY <1>1 DEF timelineVars, TimelineTyped, TimelineTypeOK, Unwritten
  <1>2. CASE TimelineNext
    <2>1. changes' \in 0..MaxChanges
      BY <1>2, TimelineAssumption DEF TimelineNext, TimelineTyped, TimelineTypeOK
    <2> QED BY <1>2, <2>1, PublishTyped, EditTyped DEF TimelineNext
  <1> QED BY <1>1, <1>2

\* and they hold throughout.
LEMMA TimelineAlwaysTyped == TimelineSpec => []TimelineTyped
  <1>1. TimelineInit => TimelineTyped
    BY TimelineInitTyped
  <1>2. TimelineTyped /\ [TimelineNext]_timelineVars => TimelineTyped'
    BY TimelineStepTyped
  <1> QED BY <1>1, <1>2, PTL DEF TimelineSpec

\* TimelineTypeOK: publications, edits and repeated parses keep every row, cell
\* and publication number of its type.
THEOREM TimelineType == TimelineSpec => []TimelineTypeOK
  <1>1. TimelineTyped => TimelineTypeOK
    BY DEF TimelineTyped
  <1> QED BY <1>1, TimelineAlwaysTyped, PTL

----------------------------------------------------------------------------
(* What is in force at a session                                            *)

\* A report is in force on a later trading day, or never.
LEMMA EffectiveLater ==
    ASSUME NEW d \in ReportDays, EffectiveFrom(d) # NoDay
    PROVE  EffectiveFrom(d) \in Nat /\ d < EffectiveFrom(d)
  <1> DEFINE days == {x \in TradingDates : x > d}
  <1>1. days \in SUBSET Coverage
    BY DaysAreNat
  <1>2. EffectiveFrom(d) = Earliest(days)
    BY DEF EffectiveFrom, NextTradingDay
  <1>3. days # {}
    BY <1>2 DEF Earliest
  <1>4. Earliest(days) \in days
    BY <1>1, <1>3, EarliestIn
  <1>5. Earliest(days) \in TradingDates /\ Earliest(days) > d
    BY <1>4
  <1> QED BY <1>2, <1>5, DaysAreNat, ReportDaysAreNat

\* Days whose rows a step leaves alone weigh the same before and after it; the
\* other days are not in force at session t.
LEMMA SameStrategy ==
    ASSUME TimelineTyped, TimelineTyped', NEW t \in TradingDates, UNCHANGED listed,
           \A d \in ReportDays : \/ t <= d
                                 \/ /\ published'[d] = published[d]
                                    /\ entry'[d] = entry[d] /\ assessment'[d] = assessment[d]
    PROVE  Strategy(t)' = Strategy(t)
  <1> DEFINE Forceful == {d \in ReportDays : /\ published[d] > 0 /\ Active(d) /\ Told(Fact(d))
                                             /\ EffectiveFrom(d) # NoDay /\ EffectiveFrom(d) <= t}
  <1>1. InForce(t) = Forceful
    BY DEF InForce, Spoken, Reports
  <1>2. InForce(t)' = Forceful'
    BY DEF InForce, Spoken, Reports, Active, EffectiveFrom
  <1>3. ASSUME NEW d \in ReportDays, EffectiveFrom(d) # NoDay, EffectiveFrom(d) <= t
        PROVE  /\ published'[d] = published[d] /\ Fact(d)' = Fact(d)
    <2>1. EffectiveFrom(d) \in Nat /\ d < EffectiveFrom(d)
      BY <1>3, EffectiveLater
    <2>2. ~(t <= d)
      BY <1>3, <2>1, DaysAreNat, ReportDaysAreNat
    <2>3. published'[d] = published[d] /\ entry'[d] = entry[d] /\ assessment'[d] = assessment[d]
      BY <2>2
    <2> QED BY <2>3 DEF Fact
  <1>4. Forceful' = Forceful
    <2>1. \A d \in ReportDays : d \in Forceful' <=> d \in Forceful
      BY <1>3 DEF Active, Told
    <2> QED BY <2>1
  <1> DEFINE d == Latest(InForce(t))
  <1>5. InForce(t)' = InForce(t)
    BY <1>1, <1>2, <1>4
  <1>6. d' = d
    BY <1>5 DEF Latest
  <1>7. d # NoDay => Fact(d)' = Fact(d)
    <2> SUFFICES ASSUME d # NoDay PROVE Fact(d)' = Fact(d)
      OBVIOUS
    <2>1. Forceful \in SUBSET Coverage /\ Forceful # {}
      BY <1>1, ReportDaysAreNat DEF Latest
    <2>2. d \in Forceful
      BY <1>1, <2>1, LatestIn
    <2>3. PICK e \in Forceful : e = d
      BY <2>2
    <2>4. Fact(e)' = Fact(e)
      BY <1>3
    <2> HIDE DEF d
    <2> QED BY <1>6, <2>3, <2>4 DEF Fact
  <1> QED BY <1>6, <1>7 DEF Strategy, EffectiveFrom

\* SessionNotRewritten: a report or an edit changes the strategy of no session
\* up to the dates of the reports it touches, nor what the Board says of such
\* a session while a report is in force there.
THEOREM SessionsAreFinal == TimelineSpec => SessionNotRewritten
  <1> DEFINE Kept(t) == /\ Strategy(t)' = Strategy(t)
                        /\ Strategy(t).source # NoDay => BoardEffective(t)' = BoardEffective(t)
             Final == Touched # {} => \A t \in TradingDates :
                        (\A d \in Touched : t <= d) => Kept(t)
  <1>1. ASSUME TimelineTyped, [TimelineNext]_timelineVars PROVE [Final]_timelineVars
    <2> SUFFICES ASSUME TimelineNext, NEW t \in TradingDates, \A d \in Touched : t <= d
                 PROVE  Kept(t)
      BY <1>1
    <2>1. TimelineTyped'
      BY <1>1, TimelineStepTyped
    <2>2. ASSUME NEW d \in ReportDays
          PROVE  \/ t <= d
                 \/ /\ published'[d] = published[d]
                    /\ entry'[d] = entry[d] /\ assessment'[d] = assessment[d]
      <3>1. t <= d \/ (entry'[d] = entry[d] /\ assessment'[d] = assessment[d])
        BY DEF Touched
      <3>2. PICK e \in ReportDays :
              Publish(e) \/ UpdatePath(e) \/ UpdateAssessment(e) \/ ReparseFacts(e)
        BY DEF TimelineNext
      <3>3. changes' \in 0..MaxChanges
        BY <2>1 DEF TimelineTyped, TimelineTypeOK
      <3>4. CASE Publish(e)
        <4>1. t <= e
          BY <1>1, <3>3, <3>4, PublishTyped DEF Touched
        <4>2. d # e => published'[d] = published[d]
          BY <1>1, <3>3, <3>4, PublishTyped
        <4> QED BY <3>1, <4>1, <4>2
      <3>5. CASE ~Publish(e)
        <4>1. published' = published
          BY <1>1, <3>2, <3>3, <3>5, EditTyped
        <4> QED BY <3>1, <4>1
      <3> QED BY <3>4, <3>5
    <2>3. UNCHANGED listed
      BY DEF TimelineNext, Publish, UpdatePath, UpdateAssessment, ReparseFacts
    <2>4. Strategy(t)' = Strategy(t)
      BY <1>1, <2>1, <2>2, <2>3, SameStrategy
    <2>5. ASSUME Strategy(t).source # NoDay
          PROVE  BoardEffective(t)' = BoardEffective(t)
      <3>1. BoardEffective(t) = Strategy(t).status
        BY <2>5 DEF BoardEffective
      <3>2. BoardEffective(t)' = Strategy(t)'.status
        BY <2>4, <2>5 DEF BoardEffective
      <3> QED BY <2>4, <3>1, <3>2
    <2> QED BY <2>4, <2>5
  <1>2. SessionNotRewritten <=> [][Final]_timelineVars
    BY PTL DEF SessionNotRewritten
  <1> QED BY <1>1, <1>2, TimelineAlwaysTyped, PTL DEF TimelineSpec

----------------------------------------------------------------------------
(* Days and the latest of them                                              *)

\* The latest of the days that a report or a cell has: itself one of them.
LEMMA LatestDay ==
    ASSUME NEW S \in SUBSET ReportDays
    PROVE  /\ S = {} => Latest(S) = NoDay
           /\ S # {} => Latest(S) \in S
           /\ Latest(S) # NoDay => Latest(S) \in S
           /\ \A d \in S : d <= Latest(S) /\ d # NoDay
           /\ Latest(S) \in Nat
  <1>1. S \in SUBSET Coverage /\ S \subseteq Nat /\ NoDay \notin S /\ NoDay = 0
    BY DaysAreNat, ReportDaysAreNat
  <1>2. CASE S = {}
    BY <1>1, <1>2 DEF Latest
  <1>3. CASE S # {}
    BY <1>1, <1>3, LatestIn
  <1> QED BY <1>2, <1>3

\* The days that the pages compare are report days.
LEMMA SomeDays ==
    /\ Reports \subseteq ReportDays /\ Path \subseteq ReportDays /\ Spoken \subseteq Reports
    /\ \A t : InForce(t) \subseteq Spoken
    /\ LatestReport \in Nat
  <1>1. Reports \subseteq ReportDays /\ Path \subseteq ReportDays /\ Spoken \subseteq Reports
        /\ \A t : InForce(t) \subseteq Spoken
    BY DEF Reports, Path, Spoken, InForce
  <1> QED BY <1>1, LatestDay DEF LatestReport

----------------------------------------------------------------------------
(* The holding intervals                                                    *)

First == [start |-> NoDay, effective |-> "not_mentioned", past |-> {}]
PassStep(before, d, ends) == IF d \in ReportDays THEN PassCell(before, d, ends) ELSE before

\* A pass over the days up to n.
IsPass(f, n, ends) ==
    f = [d \in 0..n |-> IF d = 0 THEN First ELSE PassStep(f[d - 1], d, ends)]

\* There is one: were a day the first without, the pass up to the day before it
\* would extend to it.
LEMMA PassExists ==
    ASSUME NEW ends
    PROVE  \A n \in Nat : \E f : IsPass(f, n, ends)
  <1> DEFINE bad == {n \in Nat : ~ \E f : IsPass(f, n, ends)}
  <1> SUFFICES ASSUME bad # {} PROVE FALSE
    OBVIOUS
  <1>1. PICK n \in bad : \A m \in bad : n <= m
    BY LeastOf
  <1>2. CASE n = 0
    <2>1. IsPass([d \in 0..0 |-> First], 0, ends)
      BY DEF IsPass
    <2> QED BY <1>1, <1>2, <2>1
  <1>3. CASE n # 0
    <2>1. n \in Nat /\ n - 1 \in Nat /\ n - 1 \notin bad
      BY <1>1, <1>3
    <2>2. PICK f : IsPass(f, n - 1, ends)
      BY <2>1
    <2> DEFINE g == [d \in 0..n |-> IF d = n THEN PassStep(f[n - 1], n, ends) ELSE f[d]]
               h == [d \in 0..n |-> IF d = 0 THEN First ELSE PassStep(g[d - 1], d, ends)]
    <2>3. ASSUME NEW d \in 0..n PROVE g[d] = h[d]
      <3>1. CASE d = n
        <4>1. d - 1 \in 0..n /\ d - 1 # n /\ d # 0
          BY <1>3, <2>1, <3>1
        <4>2. g[d - 1] = f[n - 1]
          BY <3>1, <4>1
        <4> QED BY <3>1, <4>1, <4>2
      <3>2. CASE d # n
        <4>1. d \in 0..(n - 1) /\ g[d] = f[d]
          BY <2>1, <3>2
        <4>2. f[d] = IF d = 0 THEN First ELSE PassStep(f[d - 1], d, ends)
          BY <2>2, <4>1 DEF IsPass
        <4>3. CASE d = 0
          BY <4>1, <4>2, <4>3
        <4>4. CASE d # 0
          <5>1. d - 1 \in 0..n /\ d - 1 # n
            BY <2>1, <4>1, <4>4
          <5>2. g[d - 1] = f[d - 1]
            BY <5>1
          <5> QED BY <4>1, <4>2, <4>4, <5>2
        <4> QED BY <4>3, <4>4
      <3> QED BY <3>1, <3>2
    <2>4. g = h
      BY <2>3
    <2>5. IsPass(g, n, ends)
      BY <2>4 DEF IsPass
    <2> QED BY <1>1, <2>5
  <1> QED BY <1>2, <1>3

\* What the pass has after a day: the step of that day on what it had before.
LEMMA PassSteps ==
    ASSUME NEW ends
    PROVE  /\ Pass(ends)[0] = First
           /\ \A d \in 1..CoverageEnd : Pass(ends)[d] = PassStep(Pass(ends)[d - 1], d, ends)
  <1>1. CoverageEnd \in Nat
    BY CalendarAssumption
  <1>2. IsPass(Pass(ends), CoverageEnd, ends)
    <2>1. Pass(ends) = CHOOSE f : IsPass(f, CoverageEnd, ends)
      BY DEF Pass, IsPass, First, PassStep
    <2> QED BY <1>1, <2>1, PassExists
  <1> QED BY <1>1, <1>2 DEF IsPass

\* What the cells up to day d say of a pass: its status is the last that says
\* anything; a start is a turn_hold that no turn_hold and no strict end follows;
\* without a start, a strict end follows every turn_hold.
EffectiveIs(effective, d) ==
    \/ /\ effective = "not_mentioned"
       /\ \A x \in Path : x <= d => CellStatus(x) = "not_mentioned"
    \/ \E e \in Path : /\ e <= d /\ CellStatus(e) # "not_mentioned" /\ effective = CellStatus(e)
                       /\ \A x \in Path : e < x /\ x <= d => CellStatus(x) = "not_mentioned"
StartIs(start, d) ==
    /\ start # NoDay =>
          /\ start \in Path /\ start <= d /\ CellStatus(start) = "turn_hold"
          /\ \A x \in Path : start < x /\ x <= d => CellStatus(x) \notin StrictEnd \cup {"turn_hold"}
    /\ start = NoDay =>
          \A x \in Path : x <= d /\ CellStatus(x) = "turn_hold" =>
             \E y \in Path : x < y /\ y <= d /\ CellStatus(y) \in StrictEnd

\* Past intervals are over, and one is over before the next starts.
PastIs(start, past, d) ==
    /\ \A i \in past : /\ i.start \in Nat /\ i.end \in Nat /\ i.start < i.end /\ i.end <= d
                       /\ start # NoDay => i.end < start
    /\ \A i, j \in past : i = j \/ i.end <= j.start \/ j.end <= i.start

IsResult(p) == p = [start |-> p.start, effective |-> p.effective, past |-> p.past]

HeldUntil(d) ==
    LET strict == Pass(StrictEnd)[d]
        broad  == Pass(BroadEnd)[d]
    IN /\ IsResult(strict) /\ IsResult(broad)
       /\ EffectiveIs(strict.effective, d) /\ broad.effective = strict.effective
       /\ StartIs(strict.start, d) /\ PastIs(strict.start, strict.past, d)
       /\ strict.start # NoDay => broad.start = strict.start

\* A day without a word in the ledger leaves a pass alone.
LEMMA SilentDay ==
    ASSUME NEW d \in Nat, NEW effective, NEW start, NEW past,
           \A x \in Path : x = d + 1 => CellStatus(x) = "not_mentioned",
           EffectiveIs(effective, d), StartIs(start, d), PastIs(start, past, d)
    PROVE  /\ EffectiveIs(effective, d + 1) /\ StartIs(start, d + 1)
           /\ PastIs(start, past, d + 1)
  <1>1. Path \subseteq Nat
    BY ReportDaysAreNat DEF Path
  <1>2. \A x \in Path : x <= d + 1 => x <= d \/ CellStatus(x) = "not_mentioned"
    BY <1>1
  <1>3. \A x \in Nat : x <= d => x <= d + 1
    OBVIOUS
  <1>4. EffectiveIs(effective, d + 1)
    BY <1>1, <1>2, <1>3 DEF EffectiveIs
  <1>5. StartIs(start, d + 1)
    BY <1>1, <1>2, <1>3 DEF StartIs, StrictEnd
  <1>6. PastIs(start, past, d + 1)
    BY <1>3 DEF PastIs
  <1> QED BY <1>4, <1>5, <1>6

\* A day that says something gives both passes its status.
LEMMA SpokenDay ==
    ASSUME NEW d \in Nat, d + 1 \in Path, CellStatus(d + 1) # "not_mentioned"
    PROVE  EffectiveIs(CellStatus(d + 1), d + 1)
  <1>1. Path \subseteq Nat
    BY ReportDaysAreNat DEF Path
  <1>2. \A x \in Path : ~(d + 1 < x /\ x <= d + 1)
    BY <1>1
  <1> QED BY <1>1, <1>2 DEF EffectiveIs

\* One more day of both passes.
LEMMA HeldStep ==
    ASSUME NEW d \in Nat, d + 1 <= CoverageEnd, HeldUntil(d)
    PROVE  HeldUntil(d + 1)
  <1> DEFINE strict  == Pass(StrictEnd)[d]
             broad   == Pass(BroadEnd)[d]
             strict2 == Pass(StrictEnd)[d + 1]
             broad2  == Pass(BroadEnd)[d + 1]
             s       == CellStatus(d + 1)
  <1>1. /\ strict2 = PassStep(strict, d + 1, StrictEnd)
        /\ broad2 = PassStep(broad, d + 1, BroadEnd)
    <2>1. d + 1 \in 1..CoverageEnd /\ (d + 1) - 1 = d
      BY CalendarAssumption
    <2> QED BY <2>1, PassSteps
  <1>2. /\ IsResult(strict) /\ IsResult(broad)
        /\ EffectiveIs(strict.effective, d) /\ broad.effective = strict.effective
        /\ StartIs(strict.start, d) /\ PastIs(strict.start, strict.past, d)
        /\ strict.start # NoDay => broad.start = strict.start
    BY DEF HeldUntil
  <1>3. Path \subseteq Nat /\ Path \subseteq ReportDays /\ NoDay \notin Path
    BY ReportDaysAreNat, DaysAreNat DEF Path
  <1> HIDE DEF strict, broad, strict2, broad2
  <1> SUFFICES /\ IsResult(strict2) /\ IsResult(broad2)
               /\ EffectiveIs(strict2.effective, d + 1) /\ broad2.effective = strict2.effective
               /\ StartIs(strict2.start, d + 1) /\ PastIs(strict2.start, strict2.past, d + 1)
               /\ strict2.start # NoDay => broad2.start = strict2.start
    BY DEF HeldUntil, strict2, broad2
  <1>4. CASE d + 1 \notin Path \/ s = "not_mentioned"
    <2>1. strict2 = strict /\ broad2 = broad
      BY <1>1, <1>4 DEF PassStep, PassCell
    <2>2. \A x \in Path : x = d + 1 => CellStatus(x) = "not_mentioned"
      BY <1>4
    <2> QED BY <1>2, <2>1, <2>2, SilentDay
  <1>5. CASE d + 1 \in Path /\ s # "not_mentioned" /\ s = "turn_hold"
    <2>1. /\ strict2 = [strict EXCEPT !.start = d + 1, !.effective = s]
          /\ broad2 = [broad EXCEPT !.start = d + 1, !.effective = s]
      BY <1>1, <1>3, <1>5 DEF PassStep, PassCell
    <2>2. /\ IsResult(strict2) /\ IsResult(broad2)
          /\ strict2.start = d + 1 /\ strict2.effective = s /\ strict2.past = strict.past
          /\ broad2.start = d + 1 /\ broad2.effective = s
      <3> DEFINE r(p) == [start |-> d + 1, effective |-> s, past |-> p.past]
      <3>1. strict2 = r(strict) /\ broad2 = r(broad)
        BY <1>2, <2>1 DEF IsResult
      <3> QED BY <3>1 DEF IsResult
    <2>3. EffectiveIs(s, d + 1)
      BY <1>5, SpokenDay
    <2>4. StartIs(d + 1, d + 1)
      BY <1>3, <1>5 DEF StartIs
    <2>5. PastIs(d + 1, strict.past, d + 1)
      BY <1>2, <1>3, <1>5 DEF PastIs
    <2> QED BY <2>2, <2>3, <2>4, <2>5
  <1>6. CASE d + 1 \in Path /\ s # "not_mentioned" /\ s # "turn_hold" /\ strict.start # NoDay /\ s \in StrictEnd
    <2> DEFINE ended == [start |-> strict.start, end |-> d + 1]
    <2>1. /\ strict2 = [start |-> NoDay, effective |-> s, past |-> strict.past \cup {ended}]
          /\ IsResult(broad2) /\ broad2.effective = s
      <3>1. strict2 = [start |-> NoDay, effective |-> s, past |-> strict.past \cup {ended}]
        BY <1>1, <1>3, <1>6 DEF PassStep, PassCell
      <3>2. \/ broad2 = [broad EXCEPT !.effective = s]
            \/ broad2 = [start |-> NoDay, effective |-> s,
                         past |-> broad.past \cup {[start |-> broad.start, end |-> d + 1]}]
        BY <1>1, <1>3, <1>6 DEF PassStep, PassCell
      <3>3. [broad EXCEPT !.effective = s] = [start |-> broad.start, effective |-> s, past |-> broad.past]
        BY <1>2 DEF IsResult
      <3> QED BY <3>1, <3>2, <3>3 DEF IsResult
    <2>2. EffectiveIs(s, d + 1)
      BY <1>6, SpokenDay
    <2>3. StartIs(NoDay, d + 1)
      BY <1>2, <1>3, <1>6 DEF StartIs
    <2>4. PastIs(NoDay, strict.past \cup {ended}, d + 1)
      <3>1. ended.start = strict.start /\ ended.end = d + 1
        OBVIOUS
      <3>2. strict.start \in Nat /\ strict.start < d + 1
        <4>1. strict.start \in Path /\ strict.start <= d
          BY <1>2, <1>6 DEF StartIs
        <4>2. strict.start \in Nat
          BY <1>3, <4>1
        <4> QED BY <4>1, <4>2
      <3>3. /\ \A i \in strict.past : /\ i.start \in Nat /\ i.end \in Nat /\ i.start < i.end
                                      /\ i.end <= d /\ i.end < strict.start
            /\ \A i, j \in strict.past : i = j \/ i.end <= j.start \/ j.end <= i.start
        BY <1>2, <1>6 DEF PastIs
      <3> HIDE DEF ended
      <3>4. \A i \in strict.past \cup {ended} :
               i.start \in Nat /\ i.end \in Nat /\ i.start < i.end /\ i.end <= d + 1
        BY <3>1, <3>2, <3>3
      <3>5. \A i, j \in strict.past \cup {ended} : i = j \/ i.end <= j.start \/ j.end <= i.start
        BY <3>1, <3>2, <3>3
      <3> QED BY <3>4, <3>5 DEF PastIs
    <2>5. IsResult(strict2) /\ strict2.start = NoDay /\ strict2.effective = s
          /\ strict2.past = strict.past \cup {ended}
      BY <2>1 DEF IsResult
    <2> QED BY <2>1, <2>2, <2>3, <2>4, <2>5
  <1>7. CASE d + 1 \in Path /\ s # "not_mentioned" /\ s # "turn_hold" /\ ~(strict.start # NoDay /\ s \in StrictEnd)
    <2>1. strict2 = [strict EXCEPT !.effective = s]
      BY <1>1, <1>3, <1>7 DEF PassStep, PassCell
    <2>2. strict2 = [start |-> strict.start, effective |-> s, past |-> strict.past]
      BY <1>2, <2>1 DEF IsResult
    <2>3. /\ IsResult(strict2) /\ strict2.start = strict.start /\ strict2.effective = s
          /\ strict2.past = strict.past
      BY <2>2 DEF IsResult
    <2>4. \/ broad2 = [broad EXCEPT !.effective = s]
          \/ /\ broad.start # NoDay /\ s \in BroadEnd
             /\ broad2 = [start |-> NoDay, effective |-> s,
                          past |-> broad.past \cup {[start |-> broad.start, end |-> d + 1]}]
      BY <1>1, <1>3, <1>7 DEF PassStep, PassCell
    <2>5. [broad EXCEPT !.effective = s] = [start |-> broad.start, effective |-> s, past |-> broad.past]
      BY <1>2 DEF IsResult
    <2>6. IsResult(broad2) /\ broad2.effective = s
      BY <2>4, <2>5 DEF IsResult
    <2>7. strict.start # NoDay => broad2.start = strict.start
      <3> SUFFICES ASSUME strict.start # NoDay PROVE broad2.start = strict.start
        OBVIOUS
      <3>1. s \notin StrictEnd
        BY <1>7
      <3>2. s \notin BroadEnd
        BY <3>1 DEF BroadEnd, StrictEnd
      <3>3. broad2 = [start |-> broad.start, effective |-> s, past |-> broad.past]
        BY <2>4, <2>5, <3>2
      <3> QED BY <1>2, <3>3
    <2>8. EffectiveIs(s, d + 1)
      BY <1>7, SpokenDay
    <2>9. StartIs(strict.start, d + 1)
      <3>1. \A x \in Path : x <= d + 1 => x <= d \/ x = d + 1
        BY <1>3
      <3>2. \A x \in Nat : x <= d => x <= d + 1
        OBVIOUS
      <3>3. CASE strict.start = NoDay
        BY <1>2, <1>3, <1>7, <3>1, <3>2, <3>3 DEF StartIs
      <3>4. CASE strict.start # NoDay
        <4>1. strict.start \in Path /\ strict.start <= d /\ CellStatus(strict.start) = "turn_hold"
              /\ \A x \in Path : strict.start < x /\ x <= d
                                 => CellStatus(x) \notin StrictEnd \cup {"turn_hold"}
          BY <1>2, <3>4 DEF StartIs
        <4>2. s \notin StrictEnd \cup {"turn_hold"}
          BY <1>7, <3>4
        <4>3. \A x \in Path : strict.start < x /\ x <= d + 1
                              => CellStatus(x) \notin StrictEnd \cup {"turn_hold"}
          BY <3>1, <4>1, <4>2
        <4>4. strict.start <= d + 1
          BY <1>3, <3>2, <4>1
        <4> QED BY <3>4, <4>1, <4>3, <4>4 DEF StartIs
      <3> QED BY <3>3, <3>4
    <2>10. PastIs(strict.start, strict.past, d + 1)
      BY <1>2 DEF PastIs
    <2> QED BY <2>3, <2>6, <2>7, <2>8, <2>9, <2>10
  <1> QED BY <1>4, <1>5, <1>6, <1>7

\* Both passes, through the last day.
LEMMA HeldThroughout == HeldUntil(CoverageEnd)
  <1> DEFINE bad == {d \in 0..CoverageEnd : ~HeldUntil(d)}
  <1>1. CoverageEnd \in Nat
    BY CalendarAssumption
  <1> SUFFICES ASSUME bad # {} PROVE FALSE
    BY <1>1
  <1>2. bad \in SUBSET Nat
    OBVIOUS
  <1>3. PICK d \in bad : \A e \in bad : d <= e
    BY <1>2, LeastOf
  <1>4. CASE d = 0
    <2>1. Pass(StrictEnd)[0] = First /\ Pass(BroadEnd)[0] = First
      BY PassSteps
    <2>2. \A x \in Path : ~(x <= 0)
      BY ReportDaysAreNat, DaysAreNat DEF Path
    <2>3. IsResult(First) /\ First.start = NoDay /\ First.effective = "not_mentioned" /\ First.past = {}
      BY DEF First, IsResult
    <2>4. EffectiveIs("not_mentioned", 0) /\ StartIs(NoDay, 0) /\ PastIs(NoDay, {}, 0)
      BY <2>2 DEF EffectiveIs, StartIs, PastIs
    <2>5. HeldUntil(0)
      BY <2>1, <2>3, <2>4 DEF HeldUntil
    <2> QED BY <1>3, <1>4, <2>5
  <1>5. CASE d # 0
    <2>1. d - 1 \in 0..CoverageEnd /\ d - 1 \in Nat /\ (d - 1) + 1 = d /\ d <= CoverageEnd
          /\ ~(d <= d - 1)
      BY <1>1, <1>3, <1>5
    <2>2. HeldUntil(d - 1)
      BY <1>3, <2>1
    <2>3. HeldUntil(d)
      <3> DEFINE e == d - 1
      <3>1. e \in Nat /\ e + 1 <= CoverageEnd /\ HeldUntil(e) /\ e + 1 = d
        BY <2>1, <2>2
      <3> HIDE DEF e
      <3> QED BY <3>1, HeldStep
    <2> QED BY <1>3, <2>3
  <1> QED BY <1>4, <1>5

\* The newest mark of the open holding is the start that the strict pass has.
LEMMA HoldingHolds == HoldingAgrees
  <1> DEFINE strict == Pass(StrictEnd)[CoverageEnd]
             broad  == Pass(BroadEnd)[CoverageEnd]
             marks  == {d \in Path : CellStatus(d) \in {"turn_hold"} \cup StrictEnd}
             mark   == Latest(marks)
  <1>1. /\ EffectiveIs(strict.effective, CoverageEnd) /\ broad.effective = strict.effective
        /\ StartIs(strict.start, CoverageEnd) /\ PastIs(strict.start, strict.past, CoverageEnd)
        /\ strict.start # NoDay => broad.start = strict.start
    BY HeldThroughout DEF HeldUntil
  <1>2. /\ Path \in SUBSET ReportDays /\ \A x \in Path : x \in Nat /\ x <= CoverageEnd /\ x # NoDay
    BY SomeDays, ReportDaysAreNat, DaysAreNat, CalendarAssumption DEF Coverage
  <1>3. /\ Strict.open = IF strict.effective \in StrictHeld THEN strict.start ELSE NoDay
        /\ Broad.open = IF broad.effective \in BroadHeld THEN broad.start ELSE NoDay
        /\ Strict.past = strict.past
    BY DEF Strict, Broad, Intervals
  <1> HIDE DEF strict, broad
  <1>4. strict.effective \in StrictHeld <=> PathCarried \in StrictHeld
    <2> DEFINE status == [d \in Path |-> CellStatus(d)]
               said   == {e \in Path : CellStatus(e) # "not_mentioned"}
    <2>1. {e \in DOMAIN status : status[e] # "not_mentioned"} = said
      OBVIOUS
    <2>2. PathCarried = IF Latest(said) = NoDay THEN "none" ELSE status[Latest(said)]
      BY <2>1 DEF PathCarried, Carried
    <2>3. said \in SUBSET ReportDays
      BY <1>2
    <2> HIDE DEF status
    <2>4. CASE said = {}
      <3>1. PathCarried = "none"
        BY <2>2, <2>3, <2>4, LatestDay
      <3>2. strict.effective = "not_mentioned"
        BY <1>1, <2>4 DEF EffectiveIs
      <3> QED BY <3>1, <3>2 DEF StrictHeld
    <2>5. CASE said # {}
      <3>1. Latest(said) \in said /\ Latest(said) # NoDay /\ \A e \in said : e <= Latest(said)
        BY <1>2, <2>3, <2>5, LatestDay
      <3>2. PathCarried = CellStatus(Latest(said))
        BY <2>2, <3>1 DEF status
      <3> DEFINE l == Latest(said)
      <3> HIDE DEF l
      <3>3. l \in Path /\ l \in Nat /\ l <= CoverageEnd /\ CellStatus(l) # "not_mentioned"
            /\ \A e \in Path : CellStatus(e) # "not_mentioned" => e <= l
        BY <1>2, <3>1 DEF l
      <3>4. strict.effective = CellStatus(l)
        BY <1>1, <1>2, <3>3 DEF EffectiveIs
      <3> QED BY <3>2, <3>4 DEF l
    <2> QED BY <2>4, <2>5
  <1>5. marks \in SUBSET ReportDays
    BY <1>2
  <1>6. CASE strict.start = NoDay
    <2>1. mark = NoDay \/ CellStatus(mark) # "turn_hold"
      <3> SUFFICES ASSUME mark # NoDay, CellStatus(mark) = "turn_hold" PROVE FALSE
        OBVIOUS
      <3>1. mark \in marks /\ \A e \in marks : e <= mark
        BY <1>5, LatestDay
      <3> HIDE DEF mark
      <3>2. PICK y \in Path : mark < y /\ y <= CoverageEnd /\ CellStatus(y) \in StrictEnd
        BY <1>1, <1>2, <1>6, <3>1 DEF StartIs
      <3>3. y <= mark
        BY <3>1, <3>2
      <3> QED BY <1>2, <3>1, <3>2, <3>3
    <2>2. OpenHolding.start = NoDay
      BY <2>1 DEF OpenHolding
    <2> QED BY <1>1, <1>3, <1>6, <2>2 DEF HoldingAgrees, PastIs
  <1>7. CASE strict.start # NoDay
    <2>1. /\ strict.start \in marks
          /\ \A x \in marks : x <= strict.start
      BY <1>1, <1>2, <1>7 DEF StartIs
    <2>2. mark \in marks /\ mark <= strict.start /\ strict.start <= mark
      BY <1>5, <2>1, LatestDay
    <2>3. mark = strict.start /\ CellStatus(mark) = "turn_hold" /\ mark # NoDay
      BY <1>1, <1>2, <1>7, <2>1, <2>2 DEF StartIs
    <2>4. OpenHolding.start = IF PathCarried \in StrictHeld THEN mark ELSE NoDay
      BY <2>3 DEF OpenHolding
    <2>5. Strict.open = OpenHolding.start
      BY <1>3, <1>4, <2>3, <2>4
    <2>6. Strict.open # NoDay => Broad.open = Strict.open
      BY <1>1, <1>3 DEF StrictHeld, BroadHeld
    <2>7. \A i \in Strict.past : Strict.open # NoDay => i.end < Strict.open
      BY <1>1, <1>3 DEF PastIs
    <2> QED BY <1>1, <1>3, <2>5, <2>6, <2>7 DEF HoldingAgrees, PastIs
  <1> QED BY <1>6, <1>7
----------------------------------------------------------------------------
(* The Board and the research page                                          *)

\* What the Board calls mentioned, the research page does.
LEMMA MentionedAgrees == Mentioned => ResearchMentioned
  <1> SUFFICES ASSUME Mentioned PROVE ResearchMentioned
    OBVIOUS
  <1> DEFINE told == {d \in Reports : /\ Active(d) /\ Told(assessment[d])
                                      /\ entry[d] # NoRow => Told(entry[d])}
  <1>1. LatestReport = Latest(told) /\ LatestReport # NoDay
    BY DEF Mentioned, LatestExplicit
  <1>2. told \in SUBSET ReportDays
    BY SomeDays
  <1> HIDE DEF told
  <1>3. LatestReport \in told
    BY <1>1, <1>2, LatestDay
  <1> QED BY <1>1, <1>3 DEF told, ResearchMentioned, Fact

\* Where every view is in force, the one a page shows is not older than the last
\* explicit one.
LEMMA ViewIsInForce ==
    ASSUME NEW t, InForce(t) = Spoken
    PROVE  LatestExplicit <= Strategy(t).source
  <1> DEFINE told == {d \in Reports : /\ Active(d) /\ Told(assessment[d])
                                      /\ entry[d] # NoRow => Told(entry[d])}
  <1>1. LatestExplicit = Latest(told) /\ Strategy(t).source = Latest(Spoken)
    BY DEF LatestExplicit, Strategy
  <1>2. told \subseteq Spoken
    BY DEF Spoken, Fact
  <1>3. told \in SUBSET ReportDays /\ Spoken \in SUBSET ReportDays
    BY SomeDays
  <1> HIDE DEF told
  <1>4. CASE told = {}
    BY <1>1, <1>3, <1>4, LatestDay, DaysAreNat
  <1>5. CASE told # {}
    <2>1. Latest(told) \in told
      BY <1>3, <1>5, LatestDay
    <2>2. Latest(told) <= Latest(Spoken)
      BY <1>2, <1>3, <2>1, LatestDay
    <2> QED BY <1>1, <2>2
  <1> QED BY <1>4, <1>5

\* With a ledger of the reports' own words, both pages carry the last of them.
LEMMA EffectiveAgrees ==
    ASSUME TimelineTyped, OwnLedger, Reports # {}, NEW t, InForce(t) = Spoken
    PROVE  \/ BoardEffective(t) = ResearchEffective
           \/ BoardEffective(t) = "hold" /\ ResearchEffective = "turn_hold"
  <1> DEFINE status == [d \in Path |-> CellStatus(d)]
             last   == Latest(Spoken)
  <1>1. {e \in DOMAIN status : status[e] # "not_mentioned"} = Spoken
    BY SomeDays DEF OwnLedger, Spoken
  <1>2. ResearchEffective = IF last = NoDay THEN "none" ELSE status[last]
    BY <1>1 DEF ResearchEffective, PathCarried, Carried
  <1>3. Strategy(t).source = last
        /\ Strategy(t).status = LET s == IF last = NoDay THEN "none" ELSE Fact(last).status
                                IN  IF s = "turn_hold" THEN "hold" ELSE s
    BY DEF Strategy
  <1>4. Spoken \in SUBSET ReportDays
    BY SomeDays
  <1>5. CASE last # NoDay
    <2>1. last \in Spoken
      BY <1>4, <1>5, LatestDay
    <2>2. last \in Path /\ CellStatus(last) = Fact(last).status
      BY <2>1 DEF OwnLedger, Spoken
    <2>3. BoardEffective(t) = Strategy(t).status
      BY <1>3, <1>5 DEF BoardEffective
    <2> QED BY <1>2, <1>3, <1>5, <2>2, <2>3
  <1>6. CASE last = NoDay
    <2>1. BoardEffective(t) = Carried([d \in BoardDays |-> BoardStatus(d)])
      BY <1>3, <1>6 DEF BoardEffective
    <2>2. LatestReport \in Reports
      BY SomeDays, LatestDay DEF LatestReport
    <2>3. LatestReport \in Path
      BY <2>2 DEF OwnLedger
    <2>4. LatestReport \in Nat /\ ~(LatestReport < LatestReport)
      BY SomeDays
    <2>5. BoardDays = Path
      BY <2>3, <2>4 DEF BoardDays, Appends
    <2>6. [d \in BoardDays |-> BoardStatus(d)] = status
      BY <2>5 DEF BoardStatus
    <2> QED BY <2>1, <2>6 DEF ResearchEffective, PathCarried
  <1> QED BY <1>5, <1>6

\* The board and the research page agree.
LEMMA BoardIsResearch == TimelineTyped /\ Reports # {} => BoardAgrees
  <1> SUFFICES ASSUME TimelineTyped, Reports # {} PROVE BoardAgrees
    OBVIOUS
  <1>1. \A t \in TradingDates : LowAttention(t) => ResearchLowAttention(t)
    BY DEF LowAttention, ResearchLowAttention
  <1> QED BY <1>1, MentionedAgrees, ViewIsInForce, EffectiveAgrees DEF BoardAgrees

----------------------------------------------------------------------------
(* The history matrix                                                       *)

\* A day is paired with the trading day that no other one lies after, up to it.
LEMMA MarketDateIs ==
    ASSUME NEW d \in Coverage, NEW t \in TradingDates
    PROVE  ReportMarketDate(d) = t <=> t <= d /\ \A x \in TradingDates : ~(t < x /\ x <= d)
  <1> DEFINE before == {x \in TradingDates : x < d}
  <1>1. Evaluate(d) # "out_of_range" /\ (Evaluate(d) = "trading_day" <=> d \in TradingDates)
    BY DEF Evaluate, TradingDates
  <1>2. d \in Nat /\ TradingDates \subseteq Nat /\ t # NoDay
    BY DaysAreNat
  <1>3. CASE d \in TradingDates
    <2>1. ReportMarketDate(d) = d
      BY <1>1, <1>3 DEF ReportMarketDate
    <2> QED BY <1>2, <1>3, <2>1
  <1>4. CASE d \notin TradingDates
    <2>1. ReportMarketDate(d) = Latest(before)
      BY <1>1, <1>4 DEF ReportMarketDate
    <2>2. before \in SUBSET Coverage
      BY DaysAreNat
    <2>3. CASE before = {}
      <3>1. ReportMarketDate(d) = NoDay
        BY <2>1, <2>3 DEF Latest
      <3>2. ~(t < d)
        BY <2>3
      <3> QED BY <1>2, <1>4, <3>1, <3>2
    <2>4. CASE before # {}
      <3>1. Latest(before) \in before /\ \A x \in before : x <= Latest(before)
        BY <2>2, <2>4, LatestIn
      <3> HIDE DEF before
      <3>2. Latest(before) \in TradingDates /\ Latest(before) < d
        BY <3>1 DEF before
      <3>3. \A x \in TradingDates : x < d => x <= Latest(before)
        BY <3>1 DEF before
      <3> DEFINE l == Latest(before)
      <3>4. ReportMarketDate(d) = l /\ l \in Nat /\ l < d /\ l \in TradingDates
            /\ \A x \in TradingDates : x < d => x <= l
        BY <1>2, <2>1, <3>2, <3>3
      <3> HIDE DEF l
      <3>5. t \in Nat /\ d \in Nat /\ \A x \in TradingDates : x \in Nat /\ (x <= d => x < d)
        BY <1>2, <1>4
      <3>6. ASSUME l = t PROVE t <= d /\ \A x \in TradingDates : ~(t < x /\ x <= d)
        BY <3>4, <3>5, <3>6
      <3>7. ASSUME t <= d, \A x \in TradingDates : ~(t < x /\ x <= d) PROVE l = t
        BY <3>4, <3>5, <3>7
      <3> QED BY <3>4, <3>6, <3>7
    <2> QED BY <2>3, <2>4
  <1> QED BY <1>3, <1>4

\* The next trading day: the first one after a day.
LEMMA NextDayIs ==
    ASSUME NEW d \in Coverage
    PROVE  /\ NextTradingDay(d) # NoDay =>
                 /\ NextTradingDay(d) \in TradingDates /\ d < NextTradingDay(d)
                 /\ \A x \in TradingDates : d < x => NextTradingDay(d) <= x
           /\ NextTradingDay(d) = NoDay => \A x \in TradingDates : ~(d < x)
  <1> DEFINE later == {x \in TradingDates : x > d}
  <1>1. later \in SUBSET Coverage /\ d \in Nat /\ TradingDates \subseteq Nat /\ NoDay \notin TradingDates
    BY DaysAreNat
  <1>2. NextTradingDay(d) = Earliest(later)
    BY DEF NextTradingDay
  <1>3. CASE later = {}
    BY <1>1, <1>2, <1>3 DEF Earliest
  <1>4. CASE later # {}
    <2>1. Earliest(later) \in later /\ \A x \in later : Earliest(later) <= x
      BY <1>1, <1>4, EarliestIn
    <2> QED BY <1>1, <1>2, <2>1
  <1> QED BY <1>3, <1>4

\* The last word on a trading day is in force on the next one.
LEMMA LastWordRules ==
    ASSUME TimelineTyped, NEW t \in TradingDates, NextTradingDay(t) # NoDay,
           NEW last \in Reports, Active(last), ReportMarketDate(last) = t, Told(Fact(last)),
           \A d \in Reports : Active(d) /\ ReportMarketDate(d) = t => d <= last
    PROVE  Strategy(NextTradingDay(t)).source = last
  <1> DEFINE next == NextTradingDay(t)
  <1>1. /\ \A d \in Reports : d \in Coverage /\ d \in Nat
        /\ \A d \in TradingDates : d \in Coverage /\ d \in Nat
        /\ last \in ReportDays
    BY SomeDays, ReportDaysAreNat, DaysAreNat
  <1>2. next \in TradingDates /\ t < next /\ \A x \in TradingDates : t < x => next <= x
    <2>1. t \in Coverage
      BY <1>1
    <2> QED BY <2>1, NextDayIs
  <1>3. t <= last /\ \A x \in TradingDates : ~(t < x /\ x <= last)
    <2>1. last \in Coverage
      BY <1>1
    <2> QED BY <2>1, MarketDateIs
  <1> HIDE DEF next
  <1>4. last < next /\ last \in Nat /\ next \in Nat /\ t \in Nat
    <2>1. last \in Nat /\ next \in Nat /\ t \in Nat
      BY <1>1, <1>2
    <2>2. ~(t < next /\ next <= last)
      BY <1>2, <1>3
    <2> QED BY <1>2, <2>1, <2>2
  <1>5. ASSUME NEW d \in Reports
        PROVE  /\ EffectiveFrom(d) # NoDay => /\ EffectiveFrom(d) \in TradingDates
                                              /\ EffectiveFrom(d) \in Nat /\ d < EffectiveFrom(d)
                                              /\ \A x \in TradingDates : d < x => EffectiveFrom(d) <= x
               /\ EffectiveFrom(d) = NoDay => \A x \in TradingDates : ~(d < x)
    <2>1. d \in Coverage
      BY <1>1
    <2> QED BY <1>1, <2>1, NextDayIs DEF EffectiveFrom
  <1>6. last \in InForce(next)
    <2>1. EffectiveFrom(last) # NoDay
      BY <1>2, <1>4, <1>5
    <2>2. EffectiveFrom(last) <= next
      BY <1>2, <1>4, <1>5, <2>1
    <2>3. last \in Spoken
      BY DEF Spoken
    <2> QED BY <2>1, <2>2, <2>3 DEF InForce
  <1>7. ASSUME NEW e \in InForce(next) PROVE e <= last
    <2>1. e \in Reports /\ Active(e) /\ EffectiveFrom(e) # NoDay /\ EffectiveFrom(e) <= next
      BY DEF InForce, Spoken
    <2>2. e < EffectiveFrom(e) /\ EffectiveFrom(e) \in Nat /\ e \in Nat /\ e \in Coverage
      BY <1>1, <1>5, <2>1
    <2>3. e < next
      BY <1>4, <2>1, <2>2
    <2> SUFFICES ASSUME last < e PROVE FALSE
      BY <1>4, <2>2
    <2>4. t <= e
      BY <1>3, <1>4, <2>2
    <2>5. ASSUME NEW x \in TradingDates PROVE ~(t < x /\ x <= e)
      <3>1. x \in Nat /\ (t < x => next <= x)
        BY <1>1, <1>2
      <3> QED BY <1>4, <2>2, <2>3, <3>1
    <2>6. ReportMarketDate(e) = t
      BY <2>2, <2>4, <2>5, MarketDateIs
    <2>7. e <= last
      BY <2>1, <2>6
    <2> QED BY <1>4, <2>2, <2>7
  <1>8. Latest(InForce(next)) = last
    <2>1. InForce(next) \in SUBSET ReportDays
      BY SomeDays
    <2>2. /\ Latest(InForce(next)) \in InForce(next) /\ last <= Latest(InForce(next))
          /\ Latest(InForce(next)) \in Nat
      BY <1>6, <2>1, LatestDay
    <2>3. Latest(InForce(next)) <= last
      BY <1>7, <2>2
    <2> QED BY <1>4, <2>2, <2>3
  <1> QED BY <1>8 DEF Strategy, next

\* What the matrix shows on a trading day is the last word on it, when that was
\* also the last to be published.
LEMMA LastWordShown ==
    ASSUME TimelineTyped, NEW t \in TradingDates,
           NEW last \in Reports, Active(last), ReportMarketDate(last) = t, Told(Fact(last)),
           \A d \in Reports : Active(d) /\ ReportMarketDate(d) = t =>
              d <= last /\ published[d] <= published[last]
    PROVE  MatrixEntry(t).date = last /\ MatrixEntry(t).status = Fact(last).status
  <1> DEFINE word == [overlay |-> TRUE, by |-> last, date |-> last, status |-> Fact(last).status]
  <1>1. Reports \subseteq ReportDays /\ ReportDays \subseteq Nat /\ published \in [ReportDays -> Nat]
    BY SomeDays, ReportDaysAreNat DEF TimelineTyped, TimelineTypeOK
  <1>2. last \in Overlays
    BY DEF Overlays, Told, Fact
  <1>3. word \in Shown(t)
    BY <1>2 DEF Shown
  <1>4. ASSUME NEW y \in Shown(t)
        PROVE  /\ y.overlay \in BOOLEAN
               /\ y.overlay => \E d \in Reports :
                     /\ Active(d) /\ ReportMarketDate(d) = t
                     /\ y = [overlay |-> TRUE, by |-> d, date |-> d, status |-> Fact(d).status]
    <2> DEFINE theirs == {e \in Overlays : ReportMarketDate(e) = t}
               cells  == {e \in Path : ReportMarketDate(e) = t}
    <2>1. \/ \E d \in theirs :
               y = [overlay |-> TRUE, by |-> d, date |-> d, status |-> Fact(d).status]
          \/ \E d \in cells :
               y = [overlay |-> FALSE, by |-> cell[d].source, date |-> d, status |-> CellStatus(d)]
      BY DEF Shown
    <2>2. \A d \in theirs : d \in Reports /\ Active(d) /\ ReportMarketDate(d) = t
      BY DEF Overlays
    <2> HIDE DEF theirs, cells
    <2>3. CASE \E d \in theirs :
                 y = [overlay |-> TRUE, by |-> d, date |-> d, status |-> Fact(d).status]
      <3>1. PICK d \in theirs :
               y = [overlay |-> TRUE, by |-> d, date |-> d, status |-> Fact(d).status]
        BY <2>3
      <3>2. d \in Reports /\ Active(d) /\ ReportMarketDate(d) = t
        BY <2>2
      <3>3. y.overlay \in BOOLEAN
        BY <3>1
      <3> QED BY <3>1, <3>2, <3>3
    <2>4. CASE \E d \in cells :
                 y = [overlay |-> FALSE, by |-> cell[d].source, date |-> d, status |-> CellStatus(d)]
      BY <2>4
    <2> QED BY <2>1, <2>3, <2>4
  <1>5. \A y \in Shown(t) : Precedes(y, word)
    <2> SUFFICES ASSUME NEW y \in Shown(t) PROVE Precedes(y, word)
      OBVIOUS
    <2>1. CASE ~y.overlay
      BY <2>1 DEF Precedes
    <2>2. CASE y.overlay
      <3>1. PICK d \in Reports :
               /\ Active(d) /\ ReportMarketDate(d) = t
               /\ y = [overlay |-> TRUE, by |-> d, date |-> d, status |-> Fact(d).status]
        BY <1>4, <2>2
      <3>2. /\ d <= last /\ published[d] <= published[last]
            /\ published[d] \in Nat /\ published[last] \in Nat
        BY <1>1, <3>1
      <3>3. /\ y.overlay = word.overlay /\ y.by = d /\ y.date = d
            /\ word.by = last /\ word.date = last
        BY <3>1
      <3>4. \/ published[y.by] < published[word.by]
            \/ published[y.by] = published[word.by] /\ y.date <= word.date
        BY <3>2, <3>3
      <3> QED BY <3>3, <3>4 DEF Precedes
    <2> QED BY <2>1, <2>2
  <1> DEFINE first == MatrixEntry(t)
  <1>6. first \in Shown(t) /\ \A y \in Shown(t) : Precedes(y, first)
    BY <1>3, <1>5 DEF MatrixEntry
  <1> HIDE DEF first
  <1>7. first.overlay
    BY <1>3, <1>4, <1>6 DEF Precedes
  <1>8. PICK d \in Reports :
           /\ Active(d) /\ ReportMarketDate(d) = t
           /\ first = [overlay |-> TRUE, by |-> d, date |-> d, status |-> Fact(d).status]
    BY <1>4, <1>6, <1>7
  <1>9. d <= last /\ published[d] <= published[last] /\ published[d] \in Nat /\ published[last] \in Nat
        /\ d \in Nat /\ last \in Nat
    BY <1>1, <1>8
  <1>10. word.overlay = first.overlay /\ first.by = d /\ first.date = d /\ word.by = last
         /\ word.date = last
    BY <1>8
  <1>11. last <= d
    BY <1>3, <1>6, <1>9, <1>10 DEF Precedes
  <1>12. d = last
    BY <1>9, <1>11
  <1> QED BY <1>8, <1>12 DEF first

\* The history matrix and the strategy have the last word of a market day.
LEMMA MatrixIsLastWord == TimelineTyped => MatrixAgrees
  <1> SUFFICES ASSUME TimelineTyped, NEW t \in TradingDates
               PROVE  LET days == {d \in Reports : Active(d) /\ ReportMarketDate(d) = t}
                          last == Latest(days)
                          next == NextTradingDay(t)
                      IN days # {} /\ Told(Fact(last)) /\ (\A d \in days : published[d] <= published[last])
                           => /\ MatrixEntry(t).date = last /\ MatrixEntry(t).status = Fact(last).status
                              /\ next # NoDay => Strategy(next).source = last
    BY DEF MatrixAgrees
  <1> DEFINE days == {d \in Reports : Active(d) /\ ReportMarketDate(d) = t}
             last == Latest(days)
  <1> SUFFICES ASSUME days # {}, Told(Fact(last)), \A d \in days : published[d] <= published[last]
               PROVE  /\ MatrixEntry(t).date = last /\ MatrixEntry(t).status = Fact(last).status
                      /\ NextTradingDay(t) # NoDay => Strategy(NextTradingDay(t)).source = last
    OBVIOUS
  <1>1. days \in SUBSET ReportDays
    BY SomeDays
  <1>2. last \in days /\ \A d \in days : d <= last
    BY <1>1, LatestDay
  <1> HIDE DEF last
  <1>3. last \in Reports /\ Active(last) /\ ReportMarketDate(last) = t
    BY <1>2
  <1>4. \A d \in Reports : Active(d) /\ ReportMarketDate(d) = t =>
           d <= last /\ published[d] <= published[last]
    BY <1>2
  <1> QED BY <1>3, <1>4, LastWordRules, LastWordShown

\* PagesAgree: in every state that publications and edits lead to, the two ways
\* to read the open holding agree, the Board says nothing that the research page
\* denies, and the matrix and the next session show the last word on a day.
THEOREM PagesAlwaysAgree == TimelineSpec => []PagesAgree
  <1>1. TimelineTyped => PagesAgree
    BY HoldingHolds, BoardIsResearch, MatrixIsLastWord DEF PagesAgree
  <1> QED BY <1>1, TimelineAlwaysTyped, PTL

----------------------------------------------------------------------------
(* The two lanes together                                                   *)

\* Neither lane moves the other: a behaviour of both is one of each, and what is
\* proved of each holds of both.
THEOREM LanesAreApart == MarketDaysSpec => DailySpec /\ TimelineSpec
  <1>1. [ClosesMove \/ ReportsMove]_<<now, dailyVars, timelineVars>>
          => [DailyNext]_<<now, dailyVars>> /\ [TimelineNext]_timelineVars
    BY DEF ClosesMove, ReportsMove
  <1>2. MarketDaysInit => DailyInit /\ TimelineInit
    BY DEF MarketDaysInit
  <1> QED BY <1>1, <1>2, PTL DEF MarketDaysSpec, DailySpec, TimelineSpec
=============================================================================
