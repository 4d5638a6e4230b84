----------------------------- MODULE DailyAdvance -----------------------------
(***************************************************************************)
(* The completed daily closes of the Market Core: the post-close advance    *)
(* and the reconciliation that host timers start (daily_market_advance.py), *)
(* the capture of today's closes from the quote provider                    *)
(* (live_market_anchor_daily.py, security_proxy_daily.py), the repair of    *)
(* one exact day from the history provider, and the operator's backfills    *)
(* (historical_market_daily.py).                                            *)
(*                                                                         *)
(* A job is a process of its own with one database session.  It commits a   *)
(* run row, asks the providers between its transactions, and may die or     *)
(* overlap with the other job between any two steps.  Rows added to a       *)
(* session are seen by that session alone and take SQLite's write lock from *)
(* their flush to the commit.  A statement that fails leaves the session    *)
(* waiting for a rollback nobody calls, so the job's next query raises and  *)
(* the process ends with its run row still "running".                       *)
(***************************************************************************)
EXTENDS MarketClock, FiniteSetsExt

CONSTANTS Anchor,          \* the Shanghai Composite
          Proxies,         \* the fixed securities
          BatchSize,       \* max_batch_size of the quote provider
          Closes,          \* closing prices
          NoClose,
          Jobs, NoJob,     \* processes that may run at once
          MinimumBars,     \* completed bars a backfill asks for
          Missed,          \* modes with a slot missed while the host was down
          WritesMayFail,   \* a commit may raise (database is locked)
          MaxBackfills     \* bound on an operator's backfills

Symbols == Proxies \cup {Anchor}
Rows    == Closes \cup {NoClose}

ASSUME AdvanceAssumption ==
    /\ Anchor \notin Proxies /\ IsFiniteSet(Proxies)
    /\ NoClose \notin Closes /\ NoJob \notin Jobs
    /\ BatchSize \in Nat \ {0} /\ MinimumBars \in Nat \ {0}
    /\ Missed \subseteq {"advance", "reconcile"}
    /\ WritesMayFail \in BOOLEAN /\ MaxBackfills \in Nat

VARIABLES daily,     \* the committed closes of a symbol and a day
          job,       \* what a process holds
          due,       \* modes whose timer has elapsed
          writer,    \* the job that holds SQLite's write lock, or NoJob
          success,   \* days some finished run row calls a success
          backfills  \* counts the operator's

dailyVars == <<daily, job, due, writer, success, backfills>>

Modes == {"advance", "reconcile"}

Nothing == [s \in Symbols |-> NoClose]
Idle == [at |-> "idle", mode |-> "reconcile", expected |-> NoDay,
         todo |-> {}, rows |-> Nothing, conflict |-> FALSE]

Job == [at: {"idle", "anchor", "anchorCommit", "proxies", "batches", "coverage",
             "repair"},
        mode: Modes, expected: TradingDates \cup {NoDay},
        todo: SUBSET Symbols, rows: [Symbols -> Rows], conflict: BOOLEAN]

DailyTypeOK ==
    /\ daily \in [Symbols -> [TradingDates -> Rows]]
    /\ job \in [Jobs -> Job]
    /\ due \subseteq Modes /\ writer \in Jobs \cup {NoJob}
    /\ success \subseteq TradingDates /\ backfills \in 0..MaxBackfills

DailyInit ==
    /\ ClockInit
    /\ daily = [s \in Symbols |-> [d \in TradingDates |-> NoClose]]
    /\ job = [p \in Jobs |-> Idle]
    /\ due = Missed /\ writer = NoJob /\ success = {} /\ backfills = 0

----------------------------------------------------------------------------
(* The host's timers                                                        *)

Slots == {<<"advance", At(15, 20)>>, <<"reconcile", At(9, 10)>>, <<"reconcile", At(15, 40)>>}

\* OnCalendar=Mon..Fri, Persistent: a slot passed while the host is down is
\* caught up later.
Elapsed(t, u) ==
    {slot[1] : slot \in {x \in Slots : \E day \in (t.day..u.day) \ Weekends :
                           LET at == [day |-> day, minute |-> x[2]]
                           IN  Before(t, at) /\ ~Before(u, at)}}

DailyTick ==
    /\ Tick /\ due' = due \cup Elapsed(now, now')
    /\ UNCHANGED <<daily, job, writer, success, backfills>>

----------------------------------------------------------------------------
(* Transactions                                                             *)

Has(s, d) == daily[s][d] # NoClose

\* What a session sees: the committed rows and its own.
Sees(p, s) == Has(s, job[p].expected) \/ job[p].rows[s] # NoClose

MayWrite(p) == writer \in {NoJob, p}

\* The unique constraint on symbol and day.
Unique(p, rows) == \A s \in Symbols : rows[s] # NoClose => ~Has(s, job[p].expected)

\* INSERT of the session's rows, and COMMIT.
Insert(p, rows) ==
    daily' = [s \in Symbols |->
        [d \in TradingDates |->
            IF d = job[p].expected /\ rows[s] # NoClose THEN rows[s] ELSE daily[s][d]]]

Goes(p, next) == job' = [job EXCEPT ![p].at = next]

\* A statement has failed, or the process is killed: what it had not committed
\* is lost.
Ends(p) ==
    /\ job' = [job EXCEPT ![p] = Idle]
    /\ writer' = IF writer = p THEN NoJob ELSE writer
    /\ UNCHANGED <<now, daily, due, success, backfills>>

\* The database stays locked, or the other job has inserted a row meanwhile.
WriteFails(p) ==
    /\ \/ job[p].at = "repair" /\ WritesMayFail
       \/ /\ \/ job[p].at \in {"anchorCommit", "coverage"}
             \/ job[p].at = "batches" /\ job[p].todo = {}
          /\ job[p].rows # Nothing
          /\ WritesMayFail \/ ~Unique(p, job[p].rows)
    /\ Ends(p)

Kill(p) == job[p].at # "idle" /\ Ends(p)

----------------------------------------------------------------------------
(* advance_market_core                                                      *)

\* The run row is committed, and the capture runs on the completed day itself.
Start(p, mode) ==
    LET expected == ExpectedLatestCompletedTradingDay(now)
    IN  /\ mode \in due /\ job[p].at = "idle" /\ expected # NoDay /\ MayWrite(p)
        /\ due' = due \ {mode}
        /\ job' = [job EXCEPT ![p] = [Idle EXCEPT
              !.at = IF mode = "advance" /\ expected = now.day THEN "anchor" ELSE "coverage",
              !.mode = mode, !.expected = expected]]
        /\ UNCHANGED <<now, daily, writer, success, backfills>>

\* capture_live_market_anchor_daily: nothing when stored; else the quote.
CaptureAnchor(p) ==
    /\ job[p].at = "anchor"
    /\ \/ Goes(p, "proxies")                       \* stored, or no usable quote
       \/ ~Sees(p, Anchor) /\ Goes(p, "coverage")  \* the request raises
       \/ /\ ~Sees(p, Anchor)
          /\ \E c \in Closes :
               job' = [job EXCEPT ![p].at = "anchorCommit", ![p].rows[Anchor] = c]
    /\ UNCHANGED <<now, daily, due, writer, success, backfills>>

Commits(p, next) ==
    /\ MayWrite(p) /\ Unique(p, job[p].rows)
    /\ Insert(p, job[p].rows)
    /\ job' = [job EXCEPT ![p].at = next, ![p].rows = Nothing]
    /\ UNCHANGED <<now, due, writer, success, backfills>>

CommitAnchor(p) == job[p].at = "anchorCommit" /\ Commits(p, "proxies")

\* capture_fixed_security_proxy_daily: the symbols without a row, in batches,
\* and one commit at the end.
CaptureProxies(p) ==
    /\ job[p].at = "proxies"
    /\ job' = [job EXCEPT ![p].at = "batches",
                          ![p].todo = {s \in Proxies : ~Sees(p, s)}]
    /\ UNCHANGED <<now, daily, due, writer, success, backfills>>

CaptureBatch(p) ==
    /\ job[p].at = "batches" /\ job[p].todo # {}
    /\ \/ \* The request raises: the rows added so far stay in the session.
          job' = [job EXCEPT ![p].at = "coverage", ![p].todo = {}]
       \/ \E batch \in SUBSET job[p].todo, quotes \in [Proxies -> Rows] :
            /\ batch # {} /\ (Cardinality(batch) = BatchSize \/ batch = job[p].todo)
            /\ Cardinality(batch) <= BatchSize
            /\ \A s \in Proxies \ batch : quotes[s] = NoClose
            /\ job' = [job EXCEPT ![p].todo = @ \ batch,
                         ![p].rows = [s \in Symbols |-> IF s \in batch THEN quotes[s] ELSE @[s]]]
    /\ UNCHANGED <<now, daily, due, writer, success, backfills>>

CommitProxies(p) == job[p].at = "batches" /\ job[p].todo = {} /\ Commits(p, "coverage")

\* Mutant: the day's coverage is what the session has seen of the securities.
Missing_NoAnchor(p) == {s \in Proxies : ~Sees(p, s)}

Missing(p) == {s \in Symbols : ~Sees(p, s)}

\* market_coverage: its query flushes the rows the session still holds.
ReadCoverage(p) ==
    /\ job[p].at = "coverage"
    /\ job[p].rows # Nothing => MayWrite(p) /\ Unique(p, job[p].rows)
    /\ writer' = IF job[p].rows # Nothing THEN p ELSE writer
    /\ job' = [job EXCEPT ![p].at = "repair", ![p].todo = Missing(p)]
    /\ UNCHANGED <<now, daily, due, success, backfills>>

\* refresh_market_history_to_latest_completed: the request fails, or its answer
\* lacks the day; a rate limit ends the repair.
RepairFails(p) ==
    /\ job[p].at = "repair" /\ job[p].todo # {}
    /\ \/ \E s \in job[p].todo : job' = [job EXCEPT ![p].todo = @ \ {s}]
       \/ job' = [job EXCEPT ![p].todo = {}]
    /\ UNCHANGED <<now, daily, due, writer, success, backfills>>

\* Mutant: what is stored is replaced.
RepairOne_Replace(p, s, close, previous) ==
    /\ MayWrite(p)
    /\ Insert(p, IF s = Anchor /\ ~previous THEN job[p].rows
                 ELSE [job[p].rows EXCEPT ![s] = close])
    /\ job' = [job EXCEPT ![p].todo = @ \ {s}, ![p].rows = Nothing]
    /\ writer' = NoJob

\* _insert_anchor and _insert_proxy without replacement, and the commit.
RepairOne(p, s, close, previous) ==
    LET inserts == ~Has(s, job[p].expected) /\ (s = Anchor => previous)
    IN  /\ MayWrite(p)
        /\ Insert(p, IF inserts THEN [job[p].rows EXCEPT ![s] = close] ELSE job[p].rows)
        /\ job' = [job EXCEPT ![p].todo = @ \ {s}, ![p].rows = Nothing,
                     ![p].conflict = @ \/ (Has(s, job[p].expected)
                                            /\ daily[s][job[p].expected] # close)]
        /\ writer' = NoJob

Repair(p) ==
    /\ job[p].at = "repair"
    /\ \E s \in job[p].todo, close \in Closes, previous \in BOOLEAN :
         RepairOne(p, s, close, previous)
    /\ UNCHANGED <<now, due, success, backfills>>

\* The run row's final status, with the rows still held by the session.
Finish(p) ==
    /\ job[p].at = "repair" /\ job[p].todo = {} /\ MayWrite(p)
    /\ Insert(p, job[p].rows)
    /\ success' = success \cup {d \in {job[p].expected} : Missing(p) = {} /\ ~job[p].conflict}
    /\ job' = [job EXCEPT ![p] = Idle]
    /\ writer' = NoJob
    /\ UNCHANGED <<now, due, backfills>>

----------------------------------------------------------------------------
(* backfill_market_history.py: one symbol's transaction                     *)

\* _completed_bars
CompletedBars(bars) == {d \in bars : Over(d, now, CompleteAfter)}

\* The first bar of an answer has no previous close, which the anchor needs.
Acceptable(s, days) == IF s = Anchor THEN days \ {Earliest(days)} ELSE days

Backfill(s, replace, answer) ==
    LET days == CompletedBars(DOMAIN answer)
    IN  /\ writer = NoJob /\ Cardinality(days) >= MinimumBars
        /\ daily' = [daily EXCEPT ![s] = [d \in TradingDates |->
                       IF d \in Acceptable(s, days) /\ (replace \/ ~Has(s, d))
                       THEN answer[d] ELSE daily[s][d]]]
        /\ UNCHANGED <<now, job, due, writer, success>>

\* backfill_selected_market_history: complete history is not asked for, a
\* conflict rolls the symbol back.
BackfillSelected(s, answer) ==
    LET days     == CompletedBars(DOMAIN answer)
        expected == ExpectedLatestCompletedTradingDay(now)
        stored   == {d \in TradingDates : Has(s, d)}
    IN  /\ s # Anchor /\ writer = NoJob /\ expected # NoDay
        /\ ~(Cardinality(stored) >= MinimumBars /\ expected \in stored)
        /\ Cardinality(days) >= MinimumBars /\ Latest(days) = expected
        /\ \A d \in days \cap stored : daily[s][d] = answer[d]
        /\ daily' = [daily EXCEPT ![s] = [d \in TradingDates |->
                       IF d \in days THEN answer[d] ELSE daily[s][d]]]
        /\ UNCHANGED <<now, job, due, writer, success>>

Answers == UNION {[days -> Closes] : days \in SUBSET {d \in TradingDates : d <= now.day}}

Operate ==
    /\ backfills < MaxBackfills /\ backfills' = backfills + 1
    /\ \E s \in Symbols, answer \in Answers :
         \/ \E replace \in BOOLEAN : Backfill(s, replace, answer)
         \/ BackfillSelected(s, answer)

----------------------------------------------------------------------------
Work(p) == \/ CaptureAnchor(p) \/ CommitAnchor(p) \/ CaptureProxies(p)
           \/ CaptureBatch(p) \/ CommitProxies(p) \/ ReadCoverage(p)
           \/ RepairFails(p) \/ Repair(p) \/ Finish(p)

DailyNext ==
    \/ \E p \in Jobs : \/ Work(p) \/ WriteFails(p) \/ Kill(p)
                       \/ \E mode \in Modes : Start(p, mode)
    \/ Operate \/ DailyTick

DailySpec == DailyInit /\ [][DailyNext]_<<now, dailyVars>>

----------------------------------------------------------------------------
(* Properties                                                               *)

\* A run row that says success means that every symbol has a row of that day,
\* for good (MarketDailyAdvanceRun.status).
SuccessIsCovered == \A d \in success, s \in Symbols : Has(s, d)

\* No row of a day that was not over when it was written.
CompletedDaysOnly ==
    \A s \in Symbols, d \in TradingDates : Has(s, d) => Over(d, now, CompleteAfter)

\* Whatever an overlapping job or an operator has written meanwhile, no step of
\* a job changes a stored close.
CloseStays ==
    [][job' # job => \A s \in Symbols, d \in TradingDates :
                        Has(s, d) => daily'[s][d] = daily[s][d]]_<<now, dailyVars>>
=============================================================================
