----------------------------- MODULE EodBackfill -----------------------------
(***************************************************************************)
(* The end-of-day bars of the market paths: the automatic gap backfill      *)
(* (web/market_automation.py, EodBackfillCoordinator), the administrator's  *)
(* refresh and file import (web/market_ingestion.py), and the table they    *)
(* share.                                                                   *)
(*                                                                         *)
(* A run reads what is missing, asks the provider outside any transaction,  *)
(* and then writes one sector after the other, each in a transaction of its *)
(* own.  Two runs, the coordinator's and an administrator's, interleave     *)
(* between these steps, and the worker may die between any two.             *)
(*                                                                         *)
(* A bar is told apart by what its closing price and its change depend on:  *)
(* whether the trading day was over when the provider was asked, and which  *)
(* day came before it in the provider's answer (ths_public.py derives       *)
(* pre_close from that row).  Retry delays are not measured: an armed timer *)
(* may fire at any time.                                                    *)
(***************************************************************************)
EXTENDS MarketClock, Sequences, SequencesExt

CONSTANTS SectorOrder,     \* the supported market paths, in registry order
          Unverified,      \* those without a selectable provider candidate
          NewYear,         \* the first day of the calendar's second year
          MaxAttempts,     \* maximum_attempts of the retry policy
          Imports,         \* what an uploaded file may hold: rows of some sectors
          WritesMayFail,   \* a write phase can raise (database is locked)
          MaxRestarts      \* bound on worker deaths

Sectors == ToSet(SectorOrder)

VARIABLES bars,       \* sector_daily_bars
          basis,      \* the days an indicator snapshot was computed from
          attempts,   \* greatest attempt_number of the items of a date
          run,        \* the run of the coordinator, and an administrator's
          timer,      \* _retry_timer is armed
          boot,       \* the startup thread has not called the coordinator yet
          asked,      \* automatic runs begun for a date (history)
          owed,       \* this worker owes a pending run its retry (history)
          restarts

eodVars == <<bars, basis, attempts, run, timer, boot, asked, owed, restarts>>

Actors == {"auto", "admin"}

NoBar  == [final |-> FALSE, prev |-> NoDay, stored |-> FALSE]
Bar    == [final: BOOLEAN, prev: Coverage \cup {NoDay}, stored: {TRUE}]
Table  == [Sectors -> [Coverage -> Bar \cup {NoBar}]]

\* What the provider answered for a sector.
Rows     == UNION {[days -> Bar] : days \in SUBSET Coverage}
Answer   == [result: {"rows", "pending", "failed"}, rows: Rows]
Files    == UNION {[sectors -> Rows] : sectors \in SUBSET Sectors}
NoAnswer == [result |-> "failed", rows |-> [d \in {} |-> NoBar]]

Idle == [at |-> "idle", asOf |-> NoDay, attempt |-> 0, todo |-> {},
         got |-> [s \in Sectors |-> NoAnswer]]
Run  == [at: {"idle", "persist"}, asOf: Coverage \cup {NoDay},
         attempt: 0..MaxAttempts, todo: SUBSET Sectors, got: [Sectors -> Answer]]

ASSUME EodAssumption ==
    /\ IsInjective(SectorOrder) /\ Unverified \subseteq Sectors
    /\ NewYear \in Nat /\ MaxAttempts \in Nat \ {0}
    /\ \A file \in Imports : file \in Files
    /\ WritesMayFail \in BOOLEAN /\ MaxRestarts \in Nat

EodTypeOK ==
    /\ bars \in Table
    /\ basis \in [Sectors -> [Coverage -> SUBSET Coverage]]
    /\ attempts \in [Coverage -> 0..MaxAttempts]
    /\ run \in [Actors -> Run]
    /\ timer \in BOOLEAN /\ boot \in BOOLEAN /\ owed \in BOOLEAN
    /\ asked \in [Coverage -> Nat] /\ restarts \in 0..MaxRestarts

EodInit ==
    /\ ClockInit
    /\ bars = [s \in Sectors |-> [d \in Coverage |-> NoBar]]
    /\ basis = [s \in Sectors |-> [d \in Coverage |-> {}]]
    /\ attempts = [d \in Coverage |-> 0]
    /\ run = [a \in Actors |-> Idle]
    /\ timer = FALSE /\ boot = TRUE /\ owed = FALSE
    /\ asked = [d \in Coverage |-> 0] /\ restarts = 0

----------------------------------------------------------------------------
Stored(s) == {d \in Coverage : bars[s][d].stored}

\* _missing: from the first stored day of the sector, or the expected day alone.
Missing(s, expected) ==
    LET first == IF Stored(s) = {} THEN expected ELSE Earliest(Stored(s))
    IN  {d \in TradingDates : first <= d /\ d <= expected} \ Stored(s)

\* The year-partitioned endpoint is asked for the year of the cut-off only, and
\* rows after the cut-off are dropped.
Window(asOf) == {d \in TradingDates : (asOf >= NewYear => d >= NewYear) /\ d <= asOf /\ d <= now.day}

ParsedBar(published, d) ==
    [final |-> Over(d, now, SafeAfter), stored |-> TRUE,
     prev  |-> Latest({e \in published : e < d})]

\* A sector's answer when the provider has published these days and some are
\* allowed.  Without any of those an automatic run calls the gap pending, a
\* manual run a failure; a path without a verified candidate is not asked.
Answered(a, s, published, allowed) ==
    LET eligible == published \cap allowed
    IN  IF s \in Unverified THEN NoAnswer
        ELSE IF eligible # {}
             THEN [result |-> "rows", rows |-> [d \in eligible |-> ParsedBar(published, d)]]
        ELSE [NoAnswer EXCEPT !.result = IF a = "auto" THEN "pending" ELSE "failed"]

\* The network phase of refresh_real_market for the sectors of a run, and the
\* run's row.  The answers depend on nothing that other runs write.
Fetched(a, asOf, attempt, allowed, published, broken) ==
    LET sectors == DOMAIN published
    IN  [at |-> "persist", asOf |-> asOf, attempt |-> attempt,
         todo |-> sectors,
         got  |-> [s \in Sectors |-> IF s \in sectors \ broken
                                    THEN Answered(a, s, published[s], allowed[s]) ELSE NoAnswer]]

\* run_if_needed: called by the startup thread and by the retry timer, it does
\* nothing without a gap or beyond the last attempt.
BeginAutomatic ==
    LET expected == ExpectedCompleteTradeDate(now)
        gaps     == [s \in Sectors |-> IF expected = NoDay THEN {} ELSE Missing(s, expected)]
        sectors  == {s \in Sectors : gaps[s] # {}}
        attempt  == attempts[expected] + 1
    IN  /\ run["auto"].at = "idle" /\ (boot \/ timer)
        /\ boot' = FALSE /\ timer' = FALSE /\ owed' = FALSE
        /\ IF sectors # {} /\ attempt <= MaxAttempts
           THEN \E published \in [sectors -> SUBSET Window(expected)], broken \in SUBSET sectors :
                  /\ run' = [run EXCEPT !["auto"] =
                               Fetched("auto", expected, attempt, gaps, published, broken)]
                  /\ asked' = [asked EXCEPT ![expected] = @ + 1]
           ELSE UNCHANGED <<run, asked>>
        /\ UNCHANGED <<now, bars, basis, attempts, restarts>>

\* POST /api/v1/admin/market/refresh: any day, any sectors, no gap rule.
BeginManual(asOf, sectors) ==
    /\ run["admin"].at = "idle"
    /\ \E published \in [sectors -> SUBSET Window(asOf)] :
         run' = [run EXCEPT !["admin"] =
                   Fetched("admin", asOf, 1, [s \in sectors |-> Coverage], published, {})]
    /\ UNCHANGED <<now, bars, basis, attempts, timer, boot, asked, owed, restarts>>

----------------------------------------------------------------------------
Conflicts(s, rows) == {d \in DOMAIN rows : bars[s][d].stored /\ bars[s][d] # rows[d]}

\* _persist_bar for each row: what is stored stays.
Inserted(s, rows) == [d \in Coverage |->
    IF d \in DOMAIN rows /\ ~bars[s][d].stored THEN rows[d] ELSE bars[s][d]]

\* Mutant: indicators for the latest bar only.
Recalculated_Latest(s, table) ==
    LET stored == {e \in Coverage : table[e].stored}
    IN  [d \in Coverage |-> IF d = Latest(stored) /\ basis[s][d] = {} THEN stored ELSE basis[s][d]]

\* _recalculate: a snapshot for each bar that has none, over the bars up to it.
Recalculated(s, table) == [d \in Coverage |->
    IF table[d].stored /\ basis[s][d] = {}
    THEN {e \in Coverage : e <= d /\ table[e].stored} ELSE basis[s][d]]

\* One transaction with the rows of some sectors.
Ingest(given) ==
    /\ bars'  = [s \in Sectors |-> IF s \in DOMAIN given THEN Inserted(s, given[s]) ELSE bars[s]]
    /\ basis' = [s \in Sectors |-> IF s \in DOMAIN given
                                   THEN Recalculated(s, Inserted(s, given[s])) ELSE basis[s]]

\* Mutant: the attempts before this one are recorded.
Recorded_Before(a) == [attempts EXCEPT ![run[a].asOf] =
                         IF run[a].attempt > @ + 1 THEN run[a].attempt - 1 ELSE @]

\* The item of a sector carries the attempt, whatever its status.
Recorded(a) == [attempts EXCEPT ![run[a].asOf] =
                  IF run[a].attempt > @ THEN run[a].attempt ELSE @]

\* The sectors are written in registry order.
Place(s) == CHOOSE i \in DOMAIN SectorOrder : SectorOrder[i] = s
Comes(a, s) == run[a].at = "persist" /\ s \in run[a].todo
               /\ \A u \in run[a].todo : Place(s) <= Place(u)

\* One sector in one transaction under BACKGROUND_WRITE_LOCK.
PersistSector(a, s) ==
    /\ Comes(a, s)
    /\ Conflicts(s, run[a].got[s].rows) = {}
    /\ Ingest([u \in {s} |-> run[a].got[u].rows])
    /\ attempts' = Recorded(a)
    /\ run' = [run EXCEPT ![a].todo = @ \ {s}]
    /\ UNCHANGED <<now, timer, boot, asked, owed, restarts>>

Persist(a) == \E s \in Sectors : PersistSector(a, s)

\* A conflicting row, or a write that raises, ends the run: its row stays
\* "running", the remaining sectors are not written and no retry is armed.
Raise(a) ==
    /\ run[a].at = "persist"
    /\ \/ WritesMayFail
       \/ \E s \in Sectors : Comes(a, s) /\ Conflicts(s, run[a].got[s].rows) # {}
    /\ run' = [run EXCEPT ![a] = Idle]
    /\ UNCHANGED <<now, bars, basis, attempts, timer, boot, asked, owed, restarts>>

Pending(a) == \E s \in Sectors : run[a].got[s].result = "pending"

\* Mutant: the run ends before its retry is armed.
Finish_Unarmed(a) ==
    /\ run[a].at = "persist" /\ run[a].todo = {}
    /\ owed' = (owed \/ (a = "auto" /\ Pending(a) /\ run[a].attempt < MaxAttempts))
    /\ run' = [run EXCEPT ![a] = Idle]
    /\ UNCHANGED <<now, bars, basis, attempts, timer, boot, asked, restarts>>

\* The run's status; a pending automatic run with attempts left arms the timer.
Finish(a) ==
    /\ run[a].at = "persist" /\ run[a].todo = {}
    /\ LET retry == a = "auto" /\ Pending(a) /\ run[a].attempt < MaxAttempts
       IN  timer' = (timer \/ retry) /\ owed' = (owed \/ retry)
    /\ run' = [run EXCEPT ![a] = Idle]
    /\ UNCHANGED <<now, bars, basis, attempts, boot, asked, restarts>>

\* import_real_market, confirmed: one transaction for the sectors of the file,
\* conflicting rows are counted.
ImportFile(file) ==
    /\ Ingest(file)
    /\ UNCHANGED <<now, attempts, run, timer, boot, asked, owed, restarts>>

\* The startup thread starts the intraday scheduler first; when a write of that
\* raises, the thread ends and the coordinator is not called in this process.
BootFails ==
    /\ boot /\ WritesMayFail
    /\ boot' = FALSE
    /\ UNCHANGED <<now, bars, basis, attempts, run, timer, asked, owed, restarts>>

\* The worker dies or is stopped, and a new one starts; its timer dies with it.
RestartWorker ==
    /\ restarts < MaxRestarts /\ restarts' = restarts + 1
    /\ run' = [a \in Actors |-> Idle]
    /\ timer' = FALSE /\ boot' = TRUE /\ owed' = FALSE
    /\ UNCHANGED <<now, bars, basis, attempts, asked>>

TimePasses == Tick /\ UNCHANGED eodVars

----------------------------------------------------------------------------
ManualRefresh == \E asOf \in TradingDates, sectors \in SUBSET Sectors \ {{}} : BeginManual(asOf, sectors)
ImportAny == \E file \in Imports : ImportFile(file)

EodStep == \/ BeginAutomatic \/ ManualRefresh
           \/ \E a \in Actors : Persist(a) \/ Raise(a) \/ Finish(a)
           \/ ImportAny \/ BootFails \/ RestartWorker
EodNext == EodStep \/ TimePasses
EodSpec == EodInit /\ [][EodNext]_<<now, eodVars>>

\* An armed timer fires and the thread of a run goes on; the startup thread may
\* be held up by the intraday scheduler for any time.
EodFairness == /\ WF_<<now, eodVars>>(timer /\ BeginAutomatic)
               /\ WF_<<now, eodVars>>(Persist("auto") \/ Raise("auto"))
               /\ WF_<<now, eodVars>>(Finish("auto"))
EodFairSpec == EodSpec /\ EodFairness

----------------------------------------------------------------------------
(* Properties                                                               *)

Store == INSTANCE BarStore WITH Days <- Coverage, Bars <- Bar

\* Whatever runs, imports and deaths interleave, readers of the tables see the
\* write-once store: a stored bar is never replaced, and every transaction
\* leaves each bar with indicators over stored bars (_persist_bar and
\* _recalculate in one commit).
StoreImplemented == Store!StoreSpec

\* The provider is asked for a date at most maximum_attempts times, and once
\* more for each death of the worker: a run that recorded nothing leaves no
\* timer (run_if_needed, _attempt_number).
BudgetHolds == \A d \in Coverage : asked[d] <= MaxAttempts + restarts

\* The automatic backfill stores no bar of an unfinished day, although the
\* provider shows one: bars are never replaced, so it would stay.
AutomaticIsFinal ==
    [][\A s \in Sectors, d \in Coverage :
          (run["auto"] # run'["auto"] /\ ~bars[s][d].stored /\ bars'[s][d].stored)
             => bars'[s][d].final]_<<now, eodVars>>

\* A run that ends pending_retry with attempts left is followed by another, as
\* long as the worker lives (_schedule_retry): a new worker has no timer, and
\* makes up for it only if its startup thread gets to the coordinator.
PendingIsRetried == owed ~> ~owed
=============================================================================
