-------------------------- MODULE EodBackfill_proofs --------------------------
(***************************************************************************)
(* Proofs about EodBackfill, for any paths, calendar, attempts, imported    *)
(* files and restarts, with writes that may fail:                           *)
(*   EodType      EodSpec => []EodTypeOK                                    *)
(*   Refines      EodSpec => StoreImplemented                               *)
(*   Budget       EodSpec => []BudgetHolds                                  *)
(*   FinalOnly    EodSpec => AutomaticIsFinal                               *)
(*   TablesComplete  EodSpec => []Store!IndicatorsComplete                  *)
(* The last is a property of the store, carried over by the refinement.     *)
(***************************************************************************)
EXTENDS EodBackfill, MarketCalendar_proofs

----------------------------------------------------------------------------
(* Types                                                                    *)

\* Indicators are there for the stored bars, and for no other day.
Indexed == \A s \in Sectors, d \in Coverage : bars[s][d].stored <=> basis[s][d] # {}

Typed == EodTypeOK /\ ClockOK /\ Indexed

Bases == [Sectors -> [Coverage -> SUBSET Coverage]]

\* Bars of some days are the rows of an answer or a file.
LEMMA RowsIn ==
    ASSUME NEW days \in SUBSET Coverage, NEW rows \in [days -> Bar]
    PROVE  rows \in Rows
  BY DEF Rows

LEMMA RowsAre ==
    ASSUME NEW rows \in Rows
    PROVE  DOMAIN rows \in SUBSET Coverage /\ \A d \in DOMAIN rows : rows[d] \in Bar
  BY DEF Rows

LEMMA NoAnswerType == NoAnswer \in Answer
  <1>1. [d \in {} |-> NoBar] \in [{} -> Bar]
    OBVIOUS
  <1>2. [d \in {} |-> NoBar] \in Rows
    BY <1>1, RowsIn
  <1> QED BY <1>2 DEF NoAnswer, Answer

LEMMA IdleType == Idle \in Run
  BY NoAnswerType, EodAssumption DEF Idle, Run

LEMMA InitTyped == EodInit => Typed
  <1> SUFFICES ASSUME EodInit PROVE Typed
    OBVIOUS
  <1>1. ClockOK
    BY FirstInstantIn DEF EodInit, ClockInit, ClockOK
  <1>2. bars \in Table /\ basis \in Bases /\ Indexed
    BY DEF EodInit, Table, Bases, Indexed, NoBar
  <1>3. run \in [Actors -> Run]
    BY IdleType DEF EodInit
  <1>4. attempts \in [Coverage -> 0..MaxAttempts] /\ asked \in [Coverage -> Nat]
    <2>1. 0 \in 0..MaxAttempts
      BY EodAssumption
    <2> QED BY <2>1 DEF EodInit
  <1>5. timer \in BOOLEAN /\ boot \in BOOLEAN /\ owed \in BOOLEAN
    BY DEF EodInit
  <1>6. restarts \in 0..MaxRestarts
    <2>1. 0 \in 0..MaxRestarts
      BY EodAssumption
    <2> QED BY <2>1 DEF EodInit
  <1> QED BY <1>1, <1>2, <1>3, <1>4, <1>5, <1>6 DEF Typed, EodTypeOK, Bases

\* What the provider answers is rows of the calendar.
LEMMA AnsweredType ==
    ASSUME NEW a, NEW s, NEW asOf, NEW published \in SUBSET Window(asOf), NEW allowed
    PROVE  Answered(a, s, published, allowed) \in Answer
  <1> DEFINE eligible == published \cap allowed
  <1>1. published \in SUBSET Coverage
    BY DaysAreNat DEF Window
  <1>2. \A d \in Coverage : ParsedBar(published, d) \in Bar
    <2> SUFFICES ASSUME NEW d \in Coverage PROVE ParsedBar(published, d) \in Bar
      OBVIOUS
    <2> DEFINE before == {e \in published : e < d}
    <2>1. before \in SUBSET Coverage
      BY <1>1
    <2>2. Latest(before) \in Coverage \cup {NoDay}
      BY <2>1, LatestIn DEF Latest
    <2>3. Over(d, now, SafeAfter) \in BOOLEAN
      BY DEF Over
    <2>4. ParsedBar(published, d)
            = [final |-> Over(d, now, SafeAfter), stored |-> TRUE, prev |-> Latest(before)]
      BY DEF ParsedBar
    <2> HIDE DEF before
    <2> QED BY <2>2, <2>3, <2>4 DEF Bar
  <1>3. [d \in eligible |-> ParsedBar(published, d)] \in Rows
    <2>1. eligible \in SUBSET Coverage
      BY <1>1
    <2>2. [d \in eligible |-> ParsedBar(published, d)] \in [eligible -> Bar]
      BY <1>2, <2>1
    <2> QED BY <2>1, <2>2, RowsIn
  <1>4. CASE s \in Unverified
    BY <1>4, NoAnswerType DEF Answered
  <1>5. CASE s \notin Unverified /\ eligible # {}
    <2>1. Answered(a, s, published, allowed)
            = [result |-> "rows", rows |-> [d \in eligible |-> ParsedBar(published, d)]]
      BY <1>5 DEF Answered
    <2> QED BY <1>3, <2>1 DEF Answer
  <1>6. CASE s \notin Unverified /\ eligible = {}
    <2>1. Answered(a, s, published, allowed)
            = [NoAnswer EXCEPT !.result = IF a = "auto" THEN "pending" ELSE "failed"]
      BY <1>6 DEF Answered
    <2> QED BY <2>1, NoAnswerType DEF Answer
  <1> QED BY <1>4, <1>5, <1>6

LEMMA FetchedType ==
    ASSUME NEW a, NEW asOf \in TradingDates, NEW attempt \in 0..MaxAttempts,
           NEW sectors \in SUBSET Sectors, NEW allowed, NEW broken,
           NEW published \in [sectors -> SUBSET Window(asOf)]
    PROVE  Fetched(a, asOf, attempt, allowed, published, broken) \in Run
  <1> DEFINE got == [s \in Sectors |-> IF s \in sectors \ broken
                       THEN Answered(a, s, published[s], allowed[s]) ELSE NoAnswer]
  <1>1. got \in [Sectors -> Answer]
    BY AnsweredType, NoAnswerType
  <1>2. Fetched(a, asOf, attempt, allowed, published, broken)
          = [at |-> "persist", asOf |-> asOf, attempt |-> attempt, todo |-> sectors, got |-> got]
    BY DEF Fetched
  <1>3. asOf \in Coverage
    BY DaysAreNat
  <1> HIDE DEF got
  <1> QED BY <1>1, <1>2, <1>3 DEF Run

----------------------------------------------------------------------------
(* One transaction, and the store                                           *)

\* What a transaction makes of the table of a sector it has rows of.
LEMMA SectorStep ==
    ASSUME Typed, NEW s \in Sectors, NEW rows \in Rows,
           bars'[s] = Inserted(s, rows), basis'[s] = Recalculated(s, Inserted(s, rows))
    PROVE  /\ bars'[s] \in [Coverage -> Bar \cup {NoBar}] /\ basis'[s] \in [Coverage -> SUBSET Coverage]
           /\ \A d \in Coverage : bars'[s][d].stored <=> basis'[s][d] # {}
           /\ \A d \in Coverage : Store!Keep(s, d) \/ Store!Write(s, d)
  <1> DEFINE table == Inserted(s, rows)
             days  == Recalculated(s, table)
  <1>1. \A d \in Coverage : bars[s][d] \in Bar \cup {NoBar} /\ basis[s][d] \in SUBSET Coverage
    BY DEF Typed, EodTypeOK, Table, Bases
  <1>2. /\ DOMAIN rows \in SUBSET Coverage
        /\ \A d \in DOMAIN rows : rows[d] \in Bar /\ rows[d].stored
    BY RowsAre DEF Bar
  <1>3. table = [d \in Coverage |-> IF d \in DOMAIN rows /\ ~bars[s][d].stored
                                    THEN rows[d] ELSE bars[s][d]]
    BY DEF Inserted
  <1>4. table \in [Coverage -> Bar \cup {NoBar}]
    BY <1>1, <1>2, <1>3
  <1>5. days = [d \in Coverage |-> IF table[d].stored /\ basis[s][d] = {}
                                   THEN {e \in Coverage : e <= d /\ table[e].stored} ELSE basis[s][d]]
    BY DEF Recalculated
  <1> HIDE DEF table
  <1>6. days \in [Coverage -> SUBSET Coverage]
    BY <1>1, <1>5
  <1> HIDE DEF days
  <1>7. bars'[s] = table /\ basis'[s] = days
    BY DEF table, days
  <1>8. \A d \in Coverage : d <= d
    BY DaysAreNat
  <1>9. \A d \in Coverage : bars[s][d].stored <=> basis[s][d] # {}
    BY DEF Typed, Indexed
  <1>10. ASSUME NEW d \in Coverage PROVE table[d].stored <=> days[d] # {}
    <2>1. CASE table[d].stored /\ basis[s][d] = {}
      BY <1>5, <1>8, <2>1
    <2>2. CASE ~(table[d].stored /\ basis[s][d] = {})
      <3>1. days[d] = basis[s][d]
        BY <1>5, <2>2
      <3>2. bars[s][d].stored => table[d].stored
        BY <1>3
      <3> QED BY <1>9, <2>2, <3>1, <3>2
    <2> QED BY <2>1, <2>2
  <1>11. ASSUME NEW d \in Coverage PROVE Store!Keep(s, d) \/ Store!Write(s, d)
    <2>1. CASE bars[s][d].stored
      <3>1. table[d] = bars[s][d] /\ days[d] = basis[s][d]
        BY <1>3, <1>5, <1>9, <2>1
      <3> QED BY <1>7, <3>1 DEF Store!Keep
    <2>2. CASE ~bars[s][d].stored /\ d \notin DOMAIN rows
      <3>1. table[d] = bars[s][d]
        BY <1>3, <2>2
      <3>2. days[d] = basis[s][d]
        BY <1>5, <2>2, <3>1
      <3> QED BY <1>7, <3>1, <3>2 DEF Store!Keep
    <2>3. CASE ~bars[s][d].stored /\ d \in DOMAIN rows
      <3>1. table[d] = rows[d] /\ rows[d] \in Bar /\ table[d].stored
        BY <1>2, <1>3, <2>3
      <3>2. days[d] = {e \in Coverage : e <= d /\ table[e].stored}
        BY <1>5, <1>9, <2>3, <3>1
      <3>3. bars[s][d] = NoBar
        BY <1>1, <2>3 DEF Bar
      <3>4. \A e \in Coverage : table[e].stored => table[e] # NoBar
        BY DEF NoBar
      <3> QED BY <1>7, <1>8, <3>1, <3>2, <3>3, <3>4 DEF Store!Write, Store!Has
    <2> QED BY <2>1, <2>2, <2>3
  <1> QED BY <1>4, <1>6, <1>7, <1>10, <1>11

\* A transaction with rows of some sectors adds to the store and leaves the rest.
LEMMA IngestStep ==
    ASSUME Typed, NEW given \in Files, Ingest(given)
    PROVE  bars' \in Table /\ basis' \in Bases /\ Indexed' /\ Store!Add
  <1>1. DOMAIN given \in SUBSET Sectors /\ \A s \in DOMAIN given : given[s] \in Rows
    BY DEF Files
  <1>2. ASSUME NEW s \in Sectors
        PROVE  /\ bars'[s] \in [Coverage -> Bar \cup {NoBar}] /\ basis'[s] \in [Coverage -> SUBSET Coverage]
               /\ \A d \in Coverage : bars'[s][d].stored <=> basis'[s][d] # {}
               /\ \A d \in Coverage : Store!Keep(s, d) \/ Store!Write(s, d)
    <2>1. CASE s \in DOMAIN given
      <3>1. bars'[s] = Inserted(s, given[s]) /\ basis'[s] = Recalculated(s, Inserted(s, given[s]))
        BY <2>1 DEF Ingest
      <3> QED BY <1>1, <2>1, <3>1, SectorStep
    <2>2. CASE s \notin DOMAIN given
      <3>1. bars'[s] = bars[s] /\ basis'[s] = basis[s]
        BY <2>2 DEF Ingest
      <3> QED BY <3>1 DEF Typed, EodTypeOK, Table, Bases, Indexed, Store!Keep
    <2> QED BY <2>1, <2>2
  <1>3. bars' = [s \in Sectors |-> bars'[s]] /\ basis' = [s \in Sectors |-> basis'[s]]
    BY DEF Ingest
  <1>4. bars' \in Table /\ basis' \in Bases
    BY <1>2, <1>3 DEF Table, Bases
  <1> QED BY <1>2, <1>4 DEF Indexed, Store!Add, Table, Bases

\* A step keeps the types, and adds to the tables or leaves them alone.
Good == Typed' /\ (UNCHANGED <<bars, basis>> \/ Store!Add)

\* What no step but those of the store touches.
Rest == /\ attempts \in [Coverage -> 0..MaxAttempts] /\ run \in [Actors -> Run]
        /\ timer \in BOOLEAN /\ boot \in BOOLEAN /\ owed \in BOOLEAN
        /\ asked \in [Coverage -> Nat] /\ restarts \in 0..MaxRestarts /\ ClockOK

LEMMA RestGood ==
    ASSUME Typed, Rest', UNCHANGED <<bars, basis>>
    PROVE  Good
  BY DEF Good, Typed, EodTypeOK, Rest, Indexed

\* The attempt of a run is recorded within the policy.
LEMMA RecordedType ==
    ASSUME Typed, NEW a \in Actors
    PROVE  Recorded(a) \in [Coverage -> 0..MaxAttempts]
  <1>1. run[a].attempt \in 0..MaxAttempts /\ attempts \in [Coverage -> 0..MaxAttempts]
    BY DEF Typed, EodTypeOK, Run
  <1> QED BY <1>1 DEF Recorded

LEMMA PersistGood ==
    ASSUME Typed, NEW a \in Actors, NEW s \in Sectors, PersistSector(a, s)
    PROVE  Good
  <1>1. run[a] \in Run /\ run[a].got[s].rows \in Rows
    BY DEF Typed, EodTypeOK, Run, Answer
  <1>2. bars' \in Table /\ basis' \in Bases /\ Indexed' /\ Store!Add
    <2>1. [u \in {s} |-> run[a].got[u].rows] \in [{s} -> Rows]
      BY <1>1
    <2>2. [u \in {s} |-> run[a].got[u].rows] \in Files
      BY <2>1 DEF Files
    <2> QED BY <2>2, IngestStep DEF PersistSector
  <1>3. attempts' \in [Coverage -> 0..MaxAttempts]
    BY RecordedType DEF PersistSector
  <1>4. run' \in [Actors -> Run]
    <2>1. [run[a] EXCEPT !.todo = @ \ {s}] \in Run
      BY <1>1 DEF Run
    <2> QED BY <2>1 DEF PersistSector, Typed, EodTypeOK
  <1> QED BY <1>2, <1>3, <1>4 DEF PersistSector, Good, Typed, EodTypeOK, Bases, ClockOK

LEMMA ImportGood ==
    ASSUME Typed, NEW file \in Imports, ImportFile(file)
    PROVE  Good
  <1>1. bars' \in Table /\ basis' \in Bases /\ Indexed' /\ Store!Add
    BY IngestStep, EodAssumption DEF ImportFile
  <1> QED BY <1>1 DEF ImportFile, Good, Typed, EodTypeOK, Bases, ClockOK

LEMMA EndGood ==
    ASSUME Typed, NEW a \in Actors, Raise(a) \/ Finish(a)
    PROVE  Good
  <1>1. run' = [run EXCEPT ![a] = Idle]
    BY DEF Raise, Finish
  <1>2. run' \in [Actors -> Run]
    BY <1>1, IdleType DEF Typed, EodTypeOK
  <1>3. timer' \in BOOLEAN /\ owed' \in BOOLEAN
    BY DEF Raise, Finish, Typed, EodTypeOK
  <1>4. UNCHANGED <<now, bars, basis, attempts, boot, asked, restarts>>
    BY DEF Raise, Finish
  <1> QED BY <1>2, <1>3, <1>4, RestGood DEF Rest, Typed, EodTypeOK, ClockOK

LEMMA ManualGood ==
    ASSUME Typed, NEW asOf \in TradingDates, NEW sectors \in SUBSET Sectors,
           BeginManual(asOf, sectors)
    PROVE  Good
  <1>1. PICK published \in [sectors -> SUBSET Window(asOf)] :
           run' = [run EXCEPT !["admin"] =
                     Fetched("admin", asOf, 1, [s \in sectors |-> Coverage], published, {})]
    BY DEF BeginManual
  <1>2. 1 \in 0..MaxAttempts
    BY EodAssumption
  <1>3. Fetched("admin", asOf, 1, [s \in sectors |-> Coverage], published, {}) \in Run
    BY <1>2, FetchedType
  <1>4. run' \in [Actors -> Run]
    BY <1>1, <1>3 DEF Typed, EodTypeOK
  <1> QED BY <1>4, RestGood DEF BeginManual, Rest, Typed, EodTypeOK, ClockOK

\* An automatic run that finds a gap, or nothing to do.
LEMMA AutomaticCases ==
    ASSUME Typed, BeginAutomatic
    PROVE  /\ run["auto"].at = "idle" /\ (boot \/ timer)
           /\ boot' = FALSE /\ timer' = FALSE
           /\ UNCHANGED <<now, bars, basis, attempts, restarts>>
           /\ \/ UNCHANGED <<run, asked>>
              \/ \E expected \in TradingDates, sectors \in SUBSET Sectors :
                    /\ expected = ExpectedCompleteTradeDate(now) /\ sectors # {}
                    /\ attempts[expected] + 1 <= MaxAttempts
                    /\ asked' = [asked EXCEPT ![expected] = @ + 1]
                    /\ \E published \in [sectors -> SUBSET Window(expected)], broken \in SUBSET sectors :
                         run' = [run EXCEPT !["auto"] =
                                   Fetched("auto", expected, attempts[expected] + 1,
                                           [s \in Sectors |-> Missing(s, expected)], published, broken)]
  <1> DEFINE expected == ExpectedCompleteTradeDate(now)
             gaps     == [s \in Sectors |-> IF expected = NoDay THEN {} ELSE Missing(s, expected)]
             sectors  == {s \in Sectors : gaps[s] # {}}
  <1>1. CASE UNCHANGED <<run, asked>>
    BY <1>1 DEF BeginAutomatic
  <1>2. CASE ~UNCHANGED <<run, asked>>
    <2>1. /\ sectors # {} /\ attempts[expected] + 1 <= MaxAttempts
          /\ asked' = [asked EXCEPT ![expected] = @ + 1]
          /\ \E published \in [sectors -> SUBSET Window(expected)], broken \in SUBSET sectors :
               run' = [run EXCEPT !["auto"] =
                         Fetched("auto", expected, attempts[expected] + 1, gaps, published, broken)]
      BY <1>2 DEF BeginAutomatic
    <2>2. expected # NoDay
      BY <2>1
    <2>3. expected \in TradingDates
      BY <2>2, LatestOverIsOver DEF ExpectedCompleteTradeDate
    <2>4. gaps = [s \in Sectors |-> Missing(s, expected)]
      BY <2>2
    <2>5. sectors \in SUBSET Sectors
      OBVIOUS
    <2> HIDE DEF expected, gaps, sectors
    <2>6. expected = ExpectedCompleteTradeDate(now)
      BY DEF expected
    <2>7. PICK published \in [sectors -> SUBSET Window(expected)], broken \in SUBSET sectors :
            run' = [run EXCEPT !["auto"] =
                      Fetched("auto", expected, attempts[expected] + 1,
                              [s \in Sectors |-> Missing(s, expected)], published, broken)]
      BY <2>1, <2>4
    <2>8. /\ run["auto"].at = "idle" /\ (boot \/ timer)
          /\ boot' = FALSE /\ timer' = FALSE
          /\ UNCHANGED <<now, bars, basis, attempts, restarts>>
      BY DEF BeginAutomatic
    <2> QED BY <2>1, <2>3, <2>5, <2>6, <2>7, <2>8
  <1> QED BY <1>1, <1>2

LEMMA AutomaticGood ==
    ASSUME Typed, BeginAutomatic
    PROVE  Good
  <1>1. run' \in [Actors -> Run] /\ asked' \in [Coverage -> Nat]
    <2>1. CASE UNCHANGED <<run, asked>>
      BY <2>1 DEF Typed, EodTypeOK
    <2>2. CASE ~UNCHANGED <<run, asked>>
      <3>1. PICK expected \in TradingDates, sectors \in SUBSET Sectors :
                    /\ attempts[expected] + 1 <= MaxAttempts
                    /\ asked' = [asked EXCEPT ![expected] = @ + 1]
                    /\ \E published \in [sectors -> SUBSET Window(expected)], broken \in SUBSET sectors :
                         run' = [run EXCEPT !["auto"] =
                                   Fetched("auto", expected, attempts[expected] + 1,
                                           [s \in Sectors |-> Missing(s, expected)], published, broken)]
        BY <2>2, AutomaticCases
      <3>2. attempts[expected] + 1 \in 0..MaxAttempts /\ asked[expected] + 1 \in Nat
        BY <3>1, DaysAreNat, EodAssumption DEF Typed, EodTypeOK
      <3>3. asked' \in [Coverage -> Nat]
        BY <3>1, <3>2 DEF Typed, EodTypeOK
      <3>4. PICK published \in [sectors -> SUBSET Window(expected)], broken \in SUBSET sectors :
                         run' = [run EXCEPT !["auto"] =
                                   Fetched("auto", expected, attempts[expected] + 1,
                                           [s \in Sectors |-> Missing(s, expected)], published, broken)]
        BY <3>1
      <3>5. Fetched("auto", expected, attempts[expected] + 1,
                    [s \in Sectors |-> Missing(s, expected)], published, broken) \in Run
        BY <3>2, FetchedType
      <3> QED BY <3>3, <3>4, <3>5 DEF Typed, EodTypeOK
    <2> QED BY <2>1, <2>2
  <1>2. owed' \in BOOLEAN
    BY DEF BeginAutomatic
  <1>3. boot' = FALSE /\ timer' = FALSE /\ UNCHANGED <<now, bars, basis, attempts, restarts>>
    BY AutomaticCases
  <1> QED BY <1>1, <1>2, <1>3, RestGood DEF Rest, Typed, EodTypeOK, ClockOK

LEMMA RestartGood ==
    ASSUME Typed, RestartWorker
    PROVE  Good
  <1>1. run' \in [Actors -> Run]
    BY IdleType DEF RestartWorker
  <1>2. restarts' \in 0..MaxRestarts
    BY EodAssumption DEF RestartWorker, Typed, EodTypeOK
  <1> QED BY <1>1, <1>2, RestGood DEF RestartWorker, Rest, Typed, EodTypeOK, ClockOK

LEMMA BootGood ==
    ASSUME Typed, BootFails
    PROVE  Good
  BY RestGood DEF BootFails, Rest, Typed, EodTypeOK, ClockOK

LEMMA TimeGood ==
    ASSUME Typed, TimePasses
    PROVE  Good
  <1>1. now' \in Instants
    BY DEF TimePasses, Tick, NextInstants
  <1> QED BY <1>1, RestGood DEF TimePasses, eodVars, Rest, Typed, EodTypeOK, ClockOK

LEMMA StepGood == Typed /\ [EodNext]_<<now, eodVars>> => Good
  <1> SUFFICES ASSUME Typed, [EodNext]_<<now, eodVars>> PROVE Good
    OBVIOUS
  <1>1. CASE ManualRefresh
    BY <1>1, ManualGood DEF ManualRefresh
  <1>2. CASE \E a \in Actors : Persist(a)
    BY <1>2, PersistGood DEF Persist
  <1>3. CASE \E a \in Actors : Raise(a) \/ Finish(a)
    BY <1>3, EndGood
  <1>4. CASE ImportAny
    BY <1>4, ImportGood DEF ImportAny
  <1>5. CASE UNCHANGED <<now, eodVars>>
    BY <1>5, RestGood DEF eodVars, Rest, Typed, EodTypeOK, ClockOK
  <1> QED BY <1>1, <1>2, <1>3, <1>4, <1>5, AutomaticGood, BootGood, RestartGood, TimeGood DEF EodNext, EodStep

LEMMA TypedHolds == EodSpec => []Typed
  <1>1. Typed /\ [EodNext]_<<now, eodVars>> => Typed'
    BY StepGood DEF Good
  <1> QED BY <1>1, InitTyped, PTL DEF EodSpec

\* EodTypeOK, among it that every stored bar is a bar of its day and that no attempt
\* is beyond the policy's last.
THEOREM EodType == EodSpec => []EodTypeOK
  <1>1. Typed => EodTypeOK
    BY DEF Typed
  <1> QED BY <1>1, TypedHolds, PTL

\* StoreImplemented: whatever runs, imports and deaths interleave, readers see the
\* write-once store.
THEOREM Refines == EodSpec => StoreImplemented
  <1>1. EodInit => Store!StoreInit
    BY DEF EodInit, Store!StoreInit
  <1>2. Typed /\ [EodNext]_<<now, eodVars>> => [Store!Add]_(Store!storeVars)
    BY StepGood DEF Good, Store!storeVars
  <1> QED BY <1>1, <1>2, TypedHolds, PTL DEF EodSpec, StoreImplemented, Store!StoreSpec

----------------------------------------------------------------------------
(* The budget of attempts                                                   *)

\* No run was begun for d beyond n, but for deaths of the worker.
Within(d, n) == asked[d] <= n + restarts

\* Whoever may begin a run has recorded all earlier ones; a run in progress is one
\* ahead of the record of its own date until a sector has carried its attempt.
Spent == /\ boot \/ timer => \A d \in Coverage : Within(d, attempts[d])
         /\ \A d \in Coverage : \/ Within(d, attempts[d])
                                \/ Within(d, attempts[d] + 1) /\ attempts[d] < MaxAttempts
         /\ run["auto"].at = "persist" =>
              /\ run["auto"].asOf \in Coverage
              /\ \A d \in Coverage \ {run["auto"].asOf} : Within(d, attempts[d])
              /\ \/ Within(run["auto"].asOf, attempts[run["auto"].asOf])
                 \/ Within(run["auto"].asOf, run["auto"].attempt)
              /\ \/ run["auto"].todo # {}
                 \/ attempts[run["auto"].asOf] >= run["auto"].attempt

\* The numbers that the budget is about.
LEMMA Numbers ==
    ASSUME Typed
    PROVE  /\ \A d \in Coverage : attempts[d] \in Nat /\ asked[d] \in Nat
           /\ restarts \in Nat /\ MaxAttempts \in Nat
           /\ \A a \in Actors : run[a].attempt \in Nat
  BY EodAssumption DEF Typed, EodTypeOK, Run

\* Records grow, and the automatic run keeps its place.
LEMMA SpentFrame ==
    ASSUME Typed, Typed', Spent, UNCHANGED <<asked, restarts>>, run'["auto"] = run["auto"],
           \A d \in Coverage : attempts[d] <= attempts'[d],
           boot' \/ timer' => boot \/ timer
    PROVE  Spent'
  <1>1. \A d \in Coverage : attempts[d] \in Nat /\ attempts'[d] \in Nat /\ asked[d] \in Nat
    <2>1. attempts' \in [Coverage -> 0..MaxAttempts]
      BY DEF Typed, EodTypeOK
    <2> QED BY <2>1, Numbers
  <1>2. restarts \in Nat /\ run["auto"].attempt \in Nat /\ MaxAttempts \in Nat
    BY Numbers DEF Actors
  <1>3. \A d \in Coverage : Within(d, attempts[d]) => Within(d, attempts[d])'
    BY <1>1, <1>2 DEF Within
  <1>4. \A d \in Coverage : Within(d, attempts[d] + 1) /\ attempts[d] < MaxAttempts
           => Within(d, attempts[d])' \/ (Within(d, attempts[d] + 1) /\ attempts[d] < MaxAttempts)'
    <2> SUFFICES ASSUME NEW d \in Coverage, Within(d, attempts[d] + 1), attempts[d] < MaxAttempts
                 PROVE  \/ Within(d, attempts[d])'
                        \/ (Within(d, attempts[d] + 1) /\ attempts[d] < MaxAttempts)'
      OBVIOUS
    <2>1. CASE attempts'[d] = attempts[d]
      BY <2>1 DEF Within
    <2>2. CASE attempts'[d] # attempts[d]
      <3>1. attempts[d] + 1 <= attempts'[d]
        BY <1>1, <2>2
      <3> QED BY <1>1, <1>2, <3>1 DEF Within
    <2> QED BY <2>1, <2>2
  <1>5. \A d \in Coverage : Within(d, run["auto"].attempt) => Within(d, run["auto"].attempt)'
    BY DEF Within
  <1>6. \A d \in Coverage : attempts[d] >= run["auto"].attempt => attempts'[d] >= run'["auto"].attempt
    BY <1>1, <1>2
  <1> QED BY <1>3, <1>4, <1>5, <1>6 DEF Spent

\* Recording an attempt raises the record of its date to it at least.
LEMMA RecordedGrows ==
    ASSUME Typed, NEW a \in Actors
    PROVE  /\ \A d \in Coverage : attempts[d] <= Recorded(a)[d]
           /\ run[a].asOf \in Coverage => Recorded(a)[run[a].asOf] >= run[a].attempt
           /\ \A d \in Coverage : d # run[a].asOf => Recorded(a)[d] = attempts[d]
  <1>1. attempts \in [Coverage -> 0..MaxAttempts]
    BY DEF Typed, EodTypeOK
  <1> QED BY <1>1, Numbers DEF Recorded

LEMMA PersistSpent ==
    ASSUME Typed, Typed', Spent, NEW a \in Actors, NEW s \in Sectors, PersistSector(a, s)
    PROVE  Spent'
  <1>1. attempts' = Recorded(a) /\ UNCHANGED <<asked, restarts, boot, timer>>
    BY DEF PersistSector
  <1>2. \A d \in Coverage : attempts[d] <= attempts'[d]
    BY <1>1, RecordedGrows
  <1>3. run' = [run EXCEPT ![a] = [run[a] EXCEPT !.todo = @ \ {s}]] /\ run[a].at = "persist"
    BY DEF PersistSector, Comes
  <1>4. CASE a = "admin"
    BY <1>1, <1>2, <1>3, <1>4, SpentFrame
  <1>5. CASE a = "auto"
    <2> DEFINE r == run["auto"]
    <2>1. /\ r.at = "persist" /\ r.asOf \in Coverage
          /\ run'["auto"].asOf = r.asOf /\ run'["auto"].attempt = r.attempt
      BY <1>3, <1>5 DEF Spent, Typed, EodTypeOK, Run
    <2>2. attempts'[r.asOf] >= r.attempt
      BY <1>1, <1>5, <2>1, RecordedGrows
    <2>3. \A d \in Coverage : attempts[d] \in Nat /\ attempts'[d] \in Nat /\ asked[d] \in Nat
      <3>1. attempts' \in [Coverage -> 0..MaxAttempts]
        BY DEF Typed, EodTypeOK
      <3> QED BY <3>1, Numbers
    <2>4. restarts \in Nat /\ r.attempt \in Nat /\ MaxAttempts \in Nat
      BY Numbers DEF Actors
    <2>5. \A d \in Coverage : Within(d, attempts[d]) => Within(d, attempts[d])'
      BY <1>1, <1>2, <2>3, <2>4 DEF Within
    <2>6. Within(r.asOf, r.attempt) => Within(r.asOf, attempts[r.asOf])'
      BY <1>1, <2>1, <2>2, <2>3, <2>4 DEF Within
    <2>7. \A d \in Coverage : Within(d, attempts[d])'
      BY <2>1, <2>5, <2>6 DEF Spent
    <2> QED BY <2>1, <2>2, <2>7 DEF Spent
  <1> QED BY <1>4, <1>5 DEF Actors

LEMMA EndSpent ==
    ASSUME Typed, Typed', Spent, NEW a \in Actors, Raise(a) \/ Finish(a)
    PROVE  Spent'
  <1>1. run' = [run EXCEPT ![a] = Idle] /\ UNCHANGED <<asked, restarts, boot, attempts>>
    BY DEF Raise, Finish
  <1>2. \A d \in Coverage, n \in Nat : Within(d, n)' <=> Within(d, n)
    BY <1>1 DEF Within
  <1>3. \A d \in Coverage : attempts[d] \in Nat /\ attempts[d] + 1 \in Nat
    BY Numbers
  <1>4. CASE UNCHANGED timer
    <2>1. CASE a = "admin"
      <3>1. run'["auto"] = run["auto"]
        BY <1>1, <2>1 DEF Typed, EodTypeOK
      <3>2. \A d \in Coverage : attempts[d] <= attempts'[d]
        BY <1>1, <1>3
      <3> QED BY <1>1, <1>4, <3>1, <3>2, SpentFrame
    <2>2. CASE a = "auto"
      <3>1. run'["auto"].at = "idle"
        BY <1>1, <2>2 DEF Idle, Typed, EodTypeOK
      <3> QED BY <1>1, <1>2, <1>3, <1>4, <3>1 DEF Spent
    <2> QED BY <2>1, <2>2 DEF Actors
  <1>5. CASE ~UNCHANGED timer
    <2>1. a = "auto" /\ run["auto"].at = "persist" /\ run["auto"].todo = {}
      BY <1>5 DEF Raise, Finish, Typed, EodTypeOK
    <2>2. run'["auto"].at = "idle"
      BY <1>1, <2>1 DEF Idle, Typed, EodTypeOK
    <2>3. run["auto"].asOf \in Coverage /\ attempts[run["auto"].asOf] >= run["auto"].attempt
      BY <2>1 DEF Spent
    <2>4. Within(run["auto"].asOf, run["auto"].attempt)
            => Within(run["auto"].asOf, attempts[run["auto"].asOf])
      BY <2>1, <2>3, Numbers DEF Within
    <2>5. \A d \in Coverage : Within(d, attempts[d])
      BY <2>1, <2>4 DEF Spent
    <2> QED BY <1>1, <1>2, <1>3, <2>2, <2>5 DEF Spent
  <1> QED BY <1>4, <1>5

LEMMA AutomaticSpent ==
    ASSUME Typed, Typed', Spent, BeginAutomatic
    PROVE  Spent'
  <1>1. \A d \in Coverage : Within(d, attempts[d])
    BY AutomaticCases DEF Spent
  <1>2. run["auto"].at = "idle" /\ ~boot' /\ ~timer' /\ UNCHANGED <<attempts, restarts>>
    BY AutomaticCases
  <1>3. CASE UNCHANGED <<run, asked>>
    <2>1. \A d \in Coverage : Within(d, attempts[d])'
      BY <1>1, <1>2, <1>3 DEF Within
    <2> QED BY <1>2, <1>3, <2>1 DEF Spent
  <1>4. CASE ~UNCHANGED <<run, asked>>
    <2>1. PICK expected \in TradingDates, sectors \in SUBSET Sectors :
            /\ sectors # {} /\ attempts[expected] + 1 <= MaxAttempts
            /\ asked' = [asked EXCEPT ![expected] = @ + 1]
            /\ \E published \in [sectors -> SUBSET Window(expected)], broken \in SUBSET sectors :
                 run' = [run EXCEPT !["auto"] =
                           Fetched("auto", expected, attempts[expected] + 1,
                                   [s \in Sectors |-> Missing(s, expected)], published, broken)]
      BY <1>4, AutomaticCases
    <2>2. PICK published \in [sectors -> SUBSET Window(expected)], broken \in SUBSET sectors :
            run' = [run EXCEPT !["auto"] =
                      Fetched("auto", expected, attempts[expected] + 1,
                              [s \in Sectors |-> Missing(s, expected)], published, broken)]
      BY <2>1
    <2>3. /\ run'["auto"].asOf = expected /\ run'["auto"].attempt = attempts[expected] + 1
          /\ run'["auto"].todo # {}
      BY <2>1, <2>2 DEF Fetched, Typed, EodTypeOK, Actors
    <2>4. expected \in Coverage
      BY DaysAreNat
    <2>5. \A d \in Coverage : attempts[d] \in Nat /\ asked[d] \in Nat
      BY Numbers
    <2>6. /\ asked'[expected] = asked[expected] + 1
          /\ \A d \in Coverage \ {expected} : asked'[d] = asked[d]
      BY <2>1, <2>4 DEF Typed, EodTypeOK
    <2>7. \A d \in Coverage \ {expected} : Within(d, attempts[d])'
      BY <1>1, <1>2, <2>6 DEF Within
    <2>8. Within(expected, attempts[expected] + 1)'
      BY <1>1, <1>2, <2>4, <2>5, <2>6, Numbers DEF Within
    <2>9. attempts'[expected] < MaxAttempts
      BY <1>2, <2>1, <2>4, <2>5, Numbers
    <2>10. Within(expected, run["auto"].attempt)'
      BY <1>2, <2>3, <2>8
    <2> QED BY <1>2, <2>3, <2>4, <2>7, <2>8, <2>9, <2>10 DEF Spent
  <1> QED BY <1>3, <1>4

LEMMA RestartSpent ==
    ASSUME Typed, Typed', Spent, RestartWorker
    PROVE  Spent'
  <1>1. restarts' = restarts + 1 /\ UNCHANGED <<attempts, asked>>
    BY DEF RestartWorker
  <1>2. run'["auto"].at = "idle"
    BY DEF RestartWorker, Idle, Actors
  <1>3. \A d \in Coverage : Within(d, attempts[d]) \/ Within(d, attempts[d] + 1)
    BY DEF Spent
  <1>4. \A d \in Coverage : Within(d, attempts[d])'
    BY <1>1, <1>3, Numbers DEF Within
  <1> QED BY <1>2, <1>4 DEF Spent

LEMMA SpentStep == Typed /\ Typed' /\ Spent /\ [EodNext]_<<now, eodVars>> => Spent'
  <1> SUFFICES ASSUME Typed, Typed', Spent, [EodNext]_<<now, eodVars>> PROVE Spent'
    OBVIOUS
  <1>1. \A d \in Coverage : attempts[d] <= attempts[d]
    BY Numbers
  <1>2. CASE ManualRefresh
    <2>1. UNCHANGED <<attempts, asked, restarts, boot, timer>> /\ run'["auto"] = run["auto"]
      BY <1>2 DEF ManualRefresh, BeginManual, Typed, EodTypeOK, Actors
    <2> QED BY <1>1, <2>1, SpentFrame
  <1>3. CASE \E a \in Actors : Persist(a)
    BY <1>3, PersistSpent DEF Persist
  <1>4. CASE \E a \in Actors : Raise(a) \/ Finish(a)
    BY <1>4, EndSpent
  <1>5. CASE ImportAny
    <2>1. UNCHANGED <<attempts, asked, restarts, boot, timer, run>>
      BY <1>5 DEF ImportAny, ImportFile
    <2> QED BY <1>1, <2>1, SpentFrame
  <1>6. CASE BootFails \/ TimePasses \/ UNCHANGED <<now, eodVars>>
    <2>1. UNCHANGED <<attempts, asked, restarts, timer, run>> /\ (boot' => boot)
      BY <1>6 DEF BootFails, TimePasses, eodVars
    <2> QED BY <1>1, <2>1, SpentFrame
  <1> QED BY <1>2, <1>3, <1>4, <1>5, <1>6, AutomaticSpent, RestartSpent DEF EodNext, EodStep

LEMMA InitSpent == EodInit => Spent
  <1> SUFFICES ASSUME EodInit PROVE Spent
    OBVIOUS
  <1>1. run["auto"].at = "idle"
    BY DEF EodInit, Actors, Idle
  <1>2. \A d \in Coverage : Within(d, attempts[d])
    BY DEF EodInit, Within
  <1> QED BY <1>1, <1>2 DEF Spent

\* BudgetHolds: the provider is asked for a date at most maximum_attempts times, and
\* once more for each death of the worker.
THEOREM Budget == EodSpec => []BudgetHolds
  <1>1. Typed /\ Spent => BudgetHolds
    <2> SUFFICES ASSUME Typed, Spent, NEW d \in Coverage PROVE asked[d] <= MaxAttempts + restarts
      BY DEF BudgetHolds
    <2>1. attempts[d] \in 0..MaxAttempts
      BY DEF Typed, EodTypeOK
    <2> QED BY <2>1, Numbers DEF Spent, Within
  <1> QED BY <1>1, InitTyped, InitSpent, TypedHolds, SpentStep, PTL DEF EodSpec

----------------------------------------------------------------------------
(* Bars of finished days                                                    *)

\* What the automatic run holds is final.
Finals == \A s \in Sectors : LET rows == run["auto"].got[s].rows
                             IN  \A d \in DOMAIN rows : rows[d].final

LEMMA NoRows == DOMAIN NoAnswer.rows = {}
  BY DEF NoAnswer

\* A gap ends with a day that is over, so what fills it is final.
LEMMA AnsweredFinal ==
    ASSUME ClockOK, NEW a, NEW s \in Sectors, NEW t \in Sectors,
           NEW expected \in TradingDates, Over(expected, now, SafeAfter),
           NEW published \in SUBSET Window(expected)
    PROVE  LET rows == Answered(a, s, published, Missing(t, expected)).rows
           IN  \A d \in DOMAIN rows : rows[d].final
  <1> DEFINE allowed  == Missing(t, expected)
             eligible == published \cap allowed
             answer   == Answered(a, s, published, allowed)
  <1>1. CASE answer.rows = NoAnswer.rows
    BY <1>1, NoRows
  <1>2. CASE answer.rows = [d \in eligible |-> ParsedBar(published, d)]
    <2>1. \A d \in eligible : d \in TradingDates /\ d <= expected
      BY DEF Missing
    <2>2. SafeAfter \in Nat
      BY DEF SafeAfter, At
    <2>3. \A d \in eligible : Over(d, now, SafeAfter)
      BY <2>1, <2>2, OverBefore, DaysAreNat DEF ClockOK
    <2> QED BY <1>2, <2>3 DEF ParsedBar
  <1>3. answer.rows \in {NoAnswer.rows, [d \in eligible |-> ParsedBar(published, d)]}
    BY DEF Answered, NoAnswer
  <1> QED BY <1>1, <1>2, <1>3

LEMMA AutomaticFinals ==
    ASSUME Typed, Finals, BeginAutomatic
    PROVE  Finals'
  <1>1. CASE UNCHANGED <<run, asked>>
    BY <1>1 DEF Finals
  <1>2. CASE ~UNCHANGED <<run, asked>>
    <2>1. PICK expected \in TradingDates, sectors \in SUBSET Sectors :
            /\ expected = ExpectedCompleteTradeDate(now)
            /\ \E published \in [sectors -> SUBSET Window(expected)], broken \in SUBSET sectors :
                 run' = [run EXCEPT !["auto"] =
                           Fetched("auto", expected, attempts[expected] + 1,
                                   [s \in Sectors |-> Missing(s, expected)], published, broken)]
      BY <1>2, AutomaticCases
    <2>2. PICK published \in [sectors -> SUBSET Window(expected)], broken \in SUBSET sectors :
            run' = [run EXCEPT !["auto"] =
                      Fetched("auto", expected, attempts[expected] + 1,
                              [s \in Sectors |-> Missing(s, expected)], published, broken)]
      BY <2>1
    <2>3. expected # NoDay
      BY DaysAreNat
    <2>4. Over(expected, now, SafeAfter)
      BY <2>1, <2>3, LatestOverIsOver DEF ExpectedCompleteTradeDate
    <2>5. run'["auto"].got = [s \in Sectors |->
            IF s \in sectors \ broken
            THEN Answered("auto", s, published[s], Missing(s, expected)) ELSE NoAnswer]
      BY <2>2 DEF Fetched, Typed, EodTypeOK, Actors
    <2>6. ASSUME NEW s \in Sectors
          PROVE  \A d \in DOMAIN run'["auto"].got[s].rows : run'["auto"].got[s].rows[d].final
      <3>1. CASE s \in sectors \ broken
        <4>1. published[s] \in SUBSET Window(expected)
          BY <3>1
        <4> QED BY <2>4, <2>5, <3>1, <4>1, AnsweredFinal DEF Typed
      <3>2. CASE s \notin sectors \ broken
        BY <2>5, <3>2, NoRows
      <3> QED BY <3>1, <3>2
    <2> QED BY <2>6 DEF Finals
  <1> QED BY <1>1, <1>2

\* No other step brings the automatic run rows.
LEMMA FinalsStep == Typed /\ Finals /\ [EodNext]_<<now, eodVars>> => Finals'
  <1> SUFFICES ASSUME Typed, Finals, [EodNext]_<<now, eodVars>> PROVE Finals'
    OBVIOUS
  <1>0. \A s \in Sectors : DOMAIN Idle.got[s].rows = {}
    BY NoRows DEF Idle
  <1>1. CASE run'["auto"].got = run["auto"].got
    BY <1>1 DEF Finals
  <1>2. CASE run'["auto"].got = Idle.got
    BY <1>0, <1>2 DEF Finals
  <1>3. CASE ManualRefresh
    <2>1. run'["auto"] = run["auto"]
      BY <1>3 DEF ManualRefresh, BeginManual, Typed, EodTypeOK, Actors
    <2> QED BY <1>1, <2>1
  <1>4. CASE \E a \in Actors : Persist(a)
    <2>1. run'["auto"].got = run["auto"].got
      BY <1>4 DEF Persist, PersistSector, Typed, EodTypeOK, Run, Actors
    <2> QED BY <1>1, <2>1
  <1>5. CASE \E a \in Actors : Raise(a) \/ Finish(a)
    <2>1. run'["auto"] \in {run["auto"], Idle}
      BY <1>5 DEF Raise, Finish, Typed, EodTypeOK, Actors
    <2> QED BY <1>1, <1>2, <2>1
  <1>6. CASE RestartWorker
    <2>1. run'["auto"] = Idle
      BY <1>6 DEF RestartWorker, Actors
    <2> QED BY <1>2, <2>1
  <1>7. CASE ImportAny \/ BootFails \/ TimePasses \/ UNCHANGED <<now, eodVars>>
    <2>1. UNCHANGED run
      BY <1>7 DEF BootFails, ImportAny, ImportFile, TimePasses, eodVars
    <2> QED BY <1>1, <2>1
  <1> QED BY <1>3, <1>4, <1>5, <1>6, <1>7, AutomaticFinals DEF EodNext, EodStep

\* AutomaticIsFinal: bars are never replaced, and the automatic backfill stores none
\* of an unfinished day.
THEOREM FinalOnly == EodSpec => AutomaticIsFinal
  <1>1. EodInit => Finals
    BY NoRows DEF EodInit, Idle, Finals, Actors
  <1>2. Typed /\ Finals /\ [EodNext]_<<now, eodVars>> =>
          [\A s \in Sectors, d \in Coverage :
             (run["auto"] # run'["auto"] /\ ~bars[s][d].stored /\ bars'[s][d].stored)
               => bars'[s][d].final]_<<now, eodVars>>
    <2> SUFFICES ASSUME Typed, Finals, EodNext, NEW s \in Sectors, NEW d \in Coverage,
                        run["auto"] # run'["auto"], ~bars[s][d].stored, bars'[s][d].stored
                 PROVE  bars'[s][d].final
      OBVIOUS
    <2>1. PICK t \in Sectors : PersistSector("auto", t)
      <3>1. bars' # bars
        OBVIOUS
      <3>2. ~ManualRefresh /\ ~BeginAutomatic /\ ~BootFails /\ ~RestartWorker /\ ~TimePasses
        BY <3>1 DEF ManualRefresh, BeginManual, BeginAutomatic, BootFails, RestartWorker, TimePasses, eodVars
      <3>3. ~ImportAny
        BY DEF ImportAny, ImportFile
      <3>4. \A a \in Actors : ~Raise(a) /\ ~Finish(a)
        BY <3>1 DEF Raise, Finish
      <3>5. PICK a \in Actors, t \in Sectors : PersistSector(a, t)
        BY <3>2, <3>3, <3>4 DEF EodNext, EodStep, Persist
      <3>6. a # "admin"
        BY <3>5 DEF PersistSector, Typed, EodTypeOK, Actors
      <3> QED BY <3>5, <3>6 DEF Actors
    <2> DEFINE rows == run["auto"].got[t].rows
    <2>2. bars' = [u \in Sectors |-> IF u = t THEN Inserted(t, rows) ELSE bars[u]]
      BY <2>1 DEF PersistSector, Ingest
    <2>3. t = s
      BY <2>2
    <2>4. d \in DOMAIN rows /\ bars'[s][d] = rows[d]
      BY <2>2, <2>3 DEF Inserted
    <2> QED BY <2>3, <2>4 DEF Finals
  <1> QED BY <1>1, <1>2, InitTyped, TypedHolds, FinalsStep, PTL DEF EodSpec, AutomaticIsFinal

----------------------------------------------------------------------------
(* The store                                                                *)

\* IndicatorsComplete: in every store, and so in the tables of every behaviour, a bar
\* has indicators exactly when it is stored, and they rest on stored bars.
THEOREM TablesComplete == EodSpec => []Store!IndicatorsComplete
  <1>1. Store!StoreInit => Store!IndicatorsComplete
    BY DEF Store!StoreInit, Store!IndicatorsComplete, Store!Has
  <1>2. Store!IndicatorsComplete /\ [Store!Add]_(Store!storeVars)
          => Store!IndicatorsComplete'
    <2> SUFFICES ASSUME Store!IndicatorsComplete,
                        [Store!Add]_(Store!storeVars)
                 PROVE  Store!IndicatorsComplete'
      OBVIOUS
    <2>1. CASE UNCHANGED Store!storeVars
      BY <2>1 DEF Store!storeVars, Store!IndicatorsComplete, Store!Has
    <2>2. ASSUME Store!Add PROVE Store!IndicatorsComplete'
      <3>1. \A t \in Sectors, d \in Coverage : Store!Keep(t, d) \/ Store!Write(t, d)
        BY <2>2 DEF Store!Add
      <3>2. \A t \in Sectors, d \in Coverage : Store!Has(t, d) => Store!Has(t, d)'
        BY <3>1 DEF Store!Keep, Store!Write, Store!Has
      <3>3. NoBar \notin Bar
        BY DEF NoBar, Bar
      <3>4. ASSUME NEW t \in Sectors, NEW d \in Coverage
            PROVE  /\ Store!Has(t, d)' <=> d \in basis'[t][d]
                   /\ \A e \in basis'[t][d] : e \in Coverage /\ Store!Has(t, e)'
        <4>1. CASE Store!Keep(t, d)
          BY <3>2, <4>1 DEF Store!Keep, Store!IndicatorsComplete, Store!Has
        <4>2. CASE Store!Write(t, d)
          BY <3>3, <4>2 DEF Store!Write, Store!Has
        <4> QED BY <3>1, <4>1, <4>2
      <3> QED BY <3>4 DEF Store!IndicatorsComplete
    <2> QED BY <2>1, <2>2
  <1> QED BY <1>1, <1>2, Refines, PTL DEF StoreImplemented, Store!StoreSpec
=============================================================================
