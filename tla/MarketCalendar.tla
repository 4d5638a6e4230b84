--------------------------- MODULE MarketCalendar ---------------------------
(***************************************************************************)
(* The controlled CN-A calendar (trading_calendar.py) and the clock times   *)
(* at which the market code calls a trading day completed.  Days are        *)
(* numbers, an instant is a day and a minute of it in Shanghai.             *)
(***************************************************************************)
EXTENDS Naturals, FiniteSets

CONSTANTS CoverageStart, CoverageEnd,
          Weekends, Holidays,              \* sets of days
          ClosedOverrides, OpenOverrides,
          Instants                         \* the instants a behaviour passes

NoDay == 0

At(hour, minute) == 60 * hour + minute
Clock == 0..At(23, 59)

\* What CalendarRuleSet.validate enforces when the rules are loaded.
ASSUME CalendarAssumption ==
    /\ CoverageStart \in Nat \ {NoDay} /\ CoverageEnd \in Nat
    /\ CoverageStart <= CoverageEnd
    /\ Holidays \subseteq CoverageStart..CoverageEnd
    /\ ClosedOverrides \cap OpenOverrides = {}
    /\ Instants \subseteq [day: Nat \ {NoDay}, minute: Clock]
    /\ IsFiniteSet(Instants) /\ Instants # {}

Coverage == CoverageStart..CoverageEnd

Evaluate(day) ==
    IF day \notin Coverage THEN "out_of_range"
    ELSE IF day \in OpenOverrides THEN "trading_day"
    ELSE IF day \in Weekends \cup Holidays \cup ClosedOverrides
         THEN "confirmed_non_trading_day" ELSE "trading_day"

TradingDates == {day \in Coverage : Evaluate(day) = "trading_day"}

Latest(days)   == IF days = {} THEN NoDay
                  ELSE CHOOSE d \in days : \A e \in days : e <= d
Earliest(days) == IF days = {} THEN NoDay
                  ELSE CHOOSE d \in days : \A e \in days : d <= e

\* A non-trading report day is paired with the trading day before it; a day
\* outside the calendar with none.
ReportMarketDate(day) ==
    CASE Evaluate(day) = "trading_day"  -> day
      [] Evaluate(day) = "out_of_range" -> NoDay
      [] OTHER                          -> Latest({d \in TradingDates : d < day})

NextTradingDay(day) == Earliest({d \in TradingDates : d > day})

----------------------------------------------------------------------------
Before(t, u) == t.day < u.day \/ (t.day = u.day /\ t.minute < u.minute)

\* The day is over, or the clock has passed a cutoff on it.
Over(day, t, cutoff) == day < t.day \/ (day = t.day /\ t.minute >= cutoff)

LatestOver(t, cutoff) == Latest({d \in TradingDates : Over(d, t, cutoff)})

SafeAfter     == At(15, 30)     \* end-of-day backfill of the sector bars
CompleteAfter == At(15, 10)     \* the Market Core daily tables

\* Mutant: a day is complete when the market closes.
ExpectedCompleteTradeDate_AtClose(t) == LatestOver(t, At(15, 0))

ExpectedCompleteTradeDate(t)         == LatestOver(t, SafeAfter)

\* Mutant: the Market Core day is complete at the close.
ExpectedLatestCompletedTradingDay_AtClose(t) == LatestOver(t, At(15, 0))
ExpectedLatestCompletedTradingDay(t) == LatestOver(t, CompleteAfter)

\* cn_a_session_state
SessionState(t) ==
    IF Evaluate(t.day) # "trading_day" THEN "non_trading_day"
    ELSE CASE t.minute >= At(15, 0)                           -> "after_close"
           [] t.minute >= At(13, 0)  /\ t.minute < At(15, 0)  -> "afternoon_trading"
           [] t.minute >= At(11, 30) /\ t.minute < At(13, 0)  -> "lunch_break"
           [] t.minute >= At(9, 30)  /\ t.minute < At(11, 30) -> "morning_trading"
           [] OTHER                                           -> "pre_open"

\* Time goes from one instant to the next.
NextInstants(t) == {u \in Instants : Before(t, u) /\
                      \A v \in Instants : Before(t, v) => ~Before(v, u)}
FirstInstant == CHOOSE t \in Instants : \A u \in Instants : ~Before(u, t)
=============================================================================
