------------------------------ MODULE MarketDays ------------------------------
(***************************************************************************)
(* The two lanes of a trading day: the completed closes of the Market Core  *)
(* (DailyAdvance) and the reports' word on an object (SectorTimeline).      *)
(* Readers lay one over the other by date; neither writes or waits for the  *)
(* other, and so one of them moves at a time, from the start of the other.  *)
(***************************************************************************)
EXTENDS DailyAdvance, SectorTimeline

MarketDaysInit == DailyInit /\ TimelineInit

ClosesMove == TimelineInit /\ ~listed /\ DailyNext /\ UNCHANGED timelineVars
ReportsMove == DailyInit /\ TimelineNext /\ UNCHANGED <<now, dailyVars>>

MarketDaysSpec ==
    MarketDaysInit /\ [][ClosesMove \/ ReportsMove]_<<now, dailyVars, timelineVars>>
=============================================================================
