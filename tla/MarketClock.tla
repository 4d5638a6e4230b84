----------------------------- MODULE MarketClock -----------------------------
(* The Shanghai wall clock that the market modules read.                    *)
EXTENDS MarketCalendar

VARIABLE now

ClockInit == now = FirstInstant
ClockOK   == now \in Instants

Tick == now' \in NextInstants(now)
=============================================================================
