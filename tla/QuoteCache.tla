------------------------------ MODULE QuoteCache ------------------------------
(***************************************************************************)
(* The quotes of the moment on the reader's pages: the two process-local    *)
(* single-flight caches (LiveMarketAnchorCache, SecurityProxyViewerCache),  *)
(* the request to Tencent behind them, and how a page labels what it got    *)
(* (web/market_session.py, web/market_core.py, web/security_proxy_viewer.py).*)
(* A feed is one cache key; its value is one batch of quotes, of which only *)
(* the time each was made is kept.  Instants are seconds, of Shanghai time. *)
(***************************************************************************)
EXTENDS Integers

CONSTANTS Feeds,
          Symbols,       \* of every feed
          TtlUseful,     \* ttl_seconds, a function of the feed
          TtlUseless,    \* error_ttl_seconds
          MaxAge,        \* LIVE_FRESHNESS, and max_quote_age_seconds
          Ahead,         \* how far the provider's clock may be ahead
          TradingDays,
          Instants,      \* at which something happens: the clock jumps
          Visits,        \* concurrent requests of readers
          NoFeed, NoVisit

ASSUME LifeAssumption == /\ TtlUseful \in [Feeds -> Nat] /\ TtlUseless \in [Feeds -> Nat]
                         /\ MaxAge \in Nat /\ Ahead \in Nat
ASSUME InstantAssumption == Instants \subseteq Nat /\ Instants # {}
ASSUME VisitAssumption == NoVisit \notin Visits

VARIABLES clock,
          market,   \* the newest quote the exchange has made of each symbol
          entry,    \* the cached value of each feed, and until when it is used
          flight,   \* who holds the feed's lock
          visit,
          newest    \* the newest quote a reader has seen, per feed and symbol

quoteVars == <<clock, market, entry, flight, visit, newest>>

None    == 0        \* no quote
NoBatch == [s \in Symbols |-> None]
Rest    == [at |-> "rest", feed |-> NoFeed, from |-> 0, batch |-> NoBatch, seen |-> NoBatch,
            label |-> [s \in Symbols |-> "none"]]

QuotesInit == /\ clock = CHOOSE t \in Instants : \A u \in Instants : t <= u
              /\ market = [s \in Symbols |-> clock]
              /\ entry = [f \in Feeds |-> [until |-> 0, batch |-> NoBatch]]
              /\ flight = [f \in Feeds |-> NoVisit]
              /\ visit = [v \in Visits |-> Rest]
              /\ newest = [f \in Feeds |-> NoBatch]

----------------------------------------------------------------------------
(* The day of the exchange                                                  *)
Day(t)      == t \div 86400
OfDay(t)    == t % 86400
Hour(h, m)  == h * 3600 + m * 60
SameDay(t, u) == Day(t) = Day(u)

\* Mutant: the afternoon begins a moment late.
Session_Inclusive(t) ==
    LET m == OfDay(t)
    IN  IF Day(t) \notin TradingDays THEN "non_trading_day"
        ELSE CASE m < Hour(9, 30)                          -> "pre_open"
               [] m \in Hour(9, 30)..Hour(11, 30) - 1      -> "morning_trading"
               [] m \in Hour(11, 30)..Hour(13, 0)          -> "lunch_break"
               [] m \in Hour(13, 0) + 1..Hour(15, 0) - 1   -> "afternoon_trading"
               [] OTHER                                    -> "after_close"

\* cn_a_session_state
Session(t) ==
    LET m == OfDay(t)
    IN  IF Day(t) \notin TradingDays THEN "non_trading_day"
        ELSE CASE m < Hour(9, 30)                          -> "pre_open"
               [] m \in Hour(9, 30)..Hour(11, 30) - 1      -> "morning_trading"
               [] m \in Hour(11, 30)..Hour(13, 0) - 1      -> "lunch_break"
               [] m \in Hour(13, 0)..Hour(15, 0) - 1       -> "afternoon_trading"
               [] OTHER                                    -> "after_close"

SameDayAllowed(q, t) == SameDay(q, t) /\ Session(t) \in {"lunch_break", "after_close"}

\* reader_quote_display: the pages of the market core.
Display(q, t) ==
    IF q = None THEN "none"
    ELSE IF t - q \in 0..MaxAge THEN "live"
    ELSE IF SameDayAllowed(q, t) THEN "session_latest" ELSE "none"

\* _instrument_payload of the proxy viewer: a quote from the future passes,
\* and what is not live gives way to the completed day.
BoardDisplay(q, t) == IF q # None /\ t - q <= MaxAge THEN "live" ELSE "none"

\* The overview of a report prints the cached quote with its time.
ReportDisplay(q) == IF q = None THEN "none" ELSE "dated"

----------------------------------------------------------------------------
(* get_or_fetch                                                             *)
Unexpired(f) == entry[f].until > clock

\* What a visit holds once the cache has given it a batch.
Given(v, f, batch, seen) ==
    visit' = [visit EXCEPT ![v] = [Rest EXCEPT !.at = "have", !.feed = f, !.batch = batch,
                                               !.seen = seen]]

\* The first look, without the lock.
Look(v, f) ==
    /\ visit[v].at = "rest"
    /\ IF Unexpired(f)
       THEN Given(v, f, entry[f].batch, newest[f])
       ELSE visit' = [visit EXCEPT ![v] = [Rest EXCEPT !.at = "want", !.feed = f,
                                                       !.seen = newest[f]]]
    /\ UNCHANGED <<clock, market, entry, flight, newest>>

\* Mutant: nobody waits for a request under way.
Enter_NoLock(v) ==
    LET f == visit[v].feed IN
    /\ visit[v].at = "want"
    /\ visit' = [visit EXCEPT ![v].at = "ask", ![v].from = clock]
    /\ flight' = [flight EXCEPT ![f] = v]
    /\ UNCHANGED <<clock, market, entry, newest>>

\* The second look, with the lock; the request goes out with the lock held.
Enter(v) ==
    LET f == visit[v].feed IN
    /\ visit[v].at = "want" /\ flight[f] = NoVisit
    /\ IF Unexpired(f)
       THEN Given(v, f, entry[f].batch, visit[v].seen) /\ UNCHANGED flight
       ELSE /\ visit' = [visit EXCEPT ![v].at = "ask", ![v].from = clock]
            /\ flight' = [flight EXCEPT ![f] = v]
    /\ UNCHANGED <<clock, market, entry, newest>>

\* What the provider's checks accept of a quote (_parse_record).
Accepted(q) == clock - q \in (-MaxAge)..MaxAge \/ SameDayAllowed(q, clock)

\* Tencent answers: each batch of symbols fails or is parsed, record by record.
Answer(v) ==
    /\ visit[v].at = "ask"
    /\ \E failed \in SUBSET Symbols :
          visit' = [visit EXCEPT ![v].at = "store",
                                 ![v].batch = [s \in Symbols |->
                                    IF s \notin failed /\ Accepted(market[s]) THEN market[s] ELSE None]]
    /\ UNCHANGED <<clock, market, entry, flight, newest>>

Useful(batch) == \E s \in Symbols : batch[s] # None

\* The value is stored until its lifetime, counted from the second look, ends.
Store(v) ==
    LET f == visit[v].feed  batch == visit[v].batch IN
    /\ visit[v].at = "store"
    /\ entry' = [entry EXCEPT ![f] =
                   [until |-> visit[v].from
                              + (IF Useful(batch) THEN TtlUseful[f] ELSE TtlUseless[f]),
                    batch |-> batch]]
    /\ flight' = [flight EXCEPT ![f] = NoVisit]
    /\ Given(v, f, batch, visit[v].seen)
    /\ UNCHANGED <<clock, market, newest>>

----------------------------------------------------------------------------
(* The page                                                                 *)

\* The quote a page prints of a symbol, if any.
PrintedQuote(v, s) == IF visit[v].label[s] = "none" THEN None ELSE visit[v].batch[s]

\* The page is put together with the clock of that moment.
Show(v) ==
    LET f == visit[v].feed
        Labels(form) == [s \in Symbols |->
                          LET q == visit[v].batch[s] IN
                          CASE form = "core"  -> Display(q, clock)
                            [] form = "board" -> BoardDisplay(q, clock)
                            [] form = "report" -> ReportDisplay(q)]
    IN
    /\ visit[v].at = "have"
    /\ \E form \in {"core", "board", "report"} :
          visit' = [visit EXCEPT ![v].at = "page", ![v].from = clock, ![v].label = Labels(form)]
    /\ newest' = [newest EXCEPT ![f] = [s \in Symbols |->
                     IF PrintedQuote(v, s)' > @[s] THEN PrintedQuote(v, s)' ELSE @[s]]]
    /\ UNCHANGED <<clock, market, entry, flight>>

Leave(v) ==
    /\ visit[v].at = "page"
    /\ visit' = [visit EXCEPT ![v] = Rest]
    /\ UNCHANGED <<clock, market, entry, flight, newest>>

----------------------------------------------------------------------------
\* Time passes; the exchange makes quotes.
Pass  == /\ \E t \in Instants : /\ t > clock /\ \A u \in Instants : u > clock => t <= u
                                /\ clock' = t
         /\ UNCHANGED <<market, entry, flight, visit, newest>>
Trade == /\ \E s \in Symbols, q \in Instants : /\ market[s] < q /\ q <= clock + Ahead
                                               /\ market' = [market EXCEPT ![s] = q]
         /\ UNCHANGED <<clock, entry, flight, visit, newest>>

QuotesNext ==
    \/ \E v \in Visits : \/ \E f \in Feeds : Look(v, f)
                         \/ Enter(v) \/ Answer(v) \/ Store(v) \/ Show(v) \/ Leave(v)
    \/ Pass
    \/ Trade

QuotesSpec == QuotesInit /\ [][QuotesNext]_quoteVars

----------------------------------------------------------------------------
(* Properties                                                               *)

QuotesOK == /\ clock \in Instants
            /\ market \in [Symbols -> Nat]
            /\ entry \in [Feeds -> [until: Nat, batch: [Symbols -> Nat]]]
            /\ flight \in [Feeds -> Visits \cup {NoVisit}]
            /\ \A v \in Visits : /\ visit[v].at \in {"rest", "want", "ask", "store", "have", "page"}
                                 /\ visit[v].feed \in Feeds \cup {NoFeed}

\* Whoever comes after a page sees quotes at least as new as that page's: an
\* answer that was slow never replaces one that overtook it ("duplicate
\* viewers share one in-flight Tencent request").
QuotesAdvance ==
    \A v \in Visits, s \in Symbols :
        visit[v].at = "page" /\ PrintedQuote(v, s) # None => PrintedQuote(v, s) >= visit[v].seen[s]

\* During continuous trading no page calls a quote current that is older than
\* fifteen minutes, and never one of another day, however long it was cached
\* ("freshness remains strict while continuous trading is under way").
Trading(t) == /\ Day(t) \in TradingDays
              /\ OfDay(t) \in Hour(9, 30)..Hour(11, 30) - 1 \cup Hour(13, 0)..Hour(15, 0) - 1

HonestQuotes ==
    \A v \in Visits, s \in Symbols :
        visit[v].at = "page" /\ visit[v].label[s] \in {"live", "session_latest"} =>
            \/ visit[v].from - visit[v].batch[s] <= MaxAge
            \/ ~Trading(visit[v].from) /\ SameDay(visit[v].from, visit[v].batch[s])
=============================================================================
