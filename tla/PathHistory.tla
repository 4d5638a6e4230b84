------------------------------ MODULE PathHistory ------------------------------
(***************************************************************************)
(* The path ledger (web/path_history.py): for every report object and      *)
(* report date one status, derived from the history matrices that formal   *)
(* PDFs carry, with the market day frozen beside it.  Around it the report *)
(* operations that change a matrix or an authority, the binding and the    *)
(* snapshot of a report's market day (web/enhanced.py) and the script that *)
(* repairs the market fields.  Each operation is one transaction; the      *)
(* reconciliation of a published report is two.                            *)
(*                                                                         *)
(* A date is the number yyyymmdd.  What the parser reads from a file, now  *)
(* and after an update of the parser, is one of the file's editions.       *)
(***************************************************************************)
EXTENDS Naturals, Sequences, FiniteSets

CONSTANTS Objects,        \* report objects of the registry
          BaseKeys,       \* the sectors: a complete matrix has a row for each, and bars are theirs
          ActiveOn,       \* per object, the dates on which it is one
          Reports, NoReport,
          ReportDate,     \* per report
          PathDays,       \* dates a matrix has columns for, the report dates among them
          Created,        \* per report, the order in which they were uploaded
          Editions,       \* per report, the matrices a parser may read from it
          MarketDays,     \* trading days
          Bindings,       \* per report, those it may be bound to
          Volatile,       \* reports that are withdrawn or reconciled in a behaviour
          LateBars        \* bars that are stored while the behaviour runs

NoDay == 0
Cells == [object: Objects, date: PathDays]

\* "blank" cells carry nothing; these do.
ValidStatuses == {"avoid", "strong_watch", "watch", "weak_watch", "turn_hold",
                  "hold", "turn_weak", "exit", "not_mentioned"}

ASSUME LedgerAssumption ==
    /\ BaseKeys \subseteq Objects /\ NoReport \notin Reports
    /\ PathDays \subseteq Nat \ {NoDay} /\ ReportDate \in [Reports -> PathDays]
    /\ MarketDays \subseteq Nat \ {NoDay} /\ Created \in [Reports -> Nat]
    /\ \A r, q \in Reports : r # q => Created[r] # Created[q]
    /\ IsFiniteSet(Reports)
    /\ Volatile \subseteq Reports
    /\ Bindings \in [Reports -> SUBSET MarketDays]
    /\ LateBars \subseteq BaseKeys \X MarketDays

VARIABLES phase,     \* per report: "absent", "draft", "published", "rebuilding", "withdrawn"
          current,   \* is_current
          kept,      \* is_current as a reconciliation will restore it
          edition,   \* the parsed matrix
          bound,     \* market_as_of_date, when confirmed
          frozen,    \* ReportSectorMarketSnapshot: the day and the objects
          bars,      \* complete_eod bars
          ledger,    \* SectorPathHistoryEntry
          settled    \* no authority changed since the last sync from verified matrices

ledgerVars == <<phase, current, kept, edition, bound, frozen, bars, ledger, settled>>

NoEntry == [status |-> "none", source |-> NoReport, detail |-> NoReport,
            market |-> NoDay, data |-> "unavailable"]
Entry == [status: ValidStatuses, source: Reports, detail: Reports \cup {NoReport},
          market: MarketDays \cup {NoDay},
          data: {"unavailable", "eod_complete", "attached"}]

NoSnapshot == [day |-> NoDay, objects |-> {}]
NoMatrix == [headers |-> <<>>, rows |-> <<>>, display |-> <<>>,
             verified |-> FALSE, corrections |-> {}]

LedgerTypeOK ==
    /\ phase \in [Reports -> {"absent", "draft", "published", "rebuilding", "withdrawn"}]
    /\ current \in [Reports -> BOOLEAN] /\ kept \in [Reports -> BOOLEAN]
    /\ \A r \in Reports : edition[r] \in Editions[r] \cup {NoMatrix}
    /\ bound \in [Reports -> MarketDays \cup {NoDay}]
    /\ frozen \in [Reports -> [day: MarketDays \cup {NoDay}, objects: SUBSET BaseKeys]]
    /\ bars \subseteq BaseKeys \X MarketDays
    /\ ledger \in [Cells -> Entry \cup {NoEntry}]
    /\ settled \in BOOLEAN

LedgerInit ==
    /\ phase = [r \in Reports |-> "absent"]
    /\ current = [r \in Reports |-> TRUE] /\ kept = [r \in Reports |-> TRUE]
    /\ edition = [r \in Reports |-> NoMatrix]
    /\ bound = [r \in Reports |-> NoDay]
    /\ frozen = [r \in Reports |-> NoSnapshot]
    /\ bars = (BaseKeys \X MarketDays) \ LateBars
    /\ ledger = [c \in Cells |-> NoEntry]
    /\ settled = FALSE

----------------------------------------------------------------------------
(* Reading a matrix                                                         *)

\* M/DD headers are resolved from the report date backwards: a month after its
\* successor's belongs to the year before.
MatrixDates(day, headers) ==
    LET year[i \in 1..(Len(headers) + 1)] ==
            IF i > Len(headers) THEN day \div 10000
            ELSE LET next == IF i = Len(headers) THEN (day \div 100) % 100
                             ELSE headers[i + 1].month
                 IN  IF headers[i].month > next THEN year[i + 1] - 1 ELSE year[i + 1]
    IN  [i \in 1..Len(headers) |-> year[i] * 10000 + headers[i].month * 100 + headers[i].day]

\* Topic rows, and the split rows of V2.9 for objects without one.
MatrixRows(matrix) ==
    [o \in Objects \cap (DOMAIN matrix.rows \cup DOMAIN matrix.display) |->
        IF o \in DOMAIN matrix.rows THEN matrix.rows[o] ELSE matrix.display[o]]

Complete(matrix) == BaseKeys \subseteq DOMAIN MatrixRows(matrix) /\ matrix.headers # <<>>

\* A report whose own rows do not fit the headers is not synced from; for the
\* other reports only the topic rows are measured.
Fits(rows, matrix) == \A o \in DOMAIN rows : Len(rows[o]) = Len(matrix.headers)

\* The cells a matrix speaks of, with what it says.
FactsOf(r, matrix) ==
    LET rows == MatrixRows(matrix)
        days == MatrixDates(ReportDate[r], matrix.headers)
        At(o, d) == {i \in DOMAIN days \cap DOMAIN rows[o] :
                        days[i] = d /\ rows[o][i] \in ValidStatuses /\ d \in ActiveOn[o]}
    IN  [c \in {c \in Cells : c.object \in DOMAIN rows /\ At(c.object, c.date) # {}} |->
            rows[c.object][CHOOSE i \in At(c.object, c.date) : TRUE]]

FactsTable == [r \in Reports |-> [matrix \in Editions[r] \cup {NoMatrix} |-> FactsOf(r, matrix)]]
Facts(r)   == FactsTable[r][edition[r]]

Corrected(r) == {x.cell : x \in {x \in edition[r].corrections :
                    x.status \in ValidStatuses /\ x.cell.date \in ActiveOn[x.cell.object]}}
Correction(r, c) == (CHOOSE x \in edition[r].corrections : x.cell = c).status

----------------------------------------------------------------------------
(* The canonical cells                                                      *)
Earlier(r, q) == \/ ReportDate[r] < ReportDate[q]
                 \/ ReportDate[r] = ReportDate[q] /\ Created[r] <= Created[q]

Formal == {r \in Reports : phase[r] = "published" /\ current[r]}

\* Where a report comes by report date.
Places == [q \in Reports |-> Cardinality({p \in Reports : Earlier(p, q)})]
ByDate(S) == [i \in 1..Cardinality(Reports) |-> {q \in S : Places[q] = i}]

\* Mutant: the syncing report goes last, whatever its date.
Authority_AppendLast(r) == Append(ByDate(Formal \ {r}), {r})

\* Published current reports by report date, with the one being published: one
\* at most in each place.
Authority(r) == ByDate(Formal \cup {r})

IsSource(q, r) == /\ edition[q].verified \/ q = r
                  /\ Complete(edition[q]) /\ Fits(edition[q].rows, edition[q])

Own(r, c) == ReportDate[r] = c.date
Claim(status, r) == [status |-> status, source |-> r]

\* First source wins, unless the date's own report speaks.
Adopt(claims, q, r) ==
    LET facts == IF IsSource(q, r) THEN Facts(q) ELSE <<>>
        Takes(c) == c \in DOMAIN facts /\
            (c \notin DOMAIN claims \/ (Own(q, c) /\ ~Own(claims[c].source, c)))
    IN  [c \in DOMAIN claims \cup DOMAIN facts |->
            IF Takes(c) THEN Claim(facts[c], q) ELSE claims[c]]

\* Corrections are taken from every authority, and the last one stands.
Correct(claims, q) ==
    [c \in DOMAIN claims \cup Corrected(q) |->
        IF c \in Corrected(q) THEN Claim(Correction(q, c), q) ELSE claims[c]]

\* One authority after the other; nothing happens at an empty place.
Adopted(r) ==
    LET turns == Authority(r)
        claims[i \in 0..Len(turns)] ==
            IF i = 0 THEN <<>>
            ELSE IF turns[i] = {} THEN claims[i - 1]
            ELSE Adopt(claims[i - 1], CHOOSE q \in turns[i] : TRUE, r)
    IN  claims[Len(turns)]

Canonical(r) ==
    LET turns == Authority(r)
        claims[i \in 0..Len(turns)] ==
            IF i = 0 THEN Adopted(r)
            ELSE IF turns[i] = {} THEN claims[i - 1]
            ELSE Correct(claims[i - 1], CHOOSE q \in turns[i] : TRUE)
    IN  claims[Len(turns)]

----------------------------------------------------------------------------
(* sync_path_history                                                        *)

\* The detail report of a date is any current one, published or not.
Dated(d) == {r \in Reports : phase[r] # "absent" /\ current[r] /\ ReportDate[r] = d}
DetailChoices == {f \in [PathDays -> Reports \cup {NoReport}] :
                     \A d \in PathDays : IF Dated(d) = {} THEN f[d] = NoReport ELSE f[d] \in Dated(d)}

Requested(c, detail) ==
    IF detail # NoReport /\ bound[detail] # NoDay THEN bound[detail] ELSE c.date

Attached(day, data) == [market |-> day, data |-> data]
Unattached == Attached(NoDay, "unavailable")

\* Mutant: a snapshot is shown for whatever day it was taken of.
ExactMarket_AnySnapshot(c, detail) ==
    IF detail # NoReport /\ c.object \in frozen[detail].objects
    THEN Attached(frozen[detail].day, "eod_complete")
    ELSE IF <<c.object, Requested(c, detail)>> \in bars
         THEN Attached(Requested(c, detail), "eod_complete") ELSE Unattached

\* _exact_market_payload: only a fact of exactly the requested day.
ExactMarket(c, detail) ==
    LET want  == Requested(c, detail)
        exact == IF detail # NoReport /\ c.object \in frozen[detail].objects
                 THEN frozen[detail].day = want ELSE <<c.object, want>> \in bars
    IN  IF exact THEN Attached(want, "eod_complete") ELSE Unattached

\* same_source_snapshot_changed
Differs(c, claims) == /\ ledger[c] # NoEntry /\ ledger[c].source = claims[c].source
                      /\ ledger[c].status # claims[c].status
Differences(claims) == {c \in DOMAIN claims : Differs(c, claims)}

\* The market fields are written with a new entry and stay with an old one.
Rewritten(c, claim, detail) ==
    IF ledger[c] = NoEntry
    THEN LET exact == ExactMarket(c, detail)
         IN  [status |-> claim.status, source |-> claim.source, detail |-> detail,
              market |-> exact.market, data |-> exact.data]
    ELSE [ledger[c] EXCEPT !.status = claim.status, !.source = claim.source,
                           !.detail = IF @ = NoReport THEN detail ELSE @]

Reliable(r) == Complete(edition[r]) /\ Fits(MatrixRows(edition[r]), edition[r])

\* What the tables hold after a sync of r; entries whose sources went stay.
Synced(r, claims) ==
    \E details \in DetailChoices' :
        ledger' = [c \in Cells |-> IF Reliable(r) /\ c \in DOMAIN claims
                                   THEN Rewritten(c, claims[c], details[c.date]) ELSE ledger[c]]

Settles(r) == edition[r].verified /\ Reliable(r)
----------------------------------------------------------------------------
(* Reports                                                                  *)
Same(r) == {q \in Reports \ {r} : phase[q] # "absent" /\ ReportDate[q] = ReportDate[r]}

\* upload and parse, and parse again
Parse(r, matrix) ==
    /\ phase[r] \in {"absent", "draft"}
    /\ phase' = [phase EXCEPT ![r] = "draft"]
    /\ edition' = [edition EXCEPT ![r] = matrix]
    /\ UNCHANGED <<current, kept, bound, frozen, bars, ledger, settled>>

BecomesPublished(r) ==
    /\ phase[r] = "draft"
    /\ phase' = [phase EXCEPT ![r] = "published"]
    /\ current' = [q \in Reports |-> IF q \in Same(r) THEN FALSE ELSE q = r \/ current[q]]
    /\ UNCHANGED <<kept, edition, bound, frozen, bars>>

\* publish, by an administrator: the ledger is not synced.
Publish(r) == BecomesPublished(r) /\ settled' = FALSE /\ UNCHANGED ledger

\* audit_frozen_path_history
SameDateConflict(r) == Same(r) \cap Formal # {}

\* Mutant: a changed snapshot of the same source is taken over.
PublishStrict_TakeOver(r) ==
    /\ ~SameDateConflict(r)
    /\ BecomesPublished(r)
    /\ \E claims \in {Canonical(r)'} : Synced(r, claims)
    /\ settled' = Settles(r)

\* publish_strict: one transaction, rolled back when a source contradicts what
\* the ledger has from it.
PublishStrict(r) ==
    /\ ~SameDateConflict(r)
    /\ BecomesPublished(r)
    /\ \E claims \in {Canonical(r)'} :
          (Reliable(r) => Differences(claims) = {}) /\ Synced(r, claims)
    /\ settled' = Settles(r)

Withdraw(r) ==
    /\ r \in Volatile /\ phase[r] = "published"
    /\ phase' = [phase EXCEPT ![r] = "withdrawn"] /\ settled' = FALSE
    /\ UNCHANGED <<current, kept, edition, bound, frozen, bars, ledger>>

\* reconcile_existing_report_facts, first part: the file is parsed anew and the
\* report is in review when that is committed.
Rebuild(r, matrix) ==
    /\ r \in Volatile /\ phase[r] = "published"
    /\ phase' = [phase EXCEPT ![r] = "rebuilding"]
    /\ kept' = [kept EXCEPT ![r] = current[r]]
    /\ edition' = [edition EXCEPT ![r] = matrix] /\ settled' = FALSE
    /\ UNCHANGED <<current, bound, frozen, bars, ledger>>

\* Second part: the identity is restored and the ledger follows the new matrix,
\* same source or not.
FinishRebuild(r) ==
    /\ phase[r] = "rebuilding"
    /\ phase' = [phase EXCEPT ![r] = "published"]
    /\ current' = [current EXCEPT ![r] = kept[r]]
    /\ UNCHANGED <<kept, edition, bound, frozen, bars>>
    /\ \E claims \in {Canonical(r)'} : Synced(r, claims)
    /\ settled' = (Settles(r) /\ kept[r])

\* It fails or dies in between: the report stays in review.
FailRebuild(r) ==
    /\ phase[r] = "rebuilding"
    /\ phase' = [phase EXCEPT ![r] = "draft"]
    /\ UNCHANGED <<current, kept, edition, bound, frozen, bars, ledger, settled>>

----------------------------------------------------------------------------
(* Market days                                                              *)

\* bind_market_date; NoDay stands for a date that is not confirmed.
BindMarketDate(r, day) ==
    /\ phase[r] # "absent" /\ day <= ReportDate[r]
    /\ bound' = [bound EXCEPT ![r] = day]
    /\ UNCHANGED <<phase, current, kept, edition, frozen, bars, ledger, settled>>

\* freeze_market_snapshot: once per report, of the sectors that have the bar.
FreezeSnapshot(r) ==
    /\ bound[r] # NoDay /\ frozen[r] = NoSnapshot
    /\ LET objects == {o \in BaseKeys : <<o, bound[r]>> \in bars}
       IN  /\ objects # {}
           /\ frozen' = [frozen EXCEPT ![r] = [day |-> bound[r], objects |-> objects]]
    /\ UNCHANGED <<phase, current, kept, edition, bound, bars, ledger, settled>>

StoreBar == /\ \E bar \in LateBars \ bars : bars' = bars \cup {bar}
            /\ UNCHANGED <<phase, current, kept, edition, bound, frozen, ledger, settled>>

\* planned_repairs: from the bars alone, for the detail report the entry has.
Repaired(c) == LET want == Requested(c, ledger[c].detail)
               IN  IF <<c.object, want>> \in bars THEN Attached(want, "attached") ELSE Unattached

\* repair_path_history_market_fields --apply
RepairMarketFields ==
    /\ ledger' = [c \in Cells |->
                     IF ledger[c] = NoEntry THEN NoEntry
                     ELSE [ledger[c] EXCEPT !.market = Repaired(c).market, !.data = Repaired(c).data]]
    /\ UNCHANGED <<phase, current, kept, edition, bound, frozen, bars, settled>>

LedgerNext ==
    \/ \E r \in Reports :
          \/ \E matrix \in Editions[r] : Parse(r, matrix) \/ Rebuild(r, matrix)
          \/ Publish(r) \/ PublishStrict(r) \/ Withdraw(r)
          \/ FinishRebuild(r) \/ FailRebuild(r) \/ FreezeSnapshot(r)
          \/ \E day \in Bindings[r] \cup {NoDay} : BindMarketDate(r, day)
    \/ StoreBar \/ RepairMarketFields

LedgerSpec == LedgerInit /\ [][LedgerNext]_ledgerVars

----------------------------------------------------------------------------
(* Properties                                                               *)

\* Who decides a cell, said without an order of imports: the latest correction,
\* else the date's own report, else the earliest report that speaks of it.
Sources(c)    == {r \in Formal : edition[r].verified /\ IsSource(r, r) /\ c \in DOMAIN Facts(r)}
Correctors(c) == {r \in Formal : c \in Corrected(r)}
First(S) == CHOOSE r \in S : \A q \in S : Earlier(r, q)
Final(S) == CHOOSE r \in S : \A q \in S : Earlier(q, r)
OwnSources(c) == {r \in Sources(c) : Own(r, c)}
Reference(c) ==
    IF Correctors(c) # {} THEN LET r == Final(Correctors(c)) IN Claim(Correction(r, c), r)
    ELSE LET r == First(IF OwnSources(c) # {} THEN OwnSources(c) ELSE Sources(c))
         IN  Claim(Facts(r)[c], r)

\* Whatever was imported, withdrawn, rebuilt and refused before, in whatever
\* order: after a sync that no change of an authority followed, the ledger says
\* what the published reports say (sync_path_history: "keeps the result
\* import-order independent").
LedgerIsCanonical ==
    settled => \A c \in Cells : Sources(c) \cup Correctors(c) # {} =>
                  Claim(ledger[c].status, ledger[c].source) = Reference(c)

\* The market day of an entry is only ever set to the path date or to the day
\* that a report of this date was bound to, and only to a day the object has a
\* bar of: never to a last known one (_exact_market_payload, planned_repairs).
ExactDay ==
    [][\A c \in Cells : LET day == ledger'[c].market IN day \notin {NoDay, ledger[c].market} =>
          /\ day = c.date \/ \E r \in Reports : ReportDate[r] = c.date /\ bound[r] = day
          /\ <<c.object, day>> \in bars]_ledgerVars

\* A source does not change its mind unnoticed: the status of an entry changes
\* under the same report only when its reconciliation ends.
SourceKeepsStatus ==
    [][\A c \in Cells : ledger[c] # NoEntry /\ ledger'[c].source = ledger[c].source
          /\ ledger'[c].status # ledger[c].status =>
             \E r \in Reports : phase[r] = "rebuilding" /\ phase'[r] = "published"]_ledgerVars
=============================================================================
