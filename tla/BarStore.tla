------------------------------- MODULE BarStore -------------------------------
(***************************************************************************)
(* What the daily bar tables promise to the pages, the path history and the *)
(* repair script that read them: a bar is written once, whole, together     *)
(* with the indicators computed from it and from earlier bars, and neither  *)
(* changes afterwards (tables sector_daily_bars and                         *)
(* sector_indicator_snapshots).                                             *)
(***************************************************************************)
EXTENDS Naturals

CONSTANTS Sectors, Days, Bars, NoBar

VARIABLES bars,    \* per sector and day, the bar or NoBar
          basis    \* the days its indicators were computed from

storeVars == <<bars, basis>>

Has(s, d) == bars[s][d] # NoBar

StoreInit == /\ bars = [s \in Sectors |-> [d \in Days |-> NoBar]]
             /\ basis = [s \in Sectors |-> [d \in Days |-> {}]]

Keep(s, d) == bars'[s][d] = bars[s][d] /\ basis'[s][d] = basis[s][d]

\* A new bar comes with indicators over itself and stored days before it.
Write(s, d) == /\ ~Has(s, d) /\ bars'[s][d] \in Bars
               /\ d \in basis'[s][d]
               /\ \A e \in basis'[s][d] : e \in Days /\ e <= d /\ bars'[s][e] # NoBar

\* Days of some sectors are added together.
Add == /\ bars' \in [Sectors -> [Days -> Bars \cup {NoBar}]]
       /\ basis' \in [Sectors -> [Days -> SUBSET Days]]
       /\ \A s \in Sectors, d \in Days : Keep(s, d) \/ Write(s, d)

StoreSpec == StoreInit /\ [][Add]_storeVars

\* A bar has indicators exactly when it is stored, and they rest on days that
\* are stored.
IndicatorsComplete ==
    \A s \in Sectors, d \in Days :
        /\ Has(s, d) <=> d \in basis[s][d]
        /\ \A e \in basis[s][d] : e \in Days /\ Has(s, e)

\* The first bar stored for a sector and a day stays, and so do its indicators.
FirstBarStays ==
    [][\A s \in Sectors, d \in Days : Has(s, d) => Keep(s, d)]_storeVars
=============================================================================
