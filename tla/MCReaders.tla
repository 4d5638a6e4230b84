------------------------------ MODULE MCReaders ------------------------------
(* An instance of Readers for TLC.                                          *)
EXTENDS Readers, MCViewerCache, MCReportParsing

CONSTANTS r1, r2, r3,   \* reports
          coal, part,   \* a sector and a split object
          index         \* the feed of the Shanghai index

\* The ledger.  r1 dates the last day of a year, r2 and r3 the same day of the
\* next one; r2 may be parsed again with another result, r3 corrects r1.
H(month, day) == [month |-> month, day |-> day]
Head12  == <<H(12, 31)>>
Head123 == <<H(12, 31), H(1, 4)>>

Doc(headers, row, display, verified, corrections) ==
    [headers |-> headers, rows |-> coal :> row, display |-> display, verified |-> verified,
     corrections |-> corrections]

MCReportDate == (r1 :> 20261231) @@ (r2 :> 20270104) @@ (r3 :> 20270104)
MCCreated    == (r1 :> 3) @@ (r2 :> 1) @@ (r3 :> 2)
MCActive     == (coal :> {20261231, 20270104}) @@ (part :> {20270104})
MCPathDays   == {20261231, 20270104}
MCBind       == (r1 :> {}) @@ (r2 :> {20261230}) @@ (r3 :> {})
MCLateBars   == {<<coal, 20270104>>}
MCEditions ==
    (r1 :> {Doc(Head12, <<"hold">>, <<>>, TRUE, {})})
    @@ (r2 :> {Doc(Head123, <<"exit", "hold">>, part :> <<"hold", "watch">>, TRUE, {}),
               Doc(Head123, <<"exit", "not_mentioned">>, part :> <<"hold", "watch">>, FALSE, {})})
    @@ (r3 :> {Doc(Head123, <<"blank", "exit">>, <<>>, TRUE,
                   {[cell |-> [object |-> coal, date |-> 20261231], status |-> "avoid"]})})

\* The quotes: the end of a morning, the lunch break and the first moments of
\* the afternoon, with the lifetimes of the index's cache.
MCUseful   == index :> 300
MCUseless  == index :> 30
Moment(h, m, sec) == 86400 + Hour(h, m) + sec
MCInstants == {Moment(11, 28, 0), Moment(12, 58, 0), Moment(13, 0, 0), Moment(13, 0, 20)}
=============================================================================
