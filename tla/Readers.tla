------------------------------- MODULE Readers -------------------------------
(***************************************************************************)
(* The four ways by which readers come to their data: the cached pages of a *)
(* worker (ViewerCache), the ledger of path cells behind the history matrix *)
(* (PathHistory), the interpretation of a PDF (ReportParsing) and the quotes*)
(* of the moment (QuoteCache).  They share no state: the interpretation is  *)
(* a pure function of the text, the ledger lives in the database, the caches*)
(* are process-local and know nothing of each other.  What holds of each    *)
(* alone holds of all together, and so one of them moves at a time, from    *)
(* the start of the others.                                                 *)
(***************************************************************************)
EXTENDS ViewerCache, PathHistory, ReportParsing, QuoteCache

readersVars == <<vars, ledgerVars, parsingVars, quoteVars>>

ReadersTypeOK == TypeOK /\ LedgerTypeOK /\ QuotesOK

ReadersInit == Init /\ LedgerInit /\ ParsingInit /\ QuotesInit

\* The worker serves pages.
PagesMove ==
    /\ LedgerInit /\ ParsingInit /\ QuotesInit
    /\ Next
    /\ UNCHANGED <<ledgerVars, parsingVars, quoteVars>>

\* Reports and bars come and go under the ledger.
LedgerMoves ==
    /\ Init /\ ParsingInit /\ QuotesInit
    /\ LedgerNext
    /\ UNCHANGED <<vars, parsingVars, quoteVars>>

\* A PDF is interpreted.
ParsingMoves ==
    /\ Init /\ LedgerInit /\ QuotesInit
    /\ ParsingNext
    /\ UNCHANGED <<vars, ledgerVars, quoteVars>>

\* Quotes are fetched and shown.
QuotesMove ==
    /\ Init /\ LedgerInit /\ ParsingInit
    /\ QuotesNext
    /\ UNCHANGED <<vars, ledgerVars, parsingVars>>

ReadersNext == PagesMove \/ LedgerMoves \/ ParsingMoves \/ QuotesMove

\* As in ViewerCache: time passes, and a request that runs comes to its end.
ReadersSpec ==
    /\ ReadersInit /\ [][ReadersNext]_readersVars
    /\ WF_vars(Tick)
    /\ \A t \in Tasks : WF_vars(Step(t))
=============================================================================
