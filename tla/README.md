# Formal models of The Leopard Project

TLA+ models of the report and market runtime of this repository: a FastAPI
application with one API worker over SQLite, its background threads, and the
host scripts that write the same database. Source paths below are relative to
`src/`; `web/` stands for `backend/leopard_project/web/`.

## The system

| Part | State it keeps | Operations | Interacts through |
|---|---|---|---|
| Report lifecycle, `web/services.py` | `reports`, `report_files`, `publish_events`, the PDF in `.staging/` or `published/` | upload, parse, patch, ready, publish, withdraw, resolve term, reconcile | rows (one SQLAlchemy session per request), files, the SQLite write lock |
| Upload orchestration, `web/app.py:501-640` | none of its own | upload → parse → hint check → structure → automatic publication | an `async` handler: it runs on the event loop from its last `await` to its end, beside handlers of the thread pool |
| Review workflow, `web/review_workflow.py` | `report_review_issues`, and it stores `reports.status` | sync (on every view), resolve, bulk accept | the attention items inside `interpretation_meta_json`, which the parser and edits write too |
| Website MD import, `web/website_md.py` | report row, assessments, history | apply | the upload handler |
| Viewer cache, `web/viewer_cache.py` | items, generation | lookup, store, clear | every GET and every successful administration write |
| Intraday coordinator, `web/intraday.py` | `_enabled`, `_timer`, `_running_cycle`, `intraday_refresh_sessions`, `market_automation_controls` | start, pause, shutdown, refresh, timer cycle, lease recovery | timer threads, the startup thread, administration routes, `BACKGROUND_WRITE_LOCK` |
| EOD backfill, `web/market_automation.py` | retry timer, `_running`, attempt numbers in `market_refresh_items` | run_if_needed, schedule retry, shutdown | market ingestion |
| Market ingestion, `web/market_ingestion.py` | `sector_daily_bars`, indicators, runs and items | refresh_real_market, import_real_market | manual routes and the backfill, one short transaction per sector |
| Provider chain, `providers/health.py`, `providers/intraday_chain.py` | `provider_health_records`, what a cycle has learnt | decision, record success or failure, probe, fetch | the intraday cycle and manual probes |
| PDF interpretation, `web/services.py:380-2460` | none | three readers of the history matrix, six of the assessments, dates, main fields, defense lines | upload, parse, reconcile |
| Path history, `web/path_history.py` | `sector_path_history_entries` with their frozen market day | audit, sync, repair of market fields | publication, withdrawal, reconciliation |
| Reader pages, `web/serializers.py`, `web/enhanced_routes.py`, `web/enhanced.py`, `effective_strategy.py` | none | Board row, research page, history matrix, holding intervals, strategy of a session | path entries, assessments, the ledger |
| Daily market advance, `daily_market_advance.py` and the `*_daily.py` modules | completed bars, runs | advance, reconcile | host timers 15:20, and 09:10 / 15:40 (`deployment/systemd`) |
| Quote caches, `web/live_market_anchor.py`, `web/security_proxy_viewer.py` | one cached quote set, a lock | get or fetch | page reads |
| Calendars and schedules, `trading_calendar.py`, `web/schedule.py`, `web/market_session.py` | none | pure functions of the clock | all market parts |

What is hard here: handlers of the thread pool, the event loop, timer threads
and host scripts overlap on rows that each session has loaded earlier (an UPDATE
writes the columns a session changed, so updates of different columns merge and
updates of the same column overwrite); a rename of a file must agree with a
commit; the process can die between any two commits; the cache learns of some
writers and not of others; timers outlive the request that cancels them; leases
run out. `PROJECT.json` lists these hazards line by line.

What makes each part correct: a published report satisfied every publication
condition when it was published, has its PDF, is the only current one of its
date and leaves publication only by withdrawal; an interrupted upload can be
finished; an acknowledged write is visible at once and an outdated page expires;
refresh cycles never overlap, a pause holds, and an enabled scheduler keeps
refreshing; a backfill never replaces a stored bar and stays in its attempt
budget; a failing provider costs a cycle one request, and a recovered one is
used again; a day called a success has all its closes; the ledger does not
depend on the order of imports; an interpretation that asks nobody's attention
says what the paper says; pages that compute the same thing by different rules
agree; a report never changes the strategy of a session it does not precede.

## Modules

| Module | Models |
|---|---|
| `ReportRules`, `ReportHandlers` | report lifecycle, routes, review workflow, reconcile script |
| `ReportLibrary` | abstract: what the report tables promise to the pages and the ledger |
| `ReportText`, `HistoryMatrix`, `AssessmentTable`, `ReportParsing` | interpretation of a PDF |
| `PathHistory` | the ledger, its audit, market days and snapshots |
| `SectorTimeline` | what the reader pages compute for one report object |
| `ViewerCache` | the page cache |
| `QuoteCache` | the single-flight quote caches and how pages label quotes |
| `MarketCalendar`, `MarketClock` | trading days, cutoffs, the Shanghai clock |
| `BarStore` | abstract: what the daily bar tables promise |
| `EodBackfill` | automatic backfill, administrator's refresh, file import |
| `DailyAdvance` | the Market Core's daily closes: captures, repair, timers, operator's backfills |
| `IntradayScheduler` | the refresh coordinator |
| `ProviderChain` | circuits and the candidate chain |
| `Readers`, `MarketDays` | compositions (below) |

The `MC` modules give constants their values; the `_proofs` modules hold the
theorems: `ReportHandlers_proofs` (types and files of reports) and
`ReportRequests_proofs` (their statuses and dates) on the lifecycle,
`Readers_proofs` on `ViewerCache`, `PathHistory`, `ReportParsing` and `QuoteCache`,
`MarketDays_proofs` on `DailyAdvance` and `SectorTimeline`, and one each on the
other modules with theorems.

`ReportRules` holds the pure rules: what each operation computes from the row a
session has loaded (status transitions, parse results, edits, the publication
conditions, the review workflow's status). A row keeps the columns the rules
read; attention items are a set of kinds, because rules tell items apart by kind,
by severity and by whether they name a sector. `Merge` is the UPDATE of a
session.

`ReportHandlers` is the concurrent system over these rules. A handler has a
script of steps, cut where the code commits, renames or awaits; `mine` is the row
its session has loaded and changed. `lock` is the SQLite write transaction where
it spans steps: publication flushes its row, renames the file and commits, and
nobody else can write in between. Two handlers on the event loop never overlap
(`LoopFree`); routes of the thread pool and the reconcile script overlap with
everything. `Crash` ends the server's handlers, or one script, between any two
steps: uncommitted changes are gone, renames are not.

`ReportLibrary` is the abstract specification of what a reader finds: a report
is drafted, published and withdrawn, each in one step and never back, its date
is open until it is published, and a publication makes the others of the date
leave. `Library == INSTANCE ReportLibrary WITH stage <- stages, dated <- dates,
shown <- onView` reads the three from the rows: the status up to the differences
between drafts, `report_date`, and what `list_reports(published_only)` selects.
Handlers, copies, files and issues are gone. Its publication leaves open whether
the report is shown afterwards; the code does not ensure that it is (*Where the
properties stop*).

`ReportParsing` is a function of a paper: what is printed, and what the layout,
text and glyph extractions make of it. `HistoryMatrix` has the readers of the
table and the rule that chooses among them, `AssessmentTable` those of the
detailed assessments with their quality rules, `ReportText` the date, main fields
and defense lines. A row that was read is the statuses and flags its text shows;
which strings produce them is abstracted. The readings carry the printed
statuses beside them, so that a property can compare the two.

`PathHistory` has one action per transaction: parse and publish, withdraw, the
two transactions of a reconciliation, binding and snapshot of a market day, and
the repair script. `sync_path_history` follows each of those that calls it, as
part of the action. `settled` says that no authority has changed since the last
sync. The two loops over the authorities (`Adopted`, `Canonical`) go through
`Places`, the rank of each report by date and order of upload; a place without an
authority is passed over.

`SectorTimeline` keeps what reports left for one object (`entry`, `assessment`,
`cell`) and defines beside it each computation a page makes of them, with its own
precedence and its own filters; the properties relate the results. An object of
a split is `Active` from a date on: a report before it leaves a row without a
mention only (`StructuresOf`), no ledger cell and nothing to parse again.

`ViewerCache` models a page read as lookup, SELECT, send, store and a mutation as
begin, commit or failure, clear, acknowledgement; `External` is a writer the
cache does not hear of. `low` of an item or page is the number of the newest
commit it shows for certain.

`QuoteCache` models a visit as want (the cache's lock), ask, store, page. The
clock moves between these steps, so a quote may be fetched in one session state
and shown in another.

`EodBackfill` cuts a run where it leaves a transaction: what is missing is read
first, the provider is asked outside, then each sector is written by itself. A
bar keeps whether its day was over when the provider was asked, and which row
stood before it. `asked` and `owed` count for the properties. An import is one
transaction for all paths of its file. `BarStore` is the abstract specification:
a write-once table whose every addition is whole, with indicators over stored
days. `Store == INSTANCE BarStore WITH Days <- Coverage, Bars <- Bar` maps
`bars` and `basis` to it by name.

`DailyAdvance` cuts a job at its commits and provider requests. Rows added but
not committed are in `rows`; `writer` is SQLite's write lock, which a flush
inside a query takes and the next commit gives back. A statement that fails
leaves the session without a rollback, so the job ends there (`Ends`).

`IntradayScheduler` models the coordinator: `Threads` are the callers of start,
pause, shutdown and refresh (`Main` is the startup thread of each incarnation of
the worker), `Loops` the timers with their threads. `lock` is `_lock` where it
spans steps; each write phase under `BACKGROUND_WRITE_LOCK` is one step.

`ProviderChain` models the circuit per provider and the cycle that asks the
candidates of one path after another. `cycle` is where the fetch stands, and
whether `decision` took the request for a trial; `unavailable` and `checked` are
`_cycle_unavailable` and `_cycle_checked`. A probe of the administrator begins,
waits for its answer and records it beside the cycle. `wait` counts a cooldown
down; `recent` is the probes' rate limit; a provider in `stable` answers from
then on. `trials` and `failures` count the requests of the cycle that the
properties are about; a circuit that closes starts its count of trials anew.
Cycles do not overlap, which is `OneCycle` of `IntradayScheduler`, and a cycle
fetches its paths in sequence (`web/intraday.py:421`).

### Composition

The parts of `Readers` share no state: interpretation is a function of the text,
the ledger lives in the database, the caches are process-local and know nothing
of each other. The same is true of the two lanes of `MarketDays`. The product of
independent parts has no behaviour that a part does not have, so these modules
let one part move at a time, from the initial states of the others: the
reachable states are the union of the parts', and each property is about one
part. This is a way to check the parts in one instance, not a claim about an
interaction. Parts that do interact are in one module: routes, scripts and review
in `ReportHandlers`; coordinator, administrator and tables in `EodBackfill`;
jobs, timers and operator in `DailyAdvance`.

### Abstractions

Issue rows are read and written in one step of `SyncWorkflow`, as `sync` does
between its flush and its commit. `bulk_accept` is a repeated `resolve`. A "row"
item is a warning about one sector. The comparison of the frozen history may find
a difference or not. SQLite's busy timeout is not modelled: a writer waits, or
its write fails where a constant (`WritesMayFail`, `CommitMayFail`) allows that.
In `ReportHandlers` a parse has one of the results listed in `ParseOutcomes`. A
page of the cache shows the database of its first SELECT. What a refresh cycle
fetches is left out, and a lease may run out at any time. When the bounds on
sessions or timers are used up, start is not enabled. Retry delays of the
backfill are not measured: an armed timer may fire at any time. A close is one of
a few prices; prices are compared for equality only. `SectorTimeline` has no
withdrawals and no corrections of cells: those are in `ReportHandlers` and
`PathHistory`. Columns of a real matrix and rows of a real table are scaled down
through `MinColumns`, `FullShape`, `ManyColumns` and `EnoughRows`.

## Runs

| Run | Instance | States | What it shows |
|---|---|---|---|
| `ReportReview` | one report, one request at a time, all operations, four parse results, failed commits, one death, fairness | 548,449 | the stored status stays in the vocabulary; what is published was vetted, and only an edit of it takes its texts away; publication ends by withdrawal only; an interrupted interpretation does not stay interrupted |
| `PublishRace` | two PDFs, two dates, two handlers, automatic publication, a differing date hint | 78,595 | the tables implement `ReportLibrary`, so that a date shows one report at most and a publication ends by withdrawal; one publication per report; automatic publication takes no date from another report; file and row agree while no two requests publish one report |
| `Readers` | pages: two requests, lifetimes 1 and 2, two versions, two generations. Ledger: three reports on two dates, a sector and a split object, a report whose parse changes, one that corrects another. Papers: five columns, a retired sector, its successor, a display row that is no sector; each extraction damaged once per row, by a wrap of one status or a wrapped label, a cut, a tear after two statuses, an echo, a loss or a lost name. Quotes: the end of a morning, the lunch break, the first moments of the afternoon | 225,311 | acknowledged writes are visible, cached pages are not stale, outdated pages expire; the ledger is canonical, its market days are exact and a source keeps its status; where rows and names stand apart a verified matrix is the printed one; an unattended interpretation is certain of its date, history and core line and shows printed statuses; quotes advance and are labelled honestly |
| `Intraday` | two callers, two timer chains, two sessions, one restart, fairness | 142,927 | the six scheduler properties |
| `ProviderChain` | two providers, each first choice of one path, thresholds 2 as in the policy, cooldown 1 doubling to at most 2, one probe request, one restart, fairness | 1,286,848 | circuits stay consistent, one trial and one failure per provider and cycle, a first choice that works again gets its circuit closed |
| `EodBackfill` | two paths, one without a verified candidate, two trading days around a holiday, two attempts, a file of one path and one of both, failing writes, one death, fairness | 325,447 | the tables implement `BarStore`; the attempt budget; the automatic run stores finished days only; a pending run is retried while the worker lives |
| `MarketDays` | closes: anchor, two securities in batches of one, two jobs, one operator's backfill, failing writes. Reports: a Friday, a day without a session and the Monday after it, three publications or edits in any order | 340,803 | a success is covered, closes are of completed days and no job changes one; the pages agree with each other; no report rewrites a session |
| `RequiredIssue`, `PublishTwice`, `LostRevision`, `TimerKilled`, `TwoLoops` | small | | five places where the code does not do what its own text says (`findings`) |

Bounds. One report suffices for what concerns a report alone; two reports and
two dates for what concerns a date, since every rule compares one report with
another. Two handlers give each pair of overlapping requests. One death between
any two steps shows every intermediate state to every later request. Two
versions and two generations let a page be behind by one write while another one
clears the cache. Two timer chains are needed for the second one to appear; with
two sessions a dead worker's row meets a new one. Two paths let a provider be
asked twice in a cycle, and the cooldown reaches its maximum at the second
opening. Three ledger reports give a cell its own source, a rival of the same
date and a corrector, across a year's end. A date behind a day without a session
is what makes report day, market day and effective day differ. Two attempts make
the last one and one before it; two jobs and batches of one, each place between
two requests. A file of two paths is one commit over both. Five columns, and
`WrapMax = 2` for the 3 of the code, keep the thresholds of the matrix readers in
reach of a damaged row and let rows meet that complete each other. Where a theorem is
listed, the bounds of its property do not matter.

Fairness. `ReportHandlers`: a handler that runs goes on, and an administrator
who is alone keeps uploading the PDF of an interrupted interpretation (strong,
as other requests come in between); nobody is assumed to do anything else.
`ViewerCache`, also in `Readers`: requests finish and time passes.
`IntradayScheduler`: threads are scheduled, and who waits for `_lock` gets it in
the end (strong, as it may be taken in between); starts, pauses and restarts are
free. `ProviderChain`: cycles follow each other (the enabled scheduler) and time
passes; probes are free, and `PrimaryRecovers` speaks of a provider whose
endpoint works from some moment on. `EodBackfill`: an armed timer begins
its run, and a run that has begun goes on; refreshes, imports, deaths and the clock
are free, and so is the startup thread, which calls the coordinator only after
`intraday.start` has returned (`web/app.py:169-170`) and ends where that raises
(`BootFails`). `PendingIsRetried` is about the life of a worker: a death ends what is
owed, and nothing is promised of the retry after it.

`CHECK_DEADLOCK FALSE` stands where the system really may stop: a paused
scheduler without callers, a backfill with nothing missing and a clock at its
last instant, jobs and readers with nothing left to do within the bounds.

### What the failing runs show

* `RequiredIssue`: resolving an issue that has no subject drops all attention
  items without a sector (`web/review_workflow.py:218`), blocking ones too, and
  the report can be published with a required issue open.
* `PublishTwice`: of two requests that publish one report, the second finds the
  staged file gone. Its compensation (`web/services.py:2732-2741`) takes the
  name from the row as it is after the rollback, which is the winner's, and moves the
  winner's PDF from `published/` back to `.staging/`, under a published report.
* `LostRevision`: each of two publications of a date sets `is_current` of the
  other report to false and of its own to true (`web/services.py:2639-2642`). A
  report is current from its upload on, so for a session that loaded it before
  it was demoted the second assignment is no change and not in its UPDATE: both
  are published, neither is current. `docs/architecture.md:40` promises one
  current version.
* `TimerKilled`: a failing write in `_schedule` (`web/intraday.py:379`) ends the
  timer thread of an enabled scheduler.
* `TwoLoops`: pause and resume during a refresh leave two timer chains.

`PdfWhileApart` and `RecordWhileApart` say what `PublishTwice` leaves of the
files: with no report published by two requests at a time (`PublishersApart`), a
published report has its PDF, and every file is where its row says. The second
is checked where commits succeed and the process lives. The same compensation
does nothing after a failed commit, since the rollback restores the `.staging/`
name it then looks under, and a death between rename and commit has none: both
leave the file in `published/` under a row that says `.staging/`. The first
holds with these too, and is proved so.

### Where the properties stop

Met while modelling, outside what the properties claim or excluded by an instance:

* A third request that publishes a report finds the file which the compensation of
  the second has put back, and publishes it again: `OnceWhileTwo`, the refinement
  and the theorems on them are about histories with two at most (`TwoAtMost`). TLC
  finds the second event, and a publication that is taken back, with three handlers
  on the instance of `PublishRace`.
* An edit may empty the texts of a published report (`web/services.py:2584-2589`; the
  schema asks for no length): `PublishedIsVetted` says that they were there when it
  was published.
* The Board's `current_effective` falls back to the latest carried status where
  no report is in force (`web/serializers.py:513`), so the first report of an
  object is shown in the session of its own day, against the comment at 505-507.
  `SessionNotRewritten` covers the Board where a report is in force. Its
  statuses leave out a latest report that has a path entry but no ledger row;
  the research page shows it, and lacks the Board's clause on the latest report
  for low attention (`web/enhanced_routes.py:837`). `BoardAgrees` is stated
  where both stand on the same facts.
* The Board joins all assessments of an object to its statuses
  (`web/serializers.py:307-311`), without the lifecycle test of lines 205 and 315:
  an administrator's edit of an assessment of a report older than a split object
  would be on the Board alone. `OwnLedger` leaves that state out.
* The matrix prefers the report published last, the strategy the later date;
  `MatrixAgrees` is about days on which both are the same report.
* The layout reader's prefix match lets a complete row of a longer name stand
  for a shorter one, and split rows for a retired parent
  (`web/services.py:1662`). The legacy reader takes the next row for wrapped
  statuses when both together fill the columns (1521-1525), although the comment
  at 1518-1520 speaks of exactly one final status and of not consuming the
  following row. A matrix with such rows is verified with statuses of other
  rows. `StatusesArePrinted` excludes them by hypotheses on the table,
  `RowsApart` and `NamesApart`; the papers contain such tables, and without
  either hypothesis TLC finds the shifted status.
* With a verified matrix, doubtful assessment rows raise no attention item (2198);
  an impossible freeze date raises and fails the parse (2254-2261); parsing again
  overwrites a date an administrator has confirmed (2366).
* The detail report of a ledger entry may be a draft (`web/path_history.py:241`);
  an interrupted reconciliation leaves its report in review; no parser writes
  `history_corrections`, so these are inputs of the model.
* A partly failed quote batch keeps the failed symbols unavailable for the full
  lifetime; lifetimes count from before the fetch; pages with different cache keys
  may show different quotes of one symbol; the proxy viewer accepts a quote of the
  future that the market core calls stale.
* A capture that loses an insertion race catches the error without a rollback;
  the job's next query raises and its run row stays "running".

## Theorems

All are proved from the assumptions on the constants, for any sizes of the sets
and any numbers of steps. A hypothesis beyond those is named with its theorem,
with the run or instance that shows why it is there.

### Reports

`ReportHandlers_proofs`, from `NoDateAssumption` and `ConfigAssumption`:
`TypeCorrect`, and `ViewerHasPdf` (`PdfWhileApart`). That a published report
has its file is not inductive: a handler publishes a row it has loaded earlier.
The invariant adds that the file is at least as far as the row
(`FilesFollowRows`), that published rows are promoted (`PublishedRowsPromoted`),
that a loaded copy which says "promoted" agrees with the database
(`CopiesSeePromotions`), and that between rename and commit the handler holds the
write lock (`LockSpansPromotion`). The lemmas say what the rules keep of a row,
and what `Merge` does with that. All this while no report is published by two requests
at a time, which `PublishTwice` shows to be needed. `FilesStayRecorded`
(`RecordWhileApart`) adds the other direction, where no commit fails and no process
dies.

`ReportRequests_proofs` has two groups, for any number of reports and handlers,
with failing commits and, where `MaxCrashes = 0` is not a hypothesis, crashes.

*One request after the other.* `Spec /\ []Serially => P`, where `Serially` says
that at most one handler is at work: `SerialStatuses` (`KnownStatus`),
`SerialVetted` (`PublishedIsVetted`), `SerialWithdrawal`
(`PublishedOnlyWithdrawn`), `SerialKeepsDate` (`ViewerKeepsDate`) and
`SerialNeverReplaces` (`AutoNeverReplaces`) for all requests; `SerialOnce`
(`PublishedOnce`) and `SerialClashes` (`OnlyRedatingClashes`) where the instance
has no reconciliation script, which puts a report back into review and publishes
it again. The invariant `SInv` says that the copy of the handler at work is the
row, fits the step it is at (`Fit`), and that automatic publication has found no
rival (`Clear`). Then every step is one of four moves of the rows (`Moves`):
none, a new row, a change of the handler's row within `Change`, or a
publication; the theorems follow from the moves without looking at the actions
again. `ReportReview` has one handler, so `Serially` holds of it.
`ViewerKeepsDate` holds one request after the other only: `LostRevision` is its
failing run.

*Requests that race.* `Spec => P` under `Ops \subseteq RaceOps`, which are the
uploads, publication, withdrawal, readying and the decision on a term:
`RaceOneCurrent` (`OneCurrent`), `RaceStatuses` (`KnownStatus`), `RaceVetted`
(`PublishedIsVetted`), `RaceNeverReplaces` (`AutoNeverReplaces`). Copies may be
stale here, and a stale status may be written. What holds the proof together
(`RInv`) is that a copy is stale in its status only: what an interpretation found
(`SameFacts`) is changed by an interpretation only, uploads exclude each other on
the event loop (`OneUpload`), and while one interprets nobody has a copy with
facts of that report (`Alone`). `Unique` is kept by the publication because it
demotes the others of the date in its own transaction, and no request of
`RaceOps` dates a report later. `OneCurrent` is not a property of a run: in
`PublishRace` it follows from `LibraryImplemented`, as `LibraryKeepsDates` shows.

The hypothesis is where the properties end, as TLC shows on the instance of
`PublishRace` with one more request: a stale decision on an issue (`resolve`), with
a crash, leaves two current reports; a parse that is repeated beside another
request, a reconciliation, or a stale edit (`patch`) with a crash stores a status
outside the vocabulary; with a crash the review's own sync on a view publishes what
a stale copy calls complete. `PublishedOnlyWithdrawn` does not survive a race within
all of `RaceOps`, where a stale `ready` of a report with a warning takes a published
one back (without it: `RaceWithdrawal`, below).

`RaceRequired` (`RequiredIssueBlocks`), under `Ops \subseteq RaceOps`: no report is
published over an open issue that must be handled. The publication does not look
at issues but at the attention items in the metadata, so the invariant (`FInv`)
says that an open required issue has its item there (`OpenIsFlagged`). It is kept
because the items are written by the interpretation only, with the issues not yet
synced, and a sync opens issues for the items it has read. `resolve` is the request
that removes items of issues it does not close; `RequiredIssue` shows what follows.

`RaceOnce` (`OnceWhileTwo`), under `Ops \subseteq OnceOps` (the uploads that are
not an import, publication, withdrawal and the decision on a term) and
`MaxCrashes = 0`; commits may fail. Nothing in the code excludes a second
publication by itself: two requests may both have found the report unpublished.
The second finds that the staging file is gone, since the first promoted it before
its commit; its compensation then puts the file back, for a third to find, and so
the property is of histories in which two requests at most publish a report at a
time. After that a second publication needs the row open again, and the one way
there is the sync of the review that an upload begins with. The invariant says
that while somebody may publish a report (`Keen`), the upload's sync finds nothing
to change (`Quiet`), that a copy tells by its file name whether the report has left
the drafts (`Settled`), that who may still publish a published report is alone and
finds the file promoted (`LastRival`), and that a report whose publication failed
after the rename is never published (`Stuck`). A death between
upload and sync leads to a second event on the instance of `PublishRace`, and so
does a `ready` beside the publication of a report with a warning.

`RaceImplements` (`LibraryImplemented`), under the same hypotheses: `LibraryStep`
maps every step to `Upload`, `Date`, `Publish` or `Withdraw` of one report, or to a
stutter. A step that is no publication changes one row, publishes nothing and
redates no report that has left the drafts: interpretation works on drafts only, and
the rest write the status. The name of the file tells whether a report has left the
drafts, and only a publication changes it (`CopiesFollow`: no upload takes a
published file back); so a stale status cannot bring a report back.
Two results follow through the abstract module: `RaceWithdrawal`
(`PublishedOnlyWithdrawn`), and `LibraryKeepsDates`, that a date shows one report at
most (`OneIsShown`), that a published one keeps its date, and that it leaves the
Viewer by its own withdrawal or another publication of the date and does not come
back (`LeavesForGood`).

`upload_md` is outside these proofs only: TLC finds no second publication with it
(two reports, two handlers, automatic publication, failing commits). There the
argument would need more, namely that the reports of a date do not change while
one of them is about to be published.

### Reader pages and ledger

`Readers_proofs`, on `ViewerCache`, from `TtlAssumption`: `CacheType`,
`NothingStale` (`[]CacheNotStale`), `ReadYourAck` (`[]AckedIsVisible`). The
invariant says of items, and of pages whose generation is still the current one,
that they show every acknowledged commit, and that a mutation which has committed
but not cleared cannot be acknowledged yet.

On `PathHistory`, from `LedgerAssumption`: `CanonicalLedger`
(`[]LedgerIsCanonical`), `ExactDayHolds`, `SourceKeepsStatusHolds`. The first is
the claim of `sync_path_history` that its result does not depend on the order of
imports, for any finite set of reports and whatever their matrices say. Its two
loops are recursive functions over the places. For each, what it has reached
after any place is stated without the loop: the adopted claim of a cell is of the
date's own report among those passed, else of the earliest that speaks of it
(`AdoptedThroughout`); the corrected one is of the latest corrector passed
(`CorrectedThroughout`). A place where the statement failed first would follow one
where it holds, and one turn keeps it (`AdoptStep`, `CorrectStep`, `NextPlace`); so it
holds at the last place, where it is the reference (`CanonicalHolds`). The rest is
what keeps a settled ledger settled: every action that changes an authority
unsettles it (`SettledStays`). That a function over the places exists is proved
the same way (`SweepExists`).
`ExactDayHolds` needs that the detail report of an entry is of the entry's date,
and that a snapshot was taken from bars that stay (`LedgerInv`).

On `QuoteCache`, from `InstantAssumption` and `VisitAssumption`:
`QuotesAdvanceHolds` (`[]QuotesAdvance`) and `HonestQuotesHold`
(`[]HonestQuotes`). The first stands on the lock of a feed
(`LockedWhileAsking`): who asks holds it, so that no answer is stored over a newer
one, and what a visit found printed when it began (`SeenBefore`) is not ahead of
what the feed has (`EntriesLead`, `AnswersLead`).

On `ReportParsing`, from `PaperAssumption`: `UnattendedKnows`
(`[]UnattendedIsCertain`), for every PDF and whatever the extractions make of it.
The item of a date that is not trusted, of a matrix that is not verified or of
lines in conflict is raised wherever the report could take one. `TrustedDate` goes
through the sources of a date; `MovedLine` says that the evidence of a move is
strong, so that without a conflict it is the only one left and the count among
values does not matter.

`ReadersApart`: a behaviour of `Readers` is one of each of its parts, so these
theorems hold of the composition that the run checks.

### Market data and trading days

`MarketCalendar_proofs` has the facts the other modules need of the calendar: the
latest and earliest of some days are among them, a completed day is one that is
over, and a day that is over stays over.

`MarketDays_proofs`, on `DailyAdvance`, from `AdvanceAssumption` and
`CalendarAssumption`: `DailyType`, `Covered` (`SuccessIsCovered`), `Completed`
(`CompletedDaysOnly`) and `ClosesStay` (`CloseStays`). `DailyGood` adds to the
types that a job at work is about a day that was over when it began (`SoundJob`),
and days stay over. `Finish` inserts without asking again; that is right because a
session which has flushed rows holds the write lock until its commit, and none of
its rows is in the table (`Held`). A success covers its day because rows are only
added.

On `SectorTimeline`, from `TimelineAssumption` and `CalendarAssumption`:
`TimelineType`, `SessionsAreFinal` (`SessionNotRewritten`) and
`PagesAlwaysAgree` (`[]PagesAgree`). The Board's part of `SessionNotRewritten`
follows from the strategy's, on which it stands where a report is in force. A
report comes into force on a trading day after its date, and a report that is
not published has no rows (`Unwritten`), so its publication touches that date
alone. The pages agree in every state that is well typed: each takes its last
word from the latest active report that told one, whichever tables it reads
(`BoardIsResearch`, `MatrixIsLastWord`). Whether a holding is open is computed
by two different folds over the days, one backwards (`active_holding_interval`)
and one forwards (`holding_intervals_for_sector`); they are related day by day,
and a first day where they disagreed would follow one where they agree
(`HoldingHolds`).

`LanesAreApart`: a behaviour of `MarketDays` is one of each lane.

`EodBackfill_proofs`, from `EodAssumption` and `CalendarAssumption`: `EodType`;
`Refines`, that every step of the backfill, the refresh, the import or a death is
a step of `BarStore` or leaves its tables alone; `TablesComplete`, a property of
`BarStore` carried over by that refinement; `Budget` and `FinalOnly`. The
refinement needs that a bar has indicators exactly when it is stored (`Indexed`).
The budget needs that whenever a run can still begin, what was asked is within
what is recorded, and that a run in progress is the one request that may be ahead
of it (`Spent`). Finality needs that what an automatic run has in hand is of days
that were over (`Finals`): days of a gap are not after the expected day.

### Refresh and providers

`ProviderChain_proofs`, from `PolicyAssumption`: `ChainType`, `CircuitsAgree`,
`OneTrial`, `OneFailure`. The counts are not inductive: `Learnt` adds that a
counted trial is either still pending or has put its provider into
`_cycle_unavailable`, that a closed circuit has no counted trial, and that a
request waits only for a provider that is not unavailable.

`IntradayScheduler_proofs`, from `ActorAssumption`: `SchedulerType`,
`CyclesNeverOverlap` (`OneCycle`), `PauseIsKept` (`PauseHolds`), `OneSession`
(`OneRunningSession`) and `LoopCarriesOn` (`EnabledHasLoop`); the last two for
`WritesMayFail = FALSE`, and `TimerKilled` shows that the last one needs that.
The argument: the steps of start and pause hold `_lock` (`LockHeld`); who is in a
cycle has set `_running_cycle` and is alone (`CycleAlone`); under the lock a
start has seen no pause, and a pause has disabled (`PauseSeen`); a running row of
this worker is the current session, and none is running when a start is about to
insert one (`SessionsKept`); an enabled scheduler has a timer's thread or a start
about to arm one (`LoopKept`).

### Only model-checked

Liveness (`InterruptedRecovers`, `OutdatedExpires`, `RefreshGoesOn`,
`PauseEndsLoops`, `PrimaryRecovers`, `PendingIsRetried`) is out of the prover's
reach. `StatusesArePrinted` compares statuses with what is printed; what an
extraction may make of a printed row is given by the papers of the instance and by
nothing else, so there is no general statement to prove, and the readers of rows
are folds, about which the prover has no induction. Every
other property of the passing runs is stated by a theorem; those of
`ReportHandlers` have the hypotheses above, which each run that checks them meets:
`ReportReview` has one handler, and the requests of `PublishRace` are within
`OnceOps`, with two handlers and no death.

## Not modelled

Extraction of text from a PDF, provider clients, indicators and reconciliation
arithmetic, configuration look-ups, PDF preview, authentication, audits and the
frontend: input and output, or functions without state. Of the modelled parts:
returns, moving averages, pins, counters and payload layout; parsing of website
MD; `compare_frozen_history`, which compares month and day only and just reports;
`schedule.py` and `eod.py`; the research page's fallback when the ledger is
empty. `PROJECT.json` gives the reason for each part.

## Plan

1. `RaceOnce`, `RaceImplements` and `RaceWithdrawal` with `upload_md` among the
   requests.
2. `OneCurrent` and `KnownStatus` for instances that add one of the excluded
   requests under a condition that keeps its copy fresh; the readers of a table in
   `HistoryMatrix`, from a stated relation between what is printed and what an
   extraction shows of it.
3. Incremental history of the website MD import, and what an intraday cycle
   stores.
