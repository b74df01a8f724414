# A TLA+ verification of TerraFolio

TerraFolio searches a pipeline of wind and solar projects for a portfolio that
meets a mandate. A server (`src/src/terrafolio`, Python: FastAPI, sqlite, a
process pool, a genetic algorithm) accepts runs, executes them, streams their
progress and keeps their records for good; three browser screens
(`src/web/js`) state the mandate, watch the search and show the result. A
command line writes the pipeline: it generates project files, exports one as a
workbook and reads the workbook back.

What can go wrong lies between the parts: threads, processes, done-callbacks,
transactions, subscribers that reconnect, users who edit files and forms while
requests are outstanding, and one decision made by two programs. That is what
is modelled here, with the functions whose results those parts depend on: the
loading of the pipeline, the tie-outs of its files and the house model that
writes them, the feasibility of a mandate, the search, its objective, the
record of its result and the documents made of it.

`PROJECT.json` maps every definition to the lines it models, and lists the
runs, the hazards of the code at their lines, the findings and the theorems.
Paths below are relative to `src/`.

## 1. The system

| part | code | state | operations |
|---|---|---|---|
| run store | `src/terrafolio/store/` | five sqlite tables | `record_assumption_set`, `record_pipeline_snapshot`, `open_run`, `start_run`, `append_events`, `finish_run`, and reads |
| run service | `api/service.py`, `api/records.py` | callbacks under way, the candidates of pending runs | `submit`, `_succeeded`, `_failed`, `reload_pipeline`, `shutdown` |
| executor | `runner/pool.py` | a thread or process pool, or none | `submit`, `shutdown`, `_report` |
| worker | `runner/worker.py` | the pipeline it holds, the events it has emitted | `execute` |
| event stream | `api/sse.py` | one generator per subscriber | `event_stream` |
| HTTP routes | `api/routes_runs.py`, `api/routes_pipeline.py` | none | POST and GET of runs, preview, reload, status |
| pipeline source | `api/pipeline_source.py` | the load in force and its two caches | `reload`, `current`, `record`, `returns`, `rendered` |
| pipeline loading | `pipeline/loader.py`, `snapshot.py`, `derive.py` | the directory, which users edit | `load_pipeline` |
| tie-outs | `pipeline/validator.py`, `derive.py` | none | `tie_out_failures`, `min_dscr` |
| screens and feasibility | `optimiser/screens.py`, `optimiser/feasibility.py`, `web/js/feasibility.js` | none | `apply_screens`, `preview_feasibility`, and both again in the browser |
| search | `optimiser/ga.py`, `operators.py`, `repair.py` | a population | `evolve` |
| objective and result | `optimiser/objective.py`, `aggregate.py`, `result.py`, `api/scalars.py`, `domain/results.py` | one record | `score`, `build_result`, the join of masks and candidates, the validators |
| economics | `economics/` | none | terminal value, returns, levelised cost |
| house model | `generate/project.py`, `model/` | none | price, debt, statements of a site |
| directory commands | `generate/pipeline.py`, `cli.py` | the directory, a staging directory | `generate`, `export`, `ingest` |
| workbook | `generate/spreadsheet.py` | a workbook in an analyst's hands | `write_workbook`, `read_workbook`, the sheet of checks |
| exports | `export/committee.py`, `csv.py` | none | the committee pack, two CSV files |
| search screen | `web/js/search.js` | rounds queued and drawn, timers | frames, ticks, errors |
| API client | `web/js/api.js` | payloads by hold period, with their ETags | `getPipeline`, `reloadPipeline`, `openStream`, `getBaseYear` |
| session | `web/js/mandate.js`, `portfolio.js` | mandate, locks, exclusions, the last run | edits, submissions, opening a run |
| mandate page | `web/js/mandate.js`, `controls.js`, `edge-states.js` | controls, mandate, debounced write, button | edits, preview, submission |
| holdings | `web/js/portfolio.js`, `table.js` | controls, view, rows, drawer | filter, sort, steer, open |

How they interact: a POST takes the load in force, screens it, records what the
run will cite, commits a row and hands the work to the executor. The worker, in
another process, loads the directory again, marks the run as running and
appends one event per generation to the log. Its result, masks and totals, or
whatever went wrong, comes back through a done-callback, which joins the masks
to the candidates kept at the POST and writes the terminal row. Subscribers
tail the log; the row and the log are all that the parts share, and every access
is a statement or a transaction of its own. The directory is shared by the
server, its workers, the commands and the users' editors, with no lock.

What is hard, by part: two writers of one run around `finish_run`; the callback
that reads the log in one transaction and writes in another; the death of a
worker, which fails the futures of the others while they go on; shutdown while
requests arrive; a killed server; reads of status and log that straddle the end
of a run; reconnection; reloads that overlap with edits and with a POST under
way; commands stopped between two files; the session's state over three pages
and the copies that one page keeps of it; the same identities, screens and
verdicts written twice. The full list with lines is under `hazards`.

What makes each part correct:

- store: a record serves exactly what was logged; finished means frozen;
  references have no gap; what a run cites can be looked up;
- service, executor, worker: every accepted run ends, once, and as what it was;
- stream: every generation once, in order, and then the outcome;
- result endpoint: what is cacheable for ever is final;
- search screen: draws what it was sent, in order, and does not hang;
- pipeline source: a run is screened, recorded and searched on one pipeline; a
  browser gets the load and the hold period it asked for;
- pipeline loading: the hash moves exactly when what was loaded does;
- tie-outs: a file that passes is one consistent set of statements; the sheet of
  the workbook is no laxer than the gate, and the house model passes both;
- directory: a regenerated set replaces the last one, a failed one leaves it;
- workbook: what was typed is what is read;
- feasibility: a refusal is justified, and the page and the server agree;
- search: every chromosome is feasible, and the winner is the one shown;
- objective and record: a portfolio over the budget ranks last, a tile agrees
  with the penalty, the holdings add up to the totals;
- documents: screen, pack and files say the same of one record;
- session and pages: label, baseline and steering are about the run on screen;
  a mandate comes back as it was typed; table and drawer follow the controls.

## 2. The modules

    RunStore            the tables and their transactions
      RunLifecycle        service, executor, worker and callbacks over it
      PipelineSource      edits, reloads, POST and worker loads over it
    RunHistory          what readers may rely on: the abstract run
      (implemented by RunLifecycle: ImplementsHistory)
      WatchedRun          one of them, that a client reads
        EventStream         its subscriber
          SearchPage          the screen that subscribes
        ResultReader        GET of it
    PipelineCache       GET of the pipeline: two caches on the server, one in the browser
    PipelineDirectory   the three commands that write the directory
    PipelineLoad        what a load makes of the directory
    TieOuts             the identities of one file
      Workbook            the sheet that repeats them in formulas
        HouseModel          the statements of a generated file, through both
    WorkbookFile        a project file as a workbook: written, edited, read
    Feasibility         screens and warnings, of the server and of the page
    GeneticSearch       evolve, its operators and the repair
    Returns             economics of one plant
      Portfolio           from candidates and masks to the record of a run
        RunDocuments        the screen, the pack and the files made of a record
    Steering            the browser session over its three screens
    MandatePage         the first screen
    HoldingsScreen      the table and the drawer of the third

The theorems are in modules of their own (section 5):

    SumLemmas             sums over finite sets, quotients, orders, induction
    RunStoreProofs        RunStore
    LifecycleProofs       RunLifecycle: its invariant and the refinement
    PipelineSourceProofs  PipelineSource, PipelineDirectory, WorkbookFile
    StreamProofs          ResultReader, EventStream, SearchPage, PipelineCache
    PortfolioProofs       Returns, Portfolio, RunDocuments
    FunctionProofs        TieOuts, Workbook, HouseModel, Feasibility, GeneticSearch,
                          PipelineLoad
    ScreenProofs          MandatePage, Steering, HoldingsScreen

**RunStore.** One variable per table. A write of a run is a `BEGIN
IMMEDIATE` transaction (`db.py`, `writing`), a snapshot one INSERT in autocommit;
either is one action. Each operation has a *verdict* operator
that names the error its caller gets, in the order in which the code, the
triggers and the CHECKs find it; a table changes only under the verdict that
succeeds. Callers (RunLifecycle, PipelineSource) branch on the verdicts. A log
is a function from generations to points or `None`, which is what the primary
key `(run_id, generation)` makes of it. Row detail (timestamps, labels,
warnings) is inside the opaque values `Inputs`, `Results` and `Reasons`.
A submission's `eligible` is what `finish_run` compares with the holdings of a
success.

**RunHistory.** The status, the length of the log and the length of the served
curve of each run, and the four things that may happen to them. It says what
`docs/api.md` 6 to 8 let a client rely on, and it is what EventStream, SearchPage
and ResultReader run on, so that they need not carry the executor with them.

**RunLifecycle.** `job` is where the future of a run and its callbacks stand,
`step` where the code executing it stands: the two come apart when a worker
dies, when the server is killed, and when the executor gives up futures whose
workers are alive. `emitted` is the worker's own list of events, `readback` what
`_failed` read. Modes: `process`, `thread`, `inline`. In inline mode, and after
the executor is let go, the request executes the run itself.
`concurrent.futures` is external and modelled as pool.py sees it: futures in the
call queue can no longer be cancelled; the death of any worker breaks the pool,
fails all its futures, and its other workers are terminated once the callbacks
have run. What a worker logs after its future failed is the interesting case.

**EventStream.** The generator's reads are separate steps: the poll of the log,
the yields, the check of the status, the last drain. Frames travel on a wire of
bounded length; an EventSource reconnects with the id of the last frame it
dispatched. Handlers run inside `Dispatch` and the error actions, and may close
the source: the argument `after` says whether they do, so that SearchPage can
compose its handlers with the stream's actions.

**SearchPage.** Conjoins each frame handler with the `Dispatch` that calls it,
and each error of the source with `lost`. `Stop` is search.js's `stop`, and
`Close` its `source.close()`.

**ResultReader.** The three reads of one GET, each a step; the answers given are
kept, so that they can be compared with what the run became.

**PipelineSource.** A load is the hash of the accepted files and a report of the
rest: the hash does not cover rejected files, the report does. `Cited` is the
snapshot a POST took once.

**PipelineCache.** A load is its content; its two caches list their entries from
the least to the most recently used. A request is taken through its steps: the
look-up under the lock, the computation outside it, the keeping under it, and in
the browser the tag and the payload it went out with, because a 304 is answered
from those. Old loads stay, for the requests that took them.

**PipelineDirectory.** A file is who prepared it, its id and a content; a name is
of a seed and an id, because the site's name is in it. `generate` is a job that
stages, unlinks and moves one file at a step, and may be interrupted or killed
between any two; ingest and edits by hand go on meanwhile. Refusals come before
anything is written, as in the code. `before`, `kept` and `disturbed` are
history, for the properties.

**PipelineLoad.** Every function of `load_pipeline` is an operator of the
directory, evaluated in every state between edits. The order in which defects
are found is that of the code. The pipeline hash is the set of pairs it hashes.

**TieOuts.** The validator compares whole series at once; the model reads a file
a year at a time, by the identities of one year, and keeps the totals that the
identities of a whole file compare. `slack` is not in the code: it sums what the
tolerances have allowed, so that the properties can say that nothing else may be
off. Amounts are integers in the unit of the absolute tolerance; the balances
that `fields.py` lets sit a float's breadth below zero are 0 there.

**Workbook.** The formulas of the sheet are evaluated in the same step in which
the gate reads the year; `sheet` is the set of checks that read FAIL.

**HouseModel.** The years of a file are computed instead of stated: the price and
the debt of a site from one stabilised year (`Priced`), then a statement from the
debt and the plant carried over, and put through gate and sheet. `Analyst` stands
for a file that no model wrote. Money is whole numbers, where the code takes
quotients of floats: of a site that is drawn, the assumption `DrawnAreExact` says
that equity divides by the years of building, what is serviceable by its terms,
the annuity by its factor and each EBITDA of the debt's life by the payment. The
figures of any other site would tie only up to the rounding of whole numbers,
which is the model's and not the code's. Depreciation, generation, price and tax
are rounded where they do not divide.

**WorkbookFile.** A sheet is a sequence of labelled rows. A figure has a type in
the file, another in its cell and a third when it comes back; numbers count in
halves, so that there are some that are not whole. `meant` is what the analyst
typed and `spoiled` whether it was anything the reader may refuse.

**Feasibility.** A request is any pipeline of the given plants, any mandate, any
locks and exclusions. The server's signals and the page's are two sets of
operators, translated from the two sources; shares are compared after
cross-multiplication.

**GeneticSearch.** A chromosome is a set, a draw is a choice, the objective is an
arbitrary function, so what is checked holds for every seed. `Breed` is one pass
of the loop after the ranking, `Score` the pass before it. `inclusion_probability`
only weights draws and is left out.

**Returns, Portfolio.** The figures of a plant are functions of its series;
money is integers, rates are whole percents and the bisection halves down to
one: the width of its bracket is a power of two. A load is a sequence in the
order of ids and a mask a sequence over it, because what is joined is joined by
position. `SubmitRun`, `ReloadUnder`, `SearchEnds` and `Recorded` are the POST, a
reload, the worker's result and the callback; `Storable` is the validators. A mask
is read by rank: the n-th row is the position with n - 1 positions of the mask
before it (`FlatNonzero`). What a project file, a mandate and an assumption set
may hold are the assumptions `LoadsAreOfPlants`, `AsksAreBounded` and
`WeightsAreSigned`; `AmountsAreInMillions` says that the amounts of a file are
whole millions, because the record divides by a million and the model has no
fractions; and `ScoresAreApart` is what the comment on the score claims of the
shipped figures (section 5).

**RunDocuments.** A document is the record of what it says. The screen's
operators are translated from `portfolio.js` and `charts.js`, the pack's and the
files' from `export/`.

**Steering.** Storage, the page the session is on, its copies of what is stored,
the outstanding request, and every run there is, with what it was submitted
with. A run that is not this session's can be opened by its link. `edited` marks,
for the properties, a request whose page was changed before its answer.

**MandatePage.** One control stands for the eighteen, which have the same
handlers. A mandate is kept as a fraction of what the control shows; a division
and a multiplication may each be off by one binary unit, and `tidy` rounds to
`Grid` of them.

**HoldingsScreen.** The controls, the view, the header with its own sort and the
rows are four copies of one state. Statements are asked for when the drawer
opens and answered, late or never, in any order.

Every module holds, beside what it models, operators marked *Mutant*: plausible
mistakes in one definition. Nothing uses them in a specification; each shows
that a property fails when the code is wrong.

## 3. The runs

| run | states | question |
|---|---|---|
| run_store | 38 004 | can any sequence of calls separate a record from its log, change a finished run, or leave references or citations wrong? |
| lifecycle_one_process | 20 962 | does every run end, through the death of the one process, a shutdown and unstorable results? |
| lifecycle_faults | 173 216 | with deaths, shutdown, a killed server and orphans at once, does the service implement RunHistory (a success is a whole search, a cancelled run never started)? |
| search_page | 50 236 | what does a subscriber see over lost and refused connections; does the screen draw everything, in order, and leave? |
| reads | 2 922 515 | what do repeated GETs of a run see; is a pipeline that comes through the caches the one that was asked for; is a record one portfolio, and do its documents agree? |
| pipeline_source | 506 991 | is one pipeline screened, cited, recorded and searched; do commands stopped anywhere leave what they promise; is a workbook read as it was typed? |
| screens | 6 045 024 | do label, baseline and steering stay about one run; does the mandate page tell the truth; do table and drawer follow? |
| functions | 571 719 | do page and server agree, and are their refusals justified; is the search feasible and elitist; does the hash follow what was loaded; do files articulate, and do sheet, gate and house model agree? |

`MCReads`, `MCPipelineSource`, `MCScreens` and `MCFunctions` each put several
instances that share no state into one run: a behaviour is one of one of them
(`endpoint`, `subject`), and their states add up.

Bounds, and why they are enough for the questions asked:

- *Two runs* everywhere runs interact (the pool, the reference counter, the
  pipeline): a conflict is between two. One run for stream, reader and page,
  which read one only.
- *Two generations* in the store and the lifecycle: a first, and one that may be
  late. *Three* for stream and page: a batch, a cursor inside it, and a rest.
  Two possible points, so that a curve may differ in value and not only in length.
- *Batches* of up to two events in the store (the worker appends one at a time).
- `MaxDrops` = 2 lost connections: one resumed from the start, one from the
  middle. `MaxWire` = 2 frames in flight bounds back-pressure only.
- `MaxEdits` = 2 edits of the directory: away, and back again.
- `MaxCommands` = 4 commands and edits, over two seeds: a set, a second one
  stopped in its swap, somebody's edit, and a third. `MaxChanges` = 3 edits of a
  workbook of six labels: a row moved, a cell typed, the program's save.
- `MaxRuns` = 3 in Steering: a shared run, a run, a re-run.
- `MaxMoves` = 6 moves of a user among three holdings, two selected, one without
  a rate: a drawer opened, left, opened on another and on the first again, with
  one statement outstanding for each (`MaxAsked` = 1), between moves of the table:
  enough for an answer that comes after the drawer has moved on, not for two
  requests of one project. `DrawerIsTrue` is proved for any number.
- *Two projects of five kinds and fifteen mandates* in Feasibility: a project that
  fails several screens, one, none; an alias of a country; no debt; debt without a
  cover ratio.
  *Four candidates* of two costs in GeneticSearch: the capital fits two or three;
  populations of four with two elites, three generations.
- *Three projects, four loads and three mandates* in Portfolio: a reload that extends,
  reduces, renumbers or moves the base year; the shipped weights.
- *Two requests, two hold periods, three loads* of two contents and *one entry*
  per cache (the code keeps eight): every look-up may find its entry evicted.
- *Three files* of seven contents: two ids that are equal, of unequal width, of
  another year; a file that does not tie out, one that does not parse.
- *Three years* of a plant: construction, the ramp year, a year after it; each of
  nine exact rows, and each with one figure off by what is tolerated or more. The
  house model's sites have and have not debt, interest, a contract, escalation,
  degradation and a debt life within the file, and costs that rise or fall; those
  are taken whose figures
  divide (`DrawnAreExact`), since money is integers.
- Symmetry (of runs, points, reloaders, requests, hold periods, contents) only in
  runs with no liveness property.

Runs of one worker and of two: `lifecycle_one_process` has one, so that no second worker can outlive a broken pool;
`lifecycle_broken_pool` has two and shows what then happens.

`CHECK_DEADLOCK FALSE` is where the system may stop: every run finished, every
page left, every bound reached.

**Fairness.** Weak fairness of: the handler and callbacks of each run (they run
on threads of their own), its executor steps (the manager thread), the worker
(a live process is scheduled), the notice of a death and the termination that
follows, and the restart of a killed server. In the stream and the page: the
generator, delivery of a frame on an open connection, the browser's own reconnection, timers and answers.
None of a request, an edit, a fault, a death, a crash, a shutdown or of the run
under a stream. No strong fairness. The other modules have no liveness property
and no fairness.

### Runs that end in a violation

Four runs state what a comment or a document of the repository says and find it
violated; `findings` has each with its lines.

- `lifecycle_broken_pool`: `_failed` reads the log and writes the outcome in two
  transactions (`service.py:298`). When one of several processes dies, a
  survivor may log a generation between them; the record is refused, and the run
  stays in flight. With one process (`lifecycle_one_process`) every run ends.
- `lifecycle_killed`: nothing takes up the runs of a killed server, though
  `in_flight_runs` is documented for it.
- `pipeline_blocked`: the report of a pipeline covers rejected files, its hash
  does not. After a rejected file appears and the pipeline is reloaded, no run
  can be accepted: the snapshot conflicts with the one stored.
- `reopened_run`: the screen asks the pipeline of now for the base year of a
  stored run. After a reload with another base year its thirty years are
  labelled by that, and the exports of the same run by the year it was recorded
  with.

## 4. Disagreements without a run of their own

Seen while modelling, and recorded here only. The model behaves as the code
does. Where a property of a passing run has to except the case, the exception is
named in the property.

Promises that a module states and no run checks, because the code does not keep
them; TLC refutes each in a few steps when it is added to the run of its module
(all but `PassIsAccepted`, whose cases are not among the rows of the run: a file
with a wrong opex is one):

- *A drawer beside its buttons* (`DrawerShowsTheSteering`; `portfolio.js:602-619`,
  `docs/ui-contract.md` 5.5). `steer` renders the buttons again and not the Risk
  rows, so "Locked" and "Status in portfolio" are of before the press.
- *Kept files* (`KeptFilesAreLeftAlone`; `generate/pipeline.py`, `write_pipeline`).
  What the generator did not write is left "exactly as it was", unless a new file
  has its name: a garbled or renumbered file of that name is replaced.
- *A partial directory is marked* (`PartialIsMarked`; `write_pipeline`'s docstring).
  The `finally` clause removes the staging directory whatever happened.
- *A project revised and ingested again* (`RevisedProjectLoads`; `cli.py:15-16`).
  `ingest` writes `{id}.json` beside `{id}-{slug}.json`, and the next load aborts on
  two files of one id (`loader.py:205`).
- *PASS is accepted* (`PassIsAccepted`; `docs/pipeline-schema.md` 13). The sheet
  does not check the opex of a year, compares the cover as a ratio and what is
  left of the plant at a thousandth of all it cost. `AllPassMeansItTiesOut` is
  what is left of the promise.
- *No multiple without a rate* (`NoMultipleWithoutARate`; `docs/ui-contract.md` 5.1,
  `portfolio.js:115`). The pack drops it, the screen shows it.
- *No cover, no debt* (`NoCoverMeansNoDebt`; `derive.py:71`). A file may declare a
  senior debt and a tenor of no year, or of the ramp year alone. It ties out
  without a cover ratio, and what has no cover ratio is taken to be unlevered.

Others:

- *A GET of a run that ends meanwhile* (`routes_runs.py:273`). The route decides
  on the pulse and answers from a later `load_run`: it may answer as in flight,
  with a terminal status. `docs/api.md:588` says an in-flight answer has status
  queued or running. ResultReader has the two reads; its properties are about
  what is cached and about progress.
- *A refused EventSource* (`search.js:284`). An HTTP error ends an EventSource
  after one error event; `lost` waits for a second. The comment at
  `search.js:276-283` means to exclude a screen that spins for ever.
  `NoPageSpinsForEver` excepts `client = "refused"`.
- *Rounds queued when a run fails* (`search.js:270`). `fail` stops the ticker, so
  they are never drawn; `search.js:15` says no datum is dropped.
- *An edit in flight* (`mandate.js:552`, `portfolio.js:880`). The signature is
  taken when the answer arrives. An edit made meanwhile is in the baseline of a
  run that never saw it, and the action reads "Re-run"; `portfolio.js:585` says
  it tells whether anything moved since the run was submitted.
  `LabelTellsTheTruth` excepts such runs (`edited`), so of an edit and a departure
  during a POST it catches only the departure: a run accepted after its page was
  left is one the session has not signed.
- *Back, after a submission* (`mandate.js:533`, `portfolio.js:851`). Nothing resets
  `submitting` once a POST has been accepted, and no page listens for `pageshow`. A
  screen that the browser restores whole from its back/forward cache has a button
  that does nothing until it is reloaded, and a restored portfolio screen has the
  locks it was left with, whatever the storage says by then. In Steering and
  MandatePage every return to a page is a fresh load, so `PageShowsTheSession`,
  `LabelTellsTheTruth` and `ButtonTellsTheTruth` speak of loaded pages only.
- *The length of another run* (`portfolio.js:833`). Adopting a run leaves
  `totalRounds`; `search.js:112` says the stored total is used only when it is
  this run's. Not in Steering.
- *A 409 and the page* (`mandate.js:558`). The refusal of a moved pipeline leaves
  `page.payload`, so that the next attempt claims the same hash and is refused
  again until the page is reloaded. And before there is a payload the button is
  enabled and does nothing: `ButtonTellsTheTruth` begins with the pipeline.
- *The leverage signal* (`feasibility.py:160-161`). "The whole eligible pool is
  the most levered portfolio available": gearing is an average, and a part of the
  pool may exceed it.
- *The solar signal* (`feasibility.py:170`, `feasibility.js:335-337`). A pool
  short of solar "cannot reach it at all": its solar projects alone can.
- *House models without debt, or with a debt life outside the file*
  (`model/project.py`). "Every tie-out holds by construction" needs a debt and
  its life within the years: the coverage check wants a ratio in every year of
  the declared tenor, and the last closing balance must be 0. `HouseModelTiesOut`
  has both as premises.
- *A file that generates nothing* (`economics/lcoe.py:71`). It ties out and has
  no levelised cost, which a record's holdings require: a run over it succeeds
  and its record is refused. `HoldingsAddUp` is of candidates that generate.
- *A chart of nothing*. A series of zeroes has its line at the top in the pack and
  on the floor on the screen; `DocumentsAgree` excepts it.
- *A payback of one year* (`economics/returns.py`). A first flow of zero counts as
  repaid in the first year.
- *A workbook's rows* (`spreadsheet.py`, `read_workbook`). Of two rows with one
  label the last is taken and nobody is told; a `ValueError` of the reader is not
  among what `_ingest` catches.
- *Two debts in one file* (`validator.py:201-282`). The cash flow and the debt
  schedule each have a drawdown and a repayment, and no identity compares them:
  a file whose cash flow never repays the debt its schedule amortises ties out.
  `fcfe` uses the one and the terminal value the other; `terminal.py:13` wants no
  second source for the balance. `BalancesAreTheirFlows` is about the schedule,
  `CashIsEarningsBridged` about the cash flow, and no property relates them.
- *Reload in the browser* (`api.js:204-209`). The caches are forgotten before the
  POST is sent. Statements requested before it may still arrive after, and are
  kept; the comment above says clearing is what prevents that. Pipelines are
  safe by their tags (`AnswersAreOfTheAskedPipeline`), statements have none.
- *Built at most once* (`pipeline_source.py:153`). Two requests that both miss
  build the same payload twice. The comment in `returns` says so of the returns.

## 5. What is proved

TLC shows a property of small instances; the theorems below hold for every value
of the constants under the named assumptions, which every run of the module
evaluates. Each safety theorem is `Init => IInv`, `IInv /\ [Next]_vars => IInv'`,
`IInv => Inv` for the invariant named with it. Fairness is not used by any.

### The store (`RunStoreProofs`)

For any sets of runs, generations, points, batches, calibrations and pipelines,
under `StoreConstants` and `NoneIsNoValue` (the tables of claims are functions of
the right type; `NULL` is no value of a column):

| theorem | says |
|---|---|
| TypeCorrect | `StoreSpec => []TypeOK` |
| CurveIsTheLog | `StoreSpec => []ServedCurveIsTheLog` |
| References | `StoreSpec => [](ReferencesHaveNoGap /\ ReferencesAreDistinct)` |
| Provenance | `StoreSpec => []ProvenanceIsBacked` |
| Immutability | `StoreSpec => FinishedRunsAreFrozen` |
| HistoryIsKept | `StoreSpec => HistoryIsAppendOnly` |

`TypeOK` is inductive. `ServedCurveIsTheLog` needs only `TypeOK` besides: the
steps that could break it are `FinishRun`, whose verdict includes the comparison
of the curves, and `AppendEvents`, whose verdict excludes terminal runs.
`ReferencesHaveNoGap` is inductive as an equality with `1 .. last_reference`;
distinctness is not (an equal reference does not change the set), and is proved
together with it. `ProvenanceIsBacked` rests on tables that only grow.
`HistoryIsKept` needs it too, since only a snapshot on record is kept.

### The service (`LifecycleProofs`)

For any runs, workers and modes and any length of a search:

| theorem | says |
|---|---|
| Implementation | `LifecycleSpec => ImplementsHistory` |
| ServiceRunsOnTheStore | `LifecycleSpec => StoreSpec` |
| ServiceKeepsTheStore | the theorems of the store, of the service |
| LifecycleInvariant | `LifecycleSpec => []LifecycleInv` |
| PoolIsNotOverrun | `LifecycleSpec => []PoolInv` |
| LifecycleTypeCorrect | `LifecycleSpec => []LifecycleTypeOK` |

`ImplementsHistory` is a refinement: the status of a row, the length of its log
and the length of its curve, seen through the service's tables, move as RunHistory
says. Each action maps to one of its four steps on one run, or to a stutter
(`UnseenStep`, `AcceptStep`, `BeginStep`, `ProgressStep`, `EndStep`). What the
mapping needs is what those who act for a run know of it (`Orderly`): the worker's
list is the log while it lives (`LogsWhatItYields`), a search that has returned was
whole (`ReturnsAWholeSearch`), a future that was cancelled was never begun
(`CancelledBeforeStart`), and what `_failed` has read is still on the log
(`ReadsAPrefix`: it may have grown since, which is how `lifecycle_broken_pool`
comes about: the end is then refused, and a refusal is a stutter). They hold
through the death of workers, shutdown, a crash and orphans, because every one of
those takes the run away from somebody and gives it to nobody. `PoolInv` counts
the live workers that execute for the present executor.

### The pipeline in force, its directory and its workbooks (`PipelineSourceProofs`)

For any pipelines, requests, reloaders, workers and edits (`SourceConstants`, and
the store's), and any ids, seeds, counts, cover ratios and commands
(`DirectoryConstants`), any labels, series and values
(`FileConstants`, `TypedConstants`):

| theorem | says |
|---|---|
| Eligibility | `SourceSpec => []EligibilityIsOfTheCitedPipeline` |
| Verdict | `SourceSpec => []VerdictIsTheOneScreened` |
| Searched | `SourceSpec => []SearchesWhatItCites` |
| Forward | `SourceSpec => ReloadsNeverGoBack` |
| Backed | `SourceSpec => []ProvenanceIsBacked` |
| DirectoryInvariant | `DirectorySpec => []DirectoryInv` |
| FailureLeavesThePrevious | `DirectorySpec => []FailedRunLeavesThePrevious` |
| RegenerationIsWhole | `DirectorySpec => RegenerationReplaces` |
| BookInvariant | `FileSpec => []BookInv` |
| WorkbookIngested | `FileSpec => []IngestedAsTyped` |

Every step of the source is a step of the store or leaves its tables alone
(`SourceStepIsStoreStep`), so the store's lemmas apply under these callers. The
strengthening of the others is `PostOK` (what a POST holds is what it screened,
recorded and opened its run with) and `ReloadsOK` (at most one load waits to be
assigned, and it is no older than the one in force: the lock of `reload` in one
formula). `NoReportBlocksARun` has no theorem: the code breaks it.

For the directory, `JobOK` says what the files are at every step of a swap as a
function of the job (`SoFar`): what was there, less what has been unlinked, with
what has been moved in. Nothing staged is in it, which is the first property; at
`Finish` everything is unlinked and moved, which is the second. No file of
somebody else's claims an id of the payload, because `Refuses` compares them.

For a workbook, `BookOK` says that wherever a labelled row has come to stand it is
the only one of its label, in the sheet it was written to, and its cells hold what
was typed there last; sheets nobody has spoiled keep their heading first, every
row, and whole numbers where the file wants them. Moving a row, inserting a remark and
deleting a row are one lemma (`RowsAreKept`), by where each row of the new sheet
comes from. What can stand in a cell is what was exported or typed, or either
recast as a whole number, and of each of these the reader makes a value of
the field's type. `TypedConstants` is what the analyst types: a number where the field is a
number, text or a date where it is text; what is written as a whole number is
one.

### What is read of a run and of the pipeline (`StreamProofs`)

For any runs, any length of a search, any back-pressure and any number of lost or
refused connections (`PlannedIsPositive`, `WatchedIsARun`, `StreamConstants`), and
for any requests, hold periods, contents, loads and size of the caches
(`CacheConstants`):

| theorem | says |
|---|---|
| Final | `ReaderSpec => []ImmutableAnswersAreFinal` |
| Monotone | `ReaderSpec => ProgressNeverGoesBack` |
| SentIsLogged | `StreamSpec => []StreamIsTheLog` |
| DrawnIsSent | `PageSpec => []PageShowsTheSearch` |
| PageIsASubscriber | `PageSpec => []StreamIsTheLog` |
| AskedPipeline | `CacheSpec => []AnswersAreOfTheAskedPipeline` |
| BoundedCaches | `CacheSpec => []CachesAreOfTheirLoad` |

The three reads of a GET see three states. What makes their mixture harmless is
that an ended run no longer moves and a log only grows, so an end that was seen
is still true when the answer is built (`HistoryOK`, `ReadingOK`).
`StreamIsTheLog` speaks of what was dispatched, and what will be dispatched next
is on the wire, so the invariant describes the wire: the status frame if it is
still there, then exactly the generations after the last dispatched up to the
cursor, then the terminal frame if it is out (`ConnectionOK`). `GeneratorOK` is the
argument for the last drain: the status is read first, an ended run does not
grow, so the batch read afterwards is all of the log. The page's steps are steps
of the stream or leave it alone (`PageStepKeepsStreamInv`); what is drawn and what
waits are what was dispatched (`DrawingOK`), and a page that has moved on has
closed its stream (`LeavingOK`).

Caches: whatever is kept anywhere is a function of a load's content and a hold
period: the entries of both caches (`HonestLoads`), the payload the browser keeps
and the one a request went out with (`Genuine`), what a request holds between
look-up and keep (`RequestOK`). Evictions, overtaking answers and reloads only
choose among such values, and a tag names both arguments (`TagNamesThePayload`), so
a 304 is about the payload it was asked with. The two caches are kept in one of
the two forms of one lemma (`TouchedCache`, `TrimmedOne`, `KeptCache`).

### The score, the record and its documents (`PortfolioProofs`)

For any loads, mandates and weights in the bounds of `LoadsAreOfPlants`,
`AmountsAreInMillions`, `AsksAreBounded`, `WeightsAreSigned`, `ScoresAreApart` and
`ReturnsConstants`:

| theorem | says |
|---|---|
| RejectsAreLast | `PortfolioSpec => []RejectsRankLast` |
| TilesAgree | `PortfolioSpec => []TilesAgreeWithPenalties` |
| HoldingsSumToTotals | `PortfolioSpec => []HoldingsAddUp` |
| DocumentsOfARecord | `PortfolioSpec => []DocumentsAgree` |

All four rest on `PortfolioInv`: what is pending is of a load and a mandate there
are (`RunOK`), the outcome is `build_result` of a winner of *its* candidates
(`OutcomeOf`), and the record is the one made of it, or `Failed` if the validators
refuse that one. The load in force is in none of them, so that a reload disturbs
nothing.

`RejectsRankLast` is arithmetic over sums. A share is between nothing and a
thousand (`ShareIsNatural`, `SharesOfCountries`), the blended rate lies in the
bisection's bracket (`IrrIsARate`: the bisection as a recursive function exists
and halves the bracket, `BisectionExists`), so each reward has a floor
(`RewardsHaveAFloor`) and each penalty a limit (`PenaltiesHaveALimit`); a feasible
score is at least `WorstScore`, and `GradeFalls` is the other side of the budget.
`ScoresAreApart` closes the gap, and it is the assumption of
`objective.py`: "worst feasible score of about -44" against -50 for the empty
portfolio. The bound by which it is stated here gives about -46.65 for the
shipped weights at the loosest mandate. `TilesAgree` needs that a tile's figure is
the one its term was charged on: the largest of the shares of the countries that
are held is the maximum of those of all countries (`LargestOfThoseHeld`).

`HoldingsAddUp` compares sums over two things: the worker's, over the positions of
the load that its selection holds, and the server's, over the rows of the
candidates that carry the flag. A row of the candidates is the n-th eligible
position, the winner's bits are read by the same rule, and what is flagged is
matched with what is held, one to one and in the same order
(`CandidatesByPosition`; `RowsOfAMask`, by the ranking lemmas `NumbersInOrder` and
`SameOrder`). Sums over matched sets are equal (`SumsCorrespond`), so are the sums
by years and by plants (`SumsSwap`, `YearsAndPlants`), and whole millions survive
the division (`MillionsAddUp`). `RecordIsStorable` goes through the validators: the
ids grow with the positions, the shares are at most one (`SharesAreBounded`), a
plant that generates in some year has a levelised cost (`CostOfGeneration`), and the
ids that the worker lists are those of the flagged holdings (`FlaggedOfARecord`). A rate
of return has a multiple beside it (`RateHasAMultiple`): a series without an outlay
grows with no change of sign (`NoRateOfGains`), so the bisection has no bracket.

`DocumentsAgree` is about the same record, read by three programs. The rows of the
table are the holdings of the selection, one for one (`SelectedOfARecord`), hence the
count, the countries (`CountriesOfARecord`) and the sites of the map, which a
ranking by capacity reorders and does not change (`SitesOfTheMap`); the worst cover
is a least number, so it is below the floor exactly when some row is marked
(`WorstCoverIsTheLeast`, `AlertsOfARecord`); and the two charts differ only where
their span is nought (`ChartsAgree`).

### Gate, sheet, house model, mandate, search and load (`FunctionProofs`)

For series of any length, any rows, headers and tolerances (`TieOutConstants`,
`SheetTolerances`); for any sites whose figures divide (`DrawnAreExact`); for any plants, mandates, locks and exclusions
(`FeasibilityConstants`); for any candidates, costs, objective, population and number of
generations (`SearchConstants`, `LocksFit`); for any names, ids and contents of
files (`LoadConstants`):

| theorem | says |
|---|---|
| Balanced | `TieOutSpec => []BalancesAreTheirFlows` |
| Bridged | `TieOutSpec => []CashIsEarningsBridged` |
| Articulated | `TieOutSpec => []StatementsArticulate`, which is both |
| PassingSheets | `SheetSpec => []AllPassMeansItTiesOut` |
| Amortises | a level payment repays the debt in as many periods as the tenor has |
| HouseTiesOut | `HouseSpec => []HouseModelTiesOut` |
| DebtIsCovered | `HouseSpec => []DebtIsSizedToItsTarget` |
| RefusalsAreOfTheHopeless | `FeasibilitySpec => []RefusedIffHopeless` |
| PageAndServerAgree | `FeasibilitySpec => []PageAgreesWithServer`, for the shipped 20 % and 90 % |
| SearchInvariant | `SearchSpec => []SearchInv` |
| SearchIsFeasible | `SearchSpec => []EveryChromosomeIsFeasible` |
| WinnerIsShown | `SearchSpec => []WinnerIsTheOneShown` |
| HashFollowsTheFiles | `LoadSpec => HashIsTheLoadedContents` |

Tie-outs: a check that holds reconciles two figures within an allowance
(`UnbrokenReconciles`), a year that fails nothing does so for every link it has,
and figures that reconcile do so in sum, with the sum of the allowances
(`ReadingKeepsBalances`, `ReadingKeepsTheBridge`). So the validator needs no further identity for
either. The sheet: a check that fails at the gate fails on the sheet, because the
gate measures against the larger of two figures and the sheet against the one it
names first (`GateIsLooser`), wherever both compare the same two; the three of
`NotOnTheSheet` are what it cannot cover.

House model: a payment p that divides is c times a power of 1 + rate, and what is
owed after k periods, times the rate, is p less c times the k-th power
(`RepaidInPowers`); so principal and interest make the payment in every period,
the floors at zero of `schedule` are never met, and nothing is owed at the end.
That holds with no rate too (`RepaidInShares`). From it `HouseIInv` says what the
years read so far come to: the balance is what the schedule owes at the plant's
age (`OwedAfter`), equity is paid in equal parts (`EquityAfter`), the plant is
what was spent less depreciation, and gate and sheet have found nothing. Each
identity of a year is then of two equal figures (`YearTies`), each cover is
the EBITDA over the payment (`YearIsCovered`), and the totals are the declared
ones when the file ends (`WholeFilePasses`). The size of the debt: what is
serviceable times the target is the stabilised EBITDA, rate and tenor cancel
(`Sized`), and the first year after the ramp is the stabilised one
(`FirstFullYear`).

Feasibility: the locks are the cheapest portfolio that holds them, because a sum
of positive costs grows with its set (`SumsGrow`), so "some portfolio fits" is
"the locks fit". The page and the server agree screen by screen under a
correspondence of names (`ScreenNamesCorrespond`), hence in candidates and in what each
screen drops; the orders agree because both rank by the same two keys; the
findings agree because both compare the same products. The premise that the tolerance is
20 and the floor 90 is real: feasibility.js writes them as literals.

Search: trimming keeps a prefix of an order in which the locks come first. What is
kept is the set whose running total fits, the last of it has a running total that
is the whole cost, and so the cost fits (`TrimmedFits`); the locks stay because
they fit by themselves (`LocksFit`, which the 422 of the POST establishes).
`SearchInv` carries over a generation that the best is what was shown and leads
the next population: the order of a population is a permutation, best first and
stable (`Ordered`), and there is at least one elite.

Load: the hash is made of pairs of an id and the digest of its contents, and the
files stand in canonical order. That order ranks each id by how many come before
it (`IdsBefore`), and a total order on a finite set has exactly one member in
every place (`EveryPlaceIsTaken`); ids that load together have one width, so that the
order is total (`StringsAreOrdered`). Contents determine their id, so files and
pairs determine each other (`PairsAreTheFiles`). A digest is taken to be its
contents.

### The screens (`ScreenProofs`)

For any percents on any grid of more than two units (`MandateConstants`), any mandates,
steerings and number of runs (`SteeringConstants`), any holdings, columns,
filters and number of moves (`HoldingsConstants`):

| theorem | says |
|---|---|
| MandateInvariant | `MandateSpec => []MandateInv` |
| ButtonIsTrue | `MandateSpec => []ButtonTellsTheTruth` |
| MandateComesBack | `MandateSpec => ComesBackAsTyped` |
| SessionInvariant | `SteeringSpec => []SessionInv` |
| PageIsFresh | `SteeringSpec => []PageShowsTheSession` |
| LabelIsTrue | `SteeringSpec => []LabelTellsTheTruth` |
| HoldingsInvariant | `HoldingsSpec => []HoldingsInv` |
| DrawerIsTrue | `HoldingsSpec => []DrawerIsOfItsProject` |
| RowsFollowTheControls | `HoldingsSpec => []RowsAreOfTheControls` |
| RowsAnswer | `HoldingsSpec => []RowsAnswerTheControls` |

Mandate: control and mandate are always the two forms of one percent, because
`tidy` undoes one lost unit in either direction (`TidyUndoes`); what is stored or
waiting to be is that mandate (`WillBeStored`); a page that is left has nothing
waiting. Session: the signature in the storage is that of the run the storage
names (`SignatureOfTheRun`), which the unedited answer of a POST establishes
(`PostedAsSigned`). Holdings: the table's view is the controls' (`OneView`), its
rows are what the view resolves to (`ResolvedRows`), and an answer is drawn only in a
drawer still open on its project (`OneProject`). `RowsAreOfTheControls` says that
of the four copies; `RowsAnswer` adds what resolving makes of them. A row's place
is how many of the kept rows stand before it (`Sorted`). `Before` is a total order
of the holdings for every column and direction (`HoldingsAreOrdered`), so each
place is taken by one row and a lower place by an earlier row (`SortedRows`, by
`EveryPlaceIsTaken` of SumLemmas): nothing is lost or shown twice.

### Induction

The library's induction theorems take an operator and cannot be instantiated
here. `SumLemmas` proves what is needed from sets: a set of naturals that holds 0
and the successor of each of its members holds them all (`SetInduction`, from the
definition of a first member), and the same for finite sets (`SubsetInduction`).
The sums of the library choose the order of their members; `SumsExist`,
`SumsAgree` and `SumOfOneMore` show that no choice matters.

### Not proved

- Liveness: `EveryAcceptedRunEnds`, `SubscriberIsTold`, `NoPageSpinsForEver`. The
  prover has neither fairness nor ENABLED.
- What the house model's rounding adds up to, for sites whose figures do not
  divide: the theorems are of exact figures, and floats are not modelled.

## 6. What is not modelled, and why

- Floating-point arithmetic: two precisions, reduction order, rounding. Amounts
  are integers, and the modules that divide say how. That the quantised
  comparisons do not depend on the machine is for the repository's own tests.
- Reproducibility under a seed: a property of numpy's generator and of `prng.py`.
  What a site or a generation draws is a choice.
- Configuration (`config/`): read once into one immutable value, before any part
  starts; the modules take its figures as constants.
- Plausibility bands and the dispersion report, which decide nothing.
- Pages restored from the browser's back/forward cache (section 4, *Back, after a
  submission*): whether there is one is for the browser, and the screens neither
  ask for it nor refuse it.
- Run listings and `load_run_by_ref`: reads without a caller. `new_ulid`: ids of
  one millisecond are in no order, and nothing but the listing orders by them;
  `docs/decisions.md` (2B-9) concedes it.
- The browser's caches of statements and of the assumption set; the focus of
  dialogs; formatting, drawing, and the map of the screen.
- The offline solve of the command line, argument parsing, wiring, and the tools
  that extract golden figures.
- The type invariants of most modules (`PageTypeOK`, `SteeringTypeOK` and the like)
  are not checked by a run: they are parts of the inductive invariants of section 5,
  and the configurations spend their checks on behaviour.
- A database that stays locked beyond its timeout while a failure is being recorded (`service.py`,
  the last `except` of `_failed`): no promise could survive it and the code says
  so. A lock that fails a worker or the storing of a result is `Raises` and
  `ResultFaults`.
- After the death of a worker the executor refuses every later run until the
  server is restarted (`pool.py:89`): RunLifecycle has it and shows that the
  refused runs end.
- Two servers on one database: not a supported deployment. An orphaned worker
  beside a new server is in `lifecycle_faults`.

## 7. Plan

Done: all the modules of section 2, and the proofs of section 5.

Next, in this order:

1. A directory that does not load as a whole, in PipelineSource: a reload that
   raises, and a worker whose load raises. PipelineLoad says when.
2. *StartUp*: `build_service`, migrations (`db.py`, `initialise`), warm-up and
   shutdown of the application.
3. Steering and HoldingsScreen over one storage, and the search page's
   `totalRounds` with them.
