# A verification project for pricewatch

pricewatch compares the prices of shops: it scrapes their catalogues on a
schedule, keeps products and price history in a database (SQLite by default,
PostgreSQL in production), matches products of a reference shop with those of
the others, and lets operators review matches and gaps in a Vue frontend. This
directory holds TLA+ models of it, the TLC runs that check them, and TLAPS
proofs about them. Paths below are relative to the repository.

## 1. The system

### Processes and what they share

* **Web** (`pricewatch/app_factory.py`, `pricewatch/web/`): Flask under gunicorn,
  one scoped SQLAlchemy session per request. Operators create and edit scrape
  jobs, enqueue manual runs, start synchronisations, confirm and reject matches.
* **Scheduler** (`pricewatch/scrape/scheduler.py`, started by `run_scheduler.py`
  or, in development, by a thread of the web process in `bootstrap.py`): one tick
  per interval, one session and one transaction per tick.
* **Workers** (`pricewatch/scrape/worker.py`, `run_worker.py`): any number of
  processes; each claims a queued run, executes it and commits, all in one
  transaction.
* **Frontend** (`frontend/src`): Vue pages that call the web API.

They share nothing but the database (and the file cache of the HTTP client).
There are no messages and no locks besides those of the database.

### Inventory

| Part | State | Operations | What is hard | What makes it correct |
|---|---|---|---|---|
| Scheduler tick (`scheduler.py`) | jobs loaded at its start, uncommitted inserts and marks | due jobs, overlap guard, enqueue, advance `next_run_at`; retry candidates, budget, backoff, enqueue retry | works on stale objects, swallows exceptions per row, may be rolled back as a whole, limit of 50 rows | one run per window, no backlog, every retryable failure is evaluated once, retries have their lineage |
| Workers (`worker.py`) | run being executed | claim, run, complete, roll back | several workers, crash in the middle, session broken by a database error | exclusive claims, outcomes are final, nothing is lost |
| Run queue (`scrape_run_repository.py`) | `scrape_runs` | enqueue, claim, complete, list candidates | row locks on PostgreSQL only | a ledger: entered once, completed once |
| Jobs and schedules (`scrape_job_repository.py`, `scrape_schedule_repository.py`, admin routes) | `scrape_jobs`, `scrape_schedules` | create, patch, put schedule, manual run | check and insert are apart, `next_run_at` is set in one route only | no two active runs without `allow_overlap`; a scheduled job has a due time |
| Schedule arithmetic (`schedule.py`) | none | next run of an interval or cron schedule, catch-up | jitter, late ticks, change of clocks | strictly in the future, no missed window fires late |
| Bootstrap (`bootstrap.py`, `runtime_config.py`) | start-once flag, status | start scheduler thread, status | two starts at once | one loop per process |
| Match decisions (`admin_comparison_gap_routes.py`, `mapping_repository.py`) | `product_mappings` | decide, remove, list eligible targets | check and insert are apart | a target is confirmed for one reference product |
| Comparison and gap (`comparison_service.py`, `gap_service.py`) | `gap_item_statuses` | compare categories, gap view, set status | derived from decisions and mappings | confirmed pairs win, every product is in one section |
| Category mappings (`mapping_service.py`, `category_matching_service.py`) | `category_mappings` | create, update, delete, auto-link | auto-link beside manual changes and syncs | auto-link links all it promises and overwrites nothing that was there |
| Synchronisation (`product_sync_service.py`, `category_sync_service.py`, `product_repository.py`) | products, categories, price history, run counters | upsert by URL, record price changes | failure in the middle, two syncs at once, metadata changed in place | history records each change once, counters agree with rows |
| HTTP client (`net/http_client.py`) | file cache | fetch with cache and retries | files shared by processes, expiry, crashes between writes | writers that overlap leave a whole file |
| Shop adapters (`shops/*/adapter.py`) | pages visited, products so far | menu of categories, crawl of a category | pagers in circles, refusals, pages that are read twice | every page of the path once, and an end |
| Gap page and gap service (`frontend/src/pages/gap`, `gap_service.py`, `gap_repository.py`) | form, view, requests in flight; `gap_item_statuses` | select, load, take into work, mark done | answers out of order, two managers at one item, a view that is patched locally | what is shown as taken is stored, nothing is counted twice |
| Matching heuristics (`core/normalize.py`) | none | kind of equipment, score of a pair, best match | many rules that interact, rounding, thresholds | no impossible pair is suggested |
| Comparison page (`frontend/src/pages/comparison`) | selection, result, decisions and searches in flight | select, compare, decide, pick by hand | answers out of order, patches of a result that has changed, a picker that is closed and opened again | nothing decided is asked for again, nothing vanishes that is not stored |
| Matches page (`frontend/src/pages/matches`) | list, request in flight | list, delete | none: a delete asks for the list again | |
| Serializers, generic adapter, migrations, assets | none | text and HTML processing | none for a model checker | unit tests |

`PROJECT.json` lists every component with its status and the hazards at their
lines.

## 2. Modules

| Module | Role |
|---|---|
| `ScrapeQueue` | the queue: admin routes, scheduler, workers, database transactions |
| `ScrapeQueueMC` | constants of the TLC instances |
| `RunLedger` | abstract specification: what the queue promises to readers of `scrape_runs` |
| `ScrapeQueueProofs` | type correctness, windows, retry budget, overlap guard and backlog, for both backends; the write lock of SQLite |
| `ScrapeLedgerProofs` | exclusive claims and executions, lineage and backoff of retries, final outcomes; the queue implements the ledger, for PostgreSQL and for SQLite with one worker |
| `PairScore` | kind of equipment and score of a pair, the heuristic that `MatchDecisions` extends |
| `MatchDecisions` | decisions on pairs of products, comparisons and the gap view built from them |
| `MatchDecisionsMC` | constants of its TLC instances |
| `MatchDecisionsProofs` | its type correctness and safety properties |
| `ProductSync` | synchronisation of products, their price history and the record of the run |
| `PriceLedger` | abstract specification: what synchronisation promises to readers of products, prices and run records |
| `ProductSyncMC` | constants of its TLC instances |
| `ProductSyncProofs` | its type correctness, that histories, rows and counters are faithful, and that it implements `PriceLedger` |
| `CategoryMappings` | synchronisation of categories, auto-link, and mappings made by hand |
| `CategoryMappingsMC` | constants of its TLC instance |
| `CategoryMappingsProofs` | its type correctness and safety properties, and that only synchronisations deadlock |
| `PageCrawl` | crawls of the shop adapters through the shared page cache |
| `PageCrawlMC` | constants of its TLC instance |
| `PageCrawlProofs` | its type correctness, the cache, what a crawl returns and that it ends |
| `GapReview` | gap pages, their requests, and the statuses of gap items on the server |
| `GapReviewMC` | constants of its TLC instance |
| `GapReviewProofs` | its type correctness and safety properties |
| `ComparisonPage` | the comparison page: scope, comparison, decisions, local patches, the picker drawer |
| `ComparisonPageMC` | constants of its TLC instance |
| `ComparisonPageProofs` | its type correctness and safety properties |

### ScrapeQueue and the code

The processes share only the database, so the unit of atomicity is what the
database makes atomic.

* **A worker's claim is invisible.** `process_one` sets `status = running`, runs
  the job and writes the outcome in one transaction that `run_loop` commits. The
  row stays `queued` for everybody else until then. The model keeps "running" in
  `worker[w]`; `runs[r].status` is what is committed (or, for a row of the tick in
  `tick.inserted`, what it will be). A crash or a rollback of a worker therefore
  needs no repair: the row was never anything but queued.
* **A tick is one transaction of many steps.** `TickStart` is the query for due
  jobs, `TickJob` one iteration of the first loop (`TickSkipOverlap`,
  `TickSkipUnscheduled`, `TickEnqueue`), `TickListRetries` the query for
  candidates, `TickRetry` one iteration of the second (`RetryDisabled`,
  `RetryExhaust`, `RetryLater`, `RetryEnqueue`), `TickCommit` and `TickRollback`
  the two ends in `run_loop`. Other processes commit between any two of them. The
  session keeps the objects it has loaded (`expire_on_commit` and refreshing play
  no part inside one transaction), so `tick.seen` holds the jobs as they were at
  the start, and `JobOf` uses them in the retry phase too. Rows that the tick has
  inserted are visible to itself only (`Visible`).
* **A manual run is two steps**: `ManualCheck` is the route up to the overlap
  guard, `ManualEnqueue` the insert and commit, `ManualFail` its exception path.
* `CreateJob`, `PatchJob` and `PutSchedule` are one transaction each. A schedule
  is "valid" (an interval), "invalid" (`compute_next_run` raises), "disabled" or
  absent. `next_run_at` is set by `CreateJob` and by the tick, and by nothing else.
* **Backends.** On PostgreSQL, `WorkerClaim` is `SELECT ... FOR UPDATE SKIP
  LOCKED` with its update: it takes the oldest visible queued run that no other
  worker has locked. On SQLite, `WorkerSelect` is the plain query and `WorkerFlush`
  the later UPDATE by id. SQLite has one writer: `lock` is taken by the first write
  of a transaction and released at its end; who cannot get it times out
  (`TickLockTimeout`, `WorkerLockTimeout`, `ManualFail`). On SQLite timestamps come
  back without a time zone, so the comparison in `BackoffElapsed` raises, and
  `RetryLater` is what is left of a candidate.
* **Failures.** `TickCrash` and `WorkerCrash` end a process at any point; the
  database rolls its transaction back and the supervisor restarts it. A run in
  `Poison` has a runner that leaves its session unusable: its outcome cannot be
  written and the loop rolls the claim back (`WorkerPoisoned`).
* **Abstractions.** `queued_at` and the id grow together, so the queue is ordered
  by id; ids freed by a rollback are used again, which the database would not do
  and no property depends on. Priority and backoff are constants (PATCH of
  `priority` and `retry_backoff_sec` is left out). Time is an integer in a unit
  common to interval, jitter and backoff. A job has at most one schedule that
  counts: `get_schedule_for_job` returns the first enabled one. Runs without a
  job (made by the synchronous routes) are never queued and never retryable and
  are left out.

### MatchDecisions and the code

`mapping[p]` is the status in `product_mappings` of the row of pair `p`, or
"none"; `request[w]` is what web thread `w` is serving.

* **A decision is three steps**: `DecideCheck` (the query for a confirmed mapping of
  the same target to another product; 409 if there is one), `DecideRead`
  (`create_product_mapping` reads the row), `DecideWrite` (insert, or update by id, and
  commit) or `DecideEnd`. The unique constraint on the pair is the guard of
  `DecideWrite` for a row that was absent; a row that was read and then deleted is
  `gone`, and its update fails.
* **A deletion** (`DeletePair`) is one statement on one id.
* **A comparison is one step per query**: `CompareRejected` (rejected pairs of the
  reference products), `CompareTaken` (targets confirmed for anyone) and
  `CompareSaved`, the stored pairs of one reference product after the other. The
  queries of one comparison see different states of the table. From the three
  snapshots the operators `Stored`, `Matched`, `Ambiguous`, `HighConfidence`, `Lower`,
  `Shown`, `Acceptable`, `ReferenceOnly` and `TargetOnly` compute the sections as the
  phases of `_compare_multi` do. The gap view is `TargetOnly`.
* **History**: `news[w]` is the set of pairs written since the request of `w` began.
  It guards nothing; the properties use it to say "a decision older than the
  request".
* **The heuristic** compares a reference product with the targets of its own brand,
  or with all of them if none of its brand is left (`Pool`); the nearest one is a
  match if it is good enough and far enough from the next (`ClearBest`), the others
  that are good enough are candidates. So a decision on one product can change what is
  suggested for another. A target without a brand is entered twice in the list of
  all targets (`normalize.py:695-697`) and is its own rival: it is never a clear match.
* **Abstractions.** The code scores the 25 nearest targets and lists five candidates; the
  model has no such limits. Scope validation of a decision is
  optional for the caller, so decisions on every pair in `Pairs` are possible.
  `confirm-match` can store other statuses too, which no reader looks at; they are
  left out. The filters and statuses of the gap view are in `GapReview`.

### PairScore and the code

`PairScore` is `_pair_score` with everything it decides: the kind of equipment
(`Kind`, from the first pattern of the table that is found, and whether the title
speaks of a goalie), the conditions that reject a pair outright (`Excluded`), the points for
shared tokens and attributes, the penalties, the modifier for the prices, and the
rounding to a percentage (half to even, as Python rounds). A product is what
`_prep` makes of it: the kinds whose patterns are found in the title, tokens, and attributes or
`Unknown`. Which words and attributes the regular expressions find in a text, and the
fuzzy ratio of two titles, are inputs (`RefItem`, `TgtItem`, `Ratio`). `Items` states the one fact
about the patterns that the rules rely on: a pattern for the stick, skates, helmet or pants of a
goalie contains a word for a goalie. Scores are in tenths of a point, prices in
hundredths.

### ProductSync and the code

`sync[s]` is the one transaction of a request or worker; `product`, `history` and
`runs` are what is committed.

* **A sync is many steps.** `SyncStart` is `start_run`. Each offer is `ItemLookup`
  (normalised offer, `get_product_by_url`) and `ItemWrite` (the rest of
  `upsert_product`: insert or update, `_price_changed`, `add_price_history`). Others
  commit in between. `SyncFinish` writes counter and status and commits. Which offers
  the shop has is decided item by item, repetitions and missing prices included.
* **Failure.** `SyncFail` is an exception of the adapter or of an offer:
  `fail_run`, `raise`, and then the caller. The route rolls back (`Discard`); the
  runner makes a "failed" outcome of it and the worker commits (`Publish`), the
  products written so far included. `WriteFails` is an exception of the database,
  which breaks the transaction: `fail_run` cannot write, both callers roll back.
* **PostgreSQL** is modelled by its effect (external in the map): a written row is
  locked until the end of its transaction (`Waits`), an insert of an existing URL
  waits for the other inserter and fails if that one commits, a cycle of waiters is
  broken by failing one of them (`Deadlocked`). On SQLite the record of the run is
  the first write and locks out every other sync, so there is nothing to interleave.
* **The ORM** writes the columns whose new value differs from the value read
  (`UpdatedRow`). A price is read as `Decimal` and assigned as `float`, and
  `Decimal("19.99") != 19.99`, so a price without an exact binary form is
  written although it has not changed (`Inexact`), whereas `_price_changed` compares
  decimal representations. The session may still hold the object of a product that
  it has written before, and a query does not refresh it: `Found` returns the row
  or the object.
* **History.** `item.overtaken` says that the sync that held the row has committed
  since the look-up, `stale` and `raced` collect the URLs that were written after
  that. They guard nothing; the properties use them to say "unless syncs raced".
* **Left out**: columns other than price, category and run; counters other than
  price changes; skipped offers and their metadata (the code assigns the same,
  changed, object to `metadata_json`, which the ORM takes for unchanged: the stored
  counts of skipped offers stay 0); the row of the worker's own run, which
  `ScrapeQueue` has; store synchronisation.

### CategoryMappings and the code

`categories` and `mapping` are the committed rows; `sync[w]`, `link[w]` and `edit[w]` are
the one transaction that thread `w` is in.

* **A synchronisation of categories** is, like that of products, a look-up by name
  (`CategoryLookup`) and a write (`CategoryWrite`) for each category the shop reports.
  `updated_at` is set in any case, so every category met is written and stays
  locked (`Waits`, `Deadlocked`, external as above). `job` tells a worker, which
  commits what a failed sync has left, from a request, which rolls back (`SyncFail`).
* **Auto-link is many steps**: the two lists (`LinkReferences`, `LinkTargets`), then for
  each pair of the same normalized name, in the alphabetical order of both lists,
  `LinkRead` (`auto_link` skips an existing mapping), `LinkReread`
  (`create_category_mapping` looks again, and would *update* what it finds),
  `LinkWrite`, and at the end `LinkCommit`. Written pairs are locked (`Locked`).
* **A mapping made by hand** is `CreateRead` (validation and look-up, `Legal`) and
  `CreateWrite`, or `UpdateRead` and `UpdateWrite`; `DeleteMapping` is one statement on
  one id. A row that was deleted since it was read is `gone`, and writing it fails
  (`CannotWrite`); so does inserting one that is there by now.
* **History**: `link[w].old` are the categories when an auto-link began, `news` the pairs
  that others have written since. They guard nothing; the properties use them.
* **Abstractions.** Names are numbers in alphabetical order and `Norm` is any function
  of them. `confidence` goes with the match type. Categories are never deleted, as in the
  code. A shop that repeats a name updates its row again, which is left out.

### PageCrawl and the code

`file[u]` is the cache file of address `u`: the chunks of the page that it holds. The
variables indexed by a worker are the local variables of `safe_get` and of the
adapter that calls it.

* **`safe_get`** is one step per access to the file system or the network:
  `CheckCache` (the file's time of change), `LoadPage` or `LoadNothing` (read, which is
  later), `Answer` or `Refuse` (the requests with their retries), `OpenFile`, which
  truncates the file under everybody else, `WriteChunk`, `SaveFails`.
* **The adapters** differ in how they find the next page (`NextByNumber`,
  `NextByLastLink`, `NextByLastEntry`) and in what they read: hockeyshop and
  hockeyworld read a page once (`ReadPage`), prohockey looks for the category on the
  home page first (`FindCategory`) and reads each page twice, for its products and for
  its pager (`ReadProducts`, `ReadPager`), hockeyshans reads one page
  (`ReadSingle`). `Stops` is the end of the loop: no link, a page that was visited, or the limit.
  `ReadMenu` and `ReadNeededMenu` are the lists of categories; the second raises if
  a page has no menu.
* **Faults.** `Refuse` is any failure of the shop, `SaveFails` any of the disk, and
  `Crash` ends a process between any two steps, two writes included (external in the map, like the
  growing age of files in `Tick`).
* **History.** `spoiled[u]` says that a writer stopped between two writes
  after the file was last opened, `cut[w]` that the crawl of `w` was refused a page
  or was served an incomplete one. They guard nothing; the properties use them for their exceptions.
* **Abstractions.** A page is `LastChunk` chunks, the menu in the first one and the
  pager in the last one. What the shop says does not change during a
  behaviour, so the age of a page matters only for when it is read again. Back-off,
  proxies and headers are left out: only whether an answer comes is modelled. The
  generic adapter has no loop and is left out.

### GapReview and the code

`row` is `gap_item_statuses` ("new" is no row), `gap[c]` what a comparison with category `c` leaves
over; `form`, `shown`, `asked`, `load`, `lastBody` and `action` are the state and the
requests in flight of each page.

* **The page.** `SetRefCategory` clears the checkboxes and asks for the mapped
  categories; `MappedCategories` is the answer, which fills the checkboxes whatever is
  selected by then. `HandleLoad` asks for the view; the Enter key does so
  while another request is in flight, so `load[u]` has several slots. `TakeView` shows
  the answer that comes. `HandleAction` posts a status with the category *selected now*;
  `PatchShown` patches the view *shown by then*, or `Reload` asks for it again when the item is
  not in it. `ActionError` is the error path; both end in the `finally`.
* **The server.** A view is two queries: `Compare` (what `_compare_multi` leaves over) and
  `Enrich` (the statuses), others commit in between. A status is `FindRow` and then
  `UpdateRow`, `InsertRow` or `InsertConflict` (the unique key). `Validated` and `Allowed` are the checks
  of the two routes.
* **Others.** `Post` is another client of the API (another manager's page among them), `Change` a
  decision or synchronisation that changes what a comparison leaves over; both are
  external.
* **History.** `had` are the statuses an item has had, `strayed` the items that a page
  patched with the status of another category, `crossed` that a page sent one for a category
  it did not show. They guard nothing.
* **Abstractions.** One target store. The filters are a set of statuses and the products
  that pass the search. Grouping by category, formatting and export are left out.

### ComparisonPage and the code

`mapping` is `product_mappings`; `form`, `asked`, `cmp`, `view`, `save` and `pending` are the
state and the requests in flight of `useComparisonPage`, `drawer`, `picker` and `search` those of
`useManualPickerDrawer`, `ManualPickerDrawer.vue` and `useManualPicker`.

* **Scope.** `SelectRefCategory` and `SetTargetStore` clear the target categories and ask for the mapped
  ones; `MappedTargets` is the answer (or the error), in any order, for whatever is selected by
  then. The page shows no checkboxes (`ComparisonControlRail.vue`), so nothing else changes them.
* **Comparison.** `Compare` clears the result and sends the selection of the moment. The server checks the
  scope (`InScope`) and reads rejected pairs, taken targets and stored matches in three
  queries (`ReadRejected`, `ReadTaken`, `ReadSaved`), others commit in between. `Result` is what
  `heuristic_match` and the classification after it make of them.
* **Decisions.** `Decide` and `Pick` send a decision with the target categories of the moment; several can be in
  flight, though only the buttons of the last pair are disabled. The server checks and writes in two
  steps (`CheckDecision`, `StoreDecision`). `DecisionDone` patches the result shown by then, `DecisionError`
  does not; both enable all buttons. The request can fail after the commit as well (`DecisionFails`).
* **The drawer.** It covers the page. `OpenDrawer` resets the picker; the timer (`TimerSearches`, `TimerClears`) can
  fire after it was closed; searches are not cancelled. `SearchAnswers` lists any subset of the eligible
  targets, which stands for the text and the limit. What is chosen stays chosen when the list changes.
* **History.** `news` are the pairs written since the comparison was sent and not acknowledged to the page, `mine`
  those with a stored decision of this page, `origin` the result before any patch, `picker.of`, `picker.stray` and
  `search[k].left` tell which search a list came from. They guard nothing.
* **Abstractions.** A score is a constant, and each product is compared with the whole pool: brands, kinds and
  scores are in `PairScore` and `MatchDecisions`, which also interleaves several servers. Mappings of categories
  do not change during a behaviour. Confirmed pairs, target-only products and counts of the result have no
  buttons and are left out.

Operators whose comment begins with "Mutant:" are not part of the system. Each is
a plausible mistake in the definition that follows it, and `PROJECT.json` names
the property that finds it.

### RunLedger

A batch of runs is entered at once, a queued run is completed once with an
outcome it keeps, and a retry names a failed run that no other run names. The
mapping shows the ledger the committed rows only (`CommittedStatus`,
`CommittedSource`): a tick's batch appears with its commit, a worker's outcome
with its own, everything else is a stutter.

### PriceLedger

Runs are entered whole, one after another: `Enter` replaces the rows of some products by rows of
this run, appends an entry to a history exactly where the price has changed, and records as many changes as it
has appended. The exception is a product that another run has entered while this one had
looked it up already: its entry may repeat a price or miss a change, and its row may keep the category of
the other run. `ProductSync` maps its committed
tables to the ledger: `Publish` is `Enter`, look-ups, writes, rollbacks, crashes and deadlocks are stutters.

## 3. Runs

| Run | Instance | Distinct states | What it shows |
|---|---|---|---|
| `retry` | PostgreSQL, 1 job, 2 workers, 4 runs, time 5, 1 crash, one poison run, operators disable the job, its schedule, and change `max_retries` | 261 000 | lineage, twins, budget, backoff, overlap between ticks, exclusive claims, final outcomes; a tick moves `next_run_at` past itself; the ledger is implemented |
| `live` | PostgreSQL, 2 jobs of different priority, ticks that take 1 row, 1 worker, jitter, 1 crash | 74 000 | liveness, and one scheduled run per interval |
| `sqlite` | SQLite, 1 worker, 1 web thread, 3 runs, overlap on and off, invalid schedules, 1 crash | 326 000 | the single-worker development setup with manual requests implements the ledger and completes what is queued in spite of lock timeouts; two active runs of a job that forbids them take a manual one |
| `race` | PostgreSQL, 1 web thread | violation | finding 1 |
| `match` | 2 web threads, 3 reference products in 2 categories, 3 targets, 3 decided pairs | 253 000 | comparisons respect every older decision whatever their queries saw; a suggestion is never an impossible pair; a target is confirmed twice only by a race |
| `gap` | the same with 1 web thread | violation | finding 2 |
| `sync` | PostgreSQL, a web thread and a worker with a category each, 2 products, a price and no price, 3 runs of 2 offers | 310 000 | histories tell each change once, readers see whole runs one after another (`PriceLedger`), counters agree, every sync ends |
| `lost` | the same with 1 run | violation | finding 3 |
| `link` | PostgreSQL, 2 threads, a reference store with one category and another with two, all of the same normalized name | 214 000 | auto-link overwrites only what was written while it ran, and maps what it promises; no request waits for ever |
| `crawl` | 2 workers, a shop of two pages whose pager leads in a circle by numbers and ends by entries, pages of 2 chunks, crashes | 2 050 000 | the cache settles, a crawl that nothing cut short returns its whole path, every call advances to its end |
| `review` | 1 page with 2 loads and a reload in flight, 1 other client, 2 categories, 2 products, 6 events | 690 000 | the page shows as taken what was stored, counts nothing twice, stays within the mapping; its buttons come back |
| `page` | 1 page with 2 decisions and 2 searches in flight, another manager, 2 reference and 2 target categories, 3 and 2 products, 5 events | 67 000 | the page offers what is undecided and in scope, nothing vanishes that is not stored, the drawer lists targets of its product, all buttons come back |

**Bounds.** `MaxRuns` 4 leaves room for two lineages of two attempts or for one
lineage and two other runs of the same job, which is the smallest instance in
which a twin retry, a budget error by one and an overlap with an older run can
each happen. Two workers are enough for a claim conflict, which is between two
claims. `MaxTime` 5 with an interval of 2 and a backoff of 1 lets a tick be late
by more than one window. One crash may fall anywhere; the proofs cover any number.
Bounds are conjuncts of the guards (`ClockTick`, `IsNextId`, `ManualEnqueue`,
`TickCrash`, `WorkerCrash`), so they end behaviours and never cut a step in half.
When `scrape_runs` is full, a due job of `TickJob` can only wait: the tick that
holds it stops. No run of `ScrapeQueue`, `MatchDecisions` and
`CategoryMappings` switches the check for deadlock off: a
worker, the clock or an operator can always act. That is also why the liveness
properties are stated for runs that exist, for failures whose backoff the clock can reach, and
checked with enough ids for every window of the clock.

In `match`, product 1 has no brand and is near to targets x and y (a candidate group), product 2 has
the brand of x, which is its clear best and for which product 1 competes; y has no brand and is nearly as
good, z has another brand and the title nearest to product 2, so that a decision that takes x away makes the
heuristic turn to the other brands. Product 3 is of a category that
the comparison leaves out but can have the same target confirmed; the three
pairs that operators decide on share that target, so that every conflict is
about it. Two threads are enough: each property relates one request to
whatever is written during it, and the other thread can begin any number of
requests meanwhile. Its state space is finite without a bound.

In `sync`, two URLs and two offers per sync let two syncs lock products in opposite
order; three runs let two syncs race for a product that exists already, so that an
update, and not only an insert, is overtaken; one inexact price and "no price" give
every kind of change (appears, disappears, stays but is written again). Each sync
has a category of its own, as the category only goes into the rows. When all runs
are used up nobody has anything to do, which TLC would call a deadlock:
`CHECK_DEADLOCK FALSE` in `sync` and `lost`. That no sync is stuck before is
`SyncEnds`.

In `link`, two target categories of the same normalized name give auto-link a list of two
pairs, and two syncs and two auto-links the chance to lock in opposite order. A
pair that is not legal is among those that operators choose. A name of which
normalization leaves nothing is in no instance: that it matches nothing is left to
theorem `Faithful`. The state space is finite without a bound.

In `crawl`, two writers of one file, a reader and an expiry need two workers and a time to live of one
unit (`TtlSeconds` 0 also takes the branch that raises it to 1); two chunks are the least number
with a crash between two writes, and the hole that a second writer's truncation leaves. Two pages make
a circle, a limit of one page for hockeyworld stops a crawl before it. Each shop is
crawled by one of the workers. A worker can always begin a crawl or crash, so deadlock is impossible by
the shape of the model, and the check for it is switched off rather than counted as a result. The state space is finite
without a bound.

In `review`, one page has a reload and two loads of its user in flight, which is the least with a
late view that overtakes a newer one and a patch in between; the other client posts any status for the same item. `MaxEvents`
counts what users and others do (select, toggle, load, post, change), not answers: six are enough to select a
category, load, act, select another one, load and act again. When they are used up and all
requests have ended nobody has anything to do: `CHECK_DEADLOCK FALSE`. That no request is
stuck before is `ActionEnds`.

In `page`, product 1 has two near targets (a group), product 2 none, product 3 of the other category a clear one
below and, when that is taken, another one above the threshold for suggestions; the target category of `x` is
mapped to the first reference category only and is the only one of one store, so that a late answer brings a scope that
the server refuses, or a narrower one. Two decisions are the least with one answer that enables the buttons of the other, two
searches the least with one of an earlier opening that answers last. Five events are enough to select, compare,
open, close and open the drawer again, or to decide twice and compare again; answers are not counted.
When they are used up and all requests have ended nobody has anything to do:
`CHECK_DEADLOCK FALSE`. That no request is stuck before is `RequestsEnd`.

**Fairness.** `WF` on the clock, on the scheduler loop and on each worker loop:
both loops run until the process is killed and are restarted by the supervisor
(`run_scheduler.py`, `run_worker.py`), an exception is caught and the next
iteration follows. Operators and crashes have none, and crashes are finitely many.
A worker's transaction that times out on SQLite is retried with the next
iteration; since each holder of the lock releases it, weak fairness is enough
with one worker.

`WF` on `SyncStep` of each sync: the list of offers is finite and read before the
loop, the database serves who waits for a row, and nothing in the loop waits for
anything else. Starts and crashes have none.

`SF` on `Proceed` of each thread of `CategoryMappings`: the lists are finite, and who waits
for a row is in the queue of the database for it. Weak fairness would not do, as
another thread may take and release the row again and again between two looks.

`WF` on `Serve` and on `Answer` of each page in `GapReview`, and on the comparison, each decision and each search in
`ComparisonPage`: every request of a browser ends in an answer or an
error, and both have a handler. Users, other clients and changes of the comparison have none.

`PageCrawl` has no fairness: that a crawl ends is stated as `CrawlAdvances`, a tuple of natural numbers that every step of a call
makes smaller, whatever the other workers do to the files. It needs the scheduler to run
the process, and nothing else.

**Symmetry** is used on workers and web threads in the runs without liveness
properties only. The properties of `MatchDecisions` are safety properties and its
specification has no fairness. The other
modules use no symmetry.

### What was found

1. *Two active runs of a job that forbids overlap* (`race`): the manual route and
   the tick check and insert in separate statements of separate transactions.
2. *A target in no section* (`gap`): in a group of near candidates the rejected ones
   are not listed, but they count as listed when `target_only` is computed
   (`comparison_service.py:402`). The domain invariants promise that the gap view
   shows what no confirmed pair and no group has. Nothing else is missed (`GapShort`).
3. *A failed sync leaves no record* (`lost`): the service marks its run as failed and
   raises; the route rolls the record back with the rest.

That two requests can confirm one target for two reference products is
stated the other way round, as what *can* be relied on: `SecondOnlyByRace` says that
it takes a request whose conflict check is older than the other confirmation.
In the same way `OverlapOnlyManual` says what is left of the promise that finding 1 refutes: of two
active runs of a job that forbids overlap one is manual. And
`HistoryFaithful` and `RowWhole` say that a history that misses or
repeats a change, or a row with the price of one sync and the category of
another, takes a sync that wrote a row after another one had replaced it.
Without that exclusion both are violated in the instance of `sync`; `PriceLedger` makes the same one.

Seen while modelling, in the models as the code does it, and not given a run of their own:

* The queue. On SQLite, two workers can execute one run, as the second
  `UPDATE` by id does not look at the status again (`scrape_run_repository.py:213-224`: `WorkerSelect` and
  `WorkerFlush` with two workers violate `TerminalImmutable`), though never at the same time (`ExecutionAlone`), and nothing is ever
  retried, as aware and naive timestamps are compared and the `TypeError` is swallowed
  (`scheduler.py:195-196`, `RetryLater`). A schedule
  added by `PUT .../schedule` to a job created without one leaves `next_run_at` NULL and never
  fires (`admin_scheduler_schedule_routes.py:41`); an invalid schedule of a
  due job produces a run per tick as soon as the previous one has finished
  (`scheduler.py:95-120`, the run stays although `advance_next_run` raises); a run
  whose session breaks is claimed for ever (`worker.py:162-179`); jobs without
  enabled schedule keep their place in the 50 rows of a tick
  (`scrape_job_repository.py:142-156`).
* Matching. A target confirmed for
  a product of another category can be a high-confidence suggestion, and accepting
  it is answered with 409 (`comparison_service.py:312`). A target whose title tells no brand
  is never matched with certainty (`normalize.py:695-697`), whatever its score;
  `docs/domain/comparison_and_matching.md:120` knows no such rule.
* Gap review. `patchGapItemStatus` counts the summary from the items that
  the filter shows, while the server counts all (`docs/domain/gap_review.md:58`), so a status change with
  hidden items makes the summary smaller than the total. The buttons post the category that is selected,
  not that of the view (`GapPage.vue:68`), and the server validates neither the product nor its
  category for a status. A view that was read earlier replaces a newer patch when
  it arrives later. The page offers no transition from new to done or back from done, which
  `docs/domain/state_models.md:157-159` lists.
* Comparison page. The target categories that arrive last count, also for another category
  (`useComparisonPage.ts:188-194`); a confirmation sends the categories of the moment, not those of the result it
  is about (277), and is refused when they have changed. Any answer to a decision
  enables the buttons of all pairs (288). A patch drops every group without candidates and takes
  the product out of `reference_only` after a rejection as well
  (`patchComparisonResult.ts:53-58`), where its comment says that other groups "are preserved exactly as-is"
  (22-23). A decision stored while a comparison is in flight is offered again (the exception `news` of
  `OfferedUndecided`). Opening the drawer again resets the list but not the search in flight, whose answer, for the product before,
  fills it (`useManualPicker.ts:40`, the exception `stray` of `ListedForProduct`).
* Crawling. A file torn by a crash is served for its whole time to live
  (`http_client.py:133-134`): this is the exception `spoiled` of `CacheSettles`. prohockey
  reads each page twice, and a refusal of the first reading drops the products of the page and
  goes on to the next. hockeyshop and hockeyshans raise when a page has no menu, the other
  two return no categories.

## 4. Proofs

TLAPS proves, for any number of jobs, workers, web threads, runs, crashes,
products, pages and requests:

| Module | Theorem | Backend | Statement |
|---|---|---|---|
| `ScrapeQueueProofs` | `TypeCorrect` | both | `Spec => []TypeOK` |
| | `WindowsSafe` | both | `Spec => WindowsConsumed` |
| | `BudgetSafe` | both | `Spec => []RetryBudget` |
| | `OverlapSafe` | both | `Spec => []OverlapOnlyManual`, if operators do not change `allow_overlap` |
| | `GuardSafe` | both | `Spec => []NoOverlap`, if there are no manual requests, either |
| | `BacklogSafe` | both | `Spec => []NoBacklogExplosion`, if no schedule is invalid |
| | `WritersSerialised` | SQLite | `Spec => []OneWriter`: at most one session has uncommitted writes, and nobody keeps the lock outside a transaction |
| `ScrapeLedgerProofs` | `ClaimSafe` | sole claimant | `Spec => []ClaimExclusive` |
| | `LineageSafe`, `SingleChildSafe`, `SessionSafe` | sole claimant | `Spec => []RetryLineage`, `[]SingleRetryChild`, `[]SessionInv` |
| | `TerminalSafe` | sole claimant | `Spec => TerminalImmutable` |
| | `BackoffSafe` | sole claimant | `Spec => []RetryAfterBackoff` |
| | `QueueImplementsLedger` | sole claimant | `Spec => ImplementsLedger` |
| | `ExecutionAlone` | both | `Spec => []SoleExecutor /\ RowOfExecutor`: no two workers execute a run at a time, and while one does, only its own outcome changes the row |
| `MatchDecisionsProofs` | `TypeCorrect` | | `Spec => []TypeOK` |
| | `RaceOnly` | | `Spec => SecondOnlyByRace` |
| | `Respected`, `OfferSafe`, `SectionsSafe`, `GapSafe` | | `Spec => []DecisionsRespected`, `[]OfferAcceptable`, `[]SectionsDisjoint`, `[]GapSound` |
| | `Plausible` | | `Spec => []SuggestionsPlausible` |
| | `TwinsSafe` | | `Spec => []TwinsFound`: an open product is matched with, or offered, its identical twin if that is open and not rejected |
| | `GapShort` | | `Spec => []GapShortOfRejected`: a target that the gap view misses is a near candidate of an ambiguous product, rejected for it |
| | `ScoreSymmetric` | | swapping the two products leaves the score of `PairScore` as it is |
| | `PercentOrdered` | | percentages follow the order of the scores, are confident exactly above 84.5, and 65 or more for a suggestion |
| | `TwinScoresBest` | | no product scores better with another one than with its twin, which has 100 points at least and 100 percent |
| `ProductSyncProofs` | `TypeCorrect` | PostgreSQL | `Spec => []TypeOK` |
| | `HistorySafe`, `RowSafe`, `CountersSafe` | PostgreSQL | `Spec => []HistoryFaithful`, `[]RowWhole`, `[]CountersAgree` |
| | `SyncImplementsLedger` | PostgreSQL | `Spec => ImplementsPriceLedger` |
| `CategoryMappingsProofs` | `TypeCorrect` | PostgreSQL | `Spec => []TypeOK` |
| | `Legality`, `KeepsOlder`, `Faithful` | PostgreSQL | `Spec => []MappingsLegal`, `LinkKeepsOlder`, `LinkFaithful` |
| | `DeadlocksOfSyncs` | PostgreSQL | `Spec => []OnlySyncsDeadlock`: no auto-link and no edit is part of a deadlock |
| | `NoStandstill` | PostgreSQL | `Spec => []SomeoneProceeds`, if threads are finitely many: some request in progress waits for nobody, or the database ends it |
| | `Advance` | PostgreSQL | `Spec => RequestAdvances`: a step of a request ends it or gets it further, and nobody sets it back |
| `PageCrawlProofs` | `TypeCorrect` | | `Spec => []TypeOK` |
| | `Settles`, `Whole` | | `Spec => []CacheSettles`, `[]CrawlWhole` |
| | `Advance` | | `Spec => CrawlAdvances` |
| `GapReviewProofs` | `TypeCorrect` | | `Spec => []TypeOK` |
| | `StoredSafe`, `SummarySafe`, `ContextSafe` | | `Spec => []ShownIsStored`, `[]SummaryCovers`, `[]ContextLegal` |
| | `LoadingEnds` | | `Spec => []LoadingAsked`: a page that cannot load because its categories are loading has a request for some in flight |
| | `StaysReviewed` | | `Spec => NeverNewAgain`: a product taken or done never becomes new again |
| `ComparisonPageProofs` | `TypeCorrect` | | `Spec => []TypeOK` |
| | `OffersUndecided`, `OffersInScope`, `VanishesStored`, `ListsForProduct` | | `Spec => []OfferedUndecided`, `[]OfferedInScope`, `[]VanishedIsStored`, `[]ListedForProduct` |

*Sole claimant* is `SoleClaimant`: PostgreSQL with any number of workers, whose row locks
decide claims, or SQLite with a single worker.

Theorems without a run: `SessionSafe`, `SectionsSafe` and `RowSafe` are parts of invariants that others
rest on; `ScoreSymmetric`, `PercentOrdered` and `TwinScoresBest` are facts about the operators; `WritersSerialised`,
`DeadlocksOfSyncs`, `NoStandstill`, `CategoryMappingsProofs!Advance` and `LoadingEnds` are about locks and progress, of
which the runs see the effect (requests end). `ExecutionAlone` and `GapShort` say what is left of a promise where the code
breaks it: executions are exclusive even where SQLite lets two workers complete one run, and finding 2 has one
cause only. `TwinsSafe` and `StaysReviewed` are promises of the heuristic and of the gap service.

Type invariants are proved in every module. The runs leave `TypeOK`
to its theorem, which holds for every instance on the backend of the table, and spend their time on the properties that
are not about one variable.

The assumptions are those of the modules: `ConstantsAssumption` (the kinds and
bounds of the constants), `TokensAssumption` and `CrawlAssumption`, `LinksAssumption`,
`GapAssumption`, `ComparisonAssumption` where a module names its own. Each run evaluates the ones of its module.
Beyond them only the conditions of the table are used. They are needed: on SQLite two
workers execute one run twice (section 3), run `race` refutes `NoOverlap` with a manual request,
an operator who withdraws `allow_overlap` while two runs are active refutes it at once, and an
invalid schedule lets a job collect a run per tick.

### The queue

`TypeOK` is not inductive: an executing worker writes to a
row, which must exist and must not be an uncommitted one that a rollback takes
away. `TypeInv` adds that (`HeldVisible`).

On top of `TypeInv` come invariants that do not need row locks, as they are
about what the tick enters and what operators set. The lemmas `RowsKept`, `RowInserted`,
`InsertKinds`, `TickJobSession`, `TickSessionKept` and `JobsChange` say once what any step does to the rows,
the session of the tick and the jobs; each invariant uses them instead of going
through the actions again.

* `WindowInv`: the tick is not ahead of the clock, and a due time it has moved is
  past its own time. The commit writes just these (`WindowsSafe`).
* `SettingsInv` and `BudgetInv`: operators choose values of the constants, the tick
  works with objects that hold such values, so a retry that `BudgetUsed` lets pass
  has at most `MaxRetries + 1` attempts (`BudgetSafe`), even if the operator changes
  `max_retries` between two retries of one lineage.
* `JobsInv` and `GuardInv`: a job keeps the `allow_overlap` it was created with, which is
  the one that the tick has loaded; the guard sees every row of the job, as the
  rows that are not visible are those of the tick's own session. A scheduled run or a retry is
  thus never the second active run of a job that forbids it; only a manual request, whose check and insert
  are apart, can be (`OverlapSafe`, and `GuardSafe` without such requests).
* `BacklogInv`: with `n` committed scheduled runs the next due time of a job is
  `(n + 1) * Interval` or later, and the same holds in the session of the tick for the
  runs it has entered. A job that the tick takes is due, so the interval that the new run
  uses up is over; `advance_next_run` moves on by an interval at least; a rollback
  removes the rows together with the new due time (`BacklogSafe`).
* `LockInv`, of SQLite: a tick or a worker whose session has written since its last commit is the
  holder of `lock`, so there are never two (`WritersSerialised`); a timeout and a crash drop both.

The invariant of `ScrapeLedgerProofs` is

    IInv == TypeInv /\ ClaimInv /\ LineageInv

`ClaimInv` says that selected and executed runs are visible, queued and belong to one worker. On PostgreSQL the row
lock sees to this, on SQLite there is only one worker to select it: `SoleClaimant` is what both have in common and all that
the proofs use.
`LineageInv` joins `RetryLineage` and `SingleRetryChild` with `SessionInv`, what
the tick knows between reading and writing: its candidates are failed, unmarked and
childless; what it gives up stays childless; each retry in its session has its
source in `tick.processed`. None of the three is inductive alone. A retry is
legitimate because its source was a candidate; a candidate stays one because only
workers change rows and a worker writes over a queued row only (`ClaimInv`); a
commit keeps the lineage because marks and children are committed together; a
rollback keeps it because it removes both. The lemmas follow the ways in which
rows change (insert, retry, commit, rollback, completion, none), and the theorems
combine them. The refinement needs the same invariant: at
`TickCommit` the rows that become visible must have failed sources of their own.
`ExecutionAlone` uses neither `ClaimInv` nor `LineageInv` on SQLite, where several workers may have selected one run: a worker that
executes has not committed, so it is the holder of the write lock (`LockInv`), and every other writer waits
or times out. What is done twice is therefore done one time after the other. On PostgreSQL it is `ClaimInv` that keeps the others
away, and the tick marks failed runs only (`MarksInv`).
`BackoffSafe` joins the invariant with `WindowInv`: the backoff had passed by the time of the tick, and nobody
writes `finished_at` of the source again.

### Decisions and the heuristic

The invariant of `MatchDecisions` is

    IInv == TypeOK /\ SnapshotInv

`SnapshotInv` says of each thread that what its queries have returned so far agrees
with the table on every pair that is not `news`: a decision that passed its check
has no older conflict, and the rejected pairs, the taken targets and the stored
pairs of the products already asked about are those of the table. Reading
establishes each part, a write by someone else makes its pair news, and that is
all that can disturb it. `DecisionsRespected` needs one more idea: a confirmed
pair that lost its target to another product is covered by the *least* reference
product among those with a stored pair, which exists because ids are natural
numbers (the library's well-founded induction). `SectionsDisjoint` follows from the
definitions of the sections, for every score: `OpenTargets` has none of the stored
targets and a clear best target excludes an ambiguous group.

`SuggestionsPlausible` is about what is left after the decisions have taken targets
out of the pool: a suggestion scores at or above the threshold, so it is none of the
pairs that the score rejects outright; the kind of a product and the word for goalies go
together; and the pool that the best target is taken from has been chosen by brand.

`TwinsFound` says what the heuristic does not overlook. `ScoreParts` bounds each part of a score, `TwinScoresBest` puts them
together: for a product and its twin no condition excludes, nothing is deducted, and each bonus is at its best. So a twin
that is in the pool is a near candidate (`TwinLeads`); the pool contains it, as brands agree; and a near candidate is shown,
or is the clear best one, unless it is rejected (`RejectedNow`: what the comparison has read as rejected is so, or is news).
The proof found an error of an earlier version of `PairScore!PriceModifier`: a price of zero (or none) satisfied two
arms of its CASE, whose value TLA+ leaves open, where the code tests for zero first (`normalize.py:632-639`). The arms
exclude each other now.
`GapShortOfRejected` delimits finding 2 in the same way: an open target that is neither matched nor listed nor in
`TargetOnly` must have been a near candidate, and only a rejection takes a near candidate off the list.

### Synchronisation

The invariant of `ProductSync` is

    IInv == TypeOK /\ UnusedRuns /\ (\A s \in Syncs : SyncOk(s)) /\ HistoryFaithful /\ RowWhole

`UnusedRuns`: ids that the sequence has not given out have no record, so two syncs
never share one. `SyncOk(s)` is what a sync knows: its draft of a product it has
locked continues the committed history, which nobody else can extend before it
ends (`DraftOk`); an offer that has been looked up carries the current row unless
`overtaken` (`ItemOk`). `ItemWrite` turns the second into the first, `Publish` turns the
first into `HistoryFaithful` and `RowWhole` and marks the waiters as overtaken,
which is the only way in which the look-up of another sync can become old.

`CountersAgree` needs `CountInv`, too: the rows of the history that a sync has not
committed are as many as it has counted and name its run. A commit shifts them behind the
rows that are there, one to one (`CommittedCount` gives the bijection), and no other row
names that run, because a run without record has none.

The refinement of `PriceLedger` needs `StaleInv`, too: what a session calls stale is a draft of its own, of a product that has been
entered before. `LedgerWritten` and `LedgerEntries` turn
the drafts of a session into the rows and entries of `Enter`, `CountInv` gives its count of changes, and every step
but `Publish` leaves the committed tables alone (`LedgerStep`).

For `CategoryMappings` the invariant is

    IInv == TypeOK /\ MappingsLegal /\ LinksOk /\ EditsOk

`LinksOk` says of each auto-link that its lists hold every category that was there
when it began (`ListsOk`), that what it has written or is about to write was not
mapped then, or is news (`FreshOk`), and that each pair it owes is still to do,
written, mapped or news (`DoneOk`). At `LinkCommit` nothing is left to do: `FreshOk`
is `LinkKeepsOlder`, `DoneOk` is `LinkFaithful`. Requests disturb each other in two ways only,
more categories and more news, and one lemma (`FollowsOk`) shows that neither hurts.

`OrderInv` is about locks: whatever an auto-link has written comes before the pair it is at, and that before the pairs
that are left, in the alphabetical order of the two lists. Who waits for an auto-link is at a row that it has passed.
In a cycle in which each waits and is waited for, an edit does not occur, as it holds nothing while it waits, and of
the auto-links the one at the first row would have to be waited for by one at an earlier row (`FirstPair`). So a cycle
consists of syncs, which lock in the order of the shop and which the database ends (`DeadlocksOfSyncs`). Without
the order, that is without the `ORDER BY name` of `list_categories_by_store` (`IsFirst`), TLC finds two auto-links
that wait for each other. `NoStandstill` adds that finitely many requests that all wait contain a cycle (`Cycle`), and `Advance` that a
request can take finitely many steps only. The two are what can be proved of `RequestEnds`; what remains is that the
scheduler and the database let each request go on, which is the fairness of the run.

### Crawling

The invariant of `PageCrawl` is `TypeOK`, `WorkerOk(w)` for each worker and `Settled(u)` for
each file. `WorkerOk` says where a worker can be (`StepOk`), what its shop may ask for
(`ShopOk`), that the pages it has been to lead from one to the next (`TrailOk`) and that it holds what they
have (`FoundOk`, `DoneOk`). `Settled(u)` says of a file that is not spoiled
that each chunk it lacks is still owed by a worker that has it open: with the last
writer gone nothing is missing, which is `CacheSettles`. `CrawlAdvances` compares tuples of natural numbers
lexicographically: pages that may still be asked for, readings of the page, steps of the
reading, chunks to write.

### Gap review

The invariant of `GapReview` is `TypeOK` and four parts, one for each thing that can be on
its way or shown: views in flight (`Loads`), the view shown (`Shows`), posted statuses
(`Actions`) and stored rows (`Rows`). Each says that a status it carries has been stored at
some time. Histories only grow, so a late answer, which may be old, is still true in this
sense. `SummaryCovers` holds because the counters are cardinalities of disjoint sets
of items of one view. `LoadingAsked` is inductive with the types: whichever answer comes clears the flag, and only a
new request sets it. `NeverNewAgain` needs `Actions`: a request that has come as far as the table carries a status other
than new, as the service has refused the rest before.

### The comparison page

The invariant of `ComparisonPage` is `TypeOK` and three parts. `ResultInv`: what the comparison in flight has
read agrees with the table on every pair that is not `news`, and so does the result that it becomes; it lies in the scope that
the server has checked; while a comparison is in flight no result is shown, so no patch can meet it. `SaveInv`: a
decision that will be acknowledged is stored. `PickInv`: a search that is not left over from an earlier
opening asks for the product of the drawer. `ResultOk` shows that a result offers no stored pair, for any scores:
confirmed targets are not in the pool of the heuristic, rejected pairs are taken out of the lists.

### Model-checked only

The liveness properties (`RetryEventuallyProcessed`, `DueEventuallyAdvanced`, `QueuedEventuallyCompleted`, `SyncEnds`,
`RequestEnds`, `ActionEnds`, `RequestsEnd`): fairness is out of reach of the prover.
What can be said of `RequestEnds` without fairness is proved (`NoStandstill`, `Advance`).
The three refuted claims are counterexamples of TLC. Every invariant and every
other action property of the runs has a theorem.

## 5. Plan

In the order of importance; the list of runs is kept short on purpose.

1. Done: `ScrapeQueue`, `RunLedger`, their runs and the proofs of all their safety
   properties.
2. Done: `MatchDecisions` with the heuristic of `PairScore`, their runs and proofs.
   Left: the parts of normalisation that read a title (regular expressions).
3. Done: `ProductSync`, `CategoryMappings`, their runs and proofs. Left: the counters of
   skipped offers.
4. Done: `PageCrawl` (client, cache, pagination of the four shops), its run and proofs.
5. Done: `GapReview` (page and statuses), its run and proofs.
6. Done: `ComparisonPage`, its run and proofs. Left: several target stores of `GapReview`, as `ComparisonPage` has them.
7. Left: `ScheduleTiming`, cron arithmetic over a clock with a repeated and a missing hour, as operators
   checked against a reference definition; `Bootstrap`, the start-once flag of the scheduler thread.
8. Done: the ledger theorems for SQLite with one worker, and `PriceLedger` with its refinement.

The modules of 7 need runs of their own: the ones that only refute a
claim (`race`, `gap`) can be folded into passing ones by stating what does hold
(an overlap takes a manual request).

## 6. Not modelled

* Text: HTML extraction, regular expressions of `normalize.py`, slugs. They are functions of their
  input without state, left to unit tests. `PairScore` starts from the features
  that they extract.
* `Scheduler bootstrap and runtime configuration`: process start, environment variables,
  signal handlers; the loops they start are modelled.
* Serializers, schemas, catalogue and history reads: no state is changed.
* The matches and service pages of the frontend, which show lists and send single requests, templates and assets.
* The generic adapter, which needs a model of a shop of its own, and migrations, which run once.
