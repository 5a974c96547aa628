# Verification of kimimeter

TLA+ models of kimimeter, a dashboard over Kimi Code transcripts: an hourly
ingest mirrors transcripts from an R2 bucket into Postgres, read endpoints
answer from derived tables through an in-process cache, and open pages are told
by server-sent events when an ingest changed data. The page draws a dozen panels,
each of which fetches for itself, and an Inspector of single transcripts.

Every definition is translated from the source; `PROJECT.json` names, under
`map`, the lines each one stands for, and under `hazards` what in this code is
hardest to test and which property would catch it; lesser ones are in section 3.

## 1. Inventory

| Component | State it keeps | Operations | Interacts with |
|---|---|---|---|
| Ingest (`backend/ingest.py`, `r2.py`, `schema.sql`) | tables `files`, `records`, `tool_uses`, `projects`, three rollups, `ingest_runs`; per run: listing, plan, batch, counts | scan, plan, fetch and parse on a pool, persist per file, delete orphans, book, recompute `is_canonical`, rebuild rollups, publish | bucket (list, GET), parser, Postgres, cache (`invalidate`, `warm`), events |
| Scheduler (`backend/app.py`) | two jobs, start-up and hourly; `POST /admin/ingest` | starts runs, no lock between them | ingest |
| Response cache (`backend/cache.py`) | entries with timestamp and generation, per-key locks, `_refreshing`, a pool of two | lookup, single-flight computation, background refresh, invalidate, warm | read endpoints, ingest |
| Transcript cache (`_IdleLRU`) and endpoint | bodies by ETag, byte count | get, put, eviction by size and idleness | bucket, Postgres, request threads |
| Events (`backend/events.py`, `event_stream` in `api.py`) | subscriber queues, shutdown event | subscribe, broadcast, relay, heartbeat, shutdown | ingest thread, event loop, browsers |
| Page (`src/app.jsx`) | displayed dashboard, nonce, stream | fetch, display, react to `ingest_done` | events, cached endpoints |
| Parser (`backend/parse.py`, `src/parser.js`) | turn and latency machine, pending tool calls | parse two wire formats | ingest, page |
| Read endpoints (`api.py`, `api_dashboard.py`, `api_sessions.py`) | none | SQL over rollups or live, cursor pagination | Postgres, cache |
| Pricing, churn (`pricing.py`, `bash_churn.py`) | none | pure functions over strings | parser |
| Login and sessions (`login.py`, `session.py`, `auth.py`) | failure times per address, session secret per user | rate limit, tokens, guest and admin gates | auth database |
| Fetching parts of the page (`app.jsx`, the panels of `dashboard-charts-extra.jsx`, `views/`) | selection (project, range, own model, nonce), requests in flight, the answer on display, an error | select, fetch, receive, mount and unmount | read endpoints, events |
| Panels and charts (`dashboard-charts.jsx`, `dashboard-charts-extra.jsx`) | clicked checkboxes, picked metric or model, bucket width | compute series and totals, hit-test, tooltips | the answer on display |
| Project picker, session list, Inspector (`app.jsx`, `context-growth-view.jsx`) | page, sort order, chips, selected row, dropped files | page, sort, filter, convert a transcript, merge files | parser, panels |
| Start-up, static files, version, demo data, CI | configuration | I/O | - |

What is hard in each, and what makes it correct:

* **Ingest.** Runs may overlap, be aborted or die at any step; the bucket changes
  while it is listed and fetched. Correct: a file is skipped only when its stored
  bytes are the bucket's; only what left the bucket is deleted; derived tables
  describe `records`; a change that readers can see is published; after
  disturbances the hourly runs converge.
* **Response cache.** Request threads, refresh workers and warm jobs interleave
  with commits and `invalidate()`. Correct: one inline computation per burst, one
  refresh per key, no result overwritten by an older one, no call stuck, nothing
  older than the last invalidation served as fresh.
* **Events and page.** Thread to event loop hand-over, bounded queues, slow and
  reconnecting browsers, heartbeats that cancel a pending read, shutdown, answers
  out of order. Correct: every page that is told of an ingest fetches afterwards;
  it ends up showing the new data; generators end at shutdown.
* **Transcript cache.** Unlocked read-modify-write of a size counter from several
  threads. Correct: the counter is the sum of the items, the cap holds, a body is
  the one its ETag names.
* **Parser.** Missing, duplicated and interleaved events. Correct: every message
  yields one record, turns and tool calls are settled once, latency is never
  negative, both implementations agree.
* **Fetching parts.** No request is cancelled and no answer is compared with the
  selection, so answers land in any order while selections, ingests and routes
  change. Correct: the answer on display was fetched for the selection once the
  newest request is answered; nothing lands in a part that has left the page.
* **Panels.** Defaults move with each answer under the user's clicks; tooltips and
  hit tests recompute by hand what the drawing computed; the page bins again what the
  server has binned. Correct: each call counted once, tooltips say what is drawn,
  charts and summary agree, quantiles and margins fit.
* **Picker and Inspector.** A list changes under a stored page; one transcript is read
  by four computations; merged files all count their lines from one. Correct: every
  project can be reached, the readings agree, merging is a union.
* **Read endpoints.** Correct: paging yields every session once; rollup and live
  queries agree at the bucket widths the rollups support.
* **Login.** Correct: at most five failures per window and address.

## 2. Modules

| Module | Contents |
|---|---|
| `Ingest` | runs of `run_ingest` over bucket, tables and signals |
| `BucketMirror` | what the ingest promises its readers: an abstract mirror; `Ingest` implements it |
| `MCIngest` | small sets of keys and contents for TLC |
| `Ingest_proofs` | TLAPS proofs about `Ingest`: overlapping runs, then runs one at a time |
| `ResponseCache`, `MCResponseCache` | the cache at the grain of its critical sections |
| `LivePush`, `MCLivePush` | ingest announcement, SSE, cached endpoint and page together |
| `TranscriptCache`, `MCTranscriptCache` | `get_transcript` and `_IdleLRU` under concurrent request threads |
| `Wire` | the lines of a transcript, the model ladder, the marks of the formats |
| `BackendParse`, `BrowserParse` | the handlers of `parse.py` and of `parser.js`, as operators over a parse state |
| `ResponseCache_proofs`, `LivePush_proofs`, `TranscriptCache_proofs` | TLAPS proofs about these three |
| `Parser`, `MCParser` | both parsers reading one growing transcript, and what its lines mean |
| `Parser_proofs` | TLAPS proofs about `Parser` |
| `Sums` | lemmas about sums over finite sets (by elements, by parts, renamed), and the least counterexample that inductions here rest on |
| `Fetching` | a part of the page that fetches when the selection changes |
| `Panels_proofs` | TLAPS proofs about `Fetching`, about what every panel keeps and about what the panels show: pages, margins, tools, burn rate, context growth, tooltips, charts and summary |
| `Inspector_proofs` | TLAPS proofs about `Inspector` in `Panels`: files dropped together, four readings of a transcript |
| `ChartData` | sorting, filtering, grouping and summing as the charts do it |
| `ToolPanels` | tool usage, tool error rate, activity heatmap |
| `SeriesPanels` | response sizes, reply latency, context growth |
| `Charts` | summary, time series, bars, token breakdown, burn rate |
| `Lists` | project picker and session list |
| `Inspector` | usage records, context growth, header, timeline, dropped files |
| `Panels`, `MCPanels` | all of these at work: fetch, compute, check, pick, change the route |

Operators marked `\* mutant` are deliberate bugs next to the definition they
would replace. They are not used by the specifications; `PROJECT.json` pairs each
property with one of them, and TLC refutes the property when it is put in place.

### 2.1 Ingest

A *key* is a `wire.jsonl` object. A version of an object stands for its bytes and
its number for its ETag. Transcripts only grow and are uploaded again, so an ETag
is assumed not to come back. `Body[k][v]` says what the parser makes of a
version: the uuids of its records, the first parser version that reads the format
and whether the payload is damaged.

| Code | Model |
|---|---|
| `files` row with its records and tool uses (CASCADE) | `files[k]`: listed ETag, version of the body, parser version |
| `records.is_canonical` | `canonical`, the rows flagged TRUE |
| `usage_rollup`, `tool_rollup`, `latency_rollup` | `rollup[t]`, the record rows summed |
| `ingest_runs` | `booked` |
| cache marked stale, clients told | `unpublished` = FALSE |
| locals of a run | `existing`, `listed`, `todo`, `batch`, `got`, `changed` |
| a rebuild's transaction | `emptied`, `missed`: what others committed after its DELETE |

Each transaction and each GET is one atomic action; the retries inside one GET
collapse into its final outcome, and listing the bucket is one step. A rollup
rebuild is two actions, because two overlapping rebuilds under READ COMMITTED
both delete what they see and then meet each other's primary keys:
`RebuildCollides`. `Abort`, `FetchFails`, `PostPassFails` and `Restart` draw on the
budget `MaxFaults`. `Restart` empties the response cache, so nothing is left
unpublished, and may deploy a newer parser.

### 2.2 ResponseCache

The database is a version number; a query's result is the oldest version it read.
`published` is the version at the last `invalidate()`. Callers are request threads
and pool workers: a worker that takes a warm job runs the same wrapper, which is
how it can wait for a key lock. Releasing a lock is part of the step that leaves
the `with` block, and `_refreshing.add` with the following `submit` is one step:
no other step can tell the difference. `fresh=1` touches nothing and is left out. A
restart empties everything in this module and returns to its initial state.

### 2.3 LivePush

`run_ingest` changes data, invalidates and broadcasts in three steps; the event
loop fills the queues later; the generator of each stream loops, waits, sends and
leaves; the page receives, bumps its nonce, fetches and displays. A browser opens
a new stream only when the generator of the old one has ended: a lingering
generator feeds nobody. `owed` and `missed` observe: whether the page was told of an
ingest it has not fetched since, and whether an announcement passed it by.
The cache is the single entry of one dashboard, without the miss path.

### 2.4 TranscriptCache

A thread's step is one dictionary operation or one half of `_size += n`; between
two steps another thread may run, as the interpreter allows. `order` is the
`OrderedDict`, `body` what it holds, `size` the counter. `Upload` and `Ingest` move
the object and the ETag of the `files` row apart, which is how a body newer than its
ETag gets in. What another thread took first raises (`LostRace`), and so does a
change of the dictionary while `_evict_idle` iterates over it: `Scan` is one step, and it
may fail whenever another thread is in the cache. `Fail` also stands for a GET that
fails. `raced` observes whether two threads have ever been in the cache together; the
promises that hold only without overlap are stated under `~raced`.

### 2.5 Parser

A transcript is a sequence of lines, a line a record with the fields the parsers
look at. Each action appends one line and runs its handler in both parsers, so every
reachable state is a complete file and what both sides would return for it:
`py.records`, `CtxTurns(py)`, `ToolUses(py)`, `JsRecords(js)`, `ResultRows(js)`.
That is faithful because both parsers are folds over lines with a
final pass, and it is how the system meets a transcript: it is uploaded and parsed
again as it grows. `Parser` also reads the lines without any machine (`Starts`, `TurnAt`,
`Answers`, `Text`, `LabelTime`), and the properties compare the two.

| Code | Model |
|---|---|
| `_ParseState` | `py`; `turn = NoTurn` is `current_turn is None` |
| `events`, `metaEvents` of `parser.js` | `eventTs`, `metaTs` (first time stamps), `rows` (tool results), `metas` (usage) |
| the flags of a result, `isError` and `is_error` | `err`, a set; `PyFailed` and `JsFailed` say which of them each parser reads in which line |
| `current_turn_id is None`, `currentTurnId === null` | `NoId`, which a missing `turnId` equals, and `<<>>`, which nothing equals: only the page begins a turn at a `step.begin` without one |
| a damaged line | kind `torn`: no JSON, though an object may stand inside |
| an id the ladder does not know, "kimi-for-coding" | any model but "k3" and `NoModel` |

What the page shows of a tool call is the error mark of its result
(`app.jsx:1193`, `detail-pane.jsx:32`), so `ResultRows` is compared with what the
backend books. The page reads `events` and `meta_events` of the parse alone (`app.jsx:213`);
`ctx_turns`, `turn_count` and `tool_uses`, which `parser.js` makes by rules of its own,
reach nobody and are left out.

### 2.6 The page

`Fetching` is the effect that the App, the panels and the views of the cache page
repeat. `kind` says which of them a behaviour is about: they share nothing but the
selection, so one at a time is enough.

| Code | Model |
|---|---|
| `activeProject`, `activeRange`, a panel's `activeModel`, `dashNonce` | `sel` |
| dependency list of the effect | `Deps(k)` |
| query string | `Query(k)`, `Key(s)` |
| a `fetch` and its `then` | `Send`, then `Land` (an answer), `Refuse` (an error status) or `Lose` (none, or no JSON) |
| state set by `setData` | `shown`: the body and the parameters it was fetched for |
| `err` of the cache page | `err` |
| mounted component | `mounted`; `Leave` drops state and the answers still to come |
| `loadFromBackend` | `Open`: the only fetch that a click asks for |

A page fetches only what is selected, and `Query(k)` is computed from the selection at
sending time, as a closure of the render does. `newest` observes what became of the
newest request; "overtaken" says that an older one has landed after it.

`Panels` adds `over` (the `overrides` of the checkboxes), `bucketMs` (the width a panel
keeps when an answer has none) and `picked` (metric, model, page or row). Everything
else a panel shows is a function of these and of the body, and is an operator:
`perBucket`, `promoted`, `Grid`, `UsageTip` and so on keep the names of the memos and
handlers they translate. `Digest` is what landing changes in a panel besides `shown`:
a panel that is not on the page without rows loses its clicks (`OnPage`), and the
sub-panel of a model that moves to another row of two loses its own (`SubPanelRow`),
because React keeps a keyed child only under the same parent. `Reopen` is a change of
route for what the App's own answer feeds.
`Boxes` is what can be clicked; in the tool usage that is every tool of the bodies and
"Other" (`PanelsAssumption`), so that "all" and "none" (`setAll`) act on all of them, as in the code.

Numbers are kept exact. A share is a numerator over a denominator; a value on a
logarithmic axis is its exponent, doubled for half steps; a moving average is a
fraction; times are whole and doubled where a half bucket matters. What pixels decide
is kept as the choice they make: the nearest column, the segment under the cursor,
whether a line or a dot is within reach (`Reach`, `Slack`). The limits of the code
(`UsageTopN`, `ErrorTopN`, `ErrorOn`, `PerPage`, `ListLimit`, `NiceBins`, `MinBins`,
`SessionGap`, `WindowGap`, `FilePad`) are constants, so that small bodies exceed them.

`Inspector` starts where `BrowserParse` ends: with the events and the meta records of a
transcript. It has its four readings: the header (`computeSessionStats`), context growth
(`computeTurnStats`), the dashboard made of dropped files (`txToDashData`) and the
timeline. Rate limits are left out of `txToDashData`: neither parser makes such records.

## 3. Runs

| Run | Bounds | Shows |
|---|---|---|
| `ingest_single` | 2 keys x 2 versions, 2 parser versions, 1 runner, batch of 2, 1 fault | the inductive invariant `AloneInv` (types and the past of a run), `SkipIsSound`, `CompletedRunMirrors`, `DerivedWhenPublished`, `UnbrokenRunsPublish`, refinement `MirrorSpec`, convergence `EventuallyConsistent` |
| `ingest_overlap` | 1 key x 2 versions, 2 runners | the inductive invariant `IInv`, of which `SkipIsSound` is a consequence, and convergence with overlap |
| `ingest_false_orphan` | 2 keys, 2 runners | finding: a listed file is deleted |
| `ingest_unpublished` | 2 keys, 1 runner, 1 fault | finding: a change is never published |
| `cache` | 1 key, 2 threads, 2 workers, a queue of 1, 1 commit, 2 lapses, 1 failure | `OneRefresh`, `SingleFlight`, `NeverOlder`, `CallsEnd` |
| `cache_stale` | 1 key, 1 commit | finding: stored after invalidation, reads as fresh |
| `live_push` | 1 page, 2 streams, queue of 1, 3 ingests, 2 fetches in flight | `NoticeNotLost`, `NoticeLeadsToFetch`, `ShutdownDrains` |
| `live_stale` | 1 page, 1 stream | finding: the page keeps the old data |
| `transcript` | 2 sessions x 2 versions, 2 threads (symmetric), 3 requests, a cap of two first uploads | `NeverOlderThanEtag`, `QuietAccounting`, `FailsOnlyRaced` |
| `parser` | all transcripts of 3 to 5 lines over six alphabets, 3 times around the 2 cutoffs | `RecordsMatchWire`, `TurnsMatchWire`, `ToolUsesMatchWire`, `MirrorRecords`, `DetectionRight`, `GrowthKeepsTurns` |
| `parser_mirror` | the same | finding: a result that failed for one side only (`MirrorOutcomes`) |
| `panels` | ten kinds of parts; 4 requests for the cache page, 3 for heatmap and projects, 2 for the others; two projects or ranges; two or three bodies of each kind, an empty and a refused one | `ShowsSelection`, `CallsCountedOnce`, `HoverAgreesWithDrawing`, `TurnStatsSound`, `MarginsAddUp`, `ChartsMatchSummary`, `BurnInTimeOrder`, `InspectorAgrees`, `MergeIsUnion`, `NoStrandedPage` |

Why the bounds suffice. *Ingest*: a second version is needed for an ETag to be
outdated between listing and fetch, a second key for shared uuids (promotion when
the other file goes) and for batches that resolve in any order; `HardBody` contains
one damaged, one unsupported and one readable re-upload, so every outcome meets
every later one. Two runners produce every pairwise overlap. *Cache*: the pool of
the code has two workers; the races are between two writers of one key. *Live*: the
code's queue of 16 is cut to 1 so that drops happen; drops need two ingests before
the generator runs. *Transcripts*: the second version of a body is larger than the
whole cache, so replacing, shrinking and the oversized body all happen; two threads
make every pairwise race, a third request makes its consequences visible. *Parser*:
the parsers interact only through turn, anchor, text and tool results, and each
alphabet of `MCParser` holds the lines that touch some of these; two turns with a
prompt, two records and a line between them fit into five lines. *Panels*: two
requests are the least with an order to confuse, the cache page gets four because it
also clears and shows errors; the second body of each kind moves a tool or a model into
or out of the top, changes the bucket, or has nothing in it, so that clicks outlive the
rows they were made for; limits of one or two make three tools, projects or sessions
too many. The computations are checked on these bodies only: `ChartsMatchSummary` and its
like are not claims about every input. The kinds "dashboard", "models" and "growth" of
`Fetching` repeat "charts", a fetch without parameters and "cache", and are left to the
proof.

Fairness. *Ingest*: the scheduler fires hourly while the process lives
(`WF Start`), and a run in progress goes on (`WF Progress`); nothing obliges the
bucket to change or a fault to happen, and both are bounded, so convergence
is claimed for the time after the last disturbance. *Cache*: threads and workers
run on. Python locks are not fair, yet with finitely many lapses and failures the
number of callers that can compete for a lock is finite, so weak fairness does.
*Live*: the event loop, the pool and the browser run; `TakeMessage` is strongly fair
since a heartbeat comes fifteen seconds after the wait began and a queued message
wakes the waiter in the next turn of the loop. Connecting and ingesting are never
obliged. The parser, transcript and panels runs state safety only: no answer is
obliged to come, and the code has no timeout or retry. Deadlock checking is off
where the model stops at a bound: `LivePush`, whose server may have shut down,
`Parser`, whose file ends, and `TranscriptCache` and `Panels`, whose requests are used up.

### Findings

1. `ingest_false_orphan`: the orphan deletion compares with the run's own listing;
   an overlapping older run deletes what a newer one stored. It heals with the
   next run (`ingest_overlap`), but readers lose the file until then.
2. `ingest_unpublished`: the counts of an aborted run are lost; the run that repairs
   the rollups sees no change of its own and publishes nothing.
3. `cache_stale`: `put` stamps the generation at storing time; a computation that
   straddles an ingest is cached as fresh.
4. `live_stale`: the cache is invalidated, not cleared, before the broadcast, so the
   refetch gets the stale entry; the page is not told when the refresh lands.
5. `parser_mirror`: of a loop's tool result the page reads `isError || is_error`, the backend
   `isError` alone. A result with only the second is an error in the timeline, and a
   success in `tool_uses`, the error rates and the churn. `ToolUsesMatchWire` shows that
   nothing else sets the two apart (`AliasOnly`).

### Other divergences

The models contain these, and the properties leave them out by name; no run is spent
on showing them.

* Two puts into the transcript cache that overlap test the cap before either has added
  its bytes, so both bodies stay; `QuietAccounting` is stated under `~raced`.
* A tool checked by hand that has sunk below the top of the tool usage is a band of its
  own and part of "Other" as well (`dashboard-charts-extra.jsx:1631`): its calls are drawn
  twice.
* Over an edge column of the tool usage the pointer handler throws and the old tooltip
  stays (`Throws`).
* A jump to a selected project that has left the list stores a negative page
  (`app.jsx:424`), and a later list of one page is shown empty, which the comment at
  `app.jsx:383` means to prevent. With one page there is no pager, either, so nothing
  names a selected project that is not in the list.
* Edits after the last tokens count in the summary, not in their chart: the range of
  the charts comes from the token rows.
* The failure of an older request covers the newest answer of the cache page, and an
  ingest does not refresh that page.
* An error status with a JSON body is read as an answer without rows and replaces a good
  dashboard; only the cache page looks at `r.ok` (`Refuse`).
* The clicks on a sub-panel of the error rates are lost when its model moves to another
  row (`OverAfter`); a chip that hides earlier rows changes which event is selected.
* A hovered bar or turn is an index kept across answers (`dashboard-charts.jsx:583`,
  `context-growth-view.jsx:79`) and may not exist in the next one; not modelled.
* `/health` reports a run as finished before its post-passes; a failed GET of a marker
  overwrites a project's name with its id (`ingest.py:410`, `ingest.py:186`).
* A caller that waited for a key lock may be given an entry that has become stale
  meanwhile, and schedules no refresh for it (`cache.py:240`).
* The Inspector of merged files pairs the first file's events with all files' records.
* Two files of an archive with one name share a session id and do interleave, and a file
  without a name leaves its records to the session `live`; `MergeIsUnion` is about files
  with names of their own (`Named`).

## 4. Proofs

`Ingest_proofs` shows, for every set of keys and runners, any contents and any
bounds:

* `InductiveInvariant`: `Spec => []IInv`;
* `TypeCorrect`: `Spec => []TypeOK`;
* `SkippingIsSound`: `Spec => []SkipIsSound`.

`SkipIsSound` alone is not inductive: it speaks of rows whose ETag is the bucket's,
while the row being written comes from a listing and a fetch that are both in the
past. `IInv` adds (1) `EtagBehindBody`: a listing is not ahead of the bucket, and a
fetched body lies between the ETag listed for its key and the newest version, in
every row and in the hands of every run; (2) `WorkIsListed`: what a run works on
is in its listing, so the ETag that goes into a row is a version; (3)
`RunsStartFresh`: results of an earlier run do not outlive it, so a new listing
does not meet old bodies. From body between ETag and newest version, an ETag equal
to the newest forces the body to be the newest too. The order is what makes
it work: had the code stored the ETag of the fetch time (`NewestEtagRow`), a row could
claim bytes it does not have.

The proof has one lemma per action; those that reset a run (`Abort`, `Publish`,
`Restart`, `PostPassFails`, `RebuildCollides`) share `ForgetStep`, the two fetch actions
share `ResolveStep`. Assumptions: `KeyAssumption`, `BoundAssumption` and
`BodyAssumption` of `Ingest`, which TLC evaluates in every ingest run.

`Panels_proofs` shows about `Fetching`, for every set of kinds, any options, answers and
numbers of requests:

* `TypeCorrect`: `Spec => []TypeOK`;
* `Inductive`: `Spec => []IInv`;
* `SelectionShown`: `Spec => []ShowsSelection`.

`ShowsSelection` alone is not inductive: nothing in it says that the answer about to
land is for what is selected. `IInv` adds `NewestAsksSelection`: of the requests in
flight, the newest asks for the current selection, and none is newer than the last one
sent. That rests on `QueryIsSelected`: every parameter of a request is a dependency of
its effect (but for the session the Inspector is asked for, whose click always sends),
so a change that makes the newest request outdated also sends a newer one. This is the
fact that a forgotten dependency breaks (`DepsStale`). A part that is not mounted has no
requests and is not the App's, so no answer lands in it.

The second part of the module carries this over: `PanelFetches` (`SpecPanels => Spec`) shows that
checkboxes, picks and route changes never touch what is fetched, each step of a panel
being one of `Fetching` or a stutter, and `PanelShowsSelection` is `ShowsSelection` for
every panel.

The third part is about what panels show:

* `PanelTypeCorrect`: `SpecPanels => []TypeOKPanels`;
* `NoPageStranded`: `SpecPanels => []NoStrandedPage`;
* `MarginsSum`: `SpecPanels => []MarginsAddUp`;
* `CallsOnce`: `SpecPanels => []CallsCountedOnce`;
* `BurnRateInOrder`: `SpecPanels => []BurnInTimeOrder`;
* `TurnsSound`: `SpecPanels => []TurnStatsSound`;
* `TooltipsTrue`: `SpecPanels => []HoverAgreesWithDrawing`;
* `ChartsSumUp`: `SpecPanels => []ChartsMatchSummary`.

Types say which body can be on display and what can be picked, and the others follow from
them, for lists of any length, any page size and any grid: the invariants are about the
operators. `PageIs` says which stretch of the list a page is; `PagesJoin` that the
stretches, joined, are the list, by the least page at which they are not. For the margins,
the rows of the grid are split by hour (`MarginByHours`) or by weekday (`MarginByDows`), and the
rows of a cell are one or none (`CellValue`). A margin and its cells are drawn against the same
scale, so either is dark exactly when its value is zero (`RowDark`, `ColDark`); a sum of numbers
that are not negative is zero exactly when all of them are (`SumIsZero`).

`CallsOnce` is about two ways to share the calls of a bucket out, each of which filters the
tools, sorts them and cuts a front part off. Sorting and filtering are defined by places: `Before`
counts the elements that go first, `At` takes what stands at a set of places. The place of an
element tells it from any other (`AscendingIs`, `OrderedIs`), so that a sorted or filtered list
has every element of the set it was made of once (`Enumerates`). From this the promoted tools and
those of Other are all tools of the rows, none twice (`ToolLists`), whatever the checkboxes
have been through (`BandsAre`), and so are the first `ErrorTopN` of the error rate and the rest
(`LinesSplit`). A layer or line counts the rows of its tools (`CallsAre`, `TallyIs`), hence
together they count each row of the bucket once (`LayersShare`, `LinesShare`). The property asks
that what is checked is what was promoted and Other: that a tool checked by hand and sunk
into Other since is counted in both is the panel's behaviour, and the reason for the condition.

`BurnRateInOrder` and what follows it need in addition that a sorted list is in order.
`SortRenames` says of a sorted list that it is the list it was made of behind a permutation
that lists the ranks (`Lists`), and `SumRenamed` that a sum does not see such a permutation:
so the sessions are sorted by their middles and their tokens are all counted
(`BurnTotal`). Without sessions of the server the pieces between gaps of the events
follow on each other, so that joined they are the events (`PiecesJoin`). A point of a line is
between two neighbours, hence no session is nearer than both (`TipNearest`).

`TurnsSound`: a trace has a point at each of its turns, so how many reach a turn falls from
left to right, from all of them at turn 0; the value at a share of a sorted list grows with the
share, which puts the quantiles in order; and what the comparison counts is the list of
the sub-panel cut at another place. `TooltipsTrue` compares, panel by panel, what the tooltip computes
anew with what is drawn: the layers under and above the cursor, the lines within reach of it, the moving
average of the error rate (`EmaIsShare`: an average of shares is a share, by the least point at
which it is not) and the bin of the time series at the cursor's time.

`ChartsSumUp` has a part for each conjunct. `BucketsKept`: the width of a bin is a multiple of
the server's bucket, since each width of `NiceBins` is one of all widths before it (`WidthsNest`),
and the bins begin at a bucket's edge. `TotalsAgree`: the loop's pointer passes
exactly the rows before the end of the last bin (`LastStop`), which are all tokens (`EventsWithin`)
and the edits before that end. `BarsAgree`: a bar is one summand, none is negative, and
hiding empty bars does not change the sum (`PositiveOnes`). `SessionsListed`: the list is a front part of a
permutation in order. `LabelsWrapped`: a cut is between 1 and the width (`CutIs`), so the loop
comes to shorter rests of the label (`RestIs`), and the lines of a rest, joined, are that rest, by the
shortest one of which they are not (`LinesOfRest`).

Assumptions: `FetchingAssumption`, `ListsAssumption`, `ChartsAssumption` and `PanelsAssumption`,
evaluated by the `panels` run. The last says what a body is: a width and a list of rows; and of the
heatmap's (`CellRows`), that no cell has two rows, because the query of `activity_heatmap` groups
by weekday (ISODOW, 1 to 7) and hour, and that no value is negative, since each is a
sum of requests, tokens or costs. Costs are whole numbers here, of a unit small enough.
Of the rows of tools (`ToolRows`) it says that calls and errors are counted, and that no tool is
named `__OTHER__` or `__AGG__`: the panels use these names for checkboxes and do not escape them.
Errors are never more than calls, and a row has calls (`ErrorRows`, the HAVING of the query).
Of the rows of percentiles it says that they have counts and a model that is neither `none` nor
`outlier`, names the panels use for lines of their own (`PercentileRows`); of the context growth,
that the points of a trace are counted from 0 and that the events of dropped files number
the turns of their session without a gap (`ContextRows`).
What is charted (`ChartBody`) comes in the order of its times, as the queries say (`ORDER BY 1`), its
counts are not negative, and the events stand in the middle of buckets that are aligned to the epoch
(`floor(EXTRACT(EPOCH FROM hour) / bucket) * bucket + bucket / 2`, `api_dashboard.py:159`). A bucket is a
whole number of seconds, here in milliseconds and so even, and one of the page's bin widths:
`_BUCKET_CANDIDATES_S` (`api.py:745`) and `niceBins` (`app.jsx:700`) list the same
widths. That the two stay the same, and that each width divides the next, is what
`BucketsKept` rests on. Boxes, times and heights of the cursor are
finite sets or integers, and a project's name is a sequence of characters.
A cell's rows are a set of indices in the model (`CellsOf`): the page adds them up in the
order of the list, which a sum does not depend on.

The second half of `Ingest_proofs` is about runs that do not overlap: `Alone` says that there is at most one
runner. The hourly job alone keeps to that, as the scheduler does not start a second instance
of a job; the start-up job and the manual trigger of `app.py` can overlap with it. The
assumption is needed: with two runners the run `ingest_false_orphan` shows a listed file
deleted, and with it the mirror lost. For any keys, contents, batch size and
number of faults and restarts it shows

* `AloneInductive`: `Alone /\ Spec => []AloneInv`;
* `RunsMirror`, `RunsDerive`, `RunsPublish`: `CompletedRunMirrors`, `DerivedWhenPublished`
  and `UnbrokenRunsPublish`;
* `IngestMirrors`: `Alone /\ Spec => MirrorSpec`: the ingest implements `BucketMirror`.

`AloneInv` is `IInv` with what one run knows of its own past. `StoredAsParsed`: what is
stored was read, and a stored key that is not in the bucket was seen to leave it.
`OneThingAfterAnother`: a key is planned, taken into a batch and fetched in that order,
and the rows read before the listing are those of the table. `MirrorsListing`: what is
listed and done with is stored as listed or newer, what is not listed has gone, and
what is fetched is not older than what is stored. `DerivedInOrder`: flags before usage,
usage before tools, tools before latency, and a run that has changed nothing finds them
fitting. In the refinement `Persist` is `Show`, `DeleteOrphans` is `Withdraw` of the
orphans, a change of the bucket is itself, and all other steps stutter.

`ResponseCache_proofs` shows, for any keys, request threads, pool workers and bounds,
`TypeCorrect`, `RefreshedOnce` (`OneRefresh`), `ComputedOnce` (`SingleFlight`) and
`ResultsNeverOlder` (`NeverOlder`). The four are proved from one invariant, because each needs
the others: `RefreshOnce` says that a key of `_refreshing` has one job, queued or running
(`OneRefresh` without counting, so that taking a job from the queue is a shift of one
index); `LockHeld` that whoever is past a key's lock holds it; `Settled` that while no
entry lapses only cached keys are refreshed and only uncached ones computed inline. So a
result that is put over another comes from the one refresh of its key, which read the
database after the other was stored.

`LivePush_proofs` shows `NoticesSurvive` (`NoticeNotLost`) and `TypeCorrect` for any number of
pages and any sizes of queue and wire. The invariant of the first adds that only a page whose
stream is open and whose generator is subscribed is owed anything, so that a message which
finds the generator unsubscribed, or the queue full, is not the last one of a page that is
owed it. The second needs two facts besides the types of the single variables: a subscribed
stream is the newest of its page (`OnlyLatest`), and the fetches in flight, those asked and
those answered with any version together, are within their bound (a sum over versions).

`TranscriptCache_proofs` shows, for any sessions, threads, body lengths and cap,
`TypeCorrect` (no key twice), `ServedNotOlder` (`NeverOlderThanEtag`), `AloneNeverFails`
(`FailsOnlyRaced`) and `AccountsRight` (`QuietAccounting`). The invariant adds what a thread
holds between its steps: `Fits` (the ETag it asks for is not ahead of the bucket, the body it
has fetched lies between the two) and `Finds` (what it is about to take out of the dictionary
is there, until two threads have met). All steps of a thread go through `ThreadKeeps`: whoever
could be surprised by a change of the dictionary is in the cache, and then the two have met.
For `AccountsRight`, `Accounts` says what the counter lacks while one thread is in the cache:
`Owed`, the length it has still to add or to take off, from the change of the dictionary
to the second half of `_size += n`; when it leaves, nothing is owed.

`Inspector_proofs` shows `MergedIsUnion` (`MergeIsUnion`) for any number of files of any
length, any lines and times. What it assumes of a file is what the parser gives
(`ParsedFile`, of `PanelsAssumption`): lines and token counts are natural numbers and no
record has a session id of its own. The state plays no part, so the proof is about the operators:

1. The dashboard of a transcript (`DashIs`) is its sessions' rows, joined and sorted by time;
   a session's rows (`DashRows`) are made of its usage records and its boundaries.
2. Whatever turns two joined lists into its values for both, joined, does so for any number of
   them (`JoinedThrough`); this holds of the session ids, of a session's records and of
   its events (`SidsInJoin`, `UsesInJoin`, `EventsInJoin`).
3. With names of their own, what one session finds in the pool is what its file brought
   (`PoolUses`, `PoolBounds`), and the distinct session ids are the names of the files that have
   records, in their order (`JoinedDistinct`).
4. A name put on every record changes neither a turn nor a row but for the name
   (`TurnsTagged`, `EventsTagged`, `EventsRenamed`).
5. Sorting joined lists gives the same whether the parts were sorted or not, and commutes with a map
   that keeps the key (`SortJoined`, `SortMapped`): sorting is stable, and a stable
   arrangement of a list (`Steady`) sorts to the same list.

It also shows `InspectorAgreement` (`InspectorAgrees`) for any transcript: any events and usage
records on any lines, in any order, dated or not. Here it assumes in addition that the calls of
a message follow each other, numbered (`Batched`, as `parser.js` annotates them), and that
rates are natural numbers. Along the way:

1. `computeTurnStats` is a walk over texts and records in line order. After any number of items
   the last records of its turns are those with another text, or nothing, between
   them and the next record (`Sound`, kept by `SoundText` and `SoundUse`); so the rows are a
   choice from the records by line (`GrowthIs`, `EndsAfter`).
2. `TurnUsages` passes over texts instead. A record that ends a turn there ends one of the walk or is the
   last before all texts (`EndsSplit`, `TurnsJoin`); dropping what has no date or no
   context gives the same on both sides, and so does sorting by time (`KeptAgrees`, `DashTuples`).
3. What is shown of the records is a list of some of them, each once (`Inside`), so its sums
   are at most theirs (`InsideSum`). The header reads undated records with another
   fallback, which changes no count and the model of none that the dashboard shows (`Reread`,
   `DashCharged`): hence its cost bounds the dashboard's (`FewerRows`).
4. The first calls of batches stand for disjoint runs of calls (`BatchIs`), and an event has one chip at
   most (`ChipIs`): the two counts follow from sums by parts (`ParallelCalls`, `HiddenCounted`).

`ListInduction` is the induction these need: a set of lists that has the empty one and is closed
under one more element has all; as a set it is no operator parameter. `TurnUsages` is
written in closed form for these proofs: the records whose successor has passed more boundaries.

`Parser_proofs` shows, for any transcripts of any length over any lines, ids and cutoffs,

* `UnderstoodAlways`: `Spec => []Understood`, the inductive invariant;
* `ParserTypeCorrect`, `RecordsRight`, `TurnsRight`, `ToolUsesRight`, `MirrorRight` and
  `DetectedRight`: the six invariants of the `parser` run;
* `GrowthRight`: `Spec => GrowthKeepsTurns`.

None of the invariants is inductive alone: a record's latency comes from the anchor, its text
from a counter, its model from a first time, its turn from the turn that is open, and the
properties say nothing of these. `Understood` says of each field of both states what it
holds of the lines so far. `TurnKnown`: the open turn began at the last start, unless a
`TurnEnd` came since. `AnchorKnown`: the anchor is the time of the last prompt, unless a record or the end of a
turn came since. `TextKnown`, `FirstKnown`, `StepKnown`: the counter, the first time and the
turn id. `ResultsKnown`, `UsesKnown`: outcomes and calls. `TurnsKnown`: closed turns are all
turns but the open one, in order, and each lists its billing lines. `PageKnown`: what the page
has booked. A step is one line (`EveryStep`), and a line does to each field what one table says
(`PyAfter`, `JsAfter`; `PyLine` and `JsLine` derive the table from the handlers). Then two facts
carry each part over a step: lines already read keep their turn, latency, text and time
(`Stable`), and the new line finds its own in the state (`Newest`). `TurnsRight` needs in
addition that a later turn's lines come later (`TurnsInOrder`) and that the loop of
`_ctx_turns_from_turns` keeps the order of the turns it is given (`CtxInOrder`);
`GrowthRight`, that records are never changed (`RecKept`), so that a line leaves the trace
of the closed turns alone or adds the turn it closes to it (`ShutGrows`).

`Sums`, `FlattenGrown` and `CtxGrown` are what these proofs need of recursive functions: how a
sum grows by an element, a flattened sequence by a sequence, the loop over the turns by a
turn. The induction theorems of the library take an operator as a parameter and cannot be
used here; instead the set of numbers at which the claim fails is given to `LeastNat`, and
its least element is refuted.

The assumptions of these modules are those on the constants, named in the module they
are proved about and evaluated by its runs; `Alone` is an assumption of the theorems.

Only model-checked: liveness. Under fairness it is out of the prover's reach, and with it
`EventuallyConsistent`, `CallsEnd`, `NoticeLeadsToFetch` and `ShutdownDrains`.

## 5. Not modelled

* `projects` and marker files: display names only; a failed marker GET resets a name.
* numeric columns and costs: a rollup is the set of rows it sums.
* rows with a NULL timestamp, which no rollup reads.
* key layout (`_is_foreign_transcript_key`): a key of the model is one that passes.
* reader transactions that see a rebuild half done: MVCC gives them the old rows.
* churn counting (`_edit_churn`, `bash_churn.py`): a call's churn is one until it fails;
  prices; how the parsers annotate parallel calls.
* a time of exactly zero and carriage returns as line ends in a transcript.
* a session without main file: `get_transcript` answers 404 and touches nothing.
* the detail pane and the event helpers (`detail-pane.jsx`, `event-helpers.jsx`), the
  tables of the cache page, axis ticks, labels, colours and sizes in pixels: they format
  one value at a time and keep no state that anything else reads. Indices of a hovered
  bar or row are left out with the pixels.
* the search box of the timeline and the unpacking of archives (strings and bytes), the
  guest probe, and which of server, dropped files and demo data the dashboard prefers.
* the demo data, CI and deployment.

## 6. Plan

1. `SessionPages`: the keyset cursor of `list_sessions` with ties and missing
   timestamps while ingests run; rollup and live queries agreeing at the bucket widths
   of the rollups.
2. `Login`: the failure window and its boundary, session secrets.
3. `Ingest` with the `projects` table and the rollups' missing `project_id`.
4. The picker's negative page as a run of its own.

To keep the whole check short, a finding that has been settled in the code gives up its
run to one of these.
