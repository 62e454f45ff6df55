# PulseTrack in TLA+

PulseTrack collects telemetry events over HTTP, buffers them in Redis, writes
them to PostgreSQL in batches, and shows aggregations on a dashboard. This
directory holds TLA+ models of its parts, the TLC configurations that check
them on small instances, and theorems about them that TLAPS proves for every
instance.

Contents: [the system](#the-system) ·
[how the modules correspond to the code](#how-the-modules-correspond-to-the-code) ·
[runs](#runs) · [fairness](#fairness) · [proofs](#proofs) ·
[where code and documentation disagree](#where-code-and-documentation-disagree) ·
[not modelled](#not-modelled) · [plan](#plan)

## The system

| Part | State | Operations | Talks to |
|---|---|---|---|
| Ingestion API (`app/api/v1/events.py`) | none of its own; one database session per request | `ingest_event`, `ingest_batch_events` | authentication and rate limiter (dependencies), Redis list and markers, events table |
| Event worker (`app/core/worker.py`) | the events a run has popped, in a local variable | cron `process_queued_events`, `process_event_batch_task` | Redis list and dead-letter list, events table |
| Redis | event list, dead-letter list, idempotency markers (24 h), key cache (300 s), rate counters, metrics cache (60 s) | external | |
| PostgreSQL | `applications`, `events` (partitioned, partial unique index) | external | |
| API keys (`app/security/auth.py`, `app/api/v1/applications.py`) | rows and cached resolutions | register, resolve a key, read, rotate | Redis cache, applications table |
| Rate limiter (`app/security/rate_limiter.py`) | one counter per tenant and clock minute | `check_rate_limit` | Redis |
| Metrics query (`app/api/v1/metrics.py`, `app/core/cache.py`, `app/repositories/event.py`) | cached aggregations, filed under a hash of the question | `get_metrics`, `get_metrics_aggregation` | Redis, events table |
| Dashboard data (`frontend/src/hooks/useAnalytics.js`, `services/api.js`) | the selection, one polling interval, loads in flight, the figures shown; in `localStorage` one key per application | load, poll, select, choose a range, compare | metrics and events endpoints |
| Dashboard shell (`frontend/src/App.jsx`, the modals) | the list of applications, three dialogs with their requests | reload the list, create, rotate, send a test event, unlock | applications and events endpoints |
| Dashboard summary (`useAnalytics.js`, `ChartContainer.jsx`, `EventDetailModal.jsx`) | none: computed from the rows of two answers | totals, changes, shares, peak, heatmap, chart series | |
| Migrations (`alembic/versions`) | the schema | upgrade, downgrade | PostgreSQL |
| Middleware, error handlers, lifespan, health (`app/middleware`, `app/exceptions`, `app/main.py`) | request id context, metric labels, client singletons | per request, at start and stop | all |

What makes them hard:

* **Interleaving at every await.** A handler is a chain of Redis and
  PostgreSQL calls; other requests, and any number of overlapping worker runs
  (the cron fires every second and does not wait for the previous run), act in
  between. The idempotency check, the push and the marker are three calls.
* **The commit comes last.** `get_session` commits after the handler has chosen
  its answer and before the answer is sent. A failing commit turns any answer
  into a 500; a Redis call inside the handler happens before the commit.
* **Calls in doubt.** The Redis client has a 5 s socket timeout, and a
  connection can break during a commit: the caller gets an exception although
  the effect took place.
* **Crashes and cancellations.** ARQ cancels runs on timeout and shutdown;
  `CancelledError` passes `except Exception`. What a run has popped is nowhere
  but in its local variable.
* **Caches.** Resolved keys, idempotency markers and aggregations outlive what
  they were computed from.
* **Nothing is cancelled in the browser.** A new selection starts new requests
  and leaves the old ones running; a closed dialog stays mounted and its answer
  still arrives; a callback belongs to the render that sent the request and
  sees that render's selection.

What correctness means for each part:

* Ingestion and worker: an acknowledged event is never lost by the API side,
  only by a fault that hits the run that holds it, and every such loss is
  accounted for; the list and the runs hold an event once, and never beside
  its dead letter, its loss or the row a run wrote; the unique index is never
  violated; retries add nothing; everything queued is settled in the end.
* API keys: a key acts for one application for ever; a revoked key leaves the cache, in which it
  stays in three known ways only; one
  application per address; no lock-out while the database works.
* Rate limiter: no more than the limit of the calls that reach Redis in time; no
  429 below it.
* Metrics query: an answer is what the table held at one instant for exactly the
  question asked; it lags by no more than the TTL and one request; a stored
  event is never answered with nothing.
* Dashboard data: in the end the screen shows what is selected, whatever order
  the answers come in; nothing spins for ever; figures and
  the empty screen are answers, and answers to the selection unless an outdated
  load landed last.
* Dashboard shell: a key is stored under the application it belongs to; one
  request per dialog; a reload of the list never takes a selection away.
* Dashboard summary: the periods of a comparison tile time; every event counts
  once in each of the figures; while periods are compared, a rise is a rise.
* Migrations, middleware, lifespan: see the [plan](#plan).

## How the modules correspond to the code

### Pipeline: ingestion and worker

* `PipelineStores` – the shared state. `queue`, `idem`, `dlq` are the Redis
  list, the idempotency markers and the dead-letter list; `rows` the committed
  events table, each row with the side (`api`, `worker`) that wrote it; `pend`
  what each open transaction has flushed. `FlushOk` and `FlushRaises` are
  `session.add_all` plus `flush` against the partial unique index
  `(application_id, idempotency_key, occurred_at)`: an insert *waits* for an
  open transaction that holds its slot and *raises* once that slot is a row.
  `Commit` and `Rollback` are the ends of a transaction.
* `IngestApi` – one action per await of the two handlers: `LookUpMarker` (GET),
  `LookUpRow` (SELECT), `Push` (RPUSH, one event or a whole batch), `Mark`
  (SET), `Fallback` (the synchronous INSERT), `CommitFallback` (the commit that
  the batch handler issues itself), `Close` (the commit of `get_session`, then
  the answer). `Vanish` is the death of the process or a cancellation,
  `ExpireMarker` the marker's TTL. A request starts here authenticated, within
  its rate limit and with a validated payload; a batch with no valid item
  touches neither store and is not a request of the model.
* `EventWorker` – one action per await of a run: `Pop` and `PopError` (LPOP),
  `StopPopping`, `Insert`, `CommitBatch`, `DeadLetter` and `DeadLetterError`
  (RPUSH), and `Kill`. `Tick` is the cron.
* `Pipeline` composes them, states the properties, and maps the state to
* `EventLedger`, the abstract specification: an accepted event is in transit,
  leaves transit once and for good, into the table, to the dead letters or
  recorded as dropped, and a client is promised an event only when the ledger
  accounts for it. `ImplementsLedger` is the refinement; the mapping puts the
  list and the runs' batches in `transit` and `victims` in `dropped`.

Each Redis or database call has three outcomes: it succeeds, raises without
effect, or takes effect and raises ("doubt"). `Faults` says which kinds occur.
`known`, `blind`, `expired` and `victims` are history variables: they record
what had been answered for a key when a retry arrived, which retries could not
read the marker, which markers expired, and what a run held when a fault ended
it. No guard reads them.

One place where the model has less than the code: a flush takes all index slots
of its rows in one step or waits. Two batches that claim several slots in
opposite orders could deadlock in PostgreSQL, which would end one of them with
an error; `RequestsEnd` does not cover that.

Two places where the model allows a little more than the code: the final commit
of a request that was resolved from the key cache, and so never opened a
transaction, may fail in the model; and the head of the list may be lost with
an LPOP in doubt by any run at any time.

### ApiKeys

Applications, keys and sessions. An application is named after the request that
registers it and a key after the request that generates it, because ids and
keys are fresh random values. `keyOf` is the committed `api_key_hash` column,
`cache` the Redis entries, `write` the row lock of each open transaction,
`attached` tells whether `current_app` was loaded by the request's session or
rebuilt from the cache. The actions follow the awaits of
`get_current_application` (`ReadCache`, `ReadTable`, `FillCache`),
`rotate_application_key` (`Rotate` up to the flush, `DropCache`, then `Close`),
`get_application` (`Fetch`) and `create_application` (`LookUpEmail`, `Insert`).
`Deactivate` is an operator's UPDATE: the code reads `is_active` and never
writes it.

`spared` is a history variable: the keys for which one of three things has
happened that let a key outlive its rotation in the cache. The DELETE failed
(`DropCache`); a call that had read the row filed the key when the DELETE was
over (`FillCache`, `ReadTooEarly`); or a rotation replaced a key it was not shown,
because another had replaced its own in between, and deleted the entry of the
older key (`Commit`). `RevokedKeysAreForgotten` says that there is no fourth.
All three happen, for up to the 300 s of the entry, while the SRD demands
immediate invalidation (FR-APP-05, FR-AUTH-05): the property is what is left of
that demand, and each of the three excuses is needed in `keys_live`.

### RateLimiter

One tenant's calls: `ReadClock`, then `Count` (the MULTI/EXEC of INCR and
EXPIRE) or `FailOpen`. `Tick` advances the clock and lets counters expire, at any
time: nothing in the code bounds how long a call takes from its clock reading to
EXEC, since connecting and every read have timeouts of their own and the event
loop may be busy. `counted` and `late` are history variables: the calls whose INCR
took effect, and those of them that came when the slack of 5 s after their
window was over. A late call may find no counter and be admitted beyond the
limit; `LimitPerWindow` counts all others, however many late ones there are and
although each of them restarts the counter and renews its TTL.

### Metrics: the query, its cache and the figures

* `Reports` holds the pure part: `Window` and `Previous` are
  `getDateRangeWindow` and `getPreviousPeriodWindow`, `Aggregate` the SQL of
  `get_metrics_aggregation` (inclusive bounds, one row per bucket and event
  name), and `Breakdown`, `Peak`, `Heatmap`, `Series`, `Change`, `PerDay`,
  `PerDayChange` what `analyticsSummary`, `ChartContainer` and `EventDetailModal`
  compute from the rows. `Compared` is what the page holds of the previous period:
  without a comparison it loads none and keeps an empty list, of which every
  card computes a rise of 100 %. Percentages are in tenths, as `toFixed(1)` leaves them, with exact
  division in place of floating point; where the code sorts with ties, the
  model keeps the set of candidates. Local time is the database's, without
  daylight saving.
* `Metrics` is the handler, one action per await: `Ask` (the two guards),
  `LookUp` (GET, and the test that takes an empty list for a miss), `Query`,
  `Save` (SET with `ex`), `Finish`. `Store` commits events, `Tick` is time.
  Every Redis call may fail, a SET also after it took effect, and the query may
  raise. A cache entry is filed under the question itself: `generate_cache_key`
  hashes all five parameters, and collisions of the hash are left out. Expired
  entries stay in the function `cache` and are no longer read.

`scenario` is fixed in `Init`: it names the view, the callers and their
questions, what is in the table and what may be added. Some scenarios exercise
the cache with two tenants and moving time, the others compare two periods over
tables of events at the ends of both. `asked` and `known` in the record of a
request are history, for the properties.

### Dashboard: loads, list and dialogs

* `Analytics` is the hook. What a load asks for is its *question* (application,
  range, end of the window, granularity, comparison), and figures are named
  after the question they answer. React runs the effects of a state change
  before it handles the next, so `Select`, `PickRange` and `ToggleCompare`
  include the restart of the interval and the new load; `PickRange` loads twice
  when the granularity follows a render later. `Poll` is the interval. A load
  joins its three requests with `Promise.all`, hence one action for its end:
  `Land` shows or throws. Whether its key was valid is decided when it starts.
* `Workspace` is `App` and its dialogs. Each request of a dialog has a step of
  the server (`ServeCreate`, `ServeRotate`, `ServeList`) and a step of its
  answer (`Land...`), or fails before or after the server acted (`Fail...`).
  `blind` in a request remembers whether the render that sent it had no
  selection: that is the closure `loadBaseData` tests after its await.
  `ServeRotate` has the two outcomes `ApiKeys` finds: the row takes the new
  key, or the caller came from the key cache and the issued key is in no row.
* `Dashboard` adds the user and the first render, and states the properties.
  `user` is a plan fixed in `Init`: which gestures the user makes and how many.
  A modal covers the page, so the gestures of the page need `NoDialog`. The unlock
  form takes the application's key or a wrong one, but not a key nobody was
  handed yet, that of an application whose creation is unanswered (`SaveKey`).

`until` stands for the end of the open window: the applications that had an
event after the page was opened when the range was chosen. `arrived` (which
applications have such an event by now) and `trusted` (whose valid key this
browser was handed last) are history variables; `arrived` reaches `until` only
when a range is chosen. `Busy` says which applications had events in which range
when the page was opened; the instance has one with old events in one range
only and one without any, and a created application has none. An answer has
rows (`HasRows`) if its question covers old events or an arrived one, and an
answer without rows leads `Overview` to the empty screen, whatever is selected by
then. `astray` is history too: the newest load was overtaken by an older one, or
asked for an earlier selection. Then what is shown, or said to be missing, may be
that of another application or range until the next poll; `ScreensAreAnswers`
excuses that and nothing else.

## Runs

Passing runs:

| Run | Instance | Shows |
|---|---|---|
| `retry` | a request and its retry under one key, same `occurred_at`; 2 runs, 2 pops each; all faults | acknowledged events stay accounted for, 201 is true, one copy of an event in list and runs, one row per index slot, a retry adds nothing unless its marker expired or was unreadable |
| `mixed` | a keyed event that PostgreSQL rejects, a batch of two; 2 runs; all faults | the same accounting with batches and rejected rows; the pipeline implements the ledger |
| `live` | the pair of `retry`, one run, Redis faults and kills | every queued event is settled, every request ends |
| `keys` | two registrations, of one address or two, two rotations with any key on any path; all faults | a 201 registration is committed; keys never act for another tenant; one application per address; dead keys stay dead; revoked keys leave the cache but for the three ways |
| `keys_live` | one application, a read, two rotations; Redis faults | rows hold handed-out keys; calls end although they wait for row locks; revoked keys leave the cache but for the three ways, all of which occur |
| `limiter_window` | 4 calls, limit 2, windows of 3 ticks, slack 1, any delay | at most the limit per window but for calls later than the slack; 429 only beyond the limit |
| `dashboard` | 2 applications, three ranges, one of them backwards; plans of 3 to 5 gestures: browsing, testing, managing | figures settle on the selection; keys are kept; no second request of a dialog; selections stay; screens show answers; no spinner for ever |
| `metrics` | 2 requests; two tenants over moving time, or one with six views, comparing two periods or not | answers belong to one instant and one question, lag by TTL and a request at most; periods tile; breakdown, peak, chart and cards agree with the table |

Bounds, and why they suffice:

* *Requests.* The interactions of the idempotency code are between a request, a
  retry and the worker; two requests with one key and two runs contain every
  pair of actors that share a key, a slot or the list. `mixed` adds the batch,
  whose events share one transaction with each other.
* *Runs.* Two runs can interleave pops, hold transactions on the same slot and
  wait for one another; a slot is reused after a run ends, so the number of
  runs over time is unbounded. `PopLimit = 2` is smaller than the number of
  events that can be queued in `mixed` (three) and in `retry` equal to it.
* *Keys.* One idempotency key, because keys of different value share nothing
  but the list.
* *Calls of `keys` and `keys_live`.* Overlapping rotations need two rotations; the read is
  the concurrent request that fills the cache.
* *Limiter.* Four calls fill a window, exceed it and leave one that comes late,
  or fill both windows of a boundary; `MaxTime = 7` gives two full windows and
  the start of a third, so counters expire inside the run and calls of the first
  window reach Redis long after. Calls are interchangeable, hence the symmetry
  set.

* *Dashboard.* Two applications are one to leave and one to turn to. Three
  gestures pick a range, change it and change the application while the loads of
  the first are in flight; five open a dialog, submit, close it, choose another
  application and open it again. `MaxPolled = 2` only holds the *timer* back
  (the interval of the code does not wait): gestures still start loads, so
  more overlap. `MaxKeys = 1` allows one rotation of each row, beside those
  answered from the key cache.
* *Metrics.* Two overlapping requests contain the fill of an older result over
  a newer one. TTL 2, `Slack` 1 and a horizon of 4 let an entry be filled, used,
  replaced and expire. A millisecond is 2 units, an hour 4, a day 8, so an
  event can fall between two milliseconds and a day has two hours; tables hold
  up to four entries of up to three equal events, at the first and last instant
  of each period and in the gap between them; the six views are the 7-day
  range, today, yesterday, a custom range, one that ends before it starts and
  one without an end. Requests are interchangeable, hence the symmetry set.

`CHECK_DEADLOCK FALSE` is set where every call has been served and nothing is
left to do (`ApiKeys`, `RateLimiter`). The pipeline never stops, because the
cron does not, nor does the dashboard with its interval, nor the metrics query
with its clients; there TLC checks deadlock.

Every property of a passing run has a mutant of the code it is about, listed in
`PROJECT.json` and defined in the module before the definition it replaces.

## Fairness

* Weak fairness of `Serve(r)`: the event loop goes on with a request that has
  arrived. Arrivals, faults and expiries are not fair.
* Weak fairness of `Run(w)`: the cron keeps starting runs (`second=set(range(60))`)
  and a run goes on.
* Strong fairness of `Pop(w)`: an LPOP that is tried again and again in the end
  succeeds. Without it a Redis that fails every first pop, for ever, keeps
  `Pop` from happening, and nothing the code does would help.
* `Dashboard`: weak fairness of `Timer` (the interval fires every 30 s, after an
  error too) and of the end of the oldest request of each kind (`fetch` settles
  in the end); strong fairness of `Figures(1)`: the oldest load, tried again
  and again with a valid key, in the end succeeds. The user owes nothing.

## Proofs

Every invariant and every action property of a passing run is proved for all
values of the constants, and so is the refinement of the ledger. Liveness stays
with TLC. A proof module per component EXTENDS the component; the invariants
were checked with TLC before they were proved.

| Module | About | Rests on |
|---|---|---|
| `SequenceLemmas` | elements of sequences, distinctness, what appending and removing do | |
| `PipelineProofs`, `DeliveryProofs` | ingestion, worker, ledger | the assumptions of `PipelineStores` |
| `ApiKeysProofs` | keys, rows, cached resolutions | `KindAssumption`; `NobodyIsLockedOut` also that only Redis fails |
| `RateLimiterProofs` | the counters | `LimiterAssumption`: finitely many calls, natural numbers |
| `ReportsProofs` | the figures as functions of the rows | `TimeAssumption`, `NoneAssumption` |
| `MetricsProofs` | the query, its cache, and the figures of its answers | those, `CacheAssumption`, `ScenarioAssumption` |
| `DashboardProofs` | dialogs, screens, keys in the browser | `KeysAssumption`, `BeforeAssumption`, `RangesAssumption` |

The assumptions say that model values differ from numbers, that kinds of calls
and lengths of time fit together (a day is whole hours, an hour whole
milliseconds), that clock readings of a view are whole milliseconds, as
`Date` has them, and that a page opens with keys of applications that exist.

### Pipeline

`PipelineProofs` and `DeliveryProofs`, for any requests, events, runs, keys,
limits and faults:

| Theorem | Says |
|---|---|
| `TypeCorrect` | `Spec => []TypeOK` |
| `NoAcknowledgedEventVanishes` | `Spec => []AcknowledgedIsAccountedFor` |
| `StoredAnswersAreTrue` | `Spec => []StoredAnswerIsCommitted` |
| `UniqueSlots` | `Spec => []OneRowPerSlot` |
| `EventsHaveOnePlace` | `Spec => []OneCopyInTransit` |
| `RetriesAddNothing` | `Spec => []RetryAddsNothing` |
| `PipelineKeepsTheLedger` | `Spec => ImplementsLedger` |

*Types.* `TypeOK` alone is not inductive: `Mark` adds `Key(r)`, which is a key
only if `r` has one, and `DeadLetter` takes the head of a batch that must not
be empty. `TypeInv` adds those two facts.

*Accounting.* `AccountInv` strengthens the two properties with what holds on
the way to an answer: a request about to set its marker has pushed its events,
a request about to give a positive answer has them accounted for or in its own
transaction, a request in a fallback write has exactly its events flushed, and
a run about to commit has its whole batch flushed. The key lemmas are that no
step of a request (`RequestKeepsAccounted`) and no step of a run
(`RunKeepsAccounted`) shrinks the set of accounted events, and that a commit
turns what was flushed into rows (`CommitStores`).

*Slots.* `SlotInv` says that slots are distinct inside a transaction, between
open transactions, and between open transactions and the table. A flush claims
free slots (`FlushKeepsSlots`), a commit moves them (`CommitKeepsSlots`).

*One place.* The handlers and the worker have two dozen actions, but an event
can move in few ways. `RequestMoves` says a request appends its events to the
list or adds its rows; `RunMoves` that a run pops, idles, stores its batch,
loses it or buries it. `EffectInv` adds that a request before its push has left
no trace anywhere (`Untouched`) and has only its own events in its transaction,
so a push puts no event on the list that was there before. With those, each
move keeps the list and all batches free of repetitions and apart from what was
buried or lost.

*Retries.* `RetryInv` follows a promise from the answer that made it to the
retry that relies on it: an answered key was marked (`AnsweredKeysAreMarked`),
what `known` says of a retry's key stays visible (`PromisesLast`), so a retry
passes the two lookups only with an excuse (`RetriesAreStopped`): its marker
expired, or could not be read.

*Ledger.* The refinement is a simulation step by step: a push is the ledger's
acceptance, a pop a stutter, a commit of the worker and a burial settle a batch.
It needs `OneCopyInTransit`, since an event with two copies would leave transit
twice, and `EffectInv`.

### API keys

`ApiKeysProofs`, for any registrations, reads, rotations, addresses and faults:

| Theorem | Says |
|---|---|
| `KeysTypeCorrect` | `Spec => []TypeOK` |
| `KeysStayWithTheirTenant` | `Spec => []KeysNeverCrossTenants` |
| `AddressesAreUnique` | `Spec => []OneApplicationPerEmail` |
| `CreatedAnswersAreTrue` | `Spec => []CreatedIsCommitted` |
| `DeadKeysNeverReturn` | `Spec => DeadKeysStayDead` |
| `NobodyIsLockedOut` | `Faults \subseteq {"redis"} => (Spec => []RowsHoldHandedOutKeys)` |
| `RevokedKeysLeaveTheCache` | `Spec => []RevokedKeysAreForgotten` |

`KeyInv` ties the places of a key together. A row holds a key only of a
finished call for that row's application (`RowInv`); the cache files only keys
that clients hold, under their owner (`CacheInv`); a call acts for the owner of
the key it shows, wherever it was resolved (`CallerInv`); an open transaction
writes one row, that of its own application (`WriteInv`). Each part needs
another: a row gets its key from a transaction, whose row comes from the
caller, who comes from the cache, which was filled from a row. Addresses need
that an uncommitted insert occupies its address too (`AddressInv`). Revoked keys
need what holds between the DELETE and the commit (`ClosingInv`): the key a
rotation was shown is out of the cache or among the exceptions. A fill in
between is an exception because the row it read is the one that the open
transaction writes, since caller and rotation act for the owner of one key.

### Rate limiter

`RateLimiterProofs`, for any finite set of calls and any limit, window and
slack:

| Theorem | Says |
|---|---|
| `LimiterTypeCorrect` | `Spec => []TypeOK` |
| `LimitHolds` | `Spec => []LimitPerWindow` |
| `RefusalsAreDeserved` | `Spec => []RefusedOnlyWhenFull` |

A window is *in time* until its slack is over. `CountersInv` says that a counter
that has counted lasts as long as its window is in time, and that it has counted
at least the admitted calls that are not late. A tick that lets a counter expire
ends the time of its window, and no call of that window is in time again. Late
calls change counters of which nothing is claimed any more. `HitsInv` says that a counter never
exceeds the calls it counted, which makes refusals deserved.

### Metrics

`MetricsProofs`, for any requests, scenarios, tables, views, TTL and slack, and
any lengths of time:

| Theorem | Says |
|---|---|
| `MetricsTypeCorrect` | `Spec => []TypeOK` |
| `AnswersAreOwnFigures` | `Spec => []NoForeignFigures` |
| `AnswersLagByTTL` | `Spec => []AnswersLag` |
| `EmptyAnswersAreFresh` | `Spec => []EmptyIsFresh` |
| `PeriodsFitTogether` | `Spec => []PeriodsTile` |
| `BreakdownsAddUp` | `Spec => []BreakdownIsExact` |
| `ChangesPointTheRightWay` | `Spec => []DirectionIsTrue` |
| `PeaksArePeaks` | `Spec => []PeakIsPeak` |
| `CardsFitTogether` | `Spec => []CardsAgree` |

*The cache.* The properties speak of answers only. The invariant says where
answers come from: `Snapshot(rows, q, t)` holds of rows that are the aggregation
of some earlier table which lacks nothing stored before `t`. Rows about to be
filed are a snapshot as of the request's arrival; an entry of the cache is one
as of its expiry less TTL and slack, since the request that filed it took at
most the slack; so an entry that has not expired serves a later request with a
lag of at most both. Storing events keeps snapshots (`SnapshotStays`), because
the table only grows.

*The figures.* Since every answer is a snapshot, the figures are facts about
`Aggregate`, and `ReportsProofs` proves them as lemmas without a state:

* *Time.* Both ends of every window and of the period before it are whole
  milliseconds (`WindowsAreTicks`), which is all that tiling needs.
* *Sums.* The totals are sums over sets of rows (`MapThenSumSet`), about which
  the library states nothing and the provers know nothing. Their recursion is
  made explicit once (`SumsExist`, `SumStep`), then induction over finite sets
  gives what the figures use: sums of parts add up (`SumUnion`, `SumOfGroups`),
  equal summands have equal sums (`SumsEqual`). The induction is first-order:
  `SubsetInduction` takes the *set* of subsets for which a claim holds, instead
  of a predicate.
* *Rounding.* `RoundsToNearest`: a rounded quotient is off by half a unit at
  most. Shares and averages inherit that bound (`SharesAddUp`), and a rounded
  change keeps its sign (`ChangesHaveDirection`). The per-day change compares
  two numbers rounded before: rounding keeps their order (`RoundingKeepsOrder`),
  and both periods have as many days (`PreviousIsAsLong`), so it never points
  against the totals (`PerDayHasDirection`). With the comparison off both
  changes compare with nothing and show a rise of 100 % whenever they are not
  zero (`NothingIsZero`).
* *Buckets.* `Buckets` numbers the buckets by how many precede them;
  `BucketsInOrder` shows that to be a list of all of them, each once, in their
  order, so no point of the chart is lost (`SeriesAddsUp`).
* *Peak.* `PeakIsFirst` follows the fold over the buckets: what it carries is
  the earliest maximum of what it has passed.

### Dashboard

`DashboardProofs`, for any applications, ranges, plans and keys:

| Theorem | Says |
|---|---|
| `ScreenTypeCorrect` | `Spec => []TypeOK` |
| `DialogsAskOnce` | `Spec => []OneRequestPerDialog` |
| `SelectionsStay` | `Spec => NeverDeselected` |
| `ScreensShowAnswers` | `Spec => []ScreensAreAnswers` |
| `KeysReachTheirPlace` | `Spec => []KeysAreKept` |

*Dialogs.* A dialog is loading exactly while a request of it is in flight
(`DialogsInv`): closing a dialog clears all of its state but that, and the
submit buttons test it. `SelectionsStay` needs no invariant, only that every
action which selects has an application at hand.

*Types and screens.* `CatalogInv` says that the list, the dialogs and their
requests name applications that the server has; the table only grows, so a
late answer is still well typed (`TypesGrow`). `FigureInv` says that one
interval runs, for what is selected now, and that a selected application is
loading, has failed or has figures (`SomethingToShow`), where "figures" is an
answer, with rows or without; a load that ends sets one of the last two
whichever application it was for. That it is the *right* answer is what
`ScreensAreAnswers` needs `NewestFollows` for: until the screen has gone
`astray`, the newest load in flight asks what is selected, and with none in
flight the page has failed or shows the answer to the selection.

*Keys.* `KeysAreKept` alone is not inductive. `KeysInv` adds that a rotation in
flight was sent with a key that was stored and, as long as this browser is
trusted to know the key, carries the valid one (`RotationsKnow`); that nobody
has the key of an application whose creation is unanswered
(`CreationsAreSecret`); and that what is not registered has no key. With one
request per dialog, no second rotation can overtake the answer.

### Only model-checked

* `TransitEnds`, `RequestsEnd`, `RequestsAreAnswered`,
  `SettlesOnSelection`, `NothingSpinsForever`: liveness under fairness, which is
  out of the prover's reach.
* The four disagreements below, which are counterexamples.

## Where code and documentation disagree

Each row is a run that expects the violation of one property.

| Run | Documentation | Code |
|---|---|---|
| `killed` | SRD NFR-REL-01: at-least-once, no loss when the worker is killed mid-batch | events are popped before they are committed |
| `keys_not_rotated` | SRD FR-APP-05 and the route's description: a new key, the old one revoked | on a cache hit nothing is written |
| `wrong_key_shown` | `RotateKeyModal.jsx:64`: "Key successfully rotated for {app.name}!" | the dialog is closed with its request in flight and opened for another application, and shows the first one's new key under the second one's name |
| `frozen_window` | `EmptyState.jsx:5`: analytics appear once events are sent; `useAnalytics.js:153`: 30 s polling | the window ends when its range was chosen, so every poll asks about the same past. (The Overview passes `EmptyState` a text of its own, `OverviewView.jsx:115`, which invites to send events with the same promise) |

The models also contain, without a property of their own, in the server: a
repeated key whose `occurred_at` differs becomes a second row, since the check is
not atomic and the index contains `occurred_at`; a fallback can collide with the
row of the event it pushed and answer 500 (`Fallback`, `FlushRaises`); a Redis failure
during dead-lettering drops the rest of the batch (`DeadLetterError`, counted in
`victims`); a replay answers "stored" for an event that is still queued
(`LookUpMarker`); a request that read the old row fills the cache again after a
rotation deleted the entry (`ReadTable`, `FillCache` around `DropCache`), which
is why `DeadKeysStayDead` speaks of keys nobody is about to cache; a read on a
cache hit answers 500 (`Fetch`); the loser of two racing registrations gets 500
(`Insert`); the limiter's windows are fixed, so twice its limit can pass
around a boundary, and a call that reaches Redis after its window's counter
expired is admitted beyond the limit (`late`); and of two requests that miss the metrics cache the slower
can file the older rows, so answers may go back in time (`Save`).

In the dashboard: an answer without rows that was asked for the application or
the range selected before makes the Overview say that the one selected now has
no events, until the next poll (`Land`, `Overview`); with the comparison off, its
cards show +100 % "vs previous period" (`Compared`); a rotation answered from the key cache stores a key of no row,
which no unlock form asks to replace, because a key *is* stored (`LandRotate`,
`Overview`); so does a wrong key typed into that form (`SaveKey`). A lost answer
to a rotation leaves the dead key in `localStorage` (`FailRotate`). Figures of
an earlier question replace those of a later one until the next poll (`Land`),
and a change of range loads once with the old granularity (`PickRange`). After
a change of application the recent events of the former stay on screen until
the next load ends. A reload that began without a selection may take the user
from the application chosen meanwhile to the newest (`LandList`). The test event
of a former selection loads that selection's figures (`LandSend`). The chart lays
the previous period over the current one by position, so an empty bucket shifts
it (`PreviousSeries`), the chart drops its points beyond the last label, and an event inside the millisecond between two periods
counts for neither (`Previous`).

## Not modelled

* Per-item validation of batches, request schemas, logging, response headers:
  data without control that a property here tells apart.
* Invalid JSON on the event list: only the two handlers write it.
* Connection pool limits (10 + 20) and ARQ's own job bookkeeping: the cron is
  modelled by what it guarantees, a new run whenever one is free.
* Health check, listings, schemas, configuration: no state.
* `invalidate_cache_pattern`, which nothing calls.
* Of the dashboard: the requests of `EventDetailModal` (its figures are in
  `Reports`; that it neither cancels nor compares its requests is a hazard
  without a property), the filters of `EventsView`, the key prefix in Settings,
  the command palette, widget toggles, layout and number formats; the views and
  components no tab shows (`DashboardView`, `MonitoringView`, `MetricsView`,
  `LogsView`, `ActivityHeatmap`, `ApplicationTable`, `WhatsChangedSection`); the
  double effects of React's strict mode in development. That a request of the
  dashboard may be rate-limited or refill the key cache is covered by its
  failing and by the two outcomes of `ServeRotate`.
* Load scripts, container files.
* Liveness of Redis or PostgreSQL themselves.

## Plan

Done, in this order: the pipeline with its ledger and first proofs, API keys,
the rate limiter, the metrics query with the figures computed from it, the
dashboard.

Next modules:

1. `SchemaMigration` – upgrade and downgrade over a catalog of tables, indexes
   and sequences, round trips, ids after the migration.
2. `RequestStack` – request id context, metric labels and error handlers along
   the middleware; `Lifecycle` – the engine and Redis singletons at start and
   shutdown.
3. `BatchValidation` – the item checks of `ingest_batch_events` as an operator:
   accepted and rejected items partition the batch.
4. The detail dialog as a fourth dialog of `Workspace`.

Theorems: every safety property of a passing run is proved. The next modules
bring their own: that a round trip of the migrations gives the same catalog, and
that the item checks partition a batch. For the present ones, a bound on how
long the dashboard shows an outdated selection would be worth stating, and the
limiter as a refinement of a counter per window.
