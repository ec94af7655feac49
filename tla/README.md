# Verification of the Miraj dashboard back end

TLA+ models of the back end of the Miraj dashboard (`src/`): its concurrent
parts, and what it computes and decides from what they store. TLC
configurations check them on small instances, and TLAPS proves what holds for
every instance. `PROJECT.json` ties every definition to the lines it
models, every run to its properties and every property to a plausible bug
(a *mutant*) it would catch.

1. The system · 2. Hazards · 3. Modules · 4. Runs · 5. Fairness · 6. Proofs ·
7. Disagreements between code and promises · 8. Limits · 9. Plan

## 1. The system

`docker-compose.yml` and `Dockerfile.web` run two back-end processes on one
SQLite file (`backend/database.py`: WAL, `busy_timeout` 30 s, foreign keys on):

- **web**: one uvicorn process, FastAPI routes and APScheduler on one event
  loop. `setup_scheduler` (`scheduler.py:802-866`) registers the market scan
  (4 h), price alerts (2 min), outbox dispatch (1 min), outbox retention
  (daily), portfolio refresh, advanced alerts and position alerts
  (5, 5 and 10 min), and a daily digest. A job has one instance at a time;
  different jobs and requests interleave at every `await`.
- **monitor**: `python -m backend.realtime.worker`, one coroutine that follows
  the exchange's websocket.

Both restart after a crash. SQLAlchemy over `sqlite3` opens a transaction at the
first write, not at a SELECT; the models lean on this everywhere: *SELECT, test
in Python, UPDATE* is two steps, unless the code says `BEGIN IMMEDIATE` or
writes first.

| component | state | operations | interacts with | correct when |
|---|---|---|---|---|
| signal webhook outbox (`alerts/webhook_outbox.py`) | `signal_webhook_deliveries`; tasks of a running job | enqueue, redrive, select batch, claim, POST, record, retry, cancel, clean up | scans enqueue; channel routes rotate and delete; history feeds the cooldown | never to another user or an old URL; one row per delivery; capped; fenced; fair; everything settles; sent means sent |
| webhook transport (`alerts/webhook.py`) | two DNS admission pools | validate, resolve, sign, POST | outbox, settings | bounded lookups, no slot lost |
| alert manager (`alerts/manager.py`) | `alert_histories` rows in the caller's session | filter, cooldown, send per channel, log | scan job and scan routes call it | one alert per pair and cooldown; what was sent is logged |
| scan job and routes (`scheduler.py`, `routes/scan.py`) | `scan_runs`, result rows | start, analyse, alert, commit, mark | alert manager, analysis cache | every run ends completed or failed |
| realtime worker (`realtime/worker.py`, `store.py`, `lifecycle.py`) | `realtime_signals`, `realtime_notifications`, membership, last frames | connect, frame, stale check, evaluate, record, dispatch, refresh, restart | channel and watchlist routes | each pushed transition queued once, sent, never a wrong state |
| candle series (`realtime/worker.py`, `mexc_stream.py`) | a deque per pair and interval | backfill, add, closed | exchange | decisions rest on closed, ordered, complete candles |
| price alerts (`services/price_alert_service.py`, `routes/price_alerts.py`, `chart_alerts.py`) | `price_alerts` | create, sync, cancel, delete, two firing jobs | scheduler, exchange | fires once, on its own criterion, and does fire |
| settings (`routes/settings.py`) | `alert_channels`, `user_settings` | channel CRUD, cap of webhook channels | outbox, realtime, manager | cap holds, changes reach queued work |
| analysis service, batch scanner, deep analysis | module-level cache; time of the last batch | fetch, analyse, store, read back, clear, expire | routes (threads), jobs | a caller gets a result of its own symbol, no older than promised; batches are rare |
| analysis core and `run_scan` (`mirai_core`, `analysis_service.py`) | none shared | candles, indicators, structure, score, plan, verdict; each step may fail alone | scans | no decision on evidence that is missing; the stop protects; score, plan and verdict agree |
| channel settings (`routes/settings.py`) | `alert_channels` | create, update, delete, e-mail channel, cap of webhook channels | DNS lookup in between | the cap holds under concurrent requests |
| position alerts (`scheduler.py`, `position_alert_service.py`) | dedup store in memory | evaluate, send, remember, age | exchange, telegram | one danger alert per hour, and it is told |
| watchlist (`routes/watchlist.py`) | `watchlist_pairs` | add, remove, reorder | realtime membership, catalogue | listed once, in the order asked for |
| collector ingestion (`routes/collector_reports.py`) | nonces, events, failures, reports | enter, judge, store, repeat | external collectors | one verdict per nonce; a report is what was validated |
| portfolio and exchange sync (`routes/portfolio.py`, `exchange_service.py`, phase 2a/2b/3) | keys, positions, ledger, snapshots, coverage rows | connect, disconnect, read pages, upsert, cover | exchange, goals | complete means everything was read |
| goals (`goal_service.py`, `futures_settlement.py`, phase 3) | `monthly_profit_goals` | open, edit, close, account return, buckets | snapshots and ledger | a closed month stays; the parts make up the month |
| closed-position analytics (`analytics_service.py`) | — (reads history) | filter, periods, calendar, streaks, drawdown | history | figures add up, no row vanishes |
| trade journal (`routes/journal.py`, `scan_attribution_service.py`) | entries, screenshots | create with link and tags, edit, delete, upload, summary | positions, scans | one entry per position; what was promised is listed |
| scan comparison (`diff_service.py`, `scan_diff.py`) | — (reads scans) | compare two scans, timeline | scans | symmetric; what turned is named once |
| DCA service, desk | — | fourteen ordered rules, alerts, stance of the desk | scan, position | adds are backed, closes are dangers |
| DCA shadow mode | audit rows, kill switches | evaluate, gate, record | — | limits respected up to the evaluations under way |
| DCA validation | last completed payloads | replay, metrics, route with a time budget | stored scans, position | fills bounded and in order; an answer is of its own request |
| trading (`routes/trading.py`) | at the exchange | order, close, cancel, leverage | exchange | a close only reduces; answers are true |
| macro cache (`macro_service.py`) | numbers, errors, regime in memory | refresh, regime | public sources | fields fit together; nothing goes back |
| digest, senders, SSE stream, chart relay, authentication, encryption | single rows | formatting, one call each, CRUD | — | sequential |
| frontend, dashboard, desktop application, migrations | none shared | user interface, deployment | HTTP | — |

`PROJECT.json` lists all of them with their status.

## 2. Hazards

`PROJECT.json` lists the hazards line by line; they are of these kinds:

- **A value read before an `await` and used after it**: the cooldown count
  (`manager.py:314`), the lease fence (`webhook_outbox.py:455`), the alerts a job
  selected (`price_alert_service.py:207`), the signal row a message is rendered
  from (`worker.py:191`).
- **A side effect before its commit**: messages sent by a scan, a dispatch or a
  firing job whose session commits later, or never.
- **Ids used again**: the tables declare no AUTOINCREMENT, so SQLite gives the
  largest freed id to the next row, and late UPDATEs go by id.
- **Crashes and deadlines**: jobs cancelled in mid-batch, rows left *processing*,
  runs left *running*, reconnects that rebuild state.
- **Parts that fail alone**: a step of a scan, a page of a history, a source of
  the macro data fails and the rest goes on; what is missing must not pass for
  what agrees (`analysis_service.py:198`, `exchange_service.py:1153`,
  `macro_service.py:615`).
- **Figures computed twice**: totals, periods, calendars and buckets cut from the
  same rows by different rules; score, plan and verdict, or advice, alert and
  desk, judging the same scan.
- **Promises over time**: every delivery settles, every notification is retried,
  an alert whose level stays hit fires.

## 3. Modules

| module | code | state in the model |
|---|---|---|
| `WebhookOutbox` | `webhook_outbox.py`, channel routes | `channels`, `rows` = the tables; `batch`, `task` = local variables of the running job; `lost` counts killed jobs |
| `DeliveryQueue` | (abstract) | one `items` function: a bounded queue per user whose items are queued, delivered, dropped or gone |
| `ScanAlerts` | `scheduler.run_scheduled_scan`, scan routes, `manager.py` | `running` = scan_runs rows; `session[s]` = session and locals of each scan; `recent`, `queued` = what the cooldown counts |
| `RealtimeSignals` | `worker.py`, `store.py`, `lifecycle.py` | `row`, `note`, `backoff`, `channel`, `watched` = the database; `members`, `fresh`, `pc`... = the worker |
| `CandleSeries` | `CandleStrategy`, backfill, frames | `series` = the deque; `now`, `updates`, `wire` = the exchange |
| `PriceAlerts` | `price_alert_service.py`, `sync_server_setup`, `check_advanced_alerts_job` | `row` = the table; `job[j]` = what each job read and holds |
| `ScanCache` | `analysis_service` cache, `deep_analysis_service.py`, `batch_scanner.py`, scan and batch routes | `cache` = one symbol's entry of the dict; `request` = each route and its thread, which outlives it |
| `AlertChannels` | channel routes of `settings.py` | `rows` = numbers of rows by type; `lock` = the write reservation |
| `PortfolioSync` | connect, disconnect and refresh routes of `portfolio.py`, `phase2a_sync.py`, `phase2b_ledger.py` | `happened` = the exchange; `connected`, `tables` = the database; `syncing` = each refresh with what its streams saw |
| `HistoryPaging` | `_paginate_mexc_history` | `answers` = how this exchange pages; `reading` = the loop |
| `CollectorIngest` | `ingest_collector_report` | the four tables; `submission` = each request between its two transactions |
| `Watchlist` | `watchlist.py` | `list` = the rows by id; `visitor` = what each request has read and is about to write; `asked` = which rows were last asked to come before which, by a reorder or an addition |
| `PositionAlerts` | `check_position_alerts_job`, `position_alert_service.py` | `dedup` = the dict in memory; `pass` = the running job |
| `DnsAdmission` | `_resolve_hostname_with` | `free` = the semaphore; `orphans` = lookups nobody waits for |
| `ClosedPositions` | `analytics_service.py`, closed-position routes | `history`, `filter`; every figure is an operator of them |
| `MonthlyGoals` | `goal_service.py`, `phase3_account_return.py`, `futures_settlement.py`, goal routes | `equities`, `transfers`, `covered` = what syncs store; `goals`, `goalRequest` |
| `ScanPipeline` | `run_scan`, `mirai_core` confluence, plan and verdict | `step` and what each step has found |
| `DcaAdvice` | `dca_service.py`, `position_alert_service.py`, `position_desk_service.py` | no state of its own: rules over a finished scan of `ScanPipeline`, which it extends |
| `DcaShadow` | `dca_shadow_service.py` | `audit` = committed rows; `rulings` = evaluations under way |
| `DcaMetrics`, `DcaReplay` | `dca_validation_metrics.py`; `dca_validation_reconstruction.py`, `dca_validation.py` | `storedScans`, `held`; `validations` = requests; `lastCompleted`. `DcaReplay` computes its figures with `DcaMetrics` |
| `OrderedRows` | the loops that pick rows in `goal_service.py`, `dca_validation_reconstruction.py` | no state: which rows of a list pass, in their order |
| `Trading` | `trading.py` | the exchange's `position`, `resting` orders, `trades`; `asks` = each request's next call |
| `Journal` | `journal.py`, `scan_attribution_service.py` | `closed`, `scanRows`, `entries`, `files`; `tasks` = requests |
| `ScanDiff` | `diff_service.py`, `scan_diff.py` | `saved` = stored scans; the answers are operators of it |
| `MacroCache` | `macro_service.py`, `macro.py` | `cache`, `second`, `regime`, `fresh` = `_cache`; `got` = the tasks of each refresh |
| `MC*` | — | model values for TLC, and which module a behaviour is of |
| `AdviceProofs`, `AnalyticsProofs`, `RealtimeSignalsProofs`, `ReckoningProofs`, `ScanAlertsProofs`, `ServicesProofs`, `SettlesProofs`, `WebhookOutboxProofs` | — | the theorems of §6 and the lemmas they rest on |

The components meet in shared tables. `WebhookOutbox` carries the channel rows
its deliveries hang from; `ScanAlerts` carries the outbox as a set of queued
deliveries that are recorded or given up (`Deliver`, `GiveUp`), which is what
`DeliveryQueue` says of the outbox and `WebhookOutbox` is shown to implement.
`GiveUpUnanswered` is a delivery the receiver got and whose answers were all lost: the
user has the alert, the history has not, and `AlertsBounded` counts a fault.

`DcaAdvice` and `DcaReplay` are composed with the scan they judge and the
metrics they feed; `MonthlyGoals` reads the snapshots, ledger rows and coverage
that `PortfolioSync` is about, as free choices it may not assume fresh.

Each action is one database transaction, one network call, or one statement
after which another connection may run. Three examples:

- **Claim to record** (`_dispatch_one`, `_record_attempt`): `Claim` is the
  conditional UPDATE, the validation of the channel and the commit; `Post` the
  network call with its outcome; `CheckFence` the SELECT of the lease;
  `Write` the flushed UPDATE by id and the history row. `TaskFails` and
  `Abandon` may strike between any two of them.
- **A scan's alert** (`_process_single_result`): `TakeResult`, `CountHistory`,
  `CountQueue`, then one of `Send`, `SendFails`, `AnswerLost`, `Queue` per
  channel; `Commit` or `CommitFails` once per scan.
- **Firing a price alert** (`_trigger_alert`): `Flush` (the SELECT of the
  channels flushes the UPDATE and takes the write lock), `Notify`, `Commit`.

**Data.** A clock reading is only ever compared with a stored deadline, so a
deadline is a Boolean that turns TRUE at some moment (`due`, `backoff`, `fresh`,
"recent"). A URL with its secret is one `Config`. What a market analysis or a
candle evaluation finds is a free choice. A candle is its start and the number of
updates its copy has seen. Wording, signing and arithmetic are left out.

## 4. Runs

Every run below is one `.cfg`; expected results are in `PROJECT.json`. The last
three passing runs look at several modules that share no state, one at a time:
the first variable of the MC module says which, and the others stay as they
began. Invariants are grouped by module (`SyncInv` is the type invariant and
`CompleteIsBacked`, and so on); the modules state each part by its own name.

| run | instance | shows |
|---|---|---|
| `OutboxSafety` | 2 users, 1 channel id, 2 configurations, 3 row ids, one dispatcher, cap 2, batch 2, 1 attempt, 1 lost job; symmetry, and a view without the histories no property of the run reads | `NeverRedirected`, `TaskOwnsRow`, `AttemptsBounded`, `FairBatch`, refinement `ImplementsQueue` |
| `OutboxSettles` | 1 user, 2 row ids, cap 1, 2 attempts, 4 claims, 1 lost job; channels are not deleted | `FenceHolds`, `SentIsBacked`, `QueueCap`, liveness `EverySettles` |
| `OutboxIdReuse` | as above with deletion | counterexample to `SentIsBacked` (§7) |
| `Scans` | the job and one request, telegram and webhook, 1 fault | `AlertsBounded`, `SentIsLogged`, `RunsTrackJob` |
| `ScanDuplicate` | the job and one request, telegram | counterexample to `AlertedOnce` (§7) |
| `RealtimeSettles` | 1 signal, 1 gate | liveness `PendingSettles` |
| `CandleYoung` | a contract of 2 candles | counterexample to `InOrder` (§7) |
| `Services` | `ScanCache` 2 requests; `AlertChannels` 3 requests, cap 2; `PortfolioSync` 1 account, 2 refreshes; `CollectorIngest` 2 submissions, 3 nonces, 3 bodies of which 2 are one report and 1 is rejected; `Watchlist` 2 visitors, 2 owners, 3 pairs; `CandleSeries` deque of 4, 8 candles; `PriceAlerts` 2 ids, both types, both jobs, 1 fault; `RealtimeSignals` 1 signal, 3 gates, 3 transitions, 1 fault; `Journal` 2 requests | `CacheInv`, `ChannelsInv`, `SyncInv`, `IngestInv`, `WatchlistInv`, `CandleInv`, `FiredOncePerJob`, `RealtimeInv`, `JournalInv` |
| `Settles` | `PriceAlerts` one type; `PositionAlerts` 2 exchanges, 2 dangers under one key, 1 restart; `DnsAdmission` 4 calls, 2 slots; `HistoryPaging` pages of 2, 6 rows, 2 attempts | `PositionInv`, `DnsInv`, `PagingInv`, liveness `NeverForgotten`, `DangerIsTold`, `CallsEnd`, `ReadingEnds` |
| `Reckoning` | `ClosedPositions` 3 trades; `MonthlyGoals` 1 visitor, 4 ticks; `ScanPipeline` with `DcaAdvice`, 1 failed step; `DcaShadow` 2 evaluations; `DcaMetrics` 4 trades; `DcaReplay` 4 scans, 1 change of side; `Trading` 2 requests, 1 foreign trade, 1 lost answer; `ScanDiff` 4 scans; `MacroCache` 2 visitors, 1 restart | `ClosedInv`, `GoalInv`, `ClosedIsFinal`, `ScanInv`, `DcaInv`, `ShadowInv`, `ReplayInv`, `TradingInv`, `DiffInv`, `MacroInv`, `NeverGoesBack` |
| `GoalRewritten` | `MonthlyGoals` with 2 visitors | counterexample to `ClosedIsFinal` (§7) |
| `ScanFailedGate` | `ScanPipeline` | counterexample to `FailedGateIsNoTrade` (§7) |

`Services`, `Reckoning` and the two counterexample runs of `MCReckoning` set
`CHECK_DEADLOCK FALSE`: a module ends when its scans, moments or uploads are used
up, and a finished analysis has no next step.

**Bounds, and why they are enough.**
`OutboxSafety` needs two users and one channel id, because the hazard is one
user's channel id freed and taken by the other; two configurations, for a
rotation; three row ids so that a freed id is used again while another row is
queued, and so that a batch of two leaves a row behind (`FairBatch`). One attempt
and one lost job reach both exits of the retry bound. `OutboxSettles` has two
attempts, so that a transient failure returns a row to the queue. `MaxClaims` caps
claims of a row since it was queued; it is at least attempts plus lost jobs, so
it cuts off nothing the retry bound allows. In `Scans` one fault is enough for each
kind of fault, and nine serials are more than the alerts that can be in sight at
once: a scan never blocks for want of a number.

In `Services` every race is of two actors, and one more where a third meets it: a
cap of two channels needs three requests; a nonce used again by another body
needs two submissions, a third nonce lets a burned one be followed by a retry.
The watchlist is looked at from two sides: one with
three pairs of one user, so that a later reorder can name neither of two rows, and
one with two users, so that an id freed by one is taken by the other.
The candle series runs the deque over twice, across any number of reconnects.
`MaxRows = 2` of the price alerts lets an id be freed and used again during a
pass. Three transitions cover ACTIONABLE, its end and its return. One step of
`MaxMoment` is enough for two refreshes to see different moments. The journal is
looked at from three sides, two requests that create entries while positions and
scans are stored, one while everything happens, and two on existing
entries; all three together exceed five minutes.

In `Settles` four calls for two slots make two wait while lookups hang; pages of
two and six rows give three pages while rows come in at the front.

In `Reckoning` half-day ticks with a local midnight in the middle of a UTC day
let a trade fall on different days; three trades have a first, a middle and a last
in every order, with and without a close time, fees and duration. Four ticks
cross from one month into the next. A scan may lose one step; two lost steps only
repeat it. A timeline of three out of four stored scans passes its limit. Two
refreshes of the macro data overtake each other; the fallback of the dollar index
publishes twice, and the two indices give opposite clues of the regime. `MaxRows` of the shadow mode bounds
audit rows together with evaluations under way, so that the last one may still
be recorded.

## 5. Fairness

- `WebhookOutbox.FairSpec`: weak fairness of `SelectBatch` (the job runs every
  minute), of each running task (coroutines are scheduled, the transport has a
  hard timeout) and of `BecomesDue` (time passes). Users, scans, faults and
  retention owe nothing. `EverySettles` assumes that redrives stop
  (`RedrivesStop`): a redriven row keeps its `created_at` and with it its place
  at the head, so endless redrives starve younger rows. Jobs are lost finitely
  often (`MaxLost`).
- `RealtimeSignals.FairSpec`: strong fairness of frames, checks and evaluations
  (the stream does not fail for ever before one), of a send (Telegram does not
  refuse for ever), weak fairness of the dispatch's own steps and of time.
  `PendingSettles` assumes that some pair stays monitored, because an idle worker
  does not dispatch (`worker.py:339`).
- `PriceAlerts.FairSpec`: weak fairness of each job, strong fairness of `Flush`
  per alert: prices are not unavailable, and the write lock not taken, at every
  single pass.
- `PositionAlerts`: weak fairness of the job and of time, strong fairness of the
  evaluation of an exchange and of a send: neither fails at every single pass
  (`scheduler.py` runs the job every ten minutes whatever the last one did).
  `DangerIsTold` is about a danger that persists while a channel does.
- `DnsAdmission`: weak fairness of a call's own timeout (`asyncio.wait_for`) and
  of its submission; *no* fairness of lookups, which may hang for ever.
  `CallsEnd` holds all the same.
- `HistoryPaging`: weak fairness of the loop; the exchange owes nothing.
- The other modules are checked for safety only.

## 6. Proofs

TLAPS checks the following for all values of the constants that satisfy the
`ASSUME`s of the modules (finite row ids, positive limits, null values outside
their types, and the like).

**`WebhookOutboxProofs`.** `TypeCorrect`; for any number of dispatchers
`DeliveriesHaveOneRow` and `SignalsAreNeverRedirected`; for a single dispatcher
(the deployment of `docker-compose.yml`) `TasksOwnTheirRows`,
`RetriesAreBounded`, `QueueIsCapped`, `SentStaysSent`, `OutboxImplementsQueue`;
and, with channels that are not deleted, `LateResultsAreFenced` and `SentWasDelivered`.
`BatchesAreFair` holds for any number of dispatchers too.

The inductive invariant is `IInv == TypeOK /\ TaskOwnsRow /\ AttemptsPaid`.
`TaskOwnsRow` is what one dispatcher has instead of a real fence: the row of a
running task is gone, a fresh delivery under the same id, or still leased to the
task with its attempt number. `AttemptsPaid` extends `AttemptsBounded` with what
a processing row without a task means: a claim lost to a fault. From it follows
`RowStep`: a step other than an enqueue erases rows, or updates one *queued*
row and keeps whose it is. The cap, the finality of *sent* and the refinement all
rest on that lemma. `NeverRedirected` needs `ChannelsRemembered`: an enabled
channel's owner and configuration are in `ever`, which only grows.
`SentWasDelivered` needs to know what a task's result is about: `LeasesKept` (a
task that has not ended holds its row's lease) and `ResultsMatch` (the row
carries the task's delivery, and a success was accepted by its receiver). Both
fail when ids are freed and reused, hence the second assumption.
`BatchesAreFair` is about the ranks of a selection: the oldest row of a user that a
batch leaves behind ranks one after that user's rows in it, the latest row taken of
another user ranks at least as high as there are rows of that user, and who is taken
precedes who is left (`SelectionIsFair`, with the least and the greatest element of
a set of row ids).

**`ScanAlertsProofs`.** `TypeCorrect` (with: a job at work has its row, which
keeps the counter from going below zero), `RunsTracked`, `AlertsLogged`
(inductive with `LogOfScan`: a scan that has not begun to process holds no row),
and `CooldownAlone`: where `Request`, `Webhook` and the faults are empty,
`AlertedOnce` holds for all users, pairs and channels. Its invariant says why:
a topic leaves `todo` once and enters the log only then (`OnePass`); with
`SentIsLogged` a topic that passed both counts has reached nobody.
`ScanDuplicate` is the counterexample without the first assumption; the terms for
webhooks and faults in `AlertsBounded` pay for the other two.

`OverlapBounded` counts what `AlertsBounded` allows. Not inductive either: a scan
counts in one step and sends in another. `BoundInv` therefore bounds, while a topic
is within its cooldown, everything that is or may yet become an alert: what is
known to the counting queries (`Known`), what a session still holds (`Pending`),
and the scans that are past a count they made too early (`Asking`). Each step of a
scan moves an element from one of these sets to the next; a delivery that slips
between the two queries, and a fault, are paid for by their own terms.
`OnePassOf` says that a scan looks at a topic once, `OwnSerials` that two scans do
not write one row.

**`RealtimeSignalsProofs`.** `TypeCorrect`, `RepeatsAreBounded`,
`SentWasReceived`, `SettledStaysSettled`, and `RealtimeHolds`, which is all of
`RealtimeInv`. `OutboxInv` relates, for every notification, its row, the
dispatcher's copy of it, what the user received and the faults so far
(`OutboxOf`): what is at hand is not settled, a transition that has not happened
has neither row nor message, and a message sent without its commit was paid for by
a fault. `QueueInv` adds that a channel nobody touched is on (`UntouchedIsOn`);
without it `TransitionsAreQueued`, which compares the queued rows with the
number of transitions, is not inductive. `CandlesAreComplete` is about
`CandleSeries` with frames in order and a contract at least as old as the deque is
long: `CandleIInv` follows the frames from the deque into the wire (`Follows`),
so that what is lost is known to be unseen, and a copy that is followed by a later
candle is final.

**`SettlesProofs`** (`PriceAlerts`, `DnsAdmission`, `PositionAlerts`,
`HistoryPaging`).

- `TypeCorrect` and `FiresOnce`: for any alerts, rows and faults an alert is
  received at most once per job that selects its type, plus once per fault. The
  bound alone is not inductive. `JobInv` adds the write lock (one session at
  most holds it, and the row it is about to write exists) and that what a job
  has read is of a generation already used, with that row's type. `FireInv` then
  counts, for a row, the jobs that read it and may still send (`Opens`) and
  those that sent and have not committed (`Sents`): what was received and
  `Opens` stay within the bound (`ToCome`), and while the row is active, so that
  another job may select it, only `Sents` and faults have been received
  (`Received`). A cancel that a stale commit overwrites is harmless for the
  count because the row it leaves is not active.
- `DnsSlotsBalance` and its consequence `LookupsBounded`. `SlotInv` counts
  granted calls and running lookups as one set, so that the step from one to the
  other leaves the sum alone; the rest is what adding or removing one call does
  to a cardinality.
- `OneMessageAnHour`. `PositionIInv`: what a key was sent within its hour is its
  entry in the store, or was forgotten by a restart; and a key with a recent
  entry is among those the running job skips.
- `CompleteIsComplete`. `PagingIInv`: the pages read so far reach from the front
  to the end of the last page *as it lies now*, while new rows push the old ones
  back; so they have every row of the beginning that is not still behind it.

**`ServicesProofs`** (`AlertChannels`, `PortfolioSync`, `CollectorIngest`,
`ScanCache`, `Watchlist`, `Journal`).

- `ChannelsSafe`. The cap is not inductive: a request counts in one step and
  inserts in a later one. `ReservedInv` says that the write reservation is held
  exactly by the request that is about to count or insert, and that whoever is
  about to insert still has room; a request without the reservation cannot change
  a row, so the room stays.
- `CompleteCoverageIsBacked`. `SyncIInv` adds that a refresh under way knows whose
  account it reads, and has nothing left to fetch when it looks up its first row;
  what it stores as complete was then read whole.
- `IngestIsConsistent`. `NonceInv`: a nonce stands for one body, one running
  submission and one verdict. `StoredInv`: a stored report has its validation, one
  per id, and a submission about to commit holds the write lock, under which it
  found none. Both are needed for each: a verdict is unique because its submission
  is, and the report is because the lock is.
- `AnswersAreNoOlder`. `CacheIInv`: while a request is in `run_scan`, nothing older
  than its floor is usable or on its way into the cache (`NothingOlder`), be it in a
  thread whose route has long answered; a batch that was let in beside the first one
  is counted before it is recorded (`BatchesCounted`).
- `ListsKeepTheirOrder`. `WatchlistIInv` adds to the properties that rows with
  an asked order exist, that a row that is flushed and not committed holds the
  write lock, under an id and a name that are free (`InsertWaits`), and that the rows
  an addition found its place after still come before that place unless somebody
  reordered or removed them (`SeenHolds`). The unique index is thus not enough by
  itself: it is checked under the lock. `ForeignOnlyIfFreed` is inductive with the
  ids freed since the check as history.

- `JournalHolds` is all of `JournalInv`. `LinksSafe`: what a request that creates an
  entry has read as linked covers every entry that was there when it began, so
  that it can only collide with one that was inserted later; each entry has a birth
  of its own although ids are given again. `TagsSafe`: the scan found for a position
  is the latest before it opened, and since the opening lies in the past no later
  scan can come before it (`FromTrue`). The premise "no other scan of its time" of
  `TagsStayTrue` is needed: of two scans of one moment the last stored is
  taken, and deleting it may leave a row that looks the same further down.
  `ShotsSafe`: a request that will write the list back has read every file
  that was promised to the row it writes to, because two requests on one entry
  know of each other. The counts of the summary are a bijection between the
  listed entries and the places where the tag is counted; the bands split the
  trades below 30 points one after the other.

**`AdviceProofs`** (`ScanPipeline`, `DcaAdvice`, `ScanDiff`).

- `VerdictHolds`: whatever steps of a scan fail (score, plan and verdict included), the
  decision and the bias rest on evidence that is there, for every market: a LONG on a
  band of twenty weeks. A SHORT may rest on fewer (`RegimeKnown` does not hold, §7).
- `ScanHolds`: all of `ScanInv`, if every order block lies at two cents or higher.
  Levels are rounded to cents (`Rounding` lemmas), and below two cents the stop may
  round to the entry (§7); the theorem states the limit of the code as its hypothesis.
- `AdviceHolds`: for every market, position and scan the advice, the alerts and the desk
  agree as `DcaInv` says, with the hypothesis of `ScanHolds` for the stop. The rules are a list and the first that
  fits decides; `LeastNat` (a set of naturals has a least element, from the
  well-foundedness of `<`) gives that first rule, where TLC evaluates it.
- `DiffHolds`: all of `DiffInv`, for any stored results (a part holds one value or
  none) and any order of saving and deleting. The invariant is only the type; the
  rest is about any two results (each comparator finds nothing in a scan compared
  with itself, and its entries have a mirror image in the other direction) and any
  sequence of them: the least scan at which a label differs from the first, the
  total is further off than five points a step, or a pattern is gone, has a step
  before it that names the change.

**`ReckoningProofs`** (`DcaShadow`, `Trading`, `MacroCache`).

- `ShadowDecidesRightly`. For *every* window of an hour or a day, `LimitHolds`
  bounds the ADDs counted in it together with the rulings that may still add one:
  those that passed the limit and those that would pass it now. `CooldownHolds`
  does the same for the hours after a CLOSE. `Dated` says that nothing is of the
  future, so a window that has ended stays as it is.
- `TradingHolds`. `TradingIInv` says of each request how far it has come and what
  of it the exchange did (`OrderOf`, `CloseOf`, `CancelOf`), that trades join
  (`TradesChain`), and that a second close shrinks only what somebody opened in
  between (`SecondOf`): the answer to the first was lost.

- `MacroFieldsAgree` and `MacroNeverGoesBack`. `BroughtInv` relates what tasks have
  brought to what the series published, `NewerInv` says that a refresh no other one has
  overtaken knows nothing older of a series than the cache, and `BeganInv` that it
  brings nothing older than what was published when it began.

**`AnalyticsProofs`** (`ClosedPositions`, `MonthlyGoals`, `DcaMetrics`, `DcaReplay`). What a sum or a loop over
stored rows computes takes induction over data. The library's induction theorems
take a predicate as an operator, which the provers cannot instantiate; `UpTo`,
`SubsetInduction` and `FiniteInduction` take a *set* of the good numbers or sets
instead, and follow from the least counterexample (`LeastNat`). From them come the
existence of the recursive function behind the library's sum, its independence of
the order (`SumTakes`), and that a sum splits over disjoint parts (`SumUnion`,
`SumOfParts`).

- `ClosedHolds`: all of `ClosedInv`. The invariant is the type: everything else is
  about any history and filter. Breakdowns and periods are parts of the rows kept;
  the places of the order of closes are a bijection (`ChronologicalRows`); `StreakOf`
  and `Fallen` say what the loops of `_streaks` and `_compute_max_drawdown` know after
  `n` trades: the longest run of each kind so far and the one going on, the highest
  equity so far and the largest fall from an earlier one.
- `GoalHolds`: all of `GoalInv`. `GoalIInv` adds to the type that snapshots lie in the
  order of time (`Sorted`), that no plan is forgotten while a request remembers it
  (`RequestFits`), and that what a request closes lies in the past. The net profit up
  to a snapshot (`NetUpTo`) grows from bucket to bucket by the bucket's own profit,
  because the flows of two adjoining stretches are those of both (`FlowSums`); the
  last bucket ends with the last snapshot of the month (`InOrderEnds`). All snapshots
  of a month are positive, so the month opens with its first (`MonthEndpoints`): the
  endpoints of an account return, which has no such guarantee, may be out of order.
- `ClosedHoldsForOne`: `ClosedIsFinal`, if there is but one request at a time. What it
  knows of the plans is then still true when it writes (`OneKnows`); with two it is
  not, and `GoalRewritten` shows what comes of it (§7).
- `MetricsHolds`: all of `MetricsInv`, for any list of trades. `FallOf` is shared with
  the closed positions. No part of a curve loses more than all losses together
  (`SumOfPart`), so the drawdown is within the gross loss. A trade's place by its end
  is the number of those before it; the places are a bijection (`Rearranged`), which
  is why the split counts every trade once (`NoTradeLost`).
- `ReplayHolds`: all of `ReplayInv`. `RunOK` is the invariant of the loop of
  `_simulate_events` after `n` scans: each level filled has one fill, in a scan of the
  position's direction and for its share; the fills add up to the shares of the
  levels (`SharesFit`), and cost no more than the slippage above them (`FillsCost`);
  every scan has its event until one closes, after the first
  fill. What a share buys costs the share (`ShareBuys`), hence the profit is that of
  the fill prices (`SumCombines`). A scan stored later is used last or not at all
  (`UsableAppends`), the recursion agrees up to it (`RunsAgree`), and a step only adds
  (`StepAdds`). `ReplayIInv` adds that scans are stored in the order of time and that
  a completed payload lies under its own end date. The conjunct about the metrics is
  `MetricsHolds`; the theorem assumes both specifications.

Assumptions on constants are those of the code: `RowId`s and places are finite
ranges, null values lie outside their types, a request has an id of its own
(`Trading`), `"nobody"` is no visitor (`Watchlist`), there is a pair to monitor
(`RealtimeSignals`), and the audit listing of the shadow mode, which returns 200
rows, holds a day's ADDs and the overlap (`DcaShadow`: `ADD_DAILY_LIMIT` is 10). One
is the model's: the margin of `DcaReplay` is a multiple of five times every mark
price, so that shares and quantities, floats in the code, are whole numbers.

Model-checked only: liveness under fairness (`EverySettles`, `PendingSettles`,
`NeverForgotten`, `DangerIsTold`, `CallsEnd`, `ReadingEnds`), which the prover cannot
reach. Every safety property of the passing runs is stated by a theorem, under the
assumptions named with it.

## 7. Disagreements between code and promises

Five runs expect a counterexample; `PROJECT.json` quotes the promise.

- `OutboxIdReuse`: between the fence SELECT and the UPDATE by id the channel is
  deleted and a new delivery takes the row's id: it is marked sent, never posted.
- `ScanDuplicate`: a scan commits its history at its end; an overlapping scan of
  the pair sees none and alerts again.
- `CandleYoung`: a contract with fewer candles than the deque has its history
  appended again on every reconnect.
- `GoalRewritten`: a request that loaded an open month writes its target after
  another request has closed the month.
- `ScanFailedGate`: a scan whose entry fails a gate still carries a trade plan
  that says to trade.

Seen while modelling, within the bounds the passing properties state. *Messages and jobs*:

- With *two* dispatchers on one database a stale result can be written over a
  newer lease (`FenceHolds` is proved for one).
- The two queries of the cooldown count have a gap; `AlertsBounded` allows one
  more alert per scan for it. A failed commit loses the record of what was sent.
- A crash between a send and the commit of a dispatch repeats every message of
  the batch (`SendsBounded`); an idle worker does not retry; a pair that left the
  membership is still told about; the first stale check after a start may mark
  pairs STALE whose first frame is on its way.
- Updates between the backfill and the subscription are lost (`unseen` in
  `NoGap` and `Completed`). A late frame of an earlier candle would be appended;
  the runs keep frames in order (`Reordered = FALSE`).
- The text of a refused message is rendered again from the current row, so a state
  that is never to be pushed may be pushed (`store.py:81`); the price job fires
  indicator alerts as price levels.
- "All provided pair_ids must belong to the current user" (`watchlist.py:187`) is
  checked by a SELECT; the UPDATEs name no user. A row deleted in between may have
  given its id to a row of another user, which is then moved (`ForeignOnlyIfFreed`
  says only then). Two additions at the same time share a place, and a reorder that
  names some rows may give them places the others have.
- Both firing jobs may send for one indicator alert (`JobsFor`); a cancel
  committed between a job's SELECT and its UPDATE is overwritten; a level
  inserted under a freed id can be marked triggered by a stale UPDATE.
  `_is_in_cooldown` never holds of a row that was read active, because
  `triggered_at` is only written together with status *triggered*.
- A user with several enabled Telegram channels gets no danger alert at all:
  `scalar_one_or_none` raises and the pass goes on to the next account
  (`scheduler.py:713`; `DangerReachesUser` of `PositionAlerts` does not hold). The
  dedup key has neither exchange nor side.
- A paging exchange that declares neither the number of pages nor a total is read one
  page deep: the page asked for is taken for the last (`exchange_service.py:1206`) and
  the history is stored as complete (`exchange_service.py:1270`). `CompleteHasAll`
  therefore asks for a total, or for a number of pages that advance.
- Nothing keeps a user to one e-mail channel: after two overlapping first saves (or two
  creations over the general route) every read of the e-mail settings raises
  (`settings.py:408`, `scalar_one_or_none`).

- "At most one batch scan per user every 5 minutes" (`watchlist.py:230`,
  `batch_scanner.py:6`) does not hold of requests that overlap: the run is recorded
  only after the watchlist was awaited, and each request that passed the test until
  then runs. `BatchesAreRare` states what is left of the promise. A run whose entry
  another request's deep scan clears between store and read fails with a `KeyError`
  (`analysis_service.py:411`); an older thread that stores last makes a deep scan
  answer with older data than it fetched itself (`AnswersAreFresh` bounds how old).

*Exchange, goals and analytics*:

- Disconnecting leaves ledger, snapshots and coverage rows
  (`portfolio.py:825`; `DisconnectClears` does not hold), and a return may rest on
  rows of two accounts (`ReturnIsBacked` does not). A position without an exchange
  id is matched by symbol and close time alone.
- A goal goes by the return rounded to four decimals of a percent
  (`goal_service.py:141`, `557`), its remaining amount by the profit itself
  (`goal_service.py:546`): "Ahead of the monthly goal." may stand beside an amount that
  still remains, and a target with more than four decimals may be exceeded and shown as
  behind. `StateMatchesRemaining` bounds both by half a unit of the rounding.
- The ending snapshot of a return may lie before its opening
  (`futures_settlement.py:108-118`; `EndpointsInOrder` does not hold).
- `get_daily_pnl` and `get_period_pnl` include the instant `to` and take no other filter
  (`DailyRows`), the explorer excludes it (`InRange`); a row without a close time passes
  the explorer's range and is in no day of either.
- The confluence maxima add up to 33 although the documentation and the response
  model of the scan route (`scan.py:68`) say 30; a score
  of 30 or more is in no accuracy band; `_ema_aligned` tests ascending spans;
  `qqe_aligned` compares BULLISH and BEARISH with GREEN and RED and never holds. For
  coins below two cents the stop may reach the entry.

*Positions and advice*:

- `_patterns` of the DCA service reads keys a scan never stores, so the pattern
  guard is inert. An RSI of `None` inside a zone raises, and the whole batch fails
  (`EveryPositionAnswered` does not hold).
- The documentation says hard exits override everything; profit is tested first.
  A REDUCE row of the desk still shows its zone for adding. The desktop takes an
  unknown side for LONG and reads `dca` and `position_alerts`, which no scan
  stores: what it shows is connected with neither the engine nor the alerts.
- With fewer than twenty weekly candles (a young coin, or weeks rebuilt from a few days
  of 4h candles) the band is NaN, no price is above it, and the regime reads "bear"
  (`analysis_service.py:745-772`, `indicators.py:124`), where `verdict.py:26` wants the
  "regime known and matching" and `test_verdict_contract.py:148` an unknown regime for a
  missing band. A SHORT may be READY on it (`RegimeKnown` does not hold; for a LONG
  `DecidedOnEvidence` does), and the DCA engine tells a LONG to reduce.
- Where score or plan failed, a READY setup has no plan; where the verdict failed, a
  scan has a plan and no verdict (`analysis_service.py:283`, `324`, `339`).
- The DCA engine reads no stop. The entry of a SHORT is the *low* end of its zone, so in
  a zone wider than the distance of the stop it adds at a price beyond the stop;
  `AddIsBacked` excludes that for a LONG and for zones that end before the stop.
- The shadow mode is called by tests only, and nothing under `src` writes a kill
  switch. The limit of ADDs is exceeded by the evaluations that overlap
  (`AddsBounded` allows for them).
- A validation has at most one trade per symbol, so its out-of-sample part is always
  empty; a history of losses only has a drawdown of 0 %. A replay fills at most one
  level between two scans. The quantity is the notional over the mark price
  (`dca_validation_reconstruction.py:270`), where the contract and the expected results
  of the tests divide by the executed fill price
  (`dca-validation-domain-contract.md:27`, `dca_validation_expected.json:16`): what a
  LONG executes costs the slippage more than its share of the margin, a SHORT as much
  less. `FillsAreBounded` states both figures. `_LAST_COMPLETED` may be overwritten by an older
  computation.
- Closing a position may answer 404 or 502 although it is closed, and an order
  answered with 502 may have been placed. A failed leverage call is logged and the
  order placed all the same (`trading.py:314`). The 400 branch of
  `_map_exchange_error` is unreachable.

*Journal, comparison, macro*:

- An entry tagged "a,a" counts twice; a literal "untagged" tag is counted in the
  summary and not listed. Two concurrent creates may link one position, overlapping
  uploads may lose a listed screenshot, and files are removed before the commit of a
  deletion. `JournalInv` states what holds of requests that ran alone.
- The timeline reads the *oldest* scans up to its limit, the comparison the newest
  two: after fifty scans the newest changes are in the second only. An RSI that
  enters an extreme is never a crossing; a flip over Neutral is never major; a
  change across a scan with a missing part is in no group, except that a missing list of
  patterns counts as an empty one (`diff_service.py:399`, where lines 9-12 promise
  nothing is emitted for it: every pattern ends and begins anew) and a level that
  appears or disappears is a change (`diff_service.py:358`). A drift of the score by
  less than 0.05 from scan to scan is in no group either.
- An uncaught exception of one source ends the whole macro refresh and loses all
  other answers, although a single failure "never blocks the other fetches". The time
  of the last successful refresh is set also when all sources failed. Overlapping
  refreshes may write older numbers over newer; `NeverGoesBack` says when.
- The dollar index is FRED's DTWEXBGS (about 120, days behind) when FRED answers and
  Yahoo's DX-Y.NYB (about 100) when it does not (`macro_service.py:149-187`); the
  thresholds 100 and 105 are those of the second. A passing failure of FRED changes the
  number by a fifth and may turn the regime, with no error and no other mark on the
  page. `NeverGoesBack` compares numbers of one series only.
- An answer without a label leaves the label of the answer before, without an error,
  beside the new index; the error of a label is never cleared by a later success
  (`macro_service.py:589-592`).

## 8. Limits

Not modelled, and why:

- Message text, HTTP signing, address pinning, strategy arithmetic (RSI, EMA,
  structure, QQE, patterns) and the parsing of exchange answers: pure functions
  without control the properties would see. Where they matter, their outcome is a
  free choice.
- Export, charts, listings of history and results, the assembly of the decision desk, the desktop positions,
  the daily digest, the SSE price stream, the chart relay, authentication and plain
  CRUD of settings: each reads stored rows or relays for one consumer and keeps no
  state that another reader could see half changed.
- Frontend, dashboard, desktop application, migrations and scripts.

Where the models are coarser than the code:

- Channel rows in `RealtimeSignals` are read afresh for each notification;
  staleness of an already loaded channel and reuse of channel ids are not in it.
- Lock waits cost time only, except in `PriceAlerts`, where a job's failed flush
  ends it. Durations are abstracted to "has come" or "has not".
- An analysis call that never returns is outside the models: the scheduled scan
  awaits it without a deadline and `max_instances=1` holds back all later ones
  (`scheduler.py:119`).
- Hazards that no property covers, because nothing stored goes wrong or only the
  exchange could tell: a pair that left the membership is told about its pending
  notification (`worker.py:181`); the first stale check after a start
  (`worker.py:484`); the write lock held across sends (`worker.py:196`) or across the
  catalogue fetch (`watchlist.py:118`); the unique constraint behind
  `record_event` (`chart_alerts.py:194`); parts of a portfolio fetched at
  different moments (`exchange_service.py:281`).
- The three reads of one goal computation are taken at one moment.

## 9. Plan

Done, in this order: outbox with its abstract queue and proofs; scans and cooldown
with proofs; realtime signals; candle series; price alerts with proofs; the
analysis cache, channel cap, exchange sync, history paging, collector, watchlist,
position alerts and DNS admission; the scan pipeline and the advice on positions;
shadow mode, replay and metrics; goals and closed positions; trading; journal; scan
comparison; macro cache; proofs of the channel cap, DNS admission, exchange
sync, collector and macro cache; proofs of realtime signals, candle series,
position alerts, history paging, analysis cache, watchlist, shadow mode, trading,
journal, scan pipeline, advice, the comparison of scans, closed positions, monthly
goals and the DCA validation.

Next:

1. A composition of `ScanAlerts` with the full `WebhookOutbox`, and of
   `PortfolioSync` with `MonthlyGoals`.
2. The decision desk's assembly, once it keeps state.
