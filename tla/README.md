# Smart Data Collector: a TLA+ verification project

Smart Data Collector brings PLC readings to a cloud dashboard. A **collector** on
the edge subscribes to tags over OPC UA, evaluates alarms locally, buffers
everything in SQLite and sends it to the **cloud API** (FastAPI, TimescaleDB), which
the **dashboard** (React) polls. This directory holds TLA+ models of the parts where
order, failure and concurrency matter, the TLC configurations that check them, and
theorems that TLAPS proves about all of them: every safety property of the runs has one.

Contents: 1 inventory, 2 modules and code, 3 plan, 4 runs and bounds, 5 fairness,
6 documented statements TLC refutes, 7 proofs, 8 what is not modelled.

Checking it:

    tlc -workers 2 -config MCSqliteBuffer.cfg MCSqliteBuffer
    tlapm SqliteBufferProofs.tla

## 1. Inventory

### Collector (`src/collector/src/collector`)

| Part | State | Operations | Talks to |
|---|---|---|---|
| `buffer.py` SqliteBuffer | `seq_counter`, `buffer_items`; one shared connection, one shared transaction | `enqueue` (4 awaited statements), `dequeue_batch`, `ack`, `open` | called by every coroutine of `main.py` and by the transmitter |
| `transmitter.py` Transmitter | none between cycles; within one: batch, attempt, acked ids | `transmit_once`, `_send_with_retry`, `send_gateway_status` | buffer; POSTs to the ingestion and status routers |
| `opc_client.py` | session, last value per tag (deadband gate), `_gateway_up` per PLC, failed probes | `run` (reconnect), `_connect_and_subscribe`, `datachange_notification`, `_heartbeat_loop`, `_mark_all_gateways` | gateway; callbacks into `main.py` |
| `alarm_engine.py` | alarm state per tag, in memory | `evaluate`, `build_alarm_id` | called by `_on_reading` |
| `tag_config_sync.py` TagConfigStore | settings per tag and cursor, in memory | `run`, `refresh_once` | GET of the config router |
| `main.py` Collector | tasks | `run` (first fetch of the settings, then all tasks), `_on_reading`, `_on_gateway_status`, `_transmit_loop` | all of the above |

### Cloud API (`src/cloud-api`)

| Part | State | Operations |
|---|---|---|
| `routers/ingestion.py` | `readings`, `alarms` with unique keys | two POST handlers, `INSERT .. ON CONFLICT DO NOTHING` |
| `routers/config.py`, `seed_dev_tag_config.py` | `tag_config`, `config_version_seq` | GET since a version; writers take `nextval()` and upsert |
| `routers/status.py` | `collector_status_events` | POST of a report, latest status per PLC |
| `archiving/parquet_archiver.py` | hot rows, one Parquet file per day | find days, export, verify, delete |
| `routers/raw_data.py`, `raw_data_storage.py` | catalog rows, files under a root | create with 0..N files, list, download, delete |
| `routers/readings.py`, `routers/alarms.py` | none | one SELECT each; the history reads `readings_1min` |
| `001_init.sql` | hypertable, continuous aggregates and their refresh policies | TimescaleDB runs the policies |

### Dashboard (`src/dashboard/src`)

`usePolling` (a generation counter, the data and error shown), `RawDataTab`
(optimistic rows, one submitting flag), `App`/`derive` (the overview: a card per PLC
out of three polled feeds, and sparklines fetched by an effect).

### What is hard

* **Interleaving.** Every collector coroutine shares one SQLite connection, so
  statements of different `enqueue()` calls alternate and a commit by one commits
  what the others have done. Requests of the API interleave statement by
  statement and file by file.
* **Crashes.** The collector keeps only what is committed: alarm states, deadband
  values, settings and gateway beliefs start again from nothing. The archiver may
  die in the middle of a write, the API between a file and its row.
* **The network.** A POST may time out and be handled later, be handled without
  its answer arriving, or be retried; status reports are sent once.
* **Order.** Samples must reach the alarm engine in the order of their
  notifications; late reports and late polls must not replace newer ones.
* **Progress.** A refused row must not block the channel, nor readings the alarms; a
  day that cannot be archived must not keep the later ones, an outage must be noticed.
* **Windows.** The refresh policy looks back one hour, the archiver keeps a year, a
  collector may bring what it buffered for days, a page has 100 alarms: what one part
  keeps another may no longer reach.

`PROJECT.json` lists 39 hazards of these kinds, each at the line where it bites, with
the properties aimed at it, and a note where they leave part of it uncovered.

### What makes each component correct

| Component | Properties |
|---|---|
| Local buffer | a seq identifies one row for ever; a returned `enqueue()` is durable until acked; only `ack()` removes; calls end in order; no row is dropped but in a crash |
| Pipeline | no loss: what is dropped was itself in a POST that got a permanent 4xx; no overtaking within a kind; every item settles, alarms also when readings do not |
| Config sync | the cursor hides no change but those it overtook; each setting is what `tag_config` had at some moment, and later ones are of no earlier moment; every change that was not overtaken arrives |
| Alarms | traceable, no flood, no alarm state without a record, a lasting breach is alarmed |
| Gateway status | shown = last managed report, detection in time, alternating reports, belief converges |
| Archiver and charts | no reading vanishes, retained days stay, old days leave; what a chart shows stays, what is on time gets into it |
| Overview | sparklines are those of the tags the screen shows, a recent alarm gets on the screen |
| Raw-data catalog | no orphans; a row without its file, or an upload with part of its rows, is only of an upload that was answered 500; uploads, deletions and downloads are answered truly |
| Raw-data tab | no flicker backwards, no double registration, failures stay, uploads are listed |

## 2. Modules and their code

Each definition that models code has an entry in the `map` of `PROJECT.json`.
A definition whose comment begins with "mutant" is a plausible bug; it is part of no
specification and shows that a property notices the bug.

* **`SqliteBuffer`** (`buffer.py`): one action per awaited statement. `jobs` is the
  queue of aiosqlite's worker thread, `resumed` the order in which the event loop
  continues the coroutines, `conn`/`disk` the database seen inside and outside the
  one open transaction. `UPDATE .. RETURNING` leaves a cursor open until it is
  fetched (`cursors`), and SQLite refuses to commit meanwhile: `CommitRaises`. An
  `enqueue()` that raises has written its row all the same. aiosqlite and SQLite
  are outside the repository and modelled from their use here.
* **`DurableQueue`**: what the buffer promises: commits add rows with fresh seqs and
  remove released ones. `SqliteBuffer!QueueSpec` is the refinement.
* **`StoreForward`** (`buffer.py` by transactions, `transmitter.py`,
  `routers/ingestion.py`): a drain cycle kind by kind and attempt by attempt. `wire`
  holds POSTs that may be handled at any time or never; `reply` is the answer on its
  way. Late handling, lost answers, an answer that
  ends the cycle with an exception, raising commits and crashes are actions. A batch
  with an item the schemas refuse (`Poison`) is answered 422; and any POST, whatever is
  in it, may get another permanent 4xx from what stands before the handlers (`Refuse`):
  the client drops the batch in both cases. `refused` is a history of the items of such
  POSTs.
  `Unsendable` items (NaN) cannot be encoded and end the cycle before the POST.
  `INSERT .. ON CONFLICT DO NOTHING` is `Ingest`.
* **`Delivery`**: an item is pending until the cloud holds it or a POST it was in has
  been refused for good, and the cloud holds it at most once. `StoreForward!DeliverySpec` is the refinement.
* **`TagConfigSync`** (`tag_config_sync.py`, `routers/config.py`, the seed script,
  the sequence): `nextval()` and upsert are separate transactions, and so are the
  handler's two SELECTs; nothing keeps writers from each other or from the handler, a
  writer may end in between (`WriterEnds`), and the sequence is new at first. The
  rows of an answer replace those of the store one by one, so an exception leaves the
  first of them applied, and the cursor where it was (`ApplyRaises`). The content of a
  row is its version. Three histories: `past` is the tables there have been, `asOf` says
  which of them the poll in progress has read, and `overtaken` is the versions the
  cursor moved past before their row was written.
* **`SettingsFeed`**: what the collector is promised about its settings: of each tag it
  has what `tag_config` had at some moment, a poll brings settings of one moment, and no
  tag's are followed by those of an earlier one. It does not promise that all tags
  are of the same moment, nor that everything comes in: the code does neither.
  `TagConfigSync!KeepsThePromise` is the refinement; `AlarmPipeline!SettingsAreAFeed`
  says that the alarm path, whose polls bring the whole table (the special case in which
  nothing is overtaken or half applied), follows it too.
* **`AlarmPipeline`** (`main.run`, `opc_client.py` gate and subscriptions,
  `main._on_reading`, `alarm_engine.py`): from the start of the process and a value in
  the plant to rows in the buffer. `Start` fetches the settings and builds the client
  with them (`version = 0`: the process is not running), `Crash` ends it, `Subscribe`
  goes PLC by PLC, and each sends its initial values. `enqueue()` is seen from its
  callers: calls end in order (checked as `ArrivalOrderKept` of `SqliteBuffer`), a
  failed call leaves its row uncommitted. The settings are read when `enqueue()`
  returns, as in the code, while gate and subscriptions keep those of the start
  (`subscribed`); `Configs` gives the settings of each version, `Publish` makes the
  next one, which may add a tag.
* **`GatewayStatus`** (`opc_client.py` reconnect loop, heartbeat and marking,
  `send_gateway_status`, `routers/status.py`, the rule of `derive.ts`): time is
  counted in probe intervals. Marking goes PLC by PLC with a POST in between, as in
  the code; reports may be lost, or stored late. A call raises because the gateway is
  silent, or because it answers with an error (`Raises`).
* **`Archiver`** (`parquet_archiver.py`): one action per statement or file operation,
  failed, truncated and interrupted writes, ingestion beside it.
* **`Charts`** (the aggregates and policies of `001_init.sql`, with `Archiver`):
  EXTENDS `Archiver` with a clock in buckets, of which the archiver's cutoff sees the
  days, and with the runs of the refresh policy. A run is TimescaleDB's work and
  modelled from the policy's parameters: the buckets that lie wholly in the window are
  what the hot store has at that moment, the others stay as they are. `charted` is the
  rows the buckets have taken in, `onTime` a history of the rows that were stored while
  the policy still reached their bucket.
* **`Overview`** (`App.tsx`, `derive.ts`, `routers/alarms.py`, `readings.py`): the
  feeds as `usePolling` shows them, the derived cards, and the effect with its
  cleanup: a fetch that was cancelled ends and changes nothing. React runs the effect
  in the step that changes the data it depends on.
* **`RawData`** (`routers/raw_data.py`, `raw_data_storage.py`): the rules of each source
  type for its files and rows, uploads file by file and row by row, deletions and
  downloads in their steps, disk errors and crashes. Each INSERT is a transaction of its
  own and any of them may fail (`InsertFails`): the files of the request are cleaned up,
  the rows it has inserted stay.
  `leaked` is a history of the files a disk error left behind.
* **`Catalog`**: what the catalog promises its users: a listed row has its file until a
  user deletes it; an upload is answered 201 when all of its rows were listed and 400 when
  none was; one that is answered 500 may leave rows, and only these may lack their file;
  one deletion of a row is told that it was the one, a download gets the file or learns
  why not. `RawData!CatalogSpec` is the refinement: the rows are those of
  the table, a file is held while it is on disk, and the answers are read off the
  states of the requests.
* **`RawDataTab`** (`usePolling.ts`, `RawDataTab.tsx`, the form, the CORS rule of
  `main.py`): polls with their generation (`latest`), optimistic rows, retries,
  deletions, and the tab being left (unmounted) and opened again (`ours` names the
  uploads whose handlers still have a tab).

`StoreForward` and `AlarmPipeline` take from `SqliteBuffer` what it shows of
`enqueue()`; the settings whose versions `TagConfigSync` moves about are the ones
`AlarmPipeline` evaluates (`SettingsFeed` is their common promise); `Charts` composes archiver, ingestion and aggregates. The
`MC*` modules give the constants for TLC, the `*Proofs` modules hold the
theorems (`ArchiverProofs` also those of `Charts`, `DashboardProofs` those of
`RawDataTab` and `Overview`).

## 3. Plan

Done, in the order of their weight: buffer, pipeline, config sync, alarms with
start-up, gateway status, archiver with charts, catalog, tab, overview; for each of them
the proofs of its type and safety properties; and five abstract specifications with
the proofs that they are implemented: `DurableQueue`, `Delivery`, `SettingsFeed` (by the
protocol and by its user), `Catalog`, and the archiver within the charts.

Left:

1. An abstract engine that `AlarmPipeline` implements: an alarm per excursion, out of
   the Good readings alone. The lemmas about the line carry over.
2. The buffer of `StoreForward` as another implementation of `DurableQueue`; it needs
   a history of the rows that were ever committed.

## 4. Runs and bounds

Deadlock is checked except where said.

| Run | Shows | Bounds, and why they are enough |
|---|---|---|
| `buffer` | SeqNeverReused, EnqueuedIsKept, OnlyAckedLeave, ArrivalOrderKept, EveryCallSettles, QueueSpec | 3 calls (one an alarm) and the transmit loop, batches of 2, any number of crashes. The raising commit takes two calls, a third commits for both; the alarm overtakes in the batch. |
| `pipeline_safety` | NoLoss, InOrder, DeliverySpec | an alarm the schemas refuse and 2 readings (one may fail to be encoded), batches of 2, one attempt per cycle, so that the next cycle sends again what has no answer, 2 POSTs not handled yet, any number of crashes; every POST may be refused. Two readings are needed for overtaking, two POSTs for one to be handled after the one that repeats it. |
| `pipeline_settles` | EveryItemSettles, AlarmsSettle | a poison alarm and a reading, batches of 1, 2 attempts, so that the alarm blocks the reading unless it is dropped; no item is unsendable (see 6) |
| `config_sync` | HiddenOnlyIfOvertaken, KeepsThePromise, NeverBack, ChangesArrive | 2 tags, 2 writers, versions up to 3 of a new sequence, any number of failed polls, half-applied answers and restarts. Two writers cross, or one straddles the poll; the third version is the change that comes after one that was overtaken, and on another row. |
| `alarm_safety` | AlarmsAreTraceable, NoFlood, StateIsOnRecord | one tag, 3 values around two limits, Good and Bad, 3 changes, a lost session or a restart, one change of the limits, raising commits. Raise, clear and raise again takes the three changes. No deadlock check: plant, sessions and restarts are bounded. |
| `alarm_raised` | BreachIsAlarmed | two PLCs with the same tag and one with a tag that is added after the start, one limit, deadband 1, Good samples, no raising commit, a lost session or a restart; the other environments are in 6. No deadlock check, as before. |
| `gateway_status` | BeliefIsShown, DetectedInTwice, ReportsAlternate, BeliefConverges | 2 PLCs, each marked with a POST of its own, 2 failed probes in a row (the default is 3), a gateway up or down at first, two of its outages, returns and errors together, a restart, lost reports, one late report on its way at a time: enough for it to arrive after a newer one, or in the next life |
| `gateway_restart` | *violated*: ShownConverges | one PLC, no lost report: a restart during an outage that was reported, after which the gateway is found back |
| `archive` | NothingVanishes, RetainedDaysAreKept, DaysAgeOut, ChartedStays, OnTimeIsCharted | 3 days of 2 buckets and 4 rows; the first day's file can never be written, the second has two rows (a count can be partly right), the last never grows old; 2 crashes; one job at a time, and rows of days that are retained. 2 days are retained and the window is as long (4 buckets, its end 1 before the present, a run at least every 2): an hour and a year are as far apart as can be, this is as close as `ChartsAssumption` allows. |
| `rawdata` | NoOrphans, OnlyFailuresDamage, CatalogSpec | a spreadsheet of 2 files, a layout with 2 (one too many), a query without; two deletions, a download, crashes and disk errors anywhere, and an INSERT may fail whatever was inserted before it (two rows are enough for one to stay). Uploads share no file, so that one with several files shows what there is; the deletions and the download may be for the same row. No deadlock check: when all requests are answered, nothing happens. |
| `rawtab` | RegisteredOnce, FailureStays, NeverBackwards, UploadIsListed | one submission and its retry, two polls in flight, two visits, failing polls, lost answers |
| `overview` | SparklinesFollow, AlarmIsSeen | a PLC with two tags and an alarm on each, pages of 1 alarm (so that the second alarm pushes the first out), one gateway report, failing and superseded calls. The tag in front goes from the first to the second and back, or away when the PLC is offline: enough for two fetches to cross. |

`TypeOK` of each module (`AppTypeOK` of `Overview`) is its type invariant: a theorem for
all of them, and left out of the runs; it is there to be added to a cfg. The
constants in the environment comments (`MayLose`, `DiskMayFail`, ...) switch faults on;
runs have them on unless the table says otherwise.

## 5. Fairness

* `SqliteBuffer`: the worker thread and the event loop do not stop while the process
  lives, and a POST ends (it has a timeout). Nothing makes a notification arrive or a
  transmit cycle start.
* `StoreForward`: `UninterruptedSpec` has no crash and the transmit loop keeps going
  (`while True`); alarms reach the cloud often enough not to be failed, or answered too
  late, every time (strong fairness); the refusal that is asked for is only that of a
  batch the schemas refuse. `EveryItemSettles` assumes the same of readings
  (`Reachable`), `AlarmsSettle` does not. Without it nothing is ever delivered, and
  retries promise no more.
* `TagConfigSync`: the poll loop runs for ever and not every poll fails. Nothing is
  asked of the writers.
* `AlarmPipeline`: the client reconnects and subscribes, the gateway notifies,
  `enqueue()` ends. `FairSpec` adds that the process is started again in the end (the
  container restarts and the cloud answers); `OutageSpec` is without it (see 6).
* `GatewayStatus`: the client's task does not stop. The gateway and the network owe
  nothing; the convergence property is conditional on the gateway settling.
* `Charts`: the scheduler starts jobs again and again, and a write that is tried again
  and again succeeds, but for the bad days. The clock and the policy have no fairness:
  a run comes before `MaxDelay` buckets are over, or the clock stands.
* `Overview`: the timers fire, and not every poll of a feed fails or is superseded
  before its answer (strong fairness). The fetches of the effect may take for ever.
* `RawDataTab`: React runs effects, the API answers, answers are handled. The timer
  has no fairness: what was uploaded must appear by the refetch alone.
  `UploadIsListed` assumes that from some time on no tick supersedes a poll that is
  still to be answered; the code does not need this to be safe, but without it
  nothing is shown (see 6).

## 6. Documented statements that TLC refutes

One has a run and a finding: `gateway_restart`. The others are
definitions of the modules, kept out of the runs; each row gives the configuration
and the constants to change to see the counterexample (add the property to the cfg).

| Statement (where it comes from) | Configuration, constants | What happens |
|---|---|---|
| `ConcurrentEnqueueReturns` (`tests/test_buffer.py:66`) | MCSqliteBuffer.cfg | calls out of step: a commit meets the open cursor of another call and raises |
| `SentSeqsDistinct` (collector.design.md:196) | MCSqliteBuffer.cfg | an uncommitted row is sent and lost in a crash with its counter increment; its seq is sent again for another row |
| `LandedIsCommitted` (`transmitter.py:38`) | MCStoreForward.cfg | a 2xx body that is JSON but no object ends the cycle before the ack of alarms that landed |
| `ReadingsNeverAhead` (`buffer.py:44`) | MCStoreForward.cfg | an alarm that comes during a cycle waits for all attempts of its readings |
| `NoMissedChange` (`seed_dev_tag_config.py:3`, `routers/config.py:14`) | MCTagConfigSync.cfg | a version is taken, the collector polls and moves past it, then the row is written; or the row and the sequence are read on both sides of a write |
| `EveryChangeArrives` (`tag_config_sync.py:17`, cloud_api.design.md:262) | MCTagConfigSync.cfg | a change that was overtaken reaches the collector only after a restart. So also in a new database: `last_value` of an unused sequence is 1, and so is the first version, and a collector that polled before is past it |
| `EveryItemSettles` (`transmitter.py:131`, what cannot be sent is dropped "to unblock the channel") | MCStoreForwardLive.cfg, Unsendable <- OneReading, Poison <- NoItem | a NaN value raises ValueError, which no handler of the cycle expects: it comes first in every cycle |
| `BreachIsAlarmed` (collector.design.md:352) | MCAlarmPipelineLive.cfg, Configs <- WideDeadband | a value crosses the limit by less than the deadband and is never evaluated |
| the same | MCAlarmPipelineLive.cfg, Qualities = {"Good", "Bad"}, MaxChanges = 2 | a Bad sample sets the gate; the Good one with the same value is held back |
| the same | MCAlarmPipelineLive.cfg, MayRaise = TRUE | the reading's `enqueue()` raises, and its evaluation is skipped |
| the same (`alarm_engine.py:45`) | MCAlarmPipelineLive.cfg, Values = {1, 2, 3}, Configs <- BothLimits, Tags <- OneTag, MaxChanges = 2 | from HIGH straight to a value at the low limit only clears the alarm; LOW would need another sample |
| the same | MCAlarmPipelineLive.cfg, Values = {3, NaN}, Configs <- JustHigh, Tags <- OneTag | NaN is the last value of the gate: no comparison with it is true, and no sample passes |
| the same (collector.design.md:353) | MCAlarmPipelineLive.cfg, SPECIFICATION OutageSpec | the process restarts while the cloud is unreachable, and ends at the first fetch of the settings instead of sampling into the buffer |
| `SettingsInForce` (`tag_config_sync.py:16`) | MCAlarmPipelineLive.cfg | a tag that is added after the start is in the store and not subscribed until a restart |
| `SameSampleSameId` (`alarm_engine.py:33`) | MCAlarmPipeline.cfg | a restart evaluates the same sample again under a new seq: another id |
| `IdHasOwnSeq` (`001_init.sql:76`) | MCAlarmPipeline.cfg | the id holds the reading's seq, the row its own |
| `ClearIsRecorded` (`alarm_engine.py:84`) | MCAlarmPipeline.cfg | nothing sets `cleared_at_utc` |
| `DownOnlyAfterTimeout` (`opc_client.py:127`) | MCGatewayStatus.cfg | the first failed connect marks every PLC down |
| `DeclaredInTime` (`opc_client.py:197`) | MCGatewayStatus.cfg | probes and sleeps add up to twice the timeout; `DetectedInTwice` is what holds |
| `NothingVanishes` (`parquet_archiver.py:168`) | MCCharts.cfg, LateRows = TRUE | a row for an old day comes between count and DELETE |
| `NothingVanishes` (`parquet_archiver.py:5`) | MCCharts.cfg, Jobs <- TwoJobs | a second job exports an empty day over the file of the first |
| `ColdIsKept` (smart-data-collector-plan.md:212) | MCCharts.cfg, LateRows = TRUE | archiving a day again replaces its file |
| `LateIsCharted` (`001_init.sql:32`, with the 72 h of collector.design.md:353) | MCCharts.cfg | a row that comes when the window has passed its bucket is stored, and never part of `readings_1min` |
| `NeedsAttentionIsSeen` (`routers/alarms.py:18`) | MCOverview.cfg | the dashboard asks without `ack_status`, and nothing acknowledges: a full page of newer alarms hides an older one |
| `RowsHaveFiles`, `AllOrNothing` (raw_data.design.md:548, `routers/raw_data.py:107`) | MCRawData.cfg | a later INSERT fails: the earlier rows stay, their files are cleaned up |
| `MissingFileIs404` (raw_data.design.md:548) | MCRawData.cfg | the file is deleted after `is_file()` and before it is opened |
| `FailureIsSeen` (raw_data.ui-design.md:262) | MCRawDataTab.cfg | the tab is left: its error rows are gone when it is opened again |
| `ButtonOff` (raw_data.ui-design.md:249) | MCRawDataTab.cfg, Submissions <- TwoSubmissions | a retry and a submission overlap; the first to end enables the button |
| `ListedHoweverSlow` (`usePolling.ts:10`) | MCRawDataTab.cfg | every answer takes longer than an interval: none is ever shown |
| `DeletedIsGone` (raw_data.design.md:290) | MCRawDataTab.cfg, SameOrigin = FALSE, ConnectionMayBreak = FALSE | the CORS rule allows GET only, the browser refuses the DELETE |

## 7. Proofs

Checked by `tlapm` with SMT, Zenon and LS4. All theorems are about `Spec`
(`ChartsSpec` for `Charts`), for every value of the constants that satisfies the
module's assumption. Those assumptions say what kind of thing each constant is, with
two that are rules of the system: `ChartsAssumption` (the window of the policy is no
longer than the retention, its runs are frequent enough) and `PipelineAssumption` (a
new version of the settings may add tags and takes none away). `TLC` evaluates them
in the runs. `NoReadingVanishes` and `ChartsKeepReadings` assume more and say so in
their statement: `~LateRows` and one job; section 6 shows that both are needed.

**`SqliteBufferProofs`**: `TypeCorrect`, `SeqsAreNeverReused`, `ReturnedRowsAreKept`,
`OnlyAckRemoves`, `ImplementsQueue`. The inductive invariant adds to the properties:
the counter of the connection is ahead of every number given out, and no two calls
that hold a number hold the same (`CounterAhead`, `SeqsDistinct`); row ids are
distinct, because `ack()` deletes by id (`IdsDistinct`); the file differs from the
connection by rows that are new and rows that are acked (`FileFollows`); the row of a call that
is about to commit is in the connection or acked (`CallsKept`), which `EnqueuedIsKept`
lacks because another coroutine's commit and the transmit loop's DELETE can come
first; the DELETE in progress names acked rows (`DeletesAcked`).
`CallsKeepTheirOrder` is by a second invariant, `ArrivalInv`. `Rank` counts the
statements of a call that have run. The worker's queue and, behind it, the resumed
coroutines are one line; of two calls in it the one that came first is never
behind in rank, and strictly ahead if it also stands behind the other (`LineTurns`). So a call
ends after those before it (`NoneOvertakes`), and numbers are taken in that order
(`NumberInv`).

**`StoreForwardProofs`**: `TypeCorrect`, `NothingIsLost`,
`ImplementsDelivery`. The invariant says that copies are 0 or 1 (`OneCopy`), that an
answer "ok" or "reject" is true of the items the client waits for (`AnswersTrue`: a
late answer to an earlier attempt could otherwise ack rows the cloud does not have, or
drop rows whose own POST was not refused), that acked ids are settled, the dropped ones
refused (`AcksSettled`), and that a returned or durable row is in
the connection or settled (`RowsKept`). `RecoveryInOrder` adds `OrderInv`: a set of
items is `Closed` when every older row of the same kind that is in the buffer is in the
set or settled. The batch is closed when it is read (`ORDER BY` id, `OldestIsClosed`), and
stays so because new rows get larger ids; so is every POST made from it, however late
it is handled; hence what is settled is closed, which is `InOrder`.

**`TagConfigSyncProofs`**: `TypeCorrect`, `CursorNeverBack`, `ImplementsFeed` and
`CursorHidesOnlyOvertaken`, all without any assumption on the environment. Of the writers
the invariant says that a version which was taken is at most `last_value`, was not
written before and is nobody else's, so that a version identifies the write
(`WritersInv`). Of the collector it says that cursor and answer are within the
sequence, that the answer's rows are those above the cursor at the moment `asOf`, and that each
row of the store is of a moment the collector has reached: not later than `asOf` while
an answer is in flight, because that answer may then replace it (`CollectorInv`).
Half of an answer is as good as all of it here: row by row, `Merged` takes the answer's
or keeps the store's (`MergedIsOfTheMoment`). `HiddenInv` makes `HiddenOnlyIfOvertaken` inductive: every version
up to the cursor was written or is overtaken, so a row that is written at or below the
cursor is overtaken (`HiddenWrite`); during a poll the property holds of the table as
it was read, and a row that has changed since has a version the answer could not have,
so that the cursor overtakes it when it moves past (`HiddenApply`).

**`AlarmPipelineProofs`**: `TypeCorrect`, `AlarmsTraceable`, `NoFlooding`,
`StateRecorded`. The rows and the calls in progress are seen as one line, in which a
call that ends moves from the head of `calls` to the end of `rows` and nothing changes
its place (`CallEnds`, `LineGrows`); what the properties say of rows is shown of the line.
An alarm in it goes back to a reading that is already a row (`TraceInv`). Once the
engine has left the state of an alarm of this life, a reading since then has gone back past the
limit (`LeftInv`); this is what makes `FloodInv` inductive, because the next alarm
starts from a state that was left. A state has its alarm in the line (`RecordInv`): an
`enqueue()` that raises has left its row in the shared transaction all the same.
`SettingsFollowTheFeed`: the settings that gate and engine use are taken over as
`SettingsFeed` promises, tag by tag; that feed also allows what `TagConfigSync` does and
this path does not, a table that comes in by halves.

**`GatewayStatusProofs`**: `TypeCorrect`, `DetectedInTime`, `ShownIsBelieved`,
`ReportsTakeTurns`. A failed probe adds at most two intervals of silence
(`ProbesCount`). The last report about a PLC says what the client believes of it
(`LastIsBelief`), and is the newest of all that were made, stored or late
(`LastIsNewest`): when it is stored, nothing late can be shown instead.

**`ArchiverProofs`**: `TypeCorrect`, whose type invariant keeps the days of a job before
the cutoff and so gives `RetainedDaysStay` for any overlapping jobs and late rows; and, assuming `~LateRows` and one job,
`NoReadingVanishes`. The invariant: the rows of an old day are all in the hot store,
or none is and they are all in a readable file (`DaysAreWhole`); days on a job's list
are pending (`JobsArePending`); and the copy, the file and the count of the job agree
with the hot store until the DELETE (`CopyIsWhole`). For `Charts`: `ChartsKeepArchiver`
(the composition implements the archiver, so that `ChartsKeepReadings` follows from the
theorems above), `ChartsLoseNothing` and `OnTimeRowsAreCharted`. Their invariant ties
the cutoff to the clock (`CutoffFollows`) and says that a charted row is in the hot
store for as long as the window can reach its bucket (`ChartedIsSafe`). A row that was
stored in time waits for its run where the run finds it: the day of a bucket within reach
is not before the cutoff, so that the archiver leaves it (`ReachedRowStep`), and the
clock does not leave the reach before a run.

**`RawDataProofs`**: `TypeCorrect`, `NoOrphanFiles`, `DamageIsReported` and
`ImplementsCatalog`, in every environment. The invariant says for each
request, by how far it is, what it has saved and inserted (`Progress`), that its
rows are in the catalog or were deleted (`Accounted`), and that its files on disk are
those it has saved (`OnDisk`); a deleted row's file is gone, leaked, or its deletion is
at work (`RemovedInv`). `DamageInv` adds that a rejected request has inserted nothing and
that a row without its file is of a request that failed: only the clean-up of a
failure takes the file of a listed row (`FileIsTakenByFailure`), and what has failed
stays failed (`FailedStaysFailed`). In the catalog such an upload is answered 500, and its
rows are the ones whose file is not promised (`FailedIsBroken`); the last INSERT of an
upload and its answer are one step of the catalog, an INSERT before it lists a row that
has its file, saving and cleaning up only move files that are not promised
(`FilesAreKept`). `RequestsInv` says what a request at work knows: a
deletion that has its row is the only one that has it, and a download's row was listed.

**`DashboardProofs`**: for `RawDataTab`, `TypeCorrect`, `OneRegistration`,
`FailuresShown` and `NeverBack`; for `Overview`, `AppTypeCorrect` and `SparklinesInFront`. One poll in flight at
most can reach the screen, and what it has read lies between what is shown and the
catalog of the moment (`LatestInv`); a tab that was left owns no upload and no
poll (`LeftInv`); a try is made when all earlier ones have failed, and only a try
that was made is in the catalog (`TriesInv`). In the overview a fetch that was not
cancelled is for the tags the effect ran for last (`FetchInv`), and these are the tags
that the cards in front show: part of `AppTypeOK`, because the effect runs in the step
that changes the feed. The tag in front is that of the newest alarm, or the least of the PLC;
that there is a least one is by well-foundedness (`FirstIsATag`).

Only model-checked: the liveness properties (`EveryCallSettles`, `EveryItemSettles`,
`AlarmsSettle`, `ChangesArrive`, `BreachIsAlarmed`, `BeliefConverges`, `DaysAgeOut`,
`UploadIsListed`, `AlarmIsSeen`), which the prover's backends cannot treat. No theorem
says what the page of newest alarms is: `Overview` defines it by counting, and the
theorems hold for any page.

## 8. Not modelled

* Schemas, the connection pool, the throughput query: no state, or pool start and stop.
  A listing's limit of 200 rows and its total are left out of `RawDataTab`.
* How TimescaleDB refreshes, beyond the window of a policy; SQL is taken to do what
  it says, and a statement that fails to have no effect. Points of a sparkline are
  some or none: how old they are is not modelled.
* The exact delays of retries, clock changes: times are counters.
* The size of the buffer file: the code only logs it.
* Filters, summary cards, forms, labels, drawing and styles of the dashboard; the
  feeds that are only drawn (gateway history, throughput) use the same hook.
* The OPC UA simulator, containers, image builds: environment. Restarting a
  container is the `Crash` or `Restart` action of each module.
