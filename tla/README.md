# Verification of seestorm-ingest

TLA+ modules of the ingest process (`cmd/ingest`, `internal/...`), TLC
configurations that check them on small instances, and TLAPS proofs of the
properties that matter most for every value of the constants.

seestorm-ingest polls the National Weather Service for active alerts and the
Storm Prediction Center for storm reports, keeps them in Postgres, and publishes
snapshots of the active alerts to a file and to R2. Several processes run at
once: *ingest* nodes, one per region, write the same database; one *publish*
node reads it; a node in mode *both* does the two. What must not happen is that
a live warning is missing from the snapshot, that a superseded one is shown
again, or that the process claims to be healthy while either is the case.

## 1. Inventory

| Part | State | Operations | Talks to |
|---|---|---|---|
| Alert write path (`store/postgres.go`, `queries.go`, `supersede.go`) | table `weather_events`: row, `retired_at`, `expires_at` | `UpsertAlertsBatch` (transaction, row-by-row fallback, two retirements), `PurgeExpired` | called by the poller; other nodes through Postgres row locks |
| Snapshot read (`store/postgres.go`, `collapse.go`) | none | `GetActiveAlerts`, `deriveStates`, `collapseByEvent` | called by the publish phase |
| Storm reports (`store/postgres.go`) | table `storm_reports` | `UpsertStormReportsBatch` (insert or ignore) | called by the poller |
| Migration (`store/postgres.go`) | advisory lock, DDL | `Migrate` | every node at start |
| NWS client (`nws/client.go`) | ETag per endpoint | `FetchActiveAlerts`: conditional GET, retries, decode, ETag rollback | api.weather.gov |
| NWS parsers (`nws/vtec.go`, `tags.go`, `motion.go`, `detection.go`, `fips.go`) | none | pure functions over text | `GetActiveAlerts` |
| SPC client (`spc/`), retry policy (`retry/`) | none | three CSV fetches; delays and attempts | the poller |
| Poll cycle (`poller/poller.go`, `heartbeat.go`) | `lastAlertsUpsertFailed` | `poll`, `pollAlerts`, `pollStormReports`, `pollSafely`, `shouldHeartbeat` | client, store, publisher, pinger |
| Schedule and budgets (`poller/poller.go`, `config/constants.go`) | `start`, the cycle number | `Run`, `startupJitter`, `deriveCycleTimeout`, `splitCycleBudget`, `withBudgetFraction` | the clock, SIGTERM |
| Publish phase (`poller/poller.go`) | semaphore, WaitGroup, phase context | `publishSnapshot`, `publishPerStateSnapshots`, `attemptPublish` | store, publisher, registry |
| Publisher (`publisher/`) | objects of the file system and of R2 | `Multi.Publish`, `R2.Publish` (live key, then history key), `File.Publish` | - |
| Health registry and endpoint (`health/`) | last success per feed, failure counters | `Record...`, `ResetPublishFailures`, `/healthz` | written by the poller, read by HTTP handlers |
| Pinger (`healthcheck/`) | none | fire-and-forget GET | called at a heartbeat |
| Startup (`cmd/ingest/main.go`) | configuration | wiring, signals | everything |

What is hard, and what makes each part correct:

- *Write path.* Nodes interleave under row locks and can deadlock; every
  statement and the commit can fail, be applied unseen, or be cut off by the
  context; the fallback runs the batch again row by row. Correct: a row is
  retired only for a message that landed; a superseded message never comes back;
  "ok" means landed; no node waits for ever.
- *Poll cycle.* On a 304 the node writes nothing and must still know whether the
  payload behind the ETag is stored. Correct: a heartbeat is vouched for; a
  payload that could not be decoded or fetched is fetched again.
- *Publish phase.* Workers share a semaphore, a context and the registry, and
  hang, fail or panic. Correct: no key goes back in time, what is called fresh
  was published everywhere, every area is accounted for, the poller is never
  stuck.
- *Schedule.* Correct: deadlines add up to the cycle timeout, overruns neither
  shift the schedule nor cause catch-up polls, a signal stops the node.
- *Snapshot read.* Correct: all or nothing, one row per warning whatever the
  order of arrival, no state without its warning, no row that claims more or
  less of a tornado than its message.
- *Storm reports.* Retries share a deadline with the files after them and with
  the upsert; a bad row aborts the batch of all three. Correct: the floor of a
  retry and the room to store are kept, what was fetched and can be stored is.
- *Migration.* Nodes of several builds boot at once, hang and die. Correct: no
  race on the catalog, no node without its columns, nobody waits for ever.
- *Health endpoint.* Late, hung, failed and missed polls all age a feed. Correct:
  one miss is tolerated, four are seen, a deploy of a region node or of the
  publisher survives the platform's grace period, its boot included.
- *The fleet.* A message crosses two processes, each of which may fail, between
  NWS and the object the app reads. Correct: what NWS lists is shown in the end,
  what it replaced is not.

`PROJECT.json` lists the hazards line by line with the property that covers each.

## 2. Modules and the code

| Module | Models | Kind |
|---|---|---|
| `Supersession` | what the table promises its readers | abstract specification |
| `UpsertBatch` | `UpsertAlertsBatch` and `PurgeExpired` on several nodes | implements `Supersession` |
| `PollCycle` | fetch, ETag, upsert, flag, heartbeat, across cycles | component |
| `PublishPhase` | merged snapshot, per-area fan-out, destinations, counters | component |
| `Budgets` | the budgets derived from the interval, the startup jitter | pure functions |
| `PollLoop` | `Run` and the budgets against a clock | extends `Budgets` |
| `HealthEndpoint` | a feed of the registry and `/healthz` under the schedule | extends `Budgets` |
| `SnapshotRead` | `GetActiveAlerts`, `collapseByEvent`, slices by state | component |
| `TornadoDetect` | `DetectTornado` and the parsers it rests on | pure functions, used by `SnapshotRead` |
| `Fetch` | one HTTP fetch with its retries inside a deadline | component |
| `StormReports` | `pollStormReports`, the CSV, `UpsertStormReportsBatch` | extends `Fetch` |
| `Startup` | what `run` refuses, `Migrate`, exit and restart | component |
| `Fleet` | nodes over one table and one bucket, end to end | composes `Startup`, implements `Supersession` |
| `MC...` | instances for TLC | |
| `..._proofs` | theorems and their proofs | |

They meet at these seams. `PollCycle`'s `Stored` and `StoreFails` are the outcomes
`UpsertBatch` computes for one node (`ok`/`degraded` and `fatal`); `PollCycle`'s
`Publish` is one run of `PublishPhase`; the calls of `PollLoop` are the steps of
the other two, whose deadlines it provides; `PublishPhase`'s `ReadAlerts` is one
run of `SnapshotRead`, over rows that are `Supersession`'s `Active`;
`StormReports` starts with what is left of `PollLoop`'s `phaseEnd`;
`HealthEndpoint`'s `SuccessBy` is where `PollLoop` ends the call that records.
`Fleet` puts these outcomes together, one step each, with the memory that
`PollCycle` gives a node and the boot of `Startup`, whose actions it calls.

**UpsertBatch.** `pc[n]`, `payload[n]` and `i[n]` are the position of node *n* in
the call. The open transaction is `txUp[n]` and `txRet[n]`, the rows it upserted
and retired; both are its row locks and become visible at `Commit`.
`BatchSkip`, `BatchUpsert`, `RetireInTx` and `Commit` are the loop over
`upsertAlertsBatchTx`'s queue and its end; `TxError` is any non-context error
(rollback and fallback), `CtxFires` a context error (`isFatalBatchErr`, no
fallback), `CommitUnacknowledged` a commit the client saw fail. `FallbackUpsert`,
`FallbackRowFails`, `FallbackRetire` are the degraded path, one autocommit
statement each. `landed` and `superseded` are history variables.

**PollCycle.** `etag` and `upsertFailed` are the memory of the process, `landed`
and `retired` the store's, by version of the upstream document. One action per
return path of `FetchActiveAlerts` and of `pollAlerts`. `Faults` selects the
failures an instance may meet.

**PublishPhase.** `st`, `tries` and `gen` are each job's `attemptPublish` and its
closure's snapshot, `sem` and `wg` the semaphore and the WaitGroup,
`live[d][j]` the object at a key. `Attempt` writes any subset the order of puts
allows. `PauseEnds` is the `select` between the retry delay and the context.
`slots` is chosen at the start, so one run covers several widths.

**PollLoop.** `due` is when the current timer fires or the current call's context
expires. `Late` is the latency of a timer, `Overrun` how long a call may outlive
its context. `nextAt` is the tick the loop is at (the code keeps the cycle number
and multiplies).

**HealthEndpoint.** A behaviour watches one feed, from the start of a process:
phase `"boot"` is `store.New` and `Migrate` (`main.go:95-103`), up to `LongestBoot`;
`Serves` is the rest of `run` up to the jitter of `Run`. The grace period of fly.toml
runs from the start of the machine, so `uptime` does too; whatever comes before the
process is part of `LongestBoot`. The clock is relative (`age`,
`timer`, `elapsed`), so behaviours need no horizon; the caps are beyond anything a
guard or a property looks at. `misses` and `ticks` count what the operator would
count.

**SnapshotRead.** `rest` is what the cursor has yet to deliver, and `ScanRow` takes
any newest row of it: the query orders by `effective_at` only. A row meets any
`bulletin`, the part of a message that `TornadoDetect` reads: what it says of a
tornado does not depend on the columns the collapse reads. `lost` is what
`rows.Err()` would say. `filterAlertsByState` is the loop over `out`, one function
value per row.

**Fetch, StormReports.** `at`, `attempt` and `wakeAt` are the retry loop and
`retry.Sleep`; `Capped` and `Enough` are `NextDelay`. The clock starts with each
call of `pollStormReports` and stops once it stores. `record` is the row of the
file that `parseCSVReports` is at; a row that parses is a report and the date the
clock showed at its turn.

**Startup, Fleet.** `boot[n]` is how far a process is, `sees[n]` what its existence
checks found. `calm` begins a suffix without faults, so a run assumes that each
fault happens finitely often and says nothing of when. `doc[n]` is the document
NWS serves for the areas of *n*: two nodes may see a replacement at different
times. `payload` and `snapshot` are what a process holds between two of its steps.

### Abstractions

- What a message says is a function of its id: NWS never reuses one
  (`collapse.go:4-5`). Columns that neither the retirement, the purge nor the
  snapshot filter reads are left out.
- A multi-row `UPDATE` or `DELETE` is one step, taken when none of its rows is
  locked by another transaction. In Postgres it locks row by row; a deadlock it
  enters is a `TxError` or a failure of the statement, both of which any step may
  be.
- A statement or a put whose caller timed out has been applied by then or never
  is.
- Upstream versions only move forward, and every 200 carries an ETag of its own.
- In `PollCycle` storm reports and the purge are one step: they touch none of its
  state. The wait before a retry takes no state and is a step of the loop.
- In `Fleet` an upsert is one step, with all that `UpsertBatch` lets happen at its
  end: committed and known, committed and reported as failed, not applied. The
  degraded path that half applies a batch is `UpsertBatch`'s.
- A schema is the number of its newest migration: `migrateSQL` only adds.
- A token of a bulletin is a member of a small set that holds every word the code
  compares with, a blank and one it does not know; the regular expressions that
  cut a description into tokens are left out.
- The code outside `src/`: Postgres (locks, visibility, deadlock detector, clock),
  NWS and SPC, R2 and the file system (a put is atomic), Fly, the clock and the Go
  scheduler. These definitions are marked external in the map.
- File publishing ignores its context, so the file may be written when the budget
  is used up: `Attempt` allows it.

## 3. Runs

| Run | Instance | Shows |
|---|---|---|
| `upsert_safety` | 2 nodes (symmetric), 4 messages, 5 payloads, clock to 3 | `RetiredHasLandedSuccessor`, `NoResurrection`, `OkMeansLanded`, `ImplementsSupersession` |
| `upsert_live` | 2 nodes, 3 payloads, clock stopped, fairness | `EveryCycleEnds` |
| `poll` | 3 versions, 3 attempts, panics, store and retirement errors, fairness | `HeartbeatVouched`, `EveryCycleEnds`, `LatestLands` |
| `publish` | 2 areas, 1 and 2 slots, file and R2, 2 tries, 2 phases, fairness | `EveryAreaAccounted`, `FreshMeansPublished`, `ForwardInTime`, `EveryPhaseEnds` |
| `loop` | 26 s interval, 1 s ticks, late timers, calls that overrun, fairness | `OnSchedule`, `NoCatchUp`, `FetchesLeaveRoom`, `WithinCycleTimeout`, `ShutsDown` |
| `health` | 30 s interval, 1 s ticks, boots of up to 15 s, polls that hang for up to 65 s, every feed | `ToleratesAMiss`, `DeadFeedIsReported`, `GreenWithinGrace` |
| `snapshot_read` | every subset of 6 rows, every order among equals, 720 bulletins | `SnapshotIsExact`, `OrderSurvives`, `EveryStateIsWarned`, `DetectionIsVouched`, `WordIsKept` |
| `fleet` | 2 ingest nodes and a publisher, 2 builds, 2 messages, clock to 2, fairness | `NoCatalogRace`, `SchemaSuffices`, `ETagVouches`, `ImplementsTable`, `WaitEnds`, `ListedIsShown`, `SupersededLeaves` |
| `storm_reports` | 3 files, 4 reports, 15 ticks of a quarter second, 3 attempts, 2 dates, fairness | `FloorKept`, `RoomToStore`, `ReturnedIsStored`, `ListedIsStored` |
| `poll_rows`, `poll_retire`, `publish_counters` | see section 6 | a stated property that the code does not have |

Why the bounds are enough to be interesting:

- *Write path.* Two nodes are what a lock wait, a deadlock and a stale overwrite
  need. The messages are a warning, its continuation, a statement of another
  event type that references it (it must not retire it) and that Postgres always
  rejects (the batch degrades), and one with an unparseable expiry that claims to
  replace the first. Payloads list the pair in both orders. The clock passes every expiry, so rows
  are purged and inserted again by a stale node.
- *Poll cycle.* Three versions give a change during a cycle, a change between two
  and a 304 after each; the cycles are not bounded.
- *Publish phase.* Two phases are what going back in time needs; with two slots
  two workers overlap, with one the second area waits for it. Restarts are not
  bounded.
- *Schedule.* The clock runs for three intervals, in which a poll can overrun its
  slot and miss a tick. The theorems take every interval from seven seconds up.
- *Health.* The production interval and cycle timeout; a poll may hang past two
  ticks, timers are as late as the slack allows. A boot takes up to the 15 s that
  `Migrate` may wait for its lock, after which `GreenWithinGrace` has one second
  to spare. The run's node is in mode `both`, so it shows that property of the
  feeds of an ingester; for a publish-only node it is proved.
- *Snapshot.* Three messages of one warning tie in all but the last field of
  `laterIssuance`, a fourth in `effective_at` only; one has no SAME codes; the
  statement has the warning's event identity, and SAME codes that leave one of its
  states out; one product has no identity. Bulletins
  cross every structured token with every tag block and narrative.
- *Fleet.* Two ingest nodes are what a message written by one and superseded by the
  other needs. The first is served the warning, then its replacement; the second
  both at once; neither order of writes is excluded. The replacement has another
  footprint, so that only its reference hides the warning. The warning expires
  while the run goes on, the replacement does not. Builds differ, so that each
  node may boot first or last, and one may hang with the lock.
- *Storm reports.* Less than four seconds are left when the call begins: the first
  file gets three ticks, so that the floor, the cap and a Retry-After that does not
  fit all matter. A row that does not parse, one that Postgres rejects and a
  file that is down are in it; the calls are not bounded.

`CHECK_DEADLOCK FALSE` where the model may stop: at the bound of a clock, of the
phases, of how long a poll may hang, of the dates, when the call has returned, when
a node has.

### Fairness

- `UpsertBatch`: strong fairness of each node's progress and of the deadlock
  detector. Postgres queues lock waiters, so a node cannot be overtaken for ever,
  and it looks for cycles after `deadlock_timeout`. Failures (`TxError`,
  `CtxFires`, `Crash`) are not assumed to happen, so the result does not rest on
  the cycle's deadline. A row Postgres rejects is rejected: that is progress.
- `PollCycle`: weak fairness of the cycle's steps, since every call has a deadline
  and the loop goes on; that is all `EveryCycleEnds` rests on. `LatestLands` and
  `RetireIsRetried` are stated of behaviours in which upstream answers, the answer
  decodes and is stored again and again (`OthersCooperate`): no progress can be
  had without. `LatestLands` has a way out, `<>[]upsertFailed`: a node whose store
  refused a payload is not offered it again by 304s and keeps silent.
- `PublishPhase`: weak fairness of the poller and of each worker, since every put
  and pause is bounded by a context. Nothing is assumed of the panics, nor
  that the budget expires.
- `PollLoop`: weak fairness of the process and the clock, strong fairness of the
  context's branch of `select`: Go chooses among ready branches at random, so a
  branch that is ready again and again is taken.
- `Fleet`: weak fairness of each process, since its waits have deadlines and Fly
  starts again what has exited. A process that hangs inside its migration is
  restarted by somebody once the faults have ended, not before: `WaitEnds` holds
  without it (`calm` may never begin), since `lock_timeout` ends the wait.
  `ListedIsShown` and `SupersededLeaves` are of behaviours in which the documents
  come to rest and the faults end.
- `StormReports`: weak fairness of the call. `ListedIsStored` is of behaviours in
  which what fails without a reason stops failing; files that are down and rows
  that are rejected stay so.

## 4. Proofs

`tlapm` proves these for every value of the constants that the named assumptions
allow (any set of nodes, messages, payloads, areas, rows, bulletins; any version,
attempt and phase bounds; any interval from seven seconds up, any resolution and
lateness).

- `UpsertBatch_proofs`. The invariant `IInv` strengthens `TypeOK`,
  `RetiredHasLandedSuccessor`, `NoResurrection` and `OkMeansLanded`, none of which
  is inductive: they need that a row that exists has landed; that no row is locked
  by two transactions, so that what a transaction's `RetireInTx` saw is still so
  at its `Commit`; that a transaction retires only rows which one of its own
  upserts supersedes; that the upserted rows of a batch are those of its payload
  before `i`; that what the fallback counts as succeeded has landed; and that a
  superseded row is retired, or absent and past its expiry. `Inductive` proves it
  preserved, `TypeCorrect`, `RetirementIsSafe`, `SupersededStaysHidden` and
  `OkIsSound` follow. `Refinement` proves `Spec => ImplementsSupersession`: each
  step is an `AWrite`, an `APurge`, an `ATick` or a stutter; `IInv` is what makes
  the commit and the fallback retirement abstract writes.
- `PollCycle_proofs`. `HeartbeatIsSound` assumes `Faults` without
  `panic_before_flag` and `rows_fail`, the two the code does not survive
  (section 6). `HInv` adds to the property what carries it over a 304: when the
  flag is clear, outside the window between the fetch and the flag, the version
  behind the ETag is in the store. `PollTypeCorrect` needs no such assumption.
- `PublishPhase_proofs`. `PInv` adds to `TypeOK`, `EveryAreaAccounted` and
  `FreshMeansPublished`: who can be at work at which place; that a closure holds
  this phase's snapshot and what it takes for published is at every destination;
  that no key is ahead of the phase; that `sem` and `wg` both are the number of
  workers (so that a worker that returns finds a slot to free, and `wg.Wait()`
  returns only when nobody works); and that of the areas started, those without a
  worker are published or counted. `PhaseTypeCorrect`, `NoAreaIsLost`,
  `FreshIsPublished` and `KeysMoveForward` follow, for any list of distinct areas
  and any width of the semaphore.
- `PollLoop_proofs`. Under `Workable == Interval >= 7 * Second`, the interval at
  which the floors of the budgets stop mattering. `LoopInv` says how late each
  call can be when it ends, call by call, and that a poll begins at most `Late`
  after its tick: `PollsFitTheirTimeout` and `SlackIsEnough`. `KeepsSchedule`
  places each poll between its tick and the next: `PollsKeepSchedule` (with the
  remainder by the interval as a lemma of its own) and `PollsKeepApart`.
  `SpendsItsShare` bounds what the fetches have taken by the end of each call:
  `FetchesKeepTheirShare`. `NoTickMissed` and `TypeOK` are only proved, no run
  checks them.
- `SnapshotRead_proofs`. `CollapseIsExact` rests on the loop invariant of
  `collapseByEvent`: after *k* rows the output holds, for every key, the last of
  the first *k*, at the place `winners` has for it, and every row without an event,
  each once. `CollapseKeepsOrder` rests on the input being newest first: a
  later issuance that takes an earlier place is no newer than the rows it
  passes, so it ties with the row it replaces. `NothingIsOverclaimed`,
  `NothingIsUnderclaimed` are about every bulletin, level and threat; what a word
  of POSSIBLE comes to and a tornado named beside winds they leave open
  (section 6).
  `NoStateIsLeftOut` puts two facts together: every selected row has one in `out`
  that stands for it, and a slice is complete. It speaks of one row and one state
  at a time: a state is excused only where the SAME codes of that row, or of a
  later message of its warning, leave it out. `RowAssumption` has rows with one
  `area_desc` name the same states by it. `SlicesAgreeWithSnapshot` (only proved) says what
  the file of a state is to the merged one: its rows that name the state, each
  once, newest first. Both rest on `SliceIsExact`, an induction over the rows of
  `out` (below): a slice is the subsequence of the rows that name its state.
- `HealthEndpoint_proofs`. Under `Workable` again; `DeploySurvives` also assumes
  `BootFits == LongestBoot + Interval + fetchStoreBudget + cycleSlack <= GracePeriod`:
  boot, jitter, the fetches of the first poll and what is late. At the production
  interval that is 15 + 30 + 10 + 5 = 60 s, so it holds for boots of up to 15 s,
  the wait for the migration lock. A longer boot it does not cover (section 6).
  `HealthInv` relates the age of
  the last success to the place in the schedule: `InTime` says how late a poll can
  be that has yet to tell; `Young` bounds the age plus the time to the next tick by
  an interval for each miss, `Old` bounds the age from below by an interval for each
  tick since and the time since the last; `Fresh` bounds the time since the process
  started by the boot, the jitter and the time in the first poll. `ToleratesAMiss` needs `Young`, `DeadFeedIsReported` needs `Old`: neither
  property says enough of the time between two ticks to be preserved by itself.
- `Fleet_proofs`. For the boot alone: mutual exclusion of `migrate` and `wedged`,
  and that what a holder saw is still so, give `LockSerializes`; that the schema
  never shrinks gives `DeployIsOrderSafe`. `FleetBoots` shows that every behaviour
  of the fleet is one of `Startup`, `FleetKeepsTable` that it is one of
  `Supersession`; what those two promise follows for the fleet
  (`FleetMigratesSafely`, `FleetDeploysSafely`, `FleetRetiresSafely`,
  `FleetNeverResurrects`; the last two need an invariant of `Supersession` of their
  own, `TableInv`). `ETagIsSound` needs that the payload in hand is the document of
  the ETag, that a document whose flag is clear has landed, and that what has landed
  leaves the live rows only by being superseded or by running out: that is where
  the writes and purges of the other nodes come in. `AreasAreDistinct` shows what
  `PublishAssumption` takes for granted of `Areas`, for any value of `NWS_AREA`.
  `ShownIsStored` and `GoneMessagesStayGone` carry the table's promises to the live
  object, past the gap between a node's read and its put and for any number of
  publishers: what is shown has been stored and is the last of its event, and what
  was superseded or is over does not come back once it has left the object and no
  earlier read is in flight. (Without that last condition it can: the put of an
  older read shows it until the next publish. `SupersededLeaves` is about that.)
  The fleet's `TypeOK`, `ShownIsSound` and `GoneStaysGone` are only proved.
- `StormReports_proofs`. `RetriesKeepFloor` (a sleep ends with the floor left,
  whatever was asked for) and `FilesLeaveRoom` (each file leaves four fifths of
  what it found, less its lateness). `StormTypeCorrect` needs that the reports at
  hand are no more than the rows read so far (`Fits`) and that no sleep comes before
  an attempt too many. `FailureCostsItself`: through the batch and the fallback,
  a row that was handed over is in the table, lost, or still in hand.

Two functions of the code are loops over data, `filterAlertsByState` and
`parseAreas`, and are recursive functions in the model. What they return is proved
by induction over the set of indices up to which the loop is right
(`SetInduction`, from the least element of its complement): first that the
recursive equation has a solution, then what every solution satisfies.

Only model-checked: everything about liveness (`EveryCycleEnds`, `LatestLands`,
`EveryPhaseEnds`, `ShutsDown`, `WaitEnds`, `ListedIsShown`, `SupersededLeaves`,
`ListedIsStored`), which is out of the prover's reach. Every safety property of
the passing runs is proved.

## 5. Not modelled

- *Regular expressions and the FIPS table* (`nws/`): which substring a pattern
  finds in a bulletin is data; what the code makes of the finds is
  `TornadoDetect`, `eventID` and `deriveStates`.
- *Storm motion* (`nws/motion.go`): a pure parser whose result only decorates a
  row; that its error does not drop the row is `AppendRow`.
- *Pinger* (`healthcheck/`): fire-and-forget, no state, nobody waits. When it is
  sent is `PollCycle`'s.
- *Environment* other than area, mode and Fly's name: read once into constants.
- *JSON layout* of the snapshot, geometry, logging.
- *`ent/`*: generated schema code.

## 6. Known disagreements between the code and what it says

Checked, each with a run that TLC shows violated:

- `poll_rows`. When every row of the degraded path fails without a context error,
  `UpsertAlertsBatch` returns a nil error (`store/postgres.go:333`), so
  `pollAlerts` takes the payload for stored and the heartbeat is sent, now and
  after every 304 that follows. `heartbeat.go:19-21` says that the upsert
  succeeded.
- `poll_retire`. A retirement that fails on the degraded path is logged as
  "will retry next cycle" (`store/postgres.go:328`), but the ETag is kept and a
  304 writes nothing; it is repeated only when upstream changes.
- `publish_counters`. A phase whose read of the store fails does not reset the
  failure counters (`poller.go:529`), which `registry.go:76-79` says show the most
  recent cycle only.

Met while modelling, not kept as runs:

- A panic between the capture of the ETag and the update of
  `lastAlertsUpsertFailed`, recovered by `pollSafely`, lets the next 304 vouch for
  a payload that was never stored (`Faults = {"panic_before_flag"}` shows it).
- At an interval of six seconds each phase's floor is one second and the cycle
  timeout is one second too: a cycle may take two. `poller.go:318-322` puts that
  case below six seconds.
- At an interval of zero, which the configuration accepts, the loop over missed
  ticks never ends (`poller.go:156`) and never looks at its context.
- A replacement that the documents of the warning's node never list, because it is
  outside its areas, retires the warning only if the two are written in that order;
  in the other, both are live until the warning expires. `SupersededLeaves` is
  stated of nodes that are served both.
- A storm report carries HHMM only and gets the UTC date of the fetch, but a file
  runs from 12Z to 12Z: after 00Z the reports of the evening before get the new
  date, a second row and a time ahead of the clock. `date` models it; no property
  forbids the duplicate.
- A bare quote in one row of a CSV file loses the whole file: the reader's error
  ends `parseCSVReports`.
- `registry.go:1-3` has the failure counters served by `/healthz`; the handler does
  not read them.
- A first poll that hangs for more than an interval, or is long and followed by one
  that fails, turns `/healthz` red for a moment: the schedule starts where the
  first poll ends. `RecordSuccess` counts it as the one miss.
- `svrHazardExclusionRe` (`detection.go:117`) has word boundaries, so that "winds"
  and "gusts" do not exclude, although its comment (111-116) has a tornado that is
  secondary to wind or hail rejected: "HAZARD...Damaging winds and a tornado." from
  radar becomes RADAR INDICATED. `Secondary` holds the exact words, the run has
  such a hazard, and `DetectionIsVouched` does not say that it should be none.
- `detection.go:48-52` has POSSIBLE, as parameter or as tag, resolve to "no
  detection", and 171-174 has the parameter do so. The code only leaves it
  unresolved: a parameter of POSSIBLE falls through to the tag block, which may
  say OBSERVED, and to the narrative, which may say RADAR INDICATED, and so does a
  tag of POSSIBLE to the narrative. The run has these cases; of a message whose
  word is POSSIBLE, `DetectionIsVouched` says that its level and threat come from
  one of its sources, and neither it nor `WordIsKept` says which.
- The 60 s of fly.toml leave no room for the boot of a node in mode `both`
  (`README.md:91` of the repository sets one up) in the worst case: a jitter of up
  to 30 s, a cycle of 25 s and up to 5 s late come before its first publish. An
  ingester has 15 s for its boot, a publisher 30. The code bounds only the wait for
  the migration lock (15 s) and lock waits inside the migration (15 s each), not
  the connection nor the DDL: a deploy whose boot takes longer may be found red.
  `GreenWithinGrace` leaves the publish feed of mode `both` out.

## 7. Plan

Done: every component that keeps state, the composition from NWS to the published
object, and proofs of all safety properties. What is left, in order of worth:

1. `Fleet` with the degraded path of `UpsertBatch` in the place of its one-step
   write, so that `poll_rows` and `poll_retire` show what a reader of the snapshot
   sees of them.
2. A second publisher in `Fleet`, as after a deploy that leaves the old machine up:
   nothing orders their puts.
