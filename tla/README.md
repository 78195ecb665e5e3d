# Battery Lab Simulator: TLA+ models and proofs

This directory specifies the control, telemetry and reliability logic of the battery lab simulator
in TLA+, checks it with TLC on small instances, and proves every safety property of the passing runs
with TLAPS, for every number of channels, experiments, hours, messages and faults and every timing
parameter. Source paths below are relative to the repository's root; service code lives in
`services/<name>/src/<name>/`, shared code in `libs/batterylab/src/batterylab/`.

## 1. The system

Sixteen cyclers (a chassis of 32 channels, one simulated cell each) and two thermal chambers are
driven over Modbus by one orchestrator, which keeps its state in Postgres. Telemetry flows over MQTT
to an ingester and into TimescaleDB, and by the hour from there to Parquet objects on MinIO. A
watchdog writes alerts; an analytics service computes cycle features. Each service is one asyncio
process: code between two `await`s is atomic, everything else interleaves.

| Component | State | Operations | Interacts with | What is hard | What makes it correct |
|---|---|---|---|---|---|
| Cycler (`cycler/channel.py`, `safety.py`, `modbus_server.py`) | per channel: mode, setpoint, limits, latched error, kick time, cell; per chassis: kick time, trip flag, chemistry; the register block | register writes (`_dispatch`), `safety_loop`, `cell_loop`, `chassis_watchdog`, `mirror_loop` | any Modbus client | a write re-applies the whole register block while loops latch, mirror and swap cells; two dead-mans on wall time | a latched channel stays idle; a silent client or a breached limit parks the channel in bounded time; the first error is kept |
| Modbus client (`orchestrator/cycler_client.py`, `channel_keepalive.py`, `heartbeat.py`) | connection | `send_command` (four writes), `kick_channel`, `set_cycle_index`, `write_chassis_chemistry`, `kick_chassis` | cycler | multi-write calls interleave with mirror passes and safety passes, and fail halfway | a command that is written in full is what the channel runs |
| Executor (`orchestrator/executor.py`, `main.py`) | `experiments` and `experiment_steps` tables, in-memory `Experiment` objects | boot and resume, kickoff, tick, advance, complete, fail | Postgres, client, context and event queues, operator (`make soak.stop`) | a crash or error at any await; statements without transactions; retries | a gap-free step ledger, one event per cycle, final statuses stay, every experiment ends |
| Context and event publishers (`orchestrator/context.py`, `events.py`) and the ingester's context map | bounded queue, retained topics, `ContextMap` | enqueue, publish, put back, subscribe, receive | broker | reconnects of both sides, a full queue | nothing accepted is lost; rows are tagged with the right experiment |
| Ingester row path (`ingester/main.py`) and telemetry publisher (`cycler/telemetry.py`) | buffer of rows, batch in flight | sample, receive, buffer, flush (COPY), reconnect | broker, TimescaleDB | buffer lost with the connection; a COPY that committed before its connection broke | rows are stored at most once, in order, and none is lost without a fault |
| Analytics (`analytics/main.py`, `pipeline.py`) | `cycle_features`, anomaly alerts | take an event, fetch, compute, upsert, alert | broker (one retained event), TimescaleDB, Postgres | events early, late, twice or out of order; rows not flushed yet; upsert and alert in two statements | a jump is relative to the nearest earlier cycle, alerts agree with the rows, the last event is handled |
| Parquet exporter (`parquet_export/`) | `parquet_exports` ledger, objects, chunks | `run_once`, `export_hour`, `record_export`, `drop_exported_chunks` | TimescaleDB, MinIO, a second exporter (`--now`) | kill or error between object, ledger and drop; two exporters | the ledger tells the truth, no row vanishes, every hour is archived |
| Watchdog (`watchdog/`) | `EdgeTrigger`, `AlertSink` with its retry queue, session | polls, `emit`, session loss and start | MQTT, Postgres, Modbus | monitors share the retry queue across awaits; sessions end inside `emit` | alerts are stored or queued; a lasting condition is reported |
| Chamber (`chamber/`) and chamber monitor (`watchdog/chamber_monitor.py`) | temperature and setpoint; dict of chambers with breach timers, grace, edges | setpoint write, thermal step, publish; fold a message, sweep, emit, session loss and start | broker, `AlertSink` | a dict that grows while it is iterated; edges outlive sessions, timers do not | the sweep survives, one alert per breach, a lasting breach is reported |
| Schedule parsing, cell numerics, utilities | | | | | see section 7 |

`PROJECT.json` lists every component with its status, every hazard of the code with the property
that covers it or the reason none does, and the source lines of every definition.

## 2. Modules

| Module | Models | State and actions |
|---|---|---|
| `Chassis` | one cycler under *any* client | One action per register write (`WriteMode`, `WriteSetpoint`, `WriteVMax`, `WriteTMax`, `KickChannel`, `WriteCycle`, `KickChassis`, `WriteChemistry`), per loop body (`SafetyLoop`, `CellLoop`, `ChassisWatchdog`, `MirrorLoop`) and `Tick`, the passing of wall time. |
| `CyclerLink` | `CyclerClient` as the executor, keepalive and heartbeat use it, composed with `Chassis` | `call` holds the writes that are left of the executor's call. `EXTENDS Chassis`: each write of the call *is* the chassis action. The orchestrator's build may write a chemistry id the cycler's build has not got (`OrchChems`). `call.mirrored` is a ghost: a mirror pass ran between the chemistry write and its read-back. |
| `ExperimentLifecycle` | abstract: what the orchestrator promises of an experiment | `status`, `done`; `Start`, `CloseStep`, `Complete`, `Fail`. |
| `Orchestrator` | the executor task of one chassis, the tables, the channels as far as it sees them | `pc` names the next await; one action per await with the code up to the next one. `Crash`, `IoError`, `DbError` at every await, each with or without the effect of the request; `Latch` (idle channels too), `Mirror`, `SoakStop`, `CyclerRestart` and `Rewrite` (a schedule overwritten with a body that does not validate) as environment. Ghosts: `cut`, the experiments whose channel lost its cycle tag or cells after Postgres had their claim; `stranded`, those an error left `running` without an object, until the next boot. |
| `ContextPipeline` | context queue, publisher, broker (external), ingester's map | `Update`, the publisher's `Connect/Get/Publish/PublishError/PutBack/Backoff`, the ingester's `Subscribe/Receive/Disconnect`. |
| `ParquetExport` | periodic and one-shot exporter over shared tables | `StartPass/Open/Fetch/Close/Record/Drop`, `Error`, `Kill`, time and late rows (external). |
| `Watchdog` | heartbeat, chassis, fleet and chamber monitors, `AlertSink`, sessions | `PollHeartbeat/PollChassis/PollFleet/PollChamber`, `Emit` by awaits, `InsertRaises`, `SessionLost/SessionStarts`. Two ghosts per episode of a condition, both cleared by the poll that refutes it: `reported` (its alert went out) and `spent` (its edge rose without one). |
| `Ingester` | telemetry publisher and the ingester's row path | `Sample/SampleLost`, `Receive` (buffer, and batch when due), `FlushDone/FlushFails`, `Subscribe/Disconnect`. |
| `Analytics` | event queue, publisher and broker, the analytics service, composed with `Ingester` | `EXTENDS Ingester`: the rows a cycle is featured on are those stored by then. `CycleComplete`, `GetEvent/Publish/PublishError/Reconnect`, `Listen/TakeEvent/Compute/Upsert/Alert`, `DbError`, `Hangup`. |
| `Chamber` | chambers, the watchdog's dispatcher and `chamber_check_loop` | `WriteSetpoint/ThermalStep`, `Message`, `Sweep/EmitDone` by awaits, `Tick`, `SessionLost/SessionStarts/Restart`. |
| `ChassisProofs`, `CyclerLinkProofs`, `OrchestratorProofs`, `ContextPipelineProofs`, `ParquetExportProofs`, `WatchdogProofs`, `AnalyticsProofs` (also `Ingester`), `ChamberProofs` | proofs about the module of that name | section 5. The inductive invariants stand at the end of the modules they are about. |
| `MC*` | instances for TLC | model values and constant functions only. |

Definitions whose comment begins with "Mutant:" are faulty variants of the definition that follows
them, used to show that each property can fail; no specification refers to them.

Modelling decisions worth knowing:

* *Time in `Chassis`.* Both dead-mans compare wall-clock ages, the loops sleep a period. The model
  keeps integer ages and, per loop, the time until its sleep ends; a loop may run up to `Lag` ticks
  late. `safety_loop`'s period is scaled simulated time in the code and the threshold is wall time;
  both are a number of ticks here, and the proofs hold for every choice of them.
* *Data.* Voltages, temperatures and limits are integers of a small set, a setpoint is a value, and
  `ECMCell.step` may produce any voltage and temperature and a runaway at any step. That covers the
  physics without its numerics.
* *One chassis.* The orchestrator handles chassis in parallel with nothing shared but the connection
  pool; a sweep over one chassis is serial, so one chassis is the system.
* *Positions.* `Orchestrator` counts steps over all cycles; cycle and step index are quotient and
  remainder. A step may end at any tick (`end_condition_met` is a free verdict).
* *Errors.* An `OSError` of Modbus or Postgres takes the handler's own path (skip the experiment, or
  fail it at the re-issue), any other exception the sweep's `gather`. An error in the polls for
  pending or running rows ends the process and is a `Crash`.
* *Chemistry swap.* `Orchestrator` keeps the chemistry of the cells, because the kickoff of an
  experiment with another chemistry resets the latches and tags of every channel of the chassis. A
  chemistry *name* that is in nobody's table raises a `ValueError` in kickoff, which is the
  alternative of `IoError` that abandons the sweep.
* *Registers in `Orchestrator`.* `modeReg` and `shown` are MODE and LAST_ERROR as a client reads them:
  what was written or mirrored last. The drift check compares `modeReg`; after a swap both are those
  of the cells before it, until a mirror pass. CYCLE_COUNT is a uint16: `set_cycle_index` clamps, and
  `MaxTag` stands for 0xFFFF.
* *Idle latches.* `safety_loop` compares the limits of every channel, so `Latch` is enabled on idle
  channels, also before kickoff. Only a channel of an experiment that cannot be built (`BadExps`) is left
  out: nothing reads or drives it.
* *Invalid schedules.* A missing schedule or chassis marks the experiment failed (`BadExps`, `kBad`).
  A body that does not validate raises through `_build_experiment`, which catches `ScheduleError` only:
  `Refuse` abandons the sweep and writes nothing. `Rewrite` makes a body invalid at any moment, the way
  the seeding scripts overwrite `schedules.body_yaml`.
* *Features.* A row of `cycle_features` is modelled by what it was computed from: the telemetry rows,
  whether R0 could be estimated, and the cycle the jump is relative to. R0 itself is a constant per
  cycle. The reads of `process_cycle` are one step, because only this task writes `cycle_features`
  and the cycle's step rows are closed. `fetch_cycle_telemetry`'s fallback by tag needs every step row
  of the cycle to be missing and is left out; the limit of the event queue is `ContextPipeline`'s.
* *Chambers.* A chamber is its distance from the setpoint. `emit` is one await in `Chamber` and taken
  apart in `Watchdog`. The iterator of a dict that has grown raises on its next step, also at the end.
* `Channel.reset` has no caller; the only thing that clears a latch is a chemistry write, although
  `channel.py:7` speaks of a reset only. `resume_drift_count` cannot reach 2, since a process resumes
  an experiment once.

## 3. Runs

| Run | Instance and why it is enough | Properties | Result |
|---|---|---|---|
| `chassis` | one channel, idle and one active mode, two voltage levels, two chemistries with different limits and an unknown id, all periods, threshold and lag 1. The loops only interact through one channel and the chassis flag, so one channel shows every interleaving of the loops; `Lag` 1 lets a loop be late. Temperature has one level (the two limit tests are the same code shape); the proof covers all. | `TypeOK`, `LatchedIsIdle`, `DeadManBound`, `OrphanBound`, `BreachBound`, `RunawayLatched`, `LatchKept` | holds, 1.2 M states |
| `cycler_link` | the same chassis with a charge and a discharge command, two chemistries and an id the cycler rejects, threshold 0 so that dead-mans trip inside a call; the two chemistries have the same limits and are symmetric | `LinkTypeOK`, `CommandLands`, `ReadbackVerifies`, `ActivatesWithCommand` | holds, 2.9 M states |
| `orchestrator` | two experiments of different chemistries, three cycles of one step, a tag register that holds two values, two crashes, one restart of the cycler: a crash can follow a swap, an idle latch and a stale LAST_ERROR, and the last cycle is clamped | `TypeOK`, `RunsAsScheduled`, `ImplementsLifecycle` | holds, 2.3 M states |
| `orchestrator_faults` | two experiments of a chemistry the cycler does not boot with, two cycles of two steps, one experiment without a schedule row, one crash, one Modbus error, one failed statement, one `soak.stop`, one invalid rewrite, in any combination | `LedgerSound`, `EventOncePerCycle`, `RunsAsScheduled`, `FinalStatusStays`, `EveryExperimentEnds` | holds, 237 k states |
| `orchestrator_stuck` | one experiment, one crash, one Modbus error | `NotStuckRunning` | violated, finding 1 |
| `context_pipeline` | two topics, queue of two, two updates each, one publish error, one lost connection: the queue fills up and a put-back meets it full | `TypeOK`, `NothingLost`, `ContextSettles`, `QueueDrains` | holds, 181 k states |
| `parquet_export` | three hours of two batches, age one hour, one late batch, one error, one kill, both exporters | `TypeOK`, `LedgerMatchesArchive`, `RowsKept`, `EveryHourArchived` | holds, 388 k states |
| `parquet_concurrent` | two hours, one error | `ConcurrentExportSafe` | violated, finding 2 |
| `watchdog` | four monitors, retry queue of one, three changes of the watched world (trip, recover, trip again), two failed INSERTs, two sessions: the queue overflows, two monitors drain at once, and a session ends inside `emit`. `MaxAlerts` is the least the module's assumption allows, and never cuts an alert off | `TypeOK`, `AlertsAccounted`, `SilenceReported`, `TripReported` | holds, 442 k states |
| `analytics` | three cycles of a CC and a CV sample with rising R0 (one jump above and one below the threshold, the jump over two cycles above), batches of two, one sample on its way, two faults of any kinds: an event can come before its rows, after a lost one, twice, or to a service that was away | `TypeOK`, `RowsStoredOnce`, `BaselineIsNearest`, `AlertsMatchFeatures`, `LatestCycleHandled` | holds, 716 k states |
| `analytics_order` | the same with one sample more and one fault | `OrderDoesNotMatter` | violated, finding 3 |
| `chamber` | two chambers, in or out of the band, duration 3, grace, period and lag 1, three setpoint writes, two lost sessions or restarts: the dict grows inside and outside an emit, breaches begin before, in and after a grace | `TypeOK`, `SweepSurvives`, `OneAlertPerBreach`, `BreachReported` | holds, 140 k states |

Constants named `Max*` bound faults and updates; they appear in guards of fault or environment
actions only. `AgeCap` lies above every age a guard or a property compares, so it hides nothing.
`CHECK_DEADLOCK FALSE` is set where the system may stop because its environment's bounded supply of
updates, hours or changes is used up; a chassis and an executor never stop, and there deadlock is
checked.

Several properties have explicit exceptions, each of them a behaviour the code really has, and some
of them against what a comment says:

* `LedgerSound` and `EventOncePerCycle` allow one row or event per failed SQL statement: the
  statements of `_advance` are not one transaction, although `executor.py:7-10` says so.
* `ActivatesWithCommand` excludes a MODE register that still shows an active mode. After a chemistry
  swap `_set_chemistry` leaves MODE to the next mirror pass, and kickoff's first write re-applies the
  old mode with the new setpoint and the chemistry's limits, three writes before its own mode arrives.
  `cycler_client.py:107` says the order of writes rules this out. Nothing else has this effect.
* `ReadbackVerifies` excludes a read-back of a rejected id before a mirror pass. The cycler stores the
  register before `_set_chemistry` rejects the id, so until the mirror the client reads its own write and
  kickoff goes on, on the old cells. `executor.py:223-225` and `cycler_client.py:173-174` say the
  read-back refuses such a run. After a mirror pass it does, and that is what the property and the
  theorem say of every id, known or not.
* `RunsAsScheduled` excludes what is in `cut`: experiments that a fault struck between their row and the
  stamp of the channel, that were under way when the cycler restarted, or whose cells another experiment's
  kickoff swapped. `_resume_inflight` writes neither cycle nor chemistry, so such an experiment runs with a
  wrong tag or on the wrong cells. So does one that dies between closing a row and marking itself failed, if
  the error it read is one of the cells before a swap and not latched any more. Latches of any channel at
  any time, swaps before an experiment has started and tags beyond the register are *not* excluded.
* `EveryExperimentEnds` excludes what an error left `running` without an object and no boot has found since
  (`stranded`, see finding 1), and an experiment pending beside a pending one whose schedule does not
  validate (`HeldUp`). `_build_experiment`'s docstring says it "Returns None if the experiment can't be
  started (bad schedule, terminal state) so the caller can skip it"; in fact the validation error ends the
  chassis's kickoff sweep, every time, and the row stays pending. An error excuses only what it struck.
* `FinalStatusStays` allows the executor's unconditional UPDATE to overwrite an operator's stop.
* `ContextSettles` excludes publish errors, since a message that is put back goes behind newer ones
  (`events.py:65` says it stays at the head), and a context cleared when the ingester has lost a
  connection: its map outlives the connection and nothing retained corrects it, although
  `context.py:60` says an idle channel shows no stale context.
* `LedgerMatchesArchive` and `RowsKept` exclude two exporters together with an error or late rows.
* `AlertsAccounted` excludes an overflow and two monitors draining at once.
* `SilenceReported` and `TripReported` exclude the exit of the service on an `OSError` of the INSERT,
  after which a critical alert is not published although `alerts.py:59` says it always is.
* `TripReported` also excludes a `spent` edge: in the grace of a session the edge is updated and the alert
  skipped (`chassis_monitor.py:33` says real trips fire on the next cycle), and a session lost inside the
  monitor's `emit` leaves the edge set. Such a trip is not reported until a poll has found the chassis not
  tripped. Both properties start afresh with each episode: an alert of an earlier silence or trip does not
  count, since the poll that refutes the condition takes it out of `reported`.
* `BaselineIsNearest` and the first half of `AlertsMatchFeatures` exclude publish errors (finding 3), its
  second half failed statements and a stopped process.
* `SweepSurvives` allows the service to exit when a chamber is first heard after the grace during an emit.

`TypeOK` of `Analytics` includes that the ingester's buffer stays below `BATCH_MAX` between messages, so
`BUFFER_HARD_CAP` is never reached: a flush empties the buffer long before, and nothing is received while
a flush is awaited. The "hard buffer cap drops oldest rows" of `ingester/main.py:140` and
`docs/chaos.md:94` does not happen; the backlog grows in the MQTT client's queue, which has no limit.

### Fairness

* `Orchestrator!FairSpec`: weak fairness of the executor's next step (one asyncio task that is always
  runnable or waiting for a request that has a timeout, restarted by the container runtime after a
  crash), and strong fairness of a tick that finds its step ended, per experiment: schedules end
  their steps by a reachable limit or `max_duration_s`, so a step ticked for ever ends.
* `ContextPipeline!FairSpec`: weak fairness of the publisher's and of the ingester's loop; the broker
  comes back, as their retry loops assume.
* `ParquetExport!FairSpec`: weak fairness of a new pass of the periodic service (a timer) and of the
  progress of a pass. None for `--now`, errors, kills or late rows.
* `Watchdog!FairSpec`: weak fairness of each monitor, of time and of a new session.
* `Analytics!FairSpec`: weak fairness of the event publisher's and of the analytics service's loop. None
  for the row path: no liveness property is about rows, and a partial batch does wait for the next message.
* `Chamber!FairSpec`: weak fairness of each chamber's messages, of the clock, of the sweep and of a new
  session. No chamber has to reach its setpoint and the container need not be restarted.

## 4. Findings

1. *Stuck in 'running'* (`orchestrator_stuck`). One Modbus error while resuming (or in kickoff) leaves
   the row `running` and no object drives it until the next restart. `chaos/powerfail.sh:95` and
   `docs/chaos.md:50` expect none.
2. *Concurrent exporters* (`parquet_concurrent`). A cursor error makes the `finally` block publish a
   truncated object over the complete one of an hour the other exporter has recorded; the chunks are
   then dropped. `parquet_export/main.py:163` calls concurrency safe.
3. *Order of cycle events* (`analytics_order`). An event whose publish failed goes behind newer ones; the
   later cycle is featured first, its R0 jump is relative to an older cycle or missing, and nothing
   computes it again. `events.py:83-85` says order does not matter.

The divergences that appear as exceptions of passing properties are listed in section 3. Also seen,
without a run: `fleet_monitor.py:20-22` says the monitor survives MQTT partitions, but its task is
cancelled with each session; `last_msg_monotonic` of a chamber is never read, so a chamber that falls
silent after one out-of-band message counts as a sustained breach and one that falls silent in band is
never missed; with `breach_duration_s` below grace plus check period the chamber's old edge is not
re-armed after a reconnect and the alert of a lasting breach is lost (`ChamberAssumption` excludes
this; the defaults satisfy it).

## 5. Proofs

Every invariant, action property and refinement that a passing run checks is also a theorem, for all
values of the constants that satisfy the named ASSUMEs. The `Max*` constants bound how often a fault
happens in a behaviour; the theorems hold for each value of them, so for any number of faults.

| Module | Theorems (the property they state) |
|---|---|
| `ChassisProofs` | `TypeCorrect`, `LatchSafe` (`LatchedIsIdle`), `RunawaySafe` (`RunawayLatched`), `DeadMan` (`DeadManBound`), `ChassisDeadMan` (`OrphanBound`), `Envelope` (`BreachBound`), `LatchDiscipline` (`LatchKept`) |
| `CyclerLinkProofs` | `LinkImplementsChassis` (`LinkSpec => Spec`), `LinkTypeCorrect`, `CommandLandsAlways`, `ReadbackVerified`, `ActivatesAsCommanded` |
| `OrchestratorProofs` | `OrchTypes`, `LedgerSoundAlways`, `EventOncePerCycleAlways`, `FinalStatusStaysAlways`, `LifecycleImplemented` (`ImplementsLifecycle`), `RunsAsScheduledAlways` |
| `ContextPipelineProofs` | `PipelineTypes`, `NothingLostAlways`, `ContextSettlesAlways` |
| `ParquetExportProofs` | `ExportTypes`, `LedgerMatchesAlways`, `RowsKeptAlways` |
| `WatchdogProofs` | `WatchdogTypes`, `AlertsAccountedAlways` |
| `AnalyticsProofs` | `IngesterStoresOnce` (the row path alone), `AnalyticsTypes`, `RowsStoredOnceAlways`, `BaselineAlways`, `AlertsMatchAlways` |
| `ChamberProofs` | `ChamberTypes`, `SweepSurvivesAlways`, `OneAlertAlways` |

Each module has the same shape: lemmas about the operators, one lemma per action (or per group of
actions that touch the same state), a lemma that joins them, the invariance theorem
(`Invariance`, `LinkInvariance`, `OrchInvariance`, ...), and the properties as its consequences. TLC
checked each inductive invariant on the instance of the module's runs before it was proved.

### The arguments

*Chassis.* The time bounds are not inductive: a state in which a channel is at its bound and the loop
that enforces it has just run satisfies them and has a successor that does not. `IndInv` therefore has
`KickSlack`, `OrphanSlack` and `BreachSlack`: the age *plus the time to the enforcing loop's next
pass* stays below threshold and period. A `Tick` moves one unit from one to the other, a pass of the
loop either parks the channel or finds a young age, and a write that activates a channel also kicks
it. With `wait >= -Lag` the bounds follow. `RunawayLatched` is preserved because `cell_loop` latches
channel and cell in one step and a chemistry write that clears a latch also replaces the cell.

*CyclerLink.* A write of a call re-applies the whole register block, so it is not enough that the channel
has the setpoint that was written: the register must have it too, or the next write takes it back.
`WritesHeld` says so for each write that is done, while the channel is unlatched; a mirror pass copies
channel to register and keeps it, a latch ends it. `ChemistryHeld` says that from
the write on the cells are the call's if the cycler knows the id (only the call in flight writes CHEMISTRY),
and that after a mirror pass the register shows the cells, so a read-back past it tells the truth for a
rejected id as well. Every step of the link is a step of `Chassis` or leaves it unchanged, which
carries the seven theorems of `ChassisProofs` over to the orchestrator's client.

*Orchestrator.* `OrchControl` says where the executor can be: the label of its next await determines the
sweep, whether the experiment at hand has an object, and (without an operator's stop) its status in
Postgres. Built on it:

* `OrchLedger`, for `LedgerSound` and `EventOncePerCycle`. The properties count holes, and the count is
  not inductive: after a failed INSERT the object goes on and the hole appears only with the next row.
  `GapsCounted` counts from the object instead: the steps behind it that are not closed, and its own when
  its row was never inserted. `NoRowsAhead` makes a resume, which starts from the last row, and the object
  agree; `Claimed` keeps rows away from experiments no kickoff has claimed; `EventsCounted` ties the
  number of events of a cycle to the row of its last step, which is the only one after which
  `_advance` enqueues.
* The refinement. With the number of closed rows as progress, each await maps to a step of
  `ExperimentLifecycle` or to a stutter. The theorem assumes `MaxDbErrors = 0` and `MaxStops = 0`: with
  a failed statement an experiment is marked completed with a row missing, and a stop completes it early,
  so neither can be dropped. Crashes, Modbus errors and restarts of the cycler are unlimited.
* `Stamped`, for `RunsAsScheduled`. The property speaks of the moment between two sweeps only, and says
  nothing of a channel whose experiment has no object at that time; what survives a crash is the row in
  Postgres. `StampedAt` therefore relates the channel to the *latest row*: nothing drives or has tagged the
  channel of a `Fresh` experiment, from `write_chassis_chemistry` on the chassis has the cells, and an open
  latest row is of the tagged cycle. Where the latest row is closed before the end of the schedule, a
  failing tick has closed it; a resume behind it would run with an old tag. Either the channel is latched,
  and a latch outlives the orchestrator and refuses every step, or the experiment is `Settled`: it is
  final, has no object and no resume holds it. Nothing is assumed of chemistries, latches, restarts or of
  the number of cycles; the tag is `Clamped` throughout.

*ContextPipeline.* `AllPresent` and `WaitingOnce` place each message (queue, publisher's hand, taken,
refused), for `NothingLost`. `ContextSettles` follows from two order invariants: upstream, the last message
of a channel that is queued, in hand or retained means the latest context; downstream, what is on its way
to the ingester ends in what is retained.

*ParquetExport.* The properties only speak of ledger, objects and hypertable; the hazard is a pass in the
middle. `ReadsComplete` says what an exporter has read of its hour at each await: all of it, or nothing
because the other one has archived and dropped it. `AloneExact` and `WholeHours` are the two ways in which
that stays true (one exporter only, or neither errors nor late rows).

*Watchdog.* `AlertsAccounted` becomes inductive with what a monitor has in hand at each await of `emit`
(`EmitInHand`) and with the room left for a session.

*Analytics.* `RowFacts` describes the rows in flight position by position: sorted, not stored, and without
faults exactly the last ones that were sent. `EventOrder` says that without a publish error no row of
`cycle_features` is of a later cycle than an event that is still to come, so a baseline that was the nearest
when it was read stays the nearest (`BasesPrevious`). For the alerts, an R0 that was estimated must stay
estimated when a late flush adds rows and the event is processed again (`RowsFromTable`).

*Chamber.* A reported chamber is a sustained breach whose edge is held (`ReportedHeld`), and a sweep that
waits in `emit` iterates a dict of the size it began with unless a chamber was late (`SweepSize`).

### Assumptions

The assumptions are the named ASSUMEs of the modules, which TLC evaluates in every run. Beyond types they
ask for: positive periods and an `AgeCap` above the bounds (`Chassis`), and inside `Tick` an event loop at
most `Lag` late; a schedule with a step and a cycle, no step of which is idle (`Orchestrator`); finitely
many experiments and topics; at least one hour (`ParquetExport`); a breach duration above grace plus check
period (`Chamber`, see section 4); at least two samples per cycle (`Analytics`: with a single step whose row
is missing `fetch_cycle_telemetry` would use its fallback, which is not modelled). `AlertsMatchAlways` also
assumes `ChargesOnce`: in each cycle the CC steps come before the CV steps, as in the repository's
schedules. Otherwise a late row could turn a cycle with an R0 into one without.

### Only model-checked

Liveness under fairness is outside the prover's reach: `EveryExperimentEnds`, `QueueDrains`,
`EveryHourArchived`, `SilenceReported`, `TripReported`, `LatestCycleHandled`, `BreachReported`. The three
violated properties of section 4 are counterexamples and need no proof.

## 6. Plan

Done: `Chassis`, `CyclerLink`, `Orchestrator` with `ExperimentLifecycle` and restarts of the cycler,
`ContextPipeline`, `ParquetExport`, `Watchdog`, `Ingester`, `Analytics`, `Chamber`, each with its proofs.
Next:

1. The safety half of the liveness properties: that the action each of them waits for stays possible
   (for `EveryExperimentEnds`, that an experiment that is not final is in a sweep, has an object or will be
   found by the next boot, unless an error has struck it).
2. Narrower exceptions where a proof shows that less suffices: `AlertsAccounted` after the first session,
   `RunsAsScheduled` for an experiment that lost its tag and has since begun another cycle.

## 7. Not modelled

* Cell numerics, degradation, feature arithmetic: floating point. `Chassis` lets a step of a cell end
  anywhere; `Analytics` keeps what a feature was computed from.
* Schedule parsing and validation: stateless; `Orchestrator` keeps whether a body validates. A schedule may hold a
  step without any stopping rule (`EndCondition` requires none); liveness assumes there is none.
* The chamber's mirrored registers and dead-man status, which nothing reads; the cycler's subscription
  to the chamber's temperature (`cycler/ambient.py`), since `Chassis` allows any temperature; the
  retained `state/` topics, which nothing subscribes to.
* Several probes in one poll of the chassis monitor: they are serial and share only the sink.
* Health checks, logging, migrations, dashboards, DuckDB views, scripts: I/O and deployment.
