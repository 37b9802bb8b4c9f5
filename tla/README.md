# A TLA+ development for SVG-MB-Control

SVG-MB-Control drives the fan outputs of a motherboard's Super I/O chip from
Windows user mode. It takes an output away from the board's own control, drives
it by a temperature curve or a PID law, and has to give it back: when a hold
expires, when it is stopped, and after a crash, from what it left on disk.
Around this it reads sensors and counters, keeps logs that an analyzer takes in,
switches profiles, and is watched by a scheduled task. This directory models
these parts from the source, checks them with TLC, and proves the central
results with TLAPS.

Paths below are relative to the repository root.

## 1. Inventory

| Part | State it keeps | Operations | Where it gets hard |
|---|---|---|---|
| Super I/O outputs (`third_party/SVG-MB-SIO`, `src/hardware/sio_fan_writer.cpp`) | mode and duty register per output | `set_duty_percent` (mode, then duty), `restore_saved_state` (duty, then mode), scan | failure between two registers; the firmware takes an output back; mode 0 is never restored |
| Pending-writes sidecar (`src/runtime/pending_writes.cpp`) | `pending_writes.json`; in memory `entries_`, `dirty_`, `loaded_` | `Load`, `Adopt`, `Upsert`, `QueueRemove`, `Flush`, tolerant read with quarantine | cache and disk differ between ticks; each file operation can throw |
| Control-loop worker (`src/control/control_loop.cpp`, `tick_runner.cpp`, `channel_write.cpp`) | `ChannelState` per channel, `ControlLoopRunState` | reconcile, boot, tick (capture, hold restore, evaluate, gate, record, write, flush), shutdown restore | a crash between any two steps; the breaker; a fatal restore timeout |
| Write-once and calibration (`src/runtime/write_orchestrator.cpp`, `src/control/calibration.cpp`) | the same sidecar, without a cache | reconcile, capture, record, drive, hold or step, restore, erase | each of these fails alone; dies anywhere; the exit status is read by scripts |
| Supervisor (`src/control/control_supervisor.cpp`) | active and last-known-good profile, armed revert, committed switch, worker handle | spawn, watch, cycle, revert, restart with backoff, end | everything it reads may change before it acts |
| Operator commands (`app_main.cpp`, `worker_force_terminate.cpp`, `runtime_lifecycle.cpp`) | request files, two named mutexes | start, stop, restart (with forced termination), set profile, reset breaker | probe-then-act across processes |
| Configuration (`src/control/control_config.cpp`, `control_loop_config.cpp`, `machine_profile.cpp`, `profile_composition.cpp`) | none of its own: every process loads the files again | resolve a profile, compose an overlay with the machine base, load twice | the files change between two loads; two processes load different runtime homes |
| Curve law (`src/control/channel_evaluator.cpp`, `boost_stage.cpp`) | smoothing, boosts, sensor failure counters | evaluate a channel, gate the write | numeric edges; dropouts and safe mode |
| PID law (`pid_controller.cpp`) | integral, previous temperature | evaluate a channel | windup under saturation, dropouts and late ticks |
| Low band (`low_band_integrator.cpp`) | debt, stage and lift per channel | update once per tick | hold times, spacing and release interact |
| Cadence, status, health, watchdog (`cadence_score.cpp`, `control_scheduler.cpp`, `runtime_status.cpp`, `runtime_health.cpp`, `platform/task_runner.cpp`) | pace, status file | pace a tick, publish, probe, restart | a slow worker must not look dead, and a dead one must |
| Sensors and counters (`amd_reader.cpp`, `gpu_reader.cpp`, `rapl_energy.h`, `cpu_cycles.h`, `direct_runtime_snapshot.cpp`) | baselines, windows, caches, a sweeper thread | read, difference, cache, publish a sum | wraparound, sleep, failed reads, a buffer that is used again, a second thread |
| Read loop, evidence log (`read_loop.cpp`, `evidence_log.cpp`) | failure flags, time of the last success | poll, publish to each sink | one sink fails, another does not |
| CSV log (`runtime_csv_archive.cpp`) | archive stream, mirror, manifests, counters of rows | append, flush, rotate, prune, close | a crash or a failing stream between row, flush and manifest |
| Event log (`runtime_event_log.cpp`) | the log, `logging_health.json`, a registry per process | append, rotate, report, clear the report | several processes on one file |
| Analyzer (`src/analyze`) | `runs` and dependent tables | ingest, forced ingest, prune | the files it takes in are still being written |

How the parts interact. The worker calls the readers, the fan writer, the sidecar
store and the loggers synchronously, in one thread; only the sum over all cores
comes from a second thread, through a mutex. Processes never call each other: an
operator command writes `stop.request.json`, `profile.switch.request.json` or
`circuit_breaker_reset.request.json`, the supervisor writes
`profile.cycle.request.json`, the worker polls the stop, cycle and reset files at
the top of a tick, the supervisor polls its worker's handle and the stop and
switch files. Named mutexes admit one supervisor and one worker per runtime home.
`control_runtime.json` and `control_supervisor.json` tell the commands and the
watchdog which processes to look at, and the archive's manifests tell the analyzer
what it may rely on.

What makes the parts correct:

- sidecar and worker together: a driven fan is always named on disk with the
  board's own state; records go only after a restore; nothing is captured as a
  baseline while an old record is unrestored; success is reported only when it is
  one; a missing record is visible; an abandoned fan comes back. The same of
  write-once and calibration;
- supervisor: one runtime at a time, a way back from every unproven profile, no
  request outlives what it was for, only a stop ends the runtime, every switch and
  every stop comes to an end;
- configuration: no profile drives what the machine excludes or below its floor,
  and the worker runs the profile that the supervisor takes for active;
- laws: safe mode follows the input it guards, no write moves a duty faster than
  the limits, demanded or safe cooling reaches the output in the end, integrators
  let go again, a stage is earned and a boost released;
- health: a worker in order is never restarted, a silent one is, in the end;
- readings: a decision rests on readings of its own tick, a window on two reads of
  the same counters, a file that is not called stale is fresh;
- records: a manifest promises no row that is not there, a run in the database is
  whole and unique, an acknowledged event is kept, a report of a failure does not
  outlive it.

## 2. Modules

| Module | Models | Remarks |
|---|---|---|
| `FanHardware` | the outputs behind `FanWriter` | `fan[c]` is `Firmware`, a manual duty, or `Fallback` (SmartFan mode 0x40, what the driver substitutes for a recorded mode 0). Register order shows in `ApplyFailed` and `RestoreFailed` |
| `PendingWrites` | the sidecar and `PendingWritesStore` | extends `FanHardware`; each operation by outcome: persisted, deferred, thrown |
| `FanControl` | the worker process | extends `PendingWrites`; `phase` and `cur` are its program counter |
| `WriteAheadCustody` | what the write path promises | abstract specification: take only a recorded fan, erase only a released fan's record |
| `WorkerLifecycle` | what a worker promises its supervisor | abstract specification: `FanControl` implements it, and the workers that `Supervisor` assumes do no more |
| `FanControlInvariant` | the inductive invariants of the worker | `CustodyInv` with `Trustworthy`, the assumption it needs; `FlagInv`, `ReleaseInv`, `AbortInv` for what holds without it |
| `OneShot` | write-once and calibration | extends `FanHardware`, shares no state with `FanControl`, implements `WriteAheadCustody` as well |
| `Supervisor` | supervisor, operator commands, mutexes, request files, workers seen from outside | program counters `sup`, `client[c]`, `work[w]` |
| `Configuration` | from a profile name to the channels driven | supervisor and worker reduced to what they load |
| `ChannelEvaluator` | one channel under the curve law, and the write gates | a temperature and a duty are small numbers, the curves arbitrary functions |
| `PidLaw` | the same channel under the PID law | extends `ChannelEvaluator` for sensors, rate limit and gates |
| `LowBand` | the low-band integrator | |
| `Heartbeat` | cadence, status, health, watchdog | time passes in units |
| `CounterWindows`, `CoreSweep`, `Sensors` | energy and cycle counters up to the report; the sweeper thread; the readings of a tick | |
| `ReadLoop` | read loop and evidence log | |
| `RuntimeLog` | the CSV log | |
| `Analyzer` | ingest and prune | extends `RuntimeLog`: composes the two processes over the files they share |
| `EventLog` | event log and its health report | |
| `MCFanControl`, `MCSupervisor`, `MCChannelEvaluator`, `MCRecords`, `MCConfiguration` | instances for TLC | |
| `MCParts` with `MCPidLaw`, `MCLowBand`, `MCCounterWindows` | one instance of the nine parts beside the write path | the parts share no state; a behaviour moves one of them, chosen at the start |
| `FanControlProofs`, `CustodyProofs`, `OneShotProofs`, `SupervisorProofs`, `ConfigurationProofs`, `ChannelEvaluatorProofs`, `FreshnessProofs`, `RecordsProofs` | theorems | section 4 |

### FanControl against the code

A step of the model ends where another process, a crash or the hardware could
tell the difference: each duty write, restore and file replacement is one step,
and what happens in memory between two of them belongs to the earlier one.

| Actions | Code |
|---|---|
| `Start`, `StartRefused`, `Reconcile*` | `ReconcilePendingWrites`, called by `RunApp` before the loop |
| `Boot`, `BootFails` | `ControlLoop::RunUntilStopped` up to its `while` |
| `BeginTick` | snapshot and `ProcessCircuitBreakerResetRequest` |
| `CaptureBaseline`, `HoldRestore`, `HoldRestoreFails` | `CaptureChannelBaselineIfAvailable`, `HandleExpiredHoldRestore` |
| `SkipWrite`, `RecordWrite`, `ApplyWrite`, `ApplyWriteFails` | `TryApplyChannelSetpoint`: its gates in order (`WriteDue`), `Upsert`, `ApplyDuty`, then success or `HandleChannelWriteFailure` |
| `FlushTick` | `FlushAndClearPersistFailures` |
| `BeginShutdown`, `Shutdown*` | the end of `RunUntilStopped` |
| `Crash`, `RequestStop`, `FirmwareTakesOver`, `SidecarDamaged` | the environment |

Abstractions. A record is the baseline it holds, the only part reconciliation
reads. The control law is an input: an evaluation is any setpoint (or none),
safety flag, and answer to "has the cooldown, has the probe backoff elapsed".
Time is gone otherwise: a hold may or may not have expired. Duties are
`0 .. MaxPct`; comparisons with the deadband and the authority tolerance are kept.
The stop request and the profile-cycle request are one flag for the worker, which
reacts to both alike; starting clears only the first, hence `stop' \in {stop, FALSE}`.
`failures` saturates at `FailureLimit`, beyond which the code does not distinguish.

### Supervisor against the code

`sup` follows `RunSupervisedLongRunningMode` and `RunSupervisorWorkerLoop`:
`begin` (mutex held), `spawn` (loop condition), `startup` (the 1.5 s window),
`watch` (polling the worker), `judge` (after its exit), `backoff`. The judgement's
five actions are the code's branches in their order. `client[c]` follows a command
process: `probe`, `probed` (between `PrintAlreadyRunningIfActive` and
`ClearRuntimeStopRequest`), `spawned` (its detached child has not reached the
mutex), `stop`/`stopQuiet` (the two reads of `WaitForRuntimeStop`), `escalate`,
`await`, `gone`. `work[w]` is what others see of a worker: `booting` holds the
mutex, `opening` has cleared the stop request, `running` has published its status,
`stopping` and `aborting` are the shutdown after a request or after a fatal
restore timeout.

Abstractions. Waits may time out whenever what they wait for has not happened.
A process identifier is not reused while a file names it (the code guards reuse by
the image path). Corroborating and terminating the recorded worker is one step.
A terminated supervisor's memory is lost and its worker lives on.

`FanControl` and `Supervisor` meet in `WorkerLifecycle`: `Life` is the first's phase and
exit status as the holder of the process handle sees them, `LifeOf` the second's
`work[w]`. A worker loops only after a start, reports success only from a shutdown
that began with a request on file, and one that aborted, hung, died or was
terminated never reports it. `Judgement` relies on exactly this: exit status 0 ends the
supervisor, any other has the worker restarted.

### ChannelEvaluator against the code

`FanControl` takes the result of an evaluation as any setpoint; `ChannelEvaluator`
says which one it is, and follows it through the gates for a channel with a
continuous hold (`control_hold_ms` 0). A `Tick` is one pass of the loop body of
`RunControlTick` for the channel:

| Definitions | Code |
|---|---|
| `Primary` | `SelectPrimaryCurveInput`, `SelectLegacyMaxInput` |
| `CpuDropout`, `Missed`, `SafeMode`, `CountLosses`, `PrimaryDemand` | `EvaluatePrimarySetpoint` |
| `Overrides`, `Demand` | `ApplyCpuOverride` |
| `Smoothings`, `UpdatedBoost` | `ApplyDemandSmoothing`, `UpdateBoostStage` |
| `Desired`, `RateLimited` | `ComputeFinalSetpoint`, `RateLimitSetpoint` |
| `Reassert`, `Cooldown` | `DetectAuthorityReassert`, `WriteCooldownForAuthorityReassert` |
| `Bases`, `WriteDue` | `CaptureChannelBaselineIfAvailable`, the gates of `TryApplyChannelSetpoint` |
| `TickBlind`, `TickSkips`, `TickWrites`, `TickWriteFails` | its outcomes: no setpoint, gated, written, refused by the hardware |
| `Sense`, `BoardDrives` | sensors, the board's firmware |

Abstractions. Time is counted in ticks, rates are duty steps per tick, and elapsed
times saturate where no gate or rate budget can tell them apart (`HorizonOK`).
The loader accepts a smoothing factor in [0, 1] or none. Without one a demand jumps; a
positive one moves it any part of the way and at least one step (moves of less than a
step, the asymptotic tail among them, are left out); with 0 it stays where it is. Under
a rise factor of 0 no demand ever gets higher, the safe one neither, so the two liveness
properties have `DemandCanRise` as a premise. The rise of a boost is a
function of the temperature. The low-band contribution is zero, the channel is
permitted by the write policy, and a failed write leaves the output as it was (the
torn one is `FanControl`'s). Safe mode replaces the demand only: smoothing, decaying
boosts and the rate limit still apply, as `docs/CONTROL_PIPELINE_MATH.md` describes,
so a channel in safe mode may take many ticks to reach full speed, and the model
checks that it does reach it.

### OneShot against the code

| Actions | Code |
|---|---|
| `StartRun`, `OpenWriter`, `RestoreRecord`, `FlushRecords` | `RunApp` up to the mode: `ReconcilePendingWrites` |
| `ChooseOnce` | `RunWriteOnce` up to `UpsertPendingWrite`, its exit statuses in order |
| `ChooseChannels`, `ChooseNext` | the channel loop of `RunCalibration` |
| `RecordChannel`, `DriveFan`, `EndHold`, `AbortSteps`, `RestoreFan`, `EraseRecord` | record, `ApplyDuty`, hold or step sequence, abort, restore, removal of the record |
| `WriteResult` | the end of `RunCalibration` |
| `SignalStop`, `DieAnywhere`, `BoardTakesOver` | the environment |

One such process runs at a time and no worker beside it. The code does not see to
this: neither mode takes the worker's mutex (the interleaving hazard at
`src/app/app_main.cpp:403`). A calibration erases the record of a fan whose restore
has failed and still ends with 0; `forgotten` keeps these fans until they are driven
again, and the properties name them as the one exception: `RunCustodySpec` says that
the modes follow the worker's protocol with every fan but these.

### Configuration against the code

A process resolves a name (`Resolve`: `ResolveProfileSelection`), loads the document
as a configuration (`LoadConfig`) and, as a worker, once more as a loop configuration
(`LoadLoop`), each time from the files as they are by then. `ComposedFloors` and
`Composes` are `ComposeConfigRoot`. The supervisor's part in it is reduced to what it
loads and what it decides with: launch, spawn, promotion, switch request, forced
cycle, judgement (`JudgeExit`, whose branches are those of `Supervisor`). Files are
edited at any time (`EditFile`). A document is its runtime home, the minimum duties
it asks for, whether it composes, and how far the loaders accept it.

### The other laws against the code

`PidLaw` is `PidController::Evaluate` with the gates around it, one tick per step;
the time a tick integrates over is any of `0 .. MaxDt`. Products and sums are the
code's over integers; a derivative is rounded toward zero. `LowBand` is
`UpdateLowBandState`, one call per `UpdateLowBand`, over small integers for debt and
boosts; the curves from temperature to signal and from debt to boost are functions.
Its counters of the evidence file are left out.

### Heartbeat against the code

| Actions | Code |
|---|---|
| `Launch`, `ComeUp`, `Refuse` | start of a worker, its first status |
| `BeginTick`, `EndTick` | `RunControlTick` with `ComputeCadence` and `should_write_status`; the status is stamped with the start of the tick |
| `StopLoop`, `EndWorker`, `Hang` | the ways out of the loop |
| `ProbeReads`, `ProbeJudges` | `--health`: `ReadRuntimeStatus`, then, later, `AssessHealthState` and `RuntimeHealthExitCode` |
| `Restart` | `RunTaskRunner` on exit status 2: `--restart` as one step |
| `Pass`, `AskStop`, `Damage`, `SetClock` | time, operator, faults |

A worker's work takes up to `MaxWork`, its wait up to `Poll`; publications come every
`StatusEvery` ticks. That these fit below `StaleAfter` is an assumption
(`HeartbeatAssumption`): the shipped values keep it, no loader checks it. Wall-clock
jumps are a fault, and `SoundWorkerIsSpared` claims nothing of a worker whose file
they have touched since.

### Sensors and counters against the code

`Sensors` is one call of `SampleDirectRuntimeSnapshot` per step: what the hardware
answers is any `World`, and `MergedAmd`, `GpuEnvelope` and `Cached` say what becomes
of it in the buffer that is used again in every tick. `CounterWindows` follows one
counter from `Advance` (wrap-around difference, the caps on window, power and ratio)
over the rows that mirror it (`Mirror`) to the analyzer's reduction by id
(`Reported`), with opening retries, failed reads and system sleep. What the counters
truly gained is kept beside it. `CoreSweep` is the sweeper thread: `locked` is its
mutex, and `CopyPublished` the control thread, which may look between any two reads.

### Records against the code

| Module | Actions | Code |
|---|---|---|
| `RuntimeLog` | `WriteRow`, `LoseRow`, `DropRow` | `WriteRow` and the loop around it: append, flush at the interval or before a manifest, manifest |
| | `OpenChunk`, `OpenFails`, `Rotate`, `Finish`, `Seal`, `CloseStreams` | `OpenNewChunk` with retention, `MaybeRotate`, `CloseActiveChunk`: flush, final manifest, streams |
| | `Crash`, `Age` | the environment |
| `Analyzer` | `Begin`, `Skip`, `ReadManifest`, `InsertRun`, `InsertFails` | `ingest`, also forced: per manifest, read and insert, with the log going on in between |
| | `KeepBundle`, `DeleteBundle`, `End` | `prune` |
| `EventLog` | `BeginAppend`, `BeginRotation`, `RenameLog`, `RenameFails`, `AppendLine`, `AppendFails`, `AppendPartly` | `AppendRuntimeEvent` with `RotateEventLogIfDueLocked` and `AppendLineAtomic` |
| | `RecordFailure`, `RecordRecovered` | the registry and `logging_health.json` |
| `ReadLoop` | `OpenLog`, `OpenReaders`, `TakeSample`, `FailSample`, `EndReading` | `RunReadLoop`, `RunEvidenceLog`: start, one poll by the outcome of each sink, end |

A row and a manifest entry are counts; a log file is the set of events it holds, and an
event whose line starts with the rest of a torn one is in `glued`. Output streams may pass rows on
early and stay failed once they have failed; a stream that fails while it writes may
have written any part. One analyzer runs at a time.

## 3. Runs

| Run | Question | Instance | Result |
|---|---|---|---|
| `custody` | Is every held fan recorded, every abandoned fan released, and the protocol implemented? | 2 channels, one with a hold, duties 0..1, breaker limit 2, every fault that leaves the sidecar trustworthy | holds |
| `degraded` | What remains when the sidecar cannot be replaced, and does a stop still end the worker? | 2 channels, one with a hold, breaker limit 1, failing duty writes, restores and replacements, damage, fairness | holds |
| `adversity` | What remains under every fault at once, and what may a supervisor count on? | one of two channels blocked by the write policy | holds |
| `supervision` | Is the runtime supervised correctly by one operator, with workers as `FanControl` has them? | 4 worker identifiers, 1 client, 2 profiles, all commands, all faults | holds |
| `switching` | Do switches and stops end? | 3 workers, one profile invalid, worker faults, fairness | holds |
| `evaluation` | Does the channel follow its sensors, its limits and its demand? | six configurations of the four blends, 3 temperatures, 4 duties, sensor limit 3, fairness | holds |
| `records` | Can a reader rely on manifests, database and event log? | 2 chunks of up to 2 rows, failing archive and removals, ingests, forced ingests and prunes that fail or die; 2 processes on one event log, 2 events, every fault; 5.4 million states | holds |
| `parts` | Do the nine parts beside the write path keep what they promise, and the one-shot modes the write path's protocol? | one instance of each, below; 430 000 states, fairness | holds |
| `torn` | "returns fans to the captured BIOS baseline" | a torn duty write, 1 channel | violated |
| `relaunch` | "confirmed gone" | start and restart, no fault | violated |
| `absorbed` | "`prune` only removes bundles that the DB has absorbed" | ingest and prune, no fault | violated |
| `otherhome` | "`--stop` writes `stop.request.json`; the worker exits through the normal restore/shutdown path" | a profile with a runtime home of its own, no edit, fairness | violated |

### Bounds

**Write path.** Channels interact through the shared file, the flush, the fatal flag
and the order of the pass: two channels have a first, a last and another one, and a
configuration can be split between them (one timed or blocked, one not). Two duties
make every comparison come out both ways with a deadband of one step; the board's own
duty reads as 0, so a captured baseline can equal a setpoint or differ from it. A
breaker limit of 2 separates the first failure from the last, and where 1 is used the
breaker is not in question. `degraded` has no crash, which would end the process
instead of the stop; scans fail in `custody` and `adversity`, reads in `adversity`.

**Supervision.** Four worker identifiers let an orphan, the current worker and its
successor coexist with an identifier still named by a file (an identifier is free
again when nothing names it, so runs are unbounded). `supervision` has one operator.
Of its promises only `OnlyStopEndsTheRuntime` needs that (section 4): two launchers can
each clear the stop request of the other's runtime
(`src/control/control_supervisor.cpp:466`).

**Evaluation.** Three temperatures put a reading below, between and at the thresholds
of guard and boosts; four duties make a step cap of one, a deadband of two and a rate
of two steps per tick distinct from each other and from an unlimited move. Four
configurations, one of each blend, use both directions of smoothing, the decay
latch, both release modes of a boost, a cooldown longer than a tick, the override
curve and each combination of rate and step cap; two more have smoothing factors of 0,
in both directions and in the falling one. A breaker limit of 1 lets every
failure open the breaker; the count to it is `custody`'s subject. All caps are above
the deadband: with a cap below it (the loader checks each alone) every setpoint is
dropped and a channel stays where it is.

**Records.** Two chunks are a rotated one and the one open beside it, the least for
retention, for a live manifest that is used again, and for a prune beside a log. Two
rows with a flush interval of 3 and a manifest interval of 2 let the manifest force a
flush that was not due. Two processes on the event log are the one that fails and the
one that clears, or the one that rotates and the one that appends.

**Parts.** A part moves alone, so their bounds do not multiply. PID: the temperatures
and duties of `evaluation`, time steps 0..2, four configurations (plain, without
integral bounds, damped, and one that only computes). Low band: debts 0..4, two
channels with different thresholds and holds, a spacing of 3 with
holds of 2 and 3, sources that release at different temperatures. Counters: they wrap one
unit beyond what the longest trusted window can hold, the tightest case the
assumption allows, and one window follows another. Sweeper: two processors,
three sweeps. Sensors: two temperatures, a cache of two ticks. One-shot: three
channels, one of them blocked, two steps, every fault but an unreadable sidecar.
Heartbeat: an interval of 2 with a floor of 1, work of up to 1, a publication every
second tick and a limit of 5, the least that the assumption allows. Read loop: polls
of 1 or 2 and a limit of 3. Configuration: two profiles and the default, a base with
two possible floors and an excluded pump, one edit at any moment.

No state constraint and no bound on the length of a behaviour is used but those that a
constant names (`MaxChunks`, `MaxRows`, `Event`, `MaxSweeps`, `MaxId`, `MaxEdits`,
`clockSet`); every instance is explored in full. The identifiers and profiles are
symmetric in `supervision`, which checks no liveness. Deadlock is not checked where the
system stops by nature or by its bound (`records`, `absorbed`, `parts`, `otherhome`).

### Fairness

- `FanControl`: weak fairness of the worker (a running thread runs); strong
  fairness of `Start`, because a dead worker is started again by the supervisor's
  restart loop and the watchdog's scheduled task, and creating the fan writer does
  not fail every time; strong fairness of each channel's reconciliation restore,
  because a restore tried over and over succeeds in the end. The last is an
  assumption on the hardware; `AbandonedFanIsReleased` is about nothing without it.
  It also assumes that crashes stop, which is a premise of the property.
- `ChannelEvaluator`: weak fairness of `Tick`, the loop goes on ticking. Its two
  liveness properties have the premise `Undisturbed`: from some point on no reading
  changes, the firmware takes nothing and no write fails. Nothing is assumed about
  what happened before.
- `LowBand`: weak fairness of `UpdateLowBand`, which the loop calls in every tick.
  `LowBandIsReleased` has the premise that its inputs stop changing.
- `Heartbeat`: weak fairness of time and of the watchdog's three steps, which a
  scheduled task repeats. Nothing of the worker is fair: it may hang anywhere.
- `Supervisor`: weak fairness of each worker's own steps, of the supervisor's
  steps, of noticing an exit and of reaching the cycle deadline. No command is
  ever issued because of fairness and no fault occurs because of it; a hung
  worker stays hung.
- `Configuration`: weak fairness of the worker's and of the supervisor's steps. The
  violation in `otherhome` is under this fairness: the worker polls for ever, in
  another directory.

### What the violations show

- `torn`: `set_duty_percent` clears the mode bits before it writes the duty
  register. When the second write fails, the output is in manual mode while
  `write_active` stays false. A shutdown then removes the record without a
  restore, publishes "channels restored" and exits 0; the next process captures
  the manual state as the baseline.
- `relaunch`: a starting worker clears the stop request. A `--restart` issued just
  then times out against a healthy worker and terminates it; the supervisor sees
  a crash and no stop request, waits 2 s and starts another worker; the forced
  restart, which waits 3 s for the supervisor to exit, terminates it too and takes
  the runtime for gone. The new worker goes on without a supervisor, and the
  relaunch then stops at "already running".
- `absorbed`: a session that is ingested while it runs has a row in `runs`; later
  ingests skip it, and `prune` only asks for such a row. The archive with the rows
  written since is deleted.
- `otherhome`: a switch is validated by loading the profile, not by comparing its
  `runtime_home_path`. The worker of a profile with another home polls there, while
  the stop request is written to the home of the configuration the operator named.
  Shipped files differ so: `config/control.release.json` (line 6) names `runtime`, beside
  the executable where `scripts/Build-Release.ps1:379` puts the file; the composed profile
  takes `..\runtime` of `config/overlays/release.behavior.json` (line 6), seen from
  `config/overlays`.

### Disagreements without a run

These came up while modelling. The models follow the code in each.

- `docs/CONTROL_LOOP.md` (lines 164 and 441) says a write is avoided when the sidecar
  cannot be recorded first, while `channel_write.cpp:374-410` and
  `docs/WRITE_ORCHESTRATION.md` say the opposite on purpose.
- An activation that could not be persisted is in memory without `dirty_`, so no
  later flush writes it until something else does (`pending_writes.cpp:195`); the comment
  at `channel_write.cpp:379-381` expects the next successful tick to.
- The loop's store is loaded by the first record of a tick. When that load throws, on a
  sidecar that a clean shutdown left empty and that cannot be opened for a moment, no entry
  reaches the cache, and only the persist-failure counter tells of the driven channel. The
  next flush that another channel causes writes a file without the record and clears the
  counters of all (`channel_write.cpp:475`), where the comment above it says that every
  record is then current. `MissingRecordIsFlagged` with `Faults = {"read"}` and two
  channels has this as its counterexample; `degraded` and the theorem are without that
  fault.
- Two `--start` commands probe before either's supervisor has its mutex; the second
  launcher removes a stop request meant for the first runtime.
- A GPU whose thermal read returns nothing counts as read with 0 degrees
  (`gpu_reader.cpp:636-639`), which the code documents; `InputsAreOfThisTick` excludes
  the value.

## 4. Proofs

All theorems hold for every value of the constants that satisfies the `ASSUME`s of the
modules: any number of channels, processors, processes or profiles, any duty range,
limit and interval, any curve.

**Worker, under every fault** (`FanControlProofs`): `TypeOK`; `BreakerTracksFailures`,
which is inductive with the types; `CleanCacheCoversDisk`. From further invariants, each
with one lemma per group of actions:

- `CleanShutdownReleases` (`CleanShutdownsRelease`). A shutdown that reports success has
  passed every channel without a failure. `ReleaseInv` says that the pass begins with
  the first channel and that, while nothing has failed, every channel behind it is
  released if it was active, and out of the cache: what the cache of a loop holds is
  what will be on disk, so this survives file faults that `CustodyInv` does not.
- `LifecycleSpec` (`LifecycleRefined`). `AbortInv` follows a restore that timed out to the
  exit status: its channel stays active, so the shutdown still has an active channel
  ahead that it will not restore, or has failed. Then each step of the worker moves
  its `Life` as one action of `WorkerLifecycle` or not at all.
- `MissingRecordIsFlagged` (`MissingRecordsAreFlagged`), under every fault but `read`, that an
  intact sidecar cannot be opened or parsed at a moment. `FlagInv` says that a loop
  whose store is not loaded has every driven channel flagged, that otherwise the cache
  names every driven channel with its captured baseline and agrees with the disk but
  for flagged ones, and that nothing is driven that has not been captured. With read faults
  the property is false: a `Load` that throws leaves the entry out of the cache, and the
  next successful flush clears the flag (`channel_write.cpp:475`).

**Worker, under `Trustworthy`** (`CustodyProofs`): no file operation fails, the file is
not damaged and a failed duty write leaves the output as it was. Crashes, refused
writes, failed and timed-out restores, failed scans and firmware takeovers are all
still possible. Each excluded fault breaks a result: `torn` shows one of them, and a
failed persist lets a fan be driven without a record by design. The properties are not
inductive: that a held fan is recorded after a flush depends on what the cache holds,
which depends on which channels are active, which depends on what was captured when the
loop started. `CustodyInv` ties these:

1. `DiskCoversHeld`: the disk names every held fan, with the board's own mode;
2. `CacheBetweenHeldAndDisk`: the cache lies between the held fans and the disk,
   and equals the disk when clean;
3. `ReconciledRecords`: the loop is reached only with an empty sidecar;
4. `HeldIsActive`: a running loop holds only what it marked active, with a baseline
   captured from the board;
5. `ShutdownReleases`: a shutdown without a failure has released what it passed.

There is one lemma for each group of actions with one step per action. TLC can check the
invariant too: `MCFanControl` extends its module. From it follow
`HeldFanIsRecorded`, `LoopStartsWithCleanSidecar`, `CleanExitRestores`,
`RecordErasedOnlyWhenReleased`, and the refinement `Spec => CustodySpec`: each step
of the worker is a `Rewrite`, a `Take`, a `GiveBack` or a stutter of
`WriteAheadCustody`. The safety of that protocol is proved of the protocol alone
and carried over to the worker by the refinement (`CustodySafe`).

**One-shot modes** (`OneShotProofs`), under every fault but an unreadable sidecar:
`OneShotInv` relates the program counter, the record and the fan: a fan in manual mode
that no record names is one a calibration has forgotten, what is being driven is
recorded first, and a successful end has passed the restore and the erasure. It gives
`DrivenFanIsRecoverable` and `SuccessMeansReleased`, and `RunCustodySpec`
(`RunCustodyRefined`): a step changes what is held by at most one fan and then leaves
the file alone (`HeldChangesAlone`), so it is a `Take` or a `GiveBack`, and any other is
a `Rewrite` over what is held.

**Supervisor** (`SupervisorProofs`), under every fault: `SwitchInv` adds to the types
that a cycle request exists only while a switch is committed (or before the
supervisor has cleared it), and that a switch is committed only while its worker is
watched or judged. It gives `UnprovenProfileCanRevert` and `NoStaleCycleRequest`.

`OwnedInv` says in which places a supervisor holds a worker's handle and that, unless a
supervisor has been killed, only that worker is alive. It gives
`StoppedMeansStopped` for any number of operators (`StoppedIsStopped`), and, by cases
on the worker's steps and on who terminates it, `LifecycleSpec`
(`WorkersFollowLifecycle`): the supervisor model asks of its workers nothing that
`FanControl` was not shown to do.

`OnlyStopEndsTheRuntime` needs more. `StopIsAsked` says that a worker which stops, or has
ended with success, was asked: by a stop request still on file or by the switch its
supervisor has committed. A launcher breaks this when it clears the request of a
runtime that came up after its probe, so the theorem `StopEndsOnlyOnRequest` has the
premise `[]NoStaleLaunch`, that this does not happen. `OneOperatorEndsOnlyOnRequest`
discharges it for one operator: between his probe and his spawn nobody else launches.
For two operators the property is false, by the hazard at `control_supervisor.cpp:466`.

**Configuration** (`ConfigurationProofs`): `ConfigInv` says what a worker in each of its
places has loaded, and that the profile it loads is the one the supervisor has active
for as long as it lives. It gives `DrivenWithinTheMachine` and
`WorkerRunsTheActiveProfile`, for any files and any edits.

**Laws** (`ChannelEvaluatorProofs`), for every set of well-formed configurations
(`ConfigOK`, what the loader guarantees): `TypeOK`, hence that duties and boosts stay in
range through smoothing, sum and clamp, and rate limit; `SensorFailedTracksLosses`,
inductive with the types; `SafeModeFollowsTheInput`, from the lemma that a tick counts a
loss exactly when the channel is `Blind`, which is stated without reference to how the
code selects its input; `SlewIsBounded`, from a lemma on what `RateLimited` returns.
For the PID law `NoWindup`, from an invariant that also says the integral is within its
bounds: a value committed with a positive error left the output unsaturated at a higher
temperature, and one committed without does not exceed the last. For the low band
`ActivationIsEarned`: the code's own time at the threshold is the history's.

**Readings** (`FreshnessProofs`): `RowsSpanOneSweep`, whose invariant says which sweep each
processor's baseline is from before and after the sweeper has passed it;
`InputsAreOfThisTick`; `UnflaggedDataIsFresh`; `ReportedWindowsAreTrue`, where as long as a
window is trusted a counter differs from its baseline by the true gain and at most one
wrap; `SoundWorkerIsSpared`, where the age of a sound worker's file is at most the time
of the ticks begun since its publication.

**Records** (`RecordsProofs`), under every fault: `RunningManifestIsCovered` of the log alone
and beside an analyzer, `EndedRunsAreComplete` and `OneRunPerSession`. The invariant says
that the archive of the open chunk never holds more rows than were counted, that a
chunk is settled (nothing but what a good stream has written already will reach its
archive) once its final manifest is there, and that no manifest or run speaks of a
chunk to come. For the event log `OldReportsAreCleared`: wherever in an append a process
is that has probed and has nothing left to clear, a failure on record is a later one.
And `EventsAreKept` (`AcknowledgedEventsAreKept`): a rotation's target stays a free name
until the rename, because only the process that chose it makes archives of that
log. That is the hypothesis `OneRotator`. The code has it where the worker mutex is
held, by the control loop and the read loop, and an evidence run writes a log of its
own; two evidence runs at once would be two rotators, and they can replace each
other's archive when they rotate within one second.

**Only model-checked**: liveness (`StopEndsTheProcess`, `AbandonedFanIsReleased`,
`StopEndsTheRuntime`, `CommittedSwitchEnds`, `SafeModeReachesFull`,
`CoolingReachesDemand`, `LowBandIsReleased`, `SilentWorkerIsReplaced`), which the prover does
not do. Every safety property of a passing run is the conclusion of a theorem.

**Hypotheses.** Beside the `ASSUME`s of the modules four theorems or groups of them have
one: `Trustworthy` in `CustodyProofs`; `"read" \notin Faults` for the missing record;
`[]NoStaleLaunch`, or one operator, for the end of the runtime; `OneRotator` for the events.
Each is met by the instance of the run that checks the property, and each is needed:
without it the property is false of the code, as said above.

## 5. Not modelled

- Reports of the analyzer, layouts of evidence and status files, banners, argument
  syntax, printing of configurations: queries and texts without state of their own.
- Decoding of registers, drivers and vendor libraries: readings enter as values or
  failures.
- Power anticipation (`src/control/power_anticipation.h`): nothing in the runtime calls it.
  The shadow evaluation of the PID law, which reaches no output. Fitting of the plant model in a calibration.
- A channel with a timed hold in `ChannelEvaluator` (holds are in `FanControl`), and the
  low-band contribution to its demand.
- Processes that reconcile the sidecar beside a live worker (write-once, calibration and
  evidence runs take no worker mutex). With one of them every custody property fails at
  once, so there is nothing left to claim; the hazard is listed without a property, and
  `docs/archive/discovery-loop-targets-value-ranked-2026-06-14.md` (line 48) names it too.
- Two processes that rotate one event log in the same second, and two analyzers on one
  database.
- Wall-clock bounds of the supervisor appear as choices. In particular, that a worker
  which fails after more than 1.5 s of startup was already promoted to last known good
  is not visible, since a surviving worker is by definition one that survived the
  window.
- An output whose mode byte has bits in its low half. The driver keeps them when it selects
  manual mode (`fan_sio.cpp:857`) and on a restore replaces only a byte of 0
  (`fan_sio.cpp:893` and `926`), as `channel_evaluator.cpp:92` takes only 0 for manual.
  `Restored` rests on those bits being 0: a baseline recorded in manual mode with another
  byte would be restored to manual, and `CleanShutdownReleases` and
  `SuccessMeansReleased` say nothing of such a board.
- A sidecar whose existence cannot be asked for (`pending_writes.cpp:51`): it reads as no
  records, without an exception and without a quarantine.
- The removal of a record by write-once after a refusal by the policy
  (`write_orchestrator.cpp:200-209`): the checks before it have asked the same policy.
- A board set to manual operation before the first start: it gets SmartFan mode 0x40 back
  from the driver, by design. The initial state has the outputs under the board's
  control.
- An exception that leaves the loop (a status file that cannot be written, an event that
  cannot be serialised) ends the process without the shutdown restores; it is one more
  cause of `Crash`.
- The simulated fan writer, probes, load generators, log viewers and the registration of
  scheduled tasks.

`PROJECT.json` lists each component with its status and each hazard with the properties
that cover it or the reason none does.

## 6. Plan

1. `Configuration` and `Heartbeat` on `WorkerLifecycle`, so that all models with a worker
   rest on one interface.
2. The composition of `ChannelEvaluator`, `PidLaw` and `LowBand` with `FanControl`: its
   setpoints as their evaluations, timed holds included.
3. Proofs: that `FanControl`'s guards admit what `ChannelEvaluator` produces; an invariant
   that bounds what a stale launch can do with two operators.
4. `OneShot` and `FanControl` on one sidecar, should the modes come to take the worker's
   mutex.
