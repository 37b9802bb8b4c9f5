------------------------------ MODULE FanControl ------------------------------
(***************************************************************************)
(* The control-loop worker process: startup reconciliation of the          *)
(* pending-writes sidecar, the per-tick channel pipeline, and the shutdown *)
(* restore, with the worker dying between any two steps and starting again.*)
(*                                                                         *)
(* phase is the worker's program counter and cur the channel it has        *)
(* reached.  Every hardware write and every file replacement is a step of  *)
(* its own, so that a crash can separate them; what happens in memory      *)
(* between two of them is folded into the step it follows.                 *)
(*                                                                         *)
(* The control law is an input here: a channel's evaluation is any         *)
(* setpoint, safety flag and elapsed times the evaluator could return.     *)
(***************************************************************************)
EXTENDS PendingWrites

CONSTANTS
  Deadband,            \* effective_deadband_pct
  AuthorityTolerance,  \* kAuthorityDutyTolerancePct
  FailureLimit,        \* ChannelState::kMaxConsecutiveFailures
  Timed,               \* channels with a non-zero control_hold_ms
  Shadow               \* channels whose control law suppresses its writes

ASSUME ControlAssumption ==
  /\ Deadband \in Nat
  /\ AuthorityTolerance \in Nat
  /\ FailureLimit \in Nat \ {0}
  /\ Timed \subseteq Channel
  /\ Shadow \subseteq Channel

VARIABLES
  phase,        \* program counter of the worker
  cur,          \* channel being processed
  exit,         \* how the last worker process ended
  stop,         \* a stop request or profile-cycle request is on file
  seen,         \* the tick's snapshot of the fans (Absent once consumed)
  baseline,     \* ChannelState::baseline_*_raw, Absent until captured
  active,       \* ChannelState::write_active
  issued,       \* ChannelState::last_issued_pct, Absent for NaN
  failures,     \* consecutive_write_failures, saturating at FailureLimit
  breaker,      \* circuit_breaker_open
  unsaved,      \* consecutive_sidecar_persist_failures > 0
  target,       \* setpoint between the sidecar update and the duty write
  fatal,        \* ControlLoopRunState::fatal_restore_timeout
  failed,       \* any_failure of reconciliation, restore_failure of shutdown
  queued        \* shutdown has queued at least one sidecar removal

channelVars == <<baseline, active, issued, failures, breaker, unsaved>>
runVars     == <<seen, target, fatal, failed, queued>>
vars == <<fan, storeVars, phase, cur, exit, stop, channelVars, runVars>>

Reconciling == {"reconcile", "reconcileFlush"}
Ticking     == {"idle", "hold", "decide", "apply", "flush"}
Stopping    == {"shutdown", "shutdownFlush"}
Phases      == {"down", "boot"} \cup Reconciling \cup Ticking \cup Stopping

TypeOK ==
  /\ HardwareTypeOK
  /\ StoreTypeOK
  /\ phase \in Phases
  /\ cur \in Channel
  /\ exit \in {"none", "clean", "failed", "crashed"}
  /\ stop \in BOOLEAN
  /\ seen \in Records
  /\ baseline \in Records
  /\ active \in [Channel -> BOOLEAN]
  /\ issued \in [Channel -> Pct \cup {Absent}]
  /\ failures \in [Channel -> 0 .. FailureLimit]
  /\ breaker \in [Channel -> BOOLEAN]
  /\ unsaved \in [Channel -> BOOLEAN]
  /\ target \in Pct
  /\ fatal \in BOOLEAN
  /\ failed \in BOOLEAN
  /\ queued \in BOOLEAN

Never == [c \in Channel |-> FALSE]

\* The ChannelState and run state of a process that has not started its loop.
FreshProcess ==
  /\ baseline' = NoRecords
  /\ active' = Never
  /\ issued' = NoRecords
  /\ failures' = [c \in Channel |-> 0]
  /\ breaker' = Never
  /\ unsaved' = Never
  /\ seen' = NoRecords
  /\ target' = 0
  /\ fatal' = FALSE
  /\ failed' = FALSE
  /\ queued' = FALSE

Init ==
  /\ HardwareInit
  /\ StoreInit
  /\ phase = "down"
  /\ cur = 1
  /\ exit = "none"
  /\ stop = FALSE
  /\ seen = NoRecords
  /\ baseline = NoRecords
  /\ active = Never
  /\ issued = NoRecords
  /\ failures = [c \in Channel |-> 0]
  /\ breaker = Never
  /\ unsaved = Never
  /\ target = 0
  /\ fatal = FALSE
  /\ failed = FALSE
  /\ queued = FALSE

\* The worker process ends; nothing of its memory survives.
Ends(how) ==
  /\ phase' = "down"
  /\ cur' = 1
  /\ exit' = how
  /\ FreshProcess
  /\ Unloaded

Goto(p) == phase' = p /\ UNCHANGED cur

\* On to the next channel at phase first, or to phase last after the final one.
NextChannel(first, last) ==
  IF cur = NumChannels
    THEN phase' = last /\ cur' = 1
    ELSE phase' = first /\ cur' = cur + 1

-----------------------------------------------------------------------------
(* Startup: app_main and ReconcilePendingWrites.                           *)

\* The sidecar is read; with no entries the loop is entered directly.
Start ==
  /\ phase = "down"
  /\ \/ /\ ReadSucceeds
        /\ sidecar # NoRecords
        /\ Adopt(sidecar)
        /\ phase' = "reconcile"
        /\ UNCHANGED fileVars
     \/ /\ ReadSucceeds
        /\ sidecar = NoRecords
        /\ phase' = "boot"
        /\ UNCHANGED storeVars
     \/ /\ Quarantine
        /\ phase' = "boot"
        /\ UNCHANGED cacheVars
  /\ UNCHANGED <<fan, cur, exit, stop, channelVars, runVars>>

\* The fan writer reconciliation needs cannot be created: the process exits 1.
StartRefused ==
  /\ phase = "down"
  /\ "init" \in Faults
  /\ ReadSucceeds
  /\ sidecar # NoRecords
  /\ exit' = "failed"
  /\ UNCHANGED <<fan, storeVars, phase, cur, stop, channelVars, runVars>>

\* Nothing to restore on the current channel.
ReconcileSkip ==
  /\ phase = "reconcile"
  /\ entries[cur] = Absent
  /\ NextChannel("reconcile", "reconcileFlush")
  /\ UNCHANGED <<fan, storeVars, exit, stop, channelVars, runVars>>

ReconcileRestore ==
  /\ phase = "reconcile"
  /\ entries[cur] # Absent
  /\ RestoreDone(cur, entries[cur])
  /\ QueueRemove(cur)
  /\ NextChannel("reconcile", "reconcileFlush")
  /\ UNCHANGED <<exit, stop, channelVars, runVars>>

ReconcileRestoreFails ==
  /\ phase = "reconcile"
  /\ entries[cur] # Absent
  /\ RestoreFailed(cur, entries[cur])
  /\ failed' = TRUE
  /\ NextChannel("reconcile", "reconcileFlush")
  /\ UNCHANGED <<storeVars, exit, stop, channelVars, seen, target, fatal, queued>>

\* Mutant: the loop is entered after a failed restore too.
ReconcileFlushAnyway ==
  /\ phase = "reconcileFlush"
  /\ FlushPersists \/ FlushIdle
  /\ Unloaded
  /\ failed' = FALSE
  /\ Goto("boot")
  /\ UNCHANGED <<fan, stop, exit, channelVars, seen, target, fatal, queued>>

\* Only a reconciliation without any failure lets the process proceed.
ReconcileFlush ==
  /\ phase = "reconcileFlush"
  /\ UNCHANGED <<fan, stop>>
  /\ \/ /\ ~failed
        /\ FlushPersists
        /\ Unloaded
        /\ Goto("boot")
        /\ UNCHANGED <<exit, channelVars, runVars>>
     \/ /\ failed
        /\ FlushPersists \/ FlushIdle
        /\ Ends("failed")
     \/ FlushThrows /\ Ends("failed")

\* ControlLoop::RunUntilStopped up to its loop: a stop request on file is cleared
\* (a profile-cycle request is not), the fan writer is created, the sidecar cache
\* is loaded.
Boot ==
  /\ phase = "boot"
  /\ stop' \in {stop, FALSE}
  /\ \/ ReadSucceeds /\ Adopt(sidecar)
     \/ ReadThrows /\ Unloaded
  /\ Goto("idle")
  /\ UNCHANGED <<fan, fileVars, exit, channelVars, runVars>>

BootFails ==
  /\ phase = "boot"
  /\ "init" \in Faults
  /\ stop' \in {stop, FALSE}
  /\ Ends("failed")
  /\ UNCHANGED <<fan, fileVars>>

-----------------------------------------------------------------------------
(* One tick: RunControlTick.                                               *)

\* Mutant: the loop condition does not look at the stop request.
BeginTickRegardless ==
  /\ phase = "idle"
  /\ seen' \in ScanResults
  /\ Goto("hold")
  /\ UNCHANGED <<fan, storeVars, exit, stop, channelVars, target, fatal, failed, queued>>

\* The snapshot is taken, and an operator's breaker reset request, for one
\* channel or for all, is taken off the file and applied.
BeginTick ==
  /\ phase = "idle"
  /\ ~stop
  /\ seen' \in ScanResults
  /\ \E reset \in {{}, Channel} \cup {{c} : c \in Channel} :
       /\ breaker' = [c \in Channel |-> breaker[c] /\ c \notin reset]
       /\ failures' = [c \in Channel |-> IF c \in reset THEN 0 ELSE failures[c]]
  /\ Goto("hold")
  /\ UNCHANGED <<fan, storeVars, exit, stop, baseline, active, issued, unsaved,
                 target, fatal, failed, queued>>

\* HandleExpiredHoldRestore has something to do once the deadline has passed.
HoldMayExpire(c) == active[c] /\ c \in Timed /\ baseline[c] # Absent

\* CaptureChannelBaselineIfAvailable; no hold expires on this channel.
CaptureBaseline ==
  /\ phase = "hold"
  /\ IF baseline[cur] = Absent /\ seen[cur] # Absent
       THEN /\ baseline' = [baseline EXCEPT ![cur] = seen[cur]]
            /\ issued' = [issued EXCEPT ![cur] = PctOf(seen[cur])]
       ELSE UNCHANGED <<baseline, issued>>
  /\ Goto("decide")
  /\ UNCHANGED <<fan, storeVars, exit, stop, active, failures, breaker, unsaved,
                 runVars>>

HoldRestore ==
  /\ phase = "hold"
  /\ HoldMayExpire(cur)
  /\ RestoreDone(cur, baseline[cur])
  /\ active' = [active EXCEPT ![cur] = FALSE]
  /\ issued' = [issued EXCEPT ![cur] = Absent]
  /\ QueueRemove(cur) \/ QueueRemoveThrows
  /\ Goto("decide")
  /\ UNCHANGED <<exit, stop, baseline, failures, breaker, unsaved, runVars>>

\* A restore that times out is fatal and ends the channel pass; any other
\* failure leaves the channel active, to be tried again on the next tick.
HoldRestoreFails ==
  /\ phase = "hold"
  /\ HoldMayExpire(cur)
  /\ RestoreFailed(cur, baseline[cur])
  /\ \/ fatal' = TRUE /\ phase' = "flush" /\ cur' = 1
     \/ UNCHANGED fatal /\ Goto("decide")
  /\ UNCHANGED <<storeVars, exit, stop, channelVars, seen, target, failed, queued>>

Evaluations ==
  [setpoint : Pct \cup {Absent},
   safety   : BOOLEAN,     \* safety_override
   cooled   : BOOLEAN,     \* the write cooldown has elapsed
   probe    : BOOLEAN]     \* kBreakerProbeBackoff has elapsed

Distance(p, q) == IF p < q THEN q - p ELSE p - q

\* FanNeedsAuthorityReassert, which only a continuous hold asks.
AuthorityReassert(c) ==
  /\ c \notin Timed
  /\ seen[c] # Absent
  /\ issued[c] # Absent
  /\ \/ seen[c] \notin Pct
     \/ /\ Distance(seen[c], issued[c]) > AuthorityTolerance
        /\ Distance(seen[c], issued[c]) > Deadband

\* The half-open probe of an open breaker.
ProbeAllowed(c, e) ==
  /\ issued[c] # Absent => e.setpoint > issued[c]
  /\ e.probe

\* The gates of TryApplyChannelSetpoint, in their order.
WriteDue(c, e) ==
  /\ e.setpoint # Absent
  /\ c \notin Shadow
  /\ \/ issued[c] = Absent
     \/ AuthorityReassert(c)
     \/ Distance(e.setpoint, issued[c]) >= Deadband
  /\ issued[c] # Absent => e.cooled
  /\ baseline[c] # Absent
  /\ seen[c] # Absent => c \in Writable
  /\ breaker[c] => e.safety \/ ProbeAllowed(c, e)

SkipWrite ==
  /\ phase = "decide"
  /\ \E e \in Evaluations : ~WriteDue(cur, e)
  /\ NextChannel("hold", "flush")
  /\ seen' = [seen EXCEPT ![cur] = Absent]
  /\ UNCHANGED <<fan, storeVars, exit, stop, channelVars, target, fatal, failed, queued>>

\* The sidecar is updated before the hardware; a failure to persist is counted
\* and never vetoes the write.
RecordWrite ==
  /\ phase = "decide"
  /\ \E e \in Evaluations :
       /\ WriteDue(cur, e)
       /\ target' = e.setpoint
  /\ \/ /\ UpsertPersisted(cur, baseline[cur])
        /\ unsaved' = [unsaved EXCEPT ![cur] = FALSE]
     \/ /\ UpsertDeferred(cur, baseline[cur])
        /\ UNCHANGED unsaved
     \/ /\ UpsertThrows(cur, baseline[cur])
        /\ unsaved' = [unsaved EXCEPT ![cur] = TRUE]
  /\ seen' = [seen EXCEPT ![cur] = Absent]
  /\ Goto("apply")
  /\ UNCHANGED <<fan, exit, stop, baseline, active, issued, failures, breaker,
                 fatal, failed, queued>>

\* ApplyDuty succeeds: NoteSuccessfulChannelWrite and the post-write state.
ApplyWrite ==
  /\ phase = "apply"
  /\ Applied(cur, target)
  /\ active' = [active EXCEPT ![cur] = TRUE]
  /\ issued' = [issued EXCEPT ![cur] = target]
  /\ failures' = [failures EXCEPT ![cur] = 0]
  /\ breaker' = [breaker EXCEPT ![cur] = FALSE]
  /\ target' = 0
  /\ NextChannel("hold", "flush")
  /\ UNCHANGED <<storeVars, exit, stop, baseline, unsaved, seen, fatal, failed, queued>>

\* HandleChannelWriteFailure: one more failure, and the breaker at the limit.
CountFailure(c) ==
  /\ failures' = [failures EXCEPT ![c] = IF @ < FailureLimit THEN @ + 1 ELSE @]
  /\ breaker' = [breaker EXCEPT ![c] = @ \/ failures[c] + 1 >= FailureLimit]

ApplyWriteFails ==
  /\ phase = "apply"
  /\ \/ ApplyFailed(cur) /\ UNCHANGED storeVars
     \/ ApplyRefused(cur) /\ (QueueRemove(cur) \/ QueueRemoveThrows)
  /\ CountFailure(cur)
  /\ target' = 0
  /\ NextChannel("hold", "flush")
  /\ UNCHANGED <<exit, stop, baseline, active, issued, unsaved, seen, fatal,
                 failed, queued>>

\* Mutant: a flush that had nothing to write also clears the persist failures.
FlushTickForgives ==
  /\ phase = "flush"
  /\ \/ FlushPersists /\ Adopt(entries) /\ unsaved' = Never
     \/ FlushIdle /\ unsaved' = Never /\ UNCHANGED cacheVars
     \/ FlushThrows /\ UNCHANGED <<unsaved, cacheVars>>
  /\ phase' = IF fatal THEN "shutdown" ELSE "idle"
  /\ seen' = NoRecords
  /\ UNCHANGED <<fan, cur, exit, stop, baseline, active, issued, failures,
                 breaker, target, fatal, failed, queued>>

\* FlushAndClearPersistFailures, then the next tick or, after a fatal restore
\* timeout, the shutdown.
FlushTick ==
  /\ phase = "flush"
  /\ \/ FlushPersists /\ Adopt(entries) /\ unsaved' = Never
     \/ (FlushIdle \/ FlushThrows) /\ UNCHANGED <<unsaved, cacheVars>>
  /\ phase' = IF fatal THEN "shutdown" ELSE "idle"
  /\ seen' = NoRecords
  /\ UNCHANGED <<fan, cur, exit, stop, baseline, active, issued, failures,
                 breaker, target, fatal, failed, queued>>

-----------------------------------------------------------------------------
(* Shutdown: the end of ControlLoop::RunUntilStopped.                      *)

BeginShutdown ==
  /\ phase = "idle"
  /\ stop
  /\ Goto("shutdown")
  /\ UNCHANGED <<fan, storeVars, exit, stop, channelVars, runVars>>

DropRecord(c) ==
  \/ QueueRemove(c) /\ queued' = TRUE /\ UNCHANGED failed
  \/ QueueRemoveThrows /\ failed' = TRUE /\ UNCHANGED queued

\* The record of a channel that is not active is dropped without a restore.
ShutdownInactive ==
  /\ phase = "shutdown"
  /\ ~active[cur]
  /\ DropRecord(cur)
  /\ NextChannel("shutdown", "shutdownFlush")
  /\ UNCHANGED <<fan, exit, stop, channelVars, seen, target, fatal>>

ShutdownRestore ==
  /\ phase = "shutdown"
  /\ active[cur] /\ ~fatal
  /\ RestoreDone(cur, baseline[cur])
  /\ DropRecord(cur)
  /\ NextChannel("shutdown", "shutdownFlush")
  /\ UNCHANGED <<exit, stop, channelVars, seen, target, fatal>>

\* Mutant: the record goes although the restore failed.
ShutdownForgets ==
  /\ phase = "shutdown"
  /\ active[cur] /\ ~fatal
  /\ RestoreFailed(cur, baseline[cur])
  /\ QueueRemove(cur) /\ queued' = TRUE
  /\ failed' = TRUE
  /\ NextChannel("shutdown", "shutdownFlush")
  /\ UNCHANGED <<exit, stop, channelVars, seen, target, fatal>>

\* Mutant: a failed restore does not reach the exit status.
ShutdownHidesFailure ==
  /\ phase = "shutdown"
  /\ active[cur] /\ ~fatal
  /\ RestoreFailed(cur, baseline[cur])
  /\ NextChannel("shutdown", "shutdownFlush")
  /\ UNCHANGED <<storeVars, exit, stop, channelVars, runVars>>

\* Mutant: a restore that is skipped counts as no failure.
ShutdownSkips ==
  /\ phase = "shutdown"
  /\ active[cur]
  /\ \/ fatal /\ UNCHANGED <<fan, failed>>
     \/ ~fatal /\ RestoreFailed(cur, baseline[cur]) /\ failed' = TRUE
  /\ NextChannel("shutdown", "shutdownFlush")
  /\ UNCHANGED <<storeVars, exit, stop, channelVars, seen, target, fatal, queued>>

\* The restore fails, or is skipped after an earlier restore timeout.
ShutdownKeepsRecord ==
  /\ phase = "shutdown"
  /\ active[cur]
  /\ \/ fatal /\ UNCHANGED fan
     \/ ~fatal /\ RestoreFailed(cur, baseline[cur])
  /\ failed' = TRUE
  /\ NextChannel("shutdown", "shutdownFlush")
  /\ UNCHANGED <<storeVars, exit, stop, channelVars, seen, target, fatal, queued>>

\* The removals are flushed, if any was queued, and the process exits.
ShutdownFlush ==
  /\ phase = "shutdownFlush"
  /\ \/ /\ IF queued THEN FlushPersists \/ FlushIdle ELSE UNCHANGED fileVars
        /\ Ends(IF failed THEN "failed" ELSE "clean")
     \/ /\ queued
        /\ FlushThrows
        /\ Ends("failed")
  /\ UNCHANGED <<fan, stop>>

-----------------------------------------------------------------------------
(* The environment.                                                        *)

Crash ==
  /\ "crash" \in Faults
  /\ phase # "down"
  /\ Ends("crashed")
  /\ UNCHANGED <<fan, fileVars, stop>>

RequestStop ==
  /\ ~stop
  /\ stop' = TRUE
  /\ UNCHANGED <<fan, storeVars, phase, cur, exit, channelVars, runVars>>

FirmwareTakesOver ==
  /\ \E c \in Channel : TakeOver(c)
  /\ UNCHANGED <<storeVars, phase, cur, exit, stop, channelVars, runVars>>

SidecarDamaged ==
  /\ phase = "down"
  /\ DamageSidecar
  /\ UNCHANGED <<fan, phase, cur, exit, stop, channelVars, runVars>>

-----------------------------------------------------------------------------
Startup ==
  \/ Start \/ StartRefused
  \/ ReconcileSkip \/ ReconcileRestore \/ ReconcileRestoreFails \/ ReconcileFlush
  \/ Boot \/ BootFails

Tick ==
  \/ BeginTick
  \/ CaptureBaseline \/ HoldRestore \/ HoldRestoreFails
  \/ SkipWrite \/ RecordWrite
  \/ ApplyWrite \/ ApplyWriteFails
  \/ FlushTick

Shutdown ==
  \/ BeginShutdown
  \/ ShutdownInactive \/ ShutdownRestore \/ ShutdownKeepsRecord
  \/ ShutdownFlush

Worker == Startup \/ Tick \/ Shutdown

Environment == Crash \/ RequestStop \/ FirmwareTakesOver \/ SidecarDamaged

Next == Worker \/ Environment

Spec == Init /\ [][Next]_vars

\* The worker keeps running, something starts it again when it is down, and a
\* restore or a writer creation that is tried again and again succeeds in the end.
Fairness ==
  /\ WF_vars(Worker)
  /\ SF_vars(Start)
  /\ \A c \in Channel : SF_vars(ReconcileRestore /\ cur = c)

FairSpec == Spec /\ Fairness


-----------------------------------------------------------------------------
(* Properties.                                                             *)

\* A fan in manual mode always has, on disk, the record of the board mode it was
\* taken from, and no fan ever ends in the substitute SmartFan mode, which is
\* where a baseline captured from an already driven fan would lead: the sidecar
\* update before every duty write, the removal only after a restore, and the
\* refusal to start with an unrestored record, together, across crashes.
HeldFanIsRecorded ==
  \A c \in Channel :
    /\ Manual(c) => sidecar[c] = Firmware
    /\ fan[c] # Fallback

\* Exit status 0 with "channels restored" means what it says: every fan is back
\* under the board's control and the sidecar names none.
CleanExitRestores ==
  phase = "down" /\ exit = "clean" =>
    /\ \A c \in Channel : ~Manual(c)
    /\ sidecar = NoRecords

\* Whatever fails, a shutdown that is about to report success has released every
\* fan it was driving, and a success leaves no record for the next process.
CleanShutdownReleases ==
  /\ phase = "shutdownFlush" /\ ~failed => \A c \in Channel : active[c] => ~Manual(c)
  /\ phase = "down" /\ exit = "clean" => sidecar = NoRecords

\* Failed restores remain on disk and block further startup: no worker gets as
\* far as its loop, let alone captures a baseline, while a record is unrestored.
LoopStartsWithCleanSidecar ==
  phase = "boot" => sidecar = NoRecords

\* No write of the sidecar erases the record of a fan that is still held.
RecordErasedOnlyWhenReleased ==
  [][\A c \in Channel :
       sidecar[c] # Absent /\ sidecar'[c] = Absent => ~Manual(c)]_vars

\* The circuit breaker of a channel is open exactly when its consecutive-failure
\* count has reached the limit: a success, an operator reset and a restart never
\* leave one of the two behind.
BreakerTracksFailures ==
  \A c \in Channel : breaker[c] <=> failures[c] = FailureLimit

\* While the loop runs, a channel the worker has written has its own captured
\* baseline on disk, or its persist-failure counter is non-zero and degrades the
\* runtime health: a missing recovery record is never silent.
MissingRecordIsFlagged ==
  phase \in Ticking =>
    \A c \in Channel : active[c] => sidecar[c] = baseline[c] \/ unsaved[c]

\* When the cache is clean, every record on disk is also in the cache: a removal
\* that never reached the disk is always still pending.
CleanCacheCoversDisk ==
  loaded /\ ~dirty => \A c \in Channel : sidecar[c] # Absent => entries[c] # Absent

\* A stop request seen by a running loop ends the process, whatever duty
\* writes, restores and replacements of the sidecar fail on the way.
StopEndsTheProcess ==
  stop /\ phase \in Ticking ~> phase = "down"

\* Once processes stop dying, a fan left in manual mode by one that ended is given
\* back to the board, however often restores fail before one succeeds.
AbandonedFanIsReleased ==
  <>[][~Crash]_vars =>
    \A c \in Channel : phase = "down" /\ Manual(c) ~> ~Manual(c)

\* The write path implements the write-ahead custody protocol.
Custody == INSTANCE WriteAheadCustody WITH
  Fan      <- Channel,
  taken    <- {c \in Channel : Manual(c)},
  recorded <- {c \in Channel : sidecar[c] # Absent}

CustodySpec == Custody!Spec

\* The worker as the holder of its process handle sees it.
Life ==
  IF phase = "down"
    THEN IF exit = "none" THEN "gone" ELSE IF exit = "clean" THEN "exit0" ELSE "exit1"
  ELSE IF phase \in {"boot"} \cup Reconciling THEN "starting"
  ELSE IF fatal THEN "aborting"
  ELSE IF phase \in Ticking THEN "running" ELSE "stopping"

\* Whatever fails, the worker exits with success only after a request, and never
\* after a restore timeout has ended its loop.
Lifecycle == INSTANCE WorkerLifecycle WITH
  Process <- {"worker"},
  life    <- [w \in {"worker"} |-> Life],
  asked   <- stop

LifecycleSpec == Lifecycle!Spec
=============================================================================
