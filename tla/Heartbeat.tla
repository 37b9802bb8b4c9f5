------------------------------- MODULE Heartbeat -------------------------------
(***************************************************************************)
(* How a worker's silence is noticed.  The control loop paces its ticks    *)
(* (control/cadence_score.cpp, control_scheduler.cpp) and publishes         *)
(* control_runtime.json every few of them (control/tick_runner.cpp,         *)
(* runtime/runtime_status.cpp).  The watchdog task                          *)
(* (platform/task_runner.cpp) asks --health (runtime/runtime_health.cpp)    *)
(* what to make of the file, and restarts what looks stale or stopped.     *)
(*                                                                         *)
(* Time passes in units, also between the steps of the watchdog.  A restart *)
(* is one step here: Supervisor has the commands and the supervisor.  A     *)
(* process identifier is the one of the worker there is, or another.  What *)
(* is in the memory of a worker outside its loop, and the age of a file     *)
(* whose worker is gone, decide nothing and have one value.                *)
(***************************************************************************)
EXTENDS Integers, FiniteSetsExt

CONSTANTS
  Poll, Floor,    \* poll_tick_ms, poll_tick_floor_ms
  Relax,          \* cadence_relax_per_s
  StatusEvery,    \* kStatusUpdateIntervalTicks
  StaleAfter,     \* the health command's stale_after_ms
  MaxWork,        \* what the work of a tick may take
  HbFaults        \* see HbFaultKinds

HbFaultKinds ==
  { "hang",     \* the worker stops making progress
    "crash",    \* it dies
    "refuse",   \* it fails its startup
    "publish",  \* the status file cannot be replaced
    "damage",   \* the status file or the sidecar cannot be read
    "clock" }   \* the wall clock is set

ASSUME HeartbeatAssumption ==
  /\ {Poll, Floor, Relax, StatusEvery} \subseteq Nat \ {0}
  /\ {MaxWork, StaleAfter} \subseteq Nat
  /\ Floor <= Poll
  /\ HbFaults \subseteq HbFaultKinds
  \* What the shipped values keep; no loader checks it.
  /\ StatusEvery * Max({Poll, MaxWork}) + MaxWork <= StaleAfter

VARIABLES
  loop,       \* the worker: where it is
  tickMod,    \* tick_count modulo StatusEvery
  force,      \* force_status_write
  pace,       \* effective_ms
  elapsed,    \* since the tick under way started
  work,       \* what is left of its work
  doc,        \* control_runtime.json
  docAge,     \* how old its timestamp looks
  sidecarBad, \* the pending-writes sidecar cannot be read
  stopFile,   \* stop.request.json is there
  dog,        \* the watchdog task
  seen,       \* the status file it has read
  sound,      \* the worker has kept its schedule since the file was read (history)
  lapsed,     \* since the last publication one failed or the clock was set (history)
  clockSet    \* bound: the clock is set once

loopVars  == <<loop, tickMod, force, pace, elapsed, work>>
fileVars  == <<doc, docAge, sidecarBad, stopFile>>
dogVars   == <<dog, seen>>
heartVars == <<loopVars, fileVars, dogVars, sound, lapsed, clockSet>>

Docs ==
  [state   : {"absent", "unreadable", "running", "shutdown", "failed"},
   own     : BOOLEAN,     \* process_id is the worker's
   stamped : BOOLEAN,     \* the last update can be parsed
   stale   : BOOLEAN]     \* the read loop's flag

Doc(state) == [state |-> state, own |-> TRUE, stamped |-> TRUE, stale |-> FALSE]

\* The identifier is none of a living process.
Stray(d) == [d EXCEPT !.own = FALSE]

Bound(n) == 0 .. n

HeartTypeOK ==
  /\ loop \in {"none", "starting", "waiting", "working", "hung", "ending"}
  /\ tickMod \in 0 .. StatusEvery - 1
  /\ pace \in Floor .. Poll
  /\ elapsed \in Bound(Max({Poll, MaxWork}))
  /\ work \in Bound(MaxWork)
  /\ docAge \in Bound(StaleAfter + 1)
  /\ {doc, seen} \subseteq Docs
  /\ {force, sidecarBad, stopFile, sound, lapsed, clockSet} \subseteq BOOLEAN
  /\ dog \in {"idle", "probing", "restarting"}

\* What an earlier runtime of any mode has left.
LeftBehind == {d \in Docs : ~d.own /\ (d.state # "running" => d = Stray(Doc(d.state)))}

HeartInit ==
  /\ loop = "none" /\ tickMod = 0 /\ force = FALSE
  /\ pace = Poll /\ elapsed = 0 /\ work = 0
  /\ doc \in LeftBehind /\ docAge = StaleAfter + 1
  /\ sidecarBad = FALSE /\ stopFile \in BOOLEAN
  /\ dog = "idle" /\ seen = Stray(Doc("absent"))
  /\ sound = FALSE /\ lapsed = FALSE /\ clockSet = FALSE

-----------------------------------------------------------------------------
(* The worker.                                                             *)

InLoop == {"waiting", "working"}

Lesser(a, b) == IF a < b THEN a ELSE b

\* Mutant: a transient stretches the interval.
IntervalStretched(transient) == Poll + transient * (Poll - Floor)

\* The interval a transient of 0 or 1 asks for.
Interval(transient) == Poll - transient * (Poll - Floor)

\* ComputeCadence: tighter at once, relaxed at a rate.  Floor = Poll turns it off.
Paced(target, dt) ==
  IF target <= pace THEN target ELSE Lesser(target, pace + Relax * dt)

\* WriteControlLoopStatus, stamped age units ago, replaces the file or does not.
PublishStatus(state, age, ok) ==
  IF ok THEN /\ doc' = Doc(state) /\ docAge' = age /\ lapsed' = FALSE
        ELSE /\ lapsed' = TRUE /\ UNCHANGED <<doc, docAge>>

Published == {TRUE} \cup {ok \in {FALSE} : "publish" \in HbFaults}

\* No process has the identifier in the file, which is as it was or in a state that
\* the worker wrote last, nor the one that the watchdog has read.
Orphan(state) ==
  /\ doc' = IF state = "as it was" THEN Stray(doc) ELSE Stray(Doc(state))
  /\ docAge' = StaleAfter + 1
  /\ seen' = Stray(seen)

OutOfLoop ==
  /\ tickMod' = 0 /\ force' = FALSE /\ pace' = Poll /\ elapsed' = 0 /\ work' = 0
  /\ lapsed' = FALSE

\* The operator, the supervisor or a scheduled task starts a worker.
Launch ==
  /\ loop = "none"
  /\ loop' = "starting"
  /\ UNCHANGED <<tickMod, force, pace, elapsed, work, fileVars, dogVars, lapsed, clockSet>>

\* The sidecar is reconciled, or set aside; the stop request is cleared; the first
\* status is published, and the first tick is due.
ComeUp ==
  /\ loop = "starting"
  /\ loop' = "waiting" /\ elapsed' = Poll /\ pace' = Poll /\ tickMod' = 0 /\ force' = FALSE
  /\ \E ok \in Published : PublishStatus("running", 0, ok)
  /\ sidecarBad' = FALSE /\ stopFile' = FALSE
  /\ UNCHANGED <<work, dogVars, clockSet>>

\* A startup that fails says so when the fan writer is to blame, and only then.
Refuse ==
  /\ "refuse" \in HbFaults
  /\ loop = "starting"
  /\ loop' = "none"
  /\ Orphan("failed") \/ Orphan("as it was")
  /\ UNCHANGED <<tickMod, force, pace, elapsed, work, sidecarBad, stopFile, dog, lapsed,
                 clockSet>>

\* RunControlTick, up to the status.
BeginTick ==
  /\ loop = "waiting" /\ ~stopFile /\ elapsed >= pace
  /\ loop' = "working"
  /\ tickMod' = (tickMod + 1) % StatusEvery
  /\ \E transient \in {0, 1} : pace' = Paced(Interval(transient), elapsed)
  /\ elapsed' = 0
  /\ work' \in Bound(MaxWork)
  /\ UNCHANGED <<force, fileVars, dogVars, lapsed, clockSet>>

\* should_write_status, and the status is stamped with the start of the tick.
EndTick ==
  /\ loop = "working" /\ work = 0
  /\ loop' = "waiting"
  /\ IF force \/ tickMod = 0
       THEN \E ok \in Published : PublishStatus("running", elapsed, ok) /\ force' = ~ok
       ELSE UNCHANGED <<doc, docAge, force, lapsed>>
  /\ UNCHANGED <<tickMod, pace, elapsed, work, sidecarBad, stopFile, dogVars, clockSet>>

\* The stop request is seen, also in the slices of the wait.
StopLoop ==
  /\ loop = "waiting" /\ stopFile
  /\ loop' = "ending"
  /\ \E ok \in Published : doc' = IF ok THEN Doc("shutdown") ELSE doc
  /\ OutOfLoop
  /\ UNCHANGED <<docAge, sidecarBad, stopFile, dogVars, clockSet>>

EndWorker ==
  /\ loop = "ending" \/ ("crash" \in HbFaults /\ loop # "none")
  /\ loop' = "none"
  /\ Orphan("as it was") /\ OutOfLoop
  /\ UNCHANGED <<sidecarBad, stopFile, dog, clockSet>>

Hang ==
  /\ "hang" \in HbFaults
  /\ loop \notin {"none", "hung"}
  /\ loop' = "hung"
  /\ OutOfLoop
  /\ UNCHANGED <<fileVars, dogVars, clockSet>>

-----------------------------------------------------------------------------
(* Around it.                                                              *)

\* A tick ends when its work is done, and the next one begins when it is due.
Pass ==
  /\ loop = "working" => work > 0
  /\ loop = "waiting" => elapsed < pace
  /\ IF loop \in InLoop
       THEN elapsed' = Lesser(elapsed + 1, Max({Poll, MaxWork})) /\ work' = Max({work - 1, 0})
       ELSE UNCHANGED <<elapsed, work>>
  /\ docAge' = Lesser(docAge + 1, StaleAfter + 1)
  /\ UNCHANGED <<loop, tickMod, force, pace, doc, sidecarBad, stopFile, dogVars, lapsed,
                 clockSet>>

AskStop ==
  /\ stopFile' = TRUE
  /\ UNCHANGED <<loopVars, doc, docAge, sidecarBad, dogVars, lapsed, clockSet>>

Damage ==
  /\ "damage" \in HbFaults
  /\ \/ doc' = Stray(Doc("unreadable")) /\ docAge' = StaleAfter + 1 /\ UNCHANGED sidecarBad
     \/ sidecarBad' = TRUE /\ UNCHANGED <<doc, docAge>>
  /\ UNCHANGED <<loopVars, stopFile, dogVars, lapsed, clockSet>>

\* Set back, the timestamp lies ahead; set forward, or woken from sleep, it is old.
SetClock ==
  /\ "clock" \in HbFaults /\ ~clockSet
  /\ clockSet' = TRUE /\ lapsed' = (loop \in InLoop)
  /\ docAge' \in {0, StaleAfter + 1}
  /\ UNCHANGED <<loopVars, doc, sidecarBad, stopFile, dogVars>>

-----------------------------------------------------------------------------
(* The watchdog: --health, and what it does about the exit status.         *)

\* Mutant: a worker that is alive is not looked at again.
HealthOfLiving(d, troubled) ==
  IF d.state = "absent" THEN "stopped"
  ELSE IF d.state \in {"unreadable", "failed"} \/ sidecarBad THEN "failed"
  ELSE IF d.state = "shutdown" \/ ~d.own THEN "stopped"
  ELSE IF troubled THEN "degraded" ELSE "healthy"

\* AssessHealthState.  troubled: a degraded channel, a quarantined sidecar or a
\* failing event log.
Health(d, troubled) ==
  IF d.state = "absent" THEN "stopped"
  ELSE IF d.state \in {"unreadable", "failed"} \/ sidecarBad THEN "failed"
  ELSE IF d.state = "shutdown" \/ ~d.own THEN "stopped"
  ELSE IF d.stale \/ ~d.stamped \/ docAge > StaleAfter THEN "stale"
  ELSE IF stopFile \/ troubled THEN "degraded" ELSE "healthy"

\* RuntimeHealthExitCode.
ExitCode(health) ==
  CASE health = "healthy"              -> 0
    [] health = "degraded"             -> 1
    [] health \in {"stale", "stopped"} -> 2
    [] OTHER                           -> 3

\* ReadRuntimeStatus; then the process is looked up and the time is taken.
ProbeReads ==
  /\ dog = "idle"
  /\ dog' = "probing" /\ seen' = doc
  /\ UNCHANGED <<loopVars, fileVars, lapsed, clockSet>>

\* RunTaskRunner: only 2 is acted on.
ProbeJudges ==
  /\ dog = "probing"
  /\ \E troubled \in BOOLEAN :
       dog' = IF ExitCode(Health(seen, troubled)) = 2 THEN "restarting" ELSE "idle"
  /\ seen' = Stray(Doc("absent"))
  /\ UNCHANGED <<loopVars, fileVars, lapsed, clockSet>>

\* --restart: whatever there is ends, if need be by force, and a worker is started.
Restart ==
  /\ dog = "restarting"
  /\ dog' = "idle"
  /\ loop' = "starting"
  /\ Orphan("as it was") \/ (loop \in InLoop /\ Orphan("shutdown"))
  /\ OutOfLoop
  /\ stopFile' = FALSE
  /\ UNCHANGED <<sidecarBad, clockSet>>

\* The worker is in its loop and the file is its own and in order.
Sound == loop \in InLoop /\ doc.own /\ doc.state = "running" /\ ~lapsed

\* History.
Watched == sound' = ((sound \/ dog = "idle") /\ Sound')

HeartNext ==
  /\ \/ Launch \/ ComeUp \/ Refuse \/ BeginTick \/ EndTick \/ StopLoop \/ EndWorker \/ Hang
     \/ Pass \/ AskStop \/ Damage \/ SetClock
     \/ ProbeReads \/ ProbeJudges \/ Restart
  /\ Watched

\* The watchdog's task is run again and again, and its programs end.
HeartFairness ==
  /\ WF_heartVars(Pass /\ Watched)
  /\ WF_heartVars(ProbeReads /\ Watched)
  /\ WF_heartVars(ProbeJudges /\ Watched)
  /\ WF_heartVars(Restart /\ Watched)

HeartSpec == HeartInit /\ [][HeartNext]_heartVars /\ HeartFairness

-----------------------------------------------------------------------------
(* Properties.                                                             *)

\* The watchdog restarts no worker that has kept its schedule and published all
\* the while it was assessed, whatever cadence and work its ticks had.
SoundWorkerIsSpared == dog = "restarting" => ~sound

\* The states health calls failed: they are left to the operator.
LeftToOperator == sidecarBad \/ doc.state \in {"unreadable", "failed"}

\* A worker that hangs, or is not there, is replaced in the end.
SilentWorkerIsReplaced ==
  loop \in {"none", "hung"} ~> (loop \notin {"none", "hung"} \/ LeftToOperator)
=============================================================================
