------------------------------- MODULE Supervisor -------------------------------
(***************************************************************************)
(* The background supervisor and the processes around it                   *)
(* (control/control_supervisor.cpp, profile_switch_decision.cpp,           *)
(* worker_force_terminate.cpp, runtime/runtime_lifecycle.cpp).             *)
(*                                                                         *)
(* Operator commands (--start, --stop, --restart, --set-profile) run in    *)
(* processes of their own and talk to the supervisor and to its worker     *)
(* through files of the runtime home and through process handles only.     *)
(* Every probe and every file or process operation that another process    *)
(* can see is a step.  A worker is reduced to what the others see of it:   *)
(* FanControl models its inside.                                           *)
(*                                                                         *)
(* Time is abstracted: a wait may run out whenever the awaited thing has   *)
(* not happened yet.  Process identifiers are not reused while a file      *)
(* names them.                                                             *)
(***************************************************************************)
EXTENDS Naturals, FiniteSets

CONSTANTS
  Worker,     \* worker process identifiers
  Client,     \* operator command processes that can run at the same time
  Profile,    \* profiles that can be asked for
  Rejected,   \* profiles that do not resolve or do not load
  Commands,   \* the operator commands in use
  Faults,     \* see FaultKinds
  None        \* no worker, no profile

FaultKinds ==
  { "refuse",    \* a worker fails its startup (config, hardware, reconciliation)
    "crash",     \* a worker dies
    "hang",      \* a worker stops making progress
    "restore",   \* a restore fails, or times out and ends the worker's loop
    "request",   \* the profile-cycle request cannot be written
    "kill" }     \* the supervisor dies

ASSUME SupervisorAssumption ==
  /\ None \notin Worker \cup Profile
  /\ Rejected \subseteq Profile
  /\ Profile \ Rejected # {}
  /\ Commands \subseteq {"start", "stop", "restart", "switch"}
  /\ Faults \subseteq FaultKinds

VARIABLES
  stopFile,     \* stop.request.json exists
  cycleFile,    \* profile.cycle.request.json exists
  switchFile,   \* the profile named by profile.switch.request.json, or None
  status,       \* control_runtime.json: the worker's pid, and whether it runs
  lastWorker,   \* control_supervisor.json: last_worker_pid
  work,         \* work[w]: life of worker process w
  sup,          \* program counter of the process that holds the supervisor mutex
  child,        \* the worker whose handle the supervisor holds
  early,        \* exited_during_startup
  good,         \* have_seen_good_worker
  armed,        \* revert_armed
  active,       \* switch_state.active_profile_name
  lkg,          \* switch_state.last_known_good_profile_name
  candidate,    \* committed_profile, None unless switch_committed
  forced,       \* force_terminated_for_switch
  client,       \* client[c]: program counter of an operator command
  aim,          \* clients whose recorded supervisor pid is the live supervisor
  killed        \* history: some supervisor was terminated from outside

fileVars   == <<stopFile, cycleFile, switchFile, status, lastWorker>>
switchVars == <<active, lkg, armed, good>>
waitVars   == <<candidate, forced, early>>
supVars    == <<sup, child, switchVars, waitVars>>
clientVars == <<client, aim>>
vars == <<fileVars, work, supVars, clientVars, killed>>

Holding == {"booting", "opening", "running", "aborting", "stopping", "hung"}
                                \* holds the worker mutex
Living  == {"starting"} \cup Holding
Exited  == {"exit0", "exit1"}   \* ended, with a handle still open

Alive(w) == work[w] \in Living

TypeOK ==
  /\ stopFile \in BOOLEAN /\ cycleFile \in BOOLEAN
  /\ switchFile \in Profile \cup {None}
  /\ status \in [pid : Worker \cup {None}, live : BOOLEAN]
  /\ lastWorker \in Worker \cup {None}
  /\ work \in [Worker -> {"none"} \cup Living \cup Exited]
  /\ sup \in {"off", "begin", "spawn", "startup", "watch", "judge", "backoff"}
  /\ child \in Worker \cup {None}
  /\ early \in BOOLEAN /\ good \in BOOLEAN /\ armed \in BOOLEAN /\ forced \in BOOLEAN
  /\ {active, lkg} \subseteq IF sup \in {"off", "begin"} THEN {None} ELSE Profile
  /\ candidate \in Profile \cup {None}
  /\ client \in [Client -> {"idle", "probe", "probed", "spawned", "stop", "stopQuiet",
                            "restart", "restartQuiet", "escalate", "await", "gone"}]
  /\ aim \subseteq Client
  /\ killed \in BOOLEAN

Init ==
  /\ stopFile = FALSE /\ cycleFile = FALSE /\ switchFile = None
  /\ status = [pid |-> None, live |-> FALSE]
  /\ lastWorker = None
  /\ work = [w \in Worker |-> "none"]
  /\ sup = "off" /\ child = None /\ early = FALSE
  /\ good = FALSE /\ armed = FALSE
  /\ active = None /\ lkg = None
  /\ candidate = None /\ forced = FALSE
  /\ client = [c \in Client |-> "idle"]
  /\ aim = {}
  /\ killed = FALSE

-----------------------------------------------------------------------------
(* The worker, as its supervisor and the commands see it.                  *)

\* Only its supervisor's handle keeps the exit status of an ended worker.
Ended(w, code) == work' = [work EXCEPT ![w] = IF w = child THEN code ELSE "none"]

\* The worker mutex, before anything else; a second worker exits with status 2.
WorkerEnters(w) ==
  /\ work[w] = "starting"
  /\ IF \E v \in Worker : work[v] \in Holding
       THEN Ended(w, "exit1")
       ELSE work' = [work EXCEPT ![w] = "booting"]
  /\ UNCHANGED <<fileVars, supVars, clientVars, killed>>

\* Reconciled, the worker clears the stop request it finds on file.
WorkerOpens(w) ==
  /\ work[w] = "booting"
  /\ work' = [work EXCEPT ![w] = "opening"]
  /\ stopFile' = FALSE
  /\ UNCHANGED <<cycleFile, switchFile, status, lastWorker, supVars, clientVars, killed>>

\* The fan writer is there: the status is published and the loop begins.
WorkerLoops(w) ==
  /\ work[w] = "opening"
  /\ work' = [work EXCEPT ![w] = "running"]
  /\ status' = [pid |-> w, live |-> TRUE]
  /\ UNCHANGED <<stopFile, cycleFile, switchFile, lastWorker, supVars, clientVars, killed>>

\* Mutant: the loop only looks for the profile-cycle request.
StopsOnCycleOnly(w) ==
  /\ work[w] = "running"
  /\ cycleFile
  /\ work' = [work EXCEPT ![w] = "stopping"]
  /\ status' = [pid |-> w, live |-> FALSE]
  /\ UNCHANGED <<stopFile, cycleFile, switchFile, lastWorker, supVars, clientVars, killed>>

\* A stop or profile-cycle request ends the loop; "shutdown" is published before
\* the fans are restored.
WorkerStops(w) ==
  /\ work[w] = "running"
  /\ stopFile \/ cycleFile
  /\ work' = [work EXCEPT ![w] = "stopping"]
  /\ status' = [pid |-> w, live |-> FALSE]
  /\ UNCHANGED <<stopFile, cycleFile, switchFile, lastWorker, supVars, clientVars, killed>>

\* A restore that timed out during a tick ends the loop too.
WorkerAborts(w) ==
  /\ "restore" \in Faults
  /\ work[w] = "running"
  /\ work' = [work EXCEPT ![w] = "aborting"]
  /\ status' = [pid |-> w, live |-> FALSE]
  /\ UNCHANGED <<stopFile, cycleFile, switchFile, lastWorker, supVars, clientVars, killed>>

WorkerExits(w) ==
  /\ \/ work[w] = "stopping" /\ Ended(w, "exit0")
     \/ work[w] = "stopping" /\ "restore" \in Faults /\ Ended(w, "exit1")
     \/ work[w] = "aborting" /\ Ended(w, "exit1")
  /\ UNCHANGED <<fileVars, supVars, clientVars, killed>>

\* Reconciliation fails, or the fan writer cannot be created.
WorkerRefuses(w) ==
  /\ "refuse" \in Faults
  /\ \/ work[w] = "booting" /\ UNCHANGED status
     \/ work[w] = "opening" /\ status' = [pid |-> w, live |-> FALSE]
  /\ Ended(w, "exit1")
  /\ UNCHANGED <<stopFile, cycleFile, switchFile, lastWorker, supVars, clientVars, killed>>

WorkerDies(w) ==
  /\ "crash" \in Faults
  /\ Alive(w)
  /\ Ended(w, "exit1")
  /\ UNCHANGED <<fileVars, supVars, clientVars, killed>>

WorkerHangs(w) ==
  /\ "hang" \in Faults
  /\ work[w] \in Holding \ {"hung"}
  /\ work' = [work EXCEPT ![w] = "hung"]
  /\ UNCHANGED <<fileVars, supVars, clientVars, killed>>

-----------------------------------------------------------------------------
(* The supervisor: RunSupervisedLongRunningMode, RunSupervisorWorkerLoop.  *)

NoWorkerYet == candidate' = None /\ forced' = FALSE /\ early' = FALSE

\* What is in memory when no supervisor runs.
SupervisorGone ==
  /\ sup' = "off"
  /\ child' = None
  /\ NoWorkerYet
  /\ good' = FALSE /\ armed' = FALSE /\ active' = None /\ lkg' = None
  /\ aim' = {}

\* The process a launch created takes the supervisor mutex or exits.
SupervisorEnters(c) ==
  /\ client[c] = "spawned"
  /\ client' = [client EXCEPT ![c] = "idle"]
  /\ sup' = IF sup = "off" THEN "begin" ELSE sup
  /\ UNCHANGED <<fileVars, work, child, switchVars, waitVars, aim, killed>>

\* Stop and profile-cycle requests left by an earlier runtime are cleared.
SupervisorBegins ==
  /\ sup = "begin"
  /\ stopFile' = FALSE
  /\ cycleFile' = FALSE
  /\ lastWorker' = None
  /\ \E p \in Profile \ Rejected : active' = p /\ lkg' = p
  /\ sup' = "spawn"
  /\ UNCHANGED <<switchFile, status, work, child, good, armed, waitVars, clientVars,
                 killed>>

FreshPid(w) == work[w] = "none" /\ w # status.pid /\ w # lastWorker

\* The loop condition and the next worker.
SpawnWorker ==
  /\ sup = "spawn"
  /\ ~stopFile
  /\ \E w \in Worker :
       /\ FreshPid(w)
       /\ work' = [work EXCEPT ![w] = "starting"]
       /\ child' = w
       /\ lastWorker' = w
  /\ sup' = "startup"
  /\ UNCHANGED <<stopFile, cycleFile, switchFile, status, switchVars, waitVars,
                 clientVars, killed>>

SpawnNothing ==
  /\ sup = "spawn"
  /\ stopFile
  /\ SupervisorGone
  /\ UNCHANGED <<fileVars, work, client, killed>>

\* Mutant: the profile is promoted, and the revert disarmed, as it is adopted.
DisarmTooEarly ==
  /\ sup = "startup"
  /\ Alive(child)
  /\ sup' = "watch"
  /\ good' = TRUE
  /\ armed' = FALSE
  /\ UNCHANGED <<fileVars, work, child, active, lkg, waitVars, clientVars, killed>>

\* The worker outlives the startup window: it counts as healthy, and its profile
\* as the one to go back to.
WorkerSurvives ==
  /\ sup = "startup"
  /\ Alive(child)
  /\ sup' = "watch"
  /\ good' = TRUE
  /\ armed' = FALSE
  /\ lkg' = active
  /\ UNCHANGED <<fileVars, work, child, active, waitVars, clientVars, killed>>

\* The take-once switch request; a valid one is committed by signalling the worker.
TakeSwitchRequest ==
  /\ sup = "watch"
  /\ candidate = None
  /\ switchFile # None
  /\ switchFile' = None
  /\ IF switchFile \in Rejected
       THEN UNCHANGED <<candidate, cycleFile>>
       ELSE /\ candidate' = switchFile
            /\ \/ cycleFile' = TRUE
               \/ "request" \in Faults /\ UNCHANGED cycleFile
  /\ UNCHANGED <<stopFile, status, lastWorker, work, sup, child, switchVars, forced,
                 early, clientVars, killed>>

\* Mutant: the deadline is only acted on while the worker still answers.
ForceUnlessHung ==
  /\ sup = "watch"
  /\ candidate # None /\ ~forced
  /\ Alive(child) /\ work[child] # "hung"
  /\ forced' = TRUE
  /\ Ended(child, "exit1")
  /\ UNCHANGED <<fileVars, sup, child, switchVars, candidate, early, clientVars, killed>>

\* The worker did not honour the cycle request in time.  It may just have ended.
ForceCycle ==
  /\ sup = "watch"
  /\ candidate # None /\ ~forced
  /\ forced' = TRUE
  /\ IF Alive(child) THEN Ended(child, "exit1") ELSE UNCHANGED work
  /\ UNCHANGED <<fileVars, sup, child, switchVars, candidate, early, clientVars, killed>>

SeeExit ==
  /\ sup \in {"startup", "watch"}
  /\ work[child] \in Exited
  /\ early' = (sup = "startup")
  /\ sup' = "judge"
  /\ UNCHANGED <<fileVars, work, child, switchVars, candidate, forced, clientVars, killed>>

\* The handle of the ended worker is closed.
CloseWorker ==
  /\ work' = [work EXCEPT ![child] = "none"]
  /\ child' = None
  /\ NoWorkerYet

FailedStartup == early /\ work[child] = "exit1" /\ ~stopFile

CleanCycle    == candidate # None /\ ~stopFile /\ (work[child] = "exit0" \/ forced)
NothingLeft   == stopFile \/ work[child] = "exit0"

ClearCommittedCycle == cycleFile' = (cycleFile /\ candidate = None)

\* A freshly switched profile that failed its startup is reverted.
RevertProfile ==
  /\ sup = "judge"
  /\ armed /\ FailedStartup
  /\ armed' = FALSE
  /\ active' = lkg
  /\ cycleFile' = FALSE
  /\ CloseWorker
  /\ sup' = "spawn"
  /\ UNCHANGED <<stopFile, switchFile, status, lastWorker, lkg, good, clientVars, killed>>

\* The first worker ever failed its startup: the supervisor gives up.
FirstBootFails ==
  /\ sup = "judge"
  /\ ~armed /\ ~good /\ FailedStartup
  /\ work' = [work EXCEPT ![child] = "none"]
  /\ SupervisorGone
  /\ UNCHANGED <<fileVars, client, killed>>

\* A committed switch is adopted after a clean or a forced cycle, never after a
\* crash and never against a stop request.
AdoptProfile ==
  /\ sup = "judge"
  /\ ~(armed /\ FailedStartup)
  /\ CleanCycle
  /\ cycleFile' = FALSE
  /\ active' = candidate
  /\ armed' = TRUE
  /\ CloseWorker
  /\ sup' = "spawn"
  /\ UNCHANGED <<stopFile, switchFile, status, lastWorker, lkg, good, clientVars, killed>>

\* An operator stop, or a worker that ended by itself with status 0.
EndRuntime ==
  /\ sup = "judge"
  /\ ~CleanCycle /\ NothingLeft
  /\ ClearCommittedCycle
  /\ work' = [work EXCEPT ![child] = "none"]
  /\ SupervisorGone
  /\ UNCHANGED <<stopFile, switchFile, status, lastWorker, client, killed>>

\* Mutant: a crash leaves the request for its switch on file.
RestartLater ==
  /\ sup = "judge"
  /\ ~CleanCycle /\ ~NothingLeft
  /\ ~(FailedStartup /\ (armed \/ ~good))
  /\ CloseWorker
  /\ sup' = "backoff"
  /\ UNCHANGED <<fileVars, switchVars, clientVars, killed>>

\* A crash: the worker is started again after a backoff, with the same profile.
ScheduleRestart ==
  /\ sup = "judge"
  /\ ~CleanCycle /\ ~NothingLeft
  /\ ~(FailedStartup /\ (armed \/ ~good))
  /\ ClearCommittedCycle
  /\ CloseWorker
  /\ sup' = "backoff"
  /\ UNCHANGED <<stopFile, switchFile, status, lastWorker, switchVars, clientVars, killed>>

BackoffEnds ==
  /\ sup = "backoff"
  /\ sup' = "spawn"
  /\ UNCHANGED <<fileVars, work, child, switchVars, waitVars, clientVars, killed>>

\* Its mutex is released and its worker lives on without it.
SupervisorTerminated ==
  /\ killed' = TRUE
  /\ SupervisorGone

SupervisorDies ==
  /\ "kill" \in Faults
  /\ sup # "off"
  /\ SupervisorTerminated
  /\ work' = [w \in Worker |-> IF work[w] \in Exited THEN "none" ELSE work[w]]
  /\ UNCHANGED <<fileVars, client>>

-----------------------------------------------------------------------------
(* Operator commands.                                                      *)

ClientGoes(c, from, to) == client[c] = from /\ client' = [client EXCEPT ![c] = to]

LooksActive == status.live /\ status.pid # None /\ Alive(status.pid)

Quiet == UNCHANGED <<fileVars, work, supVars, aim, killed>>

StartCommand(c) ==
  /\ "start" \in Commands
  /\ ClientGoes(c, "idle", "probe")
  /\ Quiet

\* PrintAlreadyRunningIfActive.
Probe(c) ==
  /\ \/ (sup # "off" \/ LooksActive) /\ ClientGoes(c, "probe", "idle")
     \/ ~(sup # "off" \/ LooksActive) /\ ClientGoes(c, "probe", "probed")
  /\ Quiet

\* LaunchDetachedLongRunningMode after its probe.
Launch(c) ==
  /\ ClientGoes(c, "probed", "spawned")
  /\ stopFile' = FALSE
  /\ UNCHANGED <<cycleFile, switchFile, status, lastWorker, work, supVars, aim, killed>>

\* RequestStopAndWait, for --stop and for --restart.
StopCommand(c, cmd) ==
  /\ cmd \in Commands
  /\ ClientGoes(c, "idle", cmd)
  /\ stopFile' = TRUE
  /\ UNCHANGED <<cycleFile, switchFile, status, lastWorker, work, supVars, aim, killed>>

\* WaitForRuntimeStop reads the status first and probes the mutex after it.
ReadStatus(c) ==
  /\ ~LooksActive
  /\ ClientGoes(c, "stop", "stopQuiet") \/ ClientGoes(c, "restart", "restartQuiet")
  /\ Quiet

ProbeFails(c) ==
  /\ sup # "off"
  /\ ClientGoes(c, "stopQuiet", "stop") \/ ClientGoes(c, "restartQuiet", "restart")
  /\ Quiet

\* Mutant: "stopped" is reported from the status file alone.
ReportOnStatus(c) ==
  /\ ClientGoes(c, "stopQuiet", "idle") \/ ClientGoes(c, "restartQuiet", "probe")
  /\ Quiet

ReportStopped(c) ==
  /\ sup = "off"
  /\ ClientGoes(c, "stopQuiet", "idle") \/ ClientGoes(c, "restartQuiet", "probe")
  /\ Quiet

StopTimesOut(c) ==
  /\ ClientGoes(c, "stop", "idle") \/ ClientGoes(c, "restart", "escalate")
  /\ Quiet

\* Mutant: a terminated worker leaves exit status 0.
KillWithZero(c) ==
  /\ lastWorker # None
  /\ status.pid \in {None, lastWorker}
  /\ ClientGoes(c, "escalate", "await")
  /\ IF Alive(lastWorker) THEN Ended(lastWorker, "exit0") ELSE UNCHANGED work
  /\ aim' = IF sup \in {"off", "begin"} THEN aim ELSE aim \cup {c}
  /\ UNCHANGED <<fileVars, supVars, killed>>

\* EscalateForceTerminate: the recorded worker is corroborated and terminated.
KillWorker(c) ==
  /\ lastWorker # None
  /\ status.pid \in {None, lastWorker}
  /\ ClientGoes(c, "escalate", "await")
  /\ IF Alive(lastWorker) THEN Ended(lastWorker, "exit1") ELSE UNCHANGED work
  /\ aim' = IF sup \in {"off", "begin"} THEN aim ELSE aim \cup {c}
  /\ UNCHANGED <<fileVars, supVars, killed>>

\* A guard refuses, or the termination cannot be confirmed.
KillRefused(c) ==
  /\ \/ ClientGoes(c, "escalate", "idle")
     \/ c \in aim /\ ClientGoes(c, "await", "idle")
  /\ Quiet

\* The recorded supervisor ended by itself.
SupervisorSeenGone(c) ==
  /\ c \notin aim
  /\ ClientGoes(c, "await", "gone")
  /\ Quiet

\* It did not within the confirmation window, and is terminated.
KillSupervisor(c) ==
  /\ c \in aim
  /\ ClientGoes(c, "await", "gone")
  /\ SupervisorTerminated
  /\ work' = [w \in Worker |-> IF work[w] \in Exited THEN "none" ELSE work[w]]
  /\ UNCHANGED fileVars

\* runtime_gone: --restart goes on to launch.
Relaunch(c) == ClientGoes(c, "gone", "probe") /\ Quiet

\* --set-profile.
RequestSwitch ==
  /\ "switch" \in Commands
  /\ \E p \in Profile : switchFile' = p
  /\ UNCHANGED <<stopFile, cycleFile, status, lastWorker, work, supVars, clientVars,
                 killed>>

-----------------------------------------------------------------------------
WorkerStep(w) ==
  WorkerEnters(w) \/ WorkerOpens(w) \/ WorkerLoops(w) \/ WorkerStops(w) \/ WorkerExits(w)

WorkerFault(w) == WorkerAborts(w) \/ WorkerRefuses(w) \/ WorkerDies(w) \/ WorkerHangs(w)

Judgement ==
  RevertProfile \/ FirstBootFails \/ AdoptProfile \/ EndRuntime \/ ScheduleRestart

SupervisorStep ==
  \/ SupervisorBegins \/ SpawnWorker \/ SpawnNothing \/ WorkerSurvives
  \/ TakeSwitchRequest \/ ForceCycle \/ SeeExit \/ Judgement \/ BackoffEnds

ClientStep(c) ==
  \/ SupervisorEnters(c)
  \/ Probe(c) \/ Launch(c)
  \/ ReadStatus(c) \/ ProbeFails(c) \/ ReportStopped(c) \/ StopTimesOut(c)
  \/ KillWorker(c) \/ KillRefused(c) \/ SupervisorSeenGone(c) \/ KillSupervisor(c)
  \/ Relaunch(c)

Command(c) == StartCommand(c) \/ \E cmd \in {"stop", "restart"} : StopCommand(c, cmd)

Next ==
  \/ \E w \in Worker : WorkerStep(w) \/ WorkerFault(w)
  \/ SupervisorStep \/ SupervisorDies
  \/ \E c \in Client : Command(c) \/ ClientStep(c)
  \/ RequestSwitch

Spec == Init /\ [][Next]_vars

\* Processes run, waits run out; no command is ever issued and no fault occurs
\* because of fairness.
Fairness ==
  /\ \A w \in Worker : WF_vars(WorkerStep(w))
  /\ WF_vars(SupervisorBegins \/ SpawnWorker \/ SpawnNothing \/ BackoffEnds \/ Judgement)
  /\ WF_vars(SeeExit)
  /\ WF_vars(ForceCycle)

FairSpec == Spec /\ Fairness

-----------------------------------------------------------------------------
(* Properties.                                                             *)

\* When --stop or --restart takes the runtime for stopped, no supervisor and no
\* worker is left, provided no supervisor was ever terminated from outside.
StoppedMeansStopped ==
  [][\A c \in Client :
       ReportStopped(c) /\ ~killed => \A w \in Worker : ~Alive(w)]_vars

\* Once a worker was healthy, only an operator's stop ends the supervisor: neither
\* a crash nor a profile switch, whatever becomes of its cycle request.
OnlyStopEndsTheRuntime ==
  [][good /\ sup # "off" /\ sup' = "off" => stopFile \/ killed']_vars

\* A profile that has not outlived a startup window always has its way back to one
\* that has.
UnprovenProfileCanRevert ==
  sup \notin {"off", "begin"} /\ active # lkg => armed

\* No worker is started onto a profile-cycle request of an earlier worker.
NoStaleCycleRequest ==
  sup = "startup" => ~cycleFile

\* A stop request that meets a running worker ends the supervisor, unless the
\* worker hangs.
StopEndsTheRuntime ==
  (sup # "off" /\ stopFile /\ child # None /\ work[child] = "running")
    ~> (sup = "off" \/ \E w \in Worker : work[w] = "hung")

\* A committed profile switch always comes to an end, even on a hung worker.
CommittedSwitchEnds == candidate # None ~> candidate = None

\* runtime_gone is "true only when both the worker and the supervisor are confirmed
\* gone": a forced restart goes on only when nothing is left running.
RuntimeGoneMeansGone ==
  \A c \in Client : client[c] = "gone" => sup = "off" /\ \A w \in Worker : ~Alive(w)

\* A worker as the holder of its process handle sees it.
LifeOf(w) ==
  CASE work[w] = "none" -> "gone"
    [] work[w] \in {"booting", "opening"} -> "starting"
    [] OTHER -> work[w]

\* Nothing else is asked of the workers here than what their own model implements:
\* one ends with success only after a request, however supervisors and commands come
\* and go, and one that is terminated never does.
Lifecycle == INSTANCE WorkerLifecycle WITH
  Process <- Worker,
  life    <- [w \in Worker |-> LifeOf(w)],
  asked   <- stopFile \/ cycleFile

LifecycleSpec == Lifecycle!Spec
=============================================================================
