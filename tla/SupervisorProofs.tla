---------------------------- MODULE SupervisorProofs ----------------------------
(***************************************************************************)
(* What holds of the supervisor for any number of workers, commands and    *)
(* profiles, and for every fault of the model.                             *)
(***************************************************************************)
EXTENDS Supervisor, TLAPS

\* A cycle request outlives its worker only until the supervisor has judged it,
\* a switch is committed only while its worker is watched, and an active profile
\* that has not been promoted has an armed revert.
SwitchInv ==
  /\ TypeOK
  /\ cycleFile => sup \in {"off", "begin"} \/ candidate # None
  /\ candidate # None => sup \in {"watch", "judge"}
  /\ UnprovenProfileCanRevert

LEMMA SwitchInit == Init => SwitchInv
<1> SUFFICES ASSUME Init PROVE SwitchInv
  OBVIOUS
<1>1. status \in [pid : Worker \cup {None}, live : BOOLEAN]
  BY DEF Init
<1>2. /\ work \in [Worker -> {"none"} \cup Living \cup Exited]
      /\ client \in [Client -> {"idle", "probe", "probed", "spawned", "stop", "stopQuiet",
                                "restart", "restartQuiet", "escalate", "await", "gone"}]
  BY DEF Init
<1>3. QED
  BY <1>1, <1>2 DEF Init, SwitchInv, TypeOK, UnprovenProfileCanRevert

\* The worker touches none of the supervisor's memory and never writes a request.
LEMMA WorkerKeepsSwitch ==
  ASSUME SwitchInv, NEW w \in Worker, WorkerStep(w) \/ WorkerFault(w)
  PROVE  SwitchInv'
<1>1. TypeOK
  BY DEF SwitchInv
<1>2. UNCHANGED <<cycleFile, switchFile, lastWorker, supVars, clientVars, killed>>
  BY DEF WorkerStep, WorkerFault, WorkerEnters, WorkerOpens, WorkerLoops, WorkerStops,
     WorkerExits, WorkerAborts, WorkerRefuses, WorkerDies, WorkerHangs, fileVars
<1>3. /\ stopFile' \in BOOLEAN
      /\ status' \in [pid : Worker \cup {None}, live : BOOLEAN]
      /\ work' \in [Worker -> {"none"} \cup Living \cup Exited]
  <2> USE <1>1 DEF TypeOK, Living, Holding, Exited, fileVars
  <2>1. CASE WorkerEnters(w) \/ WorkerExits(w) \/ WorkerDies(w)
    BY <2>1 DEF WorkerEnters, WorkerExits, WorkerDies, Ended
  <2>2. CASE WorkerLoops(w) \/ WorkerStops(w) \/ WorkerAborts(w) \/ WorkerRefuses(w)
    <3> USE DEF WorkerLoops, WorkerStops, WorkerAborts, WorkerRefuses
    <3>1. stopFile' \in BOOLEAN
      BY <2>2
    <3>2. UNCHANGED status \/ \E b \in BOOLEAN : status' = [pid |-> w, live |-> b]
      BY <2>2
    <3>3. status' \in [pid : Worker \cup {None}, live : BOOLEAN]
      BY <3>2
    <3>4. work' \in [Worker -> {"none"} \cup Living \cup Exited]
      BY <2>2 DEF Ended
    <3>5. QED
      BY <3>1, <3>3, <3>4
  <2>3. CASE WorkerOpens(w) \/ WorkerHangs(w)
    BY <2>3 DEF WorkerOpens, WorkerHangs
  <2>4. QED
    BY <2>1, <2>2, <2>3 DEF WorkerStep, WorkerFault
<1>4. QED
  BY <1>1, <1>2, <1>3
     DEF SwitchInv, TypeOK, UnprovenProfileCanRevert, supVars, switchVars, waitVars,
         clientVars

\* The end of a supervisor leaves nothing for these facts to be about.
LEMMA GoneKeepsSwitch ==
  ASSUME SwitchInv, SupervisorGone,
         UNCHANGED <<switchFile, status, lastWorker, client>>,
         stopFile' \in BOOLEAN, cycleFile' \in BOOLEAN, killed' \in BOOLEAN,
         work' \in [Worker -> {"none"} \cup Living \cup Exited]
  PROVE  SwitchInv'
BY DEF SwitchInv, TypeOK, SupervisorGone, NoWorkerYet, UnprovenProfileCanRevert

LEMMA JudgementKeepsSwitch ==
  ASSUME SwitchInv, Judgement
  PROVE  SwitchInv'
<1>1. TypeOK /\ sup = "judge"
  BY DEF SwitchInv, Judgement, RevertProfile, FirstBootFails, AdoptProfile, EndRuntime,
     ScheduleRestart
<1>2. [work EXCEPT ![child] = "none"] \in [Worker -> {"none"} \cup Living \cup Exited]
  BY <1>1 DEF TypeOK
<1>3. CASE RevertProfile
  BY <1>1, <1>2, <1>3
     DEF SwitchInv, TypeOK, RevertProfile, CloseWorker, NoWorkerYet, clientVars,
         UnprovenProfileCanRevert
<1>4. CASE FirstBootFails
  BY <1>1, <1>2, <1>4, GoneKeepsSwitch DEF TypeOK, FirstBootFails, fileVars
<1>5. CASE AdoptProfile
  BY <1>1, <1>2, <1>5
     DEF SwitchInv, TypeOK, AdoptProfile, CleanCycle, CloseWorker, NoWorkerYet,
         clientVars, UnprovenProfileCanRevert
<1>6. CASE EndRuntime
  <2>1. cycleFile' \in BOOLEAN
    BY <1>6 DEF EndRuntime, ClearCommittedCycle
  <2>2. QED
    BY <1>1, <1>2, <1>6, <2>1, GoneKeepsSwitch DEF TypeOK, EndRuntime
<1>7. CASE ScheduleRestart
  <2>1. cycleFile' = FALSE
    BY <1>1, <1>7 DEF SwitchInv, ScheduleRestart, ClearCommittedCycle
  <2>2. QED
    BY <1>1, <1>2, <1>7, <2>1
       DEF SwitchInv, TypeOK, ScheduleRestart, CloseWorker, NoWorkerYet, clientVars,
           switchVars, UnprovenProfileCanRevert
<1>8. QED
  BY <1>3, <1>4, <1>5, <1>6, <1>7 DEF Judgement

LEMMA SupervisorKeepsSwitch ==
  ASSUME SwitchInv, SupervisorStep
  PROVE  SwitchInv'
<1>1. TypeOK
  BY DEF SwitchInv
<1> USE DEF supVars, switchVars, waitVars, clientVars, fileVars
<1>2. CASE SupervisorBegins
  BY <1>1, <1>2, SupervisorAssumption
     DEF SwitchInv, TypeOK, SupervisorBegins, UnprovenProfileCanRevert
<1>3. CASE SpawnWorker
  BY <1>1, <1>3
     DEF SwitchInv, TypeOK, SpawnWorker, Living, UnprovenProfileCanRevert
<1>4. CASE SpawnNothing
  BY <1>1, <1>4, GoneKeepsSwitch DEF TypeOK, SpawnNothing
<1>5. CASE WorkerSurvives
  BY <1>1, <1>5 DEF SwitchInv, TypeOK, WorkerSurvives, UnprovenProfileCanRevert
<1>6. CASE TakeSwitchRequest
  BY <1>1, <1>6 DEF SwitchInv, TypeOK, TakeSwitchRequest, UnprovenProfileCanRevert
<1>7. CASE ForceCycle
  <2>1. work' \in [Worker -> {"none"} \cup Living \cup Exited]
    BY <1>1, <1>7 DEF TypeOK, ForceCycle, Ended, Exited
  <2>2. QED
    BY <1>1, <1>7, <2>1 DEF SwitchInv, TypeOK, ForceCycle, UnprovenProfileCanRevert
<1>8. CASE SeeExit
  BY <1>1, <1>8 DEF SwitchInv, TypeOK, SeeExit, UnprovenProfileCanRevert
<1>9. CASE Judgement
  BY <1>9, JudgementKeepsSwitch
<1>10. CASE BackoffEnds
  BY <1>1, <1>10 DEF SwitchInv, TypeOK, BackoffEnds, UnprovenProfileCanRevert
<1>11. QED
  BY <1>2, <1>3, <1>4, <1>5, <1>6, <1>7, <1>8, <1>9, <1>10 DEF SupervisorStep

\* The process that ends from outside leaves its worker behind, not its memory.
LEMMA TerminationKeepsSwitch ==
  ASSUME SwitchInv, SupervisorDies
  PROVE  SwitchInv'
<1>1. TypeOK
  BY DEF SwitchInv
<1>2. work' \in [Worker -> {"none"} \cup Living \cup Exited]
  BY <1>1 DEF TypeOK, SupervisorDies
<1>3. QED
  BY <1>1, <1>2, GoneKeepsSwitch
     DEF TypeOK, SupervisorDies, SupervisorTerminated, fileVars

LEMMA ClientKeepsSwitch ==
  ASSUME SwitchInv, NEW c \in Client, Command(c) \/ ClientStep(c)
  PROVE  SwitchInv'
<1>1. TypeOK
  BY DEF SwitchInv
<1> USE DEF ClientGoes, Quiet, supVars, switchVars, waitVars, fileVars, clientVars
<1>2. CASE SupervisorEnters(c)
  BY <1>1, <1>2 DEF SwitchInv, TypeOK, SupervisorEnters, UnprovenProfileCanRevert
<1>3. CASE Command(c) \/ Launch(c)
  <2>1. CASE StartCommand(c)
    BY <1>1, <2>1 DEF SwitchInv, TypeOK, StartCommand, UnprovenProfileCanRevert
  <2>2. ASSUME NEW cmd \in {"stop", "restart"}, StopCommand(c, cmd) PROVE SwitchInv'
    BY <1>1, <2>2 DEF SwitchInv, TypeOK, StopCommand, UnprovenProfileCanRevert
  <2>3. CASE Launch(c)
    <3>1. client' \in [Client -> {"idle", "probe", "probed", "spawned", "stop", "stopQuiet",
                                 "restart", "restartQuiet", "escalate", "await", "gone"}]
      BY <1>1, <2>3 DEF TypeOK, Launch
    <3>2. stopFile' \in BOOLEAN
      BY <2>3 DEF Launch
    <3>3. UNCHANGED <<cycleFile, switchFile, status, lastWorker, work, supVars, aim, killed>>
      BY <2>3 DEF Launch
    <3>4. QED
      BY <1>1, <3>1, <3>2, <3>3 DEF SwitchInv, TypeOK, UnprovenProfileCanRevert
  <2>4. QED
    BY <1>3, <2>1, <2>2, <2>3 DEF Command
<1>4. CASE Probe(c) \/ ReadStatus(c) \/ ProbeFails(c) \/ ReportStopped(c) \/ StopTimesOut(c)
  BY <1>1, <1>4
     DEF SwitchInv, TypeOK, Probe, ReadStatus, ProbeFails, ReportStopped, StopTimesOut,
         UnprovenProfileCanRevert
<1>5. CASE KillRefused(c) \/ SupervisorSeenGone(c) \/ Relaunch(c)
  BY <1>1, <1>5
     DEF SwitchInv, TypeOK, KillRefused, SupervisorSeenGone, Relaunch,
         UnprovenProfileCanRevert
<1>6. CASE KillWorker(c)
  <2>1. work' \in [Worker -> {"none"} \cup Living \cup Exited]
    BY <1>1, <1>6 DEF TypeOK, KillWorker, Ended, Exited
  <2>2. QED
    BY <1>1, <1>6, <2>1 DEF SwitchInv, TypeOK, KillWorker, UnprovenProfileCanRevert
<1>7. CASE KillSupervisor(c)
  <2>1. work' \in [Worker -> {"none"} \cup Living \cup Exited]
    BY <1>1, <1>7 DEF TypeOK, KillSupervisor
  <2>2. QED
    BY <1>1, <1>7, <2>1
       DEF SwitchInv, TypeOK, KillSupervisor, SupervisorTerminated, SupervisorGone,
           NoWorkerYet, UnprovenProfileCanRevert
<1>8. QED
  BY <1>2, <1>3, <1>4, <1>5, <1>6, <1>7 DEF ClientStep

LEMMA SwitchStep ==
  ASSUME SwitchInv, [Next]_vars
  PROVE  SwitchInv'
<1>1. CASE UNCHANGED vars
  BY <1>1 DEF vars, fileVars, supVars, switchVars, waitVars, clientVars, SwitchInv, TypeOK,
     UnprovenProfileCanRevert
<1>2. CASE RequestSwitch
  BY <1>2 DEF RequestSwitch, supVars, switchVars, waitVars, clientVars, SwitchInv, TypeOK,
     UnprovenProfileCanRevert
<1>3. QED
  BY <1>1, <1>2, WorkerKeepsSwitch, SupervisorKeepsSwitch, TerminationKeepsSwitch,
     ClientKeepsSwitch DEF Next

\* The supervisor keeps its variables typed, and SwitchInv, through every command
\* and fault.
THEOREM SwitchInvariant == Spec => []SwitchInv
<1>1. QED
  BY SwitchInit, SwitchStep, PTL DEF Spec

\* A profile that has not outlived a startup window always has a way back: the
\* supervisor's variables stay typed and its revert stays armed.
THEOREM UnprovenCanRevert == Spec => []UnprovenProfileCanRevert
<1>1. SwitchInv => UnprovenProfileCanRevert
  BY DEF SwitchInv
<1>2. QED
  BY <1>1, SwitchInvariant, PTL

\* No worker starts onto the profile-cycle request of an earlier worker, whether
\* that one ended cleanly, crashed, hung or lost its supervisor.
THEOREM CycleRequestsAreFresh == Spec => []NoStaleCycleRequest
<1>1. SwitchInv => NoStaleCycleRequest
  BY DEF SwitchInv, NoStaleCycleRequest
<1>2. QED
  BY <1>1, SwitchInvariant, PTL
-----------------------------------------------------------------------------
(* Whose the running worker is.                                            *)

\* A handle is held exactly while a worker is started, watched or judged, and the
\* judged one has ended.
HandleInv ==
  /\ IF sup \in {"startup", "watch", "judge"} THEN child \in Worker ELSE child = None
  /\ sup = "judge" => work[child] \in Exited

\* As long as no supervisor was terminated, the only worker alive is the one whose
\* handle the supervisor holds.
OnlyChildLives ==
  ~killed => \A w \in Worker : Alive(w) => w = child

OwnedInv == HandleInv /\ OnlyChildLives

LEMMA OwnedInit == Init => OwnedInv
BY DEF Init, OwnedInv, HandleInv, OnlyChildLives, Alive, Living, Holding

\* What happens to the life of one worker, its handle staying where it is.
LEMMA LivesKeepOwned ==
  ASSUME TypeOK, OwnedInv, UNCHANGED <<sup, child, killed>>,
         \A w \in Worker : work'[w] \in Living => work[w] \in Living,
         sup = "judge" => work'[child] = work[child]
  PROVE  OwnedInv'
BY DEF OwnedInv, HandleInv, OnlyChildLives, Alive, TypeOK

\* A supervisor that leaves while no worker is alive, or is terminated, owns nothing.
LEMMA GoneKeepsOwned ==
  ASSUME SupervisorGone, ~killed' => \A w \in Worker : work'[w] \notin Living
  PROVE  OwnedInv'
BY DEF SupervisorGone, OwnedInv, HandleInv, OnlyChildLives, Alive

LEMMA WorkerKeepsOwned ==
  ASSUME TypeOK, OwnedInv, NEW w \in Worker, WorkerStep(w) \/ WorkerFault(w)
  PROVE  OwnedInv'
<1>1. UNCHANGED <<sup, child, killed>> /\ work[w] \in Living
  BY DEF WorkerStep, WorkerFault, WorkerEnters, WorkerOpens, WorkerLoops, WorkerStops,
     WorkerExits, WorkerAborts, WorkerRefuses, WorkerDies, WorkerHangs, supVars, Alive,
     Living, Holding
<1>2. \E life : work' = [work EXCEPT ![w] = life]
  BY DEF WorkerStep, WorkerFault, WorkerEnters, WorkerOpens, WorkerLoops, WorkerStops,
     WorkerExits, WorkerAborts, WorkerRefuses, WorkerDies, WorkerHangs, Ended
<1>3. \A v \in Worker : work'[v] \in Living => work[v] \in Living
  BY <1>1, <1>2 DEF TypeOK
<1>4. sup = "judge" => child # w
  BY <1>1 DEF OwnedInv, HandleInv, Exited, Living, Holding
<1>5. QED
  BY <1>1, <1>2, <1>3, <1>4, LivesKeepOwned DEF TypeOK

LEMMA SupervisorKeepsOwned ==
  ASSUME TypeOK, OwnedInv, SupervisorStep \/ SupervisorDies
  PROVE  OwnedInv'
<1> USE DEF supVars, switchVars, waitVars, clientVars, fileVars
<1>a. ASSUME sup = "judge", work' = [work EXCEPT ![child] = "none"], ~killed
      PROVE  \A w \in Worker : work'[w] \notin Living
  BY <1>a DEF TypeOK, OwnedInv, HandleInv, OnlyChildLives, Alive, Living, Holding
<1>b. ASSUME sup = "judge", CloseWorker, sup' \in {"spawn", "backoff"}, UNCHANGED killed
      PROVE  OwnedInv'
  BY <1>a, <1>b DEF CloseWorker, OwnedInv, HandleInv, OnlyChildLives, Alive
<1>1. CASE SupervisorBegins \/ BackoffEnds \/ TakeSwitchRequest \/ WorkerSurvives
  BY <1>1 DEF SupervisorBegins, BackoffEnds, TakeSwitchRequest, WorkerSurvives, OwnedInv,
     HandleInv, OnlyChildLives, Alive
<1>2. CASE SpawnWorker
  <2>1. ~killed => \A w \in Worker : work[w] \notin Living
    BY <1>2, SupervisorAssumption
       DEF SpawnWorker, OwnedInv, HandleInv, OnlyChildLives, Alive
  <2>2. PICK w \in Worker : work' = [work EXCEPT ![w] = "starting"] /\ child' = w
    BY <1>2 DEF SpawnWorker
  <2>3. \A v \in Worker : v # w => work'[v] = work[v]
    BY <2>2 DEF TypeOK
  <2>4. sup' = "startup" /\ UNCHANGED killed
    BY <1>2 DEF SpawnWorker
  <2>5. QED
    BY <2>1, <2>2, <2>3, <2>4 DEF OwnedInv, HandleInv, OnlyChildLives, Alive
<1>3. CASE SpawnNothing
  <2>1. ~killed => \A w \in Worker : work[w] \notin Living
    BY <1>3, SupervisorAssumption
       DEF SpawnNothing, OwnedInv, HandleInv, OnlyChildLives, Alive
  <2>2. QED
    BY <1>3, <2>1, GoneKeepsOwned DEF SpawnNothing
<1>4. CASE ForceCycle
  <2>1. work' = work \/ work' = [work EXCEPT ![child] = "exit1"]
    BY <1>4 DEF ForceCycle, Ended
  <2>2. QED
    BY <1>4, <2>1, LivesKeepOwned DEF ForceCycle, TypeOK, Living, Holding
<1>5. CASE SeeExit
  BY <1>5 DEF SeeExit, OwnedInv, HandleInv, OnlyChildLives, Alive
<1>6. CASE Judgement
  <2>1. CASE RevertProfile \/ AdoptProfile \/ ScheduleRestart
    BY <1>b, <2>1 DEF RevertProfile, AdoptProfile, ScheduleRestart
  <2>2. CASE FirstBootFails \/ EndRuntime
    BY <1>a, <2>2, GoneKeepsOwned DEF FirstBootFails, EndRuntime
  <2>3. QED
    BY <1>6, <2>1, <2>2 DEF Judgement
<1>7. CASE SupervisorDies
  BY <1>7, GoneKeepsOwned DEF SupervisorDies, SupervisorTerminated
<1>8. QED
  BY <1>1, <1>2, <1>3, <1>4, <1>5, <1>6, <1>7 DEF SupervisorStep

LEMMA ClientKeepsOwned ==
  ASSUME TypeOK, OwnedInv, NEW c \in Client, Command(c) \/ ClientStep(c)
  PROVE  OwnedInv'
<1> USE DEF Quiet, supVars, switchVars, waitVars, clientVars, fileVars
<1>1. CASE KillWorker(c)
  <2>1. UNCHANGED <<sup, child, killed>>
    BY <1>1 DEF KillWorker
  <2>2. \/ work' = work
        \/ /\ work[lastWorker] \in Living
           /\ \E code \in Exited \cup {"none"} : work' = [work EXCEPT ![lastWorker] = code]
    BY <1>1 DEF KillWorker, Ended, Alive, Exited
  <2>3. \A w \in Worker : work'[w] \in Living => work[w] \in Living
    BY <2>2 DEF TypeOK, Exited, Living, Holding
  <2>4. sup = "judge" => work'[child] = work[child]
    BY <2>2 DEF TypeOK, OwnedInv, HandleInv, Exited, Living, Holding
  <2>5. QED
    BY <2>1, <2>3, <2>4, LivesKeepOwned
<1>2. CASE KillSupervisor(c)
  BY <1>2, GoneKeepsOwned DEF KillSupervisor, SupervisorTerminated
<1>3. CASE SupervisorEnters(c)
  BY <1>3 DEF SupervisorEnters, OwnedInv, HandleInv, OnlyChildLives, Alive
<1>4. CASE UNCHANGED <<work, supVars, killed>>
  BY <1>4, LivesKeepOwned
<1>5. QED
  BY <1>1, <1>2, <1>3, <1>4
     DEF Command, StartCommand, StopCommand, ClientStep, Probe, Launch, ReadStatus,
         ProbeFails, ReportStopped, StopTimesOut, KillRefused, SupervisorSeenGone, Relaunch

LEMMA OwnedStep ==
  ASSUME TypeOK, OwnedInv, [Next]_vars
  PROVE  OwnedInv'
<1>1. CASE RequestSwitch \/ UNCHANGED vars
  BY <1>1, LivesKeepOwned DEF RequestSwitch, vars, supVars
<1>2. QED
  BY <1>1, WorkerKeepsOwned, SupervisorKeepsOwned, ClientKeepsOwned DEF Next

LEMMA OwnedInvariant == Spec => [](SwitchInv /\ OwnedInv)
<1>1. SwitchInv => TypeOK
  BY DEF SwitchInv
<1>2. QED
  BY <1>1, OwnedInit, OwnedStep, SwitchInvariant, PTL DEF Spec

\* When a command reports the runtime as stopped, no worker is left, however many
\* commands run at once: a worker outlives its supervisor's mutex only if that
\* supervisor was terminated.
THEOREM StoppedIsStopped == Spec => StoppedMeansStopped
<1>1. ASSUME OwnedInv, NEW c \in Client, ReportStopped(c), ~killed
      PROVE  \A w \in Worker : ~Alive(w)
  BY <1>1, SupervisorAssumption DEF ReportStopped, OwnedInv, HandleInv, OnlyChildLives
<1>2. OwnedInv => [\A c \in Client :
                     ReportStopped(c) /\ ~killed => \A w \in Worker : ~Alive(w)]_vars
  BY <1>1
<1>3. QED
  BY <1>2, OwnedInvariant, PTL DEF StoppedMeansStopped

-----------------------------------------------------------------------------
(* Why a healthy runtime ends.                                             *)

\* No launch that has found nothing running is overtaken by another one: of two that
\* probed together, the second would clear a stop request meant for the first.
NoStaleLaunch == \A c \in Client : client[c] = "probed" => sup = "off"

\* A worker that was told to end was told by a request still on file or by the switch
\* its supervisor has committed.
StopIsAsked ==
  ~killed /\ child # None /\ work[child] \in {"stopping", "exit0"} =>
    stopFile \/ candidate # None

\* A step that lets no worker stop and clears no request.
LEMMA RequestsKeepAsked ==
  ASSUME StopIsAsked, UNCHANGED <<child, killed>>,
         stopFile' \/ stopFile' = stopFile, candidate # None => candidate' # None,
         child # None /\ work'[child] \in {"stopping", "exit0"} =>
           work[child] \in {"stopping", "exit0"}
  PROVE  StopIsAsked'
BY DEF StopIsAsked

LEMMA WorkerKeepsAsked ==
  ASSUME SwitchInv, OwnedInv, StopIsAsked, NEW w \in Worker, WorkerStep(w) \/ WorkerFault(w)
  PROVE  StopIsAsked'
<1>1. /\ UNCHANGED <<sup, child, killed, candidate>> /\ work[w] \in Living
      /\ TypeOK /\ HandleInv /\ OnlyChildLives
  BY DEF WorkerStep, WorkerFault, WorkerEnters, WorkerOpens, WorkerLoops, WorkerStops,
     WorkerExits, WorkerAborts, WorkerRefuses, WorkerDies, WorkerHangs, supVars, waitVars,
     Alive, Living, Holding, SwitchInv, OwnedInv
<1>2. ~killed => w = child
  BY <1>1 DEF OnlyChildLives, Alive
<1>3. CASE WorkerStops(w)
  <2>1. ~killed /\ cycleFile => candidate # None
    BY <1>1, <1>2, SupervisorAssumption DEF SwitchInv, HandleInv
  <2>2. QED
    BY <1>1, <1>3, <2>1 DEF WorkerStops, StopIsAsked
<1>4. CASE WorkerExits(w) /\ work[w] = "stopping"
  BY <1>1, <1>2, <1>4 DEF WorkerExits, StopIsAsked, fileVars
<1>5. CASE \E life \in {"booting", "opening", "running", "aborting", "hung", "exit1", "none"} :
             work' = [work EXCEPT ![w] = life]
  BY <1>1, <1>2, <1>5 DEF StopIsAsked, TypeOK
<1>6. QED
  BY <1>3, <1>4, <1>5
     DEF WorkerStep, WorkerFault, WorkerEnters, WorkerOpens, WorkerLoops, WorkerExits,
         WorkerAborts, WorkerRefuses, WorkerDies, WorkerHangs, Ended

LEMMA SupervisorKeepsAsked ==
  ASSUME SwitchInv, OwnedInv, StopIsAsked, SupervisorStep \/ SupervisorDies
  PROVE  StopIsAsked'
<1>a. TypeOK /\ HandleInv
  BY DEF SwitchInv, OwnedInv
<1> USE DEF supVars, switchVars, waitVars, clientVars, fileVars
<1>1. CASE child' = None
  BY <1>1 DEF StopIsAsked
<1>2. CASE SupervisorBegins \/ BackoffEnds
  BY <1>2, <1>a DEF SupervisorBegins, BackoffEnds, HandleInv, StopIsAsked
<1>3. CASE SpawnWorker
  BY <1>3, <1>a DEF SpawnWorker, StopIsAsked, TypeOK
<1>4. CASE ForceCycle
  <2>1. work' = work \/ work' = [work EXCEPT ![child] = "exit1"]
    BY <1>4 DEF ForceCycle, Ended
  <2>2. QED
    BY <1>4, <1>a, <2>1 DEF ForceCycle, StopIsAsked, TypeOK
<1>5. CASE WorkerSurvives \/ SeeExit \/ TakeSwitchRequest
  <2>1. candidate # None => candidate' # None
    BY <1>5 DEF WorkerSurvives, SeeExit, TakeSwitchRequest
  <2>2. QED
    BY <1>5, <2>1, RequestsKeepAsked DEF WorkerSurvives, SeeExit, TakeSwitchRequest
<1>6. CASE Judgement \/ SpawnNothing \/ SupervisorDies
  BY <1>1, <1>6
     DEF Judgement, RevertProfile, FirstBootFails, AdoptProfile, EndRuntime,
         ScheduleRestart, CloseWorker, SpawnNothing, SupervisorDies, SupervisorTerminated,
         SupervisorGone
<1>7. QED
  BY <1>2, <1>3, <1>4, <1>5, <1>6 DEF SupervisorStep

LEMMA ClientKeepsAsked ==
  ASSUME SwitchInv, OwnedInv, NoStaleLaunch, StopIsAsked,
         NEW c \in Client, Command(c) \/ ClientStep(c)
  PROVE  StopIsAsked'
<1>a. TypeOK /\ HandleInv
  BY DEF SwitchInv, OwnedInv
<1> USE DEF Quiet, supVars, switchVars, waitVars, clientVars, fileVars, ClientGoes
<1>1. CASE Launch(c)
  BY <1>1, <1>a DEF Launch, NoStaleLaunch, HandleInv, StopIsAsked
<1>2. CASE KillSupervisor(c)
  BY <1>2 DEF KillSupervisor, SupervisorTerminated, StopIsAsked
<1>3. CASE KillWorker(c)
  <2>1. UNCHANGED <<child, killed, stopFile, candidate>>
    BY <1>3 DEF KillWorker
  <2>2. \/ work' = work
        \/ \E code \in {"exit1", "none"} : work' = [work EXCEPT ![lastWorker] = code]
    BY <1>3 DEF KillWorker, Ended
  <2>3. child # None /\ work'[child] \in {"stopping", "exit0"} =>
          work[child] \in {"stopping", "exit0"}
    BY <1>a, <2>2 DEF TypeOK
  <2>4. QED
    BY <2>1, <2>3, RequestsKeepAsked
<1>4. CASE /\ UNCHANGED <<child, killed, work, candidate>>
           /\ stopFile' \/ UNCHANGED stopFile
  BY <1>4, RequestsKeepAsked
<1>5. CASE SupervisorEnters(c)
  BY <1>4, <1>5 DEF SupervisorEnters
<1>6. QED
  BY <1>1, <1>2, <1>3, <1>4, <1>5
     DEF Command, StartCommand, StopCommand, ClientStep, Probe, ReadStatus, ProbeFails,
         ReportStopped, StopTimesOut, KillRefused, SupervisorSeenGone, Relaunch

LEMMA AskedStep ==
  ASSUME SwitchInv, OwnedInv, NoStaleLaunch, StopIsAsked, [Next]_vars
  PROVE  StopIsAsked'
<1>1. CASE RequestSwitch \/ UNCHANGED vars
  BY <1>1, RequestsKeepAsked DEF RequestSwitch, vars, supVars, waitVars, fileVars
<1>2. QED
  BY <1>1, WorkerKeepsAsked, SupervisorKeepsAsked, ClientKeepsAsked DEF Next

\* A healthy supervisor leaves its loop on its own only for a stop request.
LEMMA LeavesWhenAsked ==
  ASSUME HandleInv, StopIsAsked, [Next]_vars, good, sup # "off", sup' = "off"
  PROVE  stopFile \/ killed'
<1> USE DEF supVars, switchVars, waitVars, clientVars, fileVars, Quiet
<1>1. CASE SpawnNothing \/ SupervisorDies
  BY <1>1 DEF SpawnNothing, SupervisorDies, SupervisorTerminated
<1>2. CASE EndRuntime
  <2>1. child # None
    BY <1>2, SupervisorAssumption DEF EndRuntime, HandleInv
  <2>2. QED
    BY <1>2, <2>1 DEF EndRuntime, CleanCycle, NothingLeft, StopIsAsked
<1>3. CASE Judgement /\ ~EndRuntime
  BY <1>3
     DEF Judgement, RevertProfile, FirstBootFails, AdoptProfile, ScheduleRestart
<1>4. CASE SupervisorStep /\ ~Judgement /\ ~SpawnNothing
  BY <1>4
     DEF SupervisorStep, SupervisorBegins, SpawnWorker, WorkerSurvives, TakeSwitchRequest,
         ForceCycle, SeeExit, BackoffEnds
<1>5. ASSUME NEW c \in Client, Command(c) \/ ClientStep(c)
      PROVE  killed' \/ sup' = sup \/ sup' = "begin"
  BY <1>5
     DEF Command, StartCommand, StopCommand, ClientStep, SupervisorEnters, Probe, Launch,
         ReadStatus, ProbeFails, ReportStopped, StopTimesOut, KillWorker, KillRefused,
         SupervisorSeenGone, KillSupervisor, SupervisorTerminated, Relaunch
<1>6. ASSUME NEW w \in Worker, WorkerStep(w) \/ WorkerFault(w)
      PROVE  sup' = sup
  BY <1>6
     DEF WorkerStep, WorkerFault, WorkerEnters, WorkerOpens, WorkerLoops, WorkerStops,
         WorkerExits, WorkerAborts, WorkerRefuses, WorkerDies, WorkerHangs
<1>7. CASE RequestSwitch \/ UNCHANGED vars
  BY <1>7 DEF RequestSwitch, vars
<1>8. QED
  BY <1>1, <1>2, <1>3, <1>4, <1>5, <1>6, <1>7 DEF Next

\* Once a worker was healthy, only an operator's stop ends the runtime, for any number
\* of commands of which no launch clears the stop request after its probe went stale.
THEOREM StopEndsOnlyOnRequest == Spec /\ []NoStaleLaunch => OnlyStopEndsTheRuntime
<1>1. Init => StopIsAsked
  BY DEF Init, StopIsAsked
<1>2. SwitchInv /\ OwnedInv /\ NoStaleLaunch /\ StopIsAsked /\ [Next]_vars => StopIsAsked'
  BY AskedStep
<1>3. OwnedInv /\ StopIsAsked /\ [Next]_vars =>
        [good /\ sup # "off" /\ sup' = "off" => stopFile \/ killed']_vars
  BY LeavesWhenAsked DEF OwnedInv
<1>4. QED
  BY <1>1, <1>2, <1>3, OwnedInvariant, PTL DEF Spec, OnlyStopEndsTheRuntime


\* A single command cannot be overtaken by another one.
LEMMA OneLaunchIsFresh ==
  ASSUME \A c, d \in Client : c = d
  PROVE  Spec => []NoStaleLaunch
<1>1. Init => NoStaleLaunch
  BY DEF Init, NoStaleLaunch
<1>2. ASSUME TypeOK, NoStaleLaunch, [Next]_vars
      PROVE  NoStaleLaunch'
  <2> USE DEF Quiet, ClientGoes, supVars, clientVars
  <2>1. CASE UNCHANGED client /\ (sup = "off" => sup' = "off")
    BY <1>2, <2>1 DEF NoStaleLaunch
  <2>2. CASE SupervisorStep \/ SupervisorDies \/ RequestSwitch \/ UNCHANGED vars
    <3>1. UNCHANGED client
      BY <2>2
         DEF SupervisorStep, SupervisorBegins, SpawnWorker, SpawnNothing, WorkerSurvives,
             TakeSwitchRequest, ForceCycle, SeeExit, Judgement, RevertProfile,
             FirstBootFails, AdoptProfile, EndRuntime, ScheduleRestart, BackoffEnds,
             SupervisorDies, RequestSwitch, vars
    <3>2. sup = "off" => sup' = "off"
      BY <2>2
         DEF SupervisorStep, SupervisorBegins, SpawnWorker, SpawnNothing, WorkerSurvives,
             TakeSwitchRequest, ForceCycle, SeeExit, Judgement, RevertProfile,
             FirstBootFails, AdoptProfile, EndRuntime, ScheduleRestart, BackoffEnds,
             SupervisorDies, RequestSwitch, vars
    <3>3. QED
      BY <2>1, <3>1, <3>2
  <2>3. ASSUME NEW w \in Worker, WorkerStep(w) \/ WorkerFault(w)
        PROVE  NoStaleLaunch'
    <3>1. UNCHANGED <<client, sup>>
      BY <2>3
         DEF WorkerStep, WorkerFault, WorkerEnters, WorkerOpens, WorkerLoops, WorkerStops,
             WorkerExits, WorkerAborts, WorkerRefuses, WorkerDies, WorkerHangs
    <3>2. QED
      BY <2>1, <3>1
  <2>4. ASSUME NEW c \in Client, Command(c) \/ ClientStep(c)
        PROVE  NoStaleLaunch'
    <3>1. \A d \in Client : d = c
      OBVIOUS
    <3>2. client'[c] = "probed" => sup' = "off"
      BY <1>2, <2>4
         DEF TypeOK, NoStaleLaunch, Command, StartCommand, StopCommand, ClientStep,
             SupervisorEnters, Probe, Launch, ReadStatus, ProbeFails, ReportStopped,
             StopTimesOut, KillWorker, KillRefused, SupervisorSeenGone, KillSupervisor,
             SupervisorTerminated, SupervisorGone, Relaunch
    <3>3. QED
      BY <3>1, <3>2 DEF NoStaleLaunch
  <2>5. QED
    BY <1>2, <2>2, <2>3, <2>4 DEF Next
<1>3. SwitchInv => TypeOK
  BY DEF SwitchInv
<1>4. QED
  BY <1>1, <1>2, <1>3, SwitchInvariant, PTL DEF Spec

\* With one operator command at a time no probe goes stale: neither a crash nor a
\* profile switch ends a runtime that was healthy once.
THEOREM OneOperatorEndsOnlyOnRequest ==
  ASSUME \A c, d \in Client : c = d
  PROVE  Spec => OnlyStopEndsTheRuntime
<1>1. QED
  BY OneLaunchIsFresh, StopEndsOnlyOnRequest, PTL

-----------------------------------------------------------------------------
(* What the supervisor and the commands assume of a worker.                *)

\* The moves a worker makes, or has made for it, in one step.
WorkMoves(w) ==
  \/ work'[w] = work[w]
  \/ work[w] = "none" /\ work'[w] = "starting"
  \/ work[w] = "starting" /\ work'[w] = "booting"
  \/ work[w] = "booting" /\ work'[w] = "opening"
  \/ work[w] = "opening" /\ work'[w] = "running"
  \/ work[w] = "running" /\ work'[w] = "stopping" /\ (stopFile \/ cycleFile)
  \/ work[w] = "running" /\ work'[w] = "aborting"
  \/ work[w] = "stopping" /\ work'[w] = "exit0"
  \/ work[w] \in Living /\ work'[w] \in {"hung", "exit1", "none"}
  \/ work[w] \in Exited /\ work'[w] = "none"

LEMMA MovesAreLifecycle ==
  ASSUME TypeOK, TypeOK', \A w \in Worker : WorkMoves(w)
  PROVE  Lifecycle!Next
<1>a. /\ stopFile \in BOOLEAN /\ cycleFile \in BOOLEAN
      /\ stopFile' \in BOOLEAN /\ cycleFile' \in BOOLEAN
      /\ work \in [Worker -> {"none"} \cup Living \cup Exited]
      /\ work' \in [Worker -> {"none"} \cup Living \cup Exited]
  BY DEF TypeOK
<1> DEFINE life == [w \in Worker |-> LifeOf(w)]
<1>1. \A w \in Worker : life[w] = LifeOf(w) /\ life'[w] = LifeOf(w)'
  OBVIOUS
<1>2. ASSUME NEW w \in Worker
      PROVE  LifeOf(w)' \in Lifecycle!Over \cup Lifecycle!Live
  BY <1>a DEF LifeOf, Lifecycle!Over, Lifecycle!Live, Living, Holding, Exited
<1>3. ASSUME NEW w \in Worker
      PROVE  life'[w] = life[w] \/ Lifecycle!Step(w)
  <2>1. WorkMoves(w)
    OBVIOUS
  <2>2. \/ LifeOf(w)' = LifeOf(w)
        \/ LifeOf(w) = "gone" /\ LifeOf(w)' = "starting"
        \/ LifeOf(w) = "starting" /\ LifeOf(w)' = "running"
        \/ LifeOf(w) = "running" /\ LifeOf(w)' = "stopping" /\ (stopFile \/ cycleFile)
        \/ LifeOf(w) = "running" /\ LifeOf(w)' = "aborting"
        \/ LifeOf(w) = "stopping" /\ LifeOf(w)' = "exit0"
        \/ LifeOf(w) \in Lifecycle!Live /\ LifeOf(w)' \in {"hung", "exit1", "gone"}
        \/ LifeOf(w) \in {"exit0", "exit1"} /\ LifeOf(w)' = "gone"
    BY <2>1, <1>a DEF WorkMoves, LifeOf, Lifecycle!Live, Living, Holding, Exited
  <2> HIDE DEF life
  <2> QED
    BY <1>1, <2>2
       DEF Lifecycle!Step, Lifecycle!Begins, Lifecycle!Loops, Lifecycle!Stops,
           Lifecycle!Aborts, Lifecycle!Hangs, Lifecycle!Succeeds, Lifecycle!Fails,
           Lifecycle!Forgets, Lifecycle!Becomes, Lifecycle!Over, life
<1> QED
  BY <1>a, <1>1, <1>2, <1>3 DEF Lifecycle!Next

LEMMA WorkerMoves ==
  ASSUME TypeOK, NEW v \in Worker, WorkerStep(v) \/ WorkerFault(v)
  PROVE  \A w \in Worker : WorkMoves(w)
<1>1. \A life : work' = [work EXCEPT ![v] = life] =>
        work'[v] = life /\ \A w \in Worker \ {v} : work'[w] = work[w]
  BY DEF TypeOK
<1>2. WorkMoves(v) /\ \A w \in Worker \ {v} : work'[w] = work[w]
  <2> USE DEF WorkMoves, Ended, Living, Holding
  <2>1. CASE WorkerEnters(v) \/ WorkerOpens(v) \/ WorkerLoops(v) \/ WorkerStops(v)
    BY <1>1, <2>1 DEF WorkerEnters, WorkerOpens, WorkerLoops, WorkerStops
  <2>2. CASE WorkerExits(v) \/ WorkerAborts(v) \/ WorkerRefuses(v)
    BY <1>1, <2>2 DEF WorkerExits, WorkerAborts, WorkerRefuses
  <2>3. CASE WorkerDies(v) \/ WorkerHangs(v)
    BY <1>1, <2>3 DEF WorkerDies, WorkerHangs, Alive
  <2> QED BY <2>1, <2>2, <2>3 DEF WorkerStep, WorkerFault
<1> QED BY <1>2 DEF WorkMoves

LEMMA OthersMoveWorkers ==
  ASSUME TypeOK, OwnedInv,
         SupervisorStep \/ SupervisorDies \/ RequestSwitch \/ UNCHANGED vars
           \/ \E c \in Client : Command(c) \/ ClientStep(c)
  PROVE  \A w \in Worker : WorkMoves(w)
<1>1. CASE UNCHANGED work
  BY <1>1 DEF WorkMoves
<1>2. CASE SpawnWorker
  BY <1>2 DEF SpawnWorker, FreshPid, WorkMoves, TypeOK
<1>3. CASE \E w \in Worker : Alive(w) /\ (Ended(w, "exit1"))
  BY <1>3 DEF Ended, Alive, WorkMoves, TypeOK
<1>4. CASE sup = "judge" /\ work' = [work EXCEPT ![child] = "none"]
  BY <1>4 DEF OwnedInv, HandleInv, WorkMoves, TypeOK
<1>5. CASE work' = [w \in Worker |-> IF work[w] \in Exited THEN "none" ELSE work[w]]
  BY <1>5 DEF WorkMoves
<1>6. ASSUME NEW c \in Client, Command(c) \/ ClientStep(c)
      PROVE  \A w \in Worker : WorkMoves(w)
  <2>1. CASE KillWorker(c)
    BY <1>1, <1>3, <2>1 DEF KillWorker, TypeOK
  <2>2. CASE KillSupervisor(c)
    BY <1>5, <2>2 DEF KillSupervisor
  <2> QED
    BY <1>1, <1>6, <2>1, <2>2
       DEF Command, StartCommand, StopCommand, ClientStep, SupervisorEnters, Probe, Launch,
           ReadStatus, ProbeFails, ReportStopped, StopTimesOut, KillRefused,
           SupervisorSeenGone, Relaunch, Quiet
<1>7. CASE ForceCycle
  BY <1>1, <1>3, <1>7 DEF ForceCycle, OwnedInv, HandleInv
<1>8. CASE Judgement
  BY <1>4, <1>8
     DEF Judgement, RevertProfile, FirstBootFails, AdoptProfile, EndRuntime,
         ScheduleRestart, CloseWorker
<1>9. CASE SupervisorDies
  BY <1>5, <1>9 DEF SupervisorDies
<1> QED
  BY <1>1, <1>2, <1>6, <1>7, <1>8, <1>9
     DEF SupervisorStep, SupervisorBegins, SpawnNothing, WorkerSurvives, TakeSwitchRequest,
         SeeExit, BackoffEnds, RequestSwitch, vars

\* Supervisor and commands, however many, ask nothing more of a worker than what its
\* own model implements.
THEOREM WorkersFollowLifecycle == Spec => LifecycleSpec
<1>1. Init => Lifecycle!Init
  BY DEF Init, LifeOf, Lifecycle!Init
<1>2. SwitchInv /\ SwitchInv' /\ OwnedInv /\ [Next]_vars => [Lifecycle!Next]_(Lifecycle!vars)
  BY MovesAreLifecycle, WorkerMoves, OthersMoveWorkers DEF SwitchInv, Next
<1> QED
  BY <1>1, <1>2, OwnedInvariant, PTL DEF Spec, LifecycleSpec, Lifecycle!Spec
=============================================================================
