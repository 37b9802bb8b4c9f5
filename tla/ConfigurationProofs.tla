-------------------------- MODULE ConfigurationProofs --------------------------
(***************************************************************************)
(* Proofs about Configuration: which profile a worker drives, and within    *)
(* which machine base, for any profiles, outputs, files and edits.         *)
(***************************************************************************)
EXTENDS Configuration, TLAPS

\* The fields of the two processes.
Fields ==
  /\ run = [at |-> run.at, profile |-> run.profile, home |-> run.home,
            floors |-> run.floors, under |-> run.under]
  /\ sup = [at |-> sup.at, home |-> sup.home, active |-> sup.active, lkg |-> sup.lkg,
            good |-> sup.good, armed |-> sup.armed]

\* A worker lives under a supervisor that has a profile for it and one to go back to.
Supervised ==
  /\ run.at = "none" => run = Nobody
  /\ run.at # "none" => sup.at \in {"startup", "watch"}
  /\ sup.at # "off" => sup.active # Missing /\ sup.lkg # Missing

ConfigInv == Fields /\ Supervised /\ DrivenWithinTheMachine /\ WorkerRunsTheActiveProfile

\* A name that is given is the one that is resolved.
LEMMA NamedConfigResolves ==
  ASSUME NEW p, p # Missing, NEW flag
  PROVE  Resolve(p, flag) = p
BY DEF Resolve

\* What composes has no duty but the base's.
LEMMA ComposedDutiesAreTheBases ==
  ASSUME NEW d, d.composed, Composes(d), NEW c \in Output, ComposedFloors(d)[c] # Missing
  PROVE  ComposedFloors(d)[c] = machine[c]
BY DEF Composes, ComposedFloors, Asks, ControlledChannels

\* Steps of a worker that has its duties keep them.
LEMMA WorkerEndsKeeps ==
  ASSUME ConfigInv, NEW how \in {"exit0", "exit1", "hung", "killed"}, WorkerEnds(how),
         run.at # "none", sup' = sup
  PROVE  ConfigInv'
<1>1. run' = [at |-> how, profile |-> run.profile, home |-> run.home,
              floors |-> run.floors, under |-> run.under]
  BY DEF WorkerEnds, ConfigInv, Fields
<1>2. /\ run'.at = how /\ run'.profile = run.profile /\ run'.home = run.home
      /\ run'.floors = run.floors /\ run'.under = run.under
  BY <1>1
<1>3. Fields'
  BY <1>1, <1>2 DEF ConfigInv, Fields
<1>4. Supervised'
  BY <1>2 DEF ConfigInv, Supervised
<1> QED
  BY <1>2, <1>3, <1>4 DEF ConfigInv, DrivenWithinTheMachine, WorkerRunsTheActiveProfile

\* Without a worker there is nothing to keep but the supervisor's profiles.
LEMMA NobodyKeeps ==
  ASSUME run' = Nobody,
         NEW s, sup' = s,
         s = [at |-> s.at, home |-> s.home, active |-> s.active, lkg |-> s.lkg,
              good |-> s.good, armed |-> s.armed],
         s.at # "off" => s.active # Missing /\ s.lkg # Missing
  PROVE  ConfigInv'
BY DEF ConfigInv, Fields, Supervised, DrivenWithinTheMachine, WorkerRunsTheActiveProfile, Nobody

LEMMA WorkerKeeps ==
  ASSUME ConfigInv, WorkerGoes \/ WorkerFails
  PROVE  ConfigInv'
<1>1. CASE LoadConfig
  <2> DEFINE p == Resolve(sup.active, Missing)
  <2>1. run.at = "started" /\ sup' = sup
    BY <1>1 DEF LoadConfig
  <2>2. CASE WorkerEnds("exit1")
    BY <2>1, <2>2, WorkerEndsKeeps
  <2>3. CASE run' = [run EXCEPT !.at = "loading", !.profile = p, !.home = file[p].home]
    <3>1. p = sup.active
      BY <2>1, NamedConfigResolves DEF ConfigInv, Supervised
    <3>2. run' = [at |-> "loading", profile |-> p, home |-> file[p].home,
                  floors |-> run.floors, under |-> run.under]
      BY <2>3 DEF ConfigInv, Fields
    <3> HIDE DEF p
    <3>3. /\ run'.at = "loading" /\ run'.profile = p /\ run'.home = file[p].home
          /\ run'.floors = run.floors /\ run'.under = run.under
      BY <3>2
    <3>4. Fields'
      BY <2>1, <3>2, <3>3 DEF ConfigInv, Fields
    <3>5. Supervised'
      BY <2>1, <3>3 DEF ConfigInv, Supervised
    <3> QED
      BY <2>1, <3>1, <3>3, <3>4, <3>5
         DEF ConfigInv, DrivenWithinTheMachine, WorkerRunsTheActiveProfile
  <2> QED BY <1>1, <2>2, <2>3 DEF LoadConfig
<1>2. CASE LoadLoop
  <2>1. run.at = "loading" /\ sup' = sup
    BY <1>2 DEF LoadLoop
  <2>2. CASE WorkerEnds("exit1")
    BY <2>1, <2>2, WorkerEndsKeeps
  <2>3. CASE ~WorkerEnds("exit1")
    <3> DEFINE d == file[run.profile]
               floors == ComposedFloors(d)
               under == IF d.composed THEN machine ELSE Missing
    <3>1. /\ LoadsLoop(run.profile)
          /\ run' = [run EXCEPT !.at = "driving", !.floors = floors, !.under = under]
      BY <1>2, <2>3 DEF LoadLoop
    <3>2. under # Missing => \A c \in Output : floors[c] # Missing => floors[c] = under[c]
      BY <3>1, ComposedDutiesAreTheBases DEF LoadsLoop, LoadsConfig
    <3> HIDE DEF d, floors, under
    <3>3. run' = [at |-> "driving", profile |-> run.profile, home |-> run.home,
                  floors |-> floors, under |-> under]
      BY <3>1 DEF ConfigInv, Fields
    <3>4. /\ run'.at = "driving" /\ run'.profile = run.profile /\ run'.home = run.home
          /\ run'.floors = floors /\ run'.under = under
      BY <3>3
    <3>5. Fields'
      BY <2>1, <3>3, <3>4 DEF ConfigInv, Fields
    <3>6. Supervised'
      BY <2>1, <3>4 DEF ConfigInv, Supervised
    <3> QED
      BY <2>1, <3>2, <3>4, <3>5, <3>6
         DEF ConfigInv, DrivenWithinTheMachine, WorkerRunsTheActiveProfile
  <2> QED BY <2>2, <2>3
<1>3. CASE HearRequest
  BY <1>3, WorkerEndsKeeps DEF HearRequest
<1>4. CASE WorkerFails
  <2>1. /\ run.at \in {"loading", "driving"} /\ sup' = sup
        /\ WorkerEnds("exit1") \/ WorkerEnds("hung")
    BY <1>4 DEF WorkerFails
  <2> QED BY <2>1, WorkerEndsKeeps
<1> QED BY <1>1, <1>2, <1>3, <1>4 DEF WorkerGoes

LEMMA SupervisorKeeps ==
  ASSUME ConfigInv, LaunchSupervisor \/ SupervisorGoes
  PROVE  ConfigInv'
<1>1. CASE LaunchSupervisor
  <2>1. PICK p : /\ LoadsConfig(p)
                 /\ sup' = [at |-> "spawn", home |-> file[p].home, active |-> p, lkg |-> p,
                            good |-> FALSE, armed |-> FALSE]
    BY <1>1 DEF LaunchSupervisor
  <2>2. run' = Nobody
    BY <1>1 DEF LaunchSupervisor, ConfigInv, Supervised
  <2> QED BY <2>1, <2>2, NobodyKeeps DEF LoadsConfig
<1>2. CASE StartWorker
  <2>1. sup.at = "spawn" /\ run = Nobody /\ sup.active # Missing /\ sup.lkg # Missing
    BY <1>2 DEF StartWorker, ConfigInv, Supervised
  <2>2. sup = [at |-> sup.at, home |-> sup.home, active |-> sup.active, lkg |-> sup.lkg,
               good |-> sup.good, armed |-> sup.armed]
    BY DEF ConfigInv, Fields
  <2>3. CASE sup' = [sup EXCEPT !.at = "off"] /\ run' = run
    <3>1. sup' = [at |-> "off", home |-> sup.home, active |-> sup.active, lkg |-> sup.lkg,
                  good |-> sup.good, armed |-> sup.armed]
      BY <2>2, <2>3
    <3> QED BY <2>1, <2>3, <3>1, NobodyKeeps
  <2>4. CASE sup' = [sup EXCEPT !.at = "startup"] /\ run' = [Nobody EXCEPT !.at = "started"]
    <3>1. /\ sup' = [at |-> "startup", home |-> sup.home, active |-> sup.active,
                     lkg |-> sup.lkg, good |-> sup.good, armed |-> sup.armed]
          /\ run' = [at |-> "started", profile |-> Missing, home |-> Missing,
                     floors |-> Missing, under |-> Missing]
      BY <2>2, <2>4 DEF Nobody
    <3> QED
      BY <2>1, <3>1
         DEF ConfigInv, Fields, Supervised, DrivenWithinTheMachine, WorkerRunsTheActiveProfile
  <2> QED BY <1>2, <2>3, <2>4 DEF StartWorker
<1>3. CASE SurviveStartup
  <2>1. /\ sup' = [at |-> "watch", home |-> sup.home, active |-> sup.active,
                   lkg |-> sup.active, good |-> TRUE, armed |-> FALSE]
        /\ run' = run /\ sup.at = "startup"
    BY <1>3 DEF SurviveStartup, ConfigInv, Fields
  <2> QED
    BY <2>1
       DEF ConfigInv, Fields, Supervised, DrivenWithinTheMachine, WorkerRunsTheActiveProfile
<1>4. CASE DecideSwitchRequest
  <2>1. sup' = sup /\ run' = run
    BY <1>4 DEF DecideSwitchRequest
  <2> QED
    BY <2>1
       DEF ConfigInv, Fields, Supervised, DrivenWithinTheMachine, WorkerRunsTheActiveProfile
<1>5. CASE ForceCycleOut
  BY <1>5, WorkerEndsKeeps DEF ForceCycleOut
<1>6. CASE JudgeExit
  <2>1. run' = Nobody /\ sup.active # Missing /\ sup.lkg # Missing
    BY <1>6 DEF JudgeExit, ConfigInv, Supervised
  <2>2. sup = [at |-> sup.at, home |-> sup.home, active |-> sup.active, lkg |-> sup.lkg,
               good |-> sup.good, armed |-> sup.armed]
    BY DEF ConfigInv, Fields
  <2>3. \E where, name, armed :
          /\ name # Missing
          /\ sup' = [at |-> where, home |-> sup.home, active |-> name, lkg |-> sup.lkg,
                     good |-> sup.good, armed |-> armed]
    <3>1. CASE sup' = [sup EXCEPT !.at = "spawn", !.active = sup.lkg, !.armed = FALSE]
      BY <2>1, <2>2, <3>1
    <3>2. CASE Adopts /\ sup' = [sup EXCEPT !.at = "spawn", !.active = pick, !.armed = TRUE]
      BY <2>1, <2>2, <3>2 DEF Adopts
    <3>3. CASE sup' = [sup EXCEPT !.at = "off"] \/ sup' = [sup EXCEPT !.at = "spawn"]
      BY <2>1, <2>2, <3>3
    <3> QED BY <1>6, <3>1, <3>2, <3>3 DEF JudgeExit
  <2> QED BY <2>1, <2>3, NobodyKeeps
<1> QED BY <1>1, <1>2, <1>3, <1>4, <1>5, <1>6 DEF SupervisorGoes

\* Types aside, the invariant of the two processes holds all along.
THEOREM ConfigInvariant == ConfigSpec => []ConfigInv
<1>1. ConfigInit => ConfigInv
  BY DEF ConfigInit, ConfigInv, Fields, Supervised, DrivenWithinTheMachine,
         WorkerRunsTheActiveProfile, Nobody
<1>2. ConfigInv /\ [ConfigNext]_configVars => ConfigInv'
  <2> SUFFICES ASSUME ConfigInv, [ConfigNext]_configVars PROVE ConfigInv'
    OBVIOUS
  <2>1. CASE AskSwitch \/ AskEnd \/ EditFile \/ UNCHANGED configVars
    <3>1. sup' = sup /\ run' = run
      BY <2>1 DEF AskSwitch, AskEnd, EditFile, configVars
    <3> QED
      BY <3>1
         DEF ConfigInv, Fields, Supervised, DrivenWithinTheMachine, WorkerRunsTheActiveProfile
  <2> QED BY <2>1, WorkerKeeps, SupervisorKeeps DEF ConfigNext
<1> QED BY <1>1, <1>2, PTL DEF ConfigSpec

\* Through every switch, revert, restart and edit, a worker drives a composed profile
\* at the minimum duties of the machine base it was composed with, and no output
\* that the base excludes.
THEOREM DrivenWithinBase == ConfigSpec => []DrivenWithinTheMachine
<1>1. ConfigInv => DrivenWithinTheMachine
  BY DEF ConfigInv
<1> QED BY <1>1, ConfigInvariant, PTL

\* The worker drives the profile its supervisor holds to be active, whatever the
\* environment and the machine identity name.
THEOREM ActiveProfileRuns == ConfigSpec => []WorkerRunsTheActiveProfile
<1>1. ConfigInv => WorkerRunsTheActiveProfile
  BY DEF ConfigInv
<1> QED BY <1>1, ConfigInvariant, PTL
=============================================================================
