---------------------------- MODULE Configuration ----------------------------
(***************************************************************************)
(* From a name to the channels a worker drives (control/machine_profile,   *)
(* profile_composition, control_config, control_loop_config,               *)
(* profile_switch_decision; platform/machine_identity; app/app_main): every *)
(* process resolves and loads its configuration for itself, from files     *)
(* that may be edited in between, and talks to the others through the      *)
(* runtime home it has loaded.                                             *)
(*                                                                         *)
(* A document is reduced to its runtime home, the minimum duties it asks   *)
(* for, whether it composes a machine base with a behavior overlay, and    *)
(* how much of it the two loaders accept.  Supervisor models the           *)
(* supervisor in full; here a worker is one whose failures it has seen.    *)
(***************************************************************************)
EXTENDS Naturals

CONSTANTS
  Home,      \* runtime homes
  Output,    \* fan channels
  Profile,   \* names of the profile catalog
  Control,   \* the built-in default configuration file
  Contents,  \* what a configuration file may hold
  Machines,  \* what the machine base may say: duties, Missing if excluded
  MaxEdits,  \* bound: edits of the files
  Missing

ASSUME ConfigurationAssumption ==
  /\ Control \notin Profile
  /\ Missing \notin Home /\ Missing \notin Profile /\ Missing \notin Contents
  /\ Missing # Control
  /\ MaxEdits \in Nat

VARIABLES
  file,    \* file[p]: the document under that name
  machine, \* the machine base
  env,     \* SVG_MB_PROFILE
  host,    \* the machine identity
  edits,   \* number of edits so far
  sup,     \* the supervisor: place, home, active and last good profile,
           \* have_seen_good_worker, revert_armed
  pick,    \* the profile of a committed switch
  asked,   \* profile.switch.request.json
  stops,   \* homes with a stop request
  cycles,  \* homes with a profile-cycle request
  run      \* the worker: place, profile, home, floors, the base under them

filesVars  == <<file, machine, env, host, edits>>
queueVars  == <<asked, stops, cycles>>
configVars == <<filesVars, sup, pick, queueVars, run>>

Nobody == [at |-> "none", profile |-> Missing, home |-> Missing, floors |-> Missing,
           under |-> Missing]

ConfigInit ==
  /\ file \in [Profile \cup {Control} -> Contents \cup {Missing}] /\ file[Control] # Missing
  /\ machine \in Machines
  /\ env \in Profile \cup {Missing} /\ host \in Profile
  /\ edits = 0
  /\ sup = [at |-> "off", home |-> Missing, active |-> Missing, lkg |-> Missing,
            good |-> FALSE, armed |-> FALSE]
  /\ pick = Missing /\ asked = Missing /\ stops = {} /\ cycles = {}
  /\ run = Nobody

-----------------------------------------------------------------------------
(* Resolution, composition and loading.                                    *)

Lookup(p) == IF p # Missing /\ file[p] # Missing THEN p ELSE Missing

ByHost == IF Lookup(host) # Missing THEN Lookup(host) ELSE Control
Named(flag) == IF flag # Missing THEN flag ELSE env

\* Mutant: the environment goes before an explicit configuration.
ResolveEnvFirst(config, flag) ==
  CASE env # Missing                        -> Lookup(env)
    [] env = Missing /\ config # Missing    -> config
    [] env = config /\ Named(flag) # Missing -> Lookup(flag)
    [] OTHER                                -> ByHost

\* An unknown name is an error (Missing) only where it was chosen explicitly.
Resolve(config, flag) ==
  CASE config # Missing                           -> config
    [] config = Missing /\ Named(flag) # Missing  -> Lookup(Named(flag))
    [] OTHER                                      -> ByHost

Asks(d) == {c \in Output : d.asks[c] # Missing}
ControlledChannels == {c \in Output : machine[c] # Missing}

\* Mutant: an overlay's channel that the base does not control is let through.
ComposesAnything(d) == TRUE

Composes(d) == d.composed => Asks(d) \subseteq ControlledChannels

\* The duties of the base replace those of the overlay.
ComposedFloors(d) ==
  [c \in Output |-> IF d.composed /\ c \in Asks(d) \cap ControlledChannels
                     THEN machine[c] ELSE d.asks[c]]

LoadsConfig(p) == p # Missing /\ file[p] # Missing /\ file[p].parses # "none" /\ Composes(file[p])
LoadsLoop(p)   == LoadsConfig(p) /\ file[p].parses = "loop" /\ Asks(file[p]) # {}

-----------------------------------------------------------------------------
(* The worker.                                                             *)

WorkerEnds(how) == run' = [run EXCEPT !.at = how]

\* The worker's own command line names the configuration.
LoadConfig ==
  LET p == Resolve(sup.active, Missing) IN
  /\ run.at = "started"
  /\ IF LoadsConfig(p)
     THEN run' = [run EXCEPT !.at = "loading", !.profile = p, !.home = file[p].home]
     ELSE WorkerEnds("exit1")
  /\ UNCHANGED <<filesVars, sup, pick, queueVars>>

LoadLoop ==
  /\ run.at = "loading"
  /\ IF LoadsLoop(run.profile)
     THEN /\ run' = [run EXCEPT !.at = "driving",
                                !.floors = ComposedFloors(file[run.profile]),
                                !.under = IF file[run.profile].composed THEN machine ELSE Missing]
          /\ stops' = stops \ {run.home}
     ELSE WorkerEnds("exit1") /\ UNCHANGED stops
  /\ UNCHANGED <<filesVars, sup, pick, asked, cycles>>

HearRequest ==
  /\ run.at = "driving" /\ run.home \in stops \cup cycles
  /\ WorkerEnds("exit0")
  /\ UNCHANGED <<filesVars, sup, pick, queueVars>>

WorkerFails ==
  /\ \/ run.at \in {"loading", "driving"} /\ WorkerEnds("exit1")
     \/ run.at = "driving" /\ WorkerEnds("hung")
  /\ UNCHANGED <<filesVars, sup, pick, queueVars>>

-----------------------------------------------------------------------------
(* The supervisor and the operator's commands.                             *)

\* The launcher resolves, the supervisor takes its home from what it loads.
LaunchSupervisor ==
  /\ sup.at = "off" /\ run.at = "none"
  /\ \E flag \in Profile \cup {Missing}, config \in {Control, Missing} :
       LET p == Resolve(config, flag) IN
       /\ LoadsConfig(p)
       /\ sup' = [at |-> "spawn", home |-> file[p].home, active |-> p, lkg |-> p,
                  good |-> FALSE, armed |-> FALSE]
       /\ stops' = stops \ {file[p].home} /\ cycles' = cycles \ {file[p].home}
  /\ UNCHANGED <<filesVars, pick, asked, run>>

StartWorker ==
  /\ sup.at = "spawn"
  /\ IF sup.home \in stops
     THEN sup' = [sup EXCEPT !.at = "off"] /\ UNCHANGED run
     ELSE sup' = [sup EXCEPT !.at = "startup"] /\ run' = [Nobody EXCEPT !.at = "started"]
  /\ UNCHANGED <<filesVars, pick, queueVars>>

Lives == run.at \in {"started", "loading", "driving", "hung"}

\* A worker that loads at all does so within the startup window.
SurviveStartup ==
  /\ sup.at = "startup" /\ run.at \in {"driving", "hung"}
  /\ sup' = [sup EXCEPT !.at = "watch", !.good = TRUE, !.lkg = sup.active,
                           !.armed = FALSE]
  /\ UNCHANGED <<filesVars, pick, queueVars, run>>

DecideSwitchRequest ==
  /\ sup.at = "watch" /\ Lives /\ pick = Missing /\ asked # Missing
  /\ asked' = Missing
  /\ IF LoadsLoop(Lookup(asked))
     THEN pick' = asked /\ cycles' = cycles \cup {sup.home}
     ELSE UNCHANGED <<pick, cycles>>
  /\ UNCHANGED <<filesVars, sup, stops, run>>

ForceCycleOut ==
  /\ sup.at = "watch" /\ pick # Missing
  /\ run.at = "hung" \/ (run.at = "driving" /\ run.home # sup.home)
  /\ WorkerEnds("killed")
  /\ UNCHANGED <<filesVars, sup, pick, queueVars>>

Stopping == sup.home \in stops
Reverts  == sup.at = "startup" /\ sup.armed /\ run.at = "exit1" /\ ~Stopping
Unborn   == sup.at = "startup" /\ ~sup.good /\ run.at = "exit1" /\ ~Stopping
Adopts   == pick # Missing /\ run.at # "exit1" /\ ~Stopping
Finishes == Unborn \/ Stopping \/ run.at = "exit0"

JudgeExit ==
  /\ sup.at \in {"startup", "watch"} /\ run.at \in {"exit0", "exit1", "killed"}
  /\ \/ Reverts
        /\ sup' = [sup EXCEPT !.at = "spawn", !.active = sup.lkg, !.armed = FALSE]
     \/ ~Reverts /\ Adopts
        /\ sup' = [sup EXCEPT !.at = "spawn", !.active = pick, !.armed = TRUE]
     \/ ~Reverts /\ ~Adopts /\ Finishes
        /\ sup' = [sup EXCEPT !.at = "off"]
     \/ ~Reverts /\ ~Adopts /\ ~Finishes
        /\ sup' = [sup EXCEPT !.at = "spawn"]
  /\ cycles' = IF pick # Missing \/ Reverts THEN cycles \ {sup.home} ELSE cycles
  /\ run' = Nobody /\ pick' = Missing
  /\ UNCHANGED <<filesVars, asked, stops>>

\* A request waits unread until a worker is watched: asking earlier is the same.
AskSwitch ==
  /\ sup.at = "watch" /\ asked = Missing
  /\ asked' \in Profile
  /\ UNCHANGED <<filesVars, sup, pick, stops, cycles, run>>

AskEnd ==
  /\ sup.at # "off"
  /\ stops' = stops \cup {sup.home}
  /\ UNCHANGED <<filesVars, sup, pick, asked, cycles, run>>

\* An operator edits a profile or the machine base.
EditFile ==
  /\ edits < MaxEdits
  /\ edits' = edits + 1
  /\ \/ /\ machine' \in Machines
        /\ UNCHANGED file
     \/ /\ \E p \in Profile, d \in Contents \cup {Missing} : file' = [file EXCEPT ![p] = d]
        /\ UNCHANGED machine
  /\ UNCHANGED <<env, host, sup, pick, queueVars, run>>

WorkerGoes == LoadConfig \/ LoadLoop \/ HearRequest
SupervisorGoes ==
  StartWorker \/ SurviveStartup \/ DecideSwitchRequest \/ ForceCycleOut \/ JudgeExit

ConfigNext ==
  \/ WorkerGoes \/ WorkerFails
  \/ LaunchSupervisor \/ SupervisorGoes
  \/ AskSwitch \/ AskEnd \/ EditFile

ConfigSpec ==
  /\ ConfigInit /\ [][ConfigNext]_configVars
  /\ WF_configVars(WorkerGoes) /\ WF_configVars(SupervisorGoes)

-----------------------------------------------------------------------------
(* Properties.                                                             *)

\* Through every switch, revert, restart and edit, what a worker drives of a
\* composed profile is controlled by the machine base it was composed with,
\* and at that base's minimum duties: an overlay cannot bring in a fan that
\* the machine excludes, nor lower a floor (ComposeConfigRoot).
DrivenWithinTheMachine ==
  run.under # Missing =>
    \A c \in Output : run.floors[c] # Missing => run.floors[c] = run.under[c]

\* The worker drives the profile its supervisor holds to be active, whatever
\* the environment and the machine identity name: a switch or a revert is never
\* overruled by what selected the profile at launch (ResolveProfileSelection).
WorkerRunsTheActiveProfile ==
  run.profile # Missing => run.profile = sup.active

\* docs/CONTROL_LOOP.md: after --stop the worker exits through the normal path.
\* It need not, once a profile with a runtime home of its own was switched in.
StopReachesTheWorker ==
  sup.home \in stops /\ run.at = "driving" ~> run.at # "driving"
=============================================================================
