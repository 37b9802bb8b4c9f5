------------------------------- MODULE MCParts -------------------------------
(***************************************************************************)
(* The parts that work beside the write path, side by side in one instance *)
(* for TLC.  They share no state: a behaviour moves one of them, chosen at *)
(* the start, and leaves the others as they are.                           *)
(***************************************************************************)
EXTENDS MCPidLaw, MCLowBand, MCCounterWindows, CoreSweep, Sensors, OneShot,
        Heartbeat, ReadLoop, MCConfiguration

VARIABLE part   \* the part that moves

PartNames == {"pid", "low band", "counters", "sweeper", "sensors", "one-shot",
              "heartbeat", "reading", "config"}

partVars ==
  <<part, allVars, lbVars, windowVars, sweepVars, sensorVars,
    oneShotVars, heartVars, rlVars, configVars>>

\* A part that does not move has one initial state.
PidAtRest     == name = "plain" /\ cpu = None /\ gpu = None /\ scan
LowBandAtRest == lbCpu = NoReading /\ lbGpu = NoReading
HeartAtRest   == doc.state = "failed" /\ ~stopFile
FilesAtRest   == env = Missing /\ machine = Asked(1, Missing) /\ host = CHOOSE p \in Profile : TRUE
ReadAtRest    == rlMode = "read-loop" /\ ~stopAsked

\* Every file loads or is missing to begin with: an edit puts in the others.
FilesLoad == \A p \in Profile \cup {Control} : file[p] \in {Loading, Missing}
FilesRest == \A p \in Profile \cup {Control} : file[p] = Loading

PartsInit ==
  /\ part \in PartNames
  /\ PidInit     /\ (part # "pid" => PidAtRest)
  /\ LowBandInit /\ (part # "low band" => LowBandAtRest)
  /\ WindowInit  /\ (part # "counters" => source = "energy")
  /\ HeartInit   /\ (part # "heartbeat" => HeartAtRest)
  /\ ReadInit    /\ (part # "reading" => ReadAtRest)
  /\ ConfigInit  /\ FilesLoad /\ (part # "config" => FilesAtRest /\ FilesRest)
  /\ SweepInit /\ SensorInit /\ OneShotInit

LawVars  == <<allVars, lbVars>>
HardVars == <<windowVars, sweepVars, sensorVars>>
LoopVars == <<oneShotVars, heartVars, rlVars, configVars>>

LawMoves ==
  /\ \/ part = "pid"      /\ PidNext     /\ UNCHANGED lbVars
     \/ part = "low band" /\ LowBandNext /\ UNCHANGED allVars
  /\ UNCHANGED <<part, HardVars, LoopVars>>

HardwareMoves ==
  /\ \/ part = "counters" /\ WindowNext     /\ UNCHANGED <<sweepVars, sensorVars>>
     \/ part = "sweeper"  /\ SweepNext      /\ UNCHANGED <<windowVars, sensorVars>>
     \/ part = "sensors"  /\ SampleSnapshot /\ UNCHANGED <<windowVars, sweepVars>>
  /\ UNCHANGED <<part, LawVars, LoopVars>>

LoopMoves ==
  /\ \/ part = "one-shot"  /\ OneShotNext /\ UNCHANGED <<heartVars, rlVars, configVars>>
     \/ part = "heartbeat" /\ HeartNext   /\ UNCHANGED <<oneShotVars, rlVars, configVars>>
     \/ part = "reading"   /\ ReadNext    /\ UNCHANGED <<oneShotVars, heartVars, configVars>>
     \/ part = "config"    /\ ConfigNext  /\ UNCHANGED <<oneShotVars, heartVars, rlVars>>
  /\ UNCHANGED <<part, LawVars, HardVars>>

PartsNext == LawMoves \/ HardwareMoves \/ LoopMoves

\* A step of the watchdog or of time, with what the others are left at.
Beat(A) ==
  /\ part = "heartbeat" /\ A /\ Watched
  /\ UNCHANGED <<part, LawVars, HardVars, oneShotVars, rlVars, configVars>>

PartsFairness ==
  /\ WF_partVars(/\ part = "low band" /\ UpdateLowBand
                 /\ UNCHANGED <<part, allVars, HardVars, LoopVars>>)
  /\ WF_partVars(Beat(Pass))
  /\ WF_partVars(Beat(ProbeReads))
  /\ WF_partVars(Beat(ProbeJudges))
  /\ WF_partVars(Beat(Restart))

PartsSpec == PartsInit /\ [][PartsNext]_partVars /\ PartsFairness

-----------------------------------------------------------------------------
\* The sidecar can be read.
OneShotFaults == FaultKinds \ {"read", "corrupt"}
AllHbFaults == HbFaultKinds
=============================================================================
