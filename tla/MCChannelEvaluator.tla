-------------------------- MODULE MCChannelEvaluator --------------------------
(***************************************************************************)
(* Instances of ChannelEvaluator for TLC: configurations of each blend,    *)
(* between them with every kind of smoothing, rate, boost and gate.        *)
(***************************************************************************)
EXTENDS ChannelEvaluator

Ramp == [t \in Temp |-> Least(t, Full)]

Plain ==
  [blend |-> "cpu_only", guard |-> None, curve |-> Ramp, override |-> <<>>,
   smoothRise |-> "none", smoothFall |-> "none", latchAbove |-> None, latchDrop |-> 0,
   riseRate |-> 0, fallRate |-> 0, step |-> 0, deadband |-> 1, cooldown |-> 1,
   boosts |-> <<>>]

\* At or above its start, a boost rises by one step per tick.
Boost(start, release, max) ==
  [start |-> start, release |-> release, rise |-> [t \in Temp |-> 1], fall |-> 1, max |-> max]

CpuOnly ==
  [Plain EXCEPT !.smoothRise = "positive", !.step = 1, !.cooldown = 2,
                !.boosts = [s \in {"thermal_pressure", "cpu_low_soak"} |->
                              Boost(MaxTemp, 0, 1)]]

GpuOnly ==
  [Plain EXCEPT !.blend = "gpu_only", !.riseRate = 2, !.fallRate = 2, !.deadband = 2,
                !.override = [t \in Temp |-> IF t = MaxTemp THEN Full ELSE 0],
                !.boosts = [s \in {"gpu_airflow"} |-> Boost(1, 0, 1)]]

HotterOfBoth ==
  [Plain EXCEPT !.blend = "max_cpu_gpu", !.smoothFall = "positive", !.latchDrop = 1,
                !.latchAbove = 1, !.deadband = 0]

SourceAware ==
  [Plain EXCEPT !.blend = "max_cpu_gpu_source_aware", !.guard = MaxTemp,
                !.smoothRise = "positive", !.smoothFall = "positive",
                !.riseRate = 2, !.fallRate = 2, !.step = 1]

\* A demand that never moves after the first one, and one that never falls.
Still  == [Plain EXCEPT !.smoothRise = "zero", !.smoothFall = "zero"]
Upward == [Plain EXCEPT !.smoothRise = "positive", !.smoothFall = "zero"]

Blended ==
  [cpuOnly |-> CpuOnly, gpuOnly |-> GpuOnly, hotter |-> HotterOfBoth,
   sourceAware |-> SourceAware, still |-> Still, upward |-> Upward]
=============================================================================
