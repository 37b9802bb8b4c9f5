--------------------------- MODULE ChannelEvaluator ---------------------------
(***************************************************************************)
(* One channel under the curve law, tick by tick: what EvaluateChannel     *)
(* (control/channel_evaluator.cpp) makes of the temperature readings, and  *)
(* what the gates of TryApplyChannelSetpoint let through to the output.    *)
(*                                                                         *)
(* A temperature is a step of 0 .. MaxTemp and a duty a step of 0 .. Full; *)
(* the curves are functions between them.  Time is counted in ticks: rates *)
(* are duty steps per tick.  The channel has a continuous hold             *)
(* (control_hold_ms 0) and is writable; expiring holds and the sidecar are *)
(* FanControl's.  The low-band contribution is zero here.                  *)
(***************************************************************************)
EXTENDS Integers, FiniteSetsExt

CONSTANTS
  MaxTemp,           \* temperatures are 0 .. MaxTemp
  Full,              \* kSafeModeFanDuty, 100 %
  SensorLimit,       \* kMaxConsecutiveSensorFailures
  FailureLimit,      \* kMaxConsecutiveFailures
  ProbeBackoff,      \* kBreakerProbeBackoff, in ticks
  ReassertCooldown,  \* kAuthorityReassertCooldownMs, in ticks
  Horizon,           \* elapsed ticks are counted up to this bound
  Configs            \* the channel configurations to consider, by name

Temp   == 0 .. MaxTemp
Duty   == 0 .. Full
None == -1         \* NaN: no reading, no setpoint, field not configured

Blends == {"cpu_only", "gpu_only", "max_cpu_gpu", "max_cpu_gpu_source_aware"}
Stages == {"thermal_pressure", "midband_pressure", "gpu_airflow", "cpu_low_soak"}

\* A smoothing factor: not configured, 0, or in (0, 1].
Factors == {"none", "zero", "positive"}

\* How a boost builds up and falls.  A stage without a complete configuration is
\* not in the domain of boosts.
BoostOK(b) ==
  /\ {b.start, b.release} \subseteq Temp
  /\ b.rise \in [Temp -> Nat]
  /\ {b.fall, b.max} \subseteq Nat

\* The parts of a loaded ChannelControlConfig that the evaluation reads.
ConfigOK(c) ==
  /\ c.blend \in Blends
  /\ c.guard \in Temp \cup {None}
  /\ c.curve \in [Temp -> Duty]
  /\ c.override = <<>> \/ c.override \in [Temp -> Duty]
  /\ {c.smoothRise, c.smoothFall} \subseteq Factors
  /\ c.latchAbove \in Duty \cup {None}
  /\ {c.latchDrop, c.riseRate, c.fallRate, c.step, c.deadband, c.cooldown} \subseteq Nat
  /\ DOMAIN c.boosts \subseteq Stages
  /\ \A s \in DOMAIN c.boosts : BoostOK(c.boosts[s])

\* Elapsed times are never cut short where the code would look at them.
HorizonOK(c) ==
  /\ c.cooldown <= Horizon
  /\ \A r \in {c.riseRate, c.fallRate} : r > 0 => r * Horizon >= Full

ASSUME EvaluatorAssumption ==
  /\ {MaxTemp, ReassertCooldown} \subseteq Nat
  /\ {Full, SensorLimit, FailureLimit, ProbeBackoff, Horizon} \subseteq Nat \ {0}
  /\ \A n \in DOMAIN Configs : ConfigOK(Configs[n]) /\ HorizonOK(Configs[n])

VARIABLES
  name,          \* the channel's configuration, which never changes
  cpu, gpu,      \* the readings of this tick, or None
  scan,          \* the fan scan of this tick succeeds
  cpuSeen,       \* cpu_input_was_available
  losses,        \* consecutive_sensor_failures, saturating at SensorLimit
  sensorFailed,  \* sensor_failed
  smoothed,      \* smoothed_demand_pct
  boost,         \* boosts[..].boost_pct
  issued,        \* last_issued_pct; None until the baseline is captured
  held,          \* the output is in manual mode at the duty issued last
  sinceWrite,    \* ticks since last_write_time
  sinceProbe,    \* ticks since last_probe_time
  failures,      \* consecutive_write_failures, saturating at FailureLimit
  breaker        \* circuit_breaker_open

readings == <<cpu, gpu, scan>>
lawVars  == <<cpuSeen, losses, sensorFailed, smoothed, boost>>
outVars  == <<issued, held, sinceWrite, sinceProbe, failures, breaker>>
vars     == <<name, readings, lawVars, outVars>>

config == Configs[name]

TypeOK ==
  /\ name \in DOMAIN Configs
  /\ {cpu, gpu} \subseteq Temp \cup {None}
  /\ scan \in BOOLEAN
  /\ cpuSeen \in BOOLEAN
  /\ losses \in 0 .. SensorLimit
  /\ sensorFailed \in BOOLEAN
  /\ smoothed \in Duty \cup {None}
  /\ boost \in [Stages -> Nat]
  /\ issued \in Duty \cup {None}
  /\ held \in BOOLEAN
  /\ sinceWrite \in 1 .. Horizon
  /\ sinceProbe \in 1 .. ProbeBackoff
  /\ failures \in 0 .. FailureLimit
  /\ breaker \in BOOLEAN

Init ==
  /\ name \in DOMAIN Configs
  /\ cpu \in Temp \cup {None} /\ gpu \in Temp \cup {None}
  /\ scan \in BOOLEAN
  /\ cpuSeen = FALSE /\ losses = 0 /\ sensorFailed = FALSE
  /\ smoothed = None
  /\ boost = [s \in Stages |-> 0]
  /\ issued = None /\ held = FALSE
  /\ sinceWrite = Horizon /\ sinceProbe = ProbeBackoff
  /\ failures = 0 /\ breaker = FALSE

Least(a, b)    == IF a < b THEN a ELSE b
Greatest(a, b) == IF a > b THEN a ELSE b
Distance(a, b) == Greatest(a, b) - Least(a, b)

-----------------------------------------------------------------------------
(* The primary input and the loss of it: EvaluatePrimarySetpoint.          *)

\* SelectPrimaryCurveInput.  An absent reading is below every temperature.
Primary ==
  LET hotter == Greatest(cpu, gpu)
      guarded == config.guard # None /\ cpu >= config.guard
  IN CASE config.blend = "cpu_only"    -> cpu
       [] config.blend = "gpu_only"    -> gpu
       [] config.blend = "max_cpu_gpu" -> hotter
       [] OTHER -> IF guarded THEN hotter ELSE IF gpu # None THEN gpu ELSE cpu

\* Mutant: a channel that never had a CPU reading can lose it.
CpuDropoutUnseen ==
  /\ config.blend = "max_cpu_gpu_source_aware"
  /\ cpu = None /\ gpu # None

\* source_aware_cpu_dropout.
CpuDropout ==
  /\ config.blend = "max_cpu_gpu_source_aware"
  /\ cpuSeen /\ cpu = None /\ gpu # None

Missed == Primary = None \/ CpuDropout

\* sensor_safe_mode and source_aware_cpu_dropout_safe_mode.
SafeMode == Missed /\ losses + 1 >= SensorLimit

CountLosses ==
  /\ losses' = IF Missed THEN Least(losses + 1, SensorLimit) ELSE 0
  /\ sensorFailed' = (Missed /\ (sensorFailed \/ SafeMode))

\* The demand before the override, and the temperature it was taken from.
PrimaryDemand ==
  IF SafeMode THEN Full ELSE IF Primary = None THEN None ELSE config.curve[Primary]
PrimaryTemp == IF SafeMode THEN None ELSE Primary

-----------------------------------------------------------------------------
(* The setpoint.                                                           *)

\* ApplyCpuOverride wins over no demand and over a lower one.
Overrides ==
  /\ config.override # <<>>
  /\ cpu # None
  /\ config.override[cpu] > PrimaryDemand

Demand   == IF Overrides THEN config.override[cpu] ELSE PrimaryDemand
Observed == IF Overrides THEN cpu ELSE PrimaryTemp

\* What smoothing makes of a demand on its way.  A positive factor goes any part of
\* the way, at least one step; a factor of 0 does not move.
Approaches(factor, from, to) ==
  CASE factor = "none" -> {to}
    [] factor = "zero" -> {from}
    [] OTHER           -> IF to > from THEN from + 1 .. to ELSE to .. from - 1

\* ApplyDemandSmoothing.  The decay latch only slows a fall.
Smoothings(raw, last) ==
  LET floor == IF /\ config.latchDrop > 0
                  /\ \/ config.latchAbove = None
                     \/ last >= config.latchAbove
                 THEN Greatest(0, last - config.latchDrop) ELSE 0
  IN IF last = None \/ raw = last THEN {raw}
     ELSE IF raw > last THEN Approaches(config.smoothRise, last, raw)
     ELSE {Greatest(s, floor) : s \in Approaches(config.smoothFall, last, raw)}

ExplicitRelease(s) == s = "cpu_low_soak"

BoostInput(s) ==
  CASE s = "gpu_airflow"  -> gpu
    [] s = "cpu_low_soak" -> cpu
    [] OTHER              -> Observed

\* UpdateBoostStage: rise at or above start, and fall below it or, for an
\* explicit release, at or below that.  Without an input the one holds and the
\* other falls.
UpdatedBoost(s) ==
  IF s \notin DOMAIN config.boosts THEN 0
  ELSE LET b     == config.boosts[s]
           t     == BoostInput(s)
           rises == t # None /\ t >= b.start
           falls == /\ ~rises
                    /\ IF ExplicitRelease(s) THEN t <= b.release ELSE t # None
       IN CASE rises -> Least(b.max, boost[s] + b.rise[t])
            [] falls -> Greatest(0, boost[s] - b.fall)
            [] OTHER -> boost[s]

Boosts == [s \in Stages |-> UpdatedBoost(s)]

\* The sum and clamp of ComputeFinalSetpoint.
Desired(base, boosts) ==
  Least(Full, base + boosts["thermal_pressure"] + boosts["midband_pressure"]
                   + boosts["gpu_airflow"] + boosts["cpu_low_soak"])

\* Mutant: without a rate, the step cap is not looked at.
RateLimitedByRate(desired, last) ==
  LET rate    == IF desired > last THEN config.riseRate ELSE config.fallRate
      allowed == IF config.step > 0 THEN Least(rate * sinceWrite, config.step)
                                    ELSE rate * sinceWrite
  IN IF last = None \/ rate = 0 \/ Distance(desired, last) <= allowed THEN desired
     ELSE IF desired > last THEN last + allowed ELSE last - allowed

\* RateLimitSetpoint: the rate and the step cap bound the move independently.
RateLimited(desired, last) ==
  LET rate    == IF desired > last THEN config.riseRate ELSE config.fallRate
      bounds  == (IF rate > 0 THEN {rate * sinceWrite} ELSE {})
                 \cup (IF config.step > 0 THEN {config.step} ELSE {})
      toward(m) == IF desired > last THEN last + m ELSE last - m
  IN IF last = None \/ \A m \in bounds : Distance(desired, last) <= m THEN desired
     ELSE toward(Min(bounds))

-----------------------------------------------------------------------------
(* The gates of TryApplyChannelSetpoint.                                   *)

\* CaptureChannelBaselineIfAvailable: the duty issued last starts as the duty the
\* board had set.
Bases == IF issued = None /\ scan THEN Duty ELSE {issued}

\* DetectAuthorityReassert.
Reassert(base) == scan /\ base # None /\ ~held

\* WriteCooldownForAuthorityReassert.
Cooldown(reassert) ==
  IF reassert THEN Least(config.cooldown, ReassertCooldown) ELSE config.cooldown

\* The setpoint p gets past the gates; a safety command passes an open breaker,
\* another one only as a probe for more cooling.
Passes(base, p, reassert, safety) ==
  /\ base # None
  /\ reassert \/ Distance(p, base) >= config.deadband
  /\ sinceWrite >= Cooldown(reassert)
  /\ breaker => safety \/ (p > base /\ sinceProbe >= ProbeBackoff)

\* Mutant: the safety command does not pass an open breaker.
WriteDueBreakerFirst(base, p) == Passes(base, p, Reassert(base), FALSE)

\* Mutant: an open breaker lets only the safety command through.
WriteDueUnprobed(base, p) ==
  Passes(base, p, Reassert(base), SafeMode) /\ (breaker => SafeMode)

WriteDue(base, p) == Passes(base, p, Reassert(base), SafeMode)

-----------------------------------------------------------------------------
(* A tick.                                                                 *)

Observe ==
  /\ cpuSeen' = (cpuSeen \/ cpu # None)
  /\ CountLosses
  /\ UNCHANGED <<name, readings>>

\* What EvaluateChannel can come to.
Evaluations ==
  {[base |-> b, smoothed |-> s, setpoint |-> RateLimited(Desired(s, Boosts), b)] :
     b \in Bases, s \in Smoothings(Demand, smoothed)}

Evaluate(e) ==
  /\ Observe
  /\ smoothed' = e.smoothed
  /\ boost' = Boosts

WaitOn   == sinceWrite' = Least(sinceWrite + 1, Horizon)
NoProbe  == sinceProbe' = Least(sinceProbe + 1, ProbeBackoff)
MayProbe == IF breaker /\ ~SafeMode THEN sinceProbe' = 1 ELSE NoProbe

\* No setpoint: the input has been missing for less than the limit.
TickBlind ==
  /\ Demand = None
  /\ Observe
  /\ issued' \in Bases
  /\ WaitOn /\ NoProbe
  /\ UNCHANGED <<smoothed, boost, held, failures, breaker>>

TickSkips ==
  /\ Demand # None
  /\ \E e \in Evaluations :
       /\ Evaluate(e)
       /\ ~WriteDue(e.base, e.setpoint)
       /\ issued' = e.base
  /\ WaitOn /\ NoProbe
  /\ UNCHANGED <<held, failures, breaker>>

TickWrites ==
  /\ Demand # None
  /\ \E e \in Evaluations :
       /\ Evaluate(e)
       /\ WriteDue(e.base, e.setpoint)
       /\ issued' = e.setpoint
  /\ held' = TRUE
  /\ failures' = 0 /\ breaker' = FALSE
  /\ sinceWrite' = 1 /\ MayProbe

TickWriteFails ==
  /\ Demand # None
  /\ \E e \in Evaluations :
       /\ Evaluate(e)
       /\ WriteDue(e.base, e.setpoint)
       /\ issued' = e.base
  /\ failures' = Least(failures + 1, FailureLimit)
  /\ breaker' = (breaker \/ failures + 1 >= FailureLimit)
  /\ WaitOn /\ MayProbe
  /\ UNCHANGED held

Tick == TickBlind \/ TickSkips \/ TickWrites \/ TickWriteFails

\* Another reading for the ticks to come.
Sense ==
  /\ \/ cpu' \in Temp \cup {None} /\ UNCHANGED <<gpu, scan>>
     \/ gpu' \in Temp \cup {None} /\ UNCHANGED <<cpu, scan>>
     \/ scan' = ~scan /\ UNCHANGED <<cpu, gpu>>
  /\ UNCHANGED <<name, lawVars, outVars>>

\* The board's firmware takes the output back.
BoardDrives ==
  /\ held
  /\ held' = FALSE
  /\ UNCHANGED <<name, readings, lawVars, issued, sinceWrite, sinceProbe, failures,
                 breaker>>

Next == Tick \/ Sense \/ BoardDrives

Spec == Init /\ [][Next]_vars

\* The loop keeps ticking.
FairSpec == Spec /\ WF_vars(Tick)

-----------------------------------------------------------------------------
(* Properties.                                                             *)

\* The channel lacks what its configuration makes it depend on.  A source-aware
\* channel depends on the CPU once it has seen one.
Blind ==
  CASE config.blend = "cpu_only"    -> cpu = None
    [] config.blend = "gpu_only"    -> gpu = None
    [] config.blend = "max_cpu_gpu" -> cpu = None /\ gpu = None
    [] OTHER -> cpu = None /\ (cpuSeen \/ gpu = None)

\* The sensor-failure state is entered only on a tick without the input the
\* channel depends on and left only on one with it: the other source coming and
\* going neither raises a false alarm nor masks the loss.
SafeModeFollowsTheInput ==
  [][sensorFailed' # sensorFailed => (sensorFailed' <=> Blind)]_vars

\* The sensor-failure state and the count of consecutive losses agree through
\* every mixture of total loss, dropout and recovery.
SensorFailedTracksLosses == sensorFailed <=> losses = SensorLimit

\* A setpoint never moves further in one write than the step cap, nor faster than
\* the configured rate over the time since the last write, in safe mode and on an
\* authority reassert too.
SlewIsBounded ==
  [][issued # None /\ issued' # issued =>
       /\ config.step > 0 => Distance(issued', issued) <= config.step
       /\ issued' > issued /\ config.riseRate > 0 =>
            issued' - issued <= config.riseRate * sinceWrite
       /\ issued' < issued /\ config.fallRate > 0 =>
            issued - issued' <= config.fallRate * sinceWrite]_vars

\* From some point on, nothing changes but the loop's own doing.
Undisturbed == <>[][~(Sense \/ BoardDrives \/ TickWriteFails)]_vars

\* The loader accepts a rise factor of 0, with which no demand ever gets higher.
DemandCanRise == config.smoothRise # "zero"

\* Closer than the deadband, or equal.
Reaches(p) == issued >= p \/ p - issued < config.deadband

\* A channel that stays blind ends with its output in manual mode at full speed,
\* also out of an open breaker and after a firmware takeover.
SafeModeReachesFull ==
  Undisturbed => <>[](DemandCanRise /\ Blind /\ scan => held /\ Reaches(Full))

\* Once readings and hardware settle, the fan gets at least the cooling that the
\* curves demand, also out of an open breaker; and an output lost to the firmware
\* is taken back unless the breaker reports it.
CoolingReachesDemand ==
  Undisturbed =>
    <>[](DemandCanRise /\ scan /\ Demand # None => Reaches(Demand) /\ (held \/ breaker))
=============================================================================
