------------------------ MODULE ChannelEvaluatorProofs ------------------------
(***************************************************************************)
(* Theorems about ChannelEvaluator, for every number of temperatures and   *)
(* duties, every limit and every set of channel configurations; about the  *)
(* accumulator of PidLaw; and about the stages of LowBand.                 *)
(***************************************************************************)
EXTENDS PidLaw, LowBand, WellFoundedInduction, TLAPS

-----------------------------------------------------------------------------
(* What the operators of an evaluation return.                             *)

\* The configuration in use is one of those assumed to be well formed.
LEMMA ConfigIsOK == ASSUME TypeOK PROVE ConfigOK(config)
BY EvaluatorAssumption DEF TypeOK, config

\* Each blend takes its temperature from a reading, or finds none.
LEMMA PrimaryType == ASSUME TypeOK PROVE Primary \in Temp \cup {None}
<1>1. {cpu, gpu} \subseteq Temp \cup {None}
  BY DEF TypeOK
<1>2. Greatest(cpu, gpu) \in Temp \cup {None}
  BY <1>1 DEF Greatest
<1> QED BY <1>1, <1>2 DEF Primary

\* The demand of a tick is a duty when there is one.
LEMMA DemandType == ASSUME TypeOK PROVE Demand \in Duty \cup {None}
<1>1. /\ config.curve \in [Temp -> Duty]
      /\ config.override = <<>> \/ config.override \in [Temp -> Duty]
  BY ConfigIsOK DEF ConfigOK
<1>2. Full \in Duty
  BY EvaluatorAssumption DEF Duty
<1>3. PrimaryDemand \in Duty \cup {None}
  BY <1>1, <1>2, PrimaryType DEF PrimaryDemand
<1>4. CASE Overrides
  BY <1>1, <1>4 DEF Overrides, Demand, TypeOK
<1>5. CASE ~Overrides
  BY <1>3, <1>5 DEF Demand
<1> QED BY <1>4, <1>5

\* Smoothing keeps a demand between the last one and the raw one.
LEMMA SmoothingType ==
  ASSUME TypeOK, NEW raw \in Duty, NEW s \in Smoothings(raw, smoothed)
  PROVE  s \in Duty
<1>1. smoothed \in Duty \cup {None} /\ config.latchDrop \in Nat
  BY ConfigIsOK DEF TypeOK, ConfigOK
<1>2. Full \in Nat
  BY EvaluatorAssumption
<1>3. CASE smoothed = None \/ raw = smoothed
  BY <1>3 DEF Smoothings
<1>4. CASE smoothed # None /\ raw > smoothed
  <2>1. smoothed \in Duty /\ raw # smoothed
    BY <1>1, <1>2, <1>4 DEF Duty
  <2>2. s \in Approaches(config.smoothRise, smoothed, raw)
    BY <2>1, <1>4 DEF Smoothings
  <2> QED BY <2>1, <2>2, <1>2, <1>4 DEF Approaches, Duty
<1>5. CASE smoothed # None /\ raw < smoothed
  <2> DEFINE floor == IF /\ config.latchDrop > 0
                         /\ \/ config.latchAbove = None
                            \/ smoothed >= config.latchAbove
                      THEN Greatest(0, smoothed - config.latchDrop) ELSE 0
  <2>1. smoothed \in Duty /\ raw # smoothed /\ ~(raw > smoothed)
    BY <1>1, <1>2, <1>5 DEF Duty
  <2>2. floor \in Duty
    BY <2>1, <1>1, <1>2 DEF Duty, Greatest
  <2>3. PICK a \in Approaches(config.smoothFall, smoothed, raw) : s = Greatest(a, floor)
    BY <2>1, <1>5 DEF Smoothings
  <2>4. a \in Duty
    BY <2>1, <2>3, <1>2 DEF Approaches, Duty
  <2> QED BY <2>2, <2>3, <2>4 DEF Greatest
<1> QED BY <1>1, <1>2, <1>3, <1>4, <1>5 DEF Duty, None

\* A boost never becomes negative.
LEMMA BoostType == ASSUME TypeOK, NEW s \in Stages PROVE UpdatedBoost(s) \in Nat
<1>1. boost[s] \in Nat
  BY DEF TypeOK
<1>2. CASE s \notin DOMAIN config.boosts
  BY <1>2 DEF UpdatedBoost
<1>3. CASE s \in DOMAIN config.boosts
  <2> DEFINE b == config.boosts[s]
             t == BoostInput(s)
  <2>1. /\ b.max \in Nat /\ b.fall \in Nat
        /\ b.start \in Temp /\ b.rise \in [Temp -> Nat]
    BY <1>3, ConfigIsOK DEF ConfigOK, BoostOK
  <2>2. t \in Temp \cup {None}
    BY PrimaryType DEF BoostInput, Observed, PrimaryTemp, TypeOK
  <2>3. t # None => Least(b.max, boost[s] + b.rise[t]) \in Nat
    BY <1>1, <2>1, <2>2 DEF Least
  <2>4. Greatest(0, boost[s] - b.fall) \in Nat
    BY <1>1, <2>1 DEF Greatest
  <2> QED BY <1>1, <1>3, <2>3, <2>4 DEF UpdatedBoost
<1> QED BY <1>2, <1>3

\* The sum of base and boosts is clamped to a duty.
LEMMA DesiredType ==
  ASSUME TypeOK, NEW s \in Duty
  PROVE  Desired(s, Boosts) \in Duty
<1>1. \A p \in Stages : Boosts[p] \in Nat
  BY BoostType DEF Boosts
<1>2. /\ Boosts["thermal_pressure"] \in Nat /\ Boosts["midband_pressure"] \in Nat
      /\ Boosts["gpu_airflow"] \in Nat /\ Boosts["cpu_low_soak"] \in Nat
  BY <1>1 DEF Stages
<1> QED BY <1>2, EvaluatorAssumption DEF Desired, Least, Duty

\* The minimum of one or two natural numbers.
LEMMA MinOfBounds ==
  ASSUME NEW S \in SUBSET Nat, S # {}, NEW a \in Nat, NEW b \in Nat, S \subseteq {a, b}
  PROVE  Min(S) \in S /\ \A m \in S : Min(S) <= m
<1>1. \E x \in S : \A y \in S : x <= y
  <2>1. CASE a \in S /\ b \in S
    BY <2>1
  <2>2. CASE ~(a \in S /\ b \in S)
    <3>1. PICK x \in S : TRUE
      OBVIOUS
    <3>2. \A y \in S : y = x
      BY <2>2
    <3>3. x \in Nat /\ x <= x
      OBVIOUS
    <3> QED BY <3>2, <3>3
  <2> QED BY <2>1, <2>2
<1> QED BY <1>1 DEF Min

\* The limited setpoint lies between the last one and the desired one, within the
\* step cap and within the rate of its direction.
LEMMA RateLimitBounds ==
  ASSUME TypeOK, NEW d \in Duty, NEW last \in Duty
  PROVE  LET p == RateLimited(d, last)
         IN /\ p \in Duty
            /\ config.step > 0 => Distance(p, last) <= config.step
            /\ p > last /\ config.riseRate > 0 => p - last <= config.riseRate * sinceWrite
            /\ p < last /\ config.fallRate > 0 => last - p <= config.fallRate * sinceWrite
<1> DEFINE rate == IF d > last THEN config.riseRate ELSE config.fallRate
           budget == rate * sinceWrite
           bounds == (IF rate > 0 THEN {budget} ELSE {})
                     \cup (IF config.step > 0 THEN {config.step} ELSE {})
           p == RateLimited(d, last)
<1>1. {config.riseRate, config.fallRate, config.step} \subseteq Nat /\ sinceWrite \in Nat
  BY ConfigIsOK DEF ConfigOK, TypeOK
<1>2. budget \in Nat /\ config.step \in Nat
  BY <1>1
<1>3. /\ Duty \subseteq Int /\ last # None
      /\ \A x \in Int : x \in Duty <=> 0 <= x /\ x <= Full
      /\ Full \in Int
  BY EvaluatorAssumption DEF Duty, None
<1>4. bounds \in SUBSET Nat /\ bounds \subseteq {budget, config.step}
  BY <1>2
<1>5. p = IF \A m \in bounds : Distance(d, last) <= m THEN d
          ELSE IF d > last THEN last + Min(bounds) ELSE last - Min(bounds)
  BY <1>3 DEF RateLimited
<1>6. /\ \A m \in bounds : Distance(p, last) <= m
      /\ p \in Duty
      /\ p > last => d > last
      /\ p < last => d < last
  <2>1. CASE \A m \in bounds : Distance(d, last) <= m
    BY <1>5, <2>1
  <2>2. CASE ~(\A m \in bounds : Distance(d, last) <= m)
    <3>1. PICK m \in bounds : ~(Distance(d, last) <= m)
      BY <2>2
    <3>2. Min(bounds) \in bounds /\ \A x \in bounds : Min(bounds) <= x
      <4> HIDE DEF bounds, budget
      <4> QED BY <1>2, <1>4, <3>1, MinOfBounds
    <3>3. Min(bounds) \in Nat /\ Min(bounds) < Distance(d, last)
      <4> DEFINE k == Min(bounds)
                 gap == Distance(d, last)
      <4>1. gap \in Int
        BY <1>3 DEF Distance, Greatest, Least
      <4> HIDE DEF bounds, budget
      <4>2. m \in Nat /\ k \in Nat /\ k <= m
        BY <1>4, <3>1, <3>2
      <4>3. ~(gap <= m)
        BY <3>1
      <4> HIDE DEF k, gap
      <4>4. k < gap
        BY <4>1, <4>2, <4>3
      <4> QED BY <4>2, <4>4 DEF k, gap
    <3> DEFINE k == Min(bounds)
    <3>4. p = IF d > last THEN last + k ELSE last - k
      BY <1>5, <2>2
    <3>5. /\ Distance(p, last) = k
          /\ p \in Duty
          /\ p > last => d > last
          /\ p < last => d < last
      <4> HIDE DEF k, p, bounds, budget
      <4>1. k \in Nat /\ k < Distance(d, last)
        BY <3>3 DEF k
      <4> QED BY <1>3, <3>4, <4>1 DEF Distance, Greatest, Least
    <3> QED BY <3>2, <3>5
  <2> QED BY <2>1, <2>2
<1>7. config.step > 0 => config.step \in bounds
  OBVIOUS
<1>8. /\ p > last /\ config.riseRate > 0 => config.riseRate * sinceWrite \in bounds
      /\ p < last /\ config.fallRate > 0 => config.fallRate * sinceWrite \in bounds
  <2>1. d > last => rate = config.riseRate
    OBVIOUS
  <2>2. d < last => rate = config.fallRate
    BY <1>3
  <2> QED BY <1>6, <2>1, <2>2
<1>9. /\ p > last => Distance(p, last) = p - last
      /\ p < last => Distance(p, last) = last - p
  BY <1>3, <1>6 DEF Distance, Greatest, Least
<1> HIDE DEF bounds, p, budget, rate
<1> QED BY <1>6, <1>7, <1>8, <1>9 DEF p
-----------------------------------------------------------------------------
(* Types.                                                                  *)

\* An absent duty before the first scan, a captured one after it.
LEMMA BaseType == ASSUME TypeOK, NEW b \in Bases PROVE b \in Duty \cup {None}
BY DEF Bases, TypeOK

\* The setpoint of an evaluation is a duty, whatever it is limited from.
LEMMA EvaluationType ==
  ASSUME TypeOK, Demand # None, NEW e \in Evaluations
  PROVE  /\ e.base \in Bases
         /\ e.smoothed \in Duty
         /\ e.setpoint \in Duty
         /\ \E d \in Duty : e.setpoint = RateLimited(d, e.base)
<1>1. PICK b \in Bases, s \in Smoothings(Demand, smoothed) :
        e = [base |-> b, smoothed |-> s,
             setpoint |-> RateLimited(Desired(s, Boosts), b)]
  BY DEF Evaluations
<1>2. s \in Duty
  BY DemandType, SmoothingType
<1>3. Desired(s, Boosts) \in Duty
  BY <1>2, DesiredType
<1>4. RateLimited(Desired(s, Boosts), b) \in Duty
  <2>1. CASE b = None
    BY <1>3, <2>1 DEF RateLimited
  <2>2. CASE b \in Duty
    BY <1>3, <2>2, RateLimitBounds
  <2> QED BY <2>1, <2>2, BaseType
<1> QED BY <1>1, <1>2, <1>3, <1>4

\* The variables keep their types: duties, boosts and counters stay within their
\* bounds through every evaluation.
THEOREM TypeCorrect == Spec => []TypeOK
<1>1. Init => TypeOK
  <2> SUFFICES ASSUME Init PROVE TypeOK
    OBVIOUS
  <2>1. /\ 0 \in 0 .. SensorLimit /\ 0 \in 0 .. FailureLimit
        /\ Horizon \in 1 .. Horizon /\ ProbeBackoff \in 1 .. ProbeBackoff
    BY EvaluatorAssumption
  <2>2. boost \in [Stages -> Nat]
    BY DEF Init
  <2> QED BY <2>1, <2>2 DEF Init, TypeOK
<1>2. TypeOK /\ [Next]_vars => TypeOK'
  <2> SUFFICES ASSUME TypeOK, [Next]_vars PROVE TypeOK'
    OBVIOUS
  <2>1. /\ SensorLimit \in Nat /\ Horizon \in Nat \ {0} /\ ProbeBackoff \in Nat \ {0}
        /\ FailureLimit \in Nat
    BY EvaluatorAssumption
  <2>2. ASSUME Observe
        PROVE  /\ name' \in DOMAIN Configs
               /\ {cpu, gpu}' \subseteq Temp \cup {None}
               /\ scan' \in BOOLEAN /\ cpuSeen' \in BOOLEAN
               /\ losses' \in 0 .. SensorLimit /\ sensorFailed' \in BOOLEAN
    <3>1. losses' \in 0 .. SensorLimit
      BY <2>1, <2>2 DEF Observe, CountLosses, Least, TypeOK
    <3>2. cpuSeen' \in BOOLEAN /\ sensorFailed' \in BOOLEAN
      BY <2>2 DEF Observe, CountLosses
    <3>3. UNCHANGED <<name, readings>>
      BY <2>2 DEF Observe
    <3> QED BY <3>1, <3>2, <3>3 DEF readings, TypeOK
  <2>3. ASSUME WaitOn PROVE sinceWrite' \in 1 .. Horizon
    BY <2>1, <2>3 DEF WaitOn, Least, TypeOK
  <2>4. ASSUME NoProbe \/ MayProbe PROVE sinceProbe' \in 1 .. ProbeBackoff
    BY <2>1, <2>4 DEF MayProbe, NoProbe, Least, TypeOK
  <2>5. ASSUME NEW e \in Evaluations, Evaluate(e), Demand # None
        PROVE  smoothed' \in Duty /\ boost' \in [Stages -> Nat]
    <3>1. \A s \in Stages : Boosts[s] \in Nat
      BY BoostType DEF Boosts
    <3>2. Boosts \in [Stages -> Nat]
      BY <3>1 DEF Boosts
    <3> QED BY <2>5, <3>2, EvaluationType DEF Evaluate
  <2>6. CASE TickBlind
    <3>1. issued' \in Duty \cup {None}
      BY <2>6, BaseType DEF TickBlind
    <3>2. Observe /\ WaitOn /\ NoProbe
      BY <2>6 DEF TickBlind
    <3>3. UNCHANGED <<smoothed, boost, held, failures, breaker>>
      BY <2>6 DEF TickBlind
    <3> QED BY <2>2, <2>3, <2>4, <3>1, <3>2, <3>3 DEF TypeOK
  <2>7. CASE TickSkips
    <3>1. PICK e \in Evaluations : Evaluate(e) /\ issued' = e.base
      BY <2>7 DEF TickSkips
    <3>2. Observe /\ WaitOn /\ NoProbe /\ Demand # None
      BY <2>7, <3>1 DEF TickSkips, Evaluate
    <3>3. issued' \in Duty \cup {None}
      BY <3>1, <3>2, EvaluationType, BaseType
    <3>4. UNCHANGED <<held, failures, breaker>>
      BY <2>7 DEF TickSkips
    <3> QED BY <2>2, <2>3, <2>4, <2>5, <3>1, <3>2, <3>3, <3>4 DEF TypeOK
  <2>8. CASE TickWrites
    <3>1. PICK e \in Evaluations : Evaluate(e) /\ issued' = e.setpoint
      BY <2>8 DEF TickWrites
    <3>2. Observe /\ MayProbe /\ Demand # None
      BY <2>8, <3>1 DEF TickWrites, Evaluate
    <3>3. issued' \in Duty \cup {None}
      BY <3>1, <3>2, EvaluationType
    <3>4. held' = TRUE /\ breaker' = FALSE /\ failures' = 0 /\ sinceWrite' = 1
      BY <2>8 DEF TickWrites
    <3>5. 0 \in 0 .. FailureLimit /\ 1 \in 1 .. Horizon
      BY <2>1
    <3> QED BY <2>2, <2>4, <2>5, <3>1, <3>2, <3>3, <3>4, <3>5 DEF TypeOK
  <2>9. CASE TickWriteFails
    <3>1. PICK e \in Evaluations : Evaluate(e) /\ issued' = e.base
      BY <2>9 DEF TickWriteFails
    <3>2. Observe /\ WaitOn /\ MayProbe /\ Demand # None
      BY <2>9, <3>1 DEF TickWriteFails, Evaluate
    <3>3. issued' \in Duty \cup {None}
      BY <3>1, <3>2, EvaluationType, BaseType
    <3>4. failures' \in 0 .. FailureLimit
      BY <2>1, <2>9 DEF TickWriteFails, Least, TypeOK
    <3>5. held' \in BOOLEAN /\ breaker' \in BOOLEAN
      BY <2>9 DEF TickWriteFails, TypeOK
    <3> QED BY <2>2, <2>3, <2>4, <2>5, <3>1, <3>2, <3>3, <3>4, <3>5 DEF TypeOK
  <2>10. CASE Sense
    BY <2>10 DEF Sense, TypeOK, lawVars, outVars
  <2>11. CASE BoardDrives
    BY <2>11 DEF BoardDrives, TypeOK, readings, lawVars
  <2>12. CASE UNCHANGED vars
    BY <2>12 DEF vars, readings, lawVars, outVars, TypeOK
  <2> QED BY <2>6, <2>7, <2>8, <2>9, <2>10, <2>11, <2>12 DEF Next, Tick
<1> QED BY <1>1, <1>2, PTL DEF Spec

-----------------------------------------------------------------------------
(* Sensor failure.                                                         *)

\* Every tick counts the losses, and nothing else touches the sensor state.
LEMMA TicksCountLosses ==
  ASSUME [Next]_vars
  PROVE  CountLosses \/ UNCHANGED <<losses, sensorFailed>>
BY DEF Next, Tick, TickBlind, TickSkips, TickWrites, TickWriteFails, Evaluate, Observe,
       Sense, BoardDrives, vars, lawVars

\* The sensor-failure state holds exactly while the count of consecutive losses is
\* at its limit, for every limit and every order of losses and recoveries.
THEOREM SensorStateCorrect == Spec => []SensorFailedTracksLosses
<1>1. Init => SensorFailedTracksLosses
  BY EvaluatorAssumption DEF Init, SensorFailedTracksLosses
<1>2. TypeOK /\ SensorFailedTracksLosses /\ [Next]_vars => SensorFailedTracksLosses'
  <2> SUFFICES ASSUME TypeOK, SensorFailedTracksLosses, [Next]_vars
               PROVE  SensorFailedTracksLosses'
    OBVIOUS
  <2>1. SensorLimit \in Nat \ {0} /\ losses \in 0 .. SensorLimit
    BY EvaluatorAssumption DEF TypeOK
  <2>2. CASE CountLosses
    <3>1. CASE Missed
      <4>1. losses' = Least(losses + 1, SensorLimit)
        BY <2>2, <3>1 DEF CountLosses
      <4>2. sensorFailed' <=> sensorFailed \/ losses + 1 >= SensorLimit
        BY <2>2, <3>1, Zenon DEF CountLosses, SafeMode
      <4>3. sensorFailed <=> losses = SensorLimit
        BY DEF SensorFailedTracksLosses
      <4>4. losses' = SensorLimit <=> losses = SensorLimit \/ losses + 1 >= SensorLimit
        BY <2>1, <4>1 DEF Least
      <4> QED BY <4>2, <4>3, <4>4, Zenon DEF SensorFailedTracksLosses
    <3>2. CASE ~Missed
      BY <2>1, <2>2, <3>2 DEF CountLosses, SensorFailedTracksLosses
    <3> QED BY <3>1, <3>2
  <2>3. CASE UNCHANGED <<losses, sensorFailed>>
    BY <2>3 DEF SensorFailedTracksLosses
  <2> QED BY <2>2, <2>3, TicksCountLosses
<1> QED BY <1>1, <1>2, TypeCorrect, PTL DEF Spec

\* What a tick counts as a loss is the loss of the input the channel depends on.
LEMMA MissedIsBlind == ASSUME TypeOK PROVE Missed <=> Blind
<1>1. {cpu, gpu} \subseteq Temp \cup {None} /\ None \notin Temp
  BY EvaluatorAssumption DEF TypeOK, Temp, None
<1>2. config.blend \in Blends /\ config.guard \in Temp \cup {None}
  BY ConfigIsOK DEF ConfigOK
<1>3. Greatest(cpu, gpu) = None <=> cpu = None /\ gpu = None
  BY <1>1, EvaluatorAssumption DEF Greatest, Temp, None
<1>4. config.guard # None /\ cpu >= config.guard => cpu # None
  BY <1>1, <1>2, EvaluatorAssumption DEF Temp, None
<1>5. CASE config.blend = "cpu_only"
  BY <1>5 DEF Missed, CpuDropout, Primary, Blind
<1>6. CASE config.blend = "gpu_only"
  BY <1>6 DEF Missed, CpuDropout, Primary, Blind
<1>7. CASE config.blend = "max_cpu_gpu"
  BY <1>3, <1>7 DEF Missed, CpuDropout, Primary, Blind
<1>8. CASE config.blend = "max_cpu_gpu_source_aware"
  BY <1>3, <1>4, <1>8 DEF Missed, CpuDropout, Primary, Blind
<1> QED BY <1>2, <1>5, <1>6, <1>7, <1>8 DEF Blends

\* Safe mode is entered only without the input the channel depends on and left only
\* with it, for every blend, guard and order of readings.
THEOREM SafeModeSound == Spec => SafeModeFollowsTheInput
<1>1. TypeOK /\ [Next]_vars
        => [sensorFailed' # sensorFailed => (sensorFailed' <=> Blind)]_vars
  <2> SUFFICES ASSUME TypeOK, [Next]_vars, sensorFailed' # sensorFailed
               PROVE  sensorFailed' <=> Blind
    OBVIOUS
  <2>1. sensorFailed' = (Missed /\ (sensorFailed \/ SafeMode)) /\ sensorFailed \in BOOLEAN
    BY TicksCountLosses DEF CountLosses, TypeOK
  <2>2. sensorFailed' <=> Missed
    BY <2>1, Zenon DEF SafeMode
  <2> QED BY <2>2, MissedIsBlind
<1> QED BY <1>1, TypeCorrect, PTL DEF Spec, SafeModeFollowsTheInput

-----------------------------------------------------------------------------
(* Slew.                                                                   *)

\* No write moves a duty once issued by more than the step cap or the rate allows,
\* for every configuration, in safe mode and on an authority reassert too.
THEOREM SlewBounded == Spec => SlewIsBounded
<1> DEFINE Within ==
      /\ config.step > 0 => Distance(issued', issued) <= config.step
      /\ issued' > issued /\ config.riseRate > 0 =>
           issued' - issued <= config.riseRate * sinceWrite
      /\ issued' < issued /\ config.fallRate > 0 =>
           issued - issued' <= config.fallRate * sinceWrite
<1>1. TypeOK /\ [Next]_vars => [issued # None /\ issued' # issued => Within]_vars
  <2> SUFFICES ASSUME TypeOK, [Next]_vars, issued # None, issued' # issued
               PROVE  Within
    OBVIOUS
  <2>1. Bases = {issued} /\ issued \in Duty
    BY DEF Bases, TypeOK
  <2>2. \A e \in Evaluations : Demand # None => e.base = issued
    BY <2>1, EvaluationType
  <2>3. TickWrites
    BY <2>1, <2>2 DEF Next, Tick, TickBlind, TickSkips, TickWriteFails, Sense, BoardDrives,
                      vars, outVars
  <2>4. PICK e \in Evaluations : Demand # None /\ issued' = e.setpoint
    BY <2>3 DEF TickWrites
  <2>5. PICK d \in Duty : issued' = RateLimited(d, issued)
    BY <2>2, <2>4, EvaluationType
  <2> QED BY <2>1, <2>5, RateLimitBounds
<1> QED BY <1>1, TypeCorrect, PTL DEF Spec, SlewIsBounded

-----------------------------------------------------------------------------
(* The accumulator of the PID law.                                         *)

\* What the property asks of the configuration.
Unwinds == config.pid.kd = 0 /\ BoundsIncludeZero /\ BiasIsMonotone

\* The accumulator is within its bounds, and leaves the output free to come down.
IntegralInv ==
  /\ name \in DOMAIN Configs
  /\ integral \in Int
  /\ Unwinds => Bounded(integral) = integral
  /\ {cpu, gpu} \subseteq Temp \cup {None}
  /\ prev \in Temp \cup {None}
  /\ NoWindup

LEMMA PidConfigIsOK ==
  ASSUME name \in DOMAIN Configs
  PROVE  /\ config.pid.target \in Nat /\ config.pid.kp \in Nat /\ config.pid.ki \in Nat
         /\ config.minDuty \in Nat /\ PidOK(config) /\ ConfigOK(config) /\ Full \in Nat
BY PidAssumption, EvaluatorAssumption DEF config, PidOK, Temp, Duty

\* The clamp keeps the order, and clamping twice is clamping once.
LEMMA BoundedIsMonotone ==
  ASSUME name \in DOMAIN Configs, NEW i \in Int, NEW j \in Int
  PROVE  /\ Bounded(i) \in Int
         /\ Bounded(Bounded(i)) = Bounded(i)
         /\ i <= j => Bounded(i) <= Bounded(j)
<1>1. /\ config.pid.low = <<>> \/ config.pid.low[1] \in Int
      /\ config.pid.high = <<>> \/ config.pid.high[1] \in Int
      /\ config.pid.low = <<>> \/ config.pid.high = <<>> \/ config.pid.low[1] < config.pid.high[1]
  BY PidConfigIsOK DEF PidOK
<1> QED BY <1>1 DEF Bounded

\* The bias is a duty.
LEMMA BiasType ==
  ASSUME name \in DOMAIN Configs, NEW t \in Temp
  PROVE  Bias(t) \in Int /\ Bias(t) <= Full
<1>1. /\ config.minDuty \in Duty /\ config.curve[t] \in Duty
      /\ config.pid.feedforward = <<>> \/ config.pid.feedforward[1] \in Duty
  BY PidConfigIsOK DEF PidOK, ConfigOK
<1> QED BY <1>1, EvaluatorAssumption DEF Bias, Duty, Greatest

\* No derivative.
LEMMA NoDerivative ==
  ASSUME config.pid.kd = 0, prev \in Temp \cup {None}, MaxTemp \in Nat, NEW t \in Temp,
         NEW dt \in Nat
  PROVE  Derivative(t, dt) = 0
<1>1. prev # None => 0 * (t - prev) = 0
  BY DEF Temp
<1>2. dt # 0 => 0 \div dt = 0
  OBVIOUS
<1> QED BY <1>1, <1>2 DEF Derivative, PerTime

\* What a commit of a new value means.
LEMMA CommittedStaysFree ==
  ASSUME IntegralInv, Unwinds, NEW T \in Temp, NEW dt \in Nat, NEW t \in Temp,
         t <= config.pid.target, Primary = T
  PROVE  Raw(t, Integrated(T, dt), 0) <= Full
<1> DEFINE target == config.pid.target
           kp == config.pid.kp
           ki == config.pid.ki
           cand == Candidate(T, dt)
<1>1. /\ target \in Nat /\ kp \in Nat /\ ki \in Nat /\ T \in Nat /\ t \in Nat /\ integral \in Int
      /\ MaxTemp \in Nat /\ Full \in Nat /\ config.minDuty \in Nat
  BY PidConfigIsOK, EvaluatorAssumption DEF IntegralInv, Temp
<1>2. Bias(t) \in Int /\ Bias(T) \in Int /\ (t <= T => Bias(t) <= Bias(T))
  BY BiasType DEF IntegralInv, Unwinds, BiasIsMonotone
<1>3. Raw(t, integral, 0) <= Full
  BY DEF IntegralInv, NoWindup, Unwinds
<1>4. Raw(t, cand, 0) <= Full \/ ~Commits(T, dt)
  <2>1. CASE ~Integrates(dt)
    BY <1>3, <2>1 DEF Candidate
  <2>2. CASE Integrates(dt) /\ Error(T) <= 0
    <3>1. Error(T) * dt <= 0 /\ Error(T) * dt \in Int
      <4>1. \A e \in Int, n \in Nat : e <= 0 => e * n <= 0 /\ e * n \in Int
        OBVIOUS
      <4>2. Error(T) \in Int
        BY <1>1 DEF Error
      <4> QED BY <2>2, <4>1, <4>2
    <3>2. cand <= integral /\ cand \in Int
      <4>1. integral + Error(T) * dt \in Int /\ integral + Error(T) * dt <= integral
        BY <1>1, <3>1
      <4>2. Bounded(integral) = integral
        BY DEF IntegralInv
      <4> QED BY <2>2, <4>1, <4>2, <1>1, BoundedIsMonotone DEF IntegralInv, Candidate
    <3>3. ki * cand <= ki * integral /\ ki * cand \in Int /\ ki * integral \in Int
      <4>1. \A a, b \in Int, n \in Nat : a <= b => n * a <= n * b /\ n * a \in Int /\ n * b \in Int
        OBVIOUS
      <4> QED BY <1>1, <3>2, <4>1
    <3>4. kp * Error(t) \in Int
      BY <1>1 DEF Error
    <3> QED BY <1>1, <1>2, <1>3, <3>3, <3>4 DEF Raw
  <2>3. CASE Integrates(dt) /\ Error(T) > 0 /\ Commits(T, dt)
    <3>1. Derivative(T, dt) = 0
      BY <1>1, NoDerivative DEF IntegralInv, Unwinds
    <3>2. ~(Raw(T, cand, 0) > Full)
      BY <2>3, <3>1 DEF Commits
    <3>3. cand \in Int
      <4>1. Error(T) * dt \in Int
        BY <1>1 DEF Error
      <4> QED BY <1>1, <2>3, <4>1, BoundedIsMonotone DEF IntegralInv, Candidate
    <3>4. ki * cand \in Int
      BY <1>1, <3>3
    <3>5. kp * Error(t) <= kp * Error(T) /\ kp * Error(t) \in Int /\ kp * Error(T) \in Int
      <4>1. \A a, b \in Int, n \in Nat : a <= b => n * a <= n * b /\ n * a \in Int /\ n * b \in Int
        OBVIOUS
      <4>2. Error(t) \in Int /\ Error(T) \in Int /\ Error(t) <= Error(T)
        BY <1>1, <2>3 DEF Error
      <4> QED BY <1>1, <4>1, <4>2
    <3>6. t <= T
      BY <1>1, <2>3 DEF Error
    <3> HIDE DEF cand, kp, ki, target
    <3>7. Raw(t, cand, 0) = Bias(t) + kp * Error(t) + ki * cand + 0
      BY DEF Raw, kp, ki
    <3>8. Raw(T, cand, 0) = Bias(T) + kp * Error(T) + ki * cand + 0
      BY DEF Raw, kp, ki
    <3> QED BY <1>1, <1>2, <3>2, <3>4, <3>5, <3>6, <3>7, <3>8
  <2>4. CASE Integrates(dt) /\ ~Commits(T, dt)
    BY <2>4
  <2>5. Error(T) <= 0 \/ Error(T) > 0
    BY <1>1 DEF Error
  <2> QED BY <2>1, <2>2, <2>3, <2>4, <2>5
<1> QED BY <1>3, <1>4 DEF Integrated

LEMMA PidPrimary ==
  ASSUME {cpu, gpu} \subseteq Temp \cup {None}
  PROVE  Primary \in Temp \cup {None}
BY DEF Primary, Greatest

\* A step that leaves the configuration and the accumulator alone.
LEMMA IntegralIsKept ==
  ASSUME IntegralInv, UNCHANGED <<name, integral>>,
         {cpu', gpu'} \subseteq Temp \cup {None}, prev' \in Temp \cup {None}
  PROVE  IntegralInv'
BY DEF IntegralInv, Unwinds, NoWindup, BoundsIncludeZero, BiasIsMonotone, Bounded, Bias, Raw,
       Error, config

LEMMA IntegralInvTick ==
  ASSUME IntegralInv, NEW dt \in 0 .. MaxDt, PidMemory(dt), UNCHANGED <<name, readings>>
  PROVE  IntegralInv'
<1>1. Primary \in Temp \cup {None} /\ prev' \in Temp \cup {None}
  BY PidPrimary DEF IntegralInv, PidMemory
<1>2. dt \in Nat /\ {cpu', gpu'} \subseteq Temp \cup {None}
  BY PidAssumption DEF IntegralInv, readings
<1>3. CASE Primary = None
  BY <1>1, <1>2, <1>3, IntegralIsKept DEF PidMemory
<1>4. CASE Primary # None
  <2>1. integral' = Integrated(Primary, dt) /\ Primary \in Temp
    BY <1>1, <1>4 DEF PidMemory
  <2>2. integral' \in Int /\ (Unwinds => Bounded(integral') = integral')
    <3>1. Candidate(Primary, dt) \in Int
          /\ (Unwinds => Bounded(Candidate(Primary, dt)) = Candidate(Primary, dt))
      <4>1. integral + Error(Primary) * dt \in Int
        BY <1>2, <2>1, PidConfigIsOK, EvaluatorAssumption DEF IntegralInv, Error, Temp
      <4> QED BY <4>1, BoundedIsMonotone DEF IntegralInv, Candidate
    <3> QED BY <2>1, <3>1 DEF IntegralInv, Integrated
  <2>3. ASSUME Unwinds, NEW t \in Temp, t <= config.pid.target
        PROVE  Raw(t, integral', 0) <= Full
    BY <1>2, <2>1, <2>3, CommittedStaysFree
  <2>4. config' = config /\ Unwinds' = Unwinds
    BY DEF config, Unwinds, BoundsIncludeZero, BiasIsMonotone, Bounded, Bias
  <2>5. (Unwinds => Bounded(integral) = integral)' /\ name' \in DOMAIN Configs
    BY <2>2, <2>4 DEF Bounded, IntegralInv
  <2>6. NoWindup'
    BY <2>3, <2>4 DEF NoWindup, Unwinds, Raw, Error, Bias, BoundsIncludeZero, BiasIsMonotone,
                      Bounded
  <2> QED BY <1>1, <1>2, <2>2, <2>5, <2>6 DEF IntegralInv
<1> QED BY <1>3, <1>4

\* The accumulator never holds a fan at full speed once it is down at its target, for
\* every configuration without a derivative, every reading and every time step.
THEOREM IntegralUnwinds == PidSpec => []NoWindup
<1>1. PidInit => IntegralInv
  <2> SUFFICES ASSUME PidInit PROVE IntegralInv
    OBVIOUS
  <2>1. /\ name \in DOMAIN Configs /\ integral = 0 /\ prev = None
        /\ {cpu, gpu} \subseteq Temp \cup {None}
    BY DEF PidInit, Init
  <2>2. Unwinds => Bounded(integral) = integral
    BY <2>1 DEF Unwinds, BoundsIncludeZero
  <2>3. ASSUME NEW t \in Temp, t <= config.pid.target PROVE Raw(t, integral, 0) <= Full
    <3>1. Bias(t) \in Int /\ Bias(t) <= Full
      BY <2>1, BiasType
    <3>2. Error(t) \in Int /\ Error(t) <= 0
      BY <2>1, <2>3, PidConfigIsOK, EvaluatorAssumption DEF Error, Temp
    <3>3. config.pid.kp * Error(t) <= 0 /\ config.pid.kp * Error(t) \in Int
      <4>1. \A n \in Nat, e \in Int : e <= 0 => n * e <= 0 /\ n * e \in Int
        OBVIOUS
      <4> QED BY <2>1, <3>2, <4>1, PidConfigIsOK
    <3>4. config.pid.ki * integral = 0
      BY <2>1, PidConfigIsOK
    <3>5. Full \in Nat
      BY EvaluatorAssumption
    <3> QED BY <3>1, <3>3, <3>4, <3>5 DEF Raw
  <2> QED BY <2>1, <2>2, <2>3 DEF IntegralInv, NoWindup
<1>2. IntegralInv /\ [PidNext]_allVars => IntegralInv'
  <2> SUFFICES ASSUME IntegralInv, [PidNext]_allVars PROVE IntegralInv'
    OBVIOUS
  <2>1. CASE UNCHANGED allVars
    BY <2>1, IntegralIsKept DEF allVars, pidVars, vars, readings, IntegralInv
  <2>2. CASE PidTick
    <3>1. UNCHANGED <<name, readings>> /\ \E dt \in 0 .. MaxDt : PidMemory(dt)
      BY <2>2 DEF PidTick, PidTickSkips, PidTickWrites, PidTickWriteFails, PidKeeps
    <3> QED BY <3>1, IntegralInvTick
  <2>3. CASE (Sense \/ BoardDrives) /\ UNCHANGED pidVars
    <3>1. UNCHANGED <<name, integral, prev>> /\ {cpu', gpu'} \subseteq Temp \cup {None}
      BY <2>3 DEF Sense, BoardDrives, pidVars, readings, lawVars, outVars, IntegralInv
    <3> QED BY <3>1, IntegralIsKept DEF IntegralInv
  <2> QED BY <2>1, <2>2, <2>3 DEF PidNext
<1>3. IntegralInv => NoWindup
  BY DEF IntegralInv
<1> QED BY <1>1, <1>2, <1>3, PTL DEF PidSpec

-----------------------------------------------------------------------------
(* The low-band integrator.                                                *)

LEMMA SmallestChannel ==
  ASSUME NEW S \in SUBSET LbCount, S # {}
  PROVE  Min(S) \in S
<1> DEFINE R == OpToRel(<, Nat)
<1>1. IsWellFoundedOn(R, Nat)
  BY NatLessThanWellFounded
<1>2. \A y \in Nat, z \in Nat : y < z => <<y, z>> \in R
  BY Zenon DEF R, OpToRel
<1>3. S \in SUBSET Nat
  BY LowBandAssumption
<1> HIDE DEF R
<1>4. PICK x \in S : \A y \in S : ~ (<<y, x>> \in R)
  BY <1>1, <1>3, WFMin
<1>5. \A y \in S : ~ (y < x)
  BY <1>2, <1>3, <1>4, Zenon
<1>6. \A y \in S : x <= y
  BY <1>3, <1>5
<1> QED BY <1>6 DEF Min

\* What the code counts as time at the threshold is the time at the threshold.
CountsTheTime ==
  /\ {lbCpu, lbGpu} \subseteq LbTemp \cup {NoReading}
  /\ debt \in Int
  /\ eligible \in [LbCount -> Int]
  /\ above = eligible

LEMMA DebtType ==
  ASSUME CountsTheTime
  PROVE  NewDebt \in Int
<1>1. SignalOf(LbCpu, lbCpu) \in Nat /\ SignalOf(LbGpu, lbGpu) \in Nat
  BY LowBandAssumption DEF CountsTheTime, SignalOf, SignalOK
<1>2. Signal \in Nat
  BY <1>1 DEF Signal, LbMax
<1>3. DebtRise * Signal \in Nat
  BY <1>2, LowBandAssumption
<1> QED BY <1>2, <1>3, LowBandAssumption DEF CountsTheTime, NewDebt, LbMin, LbMax

LEMMA UpdateCounts ==
  ASSUME CountsTheTime, UpdateLowBand
  PROVE  /\ CountsTheTime'
         /\ \A c \in LbCount :
              LbChannels[c].hold > 0 /\ ~stage[c] /\ stage'[c] => above'[c] >= LbChannels[c].hold
<1> DEFINE d == NewDebt
<1>1. d \in Int
  BY DebtType
<1> HIDE DEF d
<1>2. /\ debt' = d
      /\ eligible' = [c \in LbCount |-> Eligible(c, d)]
      /\ stage' = [c \in LbCount |-> Stays(c, d) \/ c \in Activated(d)]
      /\ above' = [c \in LbCount |->
                     IF d < LbChannels[c].threshold THEN 0
                     ELSE LbMin(above[c] + 1, LbMax(1, LbChannels[c].hold))]
      /\ UNCHANGED <<lbCpu, lbGpu>>
  BY DEF UpdateLowBand, d
<1>3. ASSUME NEW c \in LbCount
      PROVE  eligible'[c] = above'[c] /\ Eligible(c, d) \in Int
  <2>1. LbChannels[c].threshold \in Int /\ LbChannels[c].hold \in Nat
    BY LowBandAssumption
  <2>2. eligible[c] \in Int /\ above[c] = eligible[c]
    BY DEF CountsTheTime
  <2> QED BY <1>1, <1>2, <2>1, <2>2 DEF Eligible, LbMin, LbMax
<1>4. above' = eligible' /\ eligible' \in [LbCount -> Int]
  BY <1>2, <1>3
<1>5. ASSUME NEW c \in LbCount, ~stage[c], stage'[c]
      PROVE  above'[c] >= LbChannels[c].hold
  <2>1. c \in Activated(d)
    BY <1>2, <1>5 DEF Stays
  <2>2. c = Min(Ready(d)) /\ Ready(d) # {}
    BY <2>1 DEF Activated
  <2>3. Ready(d) \in SUBSET LbCount
    BY DEF Ready
  <2>4. c \in Ready(d)
    BY <2>2, <2>3, SmallestChannel
  <2> QED BY <1>2, <1>3, <2>4 DEF Ready
<1> QED BY <1>1, <1>2, <1>4, <1>5 DEF CountsTheTime

\* A stage is activated only after its hold time at the threshold without a dip, for
\* every signal and boost curve, every threshold, hold time, rate and spacing.
THEOREM StagesAreEarned == LowBandSpec => ActivationIsEarned
<1>1. LowBandInit => CountsTheTime
  BY DEF LowBandInit, CountsTheTime
<1>2. CountsTheTime /\ [LowBandNext]_lbVars => CountsTheTime'
  <2> SUFFICES ASSUME CountsTheTime, [LowBandNext]_lbVars PROVE CountsTheTime'
    OBVIOUS
  <2>1. CASE UpdateLowBand
    BY <2>1, UpdateCounts
  <2>2. CASE LowBandInput \/ UNCHANGED lbVars
    BY <2>2 DEF LowBandInput, lbVars, CountsTheTime
  <2> QED BY <2>1, <2>2 DEF LowBandNext
<1>3. CountsTheTime /\ [LowBandNext]_lbVars =>
        [\A c \in LbCount :
           LbChannels[c].hold > 0 /\ ~stage[c] /\ stage'[c]
             => above'[c] >= LbChannels[c].hold]_lbVars
  <2> SUFFICES ASSUME CountsTheTime, LowBandNext
               PROVE  \A c \in LbCount :
                        LbChannels[c].hold > 0 /\ ~stage[c] /\ stage'[c]
                          => above'[c] >= LbChannels[c].hold
    OBVIOUS
  <2>1. CASE UpdateLowBand
    BY <2>1, UpdateCounts
  <2>2. CASE LowBandInput
    BY <2>2 DEF LowBandInput
  <2> QED BY <2>1, <2>2 DEF LowBandNext
<1> QED BY <1>1, <1>2, <1>3, PTL DEF LowBandSpec, ActivationIsEarned
=============================================================================
