-------------------------------- MODULE PidLaw --------------------------------
(***************************************************************************)
(* One channel under the PID law (control/pid_controller.cpp) behind the   *)
(* same sensors, rate limit and write gates as the curve law of            *)
(* ChannelEvaluator, whose law variables it leaves alone.  A configuration *)
(* has a field pid besides.                                                *)
(*                                                                         *)
(* Amounts are integers in the units of the duty, and a rate of change is  *)
(* rounded toward zero.  The time a tick integrates over is any of         *)
(* 0 .. MaxDt: a tick may be early, late, or much too late.                *)
(***************************************************************************)
EXTENDS ChannelEvaluator

CONSTANT MaxDt       \* kPidMaxDtSeconds

\* A part of the configuration that may be left out is a sequence of at most one
\* element.
Optional(S) == {<<>>} \cup {<<v>> : v \in S}

\* What ValidateChannelConfig lets through.
PidOK(c) ==
  /\ c.pid.target \in Temp /\ c.minDuty \in Duty
  /\ {c.pid.kp, c.pid.ki, c.pid.kd} \subseteq Nat
  /\ c.pid.feedforward = <<>> \/ c.pid.feedforward[1] \in Duty
  /\ c.pid.low = <<>> \/ c.pid.low[1] \in Int
  /\ c.pid.high = <<>> \/ c.pid.high[1] \in Int
  /\ c.pid.low = <<>> \/ c.pid.high = <<>> \/ c.pid.low[1] < c.pid.high[1]
  /\ {c.pid.allowLive, c.pid.characterized} \subseteq BOOLEAN

ASSUME PidAssumption ==
  /\ MaxDt \in Nat
  /\ \A n \in DOMAIN Configs : PidOK(Configs[n])

VARIABLES
  integral,  \* PidState::integral
  prev       \* prev_temp_c; None without has_prev

pidVars == <<integral, prev>>
allVars == <<vars, pidVars>>

PidTypeOK ==
  /\ TypeOK
  /\ integral \in Int
  /\ prev \in Temp \cup {None}

PidInit ==
  /\ Init
  /\ integral = 0 /\ prev = None

\* PidLiveAuthorized: without an evidenced opt-in and a slew cap the law only
\* computes.
LiveAuthorized ==
  /\ config.pid.allowLive
  /\ config.step > 0 \/ (config.riseRate > 0 /\ config.fallRate > 0)
  /\ config.pid.characterized

-----------------------------------------------------------------------------
(* The law.                                                                *)

Error(t) == t - config.pid.target

Bias(t) ==
  IF config.pid.feedforward # <<>> THEN config.pid.feedforward[1]
  ELSE Greatest(config.minDuty, config.curve[t])

PerTime(n, dt) == IF n >= 0 THEN n \div dt ELSE -((-n) \div dt)

Derivative(t, dt) ==
  IF prev = None \/ dt = 0 THEN 0 ELSE PerTime(config.pid.kd * (t - prev), dt)

Integrates(dt) == prev # None /\ dt > 0 /\ config.pid.ki # 0

\* The accumulator within its bounds.
Bounded(i) ==
  LET above == IF config.pid.low # <<>> /\ i < config.pid.low[1]
               THEN config.pid.low[1] ELSE i
  IN IF config.pid.high # <<>> /\ above > config.pid.high[1]
     THEN config.pid.high[1] ELSE above

Candidate(t, dt) ==
  IF Integrates(dt) THEN Bounded(integral + Error(t) * dt) ELSE integral

Raw(t, i, d) == Bias(t) + config.pid.kp * Error(t) + config.pid.ki * i + d

\* Mutant: the integral grows on while the output is at its limit.
CommitsAlways(t, dt) == TRUE

\* Conditional integration: not while the output saturates where the error pushes.
Commits(t, dt) ==
  LET raw == Raw(t, Candidate(t, dt), Derivative(t, dt))
  IN Integrates(dt) => ~ \/ raw > Full /\ Error(t) > 0
                         \/ raw < config.minDuty /\ Error(t) < 0

Integrated(t, dt) == IF Commits(t, dt) THEN Candidate(t, dt) ELSE integral

Clamped(p) == Least(Full, Greatest(config.minDuty, p))

\* PidController::Evaluate.  A missing input is answered at once, and not limited.
Setpoint(base, dt) ==
  IF Primary = None THEN Full
  ELSE RateLimited(Clamped(Raw(Primary, Integrated(Primary, dt), Derivative(Primary, dt))),
                   base)

PidMemory(dt) ==
  /\ prev' = Primary
  /\ integral' = IF Primary = None THEN integral ELSE Integrated(Primary, dt)

\* The law does not look for a lost output.
PidWriteDue(base, p) == LiveAuthorized /\ Passes(base, p, FALSE, Primary = None)

-----------------------------------------------------------------------------
(* A tick.                                                                 *)

PidKeeps == UNCHANGED <<name, readings, lawVars>>

PidMayProbe == IF breaker /\ Primary # None THEN sinceProbe' = 1 ELSE NoProbe

PidTickSkips ==
  /\ \E dt \in 0 .. MaxDt, base \in Bases :
       /\ ~PidWriteDue(base, Setpoint(base, dt))
       /\ PidMemory(dt)
       /\ issued' = base
  /\ WaitOn /\ NoProbe /\ PidKeeps
  /\ UNCHANGED <<held, failures, breaker>>

PidTickWrites ==
  /\ \E dt \in 0 .. MaxDt, base \in Bases :
       /\ PidWriteDue(base, Setpoint(base, dt))
       /\ PidMemory(dt)
       /\ issued' = Setpoint(base, dt)
  /\ held' = TRUE
  /\ failures' = 0 /\ breaker' = FALSE
  /\ sinceWrite' = 1 /\ PidMayProbe /\ PidKeeps

PidTickWriteFails ==
  /\ \E dt \in 0 .. MaxDt, base \in Bases :
       /\ PidWriteDue(base, Setpoint(base, dt))
       /\ PidMemory(dt)
       /\ issued' = base
  /\ failures' = Least(failures + 1, FailureLimit)
  /\ breaker' = (breaker \/ failures + 1 >= FailureLimit)
  /\ WaitOn /\ PidMayProbe /\ PidKeeps
  /\ UNCHANGED held

PidTick == PidTickSkips \/ PidTickWrites \/ PidTickWriteFails

\* Readings change and the firmware takes over, as under the curve law.
PidNext == PidTick \/ ((Sense \/ BoardDrives) /\ UNCHANGED pidVars)

PidSpec == PidInit /\ [][PidNext]_allVars

-----------------------------------------------------------------------------
(* Properties.                                                             *)

\* The bounds of the accumulator leave it at zero, where it starts.
BoundsIncludeZero == Bounded(0) = 0

\* A feedforward that does not fall while it gets warmer.
BiasIsMonotone == \A t, u \in Temp : t <= u => Bias(t) <= Bias(u)

\* However long the output has been saturated, whatever dropouts and late ticks
\* there were, the accumulator never holds the output at its upper limit once the
\* temperature is down at the target.  The derivative is left out: a falling
\* temperature lets more be accumulated than stays useful.
NoWindup ==
  config.pid.kd = 0 /\ BoundsIncludeZero /\ BiasIsMonotone =>
    \A t \in Temp : t <= config.pid.target => Raw(t, integral, 0) <= Full
=============================================================================
