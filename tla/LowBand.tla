-------------------------------- MODULE LowBand --------------------------------
(***************************************************************************)
(* The low-band integrator of the control loop: UpdateLowBandState         *)
(* (control/low_band_integrator.cpp), once per tick before the channels    *)
(* are evaluated.  A debt builds up while the temperatures give a signal   *)
(* and no channel's primary response carries the load; channels with the   *)
(* stage configured are activated one after the other and get a boost that *)
(* moves at a limited rate.                                                *)
(*                                                                         *)
(* Debt, boosts and times are small numbers.  The curves from temperature  *)
(* to signal and from debt to boost are functions; the counters of the     *)
(* evidence file are left out.                                             *)
(***************************************************************************)
EXTENDS Integers, FiniteSetsExt

CONSTANTS
  LbTemp,      \* temperatures, a set of naturals
  LbCpu,       \* cpu: [signal |-> weighted SmoothScale by temperature, release |-> ...]
  LbGpu,       \* gpu, likewise
  MaxDebt,     \* debt 1.0
  DebtRise,    \* debt a tick adds per unit of signal
  DebtFall,    \* debt a tick takes away
  BoostRise,   \* stage_rise_pct_per_min, per tick; always positive
  BoostFall,   \* stage_fall_pct_per_min, per tick; 0: no limit
  Spacing,     \* stage_spacing_ms, in ticks
  LbChannels   \* the channels in order: threshold, hold (ticks), boost by debt

NoReading == -1

LbCount == DOMAIN LbChannels

SignalOK(s) == s.signal \in [LbTemp -> Nat] /\ s.release \in LbTemp
                 /\ \A t \in LbTemp : t <= s.release => s.signal[t] = 0

\* ValidateLowBandConfig and LowBandChannelConfigured; a boost starts above the
\* threshold only.  low_band_hold_ms may be 0.
ASSUME LowBandAssumption ==
  /\ LbTemp \subseteq Nat
  /\ SignalOK(LbCpu) /\ SignalOK(LbGpu)
  /\ {MaxDebt, DebtRise, BoostRise, Spacing} \subseteq Nat \ {0}
  /\ {DebtFall, BoostFall} \subseteq Nat
  /\ LbCount \subseteq Nat
  /\ \A c \in LbCount :
       /\ LbChannels[c].threshold \in 1 .. MaxDebt - 1
       /\ LbChannels[c].hold \in Nat
       /\ LbChannels[c].scale \in [0 .. MaxDebt -> Nat]
       /\ \A d \in 0 .. LbChannels[c].threshold : LbChannels[c].scale[d] = 0

VARIABLES
  lbCpu, lbGpu,  \* the readings of this tick, or NoReading
  engaged,       \* a primary boost was above its threshold in the last tick
  debt,          \* LowBandRuntimeState::debt
  sinceStage,    \* ticks since the last activation, up to Spacing
  eligible,      \* low_band_eligible_ms in ticks, up to the hold time
  stage,         \* low_band_stage_active
  lift,          \* low_band_stage_boost_pct
  above          \* ticks the debt has been at or above the threshold (history)

lbVars == <<lbCpu, lbGpu, engaged, debt, sinceStage, eligible, stage, lift, above>>

LbMin(a, b) == IF a < b THEN a ELSE b
LbMax(a, b) == IF a > b THEN a ELSE b

MaxLift(c) == LbChannels[c].scale[MaxDebt]

LowBandTypeOK ==
  /\ {lbCpu, lbGpu} \subseteq LbTemp \cup {NoReading}
  /\ engaged \in BOOLEAN
  /\ debt \in 0 .. MaxDebt
  /\ sinceStage \in 0 .. Spacing
  /\ \A c \in LbCount :
       /\ {eligible[c], above[c]} \subseteq 0 .. LbMax(1, LbChannels[c].hold)
       /\ stage[c] \in BOOLEAN
       /\ lift[c] \in Nat

LowBandInit ==
  /\ lbCpu \in LbTemp \cup {NoReading} /\ lbGpu \in LbTemp \cup {NoReading}
  /\ engaged = FALSE
  /\ debt = 0 /\ sinceStage = Spacing
  /\ eligible = [c \in LbCount |-> 0]
  /\ above = [c \in LbCount |-> 0]
  /\ stage = [c \in LbCount |-> FALSE]
  /\ lift = [c \in LbCount |-> 0]

SignalOf(s, t) == IF t = NoReading THEN 0 ELSE s.signal[t]

Signal == LbMax(SignalOf(LbCpu, lbCpu), SignalOf(LbGpu, lbGpu))

\* SensorReleased.
Released(s, t) == t = NoReading \/ t <= s.release

BothReleased == Released(LbCpu, lbCpu) /\ Released(LbGpu, lbGpu)

\* Mutant: an engaged response stops the integrator altogether.
NewDebtHeld ==
  CASE engaged -> debt
    [] ~engaged /\ Signal > 0 -> LbMin(MaxDebt, debt + DebtRise * Signal)
    [] ~engaged /\ Signal = 0 /\ BothReleased -> LbMax(0, debt - DebtFall)
    [] OTHER -> debt

NewDebt ==
  CASE Signal > 0 /\ ~engaged -> LbMin(MaxDebt, debt + DebtRise * Signal)
    [] ~(Signal > 0 /\ ~engaged) /\ BothReleased -> LbMax(0, debt - DebtFall)
    [] OTHER -> debt

\* Mutant: the time spent at the threshold is not lost in a dip.
EligibleStays(c, d) ==
  IF d >= LbChannels[c].threshold
  THEN LbMin(eligible[c] + 1, LbMax(1, LbChannels[c].hold)) ELSE eligible[c]

\* The time a channel has been eligible, with the debt at d.
Eligible(c, d) ==
  IF d >= LbChannels[c].threshold
  THEN LbMin(eligible[c] + 1, LbMax(1, LbChannels[c].hold)) ELSE 0

\* Off again a quarter below the threshold.
Stays(c, d) == stage[c] /\ ~(4 * d <= 3 * LbChannels[c].threshold)

Ready(d) == {c \in LbCount : ~Stays(c, d) /\ Eligible(c, d) >= LbChannels[c].hold}

\* The spacing lets one channel a time through, the first in order.
Activated(d) ==
  IF LbMin(sinceStage + 1, Spacing) >= Spacing /\ Ready(d) # {} THEN {Min(Ready(d))} ELSE {}

Target(c, d, on) == IF on THEN LbChannels[c].scale[d] ELSE 0

\* MoveTowardRateLimited, and the clamp.
Toward(now, target) ==
  IF target > now THEN LbMin(target, now + BoostRise)
  ELSE IF BoostFall = 0 THEN target ELSE LbMax(target, now - BoostFall)

UpdateLowBand ==
  LET d  == NewDebt
      on == [c \in LbCount |-> Stays(c, d) \/ c \in Activated(d)]
  IN /\ debt' = d
     /\ eligible' = [c \in LbCount |-> Eligible(c, d)]
     /\ stage' = on
     /\ sinceStage' = IF Activated(d) # {} THEN 0 ELSE LbMin(sinceStage + 1, Spacing)
     /\ lift' = [c \in LbCount |-> LbMin(Toward(lift[c], Target(c, d, on[c])), MaxLift(c))]
     /\ above' = [c \in LbCount |->
                    IF d < LbChannels[c].threshold THEN 0
                    ELSE LbMin(above[c] + 1, LbMax(1, LbChannels[c].hold))]
     /\ UNCHANGED <<lbCpu, lbGpu, engaged>>

\* Other readings, and what the evaluation of the channels makes of them.
LowBandInput ==
  /\ \/ lbCpu' \in LbTemp \cup {NoReading} /\ UNCHANGED <<lbGpu, engaged>>
     \/ lbGpu' \in LbTemp \cup {NoReading} /\ UNCHANGED <<lbCpu, engaged>>
     \/ engaged' = ~engaged /\ UNCHANGED <<lbCpu, lbGpu>>
  /\ UNCHANGED <<debt, sinceStage, eligible, stage, lift, above>>

LowBandNext == UpdateLowBand \/ LowBandInput

LowBandSpec == LowBandInit /\ [][LowBandNext]_lbVars

\* The loop calls the integrator in every tick.
LowBandFairSpec == LowBandSpec /\ WF_lbVars(UpdateLowBand)

-----------------------------------------------------------------------------
(* Properties.                                                             *)

\* A channel with a hold time is activated only when the debt has been at its
\* threshold for that long without a dip, whatever the spacing made it wait.
ActivationIsEarned ==
  [][\A c \in LbCount :
       LbChannels[c].hold > 0 /\ ~stage[c] /\ stage'[c]
         => above'[c] >= LbChannels[c].hold]_lbVars

\* Once both sources are down for good, or gone, no boost is left, also when a
\* primary response was engaged or a stage was waiting for its turn.
LowBandIsReleased ==
  DebtFall > 0 /\ <>[][~LowBandInput]_lbVars
    => <>[](BothReleased => \A c \in LbCount : lift[c] = 0)
=============================================================================
