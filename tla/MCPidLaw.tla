------------------------------ MODULE MCPidLaw ------------------------------
(***************************************************************************)
(* Instances of PidLaw for TLC: one configuration for each way the         *)
(* accumulator is bounded, with and without a rate of change, a bias of    *)
(* its own, a slew cap and the right to write.                             *)
(***************************************************************************)
EXTENDS PidLaw

Needed == [t \in Temp |-> Least(t, Full)]

Base ==
  [blend |-> "cpu_only", guard |-> None, curve |-> Needed, override |-> <<>>,
   smoothRise |-> "none", smoothFall |-> "none", latchAbove |-> None, latchDrop |-> 0,
   riseRate |-> 0, fallRate |-> 0, step |-> 1, deadband |-> 1, cooldown |-> 1,
   boosts |-> <<>>, minDuty |-> 0,
   pid |-> [target |-> 1, kp |-> 1, ki |-> 1, kd |-> 0, feedforward |-> <<>>,
            low |-> <<-3>>, high |-> <<3>>, allowLive |-> TRUE, characterized |-> TRUE]]

\* The accumulator has no bounds: conditional integration alone holds it.
Unbounded == [Base EXCEPT !.pid.low = <<>>, !.pid.high = <<>>, !.pid.feedforward = <<1>>]

\* A rate of change, a floor, both rates limited instead of the step.
Damped ==
  [Base EXCEPT !.pid.kd = 1, !.pid.ki = 1, !.minDuty = 1, !.step = 0,
               !.riseRate = 2, !.fallRate = 2, !.blend = "max_cpu_gpu"]

\* Computed only.
ComputedOnly == [Base EXCEPT !.pid.allowLive = FALSE]

PidConfigs ==
  [plain |-> Base, unbounded |-> Unbounded, damped |-> Damped, observed |-> ComputedOnly]
PidStep    == [plain |-> Base]
=============================================================================
