------------------------------ MODULE MCLowBand ------------------------------
(***************************************************************************)
(* Instances of LowBand for TLC: two channels that want to be activated at  *)
(* different debts, the second with a longer hold, and sources that         *)
(* release at different temperatures.                                      *)
(***************************************************************************)
EXTENDS LowBand

Temps   == 0 .. 2
CpuBand == [signal |-> [t \in Temps |-> IF t = 2 THEN 2 ELSE 0], release |-> 0]
GpuBand == [signal |-> [t \in Temps |-> IF t = 2 THEN 1 ELSE 0], release |-> 1]

\* The boost of a channel by debt: none up to the threshold, then a step a debt.
Above(threshold) == [d \in 0 .. 4 |-> IF d > threshold THEN d - threshold ELSE 0]

TwoStages ==
  <<[threshold |-> 1, hold |-> 2, scale |-> Above(1)],
    [threshold |-> 2, hold |-> 3, scale |-> Above(2)]>>
=============================================================================
