--------------------------- MODULE MCCounterWindows ---------------------------
(***************************************************************************)
(* Instances of CounterWindows for TLC: the counters wrap just beyond what *)
(* the longest window that is trusted can hold.                            *)
(***************************************************************************)
EXTENDS CounterWindows

Widths == [energy |-> 5, cycles |-> 3]
Rates  == [energy |-> 2, cycles |-> 1]
=============================================================================
