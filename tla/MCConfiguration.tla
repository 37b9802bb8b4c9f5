--------------------------- MODULE MCConfiguration ---------------------------
(***************************************************************************)
(* Small instance of Configuration: one fan that the machine controls and  *)
(* a pump that it excludes, profiles with and without a machine base, and  *)
(* documents that load in part or not at all.                              *)
(***************************************************************************)
EXTENDS Configuration

Asked(fan, pump) == [c \in {"fan", "pump"} |-> IF c = "fan" THEN fan ELSE pump]
Holds(how, at, duties, accepted) ==
  [composed |-> how, home |-> at, asks |-> duties, parses |-> accepted]

FanOnly == Asked(0, Missing)
Loading == Holds(TRUE, "first", FanOnly, "loop")
Shared  ==
  { Loading, Holds(TRUE, "first", Asked(0, 0), "loop"),
    Holds(FALSE, "first", FanOnly, "base") }
Moved   == Shared \cup {Holds(TRUE, "second", FanOnly, "loop")}

TwoMachines == {Asked(1, Missing), Asked(2, Missing)}
=============================================================================
