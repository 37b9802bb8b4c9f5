--------------------------- MODULE WriteAheadCustody ---------------------------
(***************************************************************************)
(* What the write path promises about every fan: the program takes a fan   *)
(* from the board only after a record of how to give it back is durable,   *)
(* and erases that record only after the fan has been given back.          *)
(***************************************************************************)
CONSTANT Fan

VARIABLES
  taken,     \* fans the program holds in manual mode
  recorded   \* fans with a durable record of the board's own mode

Init == taken = {} /\ recorded = {}

\* One atomic file replacement may add and erase records together.
Rewrite(R) ==
  /\ taken \subseteq R
  /\ recorded' = R
  /\ UNCHANGED taken

Take(f) ==
  /\ f \in recorded
  /\ taken' = taken \cup {f}
  /\ UNCHANGED recorded

GiveBack(f) == taken' = taken \ {f} /\ UNCHANGED recorded

Next ==
  \/ \E R \in SUBSET Fan : Rewrite(R)
  \/ \E f \in Fan : Take(f) \/ GiveBack(f)

Spec == Init /\ [][Next]_<<taken, recorded>>

\* No fan is held without a durable record.
Safe == taken \subseteq recorded
=============================================================================
