------------------------------ MODULE MCSupervisor ------------------------------
(***************************************************************************)
(* Instances of Supervisor for TLC: two profiles, enough process ids for a *)
(* supervised worker next to the survivors of terminated supervisors, and  *)
(* one operator command at a time.                                         *)
(***************************************************************************)
EXTENDS Supervisor, TLC

CONSTANTS p1, p2, w1, w2, w3, w4, c1

TwoProfiles  == {p1, p2}
NoProfile    == {}
OneProfile   == {p2}
ThreeWorkers == {w1, w2, w3}
FourWorkers  == {w1, w2, w3, w4}
OneClient    == {c1}

AllCommands  == {"start", "stop", "restart", "switch"}
NoRestart    == {"start", "stop", "switch"}
StartRestart == {"start", "restart"}

\* No supervisor is terminated from outside.
WorkerFaults == FaultKinds \ {"kill"}
NoFaults     == {}

\* Process ids are interchangeable, and two profiles that are both valid.
Symmetry == Permutations(FourWorkers)
=============================================================================
