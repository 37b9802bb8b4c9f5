----------------------------- MODULE MCFanControl -----------------------------
(***************************************************************************)
(* Instances of FanControl for TLC.  Duties are 0 .. MaxPct with a deadband *)
(* of one step; an output under board control reads back duty 0.           *)
(***************************************************************************)
EXTENDS FanControlInvariant

\* Every fault that leaves the sidecar trustworthy.
HardwareFaults == {"apply", "restore", "scan", "init", "takeover", "crash"}

\* The sidecar file can fail to be replaced or be found damaged.
SidecarFaults == {"apply", "restore", "persist", "corrupt"}

\* For the violation: only what the counterexample is about.
TornWrites == {"tear"}

NoChannel    == {}
FirstChannel == {1}
AllChannels  == Channel
=============================================================================
