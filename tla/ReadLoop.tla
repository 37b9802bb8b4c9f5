-------------------------------- MODULE ReadLoop --------------------------------
(***************************************************************************)
(* The two modes that only read: the read loop (runtime/read_loop.cpp),    *)
(* which mirrors the sensors in current_state.json, a configured copy and   *)
(* the status file, and the evidence log (runtime/evidence_log.cpp), which  *)
(* only keeps a log of its own and may run beside a worker.                *)
(*                                                                         *)
(* A poll samples, publishes, logs a row and, in the read loop, publishes   *)
(* its status.  How the log is kept is in RuntimeLog, the sensors are in    *)
(* Sensors; what a row holds is left out.                                  *)
(***************************************************************************)
EXTENDS Naturals

CONSTANTS
  StaleLimit,   \* staleness_threshold_ms, 3 polls by default
  PollTime,     \* times a poll can take, its wait included
  HasMirror     \* snapshot_path is configured

ASSUME ReadLoopAssumption ==
  /\ StaleLimit \in Nat \ {0}
  /\ PollTime \subseteq Nat \ {0}
  /\ HasMirror \in BOOLEAN

Modes == {"read-loop", "evidence-log"}

VARIABLES
  rlMode,      \* which of the two runs
  rlAt,        \* where it is
  stopAsked,   \* stop.request.json exists
  cycleAsked,  \* profile.cycle.request.json exists
  csv,         \* the log is open
  sinksOut,    \* csv_write_failure_active, snapshot_publish_failure_active
  quiet,       \* since last_success_time
  rlStatus,    \* control_runtime.json, as far as the read loop has written it
  told,        \* the stale flag of the last row, or of the status after it
  homeAge,     \* since the runtime home's snapshot was replaced with telemetry in it
  mirrorAge    \* the same of the copy (both history)

rlVars == <<rlMode, rlAt, stopAsked, cycleAsked, csv, sinksOut, quiet, rlStatus, told, homeAge,
              mirrorAge>>

Sinks == {"csv", "snapshot"}
Span  == 0 .. StaleLimit + 1

ReadTypeOK ==
  /\ rlMode \in Modes
  /\ rlAt \in {"off", "opened", "polling", "exit0", "exit1"}
  /\ {stopAsked, cycleAsked, csv, told} \subseteq BOOLEAN
  /\ sinksOut \subseteq Sinks
  /\ {quiet, homeAge, mirrorAge} \subseteq Span
  /\ rlStatus \in {"none", "running", "direct-read-failed", "shutdown"}

ReadInit ==
  /\ rlMode \in Modes /\ rlAt = "off"
  /\ stopAsked \in BOOLEAN /\ cycleAsked = FALSE
  /\ csv = FALSE /\ sinksOut = {}
  /\ quiet = 0 /\ homeAge = 0 /\ mirrorAge = 0
  /\ rlStatus = "none" /\ told = FALSE

-----------------------------------------------------------------------------
(* Start and end.                                                          *)

Tell(state) == rlStatus' = IF rlMode = "read-loop" THEN state ELSE rlStatus

\* The stop request is cleared, also one for a worker the evidence log runs beside;
\* the read loop does without a log, the evidence log does not.
OpenLog ==
  /\ rlAt = "off"
  /\ stopAsked' = FALSE
  /\ csv' \in BOOLEAN
  /\ rlAt' = IF csv' \/ rlMode = "read-loop" THEN "opened" ELSE "exit1"
  /\ Tell("running")
  /\ UNCHANGED <<rlMode, cycleAsked, sinksOut, quiet, told, homeAge, mirrorAge>>

\* The fan writer is there, to be read from, or it is not.
OpenReaders ==
  /\ rlAt = "opened"
  /\ \/ rlAt' = "polling" /\ Tell("running")
     \/ rlAt' = "exit1" /\ Tell("direct-read-failed")
  /\ quiet' = 0 /\ homeAge' = 0 /\ mirrorAge' = 0
  /\ UNCHANGED <<rlMode, stopAsked, cycleAsked, csv, sinksOut, told>>

StopSeen == stopAsked \/ (rlMode = "read-loop" /\ cycleAsked)

EndReading ==
  /\ rlAt = "polling" /\ StopSeen
  /\ rlAt' = "exit0" /\ csv' = FALSE
  /\ Tell("shutdown")
  /\ UNCHANGED <<rlMode, stopAsked, cycleAsked, sinksOut, quiet, told, homeAge, mirrorAge>>

AskReader ==
  /\ \/ ~stopAsked /\ stopAsked' = TRUE /\ UNCHANGED cycleAsked
     \/ ~cycleAsked /\ cycleAsked' = TRUE /\ UNCHANGED stopAsked
  /\ UNCHANGED <<rlMode, rlAt, csv, sinksOut, quiet, rlStatus, told, homeAge, mirrorAge>>

-----------------------------------------------------------------------------
(* A poll.                                                                 *)

Later(age, d)  == IF age + d > StaleLimit THEN StaleLimit + 1 ELSE age + d
Aged(age, d, new) == IF new THEN 0 ELSE Later(age, d)

\* What became of a sample: telemetry in it, and where it could be written.
Sample == [telemetry : BOOLEAN, home : BOOLEAN, mirror : BOOLEAN]

\* Mutant: one of the two files is enough.
WroteAny(s) == s.home \/ (HasMirror /\ s.mirror)

\* ReadLoopSampleResult::wrote_outputs.
WroteOutputs(s) == s.home /\ (HasMirror => s.mirror)

\* The evidence log publishes no snapshot.
Succeeded(s) == s.telemetry /\ (rlMode = "read-loop" => WroteOutputs(s))

\* The first poll that fails to write is reported, and the first that does again.
Broken(sink, s, row) ==
  \/ sink = "csv" /\ csv' /\ ~row
  \/ sink = "snapshot" /\ rlMode = "read-loop" /\ s.telemetry /\ ~WroteOutputs(s)

Mended(sink, s, row) ==
  \/ sink = "csv" /\ csv' /\ row
  \/ sink = "snapshot" /\ rlMode = "read-loop" /\ WroteOutputs(s)

\* The log may be rotated, and be closed if that fails.  A snapshot without telemetry
\* is published too, but does not count.
TakeSample ==
  /\ rlAt = "polling" /\ ~StopSeen
  /\ csv' \in {csv, FALSE}
  /\ \E s \in Sample, row \in BOOLEAN, d \in PollTime :
       /\ quiet' = Aged(quiet, d, Succeeded(s))
       /\ told' = (quiet' > StaleLimit)
       /\ sinksOut' = {k \in Sinks : Broken(k, s, row) \/ (k \in sinksOut /\ ~Mended(k, s, row))}
       /\ homeAge' = Aged(homeAge, d, s.telemetry /\ s.home)
       /\ mirrorAge' = Aged(mirrorAge, d, s.telemetry /\ s.mirror)
  /\ Tell("running")
  /\ UNCHANGED <<rlMode, rlAt, stopAsked, cycleAsked>>

\* A sample throws: no row; only the read loop looks at the time again.
FailSample ==
  /\ rlAt = "polling" /\ ~StopSeen
  /\ \E d \in PollTime :
       /\ quiet' = Later(quiet, d)
       /\ told' = IF rlMode = "read-loop" THEN quiet' > StaleLimit ELSE told
       /\ homeAge' = Later(homeAge, d) /\ mirrorAge' = Later(mirrorAge, d)
  /\ Tell("running")
  /\ UNCHANGED <<rlMode, rlAt, stopAsked, cycleAsked, csv, sinksOut>>

ReadNext ==
  \/ OpenLog \/ OpenReaders \/ EndReading \/ AskReader
  \/ TakeSample \/ FailSample

ReadSpec == ReadInit /\ [][ReadNext]_rlVars

-----------------------------------------------------------------------------
(* Properties.                                                             *)

\* A read loop that does not call its status stale has, within the staleness limit,
\* replaced the snapshot in the runtime home and its copy with ones that hold
\* telemetry, whatever failed in the polls since, and in which order.
UnflaggedDataIsFresh ==
  (rlMode = "read-loop" /\ rlAt = "polling" /\ ~told)
    => homeAge <= StaleLimit /\ (HasMirror => mirrorAge <= StaleLimit)
=============================================================================
