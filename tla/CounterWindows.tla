---------------------------- MODULE CounterWindows ----------------------------
(***************************************************************************)
(* The running hardware counters of the AMD reader (hardware/amd_reader.cpp *)
(* with rapl_energy.h and cpu_cycles.h), from the register to the power and *)
(* the effective frequency the analyzer reports                             *)
(* (analyze/analyze_report_queries.cpp).  The package energy is one 32-bit  *)
(* counter, the cycles of a core are two 64-bit ones; both go through the  *)
(* same steps: a baseline, windows of about a second, each with an id of    *)
(* its own, mirrored into the rows of the ticks in between, collapsed again *)
(* by id when the log is analysed.                                         *)
(*                                                                         *)
(* Time is counted in cadences.  The truth about a window is kept beside   *)
(* what the reader makes of it.                                            *)
(***************************************************************************)
EXTENDS Integers, FiniteSetsExt

CONSTANTS
  Wrap,          \* by source: the counters count modulo this
  MaxRate,       \* by source: what a counter gains at most in a unit of time
  CadenceTime,   \* kEnergyCadenceMs, kCycleCadenceMs
  DtCap,         \* kEnergyDtCapMs, kCycleDtCapMs
  Ceiling,       \* kEnergyCeilingW, per unit of time
  RatioCap,      \* kCycleRatioCap
  OpenAttempts,  \* kPawnIoOpenAttempts
  MaxId,         \* bound: windows of a run
  NoValue        \* NaN, no baseline

Sources == {"energy", "cycles"}

ASSUME WindowAssumption ==
  /\ {CadenceTime, DtCap, Ceiling, RatioCap, OpenAttempts, MaxId} \subseteq Nat \ {0}
  /\ CadenceTime <= DtCap
  /\ Wrap \in [Sources -> Nat] /\ MaxRate \in [Sources -> Nat]
  /\ \A s \in Sources : MaxRate[s] * DtCap < Wrap[s]

Counters(s) == IF s = "energy" THEN {"uj"} ELSE {"aperf", "mperf"}

VARIABLES
  source,      \* which counter this is about
  transport,   \* the PawnIO handle: "closed", "open", "unverified", "unavailable"
  tries,       \* failed attempts to open it
  raw,         \* the counters
  gained,      \* what they have truly gained since they were last read
  sinceRead,   \* the time since then, up to DtCap + 1
  prior,       \* prev_*_raw, or NoValue without have_prev
  sampleId,    \* *_sample_id
  latest,      \* last_*: window and delta, mirrored until the next one
  truth,       \* the window of this id as it was (history)
  logged       \* the rows of this id with a window and a delta

meterVars == <<raw, gained, sinceRead>>
readVars  == <<prior, sampleId, latest, truth, logged>>
windowVars == <<source, transport, tries, meterVars, readVars>>

Amounts(s) == [Counters(s) -> Nat]
Blank == [window |-> NoValue, delta |-> NoValue]

WindowTypeOK ==
  /\ source \in Sources
  /\ transport \in {"closed", "open", "unverified", "unavailable"}
  /\ tries \in 0 .. OpenAttempts
  /\ raw \in [Counters(source) -> 0 .. Wrap[source] - 1]
  /\ gained \in Amounts(source)
  /\ sinceRead \in 0 .. DtCap + 1
  /\ prior \in [Counters(source) -> 0 .. Wrap[source] - 1] \cup {NoValue}
  /\ sampleId \in 0 .. MaxId
  /\ latest.window \in (1 .. DtCap + 1) \cup {NoValue}
  /\ latest.delta \in Amounts(source) \cup {NoValue}

WindowInit ==
  /\ source \in Sources
  /\ transport = "closed" /\ tries = 0
  /\ raw = [k \in Counters(source) |-> 0]
  /\ gained = [k \in Counters(source) |-> 0]
  /\ sinceRead = 0
  /\ prior = NoValue /\ sampleId = 0 /\ latest = Blank
  /\ truth = Blank /\ logged = {}

-----------------------------------------------------------------------------
(* OpenReal.                                                               *)

\* The device or the module is not ready, and there is another attempt.
OpenLater ==
  /\ transport = "closed" /\ tries + 1 < OpenAttempts
  /\ tries' = tries + 1
  /\ UNCHANGED <<source, transport, meterVars, readVars>>

\* The last attempt, or an error that is not worth another one.
OpenGivesUp ==
  /\ transport = "closed"
  /\ transport' = "unavailable"
  /\ UNCHANGED <<source, tries, meterVars, readVars>>

\* Open; a module with another hash, or an energy unit that does not decode,
\* leaves the counters unread.
OpenReader ==
  /\ transport = "closed"
  /\ transport' \in {"open", "unverified"}
  /\ UNCHANGED <<source, tries, meterVars, readVars>>

-----------------------------------------------------------------------------
(* The world between two samples.                                          *)

\* A unit of time, in which the counters run on.
Elapse ==
  /\ transport = "open" /\ sinceRead <= DtCap
  /\ \E gain \in [Counters(source) -> 0 .. MaxRate[source]] :
       /\ raw' = [k \in Counters(source) |-> (raw[k] + gain[k]) % Wrap[source]]
       /\ gained' = [k \in Counters(source) |-> gained[k] + gain[k]]
  /\ sinceRead' = sinceRead + 1
  /\ UNCHANGED <<source, transport, tries, readVars>>

\* The machine sleeps: the counters hold anything afterwards.
Suspend ==
  /\ transport = "open"
  /\ raw' \in [Counters(source) -> 0 .. Wrap[source] - 1]
  /\ sinceRead' = DtCap + 1
  /\ gained' = [k \in Counters(source) |-> 0]
  /\ UNCHANGED <<source, transport, tries, readVars>>

-----------------------------------------------------------------------------
(* SamplePackageEnergy and SampleCpuCycles.                                *)

\* PackageEnergyUnitsDelta, CounterDelta: unsigned subtraction.
Delta(prev, cur) == [k \in Counters(source) |-> (cur[k] - prev[k]) % Wrap[source]]

\* Mutant: a long window is measured like any other.
ImplausibleRate(delta, window) ==
  IF source = "energy" THEN delta["uj"] > Ceiling * window
  ELSE \/ delta["mperf"] = 0 \/ delta["aperf"] = 0
       \/ delta["aperf"] > RatioCap * delta["mperf"]

\* WindowImplausible, CycleWindowImplausible.
Implausible(delta, window) ==
  \/ window = 0 \/ window > DtCap
  \/ source = "energy" /\ delta["uj"] > Ceiling * window
  \/ source = "cycles" /\ \/ delta["mperf"] = 0 \/ delta["aperf"] = 0
                          \/ delta["aperf"] > RatioCap * delta["mperf"]

Due == prior = NoValue \/ sinceRead >= CadenceTime

\* The row of a tick reaches the log; the analyzer leaves out the blank ones, and
\* those before the first window.  No row of an earlier id can follow.
Counted(id, sample) ==
  IF id > 0 /\ sample.window # NoValue /\ sample.delta # NoValue THEN {sample} ELSE {}

Log(id, sample) ==
  logged' = IF id = sampleId THEN logged \cup Counted(id, sample) ELSE Counted(id, sample)

Restarted ==
  /\ sinceRead' = 0
  /\ gained' = [k \in Counters(source) |-> 0]
  /\ UNCHANGED <<source, transport, tries, raw>>

\* Between two windows a row repeats the last one.
Mirror ==
  /\ transport = "open" /\ ~Due
  /\ Log(sampleId, latest)
  /\ UNCHANGED <<source, transport, tries, meterVars, prior, sampleId, latest, truth>>

\* The first read, and the first after one that failed.
Baseline ==
  /\ transport = "open" /\ prior = NoValue
  /\ prior' = raw /\ latest' = Blank
  /\ Log(sampleId, Blank)
  /\ Restarted
  /\ UNCHANGED <<sampleId, truth>>

\* AdvanceEnergyWindow, AdvanceCycleWindow: a window has an id of its own also
\* when it is blanked.
Advance ==
  /\ transport = "open" /\ prior # NoValue /\ Due
  /\ sampleId < MaxId
  /\ LET delta  == Delta(prior, raw)
         sample == [window |-> sinceRead,
                    delta |-> IF Implausible(delta, sinceRead) THEN NoValue ELSE delta]
     IN /\ latest' = sample
        /\ Log(sampleId + 1, sample)
  /\ truth' = [window |-> sinceRead, delta |-> gained]
  /\ sampleId' = sampleId + 1
  /\ prior' = raw
  /\ Restarted

\* The register cannot be read, or the thread not be pinned to the core.
ReadFails ==
  /\ transport = "open" /\ Due
  /\ prior' = NoValue /\ latest' = Blank
  /\ Log(sampleId, Blank)
  /\ UNCHANGED <<source, transport, tries, meterVars, sampleId, truth>>

WindowNext ==
  \/ OpenLater \/ OpenGivesUp \/ OpenReader \/ Elapse \/ Suspend
  \/ Mirror \/ Baseline \/ Advance \/ ReadFails

WindowSpec == WindowInit /\ [][WindowNext]_windowVars

-----------------------------------------------------------------------------
(* Properties.                                                             *)

\* SummarisePackagePower, SummariseCpuCycles: the rows of an id collapse to the
\* largest window and the largest deltas.
Reported ==
  [window |-> Max({r.window : r \in logged}),
   delta |-> [k \in Counters(source) |-> Max({r.delta[k] : r \in logged})]]

\* Every window that is reported is one that happened, with what the counters
\* truly gained in it, whatever wrapped, failed, slept or was mirrored meanwhile.
ReportedWindowsAreTrue == logged # {} => Reported = truth
=============================================================================
