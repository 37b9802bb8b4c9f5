----------------------------- MODULE FanHardware -----------------------------
(***************************************************************************)
(* The Super I/O fan outputs as the FanWriter interface shows them         *)
(* (hardware/sio_fan_writer.cpp over third_party/SVG-MB-SIO).              *)
(*                                                                         *)
(* An output is either under the board's own control or in manual mode at  *)
(* a duty.  set_duty_percent first clears the mode bits and then writes    *)
(* the duty register; restore_saved_state writes the duty first and the    *)
(* mode last, and never restores mode 0: a recorded baseline that was      *)
(* itself manual is restored to the SmartFan mode 0x40 instead.            *)
(*                                                                         *)
(* Manual means a raw mode byte of 0 here, as in the code's own checks     *)
(* (write_active of channel_evaluator.cpp, the sanitisation of the         *)
(* restore).  Selecting manual mode keeps the low half of that byte, so    *)
(* this rests on the board leaving those bits 0.                           *)
(***************************************************************************)
EXTENDS Integers

CONSTANTS
  NumChannels,   \* configured channels, in configuration order
  MaxPct,        \* duties are 0 .. MaxPct (abstract steps of 0 .. 100 %)
  FirmwarePct,   \* duty read back from an output the board controls
  Writable,      \* channels the runtime write policy does not block
  Faults         \* the faults this instance of the environment can produce

Channel   == 1 .. NumChannels
Pct       == 0 .. MaxPct
Firmware  == -1   \* the mode the board booted with
Fallback  == -2   \* SmartFan mode 0x40, chosen by the restore sanitisation
Absent    == -3   \* no value: missing record, missing fan, NaN duty
FanState  == Pct \cup {Firmware, Fallback}

FaultKinds ==
  { "apply",      \* a duty write fails before it changes a register
    "tear",       \* a duty write fails between the mode and the duty register
    "restore",    \* a restore fails, before or after its duty register write
    "scan",       \* a whole fan scan fails
    "init",       \* the fan writer cannot be created
    "takeover",   \* the board reprograms an output (resume, firmware reset)
    "persist",    \* an atomic replace of the sidecar file fails
    "read",       \* a readable sidecar cannot be opened or parsed just now
    "corrupt",    \* the sidecar bytes are damaged while no worker runs
    "crash" }     \* the worker dies between two steps

ASSUME ConstantsAssumption ==
  /\ NumChannels \in Nat \ {0}
  /\ MaxPct \in Nat
  /\ FirmwarePct \in Pct
  /\ Writable \subseteq Channel
  /\ Faults \subseteq FaultKinds

VARIABLE fan     \* fan[c]: the state of output c

HardwareTypeOK == fan \in [Channel -> FanState]
HardwareInit   == fan = [c \in Channel |-> Firmware]

Manual(c) == fan[c] \in Pct

\* Mutant: the raw mode value is taken for the duty.
RawModeAsDuty(s) == s

\* The duty a scan reports for an output in state s.
PctOf(s) == IF s \in Pct THEN s ELSE FirmwarePct

\* ReadAllChannels reports every output or none.
ScanResults ==
  {fan} \cup (IF "scan" \in Faults THEN {[c \in Channel |-> Absent]} ELSE {})

\* ApplyDuty.
Applied(c, p) ==
  /\ c \in Writable
  /\ fan' = [fan EXCEPT ![c] = p]

\* The writer reports a failure.  A torn write leaves a board-controlled output
\* in manual mode at whatever the duty register held.
ApplyFailed(c) ==
  /\ c \in Writable
  /\ \/ /\ "apply" \in Faults
        /\ fan' = fan
     \/ /\ "tear" \in Faults
        /\ ~Manual(c)
        /\ \E q \in Pct : fan' = [fan EXCEPT ![c] = q]

\* The controller refuses a channel its policy blocks (kPolicyRefused).
ApplyRefused(c) == c \notin Writable /\ UNCHANGED fan

\* RestoreSavedState: the mode reached when a recorded baseline is restored.  It is
\* the mode byte 0 that becomes the SmartFan mode; see the assumption above.
Restored(b) == IF b = Firmware THEN Firmware ELSE Fallback

RestoreDone(c, b) == fan' = [fan EXCEPT ![c] = Restored(b)]

\* A failed restore may have written the duty register, which shows only on an
\* output that is still in manual mode.
RestoreFailed(c, b) ==
  /\ "restore" \in Faults
  /\ \/ fan' = fan
     \/ Manual(c) /\ fan' = [fan EXCEPT ![c] = PctOf(b)]

TakeOver(c) ==
  /\ "takeover" \in Faults
  /\ Manual(c)
  /\ fan' = [fan EXCEPT ![c] = Firmware]
=============================================================================
