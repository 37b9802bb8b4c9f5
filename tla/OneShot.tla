------------------------------- MODULE OneShot -------------------------------
(***************************************************************************)
(* The modes that drive fans for a while and end: write-once (RunWriteOnce  *)
(* in runtime/write_orchestrator.cpp) and calibration (RunCalibration in    *)
(* control/calibration.cpp), each after the reconciliation that app_main    *)
(* runs first, and each a process that can die anywhere.  They use the      *)
(* sidecar file directly, without the worker's cache.                      *)
(*                                                                         *)
(* One such process runs at a time, and no worker beside it: neither mode   *)
(* takes the worker's mutex.  The file can be read; what a damaged one      *)
(* leads to is in FanControl.                                              *)
(***************************************************************************)
EXTENDS FanHardware, FiniteSetsExt

CONSTANT NumSteps   \* length of the calibration sequence

ASSUME OneShotAssumption == NumSteps \in Nat \ {0}

VARIABLES
  sidecar,    \* sidecar[c]: the baseline on record, or Absent
  at,         \* where the process is
  mode,       \* "write-once" or "calibrate"
  enabled,    \* the runtime policy's writes_enabled
  plan,       \* the entries the reconciliation has still to put back
  left,       \* channels it, or the calibration, has still to turn to
  channel,    \* the channel being driven, and its baseline
  base,
  step,       \* step of the calibration sequence
  aborted,    \* abort_reason is not empty
  stop,       \* stop_flag
  exit,       \* exit status, or Absent
  forgotten   \* channels a calibration could not restore, until driven again (history)

runVars     == <<mode, enabled, plan, left, channel, base, step, aborted, stop>>
oneShotVars == <<fan, sidecar, at, runVars, exit, forgotten>>

OneShotTypeOK ==
  /\ HardwareTypeOK
  /\ {sidecar, plan} \subseteq [Channel -> FanState \cup {Absent}]
  /\ at \in {"down", "opening", "reconciling", "ready", "choosing", "recording",
             "driving", "holding", "restoring", "erasing", "reporting"}
  /\ mode \in {"write-once", "calibrate"}
  /\ {enabled, aborted, stop} \subseteq BOOLEAN
  /\ left \subseteq Channel /\ channel \in Channel
  /\ base \in FanState
  /\ step \in 1 .. NumSteps
  /\ exit \in (0 .. 6) \cup {Absent}
  /\ forgotten \subseteq Channel

OneShotInit ==
  /\ HardwareInit
  /\ sidecar = [c \in Channel |-> Absent]
  /\ at = "down" /\ mode = "write-once" /\ enabled = TRUE
  /\ plan = sidecar /\ left = {}
  /\ channel = 1 /\ base = Firmware /\ step = 1
  /\ aborted = FALSE /\ stop = FALSE
  /\ exit = Absent /\ forgotten = {}

\* Between two runs nothing of the process is left.
Exits(status) ==
  /\ at' = "down" /\ exit' = status
  /\ plan' = [c \in Channel |-> Absent] /\ left' = {}
  /\ base' = Firmware /\ step' = 1
  /\ aborted' = FALSE /\ stop' = FALSE
  /\ UNCHANGED <<mode, enabled, channel>>

Goes(where) == at' = where /\ UNCHANGED <<runVars, exit>>

StartRun ==
  /\ at = "down"
  /\ mode' \in {"write-once", "calibrate"} /\ enabled' \in BOOLEAN
  /\ plan' = sidecar
  /\ left' = {c \in Channel : sidecar[c] # Absent}
  /\ at' = IF left' = {} THEN "ready" ELSE "opening"
  /\ exit' = Absent
  /\ UNCHANGED <<fan, sidecar, channel, base, step, aborted, stop, forgotten>>

\* CreateFanWriter, for the reconciliation and for the mode.
OpenWriter ==
  /\ at \in {"opening", "ready"}
  /\ \/ Goes(IF at = "opening" THEN "reconciling" ELSE "choosing")
     \/ "init" \in Faults /\ Exits(1)
  /\ UNCHANGED <<fan, sidecar, forgotten>>

-----------------------------------------------------------------------------
(* ReconcilePendingWrites.                                                 *)

RestoreRecord ==
  /\ at = "reconciling" /\ left # {}
  /\ LET c == Min(left)
     IN /\ left' = left \ {c}
        /\ \/ RestoreDone(c, plan[c]) /\ plan' = [plan EXCEPT ![c] = Absent]
           \/ RestoreFailed(c, plan[c]) /\ UNCHANGED plan
  /\ UNCHANGED <<sidecar, at, mode, enabled, channel, base, step, aborted, stop, exit, forgotten>>

\* One record that could not be put back, or the file not being written, ends it.
FlushRecords ==
  /\ at = "reconciling" /\ left = {}
  /\ \/ /\ sidecar' = plan
        /\ \/ plan = [c \in Channel |-> Absent] /\ Goes("ready")
           \/ plan # [c \in Channel |-> Absent] /\ Exits(1)
     \/ /\ "persist" \in Faults /\ plan # sidecar
        /\ Exits(1) /\ UNCHANGED sidecar
  /\ UNCHANGED <<fan, forgotten>>

-----------------------------------------------------------------------------
(* What to drive.                                                          *)

\* CaptureBaselineFromSnapshotJson and the checks after it: a snapshot whose time
\* is too old or in the future, a policy without writes, no scan, a blocked channel.
ChooseOnce ==
  /\ at = "choosing" /\ mode = "write-once"
  /\ \E c \in Channel, scanned \in BOOLEAN :
       /\ scanned \/ "scan" \in Faults
       /\ \/ Exits(4)
          \/ ~enabled /\ Exits(6)
          \/ enabled /\ ~scanned /\ Exits(3)
          \/ enabled /\ scanned /\ c \notin Writable /\ Exits(5)
          \/ /\ enabled /\ scanned /\ c \in Writable
             /\ at' = "recording" /\ channel' = c /\ base' = fan[c]
             /\ UNCHANGED <<mode, enabled, plan, left, step, aborted, stop, exit>>
  /\ UNCHANGED <<fan, sidecar, forgotten>>

\* All the channels the scan shows and the policy does not block, or one of them.
ChooseChannels ==
  /\ at = "choosing" /\ mode = "calibrate" /\ left = {}
  /\ \/ Exits(1)
     \/ /\ left' \in {Writable} \cup {{c} : c \in Writable}
        /\ left' # {}
        /\ UNCHANGED <<at, mode, enabled, plan, channel, base, step, aborted, stop, exit>>
  /\ UNCHANGED <<fan, sidecar, forgotten>>

\* After a channel, and after the last one.
Continues(ended) ==
  /\ at' = IF ended \/ left = {} THEN "reporting" ELSE "choosing"
  /\ aborted' = (aborted \/ (ended /\ stop))
  /\ step' = 1 /\ base' = Firmware
  /\ UNCHANGED <<mode, enabled, plan, left, channel, stop, exit>>

\* The next channel's baseline is read, in vain perhaps.
ChooseNext ==
  /\ at = "choosing" /\ mode = "calibrate" /\ left # {}
  /\ \/ stop /\ Continues(TRUE)
     \/ /\ ~stop
        /\ left' = left \ {Min(left)}
        /\ \/ at' = "recording" /\ channel' = Min(left) /\ base' = fan[Min(left)]
           \/ /\ "scan" \in Faults
              /\ at' = IF left' = {} THEN "reporting" ELSE "choosing"
              /\ UNCHANGED <<channel, base>>
        /\ UNCHANGED <<mode, enabled, plan, step, aborted, stop, exit>>
  /\ UNCHANGED <<fan, sidecar, forgotten>>

-----------------------------------------------------------------------------
(* Drive, hold, restore.                                                   *)

\* Mutant: the record is left for later.
RecordLater ==
  /\ at = "recording"
  /\ Goes("driving")
  /\ UNCHANGED <<fan, sidecar, forgotten>>

\* UpsertPendingWrite, before the fan is touched.  A calibration goes on with the
\* next channel when that fails.
RecordChannel ==
  /\ at = "recording"
  /\ \/ /\ sidecar' = [sidecar EXCEPT ![channel] = base]
        /\ Goes("driving")
     \/ /\ "persist" \in Faults
        /\ IF mode = "write-once" THEN Exits(1) ELSE Continues(FALSE)
        /\ UNCHANGED sidecar
  /\ UNCHANGED <<fan, forgotten>>

\* ApplyDuty.  After a failure write-once leaves the record to the next process; a
\* calibration restores at once.  A refusal by the policy, after which write-once
\* removes the record, does not occur: ChooseOnce has asked the same policy.
DriveFan ==
  /\ at = "driving" /\ ~(mode = "calibrate" /\ stop)
  /\ \/ /\ enabled
        /\ \E p \in Pct : Applied(channel, p)
        /\ Goes("holding")
     \/ /\ \/ enabled /\ ApplyFailed(channel)
           \/ ~enabled /\ UNCHANGED fan
        /\ \/ mode = "write-once" /\ Exits(1)
           \/ /\ mode = "calibrate"
              /\ at' = "restoring" /\ aborted' = TRUE
              /\ UNCHANGED <<mode, enabled, plan, left, channel, base, step, stop, exit>>
  /\ forgotten' = forgotten \ {channel}
  /\ UNCHANGED sidecar

\* The time of the hold is over, write-once also when it is stopped.
EndHold ==
  /\ at = "holding"
  /\ \/ mode = "write-once" /\ Goes("restoring")
     \/ mode = "calibrate" /\ step = NumSteps /\ Goes("restoring")
     \/ /\ mode = "calibrate" /\ step < NumSteps
        /\ at' = "driving" /\ step' = step + 1
        /\ UNCHANGED <<mode, enabled, plan, left, channel, base, aborted, stop, exit>>
  /\ UNCHANGED <<fan, sidecar, forgotten>>

\* A stop, or an AMD temperature above the ceiling while one can be read.
AbortSteps ==
  /\ mode = "calibrate"
  /\ at = "holding" \/ (at = "driving" /\ stop)
  /\ at' = "restoring" /\ aborted' = TRUE
  /\ UNCHANGED <<fan, sidecar, mode, enabled, plan, left, channel, base, step, stop, exit,
                 forgotten>>

\* Mutant: write-once erases its record in any case.
RestoreAnyway ==
  /\ at = "restoring"
  /\ RestoreDone(channel, base) \/ RestoreFailed(channel, base)
  /\ Goes("erasing")
  /\ UNCHANGED <<sidecar, forgotten>>

\* RestoreSavedState.  Only write-once keeps the record of a fan it could not
\* restore: a calibration notes the failure in its result and goes on.
RestoreFan ==
  /\ at = "restoring"
  /\ \/ RestoreDone(channel, base) /\ Goes("erasing") /\ UNCHANGED forgotten
     \/ /\ RestoreFailed(channel, base)
        /\ \/ mode = "write-once" /\ Exits(1) /\ UNCHANGED forgotten
           \/ /\ mode = "calibrate" /\ Goes("erasing")
              /\ forgotten' = forgotten \cup {channel}
  /\ UNCHANGED sidecar

\* RemovePendingWrite.
EraseRecord ==
  /\ at = "erasing"
  /\ \E done \in BOOLEAN :
       /\ done \/ "persist" \in Faults
       /\ sidecar' = IF done THEN [sidecar EXCEPT ![channel] = Absent] ELSE sidecar
       /\ \/ mode = "write-once" /\ Exits(IF done THEN 0 ELSE 1)
          \/ mode = "calibrate" /\ Continues(aborted)
  /\ UNCHANGED <<fan, forgotten>>

\* The result of a calibration is written, or not.
WriteResult ==
  /\ at = "reporting"
  /\ Exits(IF aborted THEN 1 ELSE 0) \/ Exits(1)
  /\ UNCHANGED <<fan, sidecar, forgotten>>

-----------------------------------------------------------------------------
SignalStop ==
  /\ at \notin {"down", "opening", "reconciling"} /\ ~stop
  /\ stop' = TRUE
  /\ UNCHANGED <<fan, sidecar, at, mode, enabled, plan, left, channel, base, step, aborted,
                 exit, forgotten>>

DieAnywhere ==
  /\ at # "down" /\ "crash" \in Faults
  /\ Exits(Absent)
  /\ UNCHANGED <<fan, sidecar, forgotten>>

BoardTakesOver ==
  /\ \E c \in Channel : TakeOver(c)
  /\ UNCHANGED <<sidecar, at, runVars, exit, forgotten>>

OneShotNext ==
  \/ StartRun \/ OpenWriter \/ RestoreRecord \/ FlushRecords
  \/ ChooseOnce \/ ChooseChannels \/ ChooseNext \/ RecordChannel
  \/ DriveFan \/ EndHold \/ AbortSteps \/ RestoreFan \/ EraseRecord \/ WriteResult
  \/ SignalStop \/ DieAnywhere \/ BoardTakesOver

OneShotSpec == OneShotInit /\ [][OneShotNext]_oneShotVars

-----------------------------------------------------------------------------
(* Properties.                                                             *)

\* Wherever a run ends, by itself or not, a fan in manual mode is on record for the
\* next process, or a calibration has said that it could not restore it.
DrivenFanIsRecoverable ==
  \A c \in Channel : Manual(c) => sidecar[c] # Absent \/ c \in forgotten

\* When write-once reports success, the fan it drove is the board's again, and not
\* on record.
SuccessMeansReleased ==
  at = "down" /\ exit = 0 /\ mode = "write-once"
    => ~Manual(channel) /\ sidecar[channel] = Absent

\* What the process holds: a fan in manual mode, unless a calibration has given it up.
Held == {c \in Channel : Manual(c)} \ forgotten

\* These modes keep the protocol of the worker's write path: no fan is taken but one
\* on record, and no record goes but that of a fan that is not held.
RunCustody == INSTANCE WriteAheadCustody WITH
  Fan      <- Channel,
  taken    <- Held,
  recorded <- {c \in Channel : sidecar[c] # Absent}

RunCustodySpec == RunCustody!Spec
=============================================================================
