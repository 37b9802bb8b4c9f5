---------------------------- MODULE OneShotProofs ----------------------------
(***************************************************************************)
(* Proofs about the modes that drive fans for a while (OneShot): wherever   *)
(* such a process dies, the next one finds what it has to put back, and a   *)
(* write-once run that reports success has put its fan back.               *)
(***************************************************************************)
EXTENDS OneShot, WellFoundedInduction, TLAPS

\* What the proofs need of the types.
Typed ==
  /\ fan \in [Channel -> FanState]
  /\ sidecar \in [Channel -> FanState \cup {Absent}]
  /\ plan \in [Channel -> FanState \cup {Absent}]
  /\ left \subseteq Channel /\ channel \in Channel
  /\ base \in FanState
  /\ mode \in {"write-once", "calibrate"}

\* While records are put back, what is not released yet is still in the plan.
PlanCovers ==
  at \in {"opening", "reconciling"} =>
    \A c \in Channel : Manual(c) => plan[c] # Absent \/ c \in forgotten

\* A fan is driven under its record, and the record erased of a released fan.
DrivenUnderRecord ==
  /\ at \in {"driving", "holding", "restoring"} => sidecar[channel] # Absent
  /\ at = "erasing" =>
       /\ ~Manual(channel) \/ channel \in forgotten
       /\ mode = "write-once" => ~Manual(channel)
  /\ at = "reporting" => mode = "calibrate"

OneShotInv ==
  /\ Typed /\ PlanCovers /\ DrivenUnderRecord
  /\ DrivenFanIsRecoverable /\ SuccessMeansReleased

LEMMA OneShotInvInit == OneShotInit => OneShotInv
<1> SUFFICES ASSUME OneShotInit PROVE OneShotInv
  OBVIOUS
<1> USE ConstantsAssumption DEF OneShotInit, HardwareInit
<1>1. Typed
  BY DEF Typed, Channel, FanState
<1>2. \A c \in Channel : ~Manual(c)
  BY DEF Manual, Firmware, Pct
<1> QED
  BY <1>1, <1>2
     DEF OneShotInv, PlanCovers, DrivenUnderRecord, DrivenFanIsRecoverable,
         SuccessMeansReleased, Absent

-----------------------------------------------------------------------------
(* The outputs.                                                            *)

\* What a call of the writer may do to the outputs: each is left in a state it can
\* have, and none but the one addressed becomes manual.
LEMMA OutputsOfCalls ==
  ASSUME Typed, NEW c \in Channel, NEW b \in FanState \cup {Absent}, NEW p \in Pct,
         \/ Applied(c, p) \/ ApplyFailed(c) \/ UNCHANGED fan
         \/ RestoreDone(c, b) \/ RestoreFailed(c, b) \/ TakeOver(c)
  PROVE  /\ fan' \in [Channel -> FanState]
         /\ \A d \in Channel : d # c /\ Manual(d)' => Manual(d)
<1> USE ConstantsAssumption DEF FanState, Pct, Channel, Typed
<1>1. fan' = fan \/ \E s \in FanState : fan' = [fan EXCEPT ![c] = s]
  BY DEF Applied, ApplyFailed, RestoreDone, RestoreFailed, TakeOver, Restored, PctOf,
         Firmware, Fallback
<1> QED BY <1>1 DEF Manual

\* After a restore the output is not manual, and one that fails makes none manual.
LEMMA RestoresRelease ==
  ASSUME Typed, NEW c \in Channel, NEW b \in FanState \cup {Absent}
  PROVE  /\ RestoreDone(c, b) => ~Manual(c)'
         /\ RestoreFailed(c, b) => (Manual(c)' => Manual(c))
<1>1. Restored(b) \notin Pct
  BY ConstantsAssumption DEF Restored, Firmware, Fallback, Pct
<1>2. RestoreDone(c, b) => ~Manual(c)'
  BY <1>1 DEF RestoreDone, Manual, Typed
<1>3. RestoreFailed(c, b) => (Manual(c)' => Manual(c))
  BY DEF RestoreFailed, Manual
<1> QED BY <1>2, <1>3

\* Of a nonempty set of channels the least is one.
LEMMA MinIsMember ==
  ASSUME NEW S \in SUBSET Channel, S # {}
  PROVE  Min(S) \in S
<1> DEFINE R == OpToRel(<, Nat)
<1>1. IsWellFoundedOn(R, Nat)
  BY NatLessThanWellFounded
<1>2. \A y \in Nat, z \in Nat : y < z => <<y, z>> \in R
  BY Zenon DEF R, OpToRel
<1>3. S \in SUBSET Nat
  BY ConstantsAssumption DEF Channel
<1> HIDE DEF R
<1>4. PICK x \in S : \A y \in S : ~ (<<y, x>> \in R)
  BY <1>1, <1>3, WFMin
<1>5. \A y \in S : ~ (y < x)
  BY <1>2, <1>3, <1>4, Zenon
<1>6. \A y \in S : x <= y
  BY <1>3, <1>5
<1> QED BY <1>6 DEF Min

-----------------------------------------------------------------------------
(* The steps.                                                              *)

\* The process ends, with outputs and file as they are.
LEMMA ExitsKeep ==
  ASSUME OneShotInv, NEW status, Exits(status), UNCHANGED <<fan, sidecar, forgotten>>,
         status = 0 => mode = "calibrate"
  PROVE  OneShotInv'
<1> USE DEF OneShotInv
<1>1. Typed'
  BY DEF Typed, Exits, FanState
<1> QED
  BY <1>1 DEF Exits, PlanCovers, DrivenUnderRecord, DrivenFanIsRecoverable, SuccessMeansReleased,
              Manual

\* It goes on, with outputs and file as they are.
LEMMA GoesKeeps ==
  ASSUME OneShotInv, UNCHANGED <<fan, sidecar, forgotten>>, at' # "down", Typed',
         PlanCovers', DrivenUnderRecord'
  PROVE  OneShotInv'
BY DEF OneShotInv, DrivenFanIsRecoverable, SuccessMeansReleased, Manual

\* To the next channel, or to the report of a calibration.
LEMMA ContinuesKeeps ==
  ASSUME OneShotInv, NEW ended, Continues(ended), UNCHANGED <<fan, sidecar, forgotten>>,
         mode = "calibrate"
  PROVE  OneShotInv'
<1>1. Typed'
  BY DEF Typed, Continues, FanState, OneShotInv
<1>2. at' \in {"reporting", "choosing"} /\ mode' = "calibrate"
  BY DEF Continues
<1> QED BY <1>1, <1>2, GoesKeeps DEF PlanCovers, DrivenUnderRecord

LEMMA StartKeeps ==
  ASSUME OneShotInv, StartRun
  PROVE  OneShotInv'
<1>1. Typed'
  BY DEF OneShotInv, Typed, StartRun
<1>2. at' \in {"ready", "opening"}
  BY DEF StartRun
<1>3. PlanCovers'
  BY DEF OneShotInv, DrivenFanIsRecoverable, PlanCovers, StartRun, Manual
<1> QED BY <1>1, <1>2, <1>3, GoesKeeps DEF StartRun, DrivenUnderRecord

LEMMA OpenKeeps ==
  ASSUME OneShotInv, OpenWriter
  PROVE  OneShotInv'
<1>1. CASE Exits(1)
  BY <1>1, ExitsKeep DEF OpenWriter
<1>2. CASE Goes(IF at = "opening" THEN "reconciling" ELSE "choosing")
  <2>1. Typed' /\ PlanCovers' /\ DrivenUnderRecord'
    BY <1>2 DEF OneShotInv, OpenWriter, Goes, runVars, Typed, PlanCovers, DrivenUnderRecord,
                Manual
  <2> QED BY <1>2, <2>1, GoesKeeps DEF OpenWriter, Goes
<1> QED BY <1>1, <1>2 DEF OpenWriter

\* A record that is put back leaves the plan with its output released.
LEMMA RestoreRecordKeeps ==
  ASSUME OneShotInv, RestoreRecord
  PROVE  OneShotInv'
<1>1. PICK c \in Channel : c = Min(left)
  <2>1. left # {}
    BY DEF RestoreRecord
  <2> QED BY <2>1, MinIsMember DEF OneShotInv, Typed
<1>2. /\ at = "reconciling" /\ at' = at
      /\ left' = left \ {c}
      /\ \/ RestoreDone(c, plan[c]) /\ plan' = [plan EXCEPT ![c] = Absent]
         \/ RestoreFailed(c, plan[c]) /\ plan' = plan
      /\ UNCHANGED <<sidecar, mode, channel, base, exit, forgotten>>
  BY <1>1 DEF RestoreRecord
<1>3. plan[c] \in FanState \cup {Absent}
  BY DEF OneShotInv, Typed
<1>4. Typed
  BY DEF OneShotInv
<1>5. FirmwarePct \in Pct
  BY ConstantsAssumption
<1>6. fan' \in [Channel -> FanState] /\ \A d \in Channel : d # c /\ Manual(d)' => Manual(d)
  BY <1>2, <1>3, <1>4, <1>5, OutputsOfCalls
<1>7. \/ ~Manual(c)' /\ plan' = [plan EXCEPT ![c] = Absent]
      \/ (Manual(c)' => Manual(c)) /\ plan' = plan
  <2>1. CASE RestoreDone(c, plan[c]) /\ plan' = [plan EXCEPT ![c] = Absent]
    BY <1>3, <1>4, <2>1, RestoresRelease
  <2>2. CASE RestoreFailed(c, plan[c]) /\ plan' = plan
    BY <1>3, <1>4, <2>2, RestoresRelease
  <2> QED BY <1>2, <2>1, <2>2
<1>8. Typed'
  BY <1>2, <1>4, <1>6 DEF Typed
<1>9. \A d \in Channel : Manual(d)' => Manual(d) /\ plan'[d] = plan[d]
  <2> SUFFICES ASSUME NEW d \in Channel, Manual(d)'
               PROVE  Manual(d) /\ plan'[d] = plan[d]
    OBVIOUS
  <2>1. CASE d = c
    BY <1>7, <2>1
  <2>2. CASE d # c
    BY <1>4, <1>6, <1>7, <2>2 DEF Typed
  <2> QED BY <2>1, <2>2
<1>10. PlanCovers'
  BY <1>2, <1>9 DEF OneShotInv, PlanCovers
<1>11. DrivenUnderRecord' /\ SuccessMeansReleased'
  BY <1>2 DEF DrivenUnderRecord, SuccessMeansReleased
<1>12. DrivenFanIsRecoverable'
  BY <1>2, <1>9 DEF OneShotInv, DrivenFanIsRecoverable
<1> QED BY <1>8, <1>10, <1>11, <1>12 DEF OneShotInv

\* The file is replaced by a plan that still covers what is driven.
LEMMA FlushKeeps ==
  ASSUME OneShotInv, FlushRecords
  PROVE  OneShotInv'
<1>1. CASE UNCHANGED sidecar /\ Exits(1)
  BY <1>1, ExitsKeep DEF FlushRecords
<1>2. CASE sidecar' = plan /\ (Goes("ready") \/ Exits(1))
  <2>1. /\ at = "reconciling" /\ UNCHANGED <<fan, forgotten>> /\ at' \in {"ready", "down"}
        /\ (at' = "down" => exit' = 1)
    BY <1>2 DEF FlushRecords, Goes, Exits
  <2>2. Typed'
    BY <1>2, <2>1 DEF OneShotInv, Typed, Goes, Exits, runVars, FanState
  <2>3. DrivenFanIsRecoverable'
    BY <1>2, <2>1 DEF OneShotInv, PlanCovers, DrivenFanIsRecoverable, Manual
  <2> QED
    BY <2>1, <2>2, <2>3 DEF OneShotInv, PlanCovers, DrivenUnderRecord, SuccessMeansReleased
<1> QED BY <1>1, <1>2 DEF FlushRecords

LEMMA ChooseKeeps ==
  ASSUME OneShotInv, ChooseOnce \/ ChooseChannels \/ ChooseNext
  PROVE  OneShotInv'
<1> USE DEF OneShotInv
<1>0. UNCHANGED <<fan, sidecar, forgotten>> /\ Typed
  BY DEF ChooseOnce, ChooseChannels, ChooseNext
<1>1. \A status \in {1, 3, 4, 5, 6} : Exits(status) => OneShotInv'
  BY <1>0, ExitsKeep
<1>2. ASSUME NEW c \in Channel, at' = "recording", channel' = c, base' = fan[c],
             left' \subseteq left, UNCHANGED <<plan, mode>>
      PROVE  OneShotInv'
  <2>1. Typed'
    BY <1>0, <1>2 DEF Typed
  <2> QED BY <1>0, <1>2, <2>1, GoesKeeps DEF PlanCovers, DrivenUnderRecord
<1>3. CASE ChooseOnce
  BY <1>1, <1>2, <1>3 DEF ChooseOnce
<1>4. CASE ChooseChannels
  <2>1. CASE Exits(1)
    BY <1>1, <2>1
  <2>2. CASE ~Exits(1)
    <3>1. left' \subseteq Channel /\ UNCHANGED <<at, mode, plan, channel, base>> /\ at = "choosing"
      BY <1>4, <2>2, ConstantsAssumption DEF ChooseChannels
    <3>2. Typed'
      BY <1>0, <3>1 DEF Typed
    <3> QED BY <1>0, <3>1, <3>2, GoesKeeps DEF PlanCovers, DrivenUnderRecord
  <2> QED BY <2>1, <2>2
<1>5. CASE ChooseNext
  <2>0. mode = "calibrate" /\ left # {} /\ Min(left) \in Channel
    BY <1>0, <1>5, MinIsMember DEF ChooseNext, Typed
  <2>1. CASE Continues(TRUE)
    BY <1>0, <2>0, <2>1, ContinuesKeeps
  <2>2. CASE at' = "recording" /\ channel' = Min(left) /\ base' = fan[Min(left)] /\ ~stop
    BY <1>2, <1>5, <2>0, <2>2 DEF ChooseNext, Continues
  <2>3. CASE /\ at' = IF left' = {} THEN "reporting" ELSE "choosing"
             /\ UNCHANGED <<channel, base, mode, plan>> /\ left' \subseteq left
    <3>1. Typed'
      BY <1>0, <2>3 DEF Typed
    <3>2. at' \in {"reporting", "choosing"} /\ mode' = "calibrate"
      BY <2>0, <2>3
    <3> QED BY <1>0, <3>1, <3>2, GoesKeeps DEF PlanCovers, DrivenUnderRecord
  <2> QED BY <1>5, <2>1, <2>2, <2>3 DEF ChooseNext
<1> QED BY <1>3, <1>4, <1>5

\* The record is there before the fan is touched.
LEMMA RecordKeeps ==
  ASSUME OneShotInv, RecordChannel
  PROVE  OneShotInv'
<1> USE DEF OneShotInv
<1>1. CASE /\ UNCHANGED <<sidecar, forgotten>>
           /\ IF mode = "write-once" THEN Exits(1) ELSE Continues(FALSE)
  <2>0. UNCHANGED <<fan, sidecar, forgotten>>
    BY <1>1 DEF RecordChannel
  <2>1. CASE mode = "write-once"
    BY <1>1, <2>0, <2>1, ExitsKeep
  <2>2. CASE mode = "calibrate"
    BY <1>1, <2>0, <2>2, ContinuesKeeps
  <2> QED BY <2>1, <2>2 DEF Typed
<1>2. CASE /\ sidecar' = [sidecar EXCEPT ![channel] = base]
           /\ Goes("driving")
  <2>1. /\ UNCHANGED <<fan, forgotten>> /\ at' = "driving" /\ UNCHANGED <<mode, plan, left, channel, base>>
    BY <1>2 DEF RecordChannel, Goes, runVars
  <2>2. base # Absent
    BY ConstantsAssumption DEF Typed, FanState, Absent, Firmware, Fallback, Pct
  <2>3. /\ sidecar'[channel] # Absent
        /\ \A d \in Channel : d # channel => sidecar'[d] = sidecar[d]
    BY <1>2, <2>2 DEF Typed
  <2>4. Typed'
    BY <1>2, <2>1 DEF Typed
  <2>5. DrivenFanIsRecoverable'
    BY <1>2, <2>1, <2>3 DEF DrivenFanIsRecoverable, Manual
  <2> QED BY <2>1, <2>3, <2>4, <2>5 DEF PlanCovers, DrivenUnderRecord, SuccessMeansReleased
<1> QED BY <1>1, <1>2 DEF RecordChannel

\* What is driven has its record.
LEMMA DriveKeeps ==
  ASSUME OneShotInv, DriveFan
  PROVE  OneShotInv'
<1> USE DEF OneShotInv
<1>1. /\ at = "driving" /\ sidecar' = sidecar /\ forgotten' = forgotten \ {channel}
      /\ sidecar[channel] # Absent /\ channel \in Channel
  BY DEF DriveFan, DrivenUnderRecord, Typed
<1>2. (\E p \in Pct : Applied(channel, p)) \/ ApplyFailed(channel) \/ UNCHANGED fan
  BY DEF DriveFan
<1>3. fan' \in [Channel -> FanState] /\ \A d \in Channel : d # channel /\ Manual(d)' => Manual(d)
  <2>1. PICK p \in Pct : Applied(channel, p) \/ ApplyFailed(channel) \/ UNCHANGED fan
    BY <1>2, ConstantsAssumption
  <2> QED BY <1>1, <2>1, OutputsOfCalls
<1>4. DrivenFanIsRecoverable'
  BY <1>1, <1>3 DEF DrivenFanIsRecoverable
<1>5. CASE Exits(1)
  <2>1. Typed'
    BY <1>1, <1>3, <1>5 DEF Typed, Exits, FanState
  <2> QED
    BY <1>4, <1>5, <2>1 DEF Exits, PlanCovers, DrivenUnderRecord, SuccessMeansReleased
<1>6. CASE at' \in {"holding", "restoring"} /\ UNCHANGED <<mode, plan, left, channel, base>>
  <2>1. Typed'
    BY <1>1, <1>3, <1>6 DEF Typed
  <2> QED
    BY <1>1, <1>4, <1>6, <2>1 DEF PlanCovers, DrivenUnderRecord, SuccessMeansReleased
<1> QED BY <1>5, <1>6 DEF DriveFan, Goes, runVars

LEMMA HoldKeeps ==
  ASSUME OneShotInv, EndHold \/ AbortSteps
  PROVE  OneShotInv'
<1> USE DEF OneShotInv
<1>1. /\ UNCHANGED <<fan, sidecar, forgotten, mode, plan, left, channel, base>>
      /\ at \in {"holding", "driving"} /\ at' \in {"driving", "restoring"}
  BY DEF EndHold, AbortSteps, Goes, runVars
<1>2. Typed'
  BY <1>1 DEF Typed
<1> QED BY <1>1, <1>2, GoesKeeps DEF PlanCovers, DrivenUnderRecord

\* The fan is released, or kept on record, or noted.
LEMMA RestoreKeeps ==
  ASSUME OneShotInv, RestoreFan
  PROVE  OneShotInv'
<1> USE DEF OneShotInv
<1>1. /\ at = "restoring" /\ sidecar' = sidecar /\ sidecar[channel] # Absent
      /\ channel \in Channel /\ base \in FanState
  BY DEF RestoreFan, DrivenUnderRecord, Typed
<1>2. /\ fan' \in [Channel -> FanState]
      /\ \A d \in Channel : d # channel /\ Manual(d)' => Manual(d)
  <2>1. PICK p \in Pct : TRUE
    BY ConstantsAssumption
  <2> QED BY <1>1, <2>1, OutputsOfCalls DEF RestoreFan
<1>3. CASE Exits(1) /\ UNCHANGED forgotten
  <2>1. Typed'
    BY <1>1, <1>2, <1>3 DEF Typed, Exits, FanState
  <2>2. DrivenFanIsRecoverable'
    BY <1>1, <1>2, <1>3 DEF DrivenFanIsRecoverable
  <2> QED
    BY <1>3, <2>1, <2>2 DEF Exits, PlanCovers, DrivenUnderRecord, SuccessMeansReleased
<1>4. CASE /\ Goes("erasing")
           /\ \/ fan'[channel] \notin Pct /\ forgotten' = forgotten
              \/ mode = "calibrate" /\ forgotten' = forgotten \cup {channel}
  <2>1. at' = "erasing" /\ UNCHANGED <<mode, plan, left, channel, base>>
    BY <1>4 DEF Goes, runVars
  <2>2. Typed'
    BY <1>1, <1>2, <2>1 DEF Typed
  <2>3. DrivenFanIsRecoverable'
    BY <1>1, <1>2, <1>4 DEF DrivenFanIsRecoverable, Manual
  <2>4. DrivenUnderRecord'
    BY <1>4, <2>1 DEF DrivenUnderRecord, Manual
  <2> QED BY <2>1, <2>2, <2>3, <2>4 DEF PlanCovers, SuccessMeansReleased
<1>5. RestoreDone(channel, base) => fan'[channel] \notin Pct
  <2>1. PICK c \in Channel : c = channel
    BY <1>1
  <2>2. RestoreDone(c, base) => ~Manual(c)'
    BY <1>1, RestoresRelease
  <2> QED BY <2>1, <2>2 DEF Manual
<1> QED BY <1>3, <1>4, <1>5 DEF RestoreFan

\* Only a released fan, or one that is noted, is taken off the record.
LEMMA EraseKeeps ==
  ASSUME OneShotInv, EraseRecord
  PROVE  OneShotInv'
<1> USE DEF OneShotInv
<1>1. PICK done \in BOOLEAN :
        /\ sidecar' = IF done THEN [sidecar EXCEPT ![channel] = Absent] ELSE sidecar
        /\ \/ mode = "write-once" /\ Exits(IF done THEN 0 ELSE 1)
           \/ mode = "calibrate" /\ Continues(aborted)
  BY DEF EraseRecord
<1>2. /\ at = "erasing" /\ UNCHANGED <<fan, forgotten>> /\ channel \in Channel
      /\ ~Manual(channel) \/ channel \in forgotten
      /\ mode = "write-once" => ~Manual(channel)
  BY DEF EraseRecord, DrivenUnderRecord, Typed
<1>3. /\ sidecar' \in [Channel -> FanState \cup {Absent}]
      /\ \A d \in Channel : d # channel => sidecar'[d] = sidecar[d]
      /\ done => sidecar'[channel] = Absent
  BY <1>1, <1>2 DEF Typed
<1>4. DrivenFanIsRecoverable'
  <2>1. ASSUME NEW d \in Channel, Manual(d)
        PROVE  sidecar'[d] # Absent \/ d \in forgotten
    <3>1. CASE d = channel
      <4>1. CASE done
        BY <1>2, <2>1, <3>1
      <4>2. CASE ~done
        BY <1>1, <2>1, <4>2 DEF DrivenFanIsRecoverable
      <4> QED BY <4>1, <4>2
    <3>2. CASE d # channel
      BY <1>3, <2>1, <3>2 DEF DrivenFanIsRecoverable
    <3> QED BY <3>1, <3>2
  <2> QED BY <1>2, <2>1 DEF DrivenFanIsRecoverable, Manual
<1>5. CASE mode = "write-once" /\ Exits(IF done THEN 0 ELSE 1)
  <2>1. Typed'
    BY <1>2, <1>3, <1>5 DEF Typed, Exits, FanState
  <2>2. /\ at' = "down" /\ exit' = (IF done THEN 0 ELSE 1) /\ channel' = channel
    BY <1>5 DEF Exits
  <2>3. SuccessMeansReleased'
    BY <1>2, <1>3, <1>5, <2>2 DEF SuccessMeansReleased, Manual
  <2> QED BY <1>4, <2>1, <2>2, <2>3 DEF PlanCovers, DrivenUnderRecord
<1>6. CASE mode = "calibrate" /\ Continues(aborted)
  <2>1. Typed'
    BY <1>2, <1>3, <1>6 DEF Typed, Continues, FanState
  <2>2. at' \in {"reporting", "choosing"} /\ mode' = "calibrate"
    BY <1>6 DEF Continues
  <2> QED BY <1>4, <2>1, <2>2 DEF PlanCovers, DrivenUnderRecord, SuccessMeansReleased
<1> QED BY <1>1, <1>5, <1>6

LEMMA EnvironmentKeeps ==
  ASSUME OneShotInv, WriteResult \/ SignalStop \/ DieAnywhere \/ BoardTakesOver
  PROVE  OneShotInv'
<1> USE DEF OneShotInv
<1>1. CASE WriteResult
  <2>1. mode = "calibrate"
    BY <1>1 DEF WriteResult, DrivenUnderRecord
  <2> QED BY <1>1, <2>1, ExitsKeep DEF WriteResult
<1>2. CASE SignalStop
  <2>1. /\ UNCHANGED <<fan, sidecar, forgotten, at, mode, plan, left, channel, base, exit>>
        /\ at # "down"
    BY <1>2 DEF SignalStop
  <2>2. Typed'
    BY <2>1 DEF Typed
  <2> QED BY <2>1, <2>2, GoesKeeps DEF PlanCovers, DrivenUnderRecord, Manual
<1>3. CASE DieAnywhere
  <2>1. Absent # 0
    BY DEF Absent
  <2> QED BY <1>3, <2>1, ExitsKeep DEF DieAnywhere
<1>4. CASE BoardTakesOver
  <2>1. PICK c \in Channel : TakeOver(c)
    BY <1>4 DEF BoardTakesOver
  <2>2. /\ UNCHANGED <<sidecar, forgotten, at, mode, plan, left, channel, base, exit>>
    BY <1>4 DEF BoardTakesOver, runVars
  <2>3. PICK p \in Pct : TRUE
    BY ConstantsAssumption
  <2>4. fan' \in [Channel -> FanState] /\ \A d \in Channel : d # c /\ Manual(d)' => Manual(d)
    BY <2>1, <2>3, OutputsOfCalls
  <2>5. \A d \in Channel : Manual(d)' => Manual(d)
    BY <2>1, <2>4 DEF TakeOver
  <2>6. Typed'
    BY <2>2, <2>4 DEF Typed
  <2>7. channel \in Channel
    BY DEF Typed
  <2> QED
    BY <2>2, <2>5, <2>6, <2>7
       DEF PlanCovers, DrivenUnderRecord, DrivenFanIsRecoverable, SuccessMeansReleased
<1> QED BY <1>1, <1>2, <1>3, <1>4

\* The invariant holds whatever fails and wherever the process dies.
THEOREM OneShotInvariant == OneShotSpec => []OneShotInv
<1>1. OneShotInv /\ [OneShotNext]_oneShotVars => OneShotInv'
  <2> SUFFICES ASSUME OneShotInv, [OneShotNext]_oneShotVars PROVE OneShotInv'
    OBVIOUS
  <2>1. CASE UNCHANGED oneShotVars
    BY <2>1 DEF oneShotVars, runVars, OneShotInv, Typed, PlanCovers, DrivenUnderRecord,
                DrivenFanIsRecoverable, SuccessMeansReleased, Manual
  <2> QED
    BY <2>1, StartKeeps, OpenKeeps, RestoreRecordKeeps, FlushKeeps, ChooseKeeps, RecordKeeps,
       DriveKeeps, HoldKeeps, RestoreKeeps, EraseKeeps, EnvironmentKeeps
       DEF OneShotNext
<1> QED BY <1>1, OneShotInvInit, PTL DEF OneShotSpec

\* Wherever write-once or a calibration ends or dies, a fan in manual mode is on
\* record for the next process, or a calibration has said that it could not restore
\* it.
THEOREM FansAreRecoverable == OneShotSpec => []DrivenFanIsRecoverable
<1>1. OneShotInv => DrivenFanIsRecoverable
  BY DEF OneShotInv
<1> QED BY <1>1, OneShotInvariant, PTL

\* A write-once run that reports success has given its fan back to the board and
\* erased the record.
THEOREM SuccessReleases == OneShotSpec => []SuccessMeansReleased
<1>1. OneShotInv => SuccessMeansReleased
  BY DEF OneShotInv
<1> QED BY <1>1, OneShotInvariant, PTL

-----------------------------------------------------------------------------
(* The protocol of the write path.                                         *)

Joins(c)  == c \in Held' /\ Held' = Held \cup {c}
Leaves(c) == Held' = Held \ {c}

\* A step changes what is held by at most one fan, and then leaves the file alone.
LEMMA HeldChangesAlone ==
  ASSUME OneShotInv, OneShotInv', [OneShotNext]_oneShotVars
  PROVE  \/ Held' = Held
         \/ /\ sidecar' = sidecar
            /\ \E c \in Channel : Joins(c) \/ Leaves(c)
<1>0. Typed /\ Typed'
  BY DEF OneShotInv
<1>1. CASE UNCHANGED <<fan, forgotten>>
  BY <1>1 DEF Held, Manual
<1>2. ASSUME NEW c \in Channel, sidecar' = sidecar,
             \A d \in Channel : d # c => (d \in Held' <=> d \in Held)
      PROVE  \E d \in Channel : Joins(d) \/ Leaves(d)
  <2>1. Held \subseteq Channel /\ Held' \subseteq Channel
    BY DEF Held
  <2>2. CASE c \in Held'
    BY <1>2, <2>1, <2>2 DEF Joins
  <2>3. CASE c \notin Held'
    BY <1>2, <2>1, <2>3 DEF Leaves
  <2> QED BY <2>2, <2>3
<1>3. ASSUME NEW c \in Channel, \A d \in Channel : d # c => fan'[d] = fan[d],
             forgotten' \in {forgotten, forgotten \ {c}, forgotten \cup {c}}
      PROVE  \A d \in Channel : d # c => (d \in Held' <=> d \in Held)
  BY <1>3 DEF Held, Manual
<1>4. CASE RestoreRecord
  <2>1. Min(left) \in Channel
    BY <1>0, <1>4, MinIsMember DEF RestoreRecord, Typed
  <2>2. \A d \in Channel : d # Min(left) => fan'[d] = fan[d]
    BY <1>0, <1>4, <2>1 DEF RestoreRecord, RestoreDone, RestoreFailed, Typed
  <2> QED BY <1>2, <1>3, <1>4, <2>1, <2>2 DEF RestoreRecord
<1>5. CASE DriveFan
  <2>1. channel \in Channel /\ sidecar' = sidecar /\ forgotten' = forgotten \ {channel}
    BY <1>0, <1>5 DEF DriveFan, Typed
  <2>2. \A d \in Channel : d # channel => fan'[d] = fan[d]
    BY <1>0, <1>5, <2>1 DEF DriveFan, Applied, ApplyFailed, Typed
  <2> QED BY <1>2, <1>3, <2>1, <2>2
<1>6. CASE RestoreFan
  <2>1. /\ channel \in Channel /\ sidecar' = sidecar
        /\ forgotten' \in {forgotten, forgotten \cup {channel}}
    BY <1>0, <1>6 DEF RestoreFan, Typed
  <2>2. \A d \in Channel : d # channel => fan'[d] = fan[d]
    BY <1>0, <1>6, <2>1 DEF RestoreFan, RestoreDone, RestoreFailed, Typed
  <2> QED BY <1>2, <1>3, <2>1, <2>2
<1>7. CASE BoardTakesOver
  <2>1. PICK c \in Channel : TakeOver(c)
    BY <1>7 DEF BoardTakesOver
  <2>2. \A d \in Channel : d # c => fan'[d] = fan[d]
    BY <1>0, <2>1 DEF TakeOver, Typed
  <2> QED BY <1>2, <1>3, <1>7, <2>2 DEF BoardTakesOver
<1> QED
  BY <1>1, <1>4, <1>5, <1>6, <1>7
     DEF OneShotNext, oneShotVars, StartRun, OpenWriter, FlushRecords, ChooseOnce,
         ChooseChannels, ChooseNext, RecordChannel, EndHold, AbortSteps, EraseRecord,
         WriteResult, SignalStop, DieAnywhere

\* Write-once and calibration keep the worker's protocol under every fault but an
\* unreadable sidecar: each step rewrites the file over what is held, takes a fan on
\* record, gives one back, or is none of the protocol's concern.
THEOREM RunCustodyRefined == OneShotSpec => RunCustodySpec
<1> DEFINE Recorded == {c \in Channel : sidecar[c] # Absent}
<1>1. OneShotInit => RunCustody!Init
  BY ConstantsAssumption
     DEF OneShotInit, HardwareInit, Held, Manual, Pct, Firmware, RunCustody!Init
<1>2. OneShotInv /\ OneShotInv' /\ [OneShotNext]_oneShotVars
        => [RunCustody!Next]_<<Held, Recorded>>
  <2> SUFFICES ASSUME OneShotInv, OneShotInv', [OneShotNext]_oneShotVars
               PROVE  RunCustody!Next \/ UNCHANGED <<Held, Recorded>>
    OBVIOUS
  <2>1. Held' \subseteq Recorded' /\ Recorded' \in SUBSET Channel
    BY DEF OneShotInv, DrivenFanIsRecoverable, Held
  <2>2. CASE Held' = Held
    <3>1. PICK R \in SUBSET Channel : R = Recorded'
      BY <2>1
    <3>2. RunCustody!Rewrite(R)
      BY <2>1, <2>2, <3>1 DEF RunCustody!Rewrite
    <3> QED BY <3>2, Zenon DEF RunCustody!Next
  <2>3. ASSUME sidecar' = sidecar, NEW c \in Channel, Joins(c)
        PROVE  RunCustody!Next
    BY <2>1, <2>3 DEF Joins, RunCustody!Next, RunCustody!Take
  <2>4. ASSUME sidecar' = sidecar, NEW c \in Channel, Leaves(c)
        PROVE  RunCustody!Next
    BY <2>4 DEF Leaves, RunCustody!Next, RunCustody!GiveBack
  <2> QED BY <2>2, <2>3, <2>4, HeldChangesAlone
<1> QED
  BY <1>1, <1>2, OneShotInvariant, PTL DEF OneShotSpec, RunCustodySpec, RunCustody!Spec
=============================================================================
