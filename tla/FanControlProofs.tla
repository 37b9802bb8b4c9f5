--------------------------- MODULE FanControlProofs ---------------------------
(***************************************************************************)
(* Theorems of FanControl for any number of channels, any duty range, any  *)
(* limits and any set of faults.                                           *)
(***************************************************************************)
EXTENDS FanControlInvariant, TLAPS

-----------------------------------------------------------------------------
(* The sidecar store keeps its types.                                      *)

USE DEF Records, FanState, Firmware, Fallback, Absent

\* Replacing one record of a record map yields a record map.
LEMMA RecordUpdate ==
  ASSUME NEW r \in Records, NEW c \in Channel, NEW v \in FanState \cup {Absent}
  PROVE  [r EXCEPT ![c] = v] \in Records
  OBVIOUS

\* What an operation on the store works on is a record map.
LEMMA CachedType ==
  ASSUME StoreTypeOK
  PROVE  Cached \in Records /\ WasDirty \in BOOLEAN
  BY DEF StoreTypeOK, Cached, WasDirty

\* Every outcome of Upsert keeps the types of file and cache.
LEMMA UpsertType ==
  ASSUME StoreTypeOK, NEW c \in Channel, NEW b \in FanState \cup {Absent},
         UpsertPersisted(c, b) \/ UpsertDeferred(c, b) \/ UpsertThrows(c, b)
  PROVE  StoreTypeOK'
<1> DEFINE e == [Cached EXCEPT ![c] = b]
<1>1. Cached \in Records /\ WasDirty \in BOOLEAN /\ e \in Records
  BY CachedType, RecordUpdate
<1>2. CASE UpsertPersisted(c, b)
  BY <1>1, <1>2 DEF UpsertPersisted, Persist, Adopt, StoreTypeOK
<1>3. CASE UpsertDeferred(c, b)
  BY <1>1, <1>3 DEF UpsertDeferred, StoreTypeOK, fileVars
<1>4. CASE UpsertThrows(c, b)
  BY <1>1, <1>4 DEF UpsertThrows, PersistThrows, StoreTypeOK, storeVars, fileVars
<1>5. QED
  BY <1>2, <1>3, <1>4

\* A queued removal keeps the types, whether or not the first load throws.
LEMMA RemoveType ==
  ASSUME StoreTypeOK, NEW c \in Channel, QueueRemove(c) \/ QueueRemoveThrows
  PROVE  StoreTypeOK'
<1>1. Cached \in Records /\ WasDirty \in BOOLEAN
      /\ [Cached EXCEPT ![c] = Absent] \in Records
  BY CachedType, RecordUpdate
<1>2. CASE QueueRemove(c)
  BY <1>1, <1>2 DEF QueueRemove, StoreTypeOK, fileVars
<1>3. CASE QueueRemoveThrows
  BY <1>3 DEF QueueRemoveThrows, StoreTypeOK, storeVars
<1>4. QED
  BY <1>2, <1>3

-----------------------------------------------------------------------------
(* Type correctness.                                                       *)

\* Stepping to the next channel stays among the channels.
LEMMA NextChannelType ==
  ASSUME cur \in Channel, NEW first, NEW last, NextChannel(first, last)
  PROVE  cur' \in Channel /\ phase' \in {first, last}
  BY ConstantsAssumption DEF Channel, NextChannel

\* A hardware operation leaves every output in some mode.
LEMMA HardwareType ==
  ASSUME HardwareTypeOK, NEW c \in Channel, NEW p \in Pct,
         NEW b \in FanState \cup {Absent},
         \/ Applied(c, p) \/ ApplyFailed(c) \/ ApplyRefused(c)
         \/ RestoreDone(c, b) \/ RestoreFailed(c, b) \/ TakeOver(c)
  PROVE  HardwareTypeOK'
<1>1. PctOf(b) \in Pct
  BY ConstantsAssumption DEF PctOf
<1>2. CASE Applied(c, p)
  BY <1>2 DEF HardwareTypeOK, Applied
<1>3. CASE ApplyFailed(c)
  BY <1>3 DEF HardwareTypeOK, ApplyFailed
<1>4. CASE ApplyRefused(c)
  BY <1>4 DEF HardwareTypeOK, ApplyRefused
<1>5. CASE RestoreDone(c, b)
  BY <1>5 DEF HardwareTypeOK, RestoreDone, Restored
<1>6. CASE RestoreFailed(c, b)
  BY <1>1, <1>6 DEF HardwareTypeOK, RestoreFailed
<1>7. CASE TakeOver(c)
  BY <1>7 DEF HardwareTypeOK, TakeOver
<1>8. QED
  BY <1>2, <1>3, <1>4, <1>5, <1>6, <1>7

\* A process that ends leaves well-typed remains.
LEMMA EndsType ==
  ASSUME NEW how \in {"none", "clean", "failed", "crashed"}, Ends(how),
         HardwareTypeOK', sidecar' \in Records, intact' \in BOOLEAN, stop' \in BOOLEAN
  PROVE  TypeOK'
<1>1. 1 \in Channel /\ 0 \in Pct /\ 0 \in 0 .. FailureLimit
  BY ConstantsAssumption, ControlAssumption DEF Channel, Pct
<1>2. QED
  BY <1>1 DEF Ends, FreshProcess, Unloaded, NoRecords, Never, TypeOK, StoreTypeOK, Phases

\* Every step of the startup keeps the types.
LEMMA StartupType ==
  ASSUME TypeOK, Startup
  PROVE  TypeOK'
<1> USE DEF Phases, Reconciling
<1>a. StoreTypeOK /\ cur \in Channel /\ NoRecords \in Records
  BY DEF TypeOK, NoRecords
<1>1. CASE Start
  <2>1. phase' \in {"reconcile", "boot"} /\ StoreTypeOK'
    <3>1. CASE Adopt(sidecar) /\ phase' = "reconcile" /\ UNCHANGED fileVars
      BY <3>1, <1>a DEF Adopt, fileVars, StoreTypeOK
    <3>2. CASE phase' = "boot" /\ UNCHANGED storeVars
      BY <3>2, <1>a DEF storeVars, StoreTypeOK
    <3>3. CASE Quarantine /\ phase' = "boot" /\ UNCHANGED cacheVars
      BY <3>3, <1>a DEF Quarantine, fileVars, cacheVars, StoreTypeOK
    <3>4. QED
      BY <1>1, <3>1, <3>2, <3>3 DEF Start
  <2>2. QED
    BY <1>1, <2>1 DEF Start, TypeOK, HardwareTypeOK, channelVars, runVars
<1>2. CASE StartRefused
  BY <1>2 DEF StartRefused, TypeOK, StoreTypeOK, HardwareTypeOK,
     channelVars, runVars, storeVars
<1>3. CASE ReconcileSkip
  BY <1>3, <1>a, NextChannelType DEF ReconcileSkip, TypeOK, StoreTypeOK, HardwareTypeOK,
     channelVars, runVars, storeVars
<1>4. CASE ReconcileRestore
  <2>1. StoreTypeOK'
    BY <1>4, <1>a, RemoveType DEF ReconcileRestore
  <2>2. HardwareTypeOK'
    BY <1>4, <1>a, HardwareType, ConstantsAssumption DEF ReconcileRestore, TypeOK, StoreTypeOK
  <2>3. QED
    BY <1>4, <1>a, <2>1, <2>2, NextChannelType DEF ReconcileRestore, TypeOK,
       channelVars, runVars
<1>5. CASE ReconcileRestoreFails
  <2>1. HardwareTypeOK'
    BY <1>5, <1>a, HardwareType, ConstantsAssumption
       DEF ReconcileRestoreFails, TypeOK, StoreTypeOK
  <2>2. QED
    BY <1>5, <1>a, <2>1, NextChannelType DEF ReconcileRestoreFails, TypeOK, StoreTypeOK,
       channelVars, storeVars
<1>6. CASE ReconcileFlush
  <2>1. sidecar' \in Records /\ intact' \in BOOLEAN /\ HardwareTypeOK' /\ stop' \in BOOLEAN
    BY <1>6, <1>a DEF ReconcileFlush, FlushPersists, FlushIdle, FlushThrows, fileVars,
       TypeOK, StoreTypeOK, HardwareTypeOK
  <2>2. CASE Ends("failed")
    BY <2>1, <2>2, EndsType
  <2>3. CASE Unloaded /\ Goto("boot") /\ UNCHANGED <<exit, channelVars, runVars>>
    BY <2>1, <2>3, <1>a DEF Unloaded, Goto, TypeOK, StoreTypeOK, channelVars, runVars
  <2>4. QED
    BY <1>6, <2>2, <2>3 DEF ReconcileFlush
<1>7. CASE Boot
  BY <1>7, <1>a DEF Boot, Goto, Adopt, Unloaded, TypeOK, StoreTypeOK, HardwareTypeOK,
     Ticking, channelVars, runVars, fileVars
<1>8. CASE BootFails
  BY <1>8, <1>a, EndsType DEF BootFails, TypeOK, StoreTypeOK, HardwareTypeOK, fileVars
<1>9. QED
  BY <1>1, <1>2, <1>3, <1>4, <1>5, <1>6, <1>7, <1>8 DEF Startup

\* Every step of a tick keeps the types.
LEMMA TickType ==
  ASSUME TypeOK, Tick
  PROVE  TypeOK'
<1> USE DEF Phases, Ticking
<1>a. /\ StoreTypeOK /\ HardwareTypeOK /\ cur \in Channel
      /\ baseline[cur] \in FanState \cup {Absent}
      /\ 0 \in Pct /\ FailureLimit \in Nat \ {0}
  BY ConstantsAssumption, ControlAssumption DEF TypeOK, Pct
<1>1. CASE BeginTick
  <2>1. seen' \in Records
    BY <1>1, <1>a DEF BeginTick, ScanResults, HardwareTypeOK
  <2>2. PICK reset \in {{}, Channel} \cup {{c} : c \in Channel} :
          /\ breaker' = [c \in Channel |-> breaker[c] /\ c \notin reset]
          /\ failures' = [c \in Channel |-> IF c \in reset THEN 0 ELSE failures[c]]
    BY <1>1 DEF BeginTick
  <2>3. breaker' \in [Channel -> BOOLEAN] /\ failures' \in [Channel -> 0 .. FailureLimit]
    BY <2>2, <1>a DEF TypeOK
  <2>4. QED
    BY <1>1, <1>a, <2>1, <2>3 DEF BeginTick, Goto, TypeOK, HardwareTypeOK, StoreTypeOK,
       storeVars
<1>2. CASE CaptureBaseline
  <2>1. baseline' \in Records /\ issued' \in [Channel -> Pct \cup {Absent}]
    <3>1. CASE baseline[cur] = Absent /\ seen[cur] # Absent
      <4>1. PctOf(seen[cur]) \in Pct
        BY ConstantsAssumption DEF PctOf
      <4>2. seen[cur] \in FanState
        BY <3>1, <1>a DEF TypeOK
      <4>3. QED
        BY <1>2, <3>1, <4>1, <4>2, <1>a, RecordUpdate DEF CaptureBaseline, TypeOK
    <3>2. CASE ~(baseline[cur] = Absent /\ seen[cur] # Absent)
      BY <1>2, <3>2 DEF CaptureBaseline, TypeOK
    <3>3. QED
      BY <3>1, <3>2
  <2>2. QED
    BY <1>2, <1>a, <2>1 DEF CaptureBaseline, Goto, TypeOK, HardwareTypeOK, StoreTypeOK,
       storeVars, runVars
<1>3. CASE HoldRestore
  <2>1. HardwareTypeOK' /\ StoreTypeOK'
    BY <1>3, <1>a, HardwareType, RemoveType, ConstantsAssumption DEF HoldRestore
  <2>2. QED
    BY <1>3, <1>a, <2>1 DEF HoldRestore, Goto, TypeOK, runVars
<1>4. CASE HoldRestoreFails
  <2>1. HardwareTypeOK'
    BY <1>4, <1>a, HardwareType DEF HoldRestoreFails
  <2>2. cur' \in Channel /\ phase' \in {"flush", "decide"} /\ fatal' \in BOOLEAN
    <3>1. 1 \in Channel
      BY ConstantsAssumption DEF Channel
    <3>2. QED
      BY <1>4, <1>a, <3>1 DEF HoldRestoreFails, Goto, TypeOK
  <2>3. QED
    BY <1>4, <1>a, <2>1, <2>2 DEF HoldRestoreFails, TypeOK, StoreTypeOK, storeVars,
       channelVars
<1>5. CASE SkipWrite
  BY <1>5, <1>a, NextChannelType DEF SkipWrite, TypeOK, HardwareTypeOK, StoreTypeOK,
     storeVars, channelVars
<1>6. CASE RecordWrite
  <2>1. StoreTypeOK'
    BY <1>6, <1>a, UpsertType DEF RecordWrite
  <2>2. target' \in Pct
    BY <1>6 DEF RecordWrite, Evaluations, WriteDue, Pct
  <2>3. unsaved' \in [Channel -> BOOLEAN]
    BY <1>6, <1>a DEF RecordWrite, TypeOK
  <2>4. QED
    BY <1>6, <1>a, <2>1, <2>2, <2>3 DEF RecordWrite, Goto, TypeOK, HardwareTypeOK
<1>7. CASE ApplyWrite
  <2>1. HardwareTypeOK'
    BY <1>7, <1>a, HardwareType DEF ApplyWrite, TypeOK
  <2>2. failures' \in [Channel -> 0 .. FailureLimit]
    BY <1>7, <1>a DEF ApplyWrite, TypeOK
  <2>3. QED
    BY <1>7, <1>a, <2>1, <2>2, NextChannelType DEF ApplyWrite, TypeOK, StoreTypeOK,
       storeVars
<1>8. CASE ApplyWriteFails
  <2>1. HardwareTypeOK'
    BY <1>8, <1>a, HardwareType DEF ApplyWriteFails
  <2>2. StoreTypeOK'
    BY <1>8, <1>a, RemoveType DEF ApplyWriteFails, StoreTypeOK, storeVars
  <2>3. failures' \in [Channel -> 0 .. FailureLimit] /\ breaker' \in [Channel -> BOOLEAN]
    BY <1>8, <1>a DEF ApplyWriteFails, CountFailure, TypeOK
  <2>4. QED
    BY <1>8, <1>a, <2>1, <2>2, <2>3, NextChannelType DEF ApplyWriteFails, TypeOK
<1>9. CASE FlushTick
  <2>1. StoreTypeOK' /\ unsaved' \in [Channel -> BOOLEAN]
    <3>1. CASE FlushPersists /\ Adopt(entries) /\ unsaved' = Never
      BY <3>1, <1>a DEF FlushPersists, Adopt, Never, StoreTypeOK
    <3>2. CASE (FlushIdle \/ FlushThrows) /\ UNCHANGED <<unsaved, cacheVars>>
      BY <3>2, <1>a DEF FlushIdle, FlushThrows, fileVars, cacheVars, StoreTypeOK, TypeOK
    <3>3. QED
      BY <1>9, <3>1, <3>2 DEF FlushTick
  <2>2. seen' \in Records /\ phase' \in {"shutdown", "idle"}
    BY <1>9 DEF FlushTick, NoRecords
  <2>3. QED
    BY <1>9, <1>a, <2>1, <2>2 DEF FlushTick, TypeOK, HardwareTypeOK, Stopping
<1>10. QED
  BY <1>1, <1>2, <1>3, <1>4, <1>5, <1>6, <1>7, <1>8, <1>9 DEF Tick

\* Every step of the shutdown keeps the types.
LEMMA ShutdownType ==
  ASSUME TypeOK, Shutdown
  PROVE  TypeOK'
<1> USE DEF Phases, Stopping
<1>a. /\ StoreTypeOK /\ HardwareTypeOK /\ cur \in Channel
      /\ baseline[cur] \in FanState \cup {Absent}
      /\ 0 \in Pct
  BY ConstantsAssumption DEF TypeOK, Pct
<1>b. ASSUME DropRecord(cur)
      PROVE  StoreTypeOK' /\ failed' \in BOOLEAN /\ queued' \in BOOLEAN
  <2>1. StoreTypeOK'
    BY <1>a, <1>b, RemoveType DEF DropRecord
  <2>2. QED
    BY <1>b, <2>1 DEF DropRecord, TypeOK
<1>1. CASE BeginShutdown
  BY <1>1, <1>a DEF BeginShutdown, Goto, TypeOK, HardwareTypeOK, StoreTypeOK, storeVars,
     channelVars, runVars
<1>2. CASE ShutdownInactive
  BY <1>2, <1>a, <1>b, NextChannelType DEF ShutdownInactive, TypeOK, HardwareTypeOK,
     channelVars
<1>3. CASE ShutdownRestore
  <2>1. HardwareTypeOK'
    BY <1>3, <1>a, HardwareType DEF ShutdownRestore
  <2>2. QED
    BY <1>3, <1>a, <1>b, <2>1, NextChannelType DEF ShutdownRestore, TypeOK, channelVars
<1>4. CASE ShutdownKeepsRecord
  <2>1. HardwareTypeOK'
    BY <1>4, <1>a, HardwareType DEF ShutdownKeepsRecord, HardwareTypeOK
  <2>2. QED
    BY <1>4, <1>a, <2>1, NextChannelType DEF ShutdownKeepsRecord, TypeOK, StoreTypeOK,
       storeVars, channelVars
<1>5. CASE ShutdownFlush
  <2>1. sidecar' \in Records /\ intact' \in BOOLEAN /\ HardwareTypeOK' /\ stop' \in BOOLEAN
    BY <1>5, <1>a DEF ShutdownFlush, FlushPersists, FlushIdle, FlushThrows, fileVars,
       TypeOK, StoreTypeOK, HardwareTypeOK
  <2>2. Ends("failed") \/ Ends("clean")
    BY <1>5 DEF ShutdownFlush
  <2>3. QED
    BY <2>1, <2>2, EndsType
<1>6. QED
  BY <1>1, <1>2, <1>3, <1>4, <1>5 DEF Shutdown

\* No event of the environment breaks the types.
LEMMA EnvironmentType ==
  ASSUME TypeOK, Environment
  PROVE  TypeOK'
<1>a. StoreTypeOK /\ HardwareTypeOK /\ NoRecords \in Records
  BY DEF TypeOK, NoRecords
<1>1. CASE Crash
  BY <1>1, <1>a, EndsType DEF Crash, TypeOK, StoreTypeOK, HardwareTypeOK, fileVars
<1>2. CASE RequestStop
  BY <1>2, <1>a DEF RequestStop, TypeOK, StoreTypeOK, HardwareTypeOK, storeVars,
     channelVars, runVars
<1>3. CASE FirmwareTakesOver
  <2>1. HardwareTypeOK'
    BY <1>3, <1>a, HardwareType, ConstantsAssumption DEF FirmwareTakesOver, TakeOver,
       HardwareTypeOK
  <2>2. QED
    BY <1>3, <1>a, <2>1 DEF FirmwareTakesOver, TypeOK, StoreTypeOK, storeVars,
       channelVars, runVars
<1>4. CASE SidecarDamaged
  BY <1>4, <1>a DEF SidecarDamaged, DamageSidecar, TypeOK, StoreTypeOK, HardwareTypeOK,
     cacheVars, channelVars, runVars
<1>5. QED
  BY <1>1, <1>2, <1>3, <1>4 DEF Environment

\* The initial state is well typed.
LEMMA InitType ==
  Init => TypeOK
<1>1. 1 \in Channel /\ 0 \in Pct /\ 0 \in 0 .. FailureLimit
  BY ConstantsAssumption, ControlAssumption DEF Channel, Pct
<1>2. QED
  BY <1>1 DEF Init, HardwareInit, StoreInit, TypeOK, HardwareTypeOK, StoreTypeOK,
     NoRecords, Never, Phases

\* Every step keeps the types.
LEMMA NextType ==
  TypeOK /\ [Next]_vars => TypeOK'
<1> SUFFICES ASSUME TypeOK, [Next]_vars PROVE TypeOK'
  OBVIOUS
<1>1. CASE UNCHANGED vars
  BY <1>1 DEF vars, storeVars, channelVars, runVars, TypeOK, HardwareTypeOK, StoreTypeOK
<1>2. CASE Next
  BY <1>2, StartupType, TickType, ShutdownType, EnvironmentType DEF Next, Worker
<1>3. QED
  BY <1>1, <1>2

\* Type correctness: whatever faults hit the worker, its state keeps its types.
THEOREM TypeCorrect == Spec => []TypeOK
<1>1. Init => TypeOK
  BY InitType
<1>2. TypeOK /\ [Next]_vars => TypeOK'
  BY NextType
<1>3. QED
  BY <1>1, <1>2, PTL DEF Spec

-----------------------------------------------------------------------------
(* The circuit breaker.                                                    *)

\* Only a tick's start, a duty write's outcome and the end of the process touch
\* the breaker or its failure count.
LEMMA BreakerFrame ==
  ASSUME [Next]_vars
  PROVE  \/ UNCHANGED <<failures, breaker>>
         \/ BeginTick \/ ApplyWrite \/ ApplyWriteFails
         \/ \E how \in {"clean", "failed", "crashed"} : Ends(how)
<1> USE DEF channelVars
<1>1. CASE UNCHANGED vars
  BY <1>1 DEF vars
<1>2. CASE Startup
  BY <1>2 DEF Startup, Start, StartRefused, ReconcileSkip, ReconcileRestore,
     ReconcileRestoreFails, ReconcileFlush, Boot, BootFails
<1>3. CASE Tick
  BY <1>3 DEF Tick, CaptureBaseline, HoldRestore, HoldRestoreFails, SkipWrite,
     RecordWrite, FlushTick
<1>4. CASE Shutdown
  BY <1>4 DEF Shutdown, BeginShutdown, ShutdownInactive, ShutdownRestore,
     ShutdownKeepsRecord, ShutdownFlush
<1>5. CASE Environment
  BY <1>5 DEF Environment, Crash, RequestStop, FirmwareTakesOver, SidecarDamaged
<1>6. QED
  BY <1>1, <1>2, <1>3, <1>4, <1>5 DEF Next, Worker

\* No step separates a channel's breaker from its failure count.
LEMMA BreakerStep ==
  ASSUME TypeOK, BreakerTracksFailures, [Next]_vars
  PROVE  BreakerTracksFailures'
<1>a. /\ failures \in [Channel -> 0 .. FailureLimit]
      /\ breaker \in [Channel -> BOOLEAN]
      /\ cur \in Channel
      /\ FailureLimit \in Nat \ {0}
  BY ControlAssumption DEF TypeOK
<1>1. CASE UNCHANGED <<failures, breaker>>
  BY <1>1 DEF BreakerTracksFailures
<1>2. CASE BeginTick
  <2>1. PICK reset \in {{}, Channel} \cup {{c} : c \in Channel} :
          /\ breaker' = [c \in Channel |-> breaker[c] /\ c \notin reset]
          /\ failures' = [c \in Channel |-> IF c \in reset THEN 0 ELSE failures[c]]
    BY <1>2 DEF BeginTick
  <2>2. QED
    BY <1>a, <2>1 DEF BreakerTracksFailures
<1>3. CASE ApplyWrite
  BY <1>3, <1>a DEF ApplyWrite, BreakerTracksFailures
<1>4. CASE ApplyWriteFails
  <2>1. CountFailure(cur)
    BY <1>4 DEF ApplyWriteFails
  <2>2. ASSUME NEW c \in Channel
        PROVE  breaker'[c] <=> failures'[c] = FailureLimit
    <3>1. CASE c = cur
      <4>1. failures[c] \in 0 .. FailureLimit /\ (breaker[c] <=> failures[c] = FailureLimit)
        BY <1>a DEF BreakerTracksFailures
      <4>2. /\ breaker'[c] = (breaker[c] \/ failures[c] + 1 >= FailureLimit)
            /\ failures'[c] = IF failures[c] < FailureLimit THEN failures[c] + 1 ELSE failures[c]
        BY <2>1, <3>1, <1>a DEF CountFailure
      <4>3. CASE failures[c] < FailureLimit
        <5>1. ~breaker[c]
          BY <4>1, <4>3, <1>a
        <5>2. breaker'[c] <=> failures[c] + 1 >= FailureLimit
          BY <4>2, <5>1
        <5>3. QED
          BY <4>1, <4>2, <4>3, <5>2, <1>a
      <4>4. CASE ~(failures[c] < FailureLimit)
        <5>1. breaker[c]
          BY <4>1, <4>4, <1>a
        <5>2. breaker'[c]
          BY <4>2, <5>1
        <5>3. QED
          BY <4>1, <4>2, <4>4, <5>2, <1>a
      <4>5. QED
        BY <4>3, <4>4
    <3>2. CASE c # cur
      BY <2>1, <3>2, <1>a DEF CountFailure, BreakerTracksFailures
    <3>3. QED
      BY <3>1, <3>2
  <2>3. QED
    BY <2>2 DEF BreakerTracksFailures
<1>5. ASSUME NEW how, Ends(how)
      PROVE  BreakerTracksFailures'
  BY <1>5, <1>a DEF Ends, FreshProcess, Never, BreakerTracksFailures
<1>6. QED
  BY <1>1, <1>2, <1>3, <1>4, <1>5, BreakerFrame

\* The breaker of a channel is open exactly at the failure limit, whatever faults,
\* operator resets and restarts occur.
THEOREM BreakerCorrect == Spec => []BreakerTracksFailures
<1>1. Init => BreakerTracksFailures
  BY ControlAssumption DEF Init, Never, BreakerTracksFailures
<1>2. TypeOK /\ BreakerTracksFailures /\ [Next]_vars => BreakerTracksFailures'
  BY BreakerStep
<1>3. QED
  BY <1>1, <1>2, TypeCorrect, PTL DEF Spec

-----------------------------------------------------------------------------
(* The cache and the file.                                                 *)

\* An Upsert of a baseline never leaves a clean cache short of a record on disk.
LEMMA UpsertCovers ==
  ASSUME StoreTypeOK, CleanCacheCoversDisk, NEW c \in Channel, NEW b \in FanState,
         UpsertPersisted(c, b) \/ UpsertDeferred(c, b) \/ UpsertThrows(c, b)
  PROVE  CleanCacheCoversDisk'
<1>1. Cached \in Records
  BY CachedType
<1>2. CASE UpsertPersisted(c, b)
  BY <1>2 DEF UpsertPersisted, Persist, Adopt, CleanCacheCoversDisk
<1>3. CASE UpsertDeferred(c, b)
  BY <1>3 DEF UpsertDeferred, CleanCacheCoversDisk
<1>4. CASE UpsertThrows(c, b)
  <2>0. b # Absent
    BY DEF Pct
  <2>1. CASE UNCHANGED storeVars
    BY <2>1 DEF storeVars, CleanCacheCoversDisk
  <2>2. CASE Loadable /\ PersistThrows([Cached EXCEPT ![c] = b])
    BY <1>1, <2>0, <2>2 DEF PersistThrows, WasDirty, Cached, fileVars, CleanCacheCoversDisk
  <2>3. QED
    BY <1>4, <2>1, <2>2 DEF UpsertThrows
<1>5. QED
  BY <1>2, <1>3, <1>4

\* Nor does a queued removal: it makes the cache dirty.
LEMMA RemoveCovers ==
  ASSUME StoreTypeOK, CleanCacheCoversDisk, NEW c \in Channel,
         QueueRemove(c) \/ QueueRemoveThrows
  PROVE  CleanCacheCoversDisk'
<1>1. Cached \in Records
  BY CachedType
<1>2. CASE QueueRemove(c)
  <2>1. ASSUME NEW d \in Channel, ~dirty', sidecar'[d] # Absent
        PROVE  entries'[d] # Absent
    <3>1. Cached[c] = Absent /\ ~WasDirty /\ entries' = [Cached EXCEPT ![c] = Absent]
      BY <1>2, <2>1 DEF QueueRemove
    <3>2. entries' = Cached
      BY <1>1, <3>1
    <3>3. QED
      BY <1>2, <2>1, <3>1, <3>2
         DEF QueueRemove, WasDirty, Cached, fileVars, CleanCacheCoversDisk
  <2>2. QED
    BY <2>1 DEF CleanCacheCoversDisk
<1>3. CASE QueueRemoveThrows
  BY <1>3 DEF QueueRemoveThrows, storeVars, CleanCacheCoversDisk
<1>4. QED
  BY <1>2, <1>3

\* No step leaves a clean cache short of a record on disk.
LEMMA CoversStep ==
  ASSUME TypeOK, CleanCacheCoversDisk, [Next]_vars
  PROVE  CleanCacheCoversDisk'
<1>a. StoreTypeOK /\ cur \in Channel /\ baseline[cur] \in FanState \cup {Absent}
  BY DEF TypeOK
<1>b. ASSUME UNCHANGED storeVars PROVE CleanCacheCoversDisk'
  BY <1>b DEF storeVars, CleanCacheCoversDisk
<1>c. ASSUME Unloaded PROVE CleanCacheCoversDisk'
  BY <1>c DEF Unloaded, CleanCacheCoversDisk
<1>d. ASSUME NEW how, Ends(how) PROVE CleanCacheCoversDisk'
  BY <1>c, <1>d DEF Ends
<1>e. ASSUME QueueRemove(cur) \/ QueueRemoveThrows PROVE CleanCacheCoversDisk'
  BY <1>a, <1>e, RemoveCovers
<1>1. CASE UNCHANGED vars
  BY <1>1, <1>b DEF vars
<1>2. CASE Startup
  <2>1. CASE Start
    <3>1. CASE Adopt(sidecar) /\ UNCHANGED fileVars
      BY <3>1 DEF Adopt, fileVars, CleanCacheCoversDisk
    <3>2. CASE UNCHANGED storeVars
      BY <3>2, <1>b
    <3>3. CASE Quarantine /\ UNCHANGED cacheVars
      BY <3>3 DEF Quarantine, fileVars, cacheVars, NoRecords, CleanCacheCoversDisk
    <3>4. QED
      BY <2>1, <3>1, <3>2, <3>3 DEF Start
  <2>2. CASE StartRefused \/ ReconcileSkip \/ ReconcileRestoreFails
    BY <2>2, <1>b DEF StartRefused, ReconcileSkip, ReconcileRestoreFails
  <2>3. CASE ReconcileRestore
    BY <2>3, <1>e DEF ReconcileRestore
  <2>4. CASE ReconcileFlush
    BY <2>4, <1>c, <1>d DEF ReconcileFlush
  <2>5. CASE Boot
    BY <2>5, <1>c DEF Boot, Adopt, fileVars, CleanCacheCoversDisk
  <2>6. CASE BootFails
    BY <2>6, <1>d DEF BootFails
  <2>7. QED
    BY <1>2, <2>1, <2>2, <2>3, <2>4, <2>5, <2>6 DEF Startup
<1>3. CASE Tick
  <2>1. CASE BeginTick \/ CaptureBaseline \/ HoldRestoreFails \/ SkipWrite \/ ApplyWrite
    BY <2>1, <1>b DEF BeginTick, CaptureBaseline, HoldRestoreFails, SkipWrite, ApplyWrite
  <2>2. CASE HoldRestore
    BY <2>2, <1>e DEF HoldRestore
  <2>3. CASE RecordWrite
    <3>1. baseline[cur] \in FanState
      BY <2>3, <1>a DEF RecordWrite, WriteDue
    <3>2. QED
      BY <2>3, <3>1, <1>a, UpsertCovers DEF RecordWrite
  <2>4. CASE ApplyWriteFails
    BY <2>4, <1>b, <1>e DEF ApplyWriteFails
  <2>5. CASE FlushTick
    <3>1. CASE FlushPersists /\ Adopt(entries)
      BY <3>1 DEF FlushPersists, Adopt, CleanCacheCoversDisk
    <3>2. CASE (FlushIdle \/ FlushThrows) /\ UNCHANGED cacheVars
      BY <3>2 DEF FlushIdle, FlushThrows, fileVars, cacheVars, CleanCacheCoversDisk
    <3>3. QED
      BY <2>5, <3>1, <3>2 DEF FlushTick
  <2>6. QED
    BY <1>3, <2>1, <2>2, <2>3, <2>4, <2>5 DEF Tick
<1>4. CASE Shutdown
  <2>1. CASE BeginShutdown \/ ShutdownKeepsRecord
    BY <2>1, <1>b DEF BeginShutdown, ShutdownKeepsRecord
  <2>2. CASE ShutdownInactive \/ ShutdownRestore
    BY <2>2, <1>e DEF ShutdownInactive, ShutdownRestore, DropRecord
  <2>3. CASE ShutdownFlush
    BY <2>3, <1>d DEF ShutdownFlush
  <2>4. QED
    BY <1>4, <2>1, <2>2, <2>3 DEF Shutdown
<1>5. CASE Environment
  <2>1. CASE Crash
    BY <2>1, <1>d DEF Crash
  <2>2. CASE RequestStop \/ FirmwareTakesOver
    BY <2>2, <1>b DEF RequestStop, FirmwareTakesOver
  <2>3. CASE SidecarDamaged
    BY <2>3 DEF SidecarDamaged, DamageSidecar, NoRecords, CleanCacheCoversDisk
  <2>4. QED
    BY <1>5, <2>1, <2>2, <2>3 DEF Environment
<1>6. QED
  BY <1>1, <1>2, <1>3, <1>4, <1>5 DEF Next, Worker

\* A removal that has not reached the disk is always still pending in the cache,
\* whatever faults, failed replacements and restarts occur.
THEOREM CacheCorrect == Spec => []CleanCacheCoversDisk
<1>1. Init => CleanCacheCoversDisk
  BY DEF Init, StoreInit, CleanCacheCoversDisk
<1>2. TypeOK /\ CleanCacheCoversDisk /\ [Next]_vars => CleanCacheCoversDisk'
  BY CoversStep
<1>3. QED
  BY <1>1, <1>2, TypeCorrect, PTL DEF Spec

-----------------------------------------------------------------------------
(* Missing records.                                                        *)

\* In a tick the cache is either loaded or cannot be loaded: an update works on the
\* cache as it is, or throws.
LEMMA TickingLoads ==
  ASSUME TypeOK, FlagInv, phase \in Ticking, "read" \notin Faults
  PROVE  /\ Loadable <=> loaded
         /\ LoadThrows <=> ~loaded
         /\ loaded => Cached = entries /\ WasDirty = dirty
BY DEF TypeOK, StoreTypeOK, FlagInv, UnloadedIsFlagged, Loadable, LoadThrows, ReadSucceeds,
   ReadThrows, Cached, WasDirty

\* Steps of a tick that change neither records nor channels.
LEMMA FlagStays ==
  ASSUME FlagInv, UNCHANGED <<storeVars, baseline, active, unsaved>>,
         phase \in Ticking, phase' \in Ticking \cup Stopping, phase' # "apply"
  PROVE  FlagInv'
BY DEF FlagInv, UnloadedIsFlagged, CacheNamesActive, DrivenIsCaptured, storeVars, Ticking,
   Stopping

\* Steps that lead to, or stay in, a place where no channel is active.
LEMMA FlagOutsideTicks ==
  ASSUME phase' \notin Ticking \cup Stopping, active' = Never, ~loaded' => ~dirty'
  PROVE  FlagInv'
BY DEF FlagInv, UnloadedIsFlagged, CacheNamesActive, DrivenIsCaptured, Ticking

\* A process that ends leaves no channel and no cache behind.
LEMMA EndsFlags ==
  ASSUME NEW how, Ends(how)
  PROVE  FlagInv'
BY FlagOutsideTicks DEF Ends, FreshProcess, Unloaded, Ticking, Stopping

\* A queued removal of a channel that is not active any more.
LEMMA RemovalFlags ==
  ASSUME TypeOK, FlagInv, phase \in Ticking, "read" \notin Faults,
         QueueRemove(cur) \/ QueueRemoveThrows,
         active' \in [Channel -> BOOLEAN], ~active'[cur],
         \A c \in Channel : active'[c] => active[c],
         UNCHANGED <<baseline, unsaved>>, phase' \in Ticking, phase' # "apply"
  PROVE  FlagInv'
<1>a. /\ sidecar \in Records /\ entries \in Records /\ cur \in Channel
      /\ UnloadedIsFlagged /\ CacheNamesActive /\ DrivenIsCaptured
  BY DEF TypeOK, StoreTypeOK, FlagInv
<1>b. DrivenIsCaptured'
  BY <1>a DEF DrivenIsCaptured
<1>1. CASE QueueRemove(cur)
  <2>1. loaded /\ loaded' /\ entries' = [entries EXCEPT ![cur] = Absent] /\ UNCHANGED sidecar
    BY <1>1, TickingLoads DEF QueueRemove, fileVars
  <2>2. QED
    BY <1>a, <1>b, <2>1 DEF FlagInv, UnloadedIsFlagged, CacheNamesActive
<1>2. CASE QueueRemoveThrows
  <2>1. ~loaded /\ UNCHANGED storeVars
    BY <1>2, TickingLoads DEF QueueRemoveThrows
  <2>2. QED
    BY <1>a, <1>b, <2>1 DEF FlagInv, UnloadedIsFlagged, CacheNamesActive, storeVars
<1>3. QED
  BY <1>1, <1>2

\* The record of the channel about to be driven is in the cache and on file, or
\* its channel is flagged.
LEMMA RecordWriteFlags ==
  ASSUME TypeOK, FlagInv, "read" \notin Faults, RecordWrite
  PROVE  FlagInv'
<1>a. /\ sidecar \in Records /\ entries \in Records /\ cur \in Channel
      /\ unsaved \in [Channel -> BOOLEAN]
      /\ UnloadedIsFlagged /\ CacheNamesActive /\ DrivenIsCaptured
  BY DEF TypeOK, StoreTypeOK, FlagInv
<1>b. /\ phase \in Ticking /\ phase' = "apply" /\ phase' \in Ticking
      /\ baseline[cur] # Absent /\ UNCHANGED <<cur, baseline, active>>
  BY DEF RecordWrite, WriteDue, Ticking, Goto
<1> DEFINE b == baseline[cur]
           e == [entries EXCEPT ![cur] = b]
<1>1. CASE UpsertPersisted(cur, b) /\ unsaved' = [unsaved EXCEPT ![cur] = FALSE]
  <2>1. loaded /\ loaded' /\ entries' = e /\ sidecar' = e
    BY <1>1, <1>b, TickingLoads DEF UpsertPersisted, Persist, Adopt
  <2>2. QED
    BY <1>a, <1>b, <2>1 DEF FlagInv, UnloadedIsFlagged, CacheNamesActive, DrivenIsCaptured
<1>2. CASE UpsertDeferred(cur, b) /\ UNCHANGED unsaved
  <2>1. loaded /\ loaded' /\ entries' = entries /\ entries[cur] = b /\ UNCHANGED sidecar
    BY <1>2, <1>b, TickingLoads DEF UpsertDeferred, fileVars
  <2>2. QED
    BY <1>a, <1>b, <1>2, <2>1
       DEF FlagInv, UnloadedIsFlagged, CacheNamesActive, DrivenIsCaptured
<1>3. CASE UpsertThrows(cur, b) /\ unsaved' = [unsaved EXCEPT ![cur] = TRUE]
  <2>1. CASE ~loaded /\ UNCHANGED storeVars
    BY <1>a, <1>b, <1>3, <2>1
       DEF FlagInv, UnloadedIsFlagged, CacheNamesActive, DrivenIsCaptured, storeVars
  <2>2. CASE loaded /\ entries' = e /\ loaded' /\ UNCHANGED sidecar
    BY <1>a, <1>b, <1>3, <2>2
       DEF FlagInv, UnloadedIsFlagged, CacheNamesActive, DrivenIsCaptured
  <2>3. QED
    BY <1>3, <1>b, <2>1, <2>2, TickingLoads DEF UpsertThrows, PersistThrows, fileVars
<1>4. QED
  BY <1>1, <1>2, <1>3 DEF RecordWrite

\* No step of a tick drives a channel whose record is neither on file nor flagged.
LEMMA TickFlags ==
  ASSUME TypeOK, FlagInv, "read" \notin Faults, Tick
  PROVE  FlagInv'
<1>a. /\ sidecar \in Records /\ entries \in Records /\ cur \in Channel
      /\ active \in [Channel -> BOOLEAN] /\ baseline \in Records
      /\ UnloadedIsFlagged /\ CacheNamesActive /\ DrivenIsCaptured
  BY DEF TypeOK, StoreTypeOK, FlagInv
<1> USE DEF Ticking, Stopping
<1>1. CASE BeginTick \/ HoldRestoreFails \/ SkipWrite
  BY <1>1, FlagStays
     DEF BeginTick, HoldRestoreFails, SkipWrite, Goto, NextChannel, channelVars
<1>2. CASE CaptureBaseline
  <2>1. \A c \in Channel : active[c] => baseline'[c] = baseline[c]
    BY <1>2, <1>a DEF CaptureBaseline, DrivenIsCaptured
  <2>2. QED
    BY <1>2, <1>a, <2>1
       DEF CaptureBaseline, Goto, FlagInv, UnloadedIsFlagged, CacheNamesActive,
           DrivenIsCaptured, storeVars
<1>3. CASE HoldRestore
  BY <1>3, <1>a, RemovalFlags DEF HoldRestore, Goto
<1>4. CASE RecordWrite
  BY <1>4, RecordWriteFlags
<1>5. CASE ApplyWrite
  <2>1. /\ active' = [active EXCEPT ![cur] = TRUE] /\ cur \in Writable
        /\ phase' \in {"hold", "flush"} /\ phase = "apply"
        /\ UNCHANGED <<storeVars, baseline, unsaved>>
    BY <1>5 DEF ApplyWrite, Applied, NextChannel
  <2>2. QED
    BY <1>a, <2>1
       DEF FlagInv, UnloadedIsFlagged, CacheNamesActive, DrivenIsCaptured, storeVars
<1>6. CASE ApplyWriteFails
  <2>1. phase = "apply" /\ phase' \in {"hold", "flush"} /\ UNCHANGED <<baseline, active, unsaved>>
    BY <1>6 DEF ApplyWriteFails, NextChannel
  <2>2. CASE UNCHANGED storeVars
    BY <2>1, <2>2, FlagStays
  <2>3. CASE ApplyRefused(cur) /\ (QueueRemove(cur) \/ QueueRemoveThrows)
    <3>1. ~active[cur]
      BY <1>a, <2>1, <2>3 DEF ApplyRefused, DrivenIsCaptured
    <3>2. QED
      BY <1>a, <2>1, <2>3, <3>1, RemovalFlags
  <2>4. QED
    BY <1>6, <2>2, <2>3 DEF ApplyWriteFails
<1>7. CASE FlushTick
  <2>1. phase = "flush" /\ phase' \in {"shutdown", "idle"} /\ UNCHANGED <<baseline, active>>
    BY <1>7 DEF FlushTick
  <2>2. CASE FlushPersists /\ Adopt(entries)
    BY <1>a, <2>1, <2>2
       DEF FlushPersists, Adopt, FlagInv, UnloadedIsFlagged, CacheNamesActive,
           DrivenIsCaptured
  <2>3. CASE UNCHANGED <<unsaved, storeVars>>
    BY <2>1, <2>3, FlagStays
  <2>4. QED
    BY <1>7, <2>2, <2>3
       DEF FlushTick, FlushIdle, FlushThrows, fileVars, cacheVars, storeVars
<1>8. QED
  BY <1>1, <1>2, <1>3, <1>4, <1>5, <1>6, <1>7 DEF Tick

\* No other step does.
LEMMA FlagStep ==
  ASSUME TypeOK, FlagInv, "read" \notin Faults, [Next]_vars
  PROVE  FlagInv'
<1>a. UnloadedIsFlagged /\ CacheNamesActive /\ DrivenIsCaptured
  BY DEF FlagInv
<1> USE DEF Ticking, Stopping, channelVars
<1>1. CASE UNCHANGED vars
  BY <1>1 DEF vars, storeVars, FlagInv, UnloadedIsFlagged, CacheNamesActive, DrivenIsCaptured
<1>2. CASE Startup
  <2>1. phase \notin Ticking \cup Stopping /\ active = Never
    BY <1>2, <1>a DEF Startup, Start, StartRefused, ReconcileSkip, ReconcileRestore,
       ReconcileRestoreFails, ReconcileFlush, Boot, BootFails, DrivenIsCaptured
  <2>2. CASE Start
    BY <2>1, <2>2, <1>a, FlagOutsideTicks
       DEF Start, Adopt, storeVars, cacheVars, UnloadedIsFlagged
  <2>3. CASE StartRefused \/ ReconcileSkip \/ ReconcileRestoreFails
    BY <2>1, <2>3, <1>a, FlagOutsideTicks
       DEF StartRefused, ReconcileSkip, ReconcileRestoreFails, NextChannel, storeVars,
           UnloadedIsFlagged
  <2>4. CASE ReconcileRestore
    BY <2>1, <2>4, FlagOutsideTicks DEF ReconcileRestore, NextChannel, QueueRemove
  <2>5. CASE ReconcileFlush
    BY <2>1, <2>5, EndsFlags, FlagOutsideTicks DEF ReconcileFlush, Unloaded, Goto
  <2>6. CASE Boot
    <3>1. /\ phase' = "idle" /\ active' = Never
          /\ \/ entries' = sidecar /\ loaded'
             \/ ~loaded' /\ ~dirty' /\ ~intact
          /\ UNCHANGED fileVars
      BY <2>1, <2>6 DEF Boot, Adopt, ReadThrows, Unloaded, Goto
    <3>2. QED
      BY <3>1 DEF FlagInv, UnloadedIsFlagged, CacheNamesActive, DrivenIsCaptured, Never,
         fileVars
  <2>7. CASE BootFails
    BY <2>7, EndsFlags DEF BootFails
  <2>8. QED
    BY <1>2, <2>2, <2>3, <2>4, <2>5, <2>6, <2>7 DEF Startup
<1>3. CASE Tick
  BY <1>3, TickFlags
<1>4. CASE Shutdown
  <2>1. CASE ShutdownFlush
    BY <2>1, EndsFlags DEF ShutdownFlush
  <2>2. CASE Shutdown /\ ~ShutdownFlush
    <3>1. phase' \in Stopping /\ (~loaded' => ~dirty')
      BY <2>2, <1>a DEF Shutdown, BeginShutdown, ShutdownInactive, ShutdownRestore,
         ShutdownKeepsRecord, DropRecord, QueueRemove, QueueRemoveThrows, Goto,
         NextChannel, storeVars, UnloadedIsFlagged
    <3>2. QED
      BY <3>1 DEF FlagInv, UnloadedIsFlagged, CacheNamesActive, DrivenIsCaptured
  <2>3. QED
    BY <1>4, <2>1, <2>2
<1>5. CASE Environment
  <2>1. CASE Crash
    BY <2>1, EndsFlags DEF Crash
  <2>2. CASE RequestStop \/ FirmwareTakesOver
    BY <2>2, <1>a DEF RequestStop, FirmwareTakesOver, storeVars, FlagInv,
       UnloadedIsFlagged, CacheNamesActive, DrivenIsCaptured
  <2>3. CASE SidecarDamaged
    BY <2>3, <1>a, FlagOutsideTicks
       DEF SidecarDamaged, DamageSidecar, cacheVars, DrivenIsCaptured, UnloadedIsFlagged
  <2>4. QED
    BY <1>5, <2>1, <2>2, <2>3 DEF Environment
<1>6. QED
  BY <1>1, <1>2, <1>3, <1>4, <1>5 DEF Next, Worker

\* A channel that is driven without its record on file is flagged, whatever else fails:
\* replacements of the file, damage to it while no worker runs, torn writes, crashes.
\* Only a file that is intact but cannot be opened for a moment is excluded: a flush
\* that follows clears the flags of channels the cache does not name.
THEOREM MissingRecordsAreFlagged ==
  ASSUME "read" \notin Faults
  PROVE  Spec => []MissingRecordIsFlagged
<1>1. Init => FlagInv
  BY DEF Init, StoreInit, FlagInv, UnloadedIsFlagged, CacheNamesActive, DrivenIsCaptured,
     Ticking
<1>2. TypeOK /\ FlagInv /\ [Next]_vars => FlagInv'
  BY FlagStep
<1>3. FlagInv => MissingRecordIsFlagged
  BY DEF FlagInv, UnloadedIsFlagged, CacheNamesActive, DrivenIsCaptured,
     MissingRecordIsFlagged
<1>4. QED
  BY <1>1, <1>2, <1>3, TypeCorrect, PTL DEF Spec

-----------------------------------------------------------------------------
(* The shutdown, under every fault.                                        *)

\* Every pass over the channels starts at the first one.
LEMMA PassStep ==
  ASSUME PassStartsAtFirst, [Next]_vars
  PROVE  PassStartsAtFirst'
<1> USE DEF PassStartsAtFirst, Goto, NextChannel, Ends
<1>1. CASE UNCHANGED vars
  BY <1>1 DEF vars
<1>2. CASE Startup
  BY <1>2 DEF Startup, Start, StartRefused, ReconcileSkip, ReconcileRestore,
     ReconcileRestoreFails, ReconcileFlush, Boot, BootFails
<1>3. CASE Tick
  BY <1>3 DEF Tick, BeginTick, CaptureBaseline, HoldRestore, HoldRestoreFails, SkipWrite,
     RecordWrite, ApplyWrite, ApplyWriteFails, FlushTick
<1>4. CASE Shutdown
  BY <1>4 DEF Shutdown, BeginShutdown, ShutdownInactive, ShutdownRestore,
     ShutdownKeepsRecord, ShutdownFlush
<1>5. CASE Environment
  BY <1>5 DEF Environment, Crash, RequestStop, FirmwareTakesOver, SidecarDamaged
<1>6. QED
  BY <1>1, <1>2, <1>3, <1>4, <1>5 DEF Next, Worker

\* The channels passed once the current one is done.
LEMMA PassedNext ==
  ASSUME cur \in Channel, NextChannel("shutdown", "shutdownFlush")
  PROVE  \/ /\ phase' = "shutdown" /\ cur' = cur + 1
            /\ 1 .. cur' - 1 = (1 .. cur - 1) \cup {cur}
         \/ /\ phase' = "shutdownFlush" /\ cur = NumChannels
            /\ Channel = (1 .. cur - 1) \cup {cur}
BY ConstantsAssumption DEF NextChannel, Channel

\* A channel whose record was dropped, and that is inactive or restored, joins those
\* that a shutdown without a failure has released.
LEMMA DropReleases ==
  ASSUME TypeOK, PassedAreReleased, phase = "shutdown", DropRecord(cur),
         UNCHANGED active, active[cur] => fan'[cur] \notin Pct,
         \A c \in Channel : Manual(c)' => Manual(c),
         NextChannel("shutdown", "shutdownFlush")
  PROVE  PassedAreReleased'
<1>a. entries \in Records /\ sidecar \in Records /\ cur \in Channel
  BY DEF TypeOK, StoreTypeOK
<1>1. CASE QueueRemoveThrows /\ failed'
  BY <1>1 DEF PassedAreReleased
<1>2. CASE QueueRemove(cur) /\ queued' /\ UNCHANGED failed
  <2>1. loaded' /\ entries' = [Cached EXCEPT ![cur] = Absent] /\ Cached \in Records
    BY <1>2, <1>a DEF QueueRemove, Cached
  <2>2. cur > 1 /\ ~failed => Cached = entries
    BY DEF PassedAreReleased, Cached
  <2>3. ASSUME ~failed, NEW c \in (1 .. cur - 1) \cup {cur}
        PROVE  (active'[c] => ~Manual(c)') /\ entries'[c] = Absent
    <3>1. c \in Channel
      BY <1>a, <2>3, ConstantsAssumption DEF Channel
    <3>2. CASE c = cur
      BY <2>1, <1>a, <3>2 DEF Manual
    <3>3. CASE c \in 1 .. cur - 1 /\ c # cur
      <4>1. cur > 1
        BY <1>a, <3>3 DEF Channel
      <4>2. (active[c] => ~Manual(c)) /\ entries[c] = Absent
        BY <2>3, <3>3 DEF PassedAreReleased
      <4>3. entries'[c] = entries[c]
        BY <2>1, <2>2, <2>3, <3>1, <3>3, <4>1
      <4>4. QED
        BY <3>1, <4>2, <4>3
    <3>4. QED
      BY <2>3, <3>2, <3>3
  <2>4. ASSUME phase' = "shutdown", 1 .. cur' - 1 = (1 .. cur - 1) \cup {cur}
        PROVE  PassedAreReleased'
    BY <1>2, <2>1, <2>3, <2>4 DEF PassedAreReleased
  <2>5. ASSUME phase' = "shutdownFlush", Channel = (1 .. cur - 1) \cup {cur}
        PROVE  PassedAreReleased'
    BY <1>2, <2>1, <2>3, <2>5 DEF PassedAreReleased
  <2>6. QED
    BY <1>a, <2>4, <2>5, PassedNext
<1>3. QED
  BY <1>1, <1>2 DEF DropRecord

\* No step of the shutdown loses sight of a fan or a record it has passed.
LEMMA ShutdownKeepsReleased ==
  ASSUME TypeOK, CleanCacheCoversDisk, ReleaseInv, Shutdown
  PROVE  PassedAreReleased' /\ CleanShutdownReleases'
<1>a. /\ entries \in Records /\ sidecar \in Records /\ cur \in Channel
      /\ fan \in [Channel -> FanState]
      /\ PassStartsAtFirst /\ PassedAreReleased
  BY DEF TypeOK, StoreTypeOK, HardwareTypeOK, ReleaseInv
<1>b. ASSUME phase' \in {"shutdown", "shutdownFlush"}, PassedAreReleased'
      PROVE  CleanShutdownReleases'
  BY <1>b DEF PassedAreReleased, CleanShutdownReleases
<1> USE DEF channelVars
<1>1. CASE BeginShutdown
  <2>1. phase' = "shutdown" /\ cur' = 1
    BY <1>1, <1>a DEF BeginShutdown, Goto, PassStartsAtFirst
  <2>2. QED
    BY <1>b, <2>1 DEF PassedAreReleased
<1>2. CASE ShutdownInactive
  <2>1. PassedAreReleased'
    BY <1>2, <1>a, DropReleases DEF ShutdownInactive, Manual
  <2>2. QED
    BY <1>2, <1>b, <2>1 DEF ShutdownInactive, NextChannel
<1>3. CASE ShutdownRestore
  <2>1. /\ fan' = [fan EXCEPT ![cur] = Restored(baseline[cur])]
        /\ Restored(baseline[cur]) \notin Pct
    BY <1>3 DEF ShutdownRestore, RestoreDone, Restored, Pct
  <2>2. fan'[cur] \notin Pct /\ \A c \in Channel : Manual(c)' => Manual(c)
    <3> DEFINE given == Restored(baseline[cur])
    <3>1. fan' = [fan EXCEPT ![cur] = given] /\ given \notin Pct
      BY <2>1
    <3> HIDE DEF given
    <3>2. \A c \in Channel : fan'[c] = IF c = cur THEN given ELSE fan[c]
      BY <3>1, <1>a
    <3>3. QED
      BY <3>1, <3>2, <1>a DEF Manual
  <2>3. PassedAreReleased'
    BY <1>3, <1>a, <2>2, DropReleases DEF ShutdownRestore
  <2>4. QED
    BY <1>3, <1>b, <2>3 DEF ShutdownRestore, NextChannel
<1>4. CASE ShutdownKeepsRecord
  BY <1>4 DEF ShutdownKeepsRecord, NextChannel, PassedAreReleased, CleanShutdownReleases
<1>5. CASE ShutdownFlush
  <2>1. CASE failed \/ Ends("failed")
    BY <1>5, <2>1 DEF ShutdownFlush, Ends, PassedAreReleased, CleanShutdownReleases
  <2>2. CASE ~failed /\ (FlushPersists \/ FlushIdle) /\ Ends("clean")
    <3>1. loaded /\ \A c \in Channel : entries[c] = Absent
      BY <1>5, <1>a, <2>2 DEF ShutdownFlush, PassedAreReleased
    <3>2. \A c \in Channel : sidecar'[c] = Absent
      BY <2>2, <3>1 DEF FlushPersists, FlushIdle, fileVars, CleanCacheCoversDisk
    <3>3. sidecar' \in Records
      BY <1>a, <2>2 DEF FlushPersists, FlushIdle, fileVars
    <3>4. sidecar' = NoRecords
      BY <3>2, <3>3 DEF NoRecords
    <3>5. QED
      BY <2>2, <3>4 DEF Ends, PassedAreReleased, CleanShutdownReleases
  <2>3. ~failed => queued
    BY <1>5, <1>a DEF ShutdownFlush, PassedAreReleased
  <2>4. QED
    BY <1>5, <2>1, <2>2, <2>3 DEF ShutdownFlush
<1>6. QED
  BY <1>1, <1>2, <1>3, <1>4, <1>5 DEF Shutdown

\* Nor does any other step.
LEMMA ReleaseStep ==
  ASSUME TypeOK, CleanCacheCoversDisk, ReleaseInv, [Next]_vars
  PROVE  ReleaseInv'
<1>a. fan \in [Channel -> FanState] /\ PassStartsAtFirst /\ PassStartsAtFirst'
  BY PassStep DEF TypeOK, HardwareTypeOK, ReleaseInv
<1>b. ASSUME phase' \notin {"down", "shutdown", "shutdownFlush"}
      PROVE  PassedAreReleased' /\ CleanShutdownReleases'
  BY <1>b DEF PassedAreReleased, CleanShutdownReleases
<1>c. ASSUME Ends("failed") \/ Ends("crashed")
      PROVE  PassedAreReleased' /\ CleanShutdownReleases'
  BY <1>c DEF Ends, PassedAreReleased, CleanShutdownReleases
<1> USE DEF channelVars, runVars, storeVars, fileVars, Goto, NextChannel
<1>1. CASE UNCHANGED vars
  BY <1>1 DEF vars, ReleaseInv, PassStartsAtFirst, PassedAreReleased,
     CleanShutdownReleases, Manual
<1>2. CASE Startup
  <2>1. CASE Start \/ ReconcileSkip \/ ReconcileRestore \/ ReconcileRestoreFails \/ Boot
    BY <2>1, <1>a, <1>b DEF Start, ReconcileSkip, ReconcileRestore,
       ReconcileRestoreFails, Boot, ReleaseInv
  <2>2. CASE StartRefused
    BY <2>2, <1>a DEF StartRefused, ReleaseInv, PassedAreReleased, CleanShutdownReleases
  <2>3. CASE ReconcileFlush \/ BootFails
    BY <2>3, <1>a, <1>b, <1>c DEF ReconcileFlush, BootFails, ReleaseInv
  <2>4. QED
    BY <1>2, <2>1, <2>2, <2>3 DEF Startup
<1>3. CASE Tick
  <2>1. CASE FlushTick
    <3>1. cur' = 1 /\ phase' \in {"shutdown", "idle"}
      BY <2>1, <1>a DEF FlushTick, PassStartsAtFirst
    <3>2. QED
      BY <1>a, <3>1 DEF ReleaseInv, PassedAreReleased, CleanShutdownReleases
  <2>2. CASE Tick /\ ~FlushTick
    BY <2>2, <1>a, <1>b DEF Tick, BeginTick, CaptureBaseline, HoldRestore,
       HoldRestoreFails, SkipWrite, RecordWrite, ApplyWrite, ApplyWriteFails, ReleaseInv
  <2>3. QED
    BY <1>3, <2>1, <2>2
<1>4. CASE Shutdown
  BY <1>4, <1>a, ShutdownKeepsReleased DEF ReleaseInv
<1>5. CASE Environment
  <2>1. CASE Crash
    BY <2>1, <1>a, <1>c DEF Crash, ReleaseInv
  <2>2. CASE RequestStop
    BY <2>2, <1>a DEF RequestStop, ReleaseInv, PassedAreReleased, CleanShutdownReleases,
       Manual
  <2>3. CASE FirmwareTakesOver
    <3>1. \A c \in Channel : Manual(c)' => Manual(c)
      BY <2>3, <1>a DEF FirmwareTakesOver, TakeOver, Manual, Pct
    <3>2. UNCHANGED <<storeVars, phase, cur, exit, active, failed, queued>>
      BY <2>3 DEF FirmwareTakesOver
    <3>3. \A c \in 1 .. cur - 1 : c \in Channel
      BY ConstantsAssumption DEF TypeOK, Channel
    <3>4. QED
      BY <1>a, <3>1, <3>2, <3>3 DEF ReleaseInv, PassedAreReleased, CleanShutdownReleases
  <2>4. CASE SidecarDamaged
    BY <2>4, <1>a DEF SidecarDamaged, DamageSidecar, ReleaseInv, PassedAreReleased,
       CleanShutdownReleases
  <2>5. QED
    BY <1>5, <2>1, <2>2, <2>3, <2>4 DEF Environment
<1>6. QED
  BY <1>1, <1>2, <1>3, <1>4, <1>5 DEF Next, Worker

\* Whatever fails, a shutdown about to report success has released every fan it was
\* driving, and a success leaves no record on file.
THEOREM CleanShutdownsRelease == Spec => []CleanShutdownReleases
<1>1. Init => ReleaseInv
  BY DEF Init, ReleaseInv, PassStartsAtFirst, PassedAreReleased, CleanShutdownReleases
<1>2. TypeOK /\ CleanCacheCoversDisk /\ ReleaseInv /\ [Next]_vars => ReleaseInv'
  BY ReleaseStep
<1>3. ReleaseInv => CleanShutdownReleases
  BY DEF ReleaseInv
<1>4. QED
  BY <1>1, <1>2, <1>3, TypeCorrect, CacheCorrect, PTL DEF Spec

-----------------------------------------------------------------------------
(* The worker as its supervisor sees it.                                   *)

\* The channel whose restore timed out stays active, and the shutdown after it fails
\* when it comes to that one.
LEMMA AbortStep ==
  ASSUME TypeOK, AbortInv, [Next]_vars
  PROVE  AbortInv'
<1>a. cur \in Channel /\ NumChannels \in Nat /\ PassStartsAtFirst /\ PassStartsAtFirst'
  BY PassStep, ConstantsAssumption DEF TypeOK, AbortInv
<1>b. ASSUME fatal' = FALSE
      PROVE  AbortInv'
  BY <1>a, <1>b DEF AbortInv
<1>c. ASSUME ~fatal, UNCHANGED fatal
      PROVE  AbortInv'
  BY <1>b, <1>c DEF TypeOK
<1>d. phase \notin {"flush", "shutdown", "shutdownFlush"} => ~fatal
  BY DEF AbortInv, Stopping
<1> USE DEF channelVars, runVars, Goto, NextChannel, Stopping
<1>1. CASE UNCHANGED vars
  BY <1>1 DEF vars, AbortInv, PassStartsAtFirst
<1>2. CASE Startup
  BY <1>2, <1>b, <1>c, <1>d
     DEF Startup, Start, StartRefused, ReconcileSkip, ReconcileRestore,
         ReconcileRestoreFails, ReconcileFlush, Boot, BootFails, Ends, FreshProcess
<1>3. CASE Tick
  <2>1. CASE FlushTick
    <3>1. cur = 1 /\ cur' = 1 /\ UNCHANGED <<fatal, failed, active>>
      BY <1>a, <2>1 DEF FlushTick, PassStartsAtFirst
    <3>2. fatal => phase' = "shutdown" /\ \E c \in Channel : active[c]
      BY <2>1 DEF FlushTick, AbortInv
    <3> QED BY <1>a, <1>c, <3>1, <3>2 DEF AbortInv, Channel
  <2>2. CASE HoldRestoreFails
    <3>1. ~fatal /\ active' = active /\ active[cur]
      BY <1>d, <2>2 DEF HoldRestoreFails, HoldMayExpire
    <3>2. CASE fatal' = TRUE /\ phase' = "flush"
      BY <1>a, <3>1, <3>2 DEF AbortInv
    <3> QED BY <1>c, <2>2, <3>1, <3>2 DEF HoldRestoreFails
  <2>3. CASE Tick /\ ~FlushTick /\ ~HoldRestoreFails
    BY <2>3, <1>c, <1>d
       DEF Tick, BeginTick, CaptureBaseline, HoldRestore, SkipWrite, RecordWrite,
           ApplyWrite, ApplyWriteFails
  <2> QED BY <1>3, <2>1, <2>2, <2>3
<1>4. CASE Shutdown
  <2>1. CASE BeginShutdown \/ ShutdownRestore
    BY <2>1, <1>c, <1>d DEF BeginShutdown, ShutdownRestore
  <2>2. CASE ShutdownInactive
    <3>1. /\ UNCHANGED <<fatal, active>> /\ ~active[cur] /\ phase = "shutdown"
          /\ \/ cur = NumChannels /\ phase' = "shutdownFlush" /\ cur' = 1
             \/ cur # NumChannels /\ phase' = "shutdown" /\ cur' = cur + 1
          /\ failed' = failed \/ failed'
      BY <2>2 DEF ShutdownInactive, DropRecord
    <3>2. fatal /\ ~failed => \E c \in cur .. NumChannels : active[c] /\ c # cur
      BY <3>1 DEF AbortInv
    <3>3. fatal /\ ~failed => cur # NumChannels /\ \E c \in cur + 1 .. NumChannels : active[c]
      BY <1>a, <3>2 DEF Channel
    <3> QED BY <1>a, <1>c, <3>1, <3>3 DEF AbortInv
  <2>3. CASE ShutdownKeepsRecord
    BY <1>a, <2>3 DEF ShutdownKeepsRecord, AbortInv
  <2>4. CASE ShutdownFlush
    BY <1>b, <2>4 DEF ShutdownFlush, Ends, FreshProcess
  <2> QED BY <1>4, <2>1, <2>2, <2>3, <2>4 DEF Shutdown
<1>5. CASE Environment
  <2>1. CASE Crash
    BY <1>b, <2>1 DEF Crash, Ends, FreshProcess
  <2>2. CASE RequestStop \/ FirmwareTakesOver \/ SidecarDamaged
    BY <2>2
       DEF RequestStop, FirmwareTakesOver, SidecarDamaged, AbortInv, PassStartsAtFirst
  <2> QED BY <1>5, <2>1, <2>2 DEF Environment
<1> QED
  BY <1>1, <1>2, <1>3, <1>4, <1>5 DEF Next, Worker

\* The moves of the worker, in the terms of its program counter.
LEMMA LifeMoves ==
  ASSUME TypeOK, AbortInv, [Next]_vars
  PROVE  \/ Life' = Life
         \/ Life \in {"gone", "exit0", "exit1"} /\ Life' \in {"starting", "exit1"}
         \/ Life = "starting" /\ Life' \in {"running", "exit1"}
         \/ Life = "running" /\ Life' = "aborting"
         \/ Life = "running" /\ Life' = "stopping" /\ stop
         \/ Life = "stopping" /\ Life' = "exit0"
         \/ Life \notin {"gone", "exit0", "exit1"} /\ Life' = "exit1"
<1> USE DEF Life, channelVars, runVars, Goto, NextChannel, Reconciling, Ticking, Stopping
<1>a. /\ phase \in Phases /\ exit \in {"none", "clean", "failed", "crashed"}
      /\ fatal => phase \in {"flush", "shutdown", "shutdownFlush"}
      /\ phase = "shutdownFlush" /\ fatal => failed
  BY DEF TypeOK, AbortInv
<1>b. ASSUME phase # "down", Ends("failed") \/ Ends("crashed")
      PROVE  Life \notin {"gone", "exit0", "exit1"} /\ Life' = "exit1"
  BY <1>b DEF Ends
<1>1. CASE UNCHANGED vars
  BY <1>1 DEF vars
<1>2. CASE Startup
  <2>1. CASE Start \/ StartRefused
    BY <1>a, <2>1 DEF Start, StartRefused
  <2>2. CASE ReconcileFlush \/ BootFails
    BY <1>a, <1>b, <2>2 DEF ReconcileFlush, BootFails
  <2>3. CASE ReconcileSkip \/ ReconcileRestore \/ ReconcileRestoreFails \/ Boot
    <3>1. CASE Boot
      BY <1>a, <2>3, <3>1 DEF Boot
    <3>2. CASE ReconcileSkip \/ ReconcileRestore \/ ReconcileRestoreFails
      <4>1. phase \in Reconciling /\ phase' \in Reconciling
        BY <3>2 DEF ReconcileSkip, ReconcileRestore, ReconcileRestoreFails
      <4> QED BY <4>1
    <3> QED BY <2>3, <3>1, <3>2
  <2> QED BY <1>2, <2>1, <2>2, <2>3 DEF Startup
<1>3. CASE Tick
  <2>1. CASE FlushTick \/ HoldRestoreFails
    BY <1>a, <2>1 DEF FlushTick, HoldRestoreFails
  <2>2. CASE Tick /\ ~FlushTick /\ ~HoldRestoreFails
    <3>1. phase \in Ticking /\ phase' \in Ticking /\ UNCHANGED fatal
      BY <2>2
         DEF Tick, BeginTick, CaptureBaseline, HoldRestore, SkipWrite, RecordWrite,
             ApplyWrite, ApplyWriteFails
    <3> QED BY <3>1
  <2> QED BY <1>3, <2>1, <2>2
<1>4. CASE Shutdown
  <2>1. CASE ShutdownFlush
    <3>1. CASE Ends("failed")
      BY <1>b, <2>1, <3>1 DEF ShutdownFlush
    <3>2. CASE Ends("clean") /\ ~failed
      BY <1>a, <2>1, <3>2 DEF ShutdownFlush, Ends
    <3> QED BY <2>1, <3>1, <3>2 DEF ShutdownFlush
  <2>2. CASE Shutdown /\ ~ShutdownFlush
    BY <1>a, <2>2
       DEF Shutdown, BeginShutdown, ShutdownInactive, ShutdownRestore, ShutdownKeepsRecord
  <2> QED BY <1>4, <2>1, <2>2
<1>5. CASE Environment
  BY <1>5, <1>b DEF Environment, Crash, RequestStop, FirmwareTakesOver, SidecarDamaged
<1> QED
  BY <1>1, <1>2, <1>3, <1>4, <1>5 DEF Next, Worker

LEMMA LifecycleStep ==
  ASSUME TypeOK, TypeOK', AbortInv, [Next]_vars
  PROVE  Lifecycle!Next
<1> DEFINE life == [w \in {"worker"} |-> Life]
<1>1. life["worker"] = Life /\ life'["worker"] = Life'
  OBVIOUS
<1>2. stop \in BOOLEAN /\ stop' \in BOOLEAN
  BY DEF TypeOK
<1>3. /\ Life \in Lifecycle!Over \cup Lifecycle!Live
      /\ Life' \in Lifecycle!Over \cup Lifecycle!Live
  BY DEF Life, Lifecycle!Over, Lifecycle!Live
<1>4. life' \in [{"worker"} -> Lifecycle!Over \cup Lifecycle!Live]
  BY <1>3
<1>5. life'["worker"] = life["worker"] \/ Lifecycle!Step("worker")
  <2> HIDE DEF life
  <2> QED
    BY <1>1, <1>3, LifeMoves
       DEF Lifecycle!Step, Lifecycle!Begins, Lifecycle!Loops, Lifecycle!Stops,
           Lifecycle!Aborts, Lifecycle!Succeeds, Lifecycle!Fails, Lifecycle!Becomes,
           Lifecycle!Over, Lifecycle!Live, life
<1> QED
  BY <1>2, <1>4, <1>5 DEF Lifecycle!Next

\* Under every fault, and for any number of channels, the worker implements the
\* lifecycle its supervisor counts on: it ends with success only after a request, and
\* never after a restore timeout has ended its loop.
THEOREM LifecycleRefined == Spec => LifecycleSpec
<1>1. Init => Lifecycle!Init /\ AbortInv
  BY DEF Init, Life, Lifecycle!Init, AbortInv, PassStartsAtFirst
<1>2. TypeOK /\ TypeOK' /\ AbortInv /\ [Next]_vars => [Lifecycle!Next]_(Lifecycle!vars)
  BY LifecycleStep
<1>3. TypeOK /\ AbortInv /\ [Next]_vars => AbortInv'
  BY AbortStep
<1> QED
  BY <1>1, <1>2, <1>3, TypeCorrect, PTL DEF Spec, LifecycleSpec, Lifecycle!Spec
=============================================================================
