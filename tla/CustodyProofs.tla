----------------------------- MODULE CustodyProofs -----------------------------
(***************************************************************************)
(* Theorems of FanControl under a trustworthy sidecar: CustodyInv is an    *)
(* inductive invariant, the safety properties follow from it, and the      *)
(* worker implements the abstract custody protocol.                        *)
(***************************************************************************)
EXTENDS FanControlInvariant, FanControlProofs

USE DEF Records, FanState, Firmware, Fallback, Absent

-----------------------------------------------------------------------------
(* The inductive invariant.                                                *)

\* No fan is taken and none is left in the substitute mode.
Releases ==
  \A c \in Channel : fan'[c] # Fallback /\ (fan'[c] \in Pct => fan[c] \in Pct)

\* Restoring the board's own mode, well or badly, takes no fan.
LEMMA RestoreReleases ==
  ASSUME HardwareTypeOK, DiskCoversHeld, NEW c \in Channel,
         RestoreDone(c, Firmware) \/ RestoreFailed(c, Firmware)
  PROVE  Releases /\ (RestoreDone(c, Firmware) => fan'[c] \notin Pct)
<1>1. PctOf(Firmware) \in Pct /\ Fallback \notin Pct /\ Firmware \notin Pct
  BY ConstantsAssumption DEF PctOf, Pct
<1>2. CASE RestoreDone(c, Firmware)
  BY <1>1, <1>2 DEF RestoreDone, Restored, HardwareTypeOK, DiskCoversHeld, Releases, Manual
<1>3. CASE RestoreFailed(c, Firmware) /\ ~RestoreDone(c, Firmware)
  BY <1>1, <1>3 DEF RestoreFailed, HardwareTypeOK, DiskCoversHeld, Releases, Manual
<1>4. QED
  BY <1>2, <1>3

\* While no fan is taken, an untouched file keeps covering the held fans.
LEMMA DiskKept ==
  ASSUME DiskCoversHeld, Releases, UNCHANGED fileVars
  PROVE  DiskCoversHeld'
  BY DEF DiskCoversHeld, Releases, fileVars, Manual

\* And so does an untouched cache of a process that stays loaded or unloaded.
LEMMA CacheKept ==
  ASSUME CacheBetweenHeldAndDisk, Releases, UNCHANGED storeVars,
         phase \in {"down", "boot"} <=> phase' \in {"down", "boot"}
  PROVE  CacheBetweenHeldAndDisk'
  BY DEF CacheBetweenHeldAndDisk, Releases, storeVars, Manual

\* With a trustworthy sidecar a removal only drops the record from the cache.
LEMMA TrustedRemove ==
  ASSUME Trustworthy, DiskCoversHeld, StoreTypeOK, NEW c \in Channel,
         QueueRemove(c) \/ QueueRemoveThrows
  PROVE  QueueRemove(c) /\ ~QueueRemoveThrows
  BY DEF Trustworthy, DiskCoversHeld, QueueRemoveThrows, LoadThrows, ReadThrows

\* Removing the record of a fan that is released keeps the cache in its place.
LEMMA RemoveKept ==
  ASSUME CacheBetweenHeldAndDisk, StoreTypeOK, Releases, NEW c \in Channel,
         loaded, QueueRemove(c), fan'[c] \notin Pct, phase' \notin {"down", "boot"}
  PROVE  /\ CacheBetweenHeldAndDisk'
         /\ entries' = [entries EXCEPT ![c] = Absent]
         /\ UNCHANGED fileVars
<1>1. /\ entries' = [entries EXCEPT ![c] = Absent]
      /\ loaded'
      /\ dirty' = (dirty \/ entries[c] # Absent)
      /\ UNCHANGED fileVars
  BY DEF QueueRemove, Cached, WasDirty
<1>2. entries \in Records
  BY DEF StoreTypeOK
<1>3. ASSUME NEW d \in Channel
      PROVE  /\ Native(entries'[d])
             /\ entries'[d] = Firmware => sidecar'[d] = Firmware
             /\ Manual(d)' => entries'[d] = Firmware
             /\ ~dirty' => entries'[d] = sidecar'[d]
  <2>1. CASE d = c
    BY <1>1, <1>2, <2>1 DEF CacheBetweenHeldAndDisk, Native, Manual, fileVars
  <2>2. CASE d # c
    BY <1>1, <1>2, <2>2 DEF CacheBetweenHeldAndDisk, Releases, Manual, fileVars
  <2>3. QED
    BY <2>1, <2>2
<1>4. QED
  BY <1>1, <1>3 DEF CacheBetweenHeldAndDisk

\* Replacing the file by the cache keeps it covering the held fans.
LEMMA PersistKept ==
  ASSUME DiskCoversHeld, CacheBetweenHeldAndDisk, loaded, UNCHANGED fan,
         sidecar' = entries, intact' = TRUE
  PROVE  DiskCoversHeld'
  BY DEF DiskCoversHeld, CacheBetweenHeldAndDisk, Manual, Native

\* The end of a process, well or badly, after the file was kept or replaced.
LEMMA EndsKept ==
  ASSUME DiskCoversHeld', NEW how, Ends(how),
         how = "clean" => sidecar' = NoRecords /\ \A c \in Channel : ~Manual(c)'
  PROVE  /\ CacheBetweenHeldAndDisk' /\ ReconciledRecords' /\ HeldIsActive'
         /\ ShutdownReleases' /\ FreshPass'
  BY DEF Ends, FreshProcess, Unloaded, CacheBetweenHeldAndDisk, ReconciledRecords,
     HeldIsActive, ShutdownReleases, FreshPass, Running, Ticking, Stopping, Reconciling

\* The startup keeps the invariant: the loop is reached with no record left.
LEMMA StartupKeeps ==
  ASSUME Trustworthy, CustodyInv, Startup
  PROVE  CustodyInv'
<1> USE DEF Running, Ticking, Stopping, Reconciling
<1>a. /\ TypeOK /\ StoreTypeOK /\ HardwareTypeOK /\ cur \in Channel
      /\ DiskCoversHeld /\ CacheBetweenHeldAndDisk /\ FreshPass /\ ReconciledRecords
      /\ NumChannels \in Nat \ {0}
  BY ConstantsAssumption DEF CustodyInv, TypeOK
<1>b. TypeOK'
  BY <1>a, StartupType
<1>c. ReadSucceeds /\ ~ReadThrows
  BY <1>a DEF Trustworthy, DiskCoversHeld, ReadSucceeds, ReadThrows
<1>d. UNCHANGED fan => Releases
  BY <1>a DEF DiskCoversHeld, Releases
<1>1. CASE Start
  <2>1. DiskCoversHeld' /\ UNCHANGED <<fan, sidecar, cur, exit, channelVars, runVars>>
    BY <1>1, <1>a, <1>c, <1>d, DiskKept DEF Start, Quarantine, storeVars, fileVars
  <2>2. CASE Adopt(sidecar) /\ phase' = "reconcile"
    <3>1. CacheBetweenHeldAndDisk'
      BY <2>1, <2>2, <1>a DEF Adopt, CacheBetweenHeldAndDisk, DiskCoversHeld, Manual
    <3>2. ReconciledRecords'
      BY <1>1, <2>1, <2>2, <1>a DEF Start, ReconciledRecords, FreshPass
    <3>3. HeldIsActive' /\ ShutdownReleases' /\ FreshPass'
      BY <1>1, <2>1, <2>2, <1>a DEF Start, HeldIsActive, ShutdownReleases, FreshPass,
         channelVars, runVars
    <3>4. QED
      BY <1>b, <2>1, <3>1, <3>2, <3>3 DEF CustodyInv
  <2>3. CASE sidecar = NoRecords /\ phase' = "boot" /\ UNCHANGED storeVars
    <3>1. CacheBetweenHeldAndDisk'
      BY <1>1, <2>1, <2>3, <1>a, <1>d, CacheKept DEF Start
    <3>2. ReconciledRecords' /\ HeldIsActive' /\ ShutdownReleases' /\ FreshPass'
      BY <1>1, <2>1, <2>3, <1>a DEF Start, ReconciledRecords, HeldIsActive,
         ShutdownReleases, FreshPass, channelVars, runVars
    <3>3. QED
      BY <1>b, <2>1, <3>1, <3>2 DEF CustodyInv
  <2>4. QED
    BY <1>1, <1>c, <2>2, <2>3 DEF Start, Quarantine
<1>2. CASE StartRefused
  BY <1>2, <1>a, <1>b, <1>d, DiskKept, CacheKept
     DEF StartRefused, CustodyInv, ReconciledRecords, HeldIsActive, ShutdownReleases,
         FreshPass, storeVars, fileVars, channelVars, runVars
<1>3. CASE ReconcileSkip
  <2>1. phase = "reconcile" /\ phase' \in {"reconcile", "reconcileFlush"}
    BY <1>3, <1>a, NextChannelType DEF ReconcileSkip
  <2>2. DiskCoversHeld' /\ CacheBetweenHeldAndDisk'
    BY <1>3, <1>a, <1>d, <2>1, DiskKept, CacheKept DEF ReconcileSkip, storeVars, fileVars
  <2>3. ReconciledRecords'
    <3>1. /\ ~failed' => \A c \in 1 .. cur : entries'[c] = Absent
          /\ entries' \in Records
      BY <1>3, <2>1, <1>a DEF ReconcileSkip, ReconciledRecords, runVars, storeVars,
         StoreTypeOK, Channel
    <3>2. QED
      BY <1>3, <1>a, <2>1, <3>1
         DEF ReconcileSkip, NextChannel, ReconciledRecords, NoRecords, Channel
  <2>4. HeldIsActive' /\ ShutdownReleases' /\ FreshPass'
    BY <1>3, <1>a, <2>1 DEF ReconcileSkip, NextChannel, HeldIsActive, ShutdownReleases,
       FreshPass, channelVars, runVars
  <2>5. QED
    BY <1>b, <2>2, <2>3, <2>4 DEF CustodyInv
<1>4. CASE ReconcileRestore
  <2>1. /\ phase = "reconcile" /\ phase' \in {"reconcile", "reconcileFlush"}
        /\ loaded /\ entries[cur] = Firmware
    BY <1>4, <1>a, NextChannelType
       DEF ReconcileRestore, CacheBetweenHeldAndDisk, Native
  <2>2. Releases /\ fan'[cur] \notin Pct
    BY <1>4, <1>a, <2>1, RestoreReleases DEF ReconcileRestore
  <2>3. /\ CacheBetweenHeldAndDisk'
        /\ entries' = [entries EXCEPT ![cur] = Absent]
        /\ UNCHANGED fileVars
    BY <1>4, <1>a, <2>1, <2>2, RemoveKept DEF ReconcileRestore
  <2>4. ReconciledRecords'
    <3>1. /\ ~failed' => \A c \in 1 .. cur : entries'[c] = Absent
          /\ entries' \in Records
      BY <1>4, <2>1, <2>3, <1>a DEF ReconcileRestore, ReconciledRecords, runVars,
         StoreTypeOK, Channel
    <3>2. QED
      BY <1>4, <1>a, <2>1, <3>1
         DEF ReconcileRestore, NextChannel, ReconciledRecords, NoRecords, Channel
  <2>5. HeldIsActive' /\ ShutdownReleases' /\ FreshPass'
    BY <1>4, <1>a, <2>1 DEF ReconcileRestore, NextChannel, HeldIsActive,
       ShutdownReleases, FreshPass, channelVars, runVars
  <2>6. QED
    BY <1>a, <1>b, <2>2, <2>3, <2>4, <2>5, DiskKept DEF CustodyInv
<1>5. CASE ReconcileRestoreFails
  <2>1. /\ phase = "reconcile" /\ phase' \in {"reconcile", "reconcileFlush"}
        /\ entries[cur] = Firmware
    BY <1>5, <1>a, NextChannelType
       DEF ReconcileRestoreFails, CacheBetweenHeldAndDisk, Native
  <2>2. Releases
    BY <1>5, <1>a, <2>1, RestoreReleases DEF ReconcileRestoreFails
  <2>3. DiskCoversHeld' /\ CacheBetweenHeldAndDisk'
    BY <1>5, <1>a, <2>1, <2>2, DiskKept, CacheKept
       DEF ReconcileRestoreFails, storeVars, fileVars
  <2>4. ReconciledRecords' /\ HeldIsActive' /\ ShutdownReleases' /\ FreshPass'
    BY <1>5, <1>a, <2>1 DEF ReconcileRestoreFails, NextChannel, ReconciledRecords,
       HeldIsActive, ShutdownReleases, FreshPass, channelVars
  <2>5. QED
    BY <1>b, <2>3, <2>4 DEF CustodyInv
<1>6. CASE ReconcileFlush
  <2>1. phase = "reconcileFlush" /\ loaded /\ Releases /\ UNCHANGED fan
    BY <1>6, <1>a, <1>d DEF ReconcileFlush, CacheBetweenHeldAndDisk
  <2>2. DiskCoversHeld'
    BY <1>6, <1>a, <2>1, PersistKept, DiskKept
       DEF ReconcileFlush, FlushPersists, FlushIdle, FlushThrows
  <2>3. CASE Ends("failed")
    BY <1>b, <2>2, <2>3, EndsKept DEF CustodyInv
  <2>4. CASE /\ ~failed /\ sidecar' = entries /\ Unloaded /\ Goto("boot")
             /\ UNCHANGED <<exit, channelVars, runVars>>
    <3>1. CacheBetweenHeldAndDisk' /\ ReconciledRecords'
      BY <2>1, <2>4, <1>a DEF Unloaded, Goto, CacheBetweenHeldAndDisk, ReconciledRecords
    <3>2. HeldIsActive' /\ ShutdownReleases' /\ FreshPass'
      BY <2>1, <2>4, <1>a DEF Goto, HeldIsActive, ShutdownReleases, FreshPass,
         channelVars, runVars
    <3>3. QED
      BY <1>b, <2>2, <3>1, <3>2 DEF CustodyInv
  <2>5. QED
    BY <1>6, <2>3, <2>4 DEF ReconcileFlush, FlushPersists
<1>7. CASE Boot
  <2>1. /\ Adopt(sidecar) /\ UNCHANGED fileVars /\ phase' = "idle" /\ cur' = cur
        /\ UNCHANGED <<fan, channelVars, runVars>> /\ phase = "boot"
    BY <1>7, <1>c DEF Boot, Goto
  <2>2. DiskCoversHeld' /\ CacheBetweenHeldAndDisk'
    BY <1>a, <1>d, <2>1, DiskKept
       DEF Adopt, CacheBetweenHeldAndDisk, DiskCoversHeld, fileVars, Manual
  <2>3. \A c \in Channel : ~Manual(c)'
    BY <2>1, <1>a DEF ReconciledRecords, DiskCoversHeld, NoRecords, Manual
  <2>4. ReconciledRecords' /\ HeldIsActive' /\ ShutdownReleases' /\ FreshPass'
    BY <1>a, <2>1, <2>3 DEF ReconciledRecords, HeldIsActive, ShutdownReleases, FreshPass,
       channelVars, runVars, Never, NoRecords, Native
  <2>5. QED
    BY <1>b, <2>2, <2>4 DEF CustodyInv
<1>8. CASE BootFails
  BY <1>8, <1>a, <1>b, <1>d, DiskKept, EndsKept DEF BootFails, CustodyInv
<1>9. QED
  BY <1>1, <1>2, <1>3, <1>4, <1>5, <1>6, <1>7, <1>8 DEF Startup

\* A tick keeps the invariant: a fan is taken only with its record on disk.
LEMMA TickKeeps ==
  ASSUME Trustworthy, CustodyInv, Tick
  PROVE  CustodyInv'
<1> USE DEF Running, Ticking, Stopping, Reconciling
<1>a. /\ TypeOK /\ StoreTypeOK /\ HardwareTypeOK /\ cur \in Channel
      /\ DiskCoversHeld /\ CacheBetweenHeldAndDisk /\ FreshPass /\ HeldIsActive
      /\ NumChannels \in Nat \ {0}
  BY ConstantsAssumption DEF CustodyInv, TypeOK
<1>b. TypeOK'
  BY <1>a, TickType
<1>d. UNCHANGED fan => Releases
  BY <1>a DEF DiskCoversHeld, Releases
<1>e. ASSUME phase \in Ticking, phase' \in Ticking \cup {"shutdown"},
             phase' \in {"idle", "flush", "shutdown"} => cur' = 1, UNCHANGED <<failed, exit>>
      PROVE  ReconciledRecords' /\ ShutdownReleases' /\ FreshPass'
  BY <1>a, <1>e DEF ReconciledRecords, ShutdownReleases, FreshPass
<1>1. CASE BeginTick
  <2>1. /\ phase = "idle" /\ phase' = "hold"
        /\ UNCHANGED <<fan, storeVars, cur, exit, failed, baseline, active>>
    BY <1>1 DEF BeginTick, Goto
  <2>2. DiskCoversHeld' /\ CacheBetweenHeldAndDisk'
    BY <1>a, <1>d, <2>1, DiskKept, CacheKept DEF storeVars, fileVars
  <2>3. \A c \in Channel : seen'[c] \in {fan[c], Absent}
    BY <1>1, <1>a DEF BeginTick, ScanResults, HardwareTypeOK
  <2>4. \A c \in Channel :
          ~Native(seen'[c]) => seen'[c] \in Pct /\ baseline[c] = Firmware
    BY <2>1, <2>3, <1>a DEF HeldIsActive, DiskCoversHeld, HardwareTypeOK, Native, Manual
  <2>5. HeldIsActive'
    BY <2>1, <2>4, <1>a DEF HeldIsActive, Manual
  <2>6. QED
    BY <1>b, <1>e, <2>1, <2>2, <2>5 DEF CustodyInv
<1>2. CASE CaptureBaseline
  <2>1. /\ phase = "hold" /\ phase' = "decide"
        /\ UNCHANGED <<fan, storeVars, cur, exit, active, seen, failed>>
    BY <1>2 DEF CaptureBaseline, Goto, runVars
  <2>2. DiskCoversHeld' /\ CacheBetweenHeldAndDisk'
    BY <1>a, <1>d, <2>1, DiskKept, CacheKept DEF storeVars, fileVars
  <2>3. \A c \in Channel :
          \/ baseline'[c] = baseline[c]
          \/ baseline[c] = Absent /\ baseline'[c] = Firmware
    <3>1. CASE baseline[cur] = Absent /\ seen[cur] # Absent
      <4>1. seen[cur] = Firmware
        BY <2>1, <3>1, <1>a DEF HeldIsActive, Native
      <4>2. QED
        <5>1. baseline' = [baseline EXCEPT ![cur] = Firmware] /\ baseline \in Records
          BY <1>2, <3>1, <4>1, <1>a DEF CaptureBaseline, TypeOK
        <5>2. QED
          BY <3>1, <5>1
    <3>2. CASE ~(baseline[cur] = Absent /\ seen[cur] # Absent)
      <4>1. baseline' = baseline
        BY <1>2, <3>2 DEF CaptureBaseline
      <4>2. QED
        BY <4>1
    <3>3. QED
      BY <3>1, <3>2
  <2>4. HeldIsActive'
    BY <2>1, <2>3, <1>a DEF HeldIsActive, Native, Manual
  <2>5. QED
    BY <1>b, <1>e, <2>1, <2>2, <2>4 DEF CustodyInv
<1>3. CASE HoldRestore
  <2>1. /\ phase = "hold" /\ phase' = "decide" /\ active[cur] /\ loaded
        /\ baseline[cur] = Firmware
        /\ UNCHANGED <<cur, exit, baseline, seen, failed>>
    BY <1>3, <1>a DEF HoldRestore, HoldMayExpire, Goto, runVars, HeldIsActive,
       CacheBetweenHeldAndDisk
  <2>2. Releases /\ fan'[cur] \notin Pct
    BY <1>3, <1>a, <2>1, RestoreReleases DEF HoldRestore
  <2>3. CacheBetweenHeldAndDisk' /\ UNCHANGED fileVars
    BY <1>3, <1>a, <2>1, <2>2, TrustedRemove, RemoveKept DEF HoldRestore
  <2>4. HeldIsActive'
    BY <1>3, <2>1, <2>2, <1>a DEF HoldRestore, HeldIsActive, Releases, Manual, TypeOK
  <2>5. QED
    BY <1>a, <1>b, <1>e, <2>1, <2>2, <2>3, <2>4, DiskKept DEF CustodyInv
<1>4. CASE HoldRestoreFails
  <2>1. /\ phase = "hold" /\ phase' \in {"decide", "flush"} /\ active[cur]
        /\ phase' = "flush" => cur' = 1
        /\ baseline[cur] = Firmware
        /\ UNCHANGED <<storeVars, exit, channelVars, seen, failed>>
    BY <1>4, <1>a DEF HoldRestoreFails, HoldMayExpire, Goto, HeldIsActive
  <2>2. Releases
    BY <1>4, <1>a, <2>1, RestoreReleases DEF HoldRestoreFails
  <2>3. DiskCoversHeld' /\ CacheBetweenHeldAndDisk'
    BY <1>a, <2>1, <2>2, DiskKept, CacheKept DEF storeVars, fileVars
  <2>4. HeldIsActive'
    BY <2>1, <2>2, <1>a DEF HeldIsActive, Releases, Manual, channelVars
  <2>5. QED
    BY <1>b, <1>e, <2>1, <2>3, <2>4 DEF CustodyInv
<1>5. CASE SkipWrite
  <2>1. /\ phase = "decide" /\ phase' \in {"hold", "flush"}
        /\ phase' = "flush" => cur' = 1
        /\ seen' = [seen EXCEPT ![cur] = Absent]
        /\ UNCHANGED <<fan, storeVars, exit, channelVars, failed>>
    BY <1>5, <1>a DEF SkipWrite, NextChannel
  <2>2. DiskCoversHeld' /\ CacheBetweenHeldAndDisk'
    BY <1>a, <1>d, <2>1, DiskKept, CacheKept DEF storeVars, fileVars
  <2>3. HeldIsActive'
    BY <2>1, <1>a DEF HeldIsActive, Manual, channelVars, TypeOK, Native
  <2>4. QED
    BY <1>b, <1>e, <2>1, <2>2, <2>3 DEF CustodyInv
<1>6. CASE RecordWrite
  <2>1. /\ phase = "decide" /\ phase' = "apply" /\ loaded /\ baseline[cur] = Firmware
        /\ seen' = [seen EXCEPT ![cur] = Absent]
        /\ UNCHANGED <<fan, cur, exit, baseline, active, failed>>
    BY <1>6, <1>a DEF RecordWrite, WriteDue, Goto, HeldIsActive, CacheBetweenHeldAndDisk,
       Native
  <2>2. UpsertPersisted(cur, Firmware) \/ UpsertDeferred(cur, Firmware)
    BY <1>6, <2>1, <1>a DEF RecordWrite, UpsertThrows, PersistThrows, LoadThrows,
       Trustworthy
  <2>3. /\ DiskCoversHeld' /\ CacheBetweenHeldAndDisk'
        /\ entries'[cur] = Firmware
    <3>1. CASE UpsertPersisted(cur, Firmware)
      <4>1. /\ entries' = [entries EXCEPT ![cur] = Firmware] /\ sidecar' = entries'
            /\ intact' = TRUE /\ loaded' = TRUE
        BY <2>1, <3>1 DEF UpsertPersisted, Persist, Adopt, Cached
      <4>2. \A c \in Channel :
              /\ Native(entries'[c])
              /\ Manual(c) => entries'[c] = Firmware
              /\ entries'[cur] = Firmware
        BY <2>1, <4>1, <1>a DEF CacheBetweenHeldAndDisk, StoreTypeOK, Native
      <4>3. QED
        BY <2>1, <4>1, <4>2, <1>a
           DEF CacheBetweenHeldAndDisk, DiskCoversHeld, Manual
    <3>2. CASE UpsertDeferred(cur, Firmware)
      <4>1. /\ entries' = entries /\ dirty' = TRUE /\ loaded' = TRUE
            /\ entries[cur] = Firmware /\ UNCHANGED fileVars
        BY <2>1, <3>2 DEF UpsertDeferred, Cached
      <4>2. QED
        BY <2>1, <4>1, <1>a, <1>d, DiskKept DEF CacheBetweenHeldAndDisk, fileVars, Manual
    <3>3. QED
      BY <2>2, <3>1, <3>2
  <2>4. HeldIsActive'
    BY <2>1, <2>3, <1>a DEF HeldIsActive, Manual, TypeOK, Native
  <2>5. QED
    BY <1>b, <1>e, <2>1, <2>3, <2>4 DEF CustodyInv
<1>7. CASE ApplyWrite
  <2>1. /\ phase = "apply" /\ phase' \in {"hold", "flush"}
        /\ phase' = "flush" => cur' = 1
        /\ cur \in Writable /\ target \in Pct
        /\ fan' = [fan EXCEPT ![cur] = target]
        /\ active' = [active EXCEPT ![cur] = TRUE]
        /\ entries[cur] = Firmware /\ sidecar[cur] = Firmware /\ baseline[cur] = Firmware
        /\ loaded
        /\ UNCHANGED <<storeVars, exit, baseline, seen, failed>>
    BY <1>7, <1>a DEF ApplyWrite, Applied, NextChannel, HeldIsActive,
       CacheBetweenHeldAndDisk, TypeOK
  <2>2. Fallback \notin Pct
    BY DEF Pct
  <2>3. DiskCoversHeld'
    BY <2>1, <2>2, <1>a DEF DiskCoversHeld, HardwareTypeOK, Manual, storeVars
  <2>4. CacheBetweenHeldAndDisk'
    BY <2>1, <1>a DEF CacheBetweenHeldAndDisk, HardwareTypeOK, Manual, storeVars
  <2>5. HeldIsActive'
    BY <2>1, <1>a DEF HeldIsActive, HardwareTypeOK, Manual, TypeOK, storeVars
  <2>6. QED
    BY <1>b, <1>e, <2>1, <2>3, <2>4, <2>5 DEF CustodyInv
<1>8. CASE ApplyWriteFails
  <2>1. /\ phase = "apply" /\ phase' \in {"hold", "flush"} /\ loaded
        /\ phase' = "flush" => cur' = 1
        /\ UNCHANGED <<exit, baseline, active, seen, failed>>
    BY <1>8, <1>a DEF ApplyWriteFails, NextChannel, CacheBetweenHeldAndDisk
  <2>2. UNCHANGED fan /\ Releases
    BY <1>8, <1>d DEF ApplyWriteFails, ApplyFailed, ApplyRefused, Trustworthy
  <2>3. CacheBetweenHeldAndDisk' /\ UNCHANGED fileVars
    <3>1. CASE UNCHANGED storeVars
      BY <3>1, <2>1, <2>2, <1>a, CacheKept DEF storeVars, fileVars
    <3>2. CASE ApplyRefused(cur) /\ QueueRemove(cur)
      <4>1. fan'[cur] \notin Pct
        BY <3>2, <2>2, <1>a DEF ApplyRefused, DiskCoversHeld, Manual
      <4>2. QED
        BY <3>2, <4>1, <2>1, <2>2, <1>a, RemoveKept
    <3>3. QED
      BY <1>8, <3>1, <3>2, <1>a, TrustedRemove DEF ApplyWriteFails
  <2>4. HeldIsActive'
    BY <2>1, <2>2, <1>a DEF HeldIsActive, Manual
  <2>5. QED
    BY <1>a, <1>b, <1>e, <2>1, <2>2, <2>3, <2>4, DiskKept DEF CustodyInv
<1>9. CASE FlushTick
  <2>1. /\ phase = "flush" /\ phase' \in {"idle", "shutdown"} /\ loaded /\ cur' = 1
        /\ seen' = NoRecords
        /\ UNCHANGED <<fan, exit, baseline, active, failed>>
    BY <1>9, <1>a DEF FlushTick, FreshPass, CacheBetweenHeldAndDisk
  <2>2. DiskCoversHeld' /\ CacheBetweenHeldAndDisk'
    <3>1. CASE FlushPersists /\ Adopt(entries)
      BY <3>1, <2>1, <1>a, PersistKept
         DEF FlushPersists, Adopt, CacheBetweenHeldAndDisk, Manual
    <3>2. CASE (FlushIdle \/ FlushThrows) /\ UNCHANGED cacheVars
      <4>1. UNCHANGED storeVars /\ UNCHANGED fileVars
        BY <3>2 DEF FlushIdle, FlushThrows, storeVars, fileVars, cacheVars
      <4>2. QED
        BY <4>1, <2>1, <1>a, <1>d, DiskKept, CacheKept
    <3>3. QED
      BY <1>9, <3>1, <3>2 DEF FlushTick
  <2>3. HeldIsActive'
    BY <2>1, <1>a DEF HeldIsActive, Manual, NoRecords, Native
  <2>4. QED
    BY <1>b, <1>e, <2>1, <2>2, <2>3 DEF CustodyInv
<1>10. QED
  BY <1>1, <1>2, <1>3, <1>4, <1>5, <1>6, <1>7, <1>8, <1>9 DEF Tick

\* The shutdown keeps the invariant: a record is dropped only with its fan released.
LEMMA ShutdownKeeps ==
  ASSUME Trustworthy, CustodyInv, Shutdown
  PROVE  CustodyInv'
<1> USE DEF Running, Ticking, Stopping, Reconciling
<1>a. /\ TypeOK /\ StoreTypeOK /\ HardwareTypeOK /\ cur \in Channel
      /\ DiskCoversHeld /\ CacheBetweenHeldAndDisk /\ FreshPass /\ HeldIsActive
      /\ ShutdownReleases /\ NumChannels \in Nat \ {0}
  BY ConstantsAssumption DEF CustodyInv, TypeOK
<1>b. TypeOK'
  BY <1>a, ShutdownType
<1>d. UNCHANGED fan => Releases
  BY <1>a DEF DiskCoversHeld, Releases
<1>e. ASSUME phase = "shutdown", NextChannel("shutdown", "shutdownFlush"), Releases,
             UNCHANGED <<exit, channelVars, seen>>
      PROVE  ReconciledRecords' /\ FreshPass' /\ HeldIsActive'
  BY <1>a, <1>e DEF NextChannel, ReconciledRecords, FreshPass, HeldIsActive, Releases,
     Manual, channelVars
<1>f. ASSUME phase = "shutdown", NextChannel("shutdown", "shutdownFlush"), Releases,
             fan'[cur] \notin Pct, DropRecord(cur), UNCHANGED <<exit, channelVars, seen>>
      PROVE  CustodyInv'
  <2>1. loaded /\ phase' \in {"shutdown", "shutdownFlush"}
    BY <1>a, <1>f DEF CacheBetweenHeldAndDisk, NextChannel
  <2>2. QueueRemove(cur) /\ queued' = TRUE /\ failed' = failed
    BY <1>a, <1>f, TrustedRemove DEF DropRecord
  <2>3. /\ DiskCoversHeld' /\ CacheBetweenHeldAndDisk'
        /\ entries' = [entries EXCEPT ![cur] = Absent]
    BY <1>a, <1>f, <2>1, <2>2, RemoveKept, DiskKept
  <2>4. ~failed' => \A c \in 1 .. cur : fan'[c] \notin Pct /\ entries'[c] = Absent
    BY <1>a, <1>f, <2>2, <2>3
       DEF ShutdownReleases, Releases, Manual, StoreTypeOK, Channel
  <2>5. ShutdownReleases'
    BY <1>a, <1>f, <2>1, <2>2, <2>4 DEF NextChannel, ShutdownReleases, Manual, Channel
  <2>6. QED
    BY <1>b, <1>e, <1>f, <2>3, <2>5 DEF CustodyInv
<1>1. CASE BeginShutdown
  <2>1. /\ phase = "idle" /\ phase' = "shutdown" /\ cur' = 1 /\ ~failed'
        /\ UNCHANGED <<fan, storeVars, exit, channelVars, seen>>
    BY <1>1, <1>a DEF BeginShutdown, Goto, FreshPass, runVars
  <2>2. DiskCoversHeld' /\ CacheBetweenHeldAndDisk'
    BY <1>a, <1>d, <2>1, DiskKept, CacheKept DEF storeVars, fileVars
  <2>3. ReconciledRecords' /\ ShutdownReleases' /\ FreshPass' /\ HeldIsActive'
    BY <1>a, <2>1 DEF ReconciledRecords, ShutdownReleases, FreshPass, HeldIsActive,
       Manual, channelVars
  <2>4. QED
    BY <1>b, <2>2, <2>3 DEF CustodyInv
<1>2. CASE ShutdownInactive
  <2>1. fan[cur] \notin Pct
    BY <1>2, <1>a DEF ShutdownInactive, HeldIsActive, Manual
  <2>2. QED
    BY <1>2, <2>1, <1>d, <1>f DEF ShutdownInactive
<1>3. CASE ShutdownRestore
  <2>1. baseline[cur] = Firmware
    BY <1>3, <1>a DEF ShutdownRestore, HeldIsActive
  <2>2. Releases /\ fan'[cur] \notin Pct
    BY <1>3, <1>a, <2>1, RestoreReleases DEF ShutdownRestore
  <2>3. QED
    BY <1>3, <2>2, <1>f DEF ShutdownRestore
<1>4. CASE ShutdownKeepsRecord
  <2>1. baseline[cur] = Firmware
    BY <1>4, <1>a DEF ShutdownKeepsRecord, HeldIsActive
  <2>2. Releases
    BY <1>4, <1>a, <1>d, <2>1, RestoreReleases DEF ShutdownKeepsRecord
  <2>3. phase' \in {"shutdown", "shutdownFlush"} /\ phase = "shutdown" /\ failed'
    BY <1>4, <1>a DEF ShutdownKeepsRecord, NextChannel
  <2>4. DiskCoversHeld' /\ CacheBetweenHeldAndDisk'
    BY <1>4, <1>a, <2>2, <2>3, DiskKept, CacheKept
       DEF ShutdownKeepsRecord, storeVars, fileVars
  <2>5. ShutdownReleases'
    BY <2>3 DEF ShutdownReleases
  <2>6. QED
    BY <1>4, <1>b, <1>e, <2>2, <2>4, <2>5 DEF ShutdownKeepsRecord, CustodyInv
<1>5. CASE ShutdownFlush
  <2>1. phase = "shutdownFlush" /\ loaded /\ UNCHANGED fan /\ Releases
    BY <1>5, <1>a, <1>d DEF ShutdownFlush, CacheBetweenHeldAndDisk
  <2>2. DiskCoversHeld'
    BY <1>5, <1>a, <2>1, PersistKept, DiskKept
       DEF ShutdownFlush, FlushPersists, FlushIdle, FlushThrows
  <2>3. CASE Ends("failed")
    BY <1>b, <2>2, <2>3, EndsKept DEF CustodyInv
  <2>4. CASE ~failed /\ Ends("clean") /\ (FlushPersists \/ FlushIdle)
    <3>1. sidecar' = entries
      BY <2>1, <2>4, <1>a DEF FlushPersists, FlushIdle, fileVars,
         CacheBetweenHeldAndDisk, TypeOK, StoreTypeOK
    <3>2. entries = NoRecords /\ \A c \in Channel : fan'[c] \notin Pct
      BY <2>1, <2>4, <1>a DEF ShutdownReleases, StoreTypeOK, NoRecords, Manual
    <3>3. QED
      BY <1>b, <2>2, <2>4, <3>1, <3>2, EndsKept DEF CustodyInv, Manual
  <2>5. QED
    BY <1>5, <1>a, <2>1, <2>3, <2>4 DEF ShutdownFlush, ShutdownReleases
<1>6. QED
  BY <1>1, <1>2, <1>3, <1>4, <1>5 DEF Shutdown

\* So does what happens to the worker from outside, at any point.
LEMMA EnvironmentKeeps ==
  ASSUME Trustworthy, CustodyInv, Environment
  PROVE  CustodyInv'
<1>a. /\ TypeOK /\ HardwareTypeOK /\ DiskCoversHeld /\ CacheBetweenHeldAndDisk
      /\ HeldIsActive
  BY DEF CustodyInv, TypeOK
<1>b. TypeOK'
  BY <1>a, EnvironmentType
<1>c. Releases
  BY <1>a DEF Environment, Crash, RequestStop, FirmwareTakesOver, TakeOver,
     SidecarDamaged, DiskCoversHeld, HardwareTypeOK, Releases, Pct
<1>1. CASE Crash
  BY <1>1, <1>a, <1>b, <1>c, DiskKept, EndsKept DEF Crash, CustodyInv
<1>2. CASE RequestStop \/ FirmwareTakesOver
  <2>1. UNCHANGED <<storeVars, phase, cur, exit, channelVars, runVars>>
    BY <1>2 DEF RequestStop, FirmwareTakesOver
  <2>2. DiskCoversHeld' /\ CacheBetweenHeldAndDisk'
    BY <1>a, <1>c, <2>1, DiskKept, CacheKept DEF storeVars, fileVars
  <2>3. ReconciledRecords' /\ FreshPass'
    BY <2>1 DEF CustodyInv, ReconciledRecords, FreshPass, storeVars, channelVars, runVars
  <2>4. HeldIsActive'
    BY <1>a, <1>c, <2>1 DEF HeldIsActive, Releases, Manual, storeVars, channelVars, runVars
  <2>5. ShutdownReleases'
    <3>1. \A c \in Channel : fan'[c] \in Pct => fan[c] \in Pct
      BY <1>c DEF Releases
    <3>2. cur \in Channel /\ \A c \in 1 .. cur - 1 : c \in Channel
      BY <1>a, ConstantsAssumption DEF TypeOK, Channel
    <3>3. QED
      BY <2>1, <3>1, <3>2 DEF CustodyInv, ShutdownReleases, Manual, storeVars, runVars
  <2>6. QED
    BY <1>b, <2>2, <2>3, <2>4, <2>5 DEF CustodyInv
<1>3. CASE SidecarDamaged
  BY <1>3 DEF SidecarDamaged, DamageSidecar, Trustworthy
<1>4. QED
  BY <1>1, <1>2, <1>3 DEF Environment

\* With a trustworthy sidecar the invariant is inductive.
LEMMA NextKeeps ==
  ASSUME Trustworthy, CustodyInv, [Next]_vars
  PROVE  CustodyInv'
<1>1. CASE UNCHANGED vars
  BY <1>1 DEF vars, storeVars, channelVars, runVars, CustodyInv, TypeOK, HardwareTypeOK,
     StoreTypeOK, DiskCoversHeld, CacheBetweenHeldAndDisk, ReconciledRecords, HeldIsActive,
     ShutdownReleases, FreshPass, Manual
<1>2. CASE Next
  BY <1>2, StartupKeeps, TickKeeps, ShutdownKeeps, EnvironmentKeeps DEF Next, Worker
<1>3. QED
  BY <1>1, <1>2

\* It holds initially.
LEMMA InitCustody ==
  Init => CustodyInv
<1> SUFFICES ASSUME Init PROVE CustodyInv
  OBVIOUS
<1>1. TypeOK
  BY InitType
<1>2. DiskCoversHeld
  BY DEF Init, HardwareInit, StoreInit, NoRecords, DiskCoversHeld, Native, Manual, Pct
<1>3. CacheBetweenHeldAndDisk /\ ReconciledRecords /\ HeldIsActive /\ ShutdownReleases
      /\ FreshPass
  BY DEF Init, StoreInit, CacheBetweenHeldAndDisk, ReconciledRecords, HeldIsActive,
     ShutdownReleases, FreshPass, Running, Ticking, Stopping, Reconciling
<1>4. QED
  BY <1>1, <1>2, <1>3 DEF CustodyInv

\* The inductive invariant holds in every reachable state.
THEOREM CustodyInvariant ==
  ASSUME Trustworthy
  PROVE  Spec => []CustodyInv
<1>1. Init => CustodyInv
  BY InitCustody
<1>2. CustodyInv /\ [Next]_vars => CustodyInv'
  BY NextKeeps
<1>3. QED
  BY <1>1, <1>2, PTL DEF Spec

\* A held fan always has the record of the board's own mode on disk, and no fan
\* ends in the substitute mode, across crashes and failed restores.
THEOREM HeldFansRecorded ==
  ASSUME Trustworthy
  PROVE  Spec => []HeldFanIsRecorded
<1>1. CustodyInv => HeldFanIsRecorded
  BY DEF CustodyInv, DiskCoversHeld, HeldFanIsRecorded
<1>2. QED
  BY <1>1, CustodyInvariant, PTL

\* No control loop starts while a record of an earlier process is unrestored.
THEOREM LoopStartsClean ==
  ASSUME Trustworthy
  PROVE  Spec => []LoopStartsWithCleanSidecar
<1>1. CustodyInv => LoopStartsWithCleanSidecar
  BY DEF CustodyInv, ReconciledRecords, LoopStartsWithCleanSidecar
<1>2. QED
  BY <1>1, CustodyInvariant, PTL

\* A process that reports success has given every fan back and left no record.
THEOREM CleanExitsRestore ==
  ASSUME Trustworthy
  PROVE  Spec => []CleanExitRestores
<1>1. CustodyInv => CleanExitRestores
  BY DEF CustodyInv, ShutdownReleases, CleanExitRestores
<1>2. QED
  BY <1>1, CustodyInvariant, PTL

-----------------------------------------------------------------------------
(* Custody as an abstract protocol.                                        *)

\* No step both moves a fan and rewrites the file.
LEMMA OneAtATime ==
  ASSUME [Next]_vars
  PROVE  UNCHANGED fan \/ UNCHANGED sidecar
<1> USE DEF storeVars, fileVars
<1>1. CASE UNCHANGED vars
  BY <1>1 DEF vars
<1>2. CASE Startup
  BY <1>2 DEF Startup, Start, StartRefused, ReconcileSkip, ReconcileRestore, QueueRemove,
     ReconcileRestoreFails, ReconcileFlush, Boot, BootFails
<1>3. CASE Tick
  <2>1. CASE HoldRestore
    BY <2>1 DEF HoldRestore, QueueRemove, QueueRemoveThrows
  <2>2. CASE HoldRestoreFails \/ ApplyWrite
    BY <2>2 DEF HoldRestoreFails, ApplyWrite
  <2>3. CASE ApplyWriteFails
    BY <2>3 DEF ApplyWriteFails, QueueRemove, QueueRemoveThrows
  <2>4. CASE BeginTick \/ CaptureBaseline \/ SkipWrite \/ RecordWrite \/ FlushTick
    BY <2>4 DEF BeginTick, CaptureBaseline, SkipWrite, RecordWrite, FlushTick
  <2>5. QED
    BY <1>3, <2>1, <2>2, <2>3, <2>4 DEF Tick
<1>4. CASE Shutdown
  BY <1>4 DEF Shutdown, BeginShutdown, ShutdownInactive, ShutdownRestore, DropRecord,
     QueueRemove, QueueRemoveThrows, ShutdownKeepsRecord, ShutdownFlush
<1>5. CASE Environment
  BY <1>5 DEF Environment, Crash, RequestStop, FirmwareTakesOver, SidecarDamaged
<1>6. QED
  BY <1>1, <1>2, <1>3, <1>4, <1>5 DEF Next, Worker

\* No step moves two fans.
LEMMA OneFanAtATime ==
  ASSUME TypeOK, [Next]_vars, fan' # fan
  PROVE  \E c \in Channel :
           \A d \in Channel \ {c} : fan'[d] = fan[d]
<1>a. cur \in Channel /\ fan \in [Channel -> FanState]
  BY DEF TypeOK, HardwareTypeOK
<1> USE DEF RestoreDone, RestoreFailed, Applied, ApplyFailed, ApplyRefused, TakeOver
<1>1. CASE UNCHANGED vars
  BY <1>1 DEF vars
<1>2. CASE Startup
  BY <1>2, <1>a DEF Startup, Start, StartRefused, ReconcileSkip, ReconcileRestore,
     ReconcileRestoreFails, ReconcileFlush, Boot, BootFails
<1>3. CASE Tick
  <2>1. CASE HoldRestore \/ HoldRestoreFails \/ ApplyWrite \/ ApplyWriteFails
    BY <2>1, <1>a DEF HoldRestore, HoldRestoreFails, ApplyWrite, ApplyWriteFails
  <2>2. CASE BeginTick \/ CaptureBaseline \/ SkipWrite \/ RecordWrite \/ FlushTick
    BY <2>2 DEF BeginTick, CaptureBaseline, SkipWrite, RecordWrite, FlushTick
  <2>3. QED
    BY <1>3, <2>1, <2>2 DEF Tick
<1>4. CASE Shutdown
  BY <1>4, <1>a DEF Shutdown, BeginShutdown, ShutdownInactive, ShutdownRestore,
     ShutdownKeepsRecord, ShutdownFlush
<1>5. CASE Environment
  BY <1>5, <1>a DEF Environment, Crash, RequestStop, FirmwareTakesOver, SidecarDamaged
<1>6. QED
  BY <1>1, <1>2, <1>3, <1>4, <1>5 DEF Next, Worker

\* Every step of the worker is a step of the custody protocol, or none.
LEMMA CustodyStep ==
  ASSUME CustodyInv, CustodyInv', [Next]_vars
  PROVE  [Custody!Next]_<<{c \in Channel : Manual(c)},
                          {c \in Channel : sidecar[c] # Absent}>>
<1> DEFINE taken == {c \in Channel : Manual(c)}
           recorded == {c \in Channel : sidecar[c] # Absent}
<1>1. taken \subseteq recorded /\ (taken \subseteq recorded)'
  BY DEF CustodyInv, DiskCoversHeld
<1>2. CASE UNCHANGED fan
  <2>1. taken' = taken
    BY <1>2 DEF Manual
  <2>2. PICK R \in SUBSET Channel : R = recorded'
    OBVIOUS
  <2>3. Custody!Rewrite(R)
    BY <1>1, <2>1, <2>2 DEF Custody!Rewrite
  <2>4. QED
    BY <2>3 DEF Custody!Next
<1>3. CASE fan' # fan
  <2>1. UNCHANGED sidecar /\ recorded' = recorded
    BY <1>3, OneAtATime
  <2>2. PICK c \in Channel : \A d \in Channel \ {c} : fan'[d] = fan[d]
    BY <1>3, OneFanAtATime DEF CustodyInv
  <2>3. CASE fan'[c] \in Pct
    <3>1. taken' = taken \cup {c}
      BY <2>2, <2>3 DEF Manual
    <3>2. c \in recorded
      BY <1>1, <2>1, <3>1
    <3>3. Custody!Take(c)
      BY <2>1, <3>1, <3>2 DEF Custody!Take
    <3>4. QED
      BY <3>3 DEF Custody!Next
  <2>4. CASE fan'[c] \notin Pct
    <3>1. taken' = taken \ {c}
      BY <2>2, <2>4 DEF Manual
    <3>2. Custody!GiveBack(c)
      BY <2>1, <3>1 DEF Custody!GiveBack
    <3>3. QED
      BY <3>2 DEF Custody!Next
  <2>5. QED
    BY <2>3, <2>4
<1>4. QED
  BY <1>2, <1>3

\* The worker implements write-ahead custody: it takes a fan only while its record
\* is durable and erases a record only of a fan that has been given back.
THEOREM CustodyRefined ==
  ASSUME Trustworthy
  PROVE  Spec => CustodySpec
<1>1. Init => Custody!Init
  BY DEF Init, HardwareInit, StoreInit, NoRecords, Manual, Pct, Custody!Init
<1>2. CustodyInv /\ CustodyInv' /\ [Next]_vars
        => [Custody!Next]_<<{c \in Channel : Manual(c)},
                            {c \in Channel : sidecar[c] # Absent}>>
  BY CustodyStep
<1>3. QED
  BY <1>1, <1>2, CustodyInvariant, PTL DEF Spec, CustodySpec, Custody!Spec

\* The protocol alone, whoever follows it, never holds a fan without a record.
LEMMA ProtocolSafe == Custody!Spec => []Custody!Safe
<1>1. Custody!Init => Custody!Safe
  BY DEF Custody!Init, Custody!Safe
<1>2. Custody!Safe /\ [Custody!Next]_<<{c \in Channel : Manual(c)},
                                     {c \in Channel : sidecar[c] # Absent}>>
        => Custody!Safe'
  BY DEF Custody!Safe, Custody!Next, Custody!Rewrite, Custody!Take, Custody!GiveBack
<1>3. QED
  BY <1>1, <1>2, PTL DEF Custody!Spec

\* So the worker, which follows it, never does either.
THEOREM CustodySafe ==
  ASSUME Trustworthy
  PROVE  Spec => []Custody!Safe
<1>1. QED
  BY CustodyRefined, ProtocolSafe, PTL DEF CustodySpec

\* No write of the sidecar erases the record of a fan that is still held.
THEOREM ErasuresFollowRelease ==
  ASSUME Trustworthy
  PROVE  Spec => RecordErasedOnlyWhenReleased
<1> DEFINE Erasure == \A c \in Channel :
                        sidecar[c] # Absent /\ sidecar'[c] = Absent => ~Manual(c)
<1>1. CustodyInv /\ CustodyInv' /\ [Next]_vars => [Erasure]_vars
  <2>1. SUFFICES ASSUME CustodyInv, CustodyInv', [Next]_vars, NEW c \in Channel,
                        sidecar[c] # Absent, sidecar'[c] = Absent
                 PROVE  ~Manual(c)
    OBVIOUS
  <2>2. UNCHANGED fan
    BY <2>1, OneAtATime
  <2>3. fan'[c] \notin Pct
    BY <2>1 DEF CustodyInv, DiskCoversHeld, Manual
  <2>4. QED
    BY <2>2, <2>3 DEF Manual
<1>2. QED
  BY <1>1, CustodyInvariant, PTL DEF Spec, RecordErasedOnlyWhenReleased
=============================================================================
