-------------------------- MODULE FanControlInvariant --------------------------
(***************************************************************************)
(* The inductive invariants behind the properties of FanControl.           *)
(*                                                                         *)
(* CustodyInv holds of an environment whose faults leave the sidecar       *)
(* trustworthy: the file is replaced and read when the code asks for it,   *)
(* and a failed duty write leaves the output as it was.  FlagInv needs     *)
(* only that a readable sidecar can be read, ReleaseInv and AbortInv need  *)
(* nothing.                                                                *)
(***************************************************************************)
EXTENDS FanControl

Trustworthy == Faults \cap {"persist", "read", "corrupt", "tear"} = {}

Running == Ticking \cup Stopping

\* A mode no one but the board chose, if there is one.
Native(s) == s \in {Firmware, Absent}

\* The disk names every held fan, and only with the board's own mode.
DiskCoversHeld ==
  /\ intact
  /\ \A c \in Channel :
       /\ fan[c] # Fallback
       /\ Native(sidecar[c])
       /\ Manual(c) => c \in Writable /\ sidecar[c] = Firmware

\* The cache is loaded exactly from reconciliation or loop start to the end.
\* It may lag behind the disk only by removals, and never by that of a held fan.
CacheBetweenHeldAndDisk ==
  /\ loaded <=> phase \notin {"down", "boot"}
  /\ loaded => \A c \in Channel :
       /\ Native(entries[c])
       /\ entries[c] = Firmware => sidecar[c] = Firmware
       /\ Manual(c) => entries[c] = Firmware
       /\ ~dirty => entries[c] = sidecar[c]

\* No loop starts with an unrestored record, because reconciliation without a
\* failure has removed the records of all channels it has passed.
ReconciledRecords ==
  /\ phase = "boot" => sidecar = NoRecords
  /\ phase = "reconcile" /\ ~failed => \A c \in 1 .. cur - 1 : entries[c] = Absent
  /\ phase = "reconcileFlush" /\ ~failed => entries = NoRecords

\* A running loop holds only fans it marked active, whose baseline it captured
\* while the board still had them.
HeldIsActive ==
  /\ phase \in Running =>
       \A c \in Channel :
         /\ Native(baseline[c])
         /\ Manual(c) => active[c]
         /\ active[c] => baseline[c] = Firmware
         /\ ~Native(seen[c]) => seen[c] \in Pct /\ baseline[c] = Firmware
  /\ phase = "apply" => baseline[cur] = Firmware /\ entries[cur] = Firmware

\* A shutdown without a failure has released the channels it has passed.
ShutdownReleases ==
  /\ phase = "shutdown" /\ ~failed =>
       \A c \in 1 .. cur - 1 : ~Manual(c) /\ entries[c] = Absent
  /\ phase = "shutdownFlush" /\ ~failed =>
       queued /\ \A c \in Channel : ~Manual(c) /\ entries[c] = Absent
  /\ phase = "down" /\ exit = "clean" =>
       sidecar = NoRecords /\ \A c \in Channel : ~Manual(c)

\* Each pass over the channels starts at the first one and without failures, and
\* each process starts without a channel state.
FreshPass ==
  /\ phase \notin Reconciling \cup Stopping => ~failed
  /\ phase \in {"down", "boot", "idle", "flush"} => cur = 1
  /\ phase \in {"reconcileFlush", "shutdownFlush"} => cur = 1
  /\ phase \notin Running => active = Never /\ baseline = NoRecords /\ seen = NoRecords

\* The strengthening that every step preserves: what is on disk, what is cached
\* and what the worker's program counter says about each held fan.
CustodyInv ==
  /\ TypeOK
  /\ DiskCoversHeld
  /\ CacheBetweenHeldAndDisk
  /\ ReconciledRecords
  /\ HeldIsActive
  /\ ShutdownReleases
  /\ FreshPass

-----------------------------------------------------------------------------
(* Without a durable record.                                               *)

\* A loop whose cache could not be loaded runs on a file that stays unreadable: it
\* records nothing, and every channel it drives is flagged.
UnloadedIsFlagged ==
  /\ ~loaded => ~dirty
  /\ phase \in Ticking /\ ~loaded => ~intact /\ \A c \in Channel : active[c] => unsaved[c]

\* The cache of a running loop names every channel it drives, with the baseline it
\* captured, and differs from the file only where a removal is pending or a flag set.
CacheNamesActive ==
  phase \in Ticking /\ loaded =>
    \A c \in Channel :
      /\ active[c] => entries[c] = baseline[c]
      /\ entries[c] # Absent => sidecar[c] = entries[c] \/ unsaved[c]

\* What is driven can be driven and has been captured, and so has what is about to be.
DrivenIsCaptured ==
  /\ phase \in Ticking => \A c \in Channel : active[c] => c \in Writable /\ baseline[c] # Absent
  /\ phase \notin Ticking \cup Stopping => active = Never
  /\ phase = "apply" =>
       /\ baseline[cur] # Absent
       /\ IF loaded THEN entries[cur] = baseline[cur] ELSE unsaved[cur]

FlagInv == UnloadedIsFlagged /\ CacheNamesActive /\ DrivenIsCaptured

-----------------------------------------------------------------------------
(* The shutdown, under every fault.                                        *)

\* Each pass over the channels starts at the first one.
PassStartsAtFirst ==
  phase \in {"down", "boot", "idle", "flush", "reconcileFlush", "shutdownFlush"} => cur = 1

\* A shutdown without a failure has released the active channels it has passed, and
\* has queued the removal of every record it has passed.
PassedAreReleased ==
  /\ phase = "shutdown" /\ ~failed =>
       /\ cur > 1 => queued /\ loaded
       /\ \A c \in 1 .. cur - 1 : (active[c] => ~Manual(c)) /\ entries[c] = Absent
  /\ phase = "shutdownFlush" /\ ~failed =>
       queued /\ loaded /\ \A c \in Channel : (active[c] => ~Manual(c)) /\ entries[c] = Absent

ReleaseInv ==
  /\ PassStartsAtFirst
  /\ PassedAreReleased
  /\ CleanShutdownReleases

\* A restore that timed out leaves its channel active, so that the shutdown after it
\* comes to a channel it does not restore, and fails.
AbortInv ==
  /\ PassStartsAtFirst
  /\ fatal => phase \in {"flush"} \cup Stopping
  /\ phase = "flush" /\ fatal => \E c \in Channel : active[c]
  /\ phase = "shutdown" /\ fatal /\ ~failed => \E c \in cur .. NumChannels : active[c]
  /\ phase = "shutdownFlush" /\ fatal => failed
=============================================================================
