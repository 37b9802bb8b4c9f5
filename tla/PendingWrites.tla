---------------------------- MODULE PendingWrites ----------------------------
(***************************************************************************)
(* The pending-writes sidecar (runtime/pending_writes.cpp): the file that  *)
(* names, for every output the program drives, the baseline to put back,   *)
(* and PendingWritesStore, its in-memory cache.  A record is abstracted to *)
(* the baseline it holds: reconciliation reads nothing else of it.         *)
(***************************************************************************)
EXTENDS FanHardware

VARIABLES
  sidecar,   \* sidecar[c]: the record a later process can read, or Absent
  intact,    \* FALSE while pending_writes.json exists but cannot be parsed
  entries,   \* PendingWritesStore::entries_
  dirty,     \* PendingWritesStore::dirty_
  loaded     \* PendingWritesStore::loaded_

storeVars == <<sidecar, intact, entries, dirty, loaded>>
fileVars  == <<sidecar, intact>>
cacheVars == <<entries, dirty, loaded>>

Records   == [Channel -> FanState \cup {Absent}]
NoRecords == [c \in Channel |-> Absent]

StoreTypeOK ==
  /\ sidecar \in Records
  /\ entries \in Records
  /\ intact \in BOOLEAN
  /\ dirty \in BOOLEAN
  /\ loaded \in BOOLEAN

\* A store object before its first Load, and one that has taken over entries.
Unloaded == entries' = NoRecords /\ dirty' = FALSE /\ loaded' = FALSE
Adopt(e) == entries' = e /\ dirty' = FALSE /\ loaded' = TRUE

StoreInit ==
  /\ sidecar = NoRecords
  /\ intact = TRUE
  /\ entries = NoRecords
  /\ dirty = FALSE
  /\ loaded = FALSE

\* ReadPendingWrites returns the entries, or throws.  A file whose existence cannot
\* be asked for, which reads as no entries, is left out.
ReadSucceeds == intact
ReadThrows   == ~intact \/ "read" \in Faults

\* What an operation that begins with "if (!loaded_) Load()" works on.
Loadable  == loaded \/ ReadSucceeds
LoadThrows == ~loaded /\ ReadThrows
Cached    == IF loaded THEN entries ELSE sidecar
WasDirty  == loaded /\ dirty

\* Mutant: every update waits for the flush at the end of the tick.
PersistAtFlush(e) ==
  /\ entries' = e /\ dirty' = TRUE /\ loaded' = TRUE
  /\ UNCHANGED fileVars

\* WriteJsonFileAtomic replaces the whole file or throws and leaves it alone.
Persist(e) ==
  /\ sidecar' = e
  /\ intact' = TRUE
  /\ Adopt(e)

PersistThrows(e) ==
  /\ "persist" \in Faults
  /\ entries' = e
  /\ loaded' = TRUE
  /\ dirty' = WasDirty
  /\ UNCHANGED fileVars

\* Upsert, by outcome.  Only a new record or a changed baseline is written at
\* once; any other update waits for Flush.
UpsertPersisted(c, b) ==
  /\ Loadable
  /\ Cached[c] # b
  /\ Persist([Cached EXCEPT ![c] = b])

UpsertDeferred(c, b) ==
  /\ Loadable
  /\ Cached[c] = b
  /\ entries' = Cached
  /\ loaded' = TRUE
  /\ dirty' = TRUE
  /\ UNCHANGED fileVars

UpsertThrows(c, b) ==
  \/ LoadThrows /\ UNCHANGED storeVars
  \/ /\ Loadable
     /\ Cached[c] # b
     /\ PersistThrows([Cached EXCEPT ![c] = b])

\* Mutant: a removal does not mark the cache dirty.
QueueRemoveUnmarked(c) ==
  /\ Loadable
  /\ entries' = [Cached EXCEPT ![c] = Absent]
  /\ loaded' = TRUE
  /\ dirty' = WasDirty
  /\ UNCHANGED fileVars

QueueRemove(c) ==
  /\ Loadable
  /\ entries' = [Cached EXCEPT ![c] = Absent]
  /\ loaded' = TRUE
  /\ dirty' = (WasDirty \/ Cached[c] # Absent)
  /\ UNCHANGED fileVars

QueueRemoveThrows == LoadThrows /\ UNCHANGED storeVars

\* What Flush does to the file, by outcome: written, nothing to write, failed.
FlushPersists == dirty /\ sidecar' = entries /\ intact' = TRUE
FlushIdle     == ~dirty /\ UNCHANGED fileVars
FlushThrows   == dirty /\ "persist" \in Faults /\ UNCHANGED fileVars

\* ReadPendingWritesTolerant on a read that throws: the file is renamed aside,
\* or the rename fails too and the file stays.
Quarantine ==
  /\ ReadThrows
  /\ \/ sidecar' = NoRecords /\ intact' = TRUE
     \/ UNCHANGED fileVars

DamageSidecar ==
  /\ "corrupt" \in Faults
  /\ intact
  /\ sidecar' = NoRecords
  /\ intact' = FALSE
  /\ UNCHANGED cacheVars
=============================================================================
