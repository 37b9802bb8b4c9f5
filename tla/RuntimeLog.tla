------------------------------ MODULE RuntimeLog ------------------------------
(***************************************************************************)
(* The CSV log of a long-running mode: RuntimeCsvLogger                    *)
(* (runtime/runtime_csv_archive.cpp) as the control, read and evidence     *)
(* loops drive it.  Rows go to an archive chunk and, when flushed, to the  *)
(* fixed mirror; a manifest beside the chunk and a live copy of it say how *)
(* many rows there are.  Another process may read every file at any time.  *)
(*                                                                         *)
(* A row is a count, a chunk is its place in the order of opening and its  *)
(* session_start at once.  Output streams may pass rows on early, keep     *)
(* them until flushed, and stay failed once they have failed.              *)
(***************************************************************************)
EXTENDS Naturals

CONSTANTS
  MaxChunks,         \* bound: chunks opened in a behaviour
  MaxRows,           \* bound: rows of a chunk
  FlushInterval,     \* csv_flush_interval_rows_
  ManifestInterval,  \* kRuntimeManifestUpdateIntervalRows
  LogFaults,         \* what can fail: a subset of LogFaultKinds
  Missing            \* no such file

LogFaultKinds == {"archive", "mirror", "manifest", "open", "remove"}

ASSUME LogAssumption ==
  /\ {MaxChunks, FlushInterval, ManifestInterval} \subseteq Nat \ {0}
  /\ MaxRows \in Nat
  /\ LogFaults \subseteq LogFaultKinds

\* A value of its own: neither a row count nor a manifest.
ASSUME MissingAssumption == Missing \notin Nat

Chunk    == 1 .. MaxChunks
Live     == MaxChunks + 1      \* the path of the live manifest
Path     == Chunk \cup {Live}
Rows     == 0 .. MaxRows
Manifest == [chunk : Chunk, status : {"running", "rotated", "completed"}, rows : Rows]

VARIABLES
  csv,        \* rows on disk of each archive chunk, or Missing
  manifest,   \* the manifest at each path, or Missing
  mirror,     \* the fixed mirror: a chunk and how many of its rows it holds
  old,        \* chunks past log_retain_days
  hurt,       \* chunks whose archive stream has failed (history)
  phase,      \* what the process is about to do
  chunk,      \* the chunk opened last, 0 before the first
  rows,       \* row_count_
  flushed,    \* row_count_ at the last complete flush
  badArchive, \* the archive stream has failed
  badMirror,  \* the mirror stream has failed
  ending,     \* the status CloseActiveChunk was called with
  failing     \* csv_write_failure_active of the loop

diskVars == <<csv, manifest, mirror>>
rowVars  == <<rows, flushed, badArchive, badMirror>>
procVars == <<phase, chunk, rowVars, ending, failing>>
logVars  == <<diskVars, old, hurt, procVars>>

\* The chunk c is open in the logger.
Held(c) == phase \in {"open", "flushed", "sealed"} /\ c = chunk

Phases ==
  {"down",      \* no process
   "open",      \* both streams are open
   "flushed",   \* CloseActiveChunk: flushed, the manifest comes next
   "sealed",    \* CloseActiveChunk: manifest written, the streams close next
   "opening",   \* OpenNewChunk has closed the previous chunk
   "closed",    \* a chunk could not be opened: the loop goes on without one
   "dropping"}  \* a tick has gone by without its row

LogTypeOK ==
  /\ csv \in [Chunk -> Rows \cup {Missing}]
  /\ manifest \in [Path -> Manifest \cup {Missing}]
  /\ mirror \in [chunk : 0 .. MaxChunks, rows : Rows]
  /\ old \subseteq Chunk /\ hurt \subseteq Chunk
  /\ phase \in Phases
  /\ chunk \in 0 .. MaxChunks
  /\ rows \in Rows /\ flushed \in 0 .. rows
  /\ {badArchive, badMirror, failing} \subseteq BOOLEAN
  /\ ending \in {"rotated", "completed"}

LogInit ==
  /\ csv = [c \in Chunk |-> Missing]
  /\ manifest = [p \in Path |-> Missing]
  /\ mirror = [chunk |-> 0, rows |-> 0]
  /\ old = {} /\ hurt = {}
  /\ phase = "down" /\ chunk = 0
  /\ rows = 0 /\ flushed = 0
  /\ badArchive = FALSE /\ badMirror = FALSE
  /\ ending = "completed" /\ failing = FALSE

-----------------------------------------------------------------------------
(* The streams.  A logger state s is what a flush works on: the rows       *)
(* appended, the rows flushed, and how many rows archive and mirror hold   *)
(* on disk.                                                                *)

Streams ==
  [rows |-> rows, flushed |-> flushed, disk |-> csv[chunk], copied |-> mirror.rows,
   badArchive |-> badArchive, badMirror |-> badMirror]

Good(s) == ~s.badArchive /\ ~s.badMirror

\* The ways a stream that fails while it writes can have written a part.
Partly(from, to) == {n \in Rows : from <= n /\ n <= to}

FlushArchive(s) ==
  IF s.badArchive THEN {s}
  ELSE {[s EXCEPT !.disk = s.rows]}
       \cup (IF "archive" \in LogFaults
             THEN {[s EXCEPT !.disk = n, !.badArchive = TRUE] : n \in Partly(s.disk, s.rows)}
             ELSE {})

FlushMirror(s) ==
  IF s.badMirror THEN {s}
  ELSE {[s EXCEPT !.copied = s.rows, !.flushed = s.rows]}
       \cup (IF "mirror" \in LogFaults
             THEN {[s EXCEPT !.copied = n, !.badMirror = TRUE] : n \in Partly(s.copied, s.rows)}
             ELSE {})

\* FlushStreams: the archive first, and the mirror only after it.
Flush(s) ==
  UNION {IF a.badArchive THEN {a} ELSE FlushMirror(a) : a \in FlushArchive(s)}

\* The files are left as s has them.
SetStreams(s) ==
  /\ rows' = s.rows /\ flushed' = s.flushed
  /\ badArchive' = s.badArchive /\ badMirror' = s.badMirror
  /\ csv' = [csv EXCEPT ![chunk] = s.disk]
  /\ mirror' = [mirror EXCEPT !.rows = s.copied]
  /\ hurt' = IF s.badArchive THEN hurt \cup {chunk} ELSE hurt
  /\ old' = IF s.disk > csv[chunk] THEN old \ {chunk} ELSE old

\* WriteManifest: both copies, unless a write fails.
Writes(c) == IF "manifest" \in LogFaults THEN SUBSET {c, Live} ELSE {{c, Live}}

Stamped(paths, c, status, n) ==
  [p \in Path |-> IF p \in paths THEN [chunk |-> c, status |-> status, rows |-> n]
                  ELSE manifest[p]]

-----------------------------------------------------------------------------
(* Rows.                                                                   *)

ManifestDue(n) == n % ManifestInterval = 0

\* The logger states WriteRow can come to; a manifest that claims to be running
\* is written only after everything it counts has been flushed.
Appended ==
  {[Streams EXCEPT !.rows = rows + 1, !.disk = n] : n \in Partly(csv[chunk], rows + 1)}

\* Mutant: the manifest does not wait for the flush.
FlushAtInterval(s) == s.rows - s.flushed >= FlushInterval

FlushIsDue(s) == s.rows - s.flushed >= FlushInterval \/ ManifestDue(s.rows)

AfterAppend == UNION {IF FlushIsDue(s) THEN Flush(s) ELSE {s} : s \in Appended}

\* WriteRow takes the row, and the loop notes whether all of it went well.
WriteRow ==
  /\ phase = "open" /\ ~badArchive /\ rows < MaxRows
  /\ \E s \in AfterAppend :
       /\ SetStreams(s)
       /\ IF ManifestDue(s.rows) /\ Good(s)
          THEN \E W \in Writes(chunk) :
                 /\ manifest' = Stamped(W, chunk, "running", s.rows)
                 /\ failing' = (W # {chunk, Live})
          ELSE /\ manifest' = manifest
               /\ failing' = (FlushIsDue(s) /\ ~Good(s))
  /\ UNCHANGED <<phase, chunk, ending>>

\* The archive stream fails, or has failed before, and the row is not counted.
LoseRow ==
  /\ phase = "open"
  /\ badArchive \/ "archive" \in LogFaults
  /\ badArchive' = TRUE /\ failing' = TRUE
  /\ hurt' = hurt \cup {chunk}
  /\ UNCHANGED <<diskVars, old, phase, chunk, rows, flushed, badMirror, ending>>

-----------------------------------------------------------------------------
(* Chunks.                                                                 *)

\* The logger has no stream left, and no count of rows.
NoStreams ==
  /\ rows' = 0 /\ flushed' = 0
  /\ badArchive' = FALSE /\ badMirror' = FALSE
  /\ ending' = "completed"

\* The process has ended.
Gone ==
  /\ phase' = "down" /\ failing' = FALSE
  /\ NoStreams

\* Mutant: the chunk is sealed before it is flushed.
BeginCloseUnflushed(status) ==
  /\ phase = "open"
  /\ phase' = "flushed" /\ ending' = status
  /\ UNCHANGED <<diskVars, rowVars, old, hurt, chunk, failing>>

\* CloseActiveChunk begins: the flush, whose failure nobody looks at.
BeginClose(status) ==
  /\ phase = "open"
  /\ \E s \in Flush(Streams) : SetStreams(s)
  /\ phase' = "flushed" /\ ending' = status
  /\ UNCHANGED <<manifest, chunk, failing>>

Seal ==
  /\ phase = "flushed"
  /\ \E W \in Writes(chunk) : manifest' = Stamped(W, chunk, ending, rows)
  /\ phase' = "sealed"
  /\ UNCHANGED <<csv, mirror, old, hurt, chunk, rowVars, ending, failing>>

\* Closing a stream writes what it still holds.
CloseStreams ==
  /\ phase = "sealed"
  /\ \E n \in IF badArchive THEN Partly(csv[chunk], rows) ELSE {rows} :
       csv' = [csv EXCEPT ![chunk] = n]
  /\ IF ending = "rotated"
     THEN phase' = "opening" /\ NoStreams /\ UNCHANGED failing
     ELSE Gone
  /\ UNCHANGED <<manifest, mirror, old, hurt, chunk>>

\* PruneOldArchives from the chunk c: every other old chunk goes, unless it cannot
\* be removed.  The manifest goes after its chunk, or stays behind alone for good.
Prunable(c) == {d \in old : d # c /\ csv[d] # Missing}

Removals(D) == IF "remove" \in LogFaults THEN SUBSET D ELSE {D}
Pruned(c)   == Removals(Prunable(c))

\* OpenNewChunk from where the previous chunk is closed, and the start of a
\* process: archive, mirror, prologue, manifest, retention.
OpenChunk ==
  /\ phase \in {"down", "opening"} /\ chunk < MaxChunks
  /\ LET c     == chunk + 1
         blank == [rows |-> 0, flushed |-> 0, disk |-> 0, copied |-> 0,
                   badArchive |-> FALSE, badMirror |-> FALSE]
     IN \E s \in Flush(blank), W \in Writes(c), gone \in Pruned(c) :
          /\ badArchive' = s.badArchive /\ badMirror' = s.badMirror
          /\ hurt' = IF s.badArchive THEN hurt \cup {c} ELSE hurt
          /\ csv' = [d \in Chunk |-> CASE d = c       -> 0
                                       [] d \in gone -> Missing
                                       [] OTHER      -> csv[d]]
          /\ \E bare \in Removals(gone) :
               manifest' = [p \in Path |-> IF p \in bare THEN Missing
                                           ELSE Stamped(W, c, "running", 0)[p]]
          /\ mirror' = [chunk |-> c, rows |-> 0]
          /\ chunk' = c
  /\ phase' = "open"
  /\ UNCHANGED <<old, rows, flushed, ending, failing>>

\* The directory, the archive or, with an empty archive left behind, the mirror
\* cannot be opened.  The loop goes on.
OpenFails ==
  /\ phase \in {"down", "opening"} /\ chunk < MaxChunks
  /\ "open" \in LogFaults
  /\ \/ csv' = csv
     \/ csv' = [csv EXCEPT ![chunk + 1] = 0]
  /\ chunk' = chunk + 1
  /\ phase' = "closed"
  /\ UNCHANGED <<manifest, mirror, old, hurt, rowVars, ending, failing>>

\* MaybeRotate finds the chunk log_rotate_hours old.
Rotate == chunk < MaxChunks /\ BeginClose("rotated")

\* A tick of the control or read loop that finds the logger closed.
DropRow ==
  /\ phase = "closed"
  /\ phase' = "dropping"
  /\ UNCHANGED <<diskVars, old, hurt, chunk, rowVars, ending, failing>>

\* The mode ends: the logger's destructor.
Finish == BeginClose("completed")

FinishClosed ==
  /\ phase \in {"closed", "dropping"}
  /\ Gone
  /\ UNCHANGED <<diskVars, old, hurt, chunk>>

\* The process dies at any step; rows the streams still held are lost.
Crash ==
  /\ phase # "down"
  /\ Gone
  /\ UNCHANGED <<diskVars, old, hurt, chunk>>

\* Time passes: a chunk that nobody has written to for long is old.
Age ==
  /\ \E c \in Chunk \ old : csv[c] # Missing /\ old' = old \cup {c}
  /\ UNCHANGED <<diskVars, hurt, procVars>>

LogNext ==
  \/ WriteRow \/ LoseRow \/ DropRow \/ Rotate \/ Finish \/ FinishClosed
  \/ Seal \/ CloseStreams \/ OpenChunk \/ OpenFails \/ Crash \/ Age

LogSpec == LogInit /\ [][LogNext]_logVars

-----------------------------------------------------------------------------
(* Properties.                                                             *)

\* A manifest that says "running" never declares a row that is not on disk: a
\* reader may trust it, also after a crash, a failed flush or a failed manifest.
RunningManifestIsCovered ==
  \A p \in Path :
    manifest[p] # Missing /\ manifest[p].status = "running" =>
      LET c == manifest[p].chunk
      IN csv[c] # Missing => manifest[p].rows <= csv[c]
=============================================================================
