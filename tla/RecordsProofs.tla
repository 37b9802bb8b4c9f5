----------------------------- MODULE RecordsProofs -----------------------------
(***************************************************************************)
(* What the records of a runtime home say is true, for any number of       *)
(* chunks and rows, any flush and manifest interval, and under every fault. *)
(*                                                                         *)
(* Manifest and archive meet in the flush: a row count goes into a running *)
(* manifest only after a flush that left both streams good, and such a     *)
(* flush has written every row.  The invariant adds what keeps this true   *)
(* later on: the archive of the open chunk never holds more rows than were *)
(* counted, and no manifest speaks of a chunk that is still to come.       *)
(*                                                                         *)
(* The analyzer reads the same files at any time.  What makes its runs      *)
(* complete is that a manifest with a final status is written only once    *)
(* the chunk is settled: its archive gets no other row than those a good   *)
(* stream has written already.                                             *)
(*                                                                         *)
(* The event log and its report are apart from both.                       *)
(***************************************************************************)
EXTENDS Analyzer, EventLog, WellFoundedInduction, TLAPS

\* The logger as FlushStreams finds it and leaves it.
LoggerState ==
  [rows : Rows, flushed : Rows, disk : Rows, copied : Rows,
   badArchive : BOOLEAN, badMirror : BOOLEAN]

Sound(s) == s \in LoggerState /\ s.flushed <= s.rows /\ s.disk <= s.rows

\* The archive of the open chunk is there, with no more rows than were counted.
OpenChunkCounted ==
  phase \in {"open", "flushed", "sealed"} =>
    chunk \in Chunk /\ csv[chunk] \in Rows /\ csv[chunk] <= rows

NoManifestAhead ==
  \A p \in Path : manifest[p] # Missing => manifest[p].chunk <= chunk

ManifestInv ==
  LogTypeOK /\ OpenChunkCounted /\ NoManifestAhead /\ RunningManifestIsCovered

-----------------------------------------------------------------------------
(* The streams.                                                            *)

\* Writing the archive keeps the counts and takes no row off the disk; if it does
\* not fail, every row is there.
LEMMA FlushArchiveKeeps ==
  ASSUME NEW s, Sound(s), NEW t \in FlushArchive(s)
  PROVE  /\ Sound(t) /\ t.rows = s.rows /\ s.disk <= t.disk
         /\ ~t.badArchive => t.disk = t.rows
<1>1. CASE s.badArchive
  BY <1>1, LogAssumption DEF Sound, LoggerState, FlushArchive, Rows
<1>2. CASE ~s.badArchive /\ t = [s EXCEPT !.disk = s.rows]
  BY <1>2, LogAssumption DEF Sound, LoggerState, Rows
<1>3. CASE \E n \in Partly(s.disk, s.rows) : t = [s EXCEPT !.disk = n, !.badArchive = TRUE]
  BY <1>3, LogAssumption DEF Sound, LoggerState, Partly, Rows
<1> QED BY <1>1, <1>2, <1>3 DEF FlushArchive

\* Writing the mirror leaves the archive as it is.
LEMMA FlushMirrorKeeps ==
  ASSUME NEW s, Sound(s), NEW t \in FlushMirror(s)
  PROVE  Sound(t) /\ t.rows = s.rows /\ t.disk = s.disk /\ t.badArchive = s.badArchive
<1>1. CASE s.badMirror
  BY <1>1 DEF FlushMirror
<1>2. CASE ~s.badMirror /\ t = [s EXCEPT !.copied = s.rows, !.flushed = s.rows]
  <2>1. t = [rows |-> s.rows, flushed |-> s.rows, disk |-> s.disk, copied |-> s.rows,
             badArchive |-> s.badArchive, badMirror |-> s.badMirror]
    BY <1>2 DEF Sound, LoggerState
  <2> QED BY <2>1, LogAssumption DEF Sound, LoggerState, Rows
<1>3. CASE \E n \in Partly(s.copied, s.rows) : t = [s EXCEPT !.copied = n, !.badMirror = TRUE]
  <2>1. PICK n \in Rows : t = [s EXCEPT !.copied = n, !.badMirror = TRUE]
    BY <1>3 DEF Partly
  <2>2. t = [rows |-> s.rows, flushed |-> s.flushed, disk |-> s.disk, copied |-> n,
             badArchive |-> s.badArchive, badMirror |-> TRUE]
    BY <2>1 DEF Sound, LoggerState
  <2> QED BY <2>2 DEF Sound, LoggerState
<1> QED BY <1>1, <1>2, <1>3 DEF FlushMirror

\* FlushStreams: the same of both, one after the other.
LEMMA FlushKeeps ==
  ASSUME NEW s, Sound(s), NEW t \in Flush(s)
  PROVE  /\ Sound(t) /\ t.rows = s.rows /\ s.disk <= t.disk
         /\ ~t.badArchive => t.disk = t.rows
<1>1. PICK a \in FlushArchive(s) : t \in IF a.badArchive THEN {a} ELSE FlushMirror(a)
  BY DEF Flush
<1>2. /\ Sound(a) /\ a.rows = s.rows /\ s.disk <= a.disk
      /\ ~a.badArchive => a.disk = a.rows
  BY FlushArchiveKeeps
<1>3. CASE a.badArchive
  BY <1>1, <1>2, <1>3
<1>4. CASE ~a.badArchive
  <2>1. Sound(t) /\ t.rows = a.rows /\ t.disk = a.disk /\ t.badArchive = a.badArchive
    BY <1>1, <1>2, <1>4, FlushMirrorKeeps
  <2> QED BY <2>1, <1>2, <1>4
<1> QED BY <1>3, <1>4

\* What is flushed from the state variables.
LEMMA StreamsSound ==
  ASSUME LogTypeOK, OpenChunkCounted, phase = "open"
  PROVE  Sound(Streams) /\ Streams.disk = csv[chunk] /\ Streams.rows = rows
BY LogAssumption DEF LogTypeOK, OpenChunkCounted, Sound, LoggerState, Streams, Rows

\* WriteRow counts one row more, and a manifest is due only when all of them have
\* been flushed.
LEMMA AfterAppendKeeps ==
  ASSUME LogTypeOK, OpenChunkCounted, phase = "open", rows < MaxRows,
         NEW t \in AfterAppend
  PROVE  /\ Sound(t) /\ t.rows = rows + 1 /\ csv[chunk] <= t.disk
         /\ ManifestDue(t.rows) /\ Good(t) => t.disk = t.rows
<1>1. PICK s \in Appended : t \in IF FlushIsDue(s) THEN Flush(s) ELSE {s}
  BY DEF AfterAppend
<1>2. PICK n \in Partly(csv[chunk], rows + 1) :
        s = [Streams EXCEPT !.rows = rows + 1, !.disk = n]
  BY DEF Appended
<1>3. Sound(s) /\ s.rows = rows + 1 /\ csv[chunk] <= s.disk
  <2>1. s = [rows |-> rows + 1, flushed |-> flushed, disk |-> n, copied |-> mirror.rows,
             badArchive |-> badArchive, badMirror |-> badMirror]
    BY <1>2 DEF Streams
  <2>2. rows + 1 \in Rows /\ flushed \in Rows /\ flushed <= rows + 1
    BY LogAssumption DEF LogTypeOK, Rows
  <2>3. n \in Rows /\ csv[chunk] <= n /\ n <= rows + 1
    BY <1>2 DEF Partly
  <2>4. mirror.rows \in Rows /\ badArchive \in BOOLEAN /\ badMirror \in BOOLEAN
    BY DEF LogTypeOK
  <2> QED BY <2>1, <2>2, <2>3, <2>4 DEF Sound, LoggerState
<1>4. CASE FlushIsDue(s)
  <2>1. /\ Sound(t) /\ t.rows = s.rows /\ s.disk <= t.disk
        /\ ~t.badArchive => t.disk = t.rows
    BY <1>1, <1>3, <1>4, FlushKeeps
  <2>2. csv[chunk] \in Nat /\ s.disk \in Nat /\ t.disk \in Nat
    BY <1>3, <2>1 DEF Sound, LoggerState, Rows, OpenChunkCounted
  <2> QED BY <2>1, <2>2, <1>3 DEF Good
<1>5. CASE ~FlushIsDue(s)
  BY <1>1, <1>3, <1>5 DEF FlushIsDue
<1> QED BY <1>4, <1>5

-----------------------------------------------------------------------------
(* The steps.                                                              *)

\* What a flush does to the files and the counts of the open chunk.
LEMMA SetStreamsKeeps ==
  ASSUME LogTypeOK, OpenChunkCounted, chunk \in Chunk, NEW s, Sound(s), SetStreams(s)
  PROVE  /\ csv' \in [Chunk -> Rows \cup {Missing}]
         /\ csv'[chunk] = s.disk /\ \A c \in Chunk \ {chunk} : csv'[c] = csv[c]
         /\ mirror' \in [chunk : 0 .. MaxChunks, rows : Rows]
         /\ old' \subseteq Chunk /\ hurt' \subseteq Chunk
         /\ rows' = s.rows /\ rows' \in Rows /\ flushed' \in 0 .. rows'
         /\ badArchive' \in BOOLEAN /\ badMirror' \in BOOLEAN
<1>1. /\ s.rows \in Rows /\ s.flushed \in 0 .. s.rows /\ s.disk \in Rows /\ s.copied \in Rows
      /\ s.badArchive \in BOOLEAN /\ s.badMirror \in BOOLEAN
  BY LogAssumption DEF Sound, LoggerState, Rows
<1>2. csv' = [csv EXCEPT ![chunk] = s.disk] /\ csv \in [Chunk -> Rows \cup {Missing}]
  BY DEF SetStreams, LogTypeOK
<1>3. mirror' \in [chunk : 0 .. MaxChunks, rows : Rows]
  BY <1>1 DEF SetStreams, LogTypeOK
<1>4. old' \subseteq Chunk /\ hurt' \subseteq Chunk
  BY DEF SetStreams, LogTypeOK
<1>5. /\ csv' \in [Chunk -> Rows \cup {Missing}]
      /\ csv'[chunk] = s.disk /\ \A c \in Chunk \ {chunk} : csv'[c] = csv[c]
  BY <1>1, <1>2
<1> QED BY <1>1, <1>3, <1>4, <1>5 DEF SetStreams

\* Stamping some manifests of an open chunk leaves the others alone.
LEMMA StampedKeeps ==
  ASSUME LogTypeOK, NEW W \in SUBSET Path, NEW c \in Chunk, NEW n \in Rows,
         NEW st \in {"running", "rotated", "completed"}
  PROVE  /\ Stamped(W, c, st, n) \in [Path -> Manifest \cup {Missing}]
         /\ \A p \in Path :
              Stamped(W, c, st, n)[p] \in {manifest[p], [chunk |-> c, status |-> st, rows |-> n]}
BY DEF Stamped, LogTypeOK, Manifest

LEMMA WritesArePaths ==
  ASSUME NEW c \in Chunk, NEW W \in Writes(c)
  PROVE  W \in SUBSET Path
BY DEF Writes, Path

THEOREM ManifestInvInit == LogInit => ManifestInv
<1> SUFFICES ASSUME LogInit PROVE ManifestInv
  OBVIOUS
<1>1. LogTypeOK
  <2>1. 0 \in Rows /\ 0 \in 0 .. MaxChunks /\ 0 \in 0 .. rows
    BY LogAssumption DEF LogInit, Rows
  <2>2. csv \in [Chunk -> Rows \cup {Missing}] /\ manifest \in [Path -> Manifest \cup {Missing}]
    BY DEF LogInit
  <2>3. mirror \in [chunk : 0 .. MaxChunks, rows : Rows]
    BY <2>1 DEF LogInit
  <2>4. phase \in Phases
    BY DEF LogInit, Phases
  <2> QED BY <2>1, <2>2, <2>3, <2>4 DEF LogInit, LogTypeOK
<1>2. OpenChunkCounted /\ NoManifestAhead /\ RunningManifestIsCovered
  BY DEF LogInit, OpenChunkCounted, NoManifestAhead, RunningManifestIsCovered
<1> QED BY <1>1, <1>2 DEF ManifestInv

\* A step that leaves files, phase and chunk alone keeps everything but the types.
LEMMA ManifestInvStutters ==
  ASSUME ManifestInv, UNCHANGED <<csv, manifest, phase, chunk, rows>>, LogTypeOK'
  PROVE  ManifestInv'
BY DEF ManifestInv, OpenChunkCounted, NoManifestAhead, RunningManifestIsCovered

\* A step to a place without an open chunk that writes no file.
LEMMA ManifestInvLeaves ==
  ASSUME ManifestInv, UNCHANGED <<csv, manifest, chunk>>, LogTypeOK',
         phase' \notin {"open", "flushed", "sealed"}
  PROVE  ManifestInv'
BY DEF ManifestInv, OpenChunkCounted, NoManifestAhead, RunningManifestIsCovered

\* Rows that are added to one chunk leave every running manifest covered.
LEMMA MoreRowsCover ==
  ASSUME LogTypeOK, RunningManifestIsCovered, NEW c \in Chunk, csv[c] \in Rows,
         csv'[c] \in Rows, csv[c] <= csv'[c], \A d \in Chunk \ {c} : csv'[d] = csv[d],
         UNCHANGED manifest
  PROVE  RunningManifestIsCovered'
<1> SUFFICES ASSUME NEW p \in Path, manifest[p] # Missing, manifest[p].status = "running",
                    csv'[manifest[p].chunk] # Missing
             PROVE  manifest[p].rows <= csv'[manifest[p].chunk]
  BY DEF RunningManifestIsCovered
<1>1. manifest[p] \in Manifest
  BY DEF LogTypeOK
<1>2. CASE manifest[p].chunk = c
  <2>1. csv[c] # Missing
    BY MissingAssumption, LogAssumption DEF Rows
  <2>2. manifest[p].rows <= csv[c]
    BY <1>2, <2>1 DEF RunningManifestIsCovered
  <2> QED BY <1>1, <1>2, <2>2, LogAssumption DEF Manifest, Rows
<1>3. CASE manifest[p].chunk # c
  BY <1>1, <1>3 DEF RunningManifestIsCovered, Manifest
<1> QED BY <1>2, <1>3

\* A row is appended, flushed or not, and counted in a manifest or not.
LEMMA WriteRowKeeps ==
  ASSUME ManifestInv, WriteRow
  PROVE  ManifestInv'
<1> USE DEF ManifestInv
<1>1. PICK s \in AfterAppend :
        /\ SetStreams(s)
        /\ IF ManifestDue(s.rows) /\ Good(s)
           THEN \E W \in Writes(chunk) :
                  /\ manifest' = Stamped(W, chunk, "running", s.rows)
                  /\ failing' = (W # {chunk, Live})
           ELSE /\ manifest' = manifest
                /\ failing' = (FlushIsDue(s) /\ ~Good(s))
  BY DEF WriteRow
<1>2. /\ Sound(s) /\ s.rows = rows + 1 /\ csv[chunk] <= s.disk
      /\ ManifestDue(s.rows) /\ Good(s) => s.disk = s.rows
  BY AfterAppendKeeps DEF WriteRow
<1>3. chunk \in Chunk /\ csv[chunk] \in Rows /\ csv[chunk] <= rows
  BY DEF OpenChunkCounted, WriteRow
<1>4. /\ csv' \in [Chunk -> Rows \cup {Missing}]
      /\ csv'[chunk] = s.disk /\ \A c \in Chunk \ {chunk} : csv'[c] = csv[c]
      /\ mirror' \in [chunk : 0 .. MaxChunks, rows : Rows]
      /\ old' \subseteq Chunk /\ hurt' \subseteq Chunk
      /\ rows' = s.rows /\ rows' \in Rows /\ flushed' \in 0 .. rows'
      /\ badArchive' \in BOOLEAN /\ badMirror' \in BOOLEAN
  BY <1>1, <1>2, <1>3, SetStreamsKeeps
<1>5. s.disk \in Rows /\ s.disk <= s.rows /\ s.rows \in Rows
  BY <1>2 DEF Sound, LoggerState
<1>6. /\ manifest' \in [Path -> Manifest \cup {Missing}]
      /\ \A p \in Path : \/ manifest'[p] = manifest[p]
                         \/ /\ manifest'[p] = [chunk |-> chunk, status |-> "running",
                                                rows |-> s.rows]
                            /\ s.disk = s.rows
  <2>1. CASE ManifestDue(s.rows) /\ Good(s)
    <3>1. PICK W \in Writes(chunk) : manifest' = Stamped(W, chunk, "running", s.rows)
      BY <1>1, <2>1
    <3>2. W \in SUBSET Path
      BY <1>3, WritesArePaths
    <3>3. /\ Stamped(W, chunk, "running", s.rows) \in [Path -> Manifest \cup {Missing}]
          /\ \A p \in Path : Stamped(W, chunk, "running", s.rows)[p] \in
                {manifest[p], [chunk |-> chunk, status |-> "running", rows |-> s.rows]}
      BY <3>2, <1>3, <1>5, StampedKeeps
    <3> QED BY <3>1, <3>3, <2>1, <1>2
  <2>2. CASE ~(ManifestDue(s.rows) /\ Good(s))
    BY <1>1, <2>2 DEF LogTypeOK
  <2> QED BY <2>1, <2>2
<1>7. LogTypeOK'
  <2>1. phase' \in Phases /\ chunk' \in 0 .. MaxChunks /\ ending' \in {"rotated", "completed"}
    BY DEF WriteRow, LogTypeOK
  <2>2. failing' \in BOOLEAN
    BY <1>1
  <2> QED BY <2>1, <2>2, <1>4, <1>6 DEF LogTypeOK
<1>8. OpenChunkCounted'
  BY <1>3, <1>4, <1>5 DEF OpenChunkCounted, WriteRow
<1>9. NoManifestAhead'
  BY <1>3, <1>6 DEF NoManifestAhead, WriteRow, Chunk
<1>10. RunningManifestIsCovered'
  <2> SUFFICES ASSUME NEW p \in Path, manifest'[p] # Missing, manifest'[p].status = "running",
                      csv'[manifest'[p].chunk] # Missing
               PROVE  manifest'[p].rows <= csv'[manifest'[p].chunk]
    BY DEF RunningManifestIsCovered
  <2>1. CASE manifest'[p] = manifest[p]
    <3>1. manifest[p] \in Manifest
      BY <2>1 DEF LogTypeOK
    <3>2. CASE manifest[p].chunk = chunk
      <4>1. csv[chunk] # Missing
        BY <1>3, MissingAssumption, LogAssumption DEF Rows
      <4>2. manifest[p].rows <= csv[chunk]
        BY <2>1, <3>2, <4>1 DEF RunningManifestIsCovered
      <4> QED BY <2>1, <3>1, <3>2, <4>2, <1>2, <1>3, <1>4, <1>5 DEF Manifest, Rows
    <3>3. CASE manifest[p].chunk # chunk
      BY <2>1, <3>1, <3>3, <1>4 DEF RunningManifestIsCovered, Manifest
    <3> QED BY <3>2, <3>3
  <2>2. CASE /\ manifest'[p] = [chunk |-> chunk, status |-> "running", rows |-> s.rows]
             /\ s.disk = s.rows
    BY <2>2, <1>4, <1>5 DEF Rows
  <2> QED BY <2>1, <2>2, <1>6
<1> QED BY <1>7, <1>8, <1>9, <1>10

\* CloseActiveChunk flushes what there is.
LEMMA BeginCloseKeeps ==
  ASSUME ManifestInv, NEW st \in {"rotated", "completed"}, BeginClose(st)
  PROVE  ManifestInv'
<1> USE DEF ManifestInv
<1>1. PICK s \in Flush(Streams) : SetStreams(s)
  BY DEF BeginClose
<1>2. Sound(Streams) /\ Streams.disk = csv[chunk] /\ Streams.rows = rows
  BY StreamsSound DEF BeginClose
<1>3. Sound(s) /\ s.rows = rows /\ csv[chunk] <= s.disk
  BY <1>2, FlushKeeps
<1>4. chunk \in Chunk /\ csv[chunk] \in Rows /\ csv[chunk] <= rows
  BY DEF OpenChunkCounted, BeginClose
<1>5. /\ csv' \in [Chunk -> Rows \cup {Missing}]
      /\ csv'[chunk] = s.disk /\ \A c \in Chunk \ {chunk} : csv'[c] = csv[c]
      /\ mirror' \in [chunk : 0 .. MaxChunks, rows : Rows]
      /\ old' \subseteq Chunk /\ hurt' \subseteq Chunk
      /\ rows' = s.rows /\ rows' \in Rows /\ flushed' \in 0 .. rows'
      /\ badArchive' \in BOOLEAN /\ badMirror' \in BOOLEAN
  BY <1>1, <1>3, <1>4, SetStreamsKeeps
<1>6. s.disk \in Rows /\ s.disk <= s.rows
  BY <1>3 DEF Sound, LoggerState
<1>7. LogTypeOK'
  BY <1>5 DEF BeginClose, LogTypeOK, Phases
<1>8. OpenChunkCounted'
  BY <1>4, <1>5, <1>6 DEF OpenChunkCounted, BeginClose
<1>9. NoManifestAhead'
  BY DEF NoManifestAhead, BeginClose
<1>10. RunningManifestIsCovered'
  BY <1>3, <1>4, <1>5, <1>6, MoreRowsCover DEF BeginClose
<1> QED BY <1>7, <1>8, <1>9, <1>10

\* CloseActiveChunk stamps the manifest.
LEMMA SealKeeps ==
  ASSUME ManifestInv, Seal
  PROVE  ManifestInv'
<1> USE DEF ManifestInv
<1>1. PICK W \in Writes(chunk) : manifest' = Stamped(W, chunk, ending, rows)
  BY DEF Seal
<1>2. chunk \in Chunk /\ rows \in Rows /\ ending \in {"rotated", "completed"}
  BY DEF OpenChunkCounted, Seal, LogTypeOK
<1>3. W \in SUBSET Path
  BY <1>2, WritesArePaths
<1>4. /\ manifest' \in [Path -> Manifest \cup {Missing}]
      /\ \A p \in Path :
           manifest'[p] \in {manifest[p], [chunk |-> chunk, status |-> ending, rows |-> rows]}
  BY <1>1, <1>2, <1>3, StampedKeeps
<1>5. LogTypeOK'
  BY <1>4 DEF Seal, LogTypeOK, Phases, rowVars
<1>6. OpenChunkCounted'
  BY DEF OpenChunkCounted, Seal, rowVars
<1>7. NoManifestAhead'
  BY <1>2, <1>4 DEF NoManifestAhead, Seal, Chunk
<1>8. RunningManifestIsCovered'
  BY <1>2, <1>4 DEF RunningManifestIsCovered, Seal
<1> QED BY <1>5, <1>6, <1>7, <1>8

\* The streams close, and what they held is written.
LEMMA CloseStreamsKeeps ==
  ASSUME ManifestInv, CloseStreams
  PROVE  ManifestInv'
<1> USE DEF ManifestInv
<1>1. PICK n \in IF badArchive THEN Partly(csv[chunk], rows) ELSE {rows} :
        csv' = [csv EXCEPT ![chunk] = n]
  BY DEF CloseStreams
<1>2. chunk \in Chunk /\ csv[chunk] \in Rows /\ csv[chunk] <= rows /\ rows \in Rows
  BY DEF OpenChunkCounted, CloseStreams, LogTypeOK
<1>3. n \in Rows /\ csv[chunk] <= n
  BY <1>1, <1>2 DEF Partly
<1>4. /\ csv' \in [Chunk -> Rows \cup {Missing}]
      /\ csv'[chunk] = n /\ \A c \in Chunk \ {chunk} : csv'[c] = csv[c]
  BY <1>1, <1>2, <1>3 DEF LogTypeOK
<1>5. /\ phase' \in {"down", "opening"} /\ failing' \in BOOLEAN
      /\ rows' = 0 /\ flushed' = 0 /\ badArchive' = FALSE /\ badMirror' = FALSE
      /\ ending' = "completed"
  BY DEF CloseStreams, Gone, NoStreams, LogTypeOK
<1>6. LogTypeOK'
  <2>1. 0 \in Rows /\ 0 \in 0 .. 0
    BY LogAssumption DEF Rows
  <2>2. /\ manifest' \in [Path -> Manifest \cup {Missing}]
        /\ mirror' \in [chunk : 0 .. MaxChunks, rows : Rows]
        /\ old' \subseteq Chunk /\ hurt' \subseteq Chunk /\ chunk' \in 0 .. MaxChunks
    BY DEF CloseStreams, LogTypeOK
  <2>3. phase' \in Phases /\ ending' \in {"rotated", "completed"}
    BY <1>5 DEF Phases
  <2> QED BY <2>1, <2>2, <2>3, <1>4, <1>5 DEF LogTypeOK
<1>7. OpenChunkCounted'
  BY <1>5 DEF OpenChunkCounted
<1>8. NoManifestAhead'
  BY DEF NoManifestAhead, CloseStreams
<1>9. RunningManifestIsCovered'
  BY <1>2, <1>3, <1>4, MoreRowsCover DEF CloseStreams
<1> QED BY <1>6, <1>7, <1>8, <1>9

\* A chunk is opened over nothing, after retention.
LEMMA OpenChunkKeeps ==
  ASSUME ManifestInv, OpenChunk
  PROVE  ManifestInv'
<1> USE DEF ManifestInv
<1> DEFINE c     == chunk + 1
           blank == [rows |-> 0, flushed |-> 0, disk |-> 0, copied |-> 0,
                     badArchive |-> FALSE, badMirror |-> FALSE]
<1>1. PICK s \in Flush(blank), W \in Writes(c), gone \in Pruned(c) :
        /\ badArchive' = s.badArchive /\ badMirror' = s.badMirror
        /\ hurt' = IF s.badArchive THEN hurt \cup {c} ELSE hurt
        /\ csv' = [d \in Chunk |-> CASE d = c       -> 0
                                     [] d \in gone -> Missing
                                     [] OTHER      -> csv[d]]
        /\ \E bare \in Removals(gone) :
             manifest' = [p \in Path |-> IF p \in bare THEN Missing
                                         ELSE Stamped(W, c, "running", 0)[p]]
        /\ mirror' = [chunk |-> c, rows |-> 0]
        /\ chunk' = c
  BY DEF OpenChunk
<1>2. c \in Chunk /\ chunk \in 0 .. MaxChunks /\ 0 \in Rows
  BY LogAssumption DEF OpenChunk, LogTypeOK, Chunk, Rows
<1>3. Sound(s)
  <2>1. Sound(blank)
    BY <1>2 DEF Sound, LoggerState
  <2> HIDE DEF blank
  <2> QED BY <2>1, FlushKeeps
<1>4. gone \subseteq Chunk \ {c}
  BY DEF Pruned, Removals, Prunable, LogTypeOK
<1>5. W \in SUBSET Path
  BY <1>2, WritesArePaths
<1>6. /\ Stamped(W, c, "running", 0) \in [Path -> Manifest \cup {Missing}]
      /\ \A p \in Path : Stamped(W, c, "running", 0)[p] \in
            {manifest[p], [chunk |-> c, status |-> "running", rows |-> 0]}
  BY <1>2, <1>5, StampedKeeps
<1>7. /\ manifest' \in [Path -> Manifest \cup {Missing}]
      /\ \A p \in Path : manifest'[p] # Missing =>
           manifest'[p] \in {manifest[p], [chunk |-> c, status |-> "running", rows |-> 0]}
  BY <1>1, <1>6
<1>8. /\ csv' \in [Chunk -> Rows \cup {Missing}]
      /\ csv'[c] = 0
      /\ \A d \in Chunk \ {c} : csv'[d] \in {Missing, csv[d]}
  BY <1>1, <1>2, <1>4 DEF LogTypeOK
<1>9. /\ rows' = rows /\ flushed' = flushed /\ ending' = ending /\ failing' = failing
      /\ old' = old /\ phase' = "open"
  BY DEF OpenChunk
<1>10. LogTypeOK'
  <2>1. mirror' \in [chunk : 0 .. MaxChunks, rows : Rows] /\ chunk' \in 0 .. MaxChunks
    BY <1>1, <1>2 DEF Chunk
  <2>2. hurt' \subseteq Chunk
    BY <1>1, <1>2 DEF LogTypeOK
  <2>3. badArchive' \in BOOLEAN /\ badMirror' \in BOOLEAN
    BY <1>1, <1>3 DEF Sound, LoggerState
  <2> QED BY <1>7, <1>8, <1>9, <2>1, <2>2, <2>3 DEF LogTypeOK, Phases
<1>11. OpenChunkCounted'
  BY <1>1, <1>2, <1>8, <1>9 DEF OpenChunkCounted, LogTypeOK, Rows
<1>12. NoManifestAhead'
  <2> SUFFICES ASSUME NEW p \in Path, manifest'[p] # Missing
               PROVE  manifest'[p].chunk <= c
    BY <1>1 DEF NoManifestAhead
  <2>1. CASE manifest'[p] = manifest[p]
    <3>1. manifest[p].chunk <= chunk /\ manifest[p] \in Manifest
      BY <2>1, <1>7 DEF NoManifestAhead, LogTypeOK
    <3> QED BY <3>1, <2>1, <1>2 DEF Manifest, Chunk
  <2>2. CASE manifest'[p] = [chunk |-> c, status |-> "running", rows |-> 0]
    BY <2>2, <1>2 DEF Chunk
  <2> QED BY <2>1, <2>2, <1>7
<1>13. RunningManifestIsCovered'
  <2> SUFFICES ASSUME NEW p \in Path, manifest'[p] # Missing, manifest'[p].status = "running",
                      csv'[manifest'[p].chunk] # Missing
               PROVE  manifest'[p].rows <= csv'[manifest'[p].chunk]
    BY DEF RunningManifestIsCovered
  <2>1. CASE manifest'[p] = manifest[p]
    <3>1. manifest[p].chunk <= chunk /\ manifest[p] \in Manifest
      BY <2>1 DEF NoManifestAhead, LogTypeOK
    <3>2. manifest[p].chunk \in Chunk \ {c}
      BY <3>1, <1>2 DEF Manifest, Chunk
    <3>3. csv'[manifest[p].chunk] = csv[manifest[p].chunk]
      BY <3>2, <2>1, <1>8
    <3> QED BY <2>1, <3>3 DEF RunningManifestIsCovered
  <2>2. CASE manifest'[p] = [chunk |-> c, status |-> "running", rows |-> 0]
    BY <2>2, <1>8
  <2> QED BY <2>1, <2>2, <1>7
<1> QED BY <1>10, <1>11, <1>12, <1>13

\* A chunk that cannot be opened leaves an empty archive at most.
LEMMA OpenFailsKeeps ==
  ASSUME ManifestInv, OpenFails
  PROVE  ManifestInv'
<1> USE DEF ManifestInv
<1>1. chunk + 1 \in Chunk /\ chunk \in 0 .. MaxChunks /\ 0 \in Rows /\ chunk' = chunk + 1
  BY LogAssumption DEF OpenFails, LogTypeOK, Chunk, Rows
<1>2. csv' \in [Chunk -> Rows \cup {Missing}] /\ \A d \in Chunk \ {chunk + 1} : csv'[d] = csv[d]
  BY <1>1 DEF OpenFails, LogTypeOK
<1>3. LogTypeOK'
  BY <1>1, <1>2 DEF OpenFails, LogTypeOK, Phases, rowVars, Chunk
<1>4. OpenChunkCounted'
  BY DEF OpenFails, OpenChunkCounted
<1>5. NoManifestAhead'
  BY <1>1 DEF OpenFails, NoManifestAhead, LogTypeOK, Manifest, Chunk
<1>6. RunningManifestIsCovered'
  <2> SUFFICES ASSUME NEW p \in Path, manifest[p] # Missing, manifest[p].status = "running",
                      csv'[manifest[p].chunk] # Missing
               PROVE  manifest[p].rows <= csv'[manifest[p].chunk]
    BY DEF RunningManifestIsCovered, OpenFails
  <2>1. manifest[p].chunk <= chunk /\ manifest[p] \in Manifest
    BY DEF NoManifestAhead, LogTypeOK
  <2>2. manifest[p].chunk \in Chunk \ {chunk + 1}
    BY <2>1, <1>1 DEF Manifest, Chunk
  <2> QED BY <2>2, <1>2 DEF RunningManifestIsCovered
<1> QED BY <1>3, <1>4, <1>5, <1>6

-----------------------------------------------------------------------------
(* The theorems.                                                           *)

\* Every step keeps the invariant.
THEOREM ManifestInvNext == ManifestInv /\ [LogNext]_logVars => ManifestInv'
<1> SUFFICES ASSUME ManifestInv, [LogNext]_logVars PROVE ManifestInv'
  OBVIOUS
<1>0. LogTypeOK
  BY DEF ManifestInv
<1>1. CASE WriteRow
  BY <1>1, WriteRowKeeps
<1>2. CASE LoseRow
  <2>1. LogTypeOK'
    <3>1. hurt' \subseteq Chunk
      BY <1>2 DEF LoseRow, ManifestInv, OpenChunkCounted, LogTypeOK
    <3> QED BY <1>0, <1>2, <3>1 DEF LoseRow, LogTypeOK, diskVars
  <2> QED BY <1>2, <2>1, ManifestInvStutters DEF LoseRow, diskVars
<1>3. CASE DropRow
  <2>1. LogTypeOK'
    BY <1>0, <1>3 DEF DropRow, LogTypeOK, diskVars, rowVars, Phases
  <2> QED BY <1>3, <2>1, ManifestInvLeaves DEF DropRow, diskVars
<1>4. CASE Rotate \/ Finish
  BY <1>4, BeginCloseKeeps DEF Rotate, Finish
<1>5. CASE FinishClosed \/ Crash
  <2>1. Gone /\ UNCHANGED <<diskVars, old, hurt, chunk>>
    BY <1>5 DEF FinishClosed, Crash
  <2>2. LogTypeOK'
    <3>1. 0 \in Rows /\ 0 \in 0 .. 0
      BY LogAssumption DEF Rows
    <3> QED BY <1>0, <2>1, <3>1 DEF Gone, NoStreams, LogTypeOK, diskVars, Phases
  <2> QED BY <2>1, <2>2, ManifestInvLeaves DEF Gone, diskVars
<1>6. CASE Seal
  BY <1>6, SealKeeps
<1>7. CASE CloseStreams
  BY <1>7, CloseStreamsKeeps
<1>8. CASE OpenChunk
  BY <1>8, OpenChunkKeeps
<1>9. CASE OpenFails
  BY <1>9, OpenFailsKeeps
<1>10. CASE Age
  <2>1. LogTypeOK'
    BY <1>0, <1>10 DEF Age, LogTypeOK, diskVars, procVars, rowVars
  <2> QED BY <1>10, <2>1, ManifestInvStutters DEF Age, diskVars, procVars, rowVars
<1>11. CASE UNCHANGED logVars
  <2>1. LogTypeOK'
    BY <1>0, <1>11 DEF LogTypeOK, logVars, diskVars, procVars, rowVars
  <2> QED BY <1>11, <2>1, ManifestInvStutters DEF logVars, diskVars, procVars, rowVars
<1> QED
  BY <1>1, <1>2, <1>3, <1>4, <1>5, <1>6, <1>7, <1>8, <1>9, <1>10, <1>11 DEF LogNext

\* The log's variables keep their types: no count runs past the rows, and no file
\* speaks of a chunk that does not exist.
THEOREM LogTypeCorrect == LogSpec => []LogTypeOK
<1>1. ManifestInv => LogTypeOK
  BY DEF ManifestInv
<1> QED BY <1>1, ManifestInvInit, ManifestInvNext, PTL DEF LogSpec

\* A reader may trust a running manifest: the rows it declares are in the archive.
THEOREM ManifestsAreCovered == LogSpec => []RunningManifestIsCovered
<1>1. ManifestInv => RunningManifestIsCovered
  BY DEF ManifestInv
<1> QED BY <1>1, ManifestInvInit, ManifestInvNext, PTL DEF LogSpec

-----------------------------------------------------------------------------
(* The analyzer.                                                           *)

\* Nothing more is written to the archive of the chunk.
Settled(c) == c < chunk \/ (c = chunk /\ phase \notin {"open", "flushed"})

\* A failed archive stream is noted, and a good one has written all when it closes.
ClosesComplete ==
  /\ phase \in {"open", "flushed", "sealed"} /\ badArchive => chunk \in hurt
  /\ phase \in {"flushed", "sealed"} /\ chunk \notin hurt => csv[chunk] = rows

\* A final status speaks of a settled chunk.
Final(r) == r.chunk <= chunk /\ (r.status # "running" => Settled(r.chunk))

FinalsAreSettled ==
  /\ \A p \in Path : manifest[p] # Missing => Final(manifest[p])
  /\ read # Missing => Final(read)
  /\ \A r \in db : Final(r)

\* What is being ingested, by an ingest that has begun, is not yet known.
ReadIsUnknown ==
  read # Missing =>
    /\ kind \in {"ingest", "force"} /\ todo # {}
    /\ Known(This, read) = {}

RecordsInv ==
  /\ TypeOK /\ ManifestInv
  /\ ClosesComplete /\ FinalsAreSettled
  /\ EndedRunsAreComplete

LEMMA MinIsMember ==
  ASSUME NEW S \in SUBSET Nat, S # {}
  PROVE  Min(S) \in S
<1> DEFINE R == OpToRel(<, Nat)
<1>1. IsWellFoundedOn(R, Nat)
  BY NatLessThanWellFounded
<1>2. \A y \in Nat, z \in Nat : y < z => <<y, z>> \in R
  BY Zenon DEF R, OpToRel
<1> HIDE DEF R
<1>3. PICK x \in S : \A y \in S : ~ (<<y, x>> \in R)
  BY <1>1, WFMin
<1>4. \A y \in S : ~ (y < x)
  BY <1>2, <1>3, Zenon
<1>5. \A y \in S : x <= y
  BY <1>4
<1> QED BY <1>5 DEF Min

\* The manifest an ingest turns to next is one of those it has listed.
LEMMA ThisIsListed ==
  ASSUME todo \subseteq Path, todo # {}
  PROVE  This \in Path
<1>1. todo \in SUBSET Nat
  BY LogAssumption DEF Path, Chunk, Live
<1> QED BY <1>1, MinIsMember DEF This

\* A step of the logger keeps what closes a chunk.
LEMMA LogKeepsClosing ==
  ASSUME ManifestInv, ClosesComplete, LogNext
  PROVE  ClosesComplete'
<1> USE DEF ManifestInv
<1>1. CASE WriteRow
  BY <1>1 DEF WriteRow, SetStreams, ClosesComplete
<1>2. CASE LoseRow
  BY <1>2 DEF LoseRow, ClosesComplete
<1>3. ASSUME NEW st, BeginClose(st)
      PROVE  ClosesComplete'
  <2>1. PICK s \in Flush(Streams) : SetStreams(s)
    BY <1>3 DEF BeginClose
  <2>2. Sound(Streams)
    BY <1>3, StreamsSound DEF BeginClose
  <2>3. Sound(s) /\ (~s.badArchive => s.disk = s.rows)
    BY <2>2, FlushKeeps
  <2>4. chunk \in Chunk /\ csv \in [Chunk -> Rows \cup {Missing}]
    BY <1>3 DEF BeginClose, OpenChunkCounted, LogTypeOK
  <2>5. csv'[chunk] = s.disk /\ rows' = s.rows /\ badArchive' = s.badArchive
        /\ (s.badArchive => chunk \in hurt')
    BY <2>1, <2>4 DEF SetStreams
  <2> QED BY <1>3, <2>3, <2>5 DEF BeginClose, ClosesComplete
<1>4. CASE Seal
  BY <1>4 DEF Seal, ClosesComplete, rowVars
<1>5. CASE CloseStreams
  BY <1>5 DEF CloseStreams, Gone, NoStreams, ClosesComplete
<1>6. CASE OpenChunk
  BY <1>6 DEF OpenChunk, ClosesComplete
<1>7. CASE OpenFails \/ DropRow
  BY <1>7 DEF OpenFails, DropRow, ClosesComplete
<1>8. CASE FinishClosed \/ Crash
  BY <1>8 DEF FinishClosed, Crash, Gone, ClosesComplete
<1>9. CASE Age
  BY <1>9 DEF Age, ClosesComplete, diskVars, procVars, rowVars
<1> QED
  BY <1>1, <1>2, <1>3, <1>4, <1>5, <1>6, <1>7, <1>8, <1>9 DEF LogNext, Rotate, Finish

\* What is settled stays settled through a step of the logger, and keeps its rows
\* while its stream was good.
LEMMA SettledChunksStay ==
  ASSUME ManifestInv, ClosesComplete, LogNext, NEW c \in Chunk, c <= chunk
  PROVE  /\ c <= chunk'
         /\ Settled(c) => /\ Settled(c)'
                          /\ c \notin hurt' /\ csv'[c] # Missing
                               => c \notin hurt /\ csv'[c] = csv[c]
<1> USE DEF ManifestInv
<1>0. chunk \in Nat /\ c \in Nat /\ csv \in [Chunk -> Rows \cup {Missing}]
  BY LogAssumption DEF LogTypeOK, Chunk
<1>1. CASE WriteRow
  BY <1>0, <1>1 DEF WriteRow, SetStreams, Settled
<1>2. CASE LoseRow
  BY <1>0, <1>2 DEF LoseRow, Settled, diskVars
<1>3. ASSUME NEW st, BeginClose(st)
      PROVE  c <= chunk' /\ (Settled(c) => Settled(c)' /\ csv'[c] = csv[c]
                                            /\ (c \notin hurt' => c \notin hurt))
  BY <1>0, <1>3 DEF BeginClose, SetStreams, Settled
<1>4. CASE Seal
  BY <1>0, <1>4 DEF Seal, Settled
<1>5. CASE CloseStreams
  <2>1. /\ hurt' = hurt /\ chunk' = chunk /\ phase' \in {"down", "opening"}
        /\ phase = "sealed"
    BY <1>5 DEF CloseStreams, Gone
  <2>2. chunk \notin hurt => csv'[chunk] = csv[chunk]
    BY <1>5, <2>1 DEF CloseStreams, ClosesComplete, OpenChunkCounted, LogTypeOK
  <2>3. c # chunk => csv'[c] = csv[c]
    BY <1>5 DEF CloseStreams, LogTypeOK
  <2> QED BY <1>0, <2>1, <2>2, <2>3 DEF Settled
<1>6. CASE OpenChunk
  <2>1. /\ chunk' = chunk + 1 /\ hurt \subseteq hurt'
        /\ csv'[c] \in {Missing, csv[c]}
    BY <1>0, <1>6 DEF OpenChunk
  <2> QED BY <1>0, <2>1 DEF Settled
<1>7. CASE OpenFails
  <2>1. chunk' = chunk + 1 /\ hurt' = hurt /\ csv'[c] = csv[c]
    BY <1>0, <1>7 DEF OpenFails
  <2> QED BY <1>0, <2>1 DEF Settled
<1>8. CASE DropRow \/ FinishClosed \/ Crash
  BY <1>0, <1>8 DEF DropRow, FinishClosed, Crash, Gone, Settled, diskVars
<1>9. CASE Age
  BY <1>0, <1>9 DEF Age, Settled, diskVars, procVars
<1> QED
  BY <1>1, <1>2, <1>3, <1>4, <1>5, <1>6, <1>7, <1>8, <1>9 DEF LogNext, Rotate, Finish

\* A step of the logger stamps a final status only on the chunk it has settled.
LEMMA LogKeepsFinals ==
  ASSUME ManifestInv, ClosesComplete, LogNext,
         \A p \in Path : manifest[p] # Missing => Final(manifest[p])
  PROVE  \A p \in Path : manifest'[p] # Missing => Final(manifest[p])'
<1> USE DEF ManifestInv
<1>0. chunk \in Nat /\ \A p \in Path : manifest[p] # Missing => manifest[p] \in Manifest
  BY LogAssumption DEF LogTypeOK
<1>1. ASSUME NEW p \in Path, manifest'[p] # Missing, manifest'[p] = manifest[p]
      PROVE  Final(manifest[p])'
  <2>1. PICK r \in Manifest : r = manifest[p] /\ r = manifest'[p]
    BY <1>0, <1>1
  <2>2. r.chunk \in Chunk /\ Final(r)
    BY <1>0, <1>1, <2>1 DEF Manifest
  <2>3. Final(r)'
    BY <2>2, SettledChunksStay DEF Final
  <2> QED BY <2>1, <2>3
<1>2. ASSUME NEW p \in Path, NEW W \in SUBSET Path, NEW d \in Chunk, NEW n \in Rows,
             NEW st \in {"running", "rotated", "completed"},
             manifest'[p] = Stamped(W, d, st, n)[p],
             manifest'[p] # Missing, d <= chunk', st # "running" => Settled(d)'
      PROVE  Final(manifest[p])'
  <2>1. manifest'[p] \in {manifest[p], [chunk |-> d, status |-> st, rows |-> n]}
    BY <1>2, StampedKeeps
  <2>2. CASE manifest'[p] = [chunk |-> d, status |-> st, rows |-> n]
    <3>1. manifest'[p].chunk = d /\ manifest'[p].status = st
      BY <2>2
    <3> QED BY <3>1, <1>2 DEF Final, Settled
  <2> QED BY <2>1, <2>2, <1>1, <1>2
<1> SUFFICES ASSUME NEW p \in Path, manifest'[p] # Missing
             PROVE  Final(manifest[p])'
  OBVIOUS
<1>3. CASE WriteRow
  <2>1. PICK s \in AfterAppend : SetStreams(s)
           /\ \/ manifest' = manifest
              \/ \E W \in Writes(chunk) : manifest' = Stamped(W, chunk, "running", s.rows)
    BY <1>3 DEF WriteRow
  <2>2. s.rows \in Rows /\ chunk \in Chunk /\ chunk' = chunk
    BY <1>3, AfterAppendKeeps DEF WriteRow, OpenChunkCounted, Sound, LoggerState
  <2>3. CASE manifest' = manifest
    BY <2>3, <1>1
  <2>4. ASSUME NEW W \in Writes(chunk), manifest' = Stamped(W, chunk, "running", s.rows)
        PROVE  Final(manifest[p])'
    BY <2>2, <2>4, <1>0, <1>2, WritesArePaths
  <2> QED BY <2>1, <2>3, <2>4
<1>4. CASE Seal
  <2>1. PICK W \in Writes(chunk) : manifest' = Stamped(W, chunk, ending, rows)
    BY <1>4 DEF Seal
  <2>2. /\ rows \in Rows /\ chunk \in Chunk /\ chunk' = chunk
        /\ ending \in {"running", "rotated", "completed"} /\ Settled(chunk)'
    BY <1>4 DEF Seal, OpenChunkCounted, LogTypeOK, Settled
  <2> QED BY <2>1, <2>2, <1>0, <1>2, WritesArePaths
<1>5. CASE OpenChunk
  <2>1. PICK W \in Writes(chunk + 1), bare \in UNION {Removals(D) : D \in Pruned(chunk + 1)} :
          manifest' = [q \in Path |-> IF q \in bare THEN Missing
                                      ELSE Stamped(W, chunk + 1, "running", 0)[q]]
    BY <1>5 DEF OpenChunk
  <2>2. 0 \in Rows /\ chunk + 1 \in Chunk /\ chunk' = chunk + 1
    BY <1>5, <1>0, LogAssumption DEF OpenChunk, Rows, Chunk
  <2>3. manifest'[p] = Stamped(W, chunk + 1, "running", 0)[p]
    BY <2>1
  <2> QED BY <2>2, <2>3, <1>0, <1>2, WritesArePaths
<1>6. CASE \/ LoseRow \/ DropRow \/ Rotate \/ Finish \/ FinishClosed
           \/ CloseStreams \/ OpenFails \/ Crash \/ Age
  <2>1. manifest' = manifest
    BY <1>6 DEF LoseRow, DropRow, Rotate, Finish, BeginClose, FinishClosed, CloseStreams,
                OpenFails, Crash, Age, diskVars
  <2> QED BY <2>1, <1>1
<1> QED BY <1>3, <1>4, <1>5, <1>6 DEF LogNext

\* While the log moves, the database and what is known of it stay true.
LEMMA LogKeepsRecords ==
  ASSUME RecordsInv, Log
  PROVE  RecordsInv'
<1> USE DEF RecordsInv
<1>0. db' = db /\ kind' = kind /\ todo' = todo /\ read' = read /\ LogNext
  BY DEF Log, jobVars
<1>1. ManifestInv'
  BY <1>0, ManifestInvNext
<1>2. TypeOK'
  BY <1>0, <1>1 DEF TypeOK, ManifestInv
<1>3. ClosesComplete'
  BY <1>0, LogKeepsClosing
<1>4. \A r : r.chunk \in Chunk /\ Final(r) => Final(r)'
  BY <1>0, SettledChunksStay DEF Final, Settled
<1>5. FinalsAreSettled'
  <2>1. \A p \in Path : manifest'[p] # Missing => Final(manifest[p])'
    BY <1>0, LogKeepsFinals DEF FinalsAreSettled
  <2>2. (read # Missing => Final(read))'
    <3> SUFFICES ASSUME read # Missing PROVE Final(read)'
      BY <1>0
    <3>1. PICK r \in Manifest : r = read /\ r = read'
      BY <1>0 DEF TypeOK
    <3>2. Final(r)'
      BY <3>1, <1>4 DEF FinalsAreSettled, Manifest
    <3> QED BY <3>1, <3>2
  <2>3. \A r \in db' : Final(r)'
    BY <1>0, <1>4 DEF FinalsAreSettled, TypeOK, Run
  <2> QED BY <2>1, <2>2, <2>3 DEF FinalsAreSettled
<1>6. EndedRunsAreComplete'
  <2> SUFFICES ASSUME NEW r \in db, r.status # "running", r.whole, r.chunk \notin hurt',
                      csv'[r.chunk] # Missing
               PROVE  r.rows = csv'[r.chunk]
    BY <1>0 DEF EndedRunsAreComplete
  <2>1. r.chunk \in Chunk /\ r.chunk <= chunk /\ Settled(r.chunk)
    BY DEF TypeOK, Run, FinalsAreSettled, Final
  <2>2. r.chunk \notin hurt /\ csv'[r.chunk] = csv[r.chunk]
    BY <2>1, <1>0, SettledChunksStay
  <2> QED BY <2>2 DEF EndedRunsAreComplete
<1> QED BY <1>1, <1>2, <1>3, <1>5, <1>6

\* A step of the analyzer leaves the logger alone, and deletes no open archive.
LEMMA AnalyzeKeepsLog ==
  ASSUME RecordsInv, Analyze
  PROVE  ManifestInv' /\ ClosesComplete'
<1> USE DEF RecordsInv, ManifestInv
<1>1. CASE UNCHANGED logVars
  <2>1. LogTypeOK'
    BY <1>1 DEF LogTypeOK, logVars, diskVars, procVars, rowVars
  <2>2. ManifestInv'
    BY <1>1, <2>1, ManifestInvStutters DEF logVars, diskVars, procVars, rowVars
  <2>3. ClosesComplete'
    BY <1>1 DEF ClosesComplete, logVars, diskVars, procVars, rowVars
  <2> QED BY <2>2, <2>3
<1>2. CASE DeleteBundle
  <2>1. /\ UNCHANGED <<mirror, old, hurt, phase, chunk, rows, flushed, badArchive, badMirror,
                       ending, failing>>
        /\ \/ csv' = csv
           \/ ~Held(This) /\ csv' = [csv EXCEPT ![This] = Missing]
        /\ manifest' = manifest \/ manifest' = [manifest EXCEPT ![This] = Missing]
    BY <1>2 DEF DeleteBundle, procVars, rowVars
  <2>2. LogTypeOK'
    <3>1. csv' \in [Chunk -> Rows \cup {Missing}]
      BY <2>1 DEF LogTypeOK
    <3>2. manifest' \in [Path -> Manifest \cup {Missing}]
      BY <2>1 DEF LogTypeOK
    <3> QED BY <2>1, <3>1, <3>2 DEF LogTypeOK
  <2>3. /\ \A d \in Chunk : csv'[d] \in {Missing, csv[d]}
        /\ phase \in {"open", "flushed", "sealed"} /\ chunk \in Chunk => csv'[chunk] = csv[chunk]
    BY <2>1 DEF Held, LogTypeOK
  <2>4. \A p \in Path : manifest'[p] \in {Missing, manifest[p]}
    BY <2>1 DEF LogTypeOK
  <2>5. OpenChunkCounted'
    BY <2>1, <2>3 DEF OpenChunkCounted
  <2>6. NoManifestAhead'
    BY <2>1, <2>4 DEF NoManifestAhead
  <2>7. RunningManifestIsCovered'
    <3> SUFFICES ASSUME NEW p \in Path, manifest'[p] # Missing, manifest'[p].status = "running",
                        csv'[manifest'[p].chunk] # Missing
                 PROVE  manifest'[p].rows <= csv'[manifest'[p].chunk]
      BY DEF RunningManifestIsCovered
    <3>1. manifest'[p] = manifest[p] /\ manifest[p] \in Manifest
      BY <2>4 DEF LogTypeOK
    <3> QED BY <3>1, <2>3 DEF RunningManifestIsCovered, Manifest
  <2>8. ClosesComplete'
    BY <2>1, <2>3 DEF ClosesComplete, OpenChunkCounted
  <2> QED BY <2>2, <2>5, <2>6, <2>7, <2>8
<1> QED
  BY <1>1, <1>2 DEF Analyze, Begin, Skip, ReadManifest, InsertRun, InsertFails, KeepBundle,
                    End, Die

\* Whatever the analyzer does, its runs stay complete.
LEMMA AnalyzeKeepsRecords ==
  ASSUME RecordsInv, Analyze
  PROVE  RecordsInv'
<1> USE DEF RecordsInv
<1>1. ManifestInv' /\ ClosesComplete'
  BY AnalyzeKeepsLog
<1>2. UNCHANGED <<phase, chunk, hurt>>
  BY DEF Analyze, Begin, Skip, ReadManifest, InsertRun, InsertFails, KeepBundle, DeleteBundle,
         End, Die, logVars, procVars
<1>3. /\ \A d \in Chunk : csv'[d] \in {Missing, csv[d]}
      /\ \A p \in Path : manifest'[p] \in {Missing, manifest[p]}
  <2>1. CASE DeleteBundle
    BY <2>1 DEF DeleteBundle, ManifestInv, LogTypeOK
  <2>2. CASE UNCHANGED logVars
    BY <2>2 DEF logVars, diskVars
  <2> QED
    BY <2>1, <2>2 DEF Analyze, Begin, Skip, ReadManifest, InsertRun, InsertFails, KeepBundle,
                      End, Die
<1>4. \A r : Final(r) <=> Final(r)'
  BY <1>2 DEF Final, Settled
<1>5. \A p \in Path : manifest'[p] # Missing => Final(manifest[p])'
  BY <1>2, <1>3 DEF FinalsAreSettled, Final, Settled
<1>6. ASSUME db' \subseteq db, read' = read \/ read' = Missing, kind' \in Kinds \cup {"none"},
             todo' \subseteq Path
      PROVE  RecordsInv'
  <2>1. TypeOK'
    BY <1>1, <1>6 DEF TypeOK, ManifestInv
  <2>2. FinalsAreSettled'
    <3>1. \A r \in db' : Final(r)'
      BY <1>4, <1>6 DEF FinalsAreSettled
    <3>2. read' # Missing => Final(read)'
      BY <1>2, <1>6 DEF FinalsAreSettled, Final, Settled
    <3> QED BY <1>5, <3>1, <3>2 DEF FinalsAreSettled
  <2>3. EndedRunsAreComplete'
    BY <1>2, <1>3, <1>6 DEF EndedRunsAreComplete, TypeOK, Run
  <2> QED BY <1>1, <2>1, <2>2, <2>3
<1>7. ASSUME NEW k \in JobKinds, Begin(k)
      PROVE  RecordsInv'
  <2>1. db' = db /\ read' = read /\ kind' \in Kinds
    BY <1>7 DEF Begin
  <2>2. todo' \subseteq Path
    BY <1>7 DEF Begin, Path
  <2> QED BY <2>1, <2>2, <1>6
<1>8. CASE Skip \/ InsertFails \/ KeepBundle \/ DeleteBundle
  BY <1>6, <1>8 DEF Skip, InsertFails, KeepBundle, DeleteBundle, Done, TypeOK
<1>9. CASE End \/ Die
  BY <1>6, <1>9 DEF End, Die, TypeOK
<1>10. CASE ReadManifest
  <2>1. /\ db' \subseteq db /\ kind' = kind /\ todo' = todo /\ logVars' = logVars
        /\ read' = manifest[This] /\ manifest[This] # Missing /\ todo # {}
    BY <1>10 DEF ReadManifest, Ingesting
  <2>2. This \in Path
    BY <2>1, ThisIsListed DEF TypeOK
  <2>3. read' \in Manifest
    BY <2>1, <2>2 DEF TypeOK, LogTypeOK
  <2>4. TypeOK'
    BY <1>1, <2>1, <2>3 DEF TypeOK, ManifestInv
  <2>5. FinalsAreSettled'
    <3>1. \A r \in db' : Final(r)'
      BY <1>4, <2>1 DEF FinalsAreSettled
    <3>2. Final(read)'
      BY <1>2, <2>1, <2>2 DEF FinalsAreSettled, Final, Settled
    <3> QED BY <1>5, <3>1, <3>2 DEF FinalsAreSettled
  <2>6. EndedRunsAreComplete'
    BY <1>2, <1>3, <2>1 DEF EndedRunsAreComplete, TypeOK, Run
  <2> QED BY <1>1, <2>4, <2>5, <2>6
<1>11. CASE InsertRun
  <2> DEFINE new == [path |-> This, chunk |-> read.chunk, status |-> read.status,
                     declared |-> read.rows, rows |-> Parsed,
                     whole |-> csv[read.chunk] # Missing]
  <2>1. /\ db' = db \cup {new} /\ read' = Missing /\ kind' = kind
        /\ todo' \subseteq todo /\ logVars' = logVars /\ todo # {} /\ read # Missing
    BY <1>11 DEF InsertRun, Ingesting, Done
  <2>2. This \in Path /\ read \in Manifest
    BY <2>1, ThisIsListed DEF TypeOK
  <2>3. read.chunk \in Chunk /\ 0 \in Rows
    BY <2>2, LogAssumption DEF Manifest, Rows
  <2>4. Parsed \in Rows /\ (csv[read.chunk] # Missing => Parsed = csv[read.chunk])
    BY <2>3 DEF Parsed, ManifestInv, LogTypeOK
  <2>5. new \in Run
    BY <2>2, <2>3, <2>4 DEF Manifest, Run
  <2>6. TypeOK'
    BY <1>1, <2>1, <2>5 DEF TypeOK, ManifestInv
  <2>7. FinalsAreSettled'
    <3>1. Final(new)
      BY <2>1 DEF FinalsAreSettled, Final
    <3>2. \A r \in db' : Final(r)'
      BY <1>4, <2>1, <3>1 DEF FinalsAreSettled
    <3> QED BY <1>5, <2>1, <3>2 DEF FinalsAreSettled
  <2>8. EndedRunsAreComplete'
    <3> SUFFICES ASSUME NEW r \in db', r.whole, r.status # "running", r.chunk \notin hurt,
                        csv'[r.chunk] # Missing
                 PROVE  r.rows = csv'[r.chunk]
      BY <1>2 DEF EndedRunsAreComplete
    <3>1. csv' = csv
      BY <2>1 DEF logVars, diskVars
    <3>2. CASE r \in db
      BY <3>1, <3>2 DEF EndedRunsAreComplete
    <3>3. CASE r = new
      BY <3>1, <3>3, <2>4
    <3> QED BY <2>1, <3>2, <3>3
  <2> QED BY <1>1, <2>6, <2>7, <2>8
<1> QED BY <1>7, <1>8, <1>9, <1>10, <1>11 DEF Analyze

-----------------------------------------------------------------------------
(* The theorems about log and analyzer together.                           *)

THEOREM RecordsInvInit == Init => RecordsInv
<1> SUFFICES ASSUME Init PROVE RecordsInv
  OBVIOUS
<1>1. ManifestInv
  BY ManifestInvInit DEF Init
<1>2. TypeOK
  BY <1>1 DEF Init, TypeOK, ManifestInv
<1>3. ClosesComplete
  BY DEF Init, LogInit, ClosesComplete
<1>4. FinalsAreSettled /\ EndedRunsAreComplete
  BY DEF Init, LogInit, FinalsAreSettled, EndedRunsAreComplete
<1> QED BY <1>1, <1>2, <1>3, <1>4 DEF RecordsInv

\* The invariant of log and analyzer holds all along.
THEOREM RecordsInvariant == Spec => []RecordsInv
<1>1. RecordsInv /\ [Next]_vars => RecordsInv'
  <2> SUFFICES ASSUME RecordsInv, [Next]_vars PROVE RecordsInv'
    OBVIOUS
  <2>1. CASE Log
    BY <2>1, LogKeepsRecords
  <2>2. CASE Analyze
    BY <2>2, AnalyzeKeepsRecords
  <2>3. CASE UNCHANGED vars
    <3>1. ManifestInv'
      BY <2>3, ManifestInvNext DEF RecordsInv, vars
    <3>2. TypeOK'
      BY <2>3, <3>1 DEF RecordsInv, TypeOK, ManifestInv, vars, jobVars
    <3>3. ClosesComplete'
      BY <2>3 DEF RecordsInv, ClosesComplete, vars, logVars, diskVars, procVars, rowVars
    <3>4. FinalsAreSettled'
      BY <2>3 DEF RecordsInv, FinalsAreSettled, Final, Settled, vars, jobVars, logVars,
                  diskVars, procVars
    <3>5. EndedRunsAreComplete'
      BY <2>3 DEF RecordsInv, EndedRunsAreComplete, vars, logVars, diskVars
    <3> QED BY <3>1, <3>2, <3>3, <3>4, <3>5 DEF RecordsInv
  <2> QED BY <2>1, <2>2, <2>3 DEF Next
<1> QED BY <1>1, RecordsInvInit, PTL DEF Spec

\* Whatever the analyzer deletes meanwhile, a running manifest declares no row that
\* its archive lacks.
THEOREM ManifestsStayCovered == Spec => []RunningManifestIsCovered
<1>1. RecordsInv => RunningManifestIsCovered
  BY DEF RecordsInv, ManifestInv
<1> QED BY <1>1, RecordsInvariant, PTL

\* A run whose session had ended when it was ingested holds every row its archive
\* ever gets.
THEOREM EndedRunsComplete == Spec => []EndedRunsAreComplete
<1>1. RecordsInv => EndedRunsAreComplete
  BY DEF RecordsInv
<1> QED BY <1>1, RecordsInvariant, PTL

\* However ingests, forced ingests, prunes and failures follow each other, the
\* database has one run per session: what is being ingested is not yet known.
THEOREM RunsAreUnique == Spec => []OneRunPerSession
<1> DEFINE Inv == OneRunPerSession /\ ReadIsUnknown
<1>1. Init => Inv
  BY DEF Init, OneRunPerSession, ReadIsUnknown
<1>2. Inv /\ [Next]_vars => Inv'
  <2> SUFFICES ASSUME Inv, [Next]_vars PROVE Inv'
    OBVIOUS
  <2>1. ASSUME db' \subseteq db,
               read' = Missing \/ (read' = read /\ todo' = todo /\ kind' = kind)
        PROVE  Inv'
    BY <2>1 DEF OneRunPerSession, ReadIsUnknown, Known, Same, This
  <2>2. CASE Log \/ UNCHANGED vars
    BY <2>1, <2>2 DEF Log, vars, jobVars
  <2>3. ASSUME NEW k \in JobKinds, Begin(k) PROVE Inv'
    <3>1. db' = db /\ read' = read /\ read = Missing
      BY <2>3 DEF Begin, ReadIsUnknown
    <3> QED BY <2>1, <3>1
  <2>4. CASE Skip \/ InsertFails \/ KeepBundle \/ DeleteBundle \/ End \/ Die
    <3>1. CASE Skip \/ InsertFails \/ Die
      BY <2>1, <3>1 DEF Skip, InsertFails, Die
    <3>2. CASE KeepBundle \/ DeleteBundle
      <4>1. db' = db /\ read' = read /\ read = Missing
        BY <3>2 DEF KeepBundle, DeleteBundle, Pruning, ReadIsUnknown
      <4> QED BY <2>1, <4>1
    <3>3. CASE End
      <4>1. db' \subseteq db /\ read' = read /\ read = Missing
        BY <3>3 DEF End, ReadIsUnknown
      <4> QED BY <2>1, <4>1
    <3> QED BY <2>4, <3>1, <3>2, <3>3
  <2>5. CASE ReadManifest
    <3>1. /\ read' = manifest[This] /\ todo' = todo /\ kind' = kind
          /\ db' = db \ Known(This, manifest[This])
          /\ kind \in {"ingest", "force"} /\ todo # {}
      BY <2>5 DEF ReadManifest, Ingesting
    <3> QED BY <3>1 DEF OneRunPerSession, ReadIsUnknown, Known, Same, This
  <2>6. CASE InsertRun
    <3> DEFINE new == [path |-> This, chunk |-> read.chunk, status |-> read.status,
                       declared |-> read.rows, rows |-> Parsed,
                       whole |-> csv[read.chunk] # Missing]
    <3>1. db' = db \cup {new} /\ read' = Missing /\ read # Missing
      BY <2>6 DEF InsertRun
    <3>2. \A r \in db : r.path # This /\ r.chunk # read.chunk
      BY <3>1 DEF ReadIsUnknown, Known, Same
    <3>3. new.path = This /\ new.chunk = read.chunk
      OBVIOUS
    <3> HIDE DEF new
    <3> QED BY <3>1, <3>2, <3>3 DEF OneRunPerSession, ReadIsUnknown
  <2> QED BY <2>2, <2>3, <2>4, <2>5, <2>6 DEF Next, Analyze
<1>3. Inv => OneRunPerSession
  OBVIOUS
<1> QED BY <1>1, <1>2, <1>3, PTL DEF Spec

-----------------------------------------------------------------------------
(* The report about the event log.                                         *)

EventMemory ==
  /\ lost \in [EvProcs -> BOOLEAN] /\ probed \in [EvProcs -> BOOLEAN]
  /\ unsaved \in [EvProcs -> BOOLEAN] /\ misread \in [EvProcs -> BOOLEAN]

\* A process that has nothing to clear: it has probed, and none of its attempts at the
\* report is outstanding.
Cleared(p) == probed[p] /\ ~lost[p] /\ ~unsaved[p] /\ ~misread[p]

\* Wherever in an append such a process is, a failure on record is a later one, of
\* another process.
ReportInv ==
  /\ EventMemory
  /\ \A p \in EvProcs :
       Cleared(p) /\ FailureOnRecord(p) => report.by # p /\ p \in report.before

\* Steps that leave the registry and the report alone.
LEMMA ReportIsKept ==
  ASSUME ReportInv, UNCHANGED <<memoryVars, report>>
  PROVE  ReportInv'
BY DEF ReportInv, EventMemory, Cleared, FailureOnRecord, memoryVars

LEMMA ReportIsWritten ==
  ASSUME ReportInv, NEW p \in EvProcs, NEW active \in BOOLEAN, WriteReport(p, active),
         lost' = [lost EXCEPT ![p] = active],
         probed' \in [EvProcs -> BOOLEAN], \A q \in EvProcs \ {p} : probed'[q] = probed[q],
         misread' \in [EvProcs -> BOOLEAN], \A q \in EvProcs \ {p} : misread'[q] = misread[q]
  PROVE  ReportInv'
<1>1. EventMemory'
  <2>1. unsaved' \in [EvProcs -> BOOLEAN]
    BY DEF WriteReport, ReportInv, EventMemory
  <2> QED BY <2>1 DEF ReportInv, EventMemory
<1>2. ASSUME NEW q \in EvProcs, Cleared(q)', FailureOnRecord(q)'
      PROVE  report'.by # q /\ q \in report'.before
  <2>1. CASE report' = [active |-> active, log |-> LogOf[p], by |-> p,
                        before |-> {r \in EvProcs : probed'[r]}]
    <3>1. active /\ q # p
      BY <1>2, <2>1 DEF Cleared, FailureOnRecord, ReportInv, EventMemory
    <3> QED BY <1>2, <2>1, <3>1 DEF Cleared
  <2>2. CASE unsaved' = [unsaved EXCEPT ![p] = TRUE] /\ report' = report
    <3>1. q # p
      BY <1>2, <2>2 DEF Cleared, ReportInv, EventMemory
    <3>2. Cleared(q) /\ FailureOnRecord(q)
      BY <1>2, <2>2, <3>1 DEF Cleared, FailureOnRecord, ReportInv, EventMemory
    <3> QED BY <2>2, <3>2 DEF ReportInv
  <2> QED BY <2>1, <2>2 DEF WriteReport
<1> QED BY <1>1, <1>2 DEF ReportInv

LEMMA FailuresAreRecorded ==
  ASSUME ReportInv, NEW p \in EvProcs, RecordFailure(p)
  PROVE  ReportInv'
<1>1. /\ lost' = [lost EXCEPT ![p] = TRUE] /\ probed' = [probed EXCEPT ![p] = TRUE]
      /\ misread' = misread
  BY DEF RecordFailure
<1>2. CASE WriteReport(p, TRUE)
  BY <1>1, <1>2, ReportIsWritten DEF ReportInv, EventMemory
<1>3. CASE UNCHANGED <<unsaved, report>>
  BY <1>1, <1>3 DEF ReportInv, EventMemory, Cleared, FailureOnRecord
<1> QED BY <1>2, <1>3 DEF RecordFailure

LEMMA RecoveriesAreRecorded ==
  ASSUME ReportInv, NEW p \in EvProcs, RecordRecovered(p)
  PROVE  ReportInv'
<1>1. PICK readable \in BOOLEAN :
        /\ misread' = [misread EXCEPT ![p] = @ \/ (~lost[p] /\ ~probed[p] /\ ~readable)]
        /\ probed' = [probed EXCEPT ![p] = @ \/ ~lost[p]]
        /\ lost' = [lost EXCEPT ![p] = FALSE]
        /\ IF Clears(p, readable) THEN WriteReport(p, FALSE) ELSE UNCHANGED <<unsaved, report>>
  BY DEF RecordRecovered
<1>2. misread' \in [EvProcs -> BOOLEAN] /\ probed' \in [EvProcs -> BOOLEAN]
  BY <1>1 DEF ReportInv, EventMemory
<1>3. CASE WriteReport(p, FALSE)
  <2>1. \A q \in EvProcs \ {p} : misread'[q] = misread[q] /\ probed'[q] = probed[q]
    BY <1>1 DEF ReportInv, EventMemory
  <2> QED BY <1>1, <1>2, <1>3, <2>1, ReportIsWritten
<1>4. CASE ~Clears(p, readable) /\ UNCHANGED <<unsaved, report>>
  <2>1. ASSUME NEW q \in EvProcs, Cleared(q)', FailureOnRecord(q)'
        PROVE  report.by # q /\ q \in report.before
    <3>1. FailureOnRecord(q)
      BY <1>4, <2>1 DEF FailureOnRecord
    <3>2. CASE q # p
      <4>1. Cleared(q)
        BY <1>1, <1>4, <2>1, <3>2 DEF Cleared, ReportInv, EventMemory
      <4> QED BY <3>1, <4>1 DEF ReportInv
    <3>3. CASE q = p
      <4>1. ~lost[p] /\ (probed[p] \/ ~readable)
        BY <1>4, <3>1, <3>3 DEF Clears
      <4>2. ~misread[p] /\ ~(~probed[p] /\ ~readable) /\ ~unsaved[p]
        BY <1>1, <1>4, <2>1, <3>3, <4>1 DEF Cleared, ReportInv, EventMemory
      <4>3. Cleared(p)
        BY <4>1, <4>2 DEF Cleared
      <4> QED BY <3>1, <3>3, <4>3 DEF ReportInv
    <3> QED BY <3>2, <3>3
  <2>2. lost' \in [EvProcs -> BOOLEAN] /\ unsaved' \in [EvProcs -> BOOLEAN]
    BY <1>1, <1>4 DEF ReportInv, EventMemory
  <2> QED BY <1>2, <1>4, <2>1, <2>2 DEF ReportInv, EventMemory
<1> QED BY <1>1, <1>3, <1>4

LEMMA ReportInvNext ==
  ASSUME ReportInv, [EventNext]_eventVars
  PROVE  ReportInv'
<1>1. CASE UNCHANGED eventVars
  BY <1>1, ReportIsKept DEF eventVars
<1>2. CASE Expire
  BY <1>2, ReportIsKept DEF Expire
<1>3. ASSUME NEW p \in EvProcs, StartProcess(p) \/ EndProcess(p) \/ AppendEvent(p)
      PROVE  ReportInv'
  <2>1. CASE StartProcess(p)
    BY <2>1, ReportIsKept DEF StartProcess
  <2>2. CASE EndProcess(p)
    BY <2>2 DEF EndProcess, ReportInv, EventMemory, Cleared, FailureOnRecord
  <2>3. CASE BeginAppend(p) \/ BeginRotation(p)
    BY <2>3, ReportIsKept DEF BeginAppend, BeginRotation
  <2>4. CASE RenameLog(p) \/ RenameFails(p)
    BY <2>4, ReportIsKept DEF RenameLog, RenameFails
  <2>5. CASE AppendLine(p) \/ AppendFails(p) \/ AppendPartly(p)
    BY <2>5, ReportIsKept DEF AppendLine, AppendFails, AppendPartly
  <2> QED
    BY <1>3, <2>1, <2>2, <2>3, <2>4, <2>5, FailuresAreRecorded, RecoveriesAreRecorded
       DEF AppendEvent
<1> QED BY <1>1, <1>2, <1>3 DEF EventNext

\* The report of a failing event log is cleared by every process that gets an event
\* through, for any number of processes and logs and under every fault.
THEOREM ReportsAreCleared == EventSpec => []OldReportsAreCleared
<1>1. EventInit => ReportInv
  BY DEF EventInit, ReportInv, EventMemory, Cleared
<1>2. ReportInv => OldReportsAreCleared
  BY DEF ReportInv, Cleared, OldReportsAreCleared
<1> QED BY <1>1, <1>2, ReportInvNext, PTL DEF EventSpec

-----------------------------------------------------------------------------
(* The lines of the event log.                                             *)

EventFilesTyped ==
  /\ target \in [EvProcs -> Slot]
  /\ evAt \in [EvProcs -> {"down", "idle", "renaming", "appending", "appended", "failed"}]
  /\ events \in [Logs -> Files] /\ archives \in [Logs -> [Slot -> Files]]
  /\ acked \in [Logs -> SUBSET Event] /\ glued \in [Logs -> SUBSET Event]

\* The name a rotation has chosen is still free when it renames.
ChosenNamesAreFree ==
  \A p \in EvProcs :
    evAt[p] = "renaming" => p \in Rotators /\ target[p] \in FreeNames(LogOf[p])

KeptInv == EventFilesTyped /\ ChosenNamesAreFree /\ EventsAreKept

\* At most one process at a time rotates a log: control loop and read loop, which
\* share one, hold the worker mutex, and an evidence run names its own.
OneRotator == \A p, q \in Rotators : LogOf[p] = LogOf[q] => p = q

LEMMA ArchivedEvents ==
  ASSUME NEW a, NEW e
  PROVE  e \in ArchivedIn(a) <=> \E s \in Slot : e \in EventsIn(a[s])
BY DEF ArchivedIn

\* Steps that leave the files alone and choose no name.
LEMMA FilesAreKept ==
  ASSUME KeptInv, NEW p \in EvProcs, NEW where,
         where \in {"down", "idle", "appending", "appended", "failed"},
         EvGoto(p, where), UNCHANGED eventFiles,
         target' = target \/ target' = [target EXCEPT ![p] = 1]
  PROVE  KeptInv'
<1>1. EventFilesTyped'
  <2>1. target' \in [EvProcs -> Slot]
    <3>1. 1 \in Slot
      BY EventAssumption DEF Slot
    <3> QED BY <3>1 DEF KeptInv, EventFilesTyped
  <2>2. evAt' \in [EvProcs -> {"down", "idle", "renaming", "appending", "appended", "failed"}]
    BY DEF KeptInv, EventFilesTyped, EvGoto
  <2> QED BY <2>1, <2>2 DEF KeptInv, EventFilesTyped, eventFiles
<1>2. ASSUME NEW q \in EvProcs, evAt'[q] = "renaming"
      PROVE  q \in Rotators /\ target'[q] \in FreeNames(LogOf[q])'
  <2>1. q # p /\ evAt[q] = "renaming"
    BY <1>2 DEF KeptInv, EventFilesTyped, EvGoto
  <2>2. target'[q] = target[q]
    BY <2>1 DEF KeptInv, EventFilesTyped
  <2> QED BY <2>1, <2>2 DEF KeptInv, ChosenNamesAreFree, FreeNames, eventFiles
<1> QED BY <1>1, <1>2 DEF KeptInv, ChosenNamesAreFree, EventsAreKept, eventFiles

LEMMA RotationKeeps ==
  ASSUME KeptInv, NEW p \in EvProcs, BeginRotation(p)
  PROVE  KeptInv'
<1>1. UNCHANGED eventFiles
  BY DEF BeginRotation
<1>2. PICK s \in FreeNames(LogOf[p]) : target' = [target EXCEPT ![p] = s]
  BY DEF BeginRotation
<1>3. EventFilesTyped'
  BY <1>1, <1>2 DEF KeptInv, EventFilesTyped, BeginRotation, EvGoto, FreeNames, eventFiles
<1>4. ASSUME NEW q \in EvProcs, evAt'[q] = "renaming"
      PROVE  q \in Rotators /\ target'[q] \in FreeNames(LogOf[q])
  <2>1. CASE q = p
    BY <1>2, <2>1 DEF KeptInv, EventFilesTyped, BeginRotation
  <2>2. CASE q # p
    BY <1>2, <1>4, <2>2
       DEF KeptInv, EventFilesTyped, ChosenNamesAreFree, BeginRotation, EvGoto
  <2> QED BY <2>1, <2>2
<1> QED
  BY <1>1, <1>3, <1>4 DEF KeptInv, ChosenNamesAreFree, EventsAreKept, FreeNames, eventFiles

\* Renaming to a free name loses no line, and what is pruned is no longer to be kept.
LEMMA RenameKeeps ==
  ASSUME OneRotator, KeptInv, NEW p \in EvProcs, RenameLog(p)
  PROVE  KeptInv'
<1> DEFINE l == LogOf[p]
           moved == [archives[l] EXCEPT ![target[p]] = events[l]]
           kept == Retained(l, moved)
<1>a. l \in Logs /\ EventFilesTyped /\ evAt[p] = "renaming"
  BY EventAssumption DEF KeptInv, RenameLog
<1>1. /\ events' = [events EXCEPT ![l] = NoFile]
      /\ archives' = [archives EXCEPT ![l] = kept]
      /\ acked' = [acked EXCEPT ![l] = @ \ (ArchivedIn(moved) \ ArchivedIn(kept))]
      /\ glued' = glued /\ target' = [target EXCEPT ![p] = 1]
      /\ evAt' = [evAt EXCEPT ![p] = "appending"]
  BY DEF RenameLog, EvGoto
<1>2. moved \in [Slot -> Files] /\ kept \in [Slot -> Files]
  BY <1>a DEF EventFilesTyped, Retained, Files
<1>3. EventFilesTyped'
  <2>1. acked' \in [Logs -> SUBSET Event]
    BY <1>a, <1>1 DEF EventFilesTyped
  <2>2. events' \in [Logs -> Files] /\ archives' \in [Logs -> [Slot -> Files]]
    BY <1>a, <1>1, <1>2 DEF EventFilesTyped, Files
  <2>3. /\ target' \in [EvProcs -> Slot]
        /\ evAt' \in [EvProcs -> {"down", "idle", "renaming", "appending", "appended",
                                  "failed"}]
    BY <1>a, <1>1, EventAssumption DEF EventFilesTyped, Slot
  <2> QED BY <1>a, <1>1, <2>1, <2>2, <2>3 DEF EventFilesTyped
<1>4. ASSUME NEW q \in EvProcs, evAt'[q] = "renaming"
      PROVE  q \in Rotators /\ target'[q] \in FreeNames(LogOf[q])'
  <2>1. q # p /\ evAt[q] = "renaming" /\ target'[q] = target[q]
    BY <1>a, <1>1, <1>4 DEF EventFilesTyped
  <2>2. p \in Rotators /\ q \in Rotators /\ target[q] \in FreeNames(LogOf[q])
    BY <1>a, <2>1 DEF KeptInv, ChosenNamesAreFree
  <2>3. LogOf[q] # l
    BY <2>1, <2>2 DEF OneRotator
  <2>4. archives'[LogOf[q]] = archives[LogOf[q]]
    BY <1>a, <1>1, <2>3, EventAssumption DEF EventFilesTyped
  <2> QED BY <2>1, <2>2, <2>4 DEF FreeNames
<1>5. ASSUME NEW e \in EventsIn(events[l]) \cup ArchivedIn(archives[l])
      PROVE  e \in ArchivedIn(moved)
  <2>1. target[p] \in Slot /\ archives[l][target[p]] = NoFile
    BY <1>a DEF KeptInv, ChosenNamesAreFree, FreeNames
  <2>2. moved[target[p]] = events[l]
    BY <1>a, <2>1 DEF EventFilesTyped
  <2>3. CASE e \in EventsIn(events[l])
    <3>1. e \in EventsIn(moved[target[p]])
      BY <2>2, <2>3
    <3> HIDE DEF moved
    <3> QED BY <2>1, <3>1, ArchivedEvents
  <2>4. CASE e \in ArchivedIn(archives[l])
    <3>1. PICK s \in Slot : e \in EventsIn(archives[l][s])
      BY <2>4, ArchivedEvents
    <3>2. s # target[p]
      BY <2>1, <3>1 DEF EventsIn
    <3>3. moved[s] = archives[l][s]
      BY <1>a, <3>2 DEF EventFilesTyped
    <3> HIDE DEF moved
    <3> QED BY <3>1, <3>3, ArchivedEvents
  <2> QED BY <2>3, <2>4
<1>6. EventsAreKept'
  <2> SUFFICES ASSUME NEW k \in Logs, NEW e \in acked'[k] \ glued'[k]
               PROVE  e \in EventsIn(events'[k]) \cup ArchivedIn(archives'[k])
    BY DEF EventsAreKept, EventsIn, ArchivedIn
  <2> HIDE DEF kept, moved
  <2>1. CASE k = l
    <3>1. /\ e \in acked[l] \ glued[l]
          /\ e \notin ArchivedIn(moved) \ ArchivedIn(kept)
      BY <1>a, <1>1, <2>1 DEF EventFilesTyped
    <3>2. e \in ArchivedIn(moved)
      BY <1>a, <1>5, <3>1 DEF KeptInv, EventsAreKept
    <3>3. archives'[k] = kept
      BY <1>a, <1>1, <2>1 DEF EventFilesTyped
    <3> QED BY <3>1, <3>2, <3>3
  <2>2. CASE k # l
    BY <1>a, <1>1, <2>2 DEF EventFilesTyped, KeptInv, EventsAreKept
  <2> QED BY <2>1, <2>2
<1> QED BY <1>3, <1>4, <1>6 DEF KeptInv, ChosenNamesAreFree

LEMMA AppendKeeps ==
  ASSUME KeptInv, NEW p \in EvProcs, AppendLine(p) \/ AppendPartly(p)
  PROVE  KeptInv'
<1> DEFINE l == LogOf[p]
<1>a. l \in Logs /\ EventFilesTyped
  BY EventAssumption DEF KeptInv
<1>1. /\ UNCHANGED <<target, archives>>
      /\ \E where \in {"appended", "failed"} : evAt' = [evAt EXCEPT ![p] = where]
  BY DEF AppendLine, AppendPartly, EvGoto
<1>2. PICK part, line, acknowledged \in SUBSET Event :
        /\ events' = [events EXCEPT ![l] = EventsIn(@) \cup line]
        /\ acked' = [acked EXCEPT ![l] = @ \cup acknowledged]
        /\ glued' = [glued EXCEPT ![l] = @ \cup part]
        /\ acknowledged \subseteq part \cup line
  <2>1. CASE AppendPartly(p)
    <3>1. /\ events' = [events EXCEPT ![l] = EventsIn(@) \cup {}]
          /\ acked' = [acked EXCEPT ![l] = @ \cup {}]
          /\ glued' = [glued EXCEPT ![l] = @ \cup {}]
      BY <1>a, <2>1 DEF AppendPartly, EventFilesTyped
    <3> DEFINE nothing == {}
    <3>2. nothing \in SUBSET Event /\ nothing \subseteq nothing \cup nothing
      OBVIOUS
    <3>3. /\ events' = [events EXCEPT ![l] = EventsIn(@) \cup nothing]
          /\ acked' = [acked EXCEPT ![l] = @ \cup nothing]
          /\ glued' = [glued EXCEPT ![l] = @ \cup nothing]
      BY <3>1
    <3> HIDE DEF nothing
    <3> QED BY <3>2, <3>3
  <2>2. CASE AppendLine(p)
    <3>1. PICK e \in Event :
            /\ events' = [events EXCEPT ![l] = EventsIn(@) \cup IF torn[l] THEN {} ELSE {e}]
            /\ acked' = [acked EXCEPT ![l] = @ \cup {e}]
            /\ glued' = [glued EXCEPT ![l] = @ \cup IF torn[l] THEN {e} ELSE {}]
      BY <2>2 DEF AppendLine
    <3>2. CASE torn[l]
      <4> WITNESS {e} \in SUBSET Event, {} \in SUBSET Event, {e} \in SUBSET Event
      <4> QED BY <3>1, <3>2
    <3>3. CASE ~torn[l]
      <4> WITNESS {} \in SUBSET Event, {e} \in SUBSET Event, {e} \in SUBSET Event
      <4> QED BY <3>1, <3>3
    <3> QED BY <3>2, <3>3
  <2> QED BY <2>1, <2>2
<1>3. EventsIn(events[l]) \in SUBSET Event
  BY <1>a DEF EventFilesTyped, EventsIn, Files
<1>4. EventFilesTyped'
  BY <1>a, <1>1, <1>2, <1>3 DEF EventFilesTyped, Files
<1>5. ChosenNamesAreFree'
  BY <1>a, <1>1 DEF KeptInv, ChosenNamesAreFree, FreeNames, EventFilesTyped
<1>6. ASSUME NEW k \in Logs, NEW e \in acked'[k] \ glued'[k]
      PROVE  e \in EventsIn(events'[k]) \cup ArchivedIn(archives'[k])
  <2>1. CASE k = l
    <3>1. e \in (acked[l] \cup acknowledged) \ (glued[l] \cup part)
      BY <1>a, <1>2, <1>6, <2>1 DEF EventFilesTyped
    <3>2. e \in EventsIn(events[l]) \cup ArchivedIn(archives[l]) \cup line
      BY <1>a, <1>2, <3>1 DEF KeptInv, EventsAreKept
    <3>3. events'[k] = EventsIn(events[l]) \cup line
      BY <1>a, <1>2, <2>1 DEF EventFilesTyped
    <3>4. EventsIn(events'[k]) = EventsIn(events[l]) \cup line
      BY <1>2, <1>3, <3>3, EventAssumption DEF EventsIn
    <3> QED BY <1>1, <2>1, <3>2, <3>4
  <2>2. CASE k # l
    <3>1. events'[k] = events[k] /\ acked'[k] = acked[k] /\ glued'[k] = glued[k]
      BY <1>a, <1>2, <2>2 DEF EventFilesTyped
    <3> QED BY <1>1, <1>6, <3>1 DEF KeptInv, EventsAreKept
  <2> QED BY <2>1, <2>2
<1>7. EventsAreKept'
  BY <1>6 DEF EventsAreKept, EventsIn, ArchivedIn
<1> QED BY <1>4, <1>5, <1>7 DEF KeptInv

LEMMA KeptNext ==
  ASSUME OneRotator, KeptInv, [EventNext]_eventVars
  PROVE  KeptInv'
<1>1. CASE UNCHANGED eventVars
  BY <1>1 DEF eventVars, eventFiles, KeptInv, EventFilesTyped, ChosenNamesAreFree,
     FreeNames, EventsAreKept
<1>2. CASE Expire
  BY <1>2 DEF Expire, KeptInv, EventFilesTyped, ChosenNamesAreFree, FreeNames,
     EventsAreKept
<1>3. ASSUME NEW p \in EvProcs, StartProcess(p) \/ EndProcess(p) \/ AppendEvent(p)
      PROVE  KeptInv'
  <2>1. CASE StartProcess(p) \/ EndProcess(p) \/ BeginAppend(p)
    BY <2>1, FilesAreKept DEF StartProcess, EndProcess, BeginAppend
  <2>2. CASE RenameFails(p) \/ AppendFails(p)
    BY <2>2, FilesAreKept DEF RenameFails, AppendFails
  <2>3. CASE RecordFailure(p) \/ RecordRecovered(p)
    BY <2>3, FilesAreKept DEF RecordFailure, RecordRecovered
  <2> QED
    BY <1>3, <2>1, <2>2, <2>3, RotationKeeps, RenameKeeps, AppendKeeps DEF AppendEvent
<1> QED BY <1>1, <1>2, <1>3 DEF EventNext

\* An acknowledged event stays in its log or in an archive until that has expired, for
\* any number of processes, of which one rotates each log, and under every fault.
THEOREM AcknowledgedEventsAreKept ==
  ASSUME OneRotator
  PROVE  EventSpec => []EventsAreKept
<1>1. EventInit => KeptInv
  <2> SUFFICES ASSUME EventInit PROVE KeptInv
    OBVIOUS
  <2>1. EventFilesTyped
    BY EventAssumption DEF EventInit, EventFilesTyped, Files, Slot
  <2>2. ChosenNamesAreFree /\ EventsAreKept
    BY DEF EventInit, ChosenNamesAreFree, EventsAreKept
  <2> QED BY <2>1, <2>2 DEF KeptInv
<1>2. KeptInv /\ [EventNext]_eventVars => KeptInv'
  BY KeptNext
<1>3. KeptInv => EventsAreKept
  BY DEF KeptInv
<1> QED BY <1>1, <1>2, <1>3, PTL DEF EventSpec
=============================================================================
