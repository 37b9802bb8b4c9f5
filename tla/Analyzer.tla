------------------------------- MODULE Analyzer -------------------------------
(***************************************************************************)
(* The offline analyzer beside the running log: "analyze ingest"           *)
(* (analyze/analyze_ingest.cpp, analyze_ingest_db.cpp), which copies the    *)
(* rows that manifests point to into a database, and "analyze prune"        *)
(* (analyze/analyze_prune.cpp), which deletes archived chunks the database  *)
(* knows and database runs that are old.  Each takes the files one by one, *)
(* while the loop goes on writing them.                                    *)
(*                                                                         *)
(* One analyzer runs at a time.  A run of the database stands for its       *)
(* dependent rows too, which its deletion takes along.  Events, plant      *)
(* models and the manifest-free ingest of a single file are left out.      *)
(***************************************************************************)
EXTENDS RuntimeLog, FiniteSetsExt

CONSTANTS
  Kinds,     \* the commands that are given: a subset of JobKinds
  DbFaults   \* what can fail: a subset of {"insert", "die"}

JobKinds == {"ingest", "force", "prune"}

ASSUME AnalyzerAssumption ==
  /\ Kinds \subseteq JobKinds
  /\ DbFaults \subseteq {"insert", "die"}

\* A row of runs; whole if its CSV was the chunk's own archive.
Run ==
  [path : Path, chunk : Chunk, status : {"running", "rotated", "completed"},
   declared : Rows, rows : Rows, whole : BOOLEAN]

VARIABLES
  db,    \* the rows of runs
  kind,  \* the command being run, or "none"
  todo,  \* manifest paths it has yet to look at
  read   \* the manifest it is working on, or Missing

jobVars == <<kind, todo, read>>
vars    == <<logVars, db, jobVars>>

TypeOK ==
  /\ LogTypeOK
  /\ db \subseteq Run
  /\ kind \in Kinds \cup {"none"}
  /\ todo \subseteq Path
  /\ read \in Manifest \cup {Missing}

Init ==
  /\ LogInit
  /\ db = {}
  /\ kind = "none" /\ todo = {} /\ read = Missing

\* CollectManifestPaths: the archive's manifests in order, then the live one.
Begin(k) ==
  /\ kind = "none" /\ k \in Kinds
  /\ kind' = k
  /\ todo' = {p \in IF k = "prune" THEN Chunk ELSE Path : manifest[p] # Missing}
  /\ UNCHANGED <<logVars, db, read>>

This == Min(todo)
Done == todo' = todo \ {This}

\* Mutant: a session is known by the path of its manifest only.
SamePath(r, p, m) == r.path = p

\* IsManifestPathInDb or IsSessionInDb.
Same(r, p, m) == r.path = p \/ r.chunk = m.chunk

Known(p, m) == {r \in db : Same(r, p, m)}

-----------------------------------------------------------------------------
(* Ingest.                                                                 *)

Ingesting == kind \in {"ingest", "force"} /\ todo # {}

\* A manifest that has gone, or whose run is known.
Skip ==
  /\ Ingesting /\ read = Missing
  /\ manifest[This] # Missing =>
       kind = "ingest" /\ Known(This, manifest[This]) # {}
  /\ Done
  /\ UNCHANGED <<logVars, db, kind, read>>

\* The manifest is read, and a forced ingest deletes what is known of its run.
ReadManifest ==
  /\ Ingesting /\ read = Missing
  /\ manifest[This] # Missing
  /\ kind = "force" \/ Known(This, manifest[This]) = {}
  /\ read' = manifest[This]
  /\ db' = db \ Known(This, manifest[This])
  /\ UNCHANGED <<logVars, kind, todo>>

\* ResolvePairedCsv and ParseControlLoopCsv: the chunk's archive, for the live
\* manifest else the mirror, else no rows at all.
Parsed ==
  IF csv[read.chunk] # Missing THEN csv[read.chunk]
  ELSE IF This = Live THEN mirror.rows ELSE 0

InsertRun ==
  /\ Ingesting /\ read # Missing
  /\ db' = db \cup {[path |-> This, chunk |-> read.chunk, status |-> read.status,
                     declared |-> read.rows, rows |-> Parsed,
                     whole |-> csv[read.chunk] # Missing]}
  /\ read' = Missing /\ Done
  /\ UNCHANGED <<logVars, kind>>

\* The transaction is rolled back, and ingest goes on with the next manifest.
InsertFails ==
  /\ Ingesting /\ read # Missing /\ "insert" \in DbFaults
  /\ read' = Missing /\ Done
  /\ UNCHANGED <<logVars, db, kind>>

-----------------------------------------------------------------------------
(* Prune.                                                                  *)

Pruning == kind = "prune" /\ todo # {}

\* Skipped: unreadable, running, recent, or not ingested.
Prune(c) ==
  /\ manifest[c] # Missing
  /\ manifest[c].status # "running"
  /\ c \in old
  /\ Known(c, manifest[c]) # {}

KeepBundle ==
  /\ Pruning /\ ~Prune(This)
  /\ Done
  /\ UNCHANGED <<logVars, db, kind, read>>

\* DeleteBundle: the CSV, and only after it the manifest.  A CSV that the logger
\* still has open cannot be deleted.
DeleteBundle ==
  /\ Pruning /\ Prune(This)
  /\ \/ /\ ~Held(This)
        /\ csv' = [csv EXCEPT ![This] = Missing]
        /\ \/ manifest' = [manifest EXCEPT ![This] = Missing]
           \/ "remove" \in LogFaults /\ manifest' = manifest
     \/ (Held(This) \/ "remove" \in LogFaults)
        /\ UNCHANGED <<csv, manifest>>
  /\ Done
  /\ UNCHANGED <<mirror, old, hurt, procVars, db, kind, read>>

\* The command ends; a prune has deleted, in one transaction, the runs whose
\* session began before the cutoff.
End ==
  /\ kind # "none" /\ todo = {}
  /\ \/ db' = db
     \/ kind = "prune" /\ \E c \in 1 .. chunk : db' = {r \in db : r.chunk > c}
  /\ kind' = "none"
  /\ UNCHANGED <<logVars, todo, read>>

\* The command is interrupted between two transactions.
Die ==
  /\ kind # "none" /\ "die" \in DbFaults
  /\ kind' = "none" /\ todo' = {} /\ read' = Missing
  /\ UNCHANGED <<logVars, db>>

Analyze ==
  \/ \E k \in JobKinds : Begin(k)
  \/ Skip \/ ReadManifest \/ InsertRun \/ InsertFails
  \/ KeepBundle \/ DeleteBundle \/ End \/ Die

Log == LogNext /\ UNCHANGED <<db, jobVars>>

Next == Log \/ Analyze

Spec == Init /\ [][Next]_vars

-----------------------------------------------------------------------------
(* Properties.                                                             *)

\* However ingests, forced ingests, prunes and failures follow each other, and
\* although a run's manifest exists twice, the database has one run per session.
OneRunPerSession ==
  \A r, s \in db : r.path = s.path \/ r.chunk = s.chunk => r = s

\* A run ingested under a manifest that says its session has ended holds all the
\* rows its archive ever gets, unless the archive failed while it was written.
EndedRunsAreComplete ==
  \A r \in db :
    r.status # "running" /\ r.whole /\ r.chunk \notin hurt /\ csv[r.chunk] # Missing
      => r.rows = csv[r.chunk]

\* Prune deletes a chunk only when the database has absorbed its rows.
PrunedChunksAreAbsorbed ==
  [][\A c \in Chunk :
       kind = "prune" /\ csv[c] # Missing /\ csv'[c] = Missing /\ phase' = phase
         => \E r \in db : r.chunk = c /\ r.rows = csv[c]]_vars
=============================================================================
