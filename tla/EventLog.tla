------------------------------- MODULE EventLog -------------------------------
(***************************************************************************)
(* The event log (AppendRuntimeEvent in runtime/runtime_event_log.cpp) as   *)
(* the processes of a runtime home use it at once: the worker, supervisor   *)
(* and commands append to one file, an evidence run to one of its own, and  *)
(* all of them keep the one report logging_health.json about it.           *)
(*                                                                         *)
(* Within a process appends are serialised by the registry's mutex; between *)
(* processes nothing but the file system orders them.  A file is the set of *)
(* the events whose lines it holds; the counts of events that a status      *)
(* shows are left out.                                                     *)
(***************************************************************************)
EXTENDS Naturals

CONSTANTS
  EvProcs,      \* processes
  Logs,         \* event logs, by artifact naming
  LogOf,        \* the log a process appends to
  Rotators,     \* processes that have configured retention
  Event,        \* bound: events that can be kept at a time
  MaxArchives,  \* bound: archives of a log
  EvFaults,     \* what can fail: a subset of EvFaultKinds
  NoFile        \* no such file

EvFaultKinds == {"append", "partial", "rename", "report", "read"}

ASSUME EventAssumption ==
  /\ LogOf \in [EvProcs -> Logs]
  /\ Rotators \subseteq EvProcs
  /\ MaxArchives \in Nat \ {0}
  /\ EvFaults \subseteq EvFaultKinds
  /\ NoFile \notin Logs \cup EvProcs /\ \A file \in SUBSET Event : NoFile # file

Slot == 1 .. MaxArchives

\* What a file may hold, if it is there.
Files == {NoFile} \cup SUBSET Event

VARIABLES
  evAt,      \* by process: "down", "idle", or where in AppendRuntimeEvent it is
  target,    \* the archive name a rotation has chosen
  lost,      \* WriteFailureState::active
  probed,    \* recovery_probe_done
  unsaved,   \* fallback_write_failed
  misread,   \* the report could not be read when it was probed (history)
  events,    \* by log: events in the active file, or NoFile
  torn,      \* the active file ends in a part of a line
  archives,  \* by log and name: events in the archive, or NoFile
  expired,   \* archives past retain_days
  report,    \* logging_health.json
  acked,     \* events appended successfully, still to be kept (history)
  glued      \* of those, events whose line starts with another's part (history)

memoryVars == <<lost, probed, unsaved, misread>>
eventFiles == <<events, torn, archives, expired, acked, glued>>
eventVars  == <<evAt, target, memoryVars, eventFiles, report>>

\* by is the process that wrote it, before the processes that had probed by then.
NoReport == [active |-> FALSE, log |-> NoFile, by |-> NoFile, before |-> {}]

EventTypeOK ==
  /\ evAt \in [EvProcs -> {"down", "idle", "renaming", "appending", "appended", "failed"}]
  /\ target \in [EvProcs -> Slot]
  /\ {lost, probed, unsaved, misread} \subseteq [EvProcs -> BOOLEAN]
  /\ events \in [Logs -> Files]
  /\ torn \in [Logs -> BOOLEAN]
  /\ archives \in [Logs -> [Slot -> Files]]
  /\ expired \in [Logs -> SUBSET Slot]
  /\ acked \in [Logs -> SUBSET Event] /\ glued \in [Logs -> SUBSET Event]
  /\ report.active \in BOOLEAN /\ report.before \subseteq EvProcs

EventInit ==
  /\ evAt = [p \in EvProcs |-> "down"]
  /\ target = [p \in EvProcs |-> 1]
  /\ lost = [p \in EvProcs |-> FALSE] /\ probed = [p \in EvProcs |-> FALSE]
  /\ unsaved = [p \in EvProcs |-> FALSE] /\ misread = [p \in EvProcs |-> FALSE]
  /\ events = [l \in Logs |-> NoFile] /\ torn = [l \in Logs |-> FALSE]
  /\ archives = [l \in Logs |-> [s \in Slot |-> NoFile]]
  /\ expired = [l \in Logs |-> {}]
  /\ report = NoReport
  /\ acked = [l \in Logs |-> {}] /\ glued = [l \in Logs |-> {}]

EvGoto(p, where) == evAt' = [evAt EXCEPT ![p] = where]

\* A process starts with an empty registry, and ends or dies anywhere.
StartProcess(p) ==
  /\ evAt[p] = "down"
  /\ EvGoto(p, "idle")
  /\ UNCHANGED <<target, memoryVars, eventFiles, report>>

EndProcess(p) ==
  /\ evAt[p] # "down"
  /\ EvGoto(p, "down")
  /\ lost' = [lost EXCEPT ![p] = FALSE] /\ probed' = [probed EXCEPT ![p] = FALSE]
  /\ unsaved' = [unsaved EXCEPT ![p] = FALSE] /\ misread' = [misread EXCEPT ![p] = FALSE]
  /\ target' = [target EXCEPT ![p] = 1]
  /\ UNCHANGED <<eventFiles, report>>

-----------------------------------------------------------------------------
(* RotateEventLogIfDueLocked.                                              *)

\* Mutant: the name of the time alone, also when there is such an archive.
SomeName(l) == Slot

\* ResolveEventArchivePath: a name no archive has.
FreeNames(l) == {s \in Slot : archives[l][s] = NoFile}

\* Without a due rotation the line is written at once; a routine event may not be
\* written at all (ShouldPersistEvent).
BeginAppend(p) ==
  /\ evAt[p] = "idle"
  /\ EvGoto(p, "appending")
  /\ UNCHANGED <<target, memoryVars, eventFiles, report>>

BeginRotation(p) ==
  /\ evAt[p] = "idle" /\ p \in Rotators
  /\ events[LogOf[p]] # NoFile
  /\ \E s \in FreeNames(LogOf[p]) : target' = [target EXCEPT ![p] = s]
  /\ EvGoto(p, "renaming")
  /\ UNCHANGED <<memoryVars, eventFiles, report>>

\* PruneOldEventArchives.
Retained(l, a) == [s \in Slot |-> IF s \in expired[l] THEN NoFile ELSE a[s]]

EventsIn(file)   == IF file = NoFile THEN {} ELSE file
ArchivedIn(a)    == UNION {EventsIn(a[s]) : s \in Slot}

\* The active file becomes the archive, and what has expired goes.  A renamed file
\* keeps its time.
RenameLog(p) ==
  /\ evAt[p] = "renaming"
  /\ LET l == LogOf[p]
         moved == [archives[l] EXCEPT ![target[p]] = events[l]]
     IN /\ events[l] # NoFile
        /\ archives' = [archives EXCEPT ![l] = Retained(l, moved)]
        /\ acked' = [acked EXCEPT ![l] = @ \ (ArchivedIn(moved) \ ArchivedIn(Retained(l, moved)))]
        /\ expired' = [expired EXCEPT ![l] = {}]
        /\ events' = [events EXCEPT ![l] = NoFile]
        /\ torn' = [torn EXCEPT ![l] = FALSE]
  /\ target' = [target EXCEPT ![p] = 1]
  /\ EvGoto(p, "appending")
  /\ UNCHANGED <<memoryVars, report, glued>>

\* The directory cannot be made, or the file has gone or cannot be renamed.
RenameFails(p) ==
  /\ evAt[p] = "renaming"
  /\ "rename" \in EvFaults \/ events[LogOf[p]] = NoFile
  /\ target' = [target EXCEPT ![p] = 1]
  /\ EvGoto(p, "appending")
  /\ UNCHANGED <<memoryVars, eventFiles, report>>

-----------------------------------------------------------------------------
(* AppendLineAtomic: one write at the end of the file, opened for it.      *)

AppendLine(p) ==
  /\ evAt[p] = "appending"
  /\ LET l == LogOf[p]
     IN \E e \in Event \ acked[l] :
          /\ events' = [events EXCEPT ![l] = EventsIn(@) \cup IF torn[l] THEN {} ELSE {e}]
          /\ acked' = [acked EXCEPT ![l] = @ \cup {e}]
          /\ glued' = [glued EXCEPT ![l] = @ \cup IF torn[l] THEN {e} ELSE {}]
          /\ torn' = [torn EXCEPT ![l] = FALSE]
  /\ EvGoto(p, "appended")
  /\ UNCHANGED <<target, memoryVars, archives, expired, report>>

AppendFails(p) ==
  /\ evAt[p] = "appending" /\ "append" \in EvFaults
  /\ EvGoto(p, "failed")
  /\ UNCHANGED <<target, memoryVars, eventFiles, report>>

\* A part of the line is written.
AppendPartly(p) ==
  /\ evAt[p] = "appending" /\ "partial" \in EvFaults
  /\ LET l == LogOf[p]
     IN /\ torn' = [torn EXCEPT ![l] = TRUE]
        /\ events' = [events EXCEPT ![l] = EventsIn(@)]
  /\ EvGoto(p, "failed")
  /\ UNCHANGED <<target, memoryVars, archives, expired, acked, glued, report>>

-----------------------------------------------------------------------------
(* The report.                                                             *)

\* WriteLoggingHealthFallback, whose result is kept in unsaved.
WriteReport(p, active) ==
  \/ /\ report' = [active |-> active, log |-> LogOf[p], by |-> p,
                   before |-> {q \in EvProcs : probed'[q]}]
     /\ unsaved' = [unsaved EXCEPT ![p] = FALSE]
  \/ /\ "report" \in EvFaults
     /\ unsaved' = [unsaved EXCEPT ![p] = TRUE]
     /\ UNCHANGED report

\* RecordEventLogWriteFailureLocked: the first failure is reported, and the others
\* until a report has been written.
RecordFailure(p) ==
  /\ evAt[p] = "failed"
  /\ lost' = [lost EXCEPT ![p] = TRUE]
  /\ probed' = [probed EXCEPT ![p] = TRUE]
  /\ IF ~lost[p] \/ unsaved[p] THEN WriteReport(p, TRUE) ELSE UNCHANGED <<unsaved, report>>
  /\ EvGoto(p, "idle")
  /\ UNCHANGED <<target, misread, eventFiles>>

\* LoadActiveFallbackState.
FailureOnRecord(p) == report.active /\ report.log = LogOf[p]

\* Mutant: a process clears only what it reported itself.
ClearsOwn(p, readable) == lost[p]

\* The first success looks for a failure that another process has left behind.
Clears(p, readable) == lost[p] \/ (~probed[p] /\ readable /\ FailureOnRecord(p))

\* RecordEventLogWriteRecoveredLocked.
RecordRecovered(p) ==
  /\ evAt[p] = "appended"
  /\ \E readable \in IF "read" \in EvFaults THEN BOOLEAN ELSE {TRUE} :
       /\ misread' = [misread EXCEPT ![p] = @ \/ (~lost[p] /\ ~probed[p] /\ ~readable)]
       /\ probed' = [probed EXCEPT ![p] = @ \/ ~lost[p]]
       /\ lost' = [lost EXCEPT ![p] = FALSE]
       /\ IF Clears(p, readable) THEN WriteReport(p, FALSE) ELSE UNCHANGED <<unsaved, report>>
  /\ EvGoto(p, "idle")
  /\ UNCHANGED <<target, eventFiles>>

\* Nothing has been written to an archive for retain_days.
Expire ==
  /\ \E l \in Logs : \E s \in Slot \ expired[l] :
       /\ archives[l][s] # NoFile
       /\ expired' = [expired EXCEPT ![l] = @ \cup {s}]
  /\ UNCHANGED <<evAt, target, memoryVars, events, torn, archives, acked, glued, report>>

AppendEvent(p) ==
  \/ BeginAppend(p) \/ BeginRotation(p) \/ RenameLog(p) \/ RenameFails(p)
  \/ AppendLine(p) \/ AppendFails(p) \/ AppendPartly(p)
  \/ RecordFailure(p) \/ RecordRecovered(p)

EventNext ==
  \/ \E p \in EvProcs : StartProcess(p) \/ EndProcess(p) \/ AppendEvent(p)
  \/ Expire

EventSpec == EventInit /\ [][EventNext]_eventVars

-----------------------------------------------------------------------------
(* Properties.                                                             *)

\* A report of a failure does not outlive it: a process that has appended an event
\* since, and could read and write the report, has cleared it, unless another
\* process has failed after that.
OldReportsAreCleared ==
  \A p \in EvProcs :
    evAt[p] = "idle" /\ probed[p] /\ ~lost[p] /\ ~unsaved[p] /\ ~misread[p] =>
      (FailureOnRecord(p) => report.by # p /\ p \in report.before)

\* An event that was acknowledged is in the log or in an archive for as long as
\* that is retained, whichever processes appended, rotated or died meanwhile; only
\* its line may start with a part of one that failed.
EventsAreKept ==
  \A l \in Logs :
    acked[l] \ glued[l] \subseteq EventsIn(events[l]) \cup ArchivedIn(archives[l])
=============================================================================
