------------------------------ MODULE MCRecords ------------------------------
(***************************************************************************)
(* Instances for TLC of what a runtime home keeps: the rows and their      *)
(* database (Analyzer), and beside them the event log.  The two share no   *)
(* state: a behaviour moves one, chosen at the start.                      *)
(***************************************************************************)
EXTENDS Analyzer, EventLog

VARIABLE record   \* the record that moves

Records == {"rows", "events"}

RecordsInit == record \in Records /\ Init /\ EventInit

RecordsNext ==
  /\ \/ record = "rows"   /\ Next      /\ UNCHANGED eventVars
     \/ record = "events" /\ EventNext /\ UNCHANGED vars
  /\ UNCHANGED record

RecordsSpec == RecordsInit /\ [][RecordsNext]_<<record, vars, eventVars>>

\* What can go wrong with the files the analyzer deals with.
FailingArchive == {"archive", "remove"}
NoFaults       == {}

AllJobs  == JobKinds
Routine  == {"ingest", "prune"}
AnyFault == {"insert", "die"}

AllEvFaults == EvFaultKinds
SharedLog   == [p \in EvProcs |-> CHOOSE l \in Logs : TRUE]
=============================================================================
