------------------------------- MODULE CoreSweep -------------------------------
(***************************************************************************)
(* The all-core sweeper of the AMD reader (AllCoreSweepLoop in              *)
(* hardware/amd_reader.cpp): a thread of its own that reads the cycle       *)
(* counters of one processor after the other, adds up what they gained     *)
(* (AggregatePackageCycles in cpu_cycles.h) and publishes the sum, while   *)
(* the control thread copies what is published and may stop the sweeper at *)
(* any time.                                                               *)
(*                                                                         *)
(* A counter is read or not; what it gained is the span of sweeps since it  *)
(* was read last.  The window of a sweep starts when the one before did.    *)
(***************************************************************************)
EXTENDS Naturals

CONSTANTS
  Cores,      \* the processors, 1 .. lp_count
  MaxSweeps   \* bound: sweeps in a behaviour

ASSUME SweepAssumption == Cores \in Nat \ {0} /\ MaxSweeps \in Nat \ {0}

Core  == 1 .. Cores
Sweep == 0 .. MaxSweeps

VARIABLES
  worker,     \* where the sweeper is
  nextCore,   \* the processor it turns to next
  sweep,      \* allcore_sample_id of the sweep under way
  lastRead,   \* the sweep whose reading is prev_*[cpu], 0 without have_prev
  spans,      \* per_core: sweeps a processor's window spans; 0: blanked or baseline
  slow,       \* the sweep under way has a window beyond the cap
  locked,     \* the sweeper holds allcore_pub_mu
  published,  \* allcore_pub
  row,        \* what the control thread copied last
  stopping,   \* allcore_stop
  readIn      \* by sweep: the processors that were read in it (history)

sweepVars ==
  <<worker, nextCore, sweep, lastRead, spans, slow, locked, published, row, stopping, readIn>>

Nothing == [id |-> 0, cores |-> {}]

SweepTypeOK ==
  /\ worker \in {"absent", "starting", "waiting", "reading", "publishing", "ended"}
  /\ nextCore \in 1 .. Cores + 1
  /\ sweep \in Sweep
  /\ lastRead \in [Core -> Sweep]
  /\ spans \in [Core -> Sweep]
  /\ {slow, locked, stopping} \subseteq BOOLEAN
  /\ {published, row} \subseteq [id : Sweep, cores : SUBSET Core]
  /\ readIn \in [Sweep -> SUBSET Core]

SweepInit ==
  /\ worker = "absent" /\ nextCore = 1 /\ sweep = 0
  /\ lastRead = [c \in Core |-> 0]
  /\ spans = [c \in Core |-> 0]
  /\ slow = FALSE /\ locked = FALSE
  /\ published = Nothing /\ row = Nothing
  /\ stopping = FALSE
  /\ readIn = [s \in Sweep |-> {}]

-----------------------------------------------------------------------------
(* The control thread.                                                     *)

\* StartAllCoreWorker, unless the counters are disabled or the module is not
\* the expected one.
StartSweeper ==
  /\ worker = "absent" /\ ~stopping
  /\ worker' = "starting"
  /\ UNCHANGED <<nextCore, sweep, lastRead, spans, slow, locked, published, row, stopping, readIn>>

\* CopyAllCorePublished, under allcore_pub_mu.
CopyPublished ==
  /\ ~locked
  /\ row' = published
  /\ UNCHANGED <<worker, nextCore, sweep, lastRead, spans, slow, locked, published, stopping,
                 readIn>>

\* StopAllCoreWorker, which then joins the thread.
StopSweeper ==
  /\ ~stopping
  /\ stopping' = TRUE
  /\ UNCHANGED <<worker, nextCore, sweep, lastRead, spans, slow, locked, published, row, readIn>>

-----------------------------------------------------------------------------
(* The sweeper.                                                            *)

\* It has a handle of its own and its affinity, or ends without a sound.
OpenSweeper ==
  /\ worker = "starting"
  /\ worker' \in {"waiting", "ended"}
  /\ UNCHANGED <<nextCore, sweep, lastRead, spans, slow, locked, published, row, stopping, readIn>>

\* A cadence has passed.
BeginSweep ==
  /\ worker = "waiting" /\ ~stopping /\ sweep < MaxSweeps
  /\ worker' = "reading" /\ nextCore' = 1
  /\ sweep' = sweep + 1
  /\ slow' \in BOOLEAN
  /\ UNCHANGED <<lastRead, spans, locked, published, row, stopping, readIn>>

\* Both counters are read: AdvanceCycleWindow, which blanks what makes no sense.
ReadCore ==
  /\ worker = "reading" /\ nextCore \in Core
  /\ \E span \in {0, sweep - lastRead[nextCore]} :
       spans' = [spans EXCEPT ![nextCore] = IF lastRead[nextCore] = 0 \/ slow THEN 0 ELSE span]
  /\ lastRead' = [lastRead EXCEPT ![nextCore] = sweep]
  /\ readIn' = [readIn EXCEPT ![sweep] = @ \cup {nextCore}]
  /\ nextCore' = nextCore + 1
  /\ UNCHANGED <<worker, sweep, slow, locked, published, row, stopping>>

\* Mutant: a processor that is passed over keeps its baseline.
MissCoreOnly ==
  /\ worker = "reading" /\ nextCore \in Core
  /\ spans' = [spans EXCEPT ![nextCore] = 0]
  /\ nextCore' = nextCore + 1
  /\ UNCHANGED <<lastRead, worker, sweep, slow, locked, published, row, stopping, readIn>>

\* The thread does not get onto the processor, or a counter cannot be read.
MissCore ==
  /\ worker = "reading" /\ nextCore \in Core
  /\ spans' = [spans EXCEPT ![nextCore] = 0]
  /\ lastRead' = [lastRead EXCEPT ![nextCore] = 0]
  /\ nextCore' = nextCore + 1
  /\ UNCHANGED <<worker, sweep, slow, locked, published, row, stopping, readIn>>

\* AggregatePackageCycles: the sum over the processors with a window, unless it
\* makes no sense.  The fields are set one after the other.
Publish ==
  /\ worker = "reading" /\ nextCore \notin Core
  /\ worker' = "publishing" /\ locked' = TRUE
  /\ published' = [published EXCEPT !.id = sweep]
  /\ UNCHANGED <<nextCore, sweep, lastRead, spans, slow, row, stopping, readIn>>

PublishSum ==
  /\ worker = "publishing"
  /\ \E cores \in {{c \in Core : spans[c] > 0}, {}} :
       published' = [published EXCEPT !.cores = cores]
  /\ worker' = "waiting" /\ locked' = FALSE
  /\ UNCHANGED <<nextCore, sweep, lastRead, spans, slow, row, stopping, readIn>>

\* It sees the stop, or an exception ends it.
EndSweeper ==
  /\ worker = "reading" \/ (worker = "waiting" /\ stopping)
  /\ worker' = "ended"
  /\ UNCHANGED <<nextCore, sweep, lastRead, spans, slow, locked, published, row, stopping, readIn>>

SweepNext ==
  \/ StartSweeper \/ CopyPublished \/ StopSweeper
  \/ OpenSweeper \/ BeginSweep \/ ReadCore \/ MissCore
  \/ Publish \/ PublishSum \/ EndSweeper

SweepSpec == SweepInit /\ [][SweepNext]_sweepVars

-----------------------------------------------------------------------------
(* Properties.                                                             *)

\* The sum in a row of the log comes from processors whose counters were read in
\* the sweep the row names and in the one before it, whatever was passed over
\* and whenever the control thread looked: the sum and the window fit together.
RowsSpanOneSweep ==
  row.id > 0 => row.cores \subseteq readIn[row.id] \cap readIn[row.id - 1]
=============================================================================
