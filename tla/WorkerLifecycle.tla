---------------------------- MODULE WorkerLifecycle ----------------------------
(***************************************************************************)
(* What a worker process promises whoever watches it through its handle:   *)
(* it reports success only for a shutdown that somebody asked for, and a   *)
(* loop that gave up by itself never does.  The worker keeps this promise  *)
(* (FanControl), and the supervisor counts on no more (Supervisor).        *)
(***************************************************************************)
CONSTANT Process

VARIABLES
  life,    \* by process: how far it is, or how its last incarnation ended
  asked    \* a request that ends the loop is on file

vars == <<life, asked>>

Over == {"gone", "exit0", "exit1"}
Live == {"starting", "running", "stopping", "aborting", "hung"}

Init == life = [p \in Process |-> "gone"] /\ asked \in BOOLEAN

Becomes(p, from, to) == life[p] \in from /\ life'[p] \in to

\* A process that is refused at once is never seen to start.
Begins(p) == Becomes(p, Over, {"starting", "exit1"})
Loops(p)  == Becomes(p, {"starting"}, {"running"})
Stops(p)  == Becomes(p, {"running"}, {"stopping"}) /\ asked
Aborts(p) == Becomes(p, {"running"}, {"aborting"})
Hangs(p)  == Becomes(p, Live, {"hung"})

Succeeds(p) == Becomes(p, {"stopping"}, {"exit0"})

\* It fails, dies or is terminated, or nobody is left to ask for its status.
Fails(p)    == Becomes(p, Live, {"exit1", "gone"})
Forgets(p)  == Becomes(p, Over, {"gone"})

Step(p) ==
  \/ Begins(p) \/ Loops(p) \/ Stops(p) \/ Aborts(p) \/ Hangs(p)
  \/ Succeeds(p) \/ Fails(p) \/ Forgets(p)

Next ==
  /\ life' \in [Process -> Over \cup Live]
  /\ \A p \in Process : life'[p] = life[p] \/ Step(p)
  /\ asked' \in BOOLEAN

Spec == Init /\ [][Next]_vars
=============================================================================
