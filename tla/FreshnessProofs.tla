---------------------------- MODULE FreshnessProofs ----------------------------
(***************************************************************************)
(* Proofs about what is read, and how old it is when it is used: the sum of *)
(* the core sweeper (CoreSweep), the inputs of a tick (Sensors), what the   *)
(* read loop says of its data (ReadLoop), the windows of the energy and the *)
(* cycle counters (CounterWindows), and what the watchdog makes of a        *)
(* worker's status (Heartbeat).  The parts share no state.                  *)
(***************************************************************************)
EXTENDS CoreSweep, Sensors, ReadLoop, CounterWindows, Heartbeat, TLAPS

-----------------------------------------------------------------------------
(* The sum of the core sweeper.                                            *)

\* A sum and the sweep it names fit together.
Covered(s) == s.id > 0 => s.cores \subseteq readIn[s.id] \cap readIn[s.id - 1]

\* A processor's baseline is from a sweep it was read in: from the one under way
\* once it has been passed, else from the one before.
Baselines ==
  /\ \A c \in Core : lastRead[c] # 0 => c \in readIn[lastRead[c]]
  /\ worker \in {"absent", "starting", "waiting", "publishing"} =>
       \A c \in Core : lastRead[c] \in {0, sweep}
  /\ worker = "reading" =>
       \A c \in Core : lastRead[c] \in IF c < nextCore THEN {0, sweep} ELSE {0, sweep - 1}

\* A window that counts spans the sweep under way.
Windows ==
  worker \in {"reading", "publishing"} =>
    /\ sweep > 0
    /\ worker = "publishing" => nextCore = Cores + 1
    /\ \A c \in Core :
         c < nextCore /\ spans[c] > 0 => c \in readIn[sweep] \cap readIn[sweep - 1]

\* What is published is covered, unless the lock is held.
SumIsCovered ==
  /\ worker = "publishing" => locked /\ published.id = sweep
  /\ worker # "publishing" => Covered(published)
  /\ Covered(row)

SweepInv == SweepTypeOK /\ Baselines /\ Windows /\ SumIsCovered

LEMMA SweepInvInit == SweepInit => SweepInv
<1> SUFFICES ASSUME SweepInit PROVE SweepInv
  OBVIOUS
<1> USE SweepAssumption DEF SweepInit
<1>1. SweepTypeOK
  <2>1. 1 \in 1 .. Cores + 1 /\ 0 \in Sweep
    BY DEF Sweep
  <2>2. Nothing \in [id : Sweep, cores : SUBSET Core]
    BY <2>1 DEF Nothing
  <2>3. /\ lastRead \in [Core -> Sweep] /\ spans \in [Core -> Sweep]
        /\ readIn \in [Sweep -> SUBSET Core]
    BY <2>1
  <2> QED BY <2>1, <2>2, <2>3 DEF SweepTypeOK
<1>2. Baselines /\ Windows
  BY DEF Baselines, Windows
<1>3. SumIsCovered
  BY DEF SumIsCovered, Covered, Nothing
<1> QED BY <1>1, <1>2, <1>3 DEF SweepInv

\* Readings that are added take no cover away.
LEMMA CoveredStays ==
  ASSUME SweepTypeOK, \A s \in Sweep : readIn[s] \subseteq readIn'[s],
         NEW r \in {published, row}, Covered(r)
  PROVE  r.id > 0 => r.cores \subseteq readIn'[r.id] \cap readIn'[r.id - 1]
<1>1. r \in [id : Sweep, cores : SUBSET Core]
  BY DEF SweepTypeOK
<1>2. r.id > 0 => r.id \in Sweep /\ r.id - 1 \in Sweep
  BY <1>1, SweepAssumption DEF Sweep
<1> QED BY <1>2 DEF Covered

LEMMA SweepInvNext ==
  ASSUME SweepInv, [SweepNext]_sweepVars
  PROVE  SweepInv'
<1> USE SweepAssumption DEF SweepInv, SweepTypeOK, Core, Sweep
<1>1. CASE StartSweeper
  BY <1>1 DEF StartSweeper, Baselines, Windows, SumIsCovered, Covered
<1>2. CASE CopyPublished
  BY <1>2 DEF CopyPublished, Baselines, Windows, SumIsCovered, Covered
<1>3. CASE StopSweeper
  BY <1>3 DEF StopSweeper, Baselines, Windows, SumIsCovered, Covered
<1>4. CASE OpenSweeper
  BY <1>4 DEF OpenSweeper, Baselines, Windows, SumIsCovered, Covered
<1>5. CASE BeginSweep
  BY <1>5 DEF BeginSweep, Baselines, Windows, SumIsCovered, Covered
<1>6. CASE ReadCore
  <2>1. PICK span \in {0, sweep - lastRead[nextCore]} :
          spans' = [spans EXCEPT ![nextCore] = IF lastRead[nextCore] = 0 \/ slow THEN 0
                                               ELSE span]
    BY <1>6 DEF ReadCore
  <2>2. /\ worker = "reading" /\ nextCore \in Core /\ nextCore' = nextCore + 1
        /\ lastRead' = [lastRead EXCEPT ![nextCore] = sweep]
        /\ readIn' = [readIn EXCEPT ![sweep] = @ \cup {nextCore}]
        /\ UNCHANGED <<worker, sweep, slow, locked, published, row, stopping>>
    BY <1>6 DEF ReadCore
  <2>3. sweep > 0 /\ sweep \in Sweep /\ lastRead[nextCore] \in {0, sweep - 1}
    BY <2>2 DEF Baselines, Windows
  <2>4. span \in {0, 1} \/ lastRead[nextCore] = 0
    BY <2>1, <2>3
  <2>5. spans' \in [Core -> Sweep]
    BY <2>1, <2>2, <2>3, <2>4
  <2>6. SweepTypeOK'
    <3>1. lastRead' \in [Core -> Sweep] /\ readIn' \in [Sweep -> SUBSET Core]
      BY <2>2, <2>3
    <3>2. nextCore' \in 1 .. Cores + 1
      BY <2>2
    <3> QED BY <2>2, <2>5, <3>1, <3>2
  <2>7. \A s \in Sweep : readIn[s] \subseteq readIn'[s]
    BY <2>2
  <2>8. nextCore \in readIn'[sweep]
    BY <2>2
  <2>9. Baselines'
    <3>1. \A c \in Core : c # nextCore => lastRead'[c] = lastRead[c]
      BY <2>2
    <3>2. lastRead'[nextCore] = sweep
      BY <2>2
    <3>3. \A c \in Core : lastRead'[c] # 0 => c \in readIn'[lastRead'[c]]
      BY <2>7, <2>8, <3>1, <3>2 DEF Baselines
    <3>4. \A c \in Core : lastRead'[c] \in IF c < nextCore + 1 THEN {0, sweep} ELSE {0, sweep - 1}
      BY <2>2, <3>1, <3>2 DEF Baselines
    <3> QED BY <2>2, <3>3, <3>4 DEF Baselines
  <2>10. Windows'
    <3> SUFFICES ASSUME NEW c \in Core, c < nextCore + 1, spans'[c] > 0
                 PROVE  c \in readIn'[sweep] \cap readIn'[sweep - 1]
      BY <2>2, <2>3 DEF Windows
    <3>1. CASE c = nextCore
      <4>1. lastRead[c] = sweep - 1 /\ lastRead[c] # 0
        BY <2>1, <2>2, <2>3, <3>1
      <4> QED BY <4>1, <2>3, <2>7, <2>8, <3>1 DEF Baselines
    <3>2. CASE c # nextCore
      <4>1. c < nextCore /\ spans[c] > 0
        BY <2>1, <2>2, <3>2
      <4> QED BY <4>1, <2>2, <2>3, <2>7 DEF Windows
    <3> QED BY <3>1, <3>2
  <2>11. SumIsCovered'
    <3>1. /\ published.id > 0 => 
               published.cores \subseteq readIn'[published.id] \cap readIn'[published.id - 1]
          /\ row.id > 0 => row.cores \subseteq readIn'[row.id] \cap readIn'[row.id - 1]
      BY <2>2, <2>7, CoveredStays DEF SumIsCovered
    <3> QED BY <2>2, <3>1 DEF SumIsCovered, Covered
  <2> QED BY <2>6, <2>9, <2>10, <2>11
<1>7. CASE MissCore
  <2>1. /\ worker = "reading" /\ nextCore \in Core /\ nextCore' = nextCore + 1
        /\ spans' = [spans EXCEPT ![nextCore] = 0]
        /\ lastRead' = [lastRead EXCEPT ![nextCore] = 0]
        /\ UNCHANGED <<worker, sweep, slow, locked, published, row, stopping, readIn>>
    BY <1>7 DEF MissCore
  <2>2. SweepTypeOK'
    BY <2>1
  <2>3. Baselines' /\ Windows'
    BY <2>1 DEF Baselines, Windows
  <2>4. SumIsCovered'
    BY <2>1 DEF SumIsCovered, Covered
  <2> QED BY <2>2, <2>3, <2>4
<1>8. CASE Publish
  <2>1. /\ worker = "reading" /\ nextCore \notin Core /\ worker' = "publishing"
        /\ locked' = TRUE /\ published' = [published EXCEPT !.id = sweep]
        /\ UNCHANGED <<nextCore, sweep, lastRead, spans, slow, row, stopping, readIn>>
    BY <1>8 DEF Publish
  <2>2. published \in [id : Sweep, cores : SUBSET Core]
    OBVIOUS
  <2>3. published' \in [id : Sweep, cores : SUBSET Core] /\ published'.id = sweep
    BY <2>1, <2>2
  <2>4. SweepTypeOK'
    BY <2>1, <2>3
  <2>5. nextCore = Cores + 1
    BY <2>1
  <2>6. Baselines' /\ Windows'
    BY <2>1, <2>5 DEF Baselines, Windows
  <2>7. SumIsCovered'
    BY <2>1, <2>3 DEF SumIsCovered, Covered
  <2> QED BY <2>4, <2>6, <2>7
<1>9. CASE PublishSum
  <2>1. /\ worker = "publishing" /\ worker' = "waiting" /\ locked' = FALSE
        /\ UNCHANGED <<nextCore, sweep, lastRead, spans, slow, row, stopping, readIn>>
    BY <1>9 DEF PublishSum
  <2>2. PICK cores \in {{c \in Core : spans[c] > 0}, {}} :
          published' = [published EXCEPT !.cores = cores]
    BY <1>9 DEF PublishSum
  <2>3. published \in [id : Sweep, cores : SUBSET Core] /\ published.id = sweep
    BY <2>1 DEF SumIsCovered
  <2>4. cores \subseteq Core
    OBVIOUS
  <2>5. /\ published' \in [id : Sweep, cores : SUBSET Core]
        /\ published'.id = sweep /\ published'.cores = cores
    BY <2>2, <2>3, <2>4
  <2>6. SweepTypeOK'
    BY <2>1, <2>5
  <2>7. cores \subseteq readIn[sweep] \cap readIn[sweep - 1]
    BY <2>1 DEF Windows
  <2>8. Baselines' /\ Windows'
    BY <2>1 DEF Baselines, Windows
  <2>9. SumIsCovered'
    BY <2>1, <2>5, <2>7 DEF SumIsCovered, Covered
  <2> QED BY <2>6, <2>8, <2>9
<1>10. CASE EndSweeper
  BY <1>10 DEF EndSweeper, Baselines, Windows, SumIsCovered, Covered
<1>11. CASE UNCHANGED sweepVars
  BY <1>11 DEF sweepVars, Baselines, Windows, SumIsCovered, Covered
<1> QED
  BY <1>1, <1>2, <1>3, <1>4, <1>5, <1>6, <1>7, <1>8, <1>9, <1>10, <1>11 DEF SweepNext

\* A sum in a row comes from processors that were read in the sweep the row names
\* and in the one before, for any number of processors and sweeps and wherever the
\* control thread looks or stops the sweeper: the sum is only ever incomplete under
\* the lock.
THEOREM RowsSpanSweeps == SweepSpec => []RowsSpanOneSweep
<1>1. SweepInv => RowsSpanOneSweep
  BY DEF SweepInv, SumIsCovered, Covered, RowsSpanOneSweep
<1> QED BY <1>1, SweepInvInit, SweepInvNext, PTL DEF SweepSpec
-----------------------------------------------------------------------------
(* The inputs of a tick.                                                   *)

SensorInv == SensorTypeOK /\ InputsAreOfThisTick

LEMMA SensorInvNext ==
  ASSUME SensorInv, NEW w \in World, SampleSnapshot, world' = w,
         amd' = MergedAmd(w), cpuInput' = MergedAmd(w)["tctl"],
         gpuInput' = IF GpuAvailable(w) THEN GpuEnvelope(w) ELSE Undefined,
         cache' = Cached(w),
         loadAge' = IF (ContextDue(w) /\ w.load # Undefined) \/ cache.load = Undefined THEN 0
                    ELSE IF loadAge <= Refresh THEN loadAge + 1 ELSE loadAge
  PROVE  SensorInv'
<1> USE SensorAssumption
<1>1. amd' \in [Labels -> Degrees \cup {Undefined}] /\ cpuInput' \in Degrees \cup {Undefined}
  BY DEF MergedAmd, AmdSamples, NoSamples, Labels, World
<1>2. gpuInput' \in Degrees \cup {0, Undefined}
  BY DEF GpuAvailable, GpuEnvelope, World
<1>3. /\ cache \in [load : Loads \cup {Undefined}, age : 0 .. Refresh + 1]
      /\ loadAge \in 0 .. Refresh + 1
  BY DEF SensorInv, SensorTypeOK
<1>4. /\ Cached(w) \in [load : Loads \cup {Undefined}, age : 0 .. Refresh + 1]
      /\ Cached(w).load # Undefined => Cached(w).age = loadAge'
  <2>1. CacheAge \in 0 .. Refresh + 1
    BY <1>3 DEF CacheAge
  <2>2. CASE ContextDue(w) /\ w.load # Undefined
    <3>1. Cached(w) = [load |-> w.load, age |-> 0] /\ loadAge' = 0
      BY <2>2 DEF Cached
    <3>2. w.load \in Loads \cup {Undefined}
      BY DEF World
    <3>3. 0 \in 0 .. Refresh + 1
      OBVIOUS
    <3> HIDE SensorAssumption
    <3> QED BY <3>1, <3>2, <3>3
  <2>3. CASE ~(ContextDue(w) /\ w.load # Undefined) /\ cache.load = Undefined
    BY <2>3 DEF Cached, NoContext
  <2>4. CASE ~(ContextDue(w) /\ w.load # Undefined) /\ cache.load # Undefined
    <3>1. Cached(w) = [cache EXCEPT !.age = CacheAge]
      BY <2>4 DEF Cached
    <3>2. cache.age = loadAge
      BY <2>4 DEF SensorInv, InputsAreOfThisTick
    <3>3. Cached(w) = [load |-> cache.load, age |-> CacheAge]
      BY <1>3, <3>1
    <3>4. CacheAge = loadAge'
      BY <2>4, <3>2 DEF CacheAge
    <3> QED BY <1>3, <2>1, <3>3, <3>4
  <2> QED BY <2>2, <2>3, <2>4
<1>5. loadAge' \in 0 .. Refresh + 1
  BY <1>3
<1>6. cpuInput' # Undefined => world'.tctl = cpuInput'
  BY DEF MergedAmd, AmdSamples, NoSamples, Labels
<1>7. gpuInput' \notin {0, Undefined} => world'.gpu = gpuInput'
  BY DEF GpuAvailable, GpuEnvelope
<1> QED BY <1>1, <1>2, <1>4, <1>5, <1>6, <1>7 DEF SensorInv, SensorTypeOK, InputsAreOfThisTick

\* Every tick works with what the sensors answer in it, and the workload context is
\* as old as its row says, for every refresh interval and every set of readings.
THEOREM InputsAreFresh == SensorSpec => []InputsAreOfThisTick
<1>1. SensorInit => SensorInv
  <2> SUFFICES ASSUME SensorInit PROVE SensorInv
    OBVIOUS
  <2>1. world \in World /\ world.tctl = Undefined
    BY DEF SensorInit, World
  <2> QED
    BY <2>1, SensorAssumption
       DEF SensorInit, SensorInv, SensorTypeOK, InputsAreOfThisTick, NoSamples, NoContext
<1>2. SensorInv /\ [SampleSnapshot]_sensorVars => SensorInv'
  <2>1. CASE SampleSnapshot
    BY <2>1, SensorInvNext DEF SampleSnapshot
  <2>2. CASE UNCHANGED sensorVars
    BY <2>2 DEF SensorInv, SensorTypeOK, InputsAreOfThisTick, sensorVars
  <2> QED BY <2>1, <2>2
<1>3. SensorInv => InputsAreOfThisTick
  BY DEF SensorInv
<1> QED BY <1>1, <1>2, <1>3, PTL DEF SensorSpec

-----------------------------------------------------------------------------
(* The read loop.                                                          *)

\* Neither file is older than the last success, which an unflagged loop knows of.
ReadInv ==
  /\ ReadTypeOK
  /\ rlMode = "read-loop" /\ rlAt = "polling" =>
       /\ homeAge <= quiet
       /\ HasMirror => mirrorAge <= quiet
       /\ ~told => quiet <= StaleLimit

\* Ages keep their bound
LEMMA LaterIsBounded ==
  ASSUME NEW a \in Span, NEW d \in PollTime
  PROVE  Later(a, d) \in Span
BY ReadLoopAssumption DEF Later, Span

\* and their order.
LEMMA LaterIsMonotone ==
  ASSUME NEW a \in Span, NEW b \in Span, a <= b, NEW d \in PollTime
  PROVE  Later(a, d) <= Later(b, d)
BY ReadLoopAssumption DEF Later, Span

LEMMA ReadInvNext ==
  ASSUME ReadInv, [ReadNext]_rlVars
  PROVE  ReadInv'
<1> USE ReadLoopAssumption
<1> USE DEF ReadInv, ReadTypeOK
<1>0. quiet \in Span /\ homeAge \in Span /\ mirrorAge \in Span /\ 0 \in Span
  BY DEF Span
<1>1. CASE OpenLog
  BY <1>1 DEF OpenLog, Tell
<1>2. CASE OpenReaders
  BY <1>0, <1>2 DEF OpenReaders, Tell
<1>3. CASE EndReading
  BY <1>3 DEF EndReading, Tell
<1>4. CASE AskReader
  BY <1>4 DEF AskReader
<1>5. CASE TakeSample
  <2>1. PICK s \in Sample, r \in BOOLEAN, d \in PollTime :
          /\ quiet' = Aged(quiet, d, Succeeded(s))
          /\ told' = (quiet' > StaleLimit)
          /\ sinksOut' = {k \in Sinks : Broken(k, s, r) \/ (k \in sinksOut /\ ~Mended(k, s, r))}
          /\ homeAge' = Aged(homeAge, d, s.telemetry /\ s.home)
          /\ mirrorAge' = Aged(mirrorAge, d, s.telemetry /\ s.mirror)
    BY <1>5 DEF TakeSample
  <2>2. /\ rlMode' = rlMode /\ rlAt' = rlAt /\ rlAt = "polling"
        /\ UNCHANGED <<stopAsked, cycleAsked>> /\ csv' \in BOOLEAN
        /\ rlStatus' \in {"none", "running", "direct-read-failed", "shutdown"}
    BY <1>5 DEF TakeSample, Tell
  <2>3. /\ Later(quiet, d) \in Span /\ Later(homeAge, d) \in Span /\ Later(mirrorAge, d) \in Span
    BY <1>0, LaterIsBounded
  <2>4. {quiet', homeAge', mirrorAge'} \subseteq Span
    BY <1>0, <2>1, <2>3 DEF Aged
  <2>5. ReadTypeOK'
    BY <2>1, <2>2, <2>4
  <2>6. ASSUME rlMode = "read-loop"
        PROVE  homeAge' <= quiet' /\ (HasMirror => mirrorAge' <= quiet')
    <3>1. homeAge <= quiet /\ (HasMirror => mirrorAge <= quiet)
      BY <2>2, <2>6
    <3>2. CASE Succeeded(s)
      <4>1. s.telemetry /\ s.home /\ (HasMirror => s.mirror)
        BY <2>6, <3>2 DEF Succeeded, WroteOutputs
      <4> QED BY <2>1, <4>1, <2>4 DEF Aged, Span
    <3>3. CASE ~Succeeded(s)
      <4>1. quiet' = Later(quiet, d)
        BY <2>1, <3>3 DEF Aged
      <4>2. Later(homeAge, d) <= Later(quiet, d)
        BY <1>0, <3>1, LaterIsMonotone
      <4>3. HasMirror => Later(mirrorAge, d) <= Later(quiet, d)
        BY <1>0, <3>1, LaterIsMonotone
      <4>4. 0 <= Later(quiet, d)
        BY <2>3 DEF Span
      <4> QED BY <2>1, <4>1, <4>2, <4>3, <4>4 DEF Aged
    <3> QED BY <3>2, <3>3
  <2>7. ~told' => quiet' <= StaleLimit
    <3>1. ~(quiet' > StaleLimit) => quiet' <= StaleLimit
      BY <2>4 DEF Span
    <3> HIDE DEF ReadInv, ReadTypeOK
    <3> QED BY <2>1, <3>1, Zenon
  <2> QED BY <2>2, <2>5, <2>6, <2>7
<1>6. CASE FailSample
  <2>1. PICK d \in PollTime :
          /\ quiet' = Later(quiet, d)
          /\ told' = IF rlMode = "read-loop" THEN quiet' > StaleLimit ELSE told
          /\ homeAge' = Later(homeAge, d) /\ mirrorAge' = Later(mirrorAge, d)
    BY <1>6 DEF FailSample
  <2>2. /\ rlMode' = rlMode /\ rlAt' = rlAt /\ rlAt = "polling"
        /\ UNCHANGED <<stopAsked, cycleAsked, csv, sinksOut>>
        /\ rlStatus' \in {"none", "running", "direct-read-failed", "shutdown"}
    BY <1>6 DEF FailSample, Tell
  <2>3. {quiet', homeAge', mirrorAge'} \subseteq Span
    BY <1>0, <2>1, LaterIsBounded
  <2>4. ReadTypeOK'
    <3>1. CASE rlMode = "read-loop"
      BY <2>1, <2>2, <2>3, <3>1
    <3>2. CASE rlMode # "read-loop"
      BY <2>1, <2>2, <2>3, <3>2
    <3> QED BY <3>1, <3>2
  <2>5. rlMode = "read-loop" => homeAge' <= quiet' /\ (HasMirror => mirrorAge' <= quiet')
    BY <1>0, <2>1, <2>2, LaterIsMonotone
  <2>6. rlMode = "read-loop" /\ ~told' => quiet' <= StaleLimit
    <3>1. ~(quiet' > StaleLimit) => quiet' <= StaleLimit
      BY <2>3 DEF Span
    <3>2. rlMode = "read-loop" => told' = (quiet' > StaleLimit)
      BY <2>1
    <3> HIDE DEF ReadInv, ReadTypeOK
    <3> QED BY <3>1, <3>2, Zenon
  <2> QED BY <2>2, <2>4, <2>5, <2>6
<1>7. CASE UNCHANGED rlVars
  BY <1>7 DEF rlVars
<1> QED BY <1>1, <1>2, <1>3, <1>4, <1>5, <1>6, <1>7 DEF ReadNext

\* A read loop that does not call its status stale has replaced both files within the
\* limit, for every limit, poll time and choice of sinks.
THEOREM UnflaggedIsFresh == ReadSpec => []UnflaggedDataIsFresh
<1>1. ReadInit => ReadInv
  <2> SUFFICES ASSUME ReadInit PROVE ReadInv
    OBVIOUS
  <2>1. 0 \in Span
    BY ReadLoopAssumption DEF Span
  <2>2. ReadTypeOK
    BY <2>1 DEF ReadInit, ReadTypeOK
  <2> QED BY <2>2 DEF ReadInit, ReadInv
<1>2. ReadInv => UnflaggedDataIsFresh
  BY ReadLoopAssumption DEF ReadInv, ReadTypeOK, Span, UnflaggedDataIsFresh
<1> QED BY <1>1, <1>2, ReadInvNext, PTL DEF ReadSpec

-----------------------------------------------------------------------------
(* The windows of the counters.                                            *)

\* A counter that has gained less than its width since it was p holds this.
Advanced(p, g, w) == IF p + g < w THEN p + g ELSE p + g - w

\* As long as a window can be trusted, its counters have not gone round.
WindowIsTracked ==
  sinceRead <= DtCap =>
    \A k \in Counters(source) :
      /\ gained[k] <= MaxRate[source] * sinceRead
      /\ prior # NoValue => raw[k] = Advanced(prior[k], gained[k], Wrap[source])

\* What counts in the log, or could be mirrored into it, is the truth.
WindowInv ==
  /\ source \in Sources
  /\ raw \in [Counters(source) -> 0 .. Wrap[source] - 1]
  /\ gained \in Amounts(source)
  /\ sinceRead \in 0 .. DtCap + 1
  /\ prior # NoValue => prior \in [Counters(source) -> 0 .. Wrap[source] - 1]
  /\ sampleId \in Nat
  /\ WindowIsTracked
  /\ latest.window # NoValue /\ latest.delta # NoValue => latest = truth
  /\ \A r \in logged :
       /\ r = truth
       /\ truth = [window |-> truth.window, delta |-> truth.delta]
       /\ truth.window \in Nat /\ truth.delta \in Amounts(source)
  /\ sampleId > 0 => /\ truth = [window |-> truth.window, delta |-> truth.delta]
                     /\ truth.window \in Nat /\ truth.delta \in Amounts(source)

LEMMA WrapOnce ==
  ASSUME NEW w \in Nat \ {0}, NEW x \in 0 .. 2 * w - 1
  PROVE  x % w = IF x < w THEN x ELSE x - w
<1>1. CASE x < w
  BY <1>1
<1>2. CASE x >= w
  <2>1. x \in w .. 2 * w - 1
    BY <1>2
  <2> QED BY <2>1
<1> QED BY <1>1, <1>2

\* The unsigned difference is what was gained.
LEMMA DifferenceIsGain ==
  ASSUME NEW w \in Nat \ {0}, NEW p \in 0 .. w - 1, NEW g \in 0 .. w - 1
  PROVE  (Advanced(p, g, w) - p) % w = g
<1>1. CASE p + g < w
  BY <1>1 DEF Advanced
<1>2. CASE ~(p + g < w)
  <2> DEFINE x == g - w
  <2>1. x \in Int /\ -w <= x /\ x < 0
    OBVIOUS
  <2>2. x % w = x + w
    BY <2>1
  <2>3. Advanced(p, g, w) - p = x
    BY <1>2 DEF Advanced
  <2> QED BY <2>2, <2>3
<1> QED BY <1>1, <1>2

\* A window that can be trusted is narrower than its counters.
LEMMA GainIsNarrow ==
  ASSUME NEW s \in Sources, NEW t \in 0 .. DtCap
  PROVE  /\ Wrap[s] \in Nat \ {0} /\ MaxRate[s] \in Nat
         /\ MaxRate[s] * t < Wrap[s] /\ MaxRate[s] * t \in Nat
<1>1. Wrap[s] \in Nat /\ MaxRate[s] \in Nat /\ DtCap \in Nat /\ MaxRate[s] * DtCap < Wrap[s]
  BY WindowAssumption
<1>2. \A a, b, c \in Nat : b <= c => a * b <= a * c /\ a * b \in Nat /\ a * c \in Nat
  OBVIOUS
<1>3. t \in Nat /\ t <= DtCap
  BY <1>1
<1> QED BY <1>1, <1>2, <1>3

LEMMA ElapseTracks ==
  ASSUME WindowInv, Elapse
  PROVE  WindowInv'
<1> DEFINE K == Counters(source)
           W == Wrap[source]
           R == MaxRate[source]
<1>0. DtCap \in Nat
  BY WindowAssumption
<1>1. PICK gain \in [K -> 0 .. R] :
        /\ raw' = [k \in K |-> (raw[k] + gain[k]) % W]
        /\ gained' = [k \in K |-> gained[k] + gain[k]]
  BY DEF Elapse
<1>2. /\ sinceRead <= DtCap /\ sinceRead' = sinceRead + 1
      /\ UNCHANGED <<source, prior, sampleId, latest, truth, logged>>
  BY DEF Elapse, readVars
<1>3. W \in Nat \ {0} /\ R \in Nat /\ sinceRead \in 0 .. DtCap
  BY <1>0, <1>2, GainIsNarrow DEF WindowInv
<1>4. raw' \in [K -> 0 .. W - 1]
  BY <1>1, <1>3 DEF WindowInv
<1>5. gained' \in Amounts(source)
  BY <1>1, <1>3 DEF WindowInv, Amounts
<1>6. ASSUME NEW k \in K, sinceRead' <= DtCap
      PROVE  /\ gained'[k] <= R * sinceRead'
             /\ prior # NoValue => raw'[k] = Advanced(prior[k], gained'[k], W)
  <2>1. gained[k] \in Nat /\ gain[k] \in Nat /\ gain[k] <= R /\ gained'[k] = gained[k] + gain[k]
    BY <1>1, <1>3 DEF WindowInv, Amounts
  <2>2. R * sinceRead' = R * sinceRead + R
    <3>1. \A a, b \in Nat : a * (b + 1) = a * b + a
      OBVIOUS
    <3>2. sinceRead \in Nat
      BY <1>0, <1>3
    <3> HIDE DEF R
    <3> QED BY <1>2, <1>3, <3>1, <3>2
  <2>3. gained[k] <= R * sinceRead
    BY <1>2 DEF WindowInv, WindowIsTracked
  <2>4. R * sinceRead' < W /\ R * sinceRead \in Nat
    BY <1>0, <1>2, <1>3, <1>6, GainIsNarrow DEF WindowInv
  <2>5. gained'[k] <= R * sinceRead' /\ gained'[k] < W
    BY <1>3, <2>1, <2>2, <2>3, <2>4
  <2>6. ASSUME prior # NoValue
        PROVE  raw'[k] = Advanced(prior[k], gained'[k], W)
    <3>1. /\ prior[k] \in 0 .. W - 1 /\ raw[k] \in 0 .. W - 1
          /\ raw[k] = Advanced(prior[k], gained[k], W)
      BY <1>2, <2>6 DEF WindowInv, WindowIsTracked
    <3>2. raw[k] + gain[k] \in 0 .. 2 * W - 1
      BY <1>3, <2>1, <2>5, <3>1
    <3>3. raw'[k] = IF raw[k] + gain[k] < W THEN raw[k] + gain[k] ELSE raw[k] + gain[k] - W
      <4>1. raw'[k] = (raw[k] + gain[k]) % W
        BY <1>1
      <4> HIDE DEF W
      <4>2. PICK x \in 0 .. 2 * W - 1 : x = raw[k] + gain[k]
        BY <3>2
      <4>3. x % W = IF x < W THEN x ELSE x - W
        BY <1>3, WrapOnce
      <4>4. raw'[k] = x % W
        BY <4>1, <4>2
      <4> QED BY <1>3, <2>1, <3>1, <4>2, <4>3, <4>4
    <3> HIDE DEF W
    <3> QED BY <1>3, <2>1, <2>5, <3>1, <3>3 DEF Advanced
  <2> QED BY <2>5, <2>6
<1>7. WindowIsTracked'
  BY <1>2, <1>6 DEF WindowIsTracked
<1>8. sinceRead' \in 0 .. DtCap + 1
  BY <1>0, <1>2, <1>3
<1> QED BY <1>2, <1>4, <1>5, <1>7, <1>8 DEF WindowInv

\* A new window starts with nothing gained.
LEMMA RestartTracks ==
  ASSUME WindowInv, Restarted, prior' = raw \/ prior' = NoValue
  PROVE  /\ WindowIsTracked' /\ sinceRead' \in 0 .. DtCap + 1
         /\ gained' \in Amounts(source)
<1>1. DtCap \in Nat /\ 0 \in 0 .. DtCap
  BY WindowAssumption
<1>2. Wrap[source] \in Nat \ {0} /\ MaxRate[source] * 0 = 0
  BY <1>1, GainIsNarrow DEF WindowInv
<1>3. \A k \in Counters(source) : raw[k] = Advanced(raw[k], 0, Wrap[source])
  BY <1>2 DEF WindowInv, Advanced
<1> QED
  BY <1>1, <1>2, <1>3 DEF Restarted, WindowIsTracked, WindowInv, Amounts

\* A sample that is not blanked is the window as it was.
LEMMA SampleIsTrue ==
  ASSUME WindowInv, prior # NoValue, ~Implausible(Delta(prior, raw), sinceRead)
  PROVE  Delta(prior, raw) = gained
<1>1. DtCap \in Nat /\ sinceRead \in 0 .. DtCap
  BY WindowAssumption DEF Implausible, WindowInv
<1>2. ASSUME NEW k \in Counters(source)
      PROVE  (raw[k] - prior[k]) % Wrap[source] = gained[k]
  <2>1. Wrap[source] \in Nat \ {0} /\ MaxRate[source] * sinceRead < Wrap[source]
        /\ MaxRate[source] * sinceRead \in Nat
    BY <1>1, GainIsNarrow DEF WindowInv
  <2>2. gained[k] \in Nat /\ gained[k] <= MaxRate[source] * sinceRead
    BY <1>1 DEF WindowInv, WindowIsTracked, Amounts
  <2>3. gained[k] \in 0 .. Wrap[source] - 1
    BY <2>1, <2>2
  <2>4. raw[k] = Advanced(prior[k], gained[k], Wrap[source]) /\ prior[k] \in 0 .. Wrap[source] - 1
    BY <1>1 DEF WindowInv, WindowIsTracked
  <2> QED BY <2>1, <2>3, <2>4, DifferenceIsGain
<1> QED BY <1>2 DEF Delta, WindowInv, Amounts

\* A row with a blank window is not counted.
LEMMA BlankIsNotCounted == \A id : Counted(id, Blank) = {}
BY DEF Counted, Blank

LEMMA WindowInvNext ==
  ASSUME WindowInv, [WindowNext]_windowVars
  PROVE  WindowInv'
<1>1. CASE OpenLater \/ OpenGivesUp \/ OpenReader \/ UNCHANGED windowVars
  <2>1. UNCHANGED <<source, meterVars, readVars>>
    BY <1>1 DEF OpenLater, OpenGivesUp, OpenReader, windowVars
  <2> QED BY <2>1 DEF meterVars, readVars, WindowInv, WindowIsTracked
<1>2. CASE Elapse
  BY <1>2, ElapseTracks
<1>3. CASE Suspend
  <2>1. /\ raw' \in [Counters(source) -> 0 .. Wrap[source] - 1]
        /\ sinceRead' = DtCap + 1 /\ gained' = [k \in Counters(source) |-> 0]
        /\ UNCHANGED <<source, prior, sampleId, latest, truth, logged>>
    BY <1>3 DEF Suspend, readVars
  <2>2. DtCap \in Nat
    BY WindowAssumption
  <2>3. gained' \in Amounts(source) /\ sinceRead' \in 0 .. DtCap + 1 /\ WindowIsTracked'
    BY <2>1, <2>2 DEF Amounts, WindowIsTracked
  <2> QED BY <2>1, <2>3 DEF WindowInv
<1>4. CASE Mirror
  <2>1. /\ logged' = logged \cup Counted(sampleId, latest)
        /\ UNCHANGED <<source, raw, gained, sinceRead, prior, sampleId, latest, truth>>
    BY <1>4 DEF Mirror, Log, meterVars
  <2>2. \A r \in Counted(sampleId, latest) : r = truth /\ sampleId > 0
    BY DEF Counted, WindowInv
  <2> QED BY <2>1, <2>2 DEF WindowInv, WindowIsTracked
<1>5. CASE Baseline
  <2>1. /\ logged' = logged /\ latest' = Blank /\ prior' = raw
        /\ UNCHANGED <<source, raw, sampleId, truth>>
    BY <1>5, BlankIsNotCounted DEF Baseline, Log, Restarted
  <2>2. WindowIsTracked' /\ sinceRead' \in 0 .. DtCap + 1 /\ gained' \in Amounts(source)
    BY <1>5, <2>1, RestartTracks DEF Baseline
  <2> QED BY <2>1, <2>2 DEF WindowInv, Blank
<1>6. CASE Advance
  <2> DEFINE delta == Delta(prior, raw)
             sample == [window |-> sinceRead,
                        delta |-> IF Implausible(delta, sinceRead) THEN NoValue ELSE delta]
  <2>1. /\ latest' = sample /\ logged' = Counted(sampleId + 1, sample)
        /\ truth' = [window |-> sinceRead, delta |-> gained]
        /\ sampleId' = sampleId + 1 /\ prior' = raw /\ prior # NoValue
        /\ UNCHANGED <<source, raw>>
    <3>1. sampleId + 1 # sampleId
      BY DEF WindowInv
    <3> QED BY <1>6, <3>1 DEF Advance, Log, Restarted
  <2>2. WindowIsTracked' /\ sinceRead' \in 0 .. DtCap + 1 /\ gained' \in Amounts(source)
    BY <1>6, <2>1, RestartTracks DEF Advance
  <2>3. sample.delta # NoValue => sample = truth'
    BY <2>1, SampleIsTrue
  <2>4. sinceRead \in Nat /\ gained \in Amounts(source)
    BY WindowAssumption DEF WindowInv
  <2>5. /\ truth'.window = sinceRead /\ truth'.delta = gained
    BY <2>1
  <2>6. \A r \in logged' : r = truth'
    BY <2>1, <2>3 DEF Counted
  <2>7. sampleId' \in Nat
    BY <2>1 DEF WindowInv
  <2> HIDE DEF sample, delta
  <2> QED BY <2>1, <2>2, <2>3, <2>4, <2>5, <2>6, <2>7 DEF WindowInv
<1>7. CASE ReadFails
  <2>1. /\ logged' = logged /\ latest' = Blank /\ prior' = NoValue
        /\ UNCHANGED <<source, raw, gained, sinceRead, sampleId, truth>>
    BY <1>7, BlankIsNotCounted DEF ReadFails, Log, meterVars
  <2>2. WindowIsTracked'
    BY <2>1 DEF WindowInv, WindowIsTracked
  <2> QED BY <2>1, <2>2 DEF WindowInv, Blank
<1> QED BY <1>1, <1>2, <1>3, <1>4, <1>5, <1>6, <1>7 DEF WindowNext

LEMMA MaxOfOne ==
  ASSUME NEW x \in Int
  PROVE  Max({x}) = x
BY DEF Max

\* Every window that is reported is one that happened, with what the counters truly
\* gained in it, for every width, rate, cadence and cap that the code can have.
THEOREM ReportedAreTrue == WindowSpec => []ReportedWindowsAreTrue
<1>1. WindowInit => WindowInv
  <2> SUFFICES ASSUME WindowInit PROVE WindowInv
    OBVIOUS
  <2>1. DtCap \in Nat /\ 0 \in 0 .. DtCap + 1 /\ source \in Sources /\ 0 \in 0 .. DtCap
    BY WindowAssumption DEF WindowInit
  <2>2. Wrap[source] \in Nat \ {0} /\ MaxRate[source] * 0 = 0
    BY <2>1, GainIsNarrow
  <2>3. raw \in [Counters(source) -> 0 .. Wrap[source] - 1] /\ gained \in Amounts(source)
    BY <2>2 DEF WindowInit, Amounts
  <2>4. WindowIsTracked
    BY <2>1, <2>2 DEF WindowInit, WindowIsTracked
  <2> QED BY <2>1, <2>3, <2>4 DEF WindowInit, WindowInv, Blank
<1>2. WindowInv => ReportedWindowsAreTrue
  <2> SUFFICES ASSUME WindowInv, logged # {} PROVE Reported = truth
    BY DEF ReportedWindowsAreTrue
  <2>1. /\ logged = {truth} /\ truth = [window |-> truth.window, delta |-> truth.delta]
        /\ truth.window \in Nat /\ truth.delta \in Amounts(source)
    BY DEF WindowInv
  <2>2. {r.window : r \in logged} = {truth.window}
    BY <2>1
  <2>3. \A k \in Counters(source) : {r.delta[k] : r \in logged} = {truth.delta[k]}
    BY <2>1
  <2>4. Max({truth.window}) = truth.window
    BY <2>1, MaxOfOne
  <2>5. \A k \in Counters(source) : Max({truth.delta[k]}) = truth.delta[k]
    BY <2>1, MaxOfOne DEF Amounts
  <2>6. [k \in Counters(source) |-> Max({r.delta[k] : r \in logged})] = truth.delta
    BY <2>1, <2>3, <2>5 DEF Amounts
  <2> QED BY <2>1, <2>2, <2>4, <2>6 DEF Reported
<1> QED BY <1>1, <1>2, WindowInvNext, PTL DEF WindowSpec

-----------------------------------------------------------------------------
(* What the watchdog makes of a worker.                                    *)

\* The longest a tick and its wait may take.
Longest == Max({Poll, MaxWork})

\* Ticks begun since the one that was published last, by a worker that has missed no
\* publication: the one under way is due when the count comes round.
TicksSince == IF loop = "working" /\ tickMod = 0 THEN StatusEvery ELSE tickMod

Paces ==
  /\ loop \in {"none", "starting", "waiting", "working", "hung", "ending"}
  /\ dog \in {"idle", "probing", "restarting"}
  /\ tickMod \in 0 .. StatusEvery - 1
  /\ pace \in Int /\ pace <= Poll
  /\ elapsed \in 0 .. Longest
  /\ work \in 0 .. MaxWork
  /\ docAge \in Nat
  /\ loop = "working" => elapsed + work <= MaxWork

\* The file of a worker in order is no older than the schedule allows.
OnSchedule == Sound => docAge <= elapsed + TicksSince * Longest

\* A worker's own file has a timestamp and no flag; and what the watchdog has read
\* of a worker that is sound since, is such a file.
Documents ==
  /\ doc \in Docs /\ seen \in Docs
  /\ doc.own => doc.stamped /\ ~doc.stale
  /\ sound => Sound
  /\ dog = "probing" /\ sound =>
       seen.own /\ seen.state = "running" /\ seen.stamped /\ ~seen.stale

HeartInv == Paces /\ OnSchedule /\ Documents /\ SoundWorkerIsSpared

LEMMA MaxOfTwo ==
  ASSUME NEW a \in Int, NEW b \in Int
  PROVE  Max({a, b}) = IF a >= b THEN a ELSE b
<1>1. CASE a >= b
  BY <1>1 DEF Max
<1>2. CASE ~(a >= b)
  BY <1>2 DEF Max
<1> QED BY <1>1, <1>2

LEMMA LongestBounds ==
  /\ Longest \in Nat \ {0} /\ Poll <= Longest /\ MaxWork <= Longest
  /\ Poll \in Nat \ {0} /\ MaxWork \in Nat /\ StatusEvery \in Nat \ {0}
  /\ StaleAfter \in Nat /\ StatusEvery * Longest + MaxWork <= StaleAfter
<1>1. Poll \in Nat \ {0} /\ MaxWork \in Nat /\ StatusEvery \in Nat \ {0}
  BY HeartbeatAssumption
<1>2. Longest = IF Poll >= MaxWork THEN Poll ELSE MaxWork
  BY <1>1, MaxOfTwo DEF Longest
<1> QED BY <1>1, <1>2, HeartbeatAssumption DEF Longest

\* So many ticks take at most so long.
LEMMA TicksTake ==
  ASSUME NEW n \in 0 .. StatusEvery - 1
  PROVE  /\ n * Longest \in Nat /\ StatusEvery * Longest \in Nat
         /\ (n + 1) * Longest = n * Longest + Longest
         /\ n * Longest + Longest <= StatusEvery * Longest
<1> DEFINE L == Longest
           S == StatusEvery
<1>1. L \in Nat /\ S \in Nat /\ n \in Nat /\ n + 1 <= S
  BY LongestBounds
<1> HIDE DEF L, S
<1>2. \A a, b \in Nat : a * b \in Nat /\ (a + 1) * b = a * b + b
  OBVIOUS
<1>3. \A a, b, c \in Nat : a <= c => a * b <= c * b
  OBVIOUS
<1>4. (n + 1) * L <= S * L
  BY <1>1, <1>3
<1>5. n * L \in Nat /\ S * L \in Nat /\ (n + 1) * L = n * L + L
  BY <1>1, <1>2
<1> QED BY <1>4, <1>5 DEF L, S

\* So a worker in order is not stale.
LEMMA SoundIsNotStale ==
  ASSUME HeartInv, Sound
  PROVE  docAge <= StaleAfter
<1>1. docAge <= elapsed + TicksSince * Longest
  BY DEF HeartInv, OnSchedule
<1>2. elapsed \in Nat /\ elapsed <= Longest /\ tickMod \in 0 .. StatusEvery - 1 /\ docAge \in Nat
  BY LongestBounds DEF HeartInv, Paces
<1>3. /\ tickMod * Longest \in Nat /\ StatusEvery * Longest \in Nat
      /\ tickMod * Longest + Longest <= StatusEvery * Longest
  BY <1>2, TicksTake
<1>4. CASE loop = "working" /\ tickMod = 0
  <2>1. elapsed <= MaxWork
    BY <1>4, <1>2, LongestBounds DEF HeartInv, Paces
  <2>2. docAge <= elapsed + StatusEvery * Longest
    BY <1>1, <1>4 DEF TicksSince
  <2> QED BY <1>2, <1>3, <2>1, <2>2, LongestBounds, HeartbeatAssumption
<1>5. CASE ~(loop = "working" /\ tickMod = 0)
  <2>1. docAge <= elapsed + tickMod * Longest
    BY <1>1, <1>5 DEF TicksSince
  <2> QED BY <1>2, <1>3, <2>1, LongestBounds
<1> QED BY <1>4, <1>5

LEMMA HeartInvInit == HeartInit => HeartInv
<1> SUFFICES ASSUME HeartInit PROVE HeartInv
  OBVIOUS
<1>1. Paces
  BY LongestBounds DEF HeartInit, Paces
<1>2. ~Sound
  BY DEF HeartInit, Sound, InLoop
<1>3. doc \in Docs /\ ~doc.own
  BY DEF HeartInit, LeftBehind
<1>4. seen \in Docs
  BY DEF HeartInit, Stray, Doc, Docs
<1> QED
  BY <1>1, <1>2, <1>3, <1>4
     DEF HeartInit, HeartInv, OnSchedule, Documents, SoundWorkerIsSpared

\* A document that no process has the identifier of.
LEMMA StrayDocs ==
  ASSUME NEW d \in Docs
  PROVE  Stray(d) \in Docs /\ ~Stray(d).own
BY DEF Docs, Stray

LEMMA OwnDocs ==
  ASSUME NEW state \in {"absent", "unreadable", "running", "shutdown", "failed"}
  PROVE  /\ Doc(state) \in Docs /\ Doc(state).own /\ Doc(state).state = state
         /\ Doc(state).stamped /\ ~Doc(state).stale
BY DEF Docs, Doc

\* The steps of the watchdog and of everything else, by what is read and judged.
LEMMA JudgedSoundly ==
  ASSUME HeartInv, Watched, Paces', OnSchedule', doc' \in Docs,
         doc'.own => doc'.stamped /\ ~doc'.stale,
         \/ dog' = dog /\ (seen' = seen \/ (seen' = Stray(seen) /\ ~Sound'))
         \/ dog' = "idle" /\ seen' \in Docs
         \/ dog' = "probing" /\ dog = "idle" /\ seen' = doc /\ doc' = doc
  PROVE  HeartInv'
<1>1. sound' => Sound'
  BY DEF Watched
<1>2. seen' \in Docs
  BY StrayDocs DEF HeartInv, Documents
<1>3. CASE dog' = dog /\ (seen' = seen \/ (seen' = Stray(seen) /\ ~Sound'))
  <2>1. dog # "idle" /\ sound' => sound /\ seen' = seen
    BY <1>1, <1>3 DEF Watched
  <2> QED BY <1>1, <1>2, <1>3, <2>1 DEF HeartInv, Documents, SoundWorkerIsSpared
<1>4. CASE dog' = "idle" /\ seen' \in Docs
  BY <1>1, <1>2, <1>4 DEF HeartInv, Documents, SoundWorkerIsSpared
<1>5. CASE dog' = "probing" /\ dog = "idle" /\ seen' = doc /\ doc' = doc
  <2>1. sound' => doc.own /\ doc.state = "running"
    BY <1>1, <1>5 DEF Sound
  <2> QED BY <1>1, <1>2, <1>5, <2>1 DEF HeartInv, Documents, SoundWorkerIsSpared
<1> QED BY <1>3, <1>4, <1>5

\* Outside its loop there is nothing to keep.
LEMMA OutOfLoopKeeps ==
  ASSUME HeartInv, loop' \in {"none", "starting", "hung", "ending"},
         dog' \in {"idle", "probing", "restarting"}, docAge' \in Nat,
         OutOfLoop \/ UNCHANGED <<tickMod, pace, elapsed, work>>
  PROVE  Paces' /\ OnSchedule' /\ ~Sound'
<1>1. ~Sound'
  BY DEF Sound, InLoop
<1>2. Paces'
  BY LongestBounds DEF HeartInv, Paces, OutOfLoop
<1> QED BY <1>1, <1>2 DEF OnSchedule

LEMMA WorkerBeats ==
  ASSUME HeartInv, Watched, ComeUp \/ BeginTick \/ EndTick
  PROVE  HeartInv'
<1>1. CASE ComeUp
  <2>1. PICK ok \in Published : PublishStatus("running", 0, ok)
    BY <1>1 DEF ComeUp
  <2>2. /\ loop' = "waiting" /\ elapsed' = Poll /\ pace' = Poll /\ tickMod' = 0
        /\ UNCHANGED <<work, dog, seen>>
    BY <1>1 DEF ComeUp, dogVars
  <2>3. \/ doc' = Doc("running") /\ docAge' = 0
        \/ doc' = doc /\ docAge' = docAge /\ lapsed' = TRUE
    BY <2>1 DEF PublishStatus
  <2>4. Paces'
    BY <2>2, <2>3, LongestBounds DEF HeartInv, Paces
  <2>5. OnSchedule'
    BY <2>2, <2>3, LongestBounds DEF OnSchedule, TicksSince, Sound
  <2>6. doc' \in Docs /\ (doc'.own => doc'.stamped /\ ~doc'.stale)
    BY <2>3, OwnDocs DEF HeartInv, Documents
  <2> QED BY <2>2, <2>4, <2>5, <2>6, JudgedSoundly
<1>2. CASE BeginTick
  <2>1. /\ loop = "waiting" /\ loop' = "working" /\ elapsed' = 0 /\ work' \in 0 .. MaxWork
        /\ tickMod' = (tickMod + 1) % StatusEvery
        /\ UNCHANGED <<doc, docAge, dog, seen, lapsed>>
    BY <1>2 DEF BeginTick, fileVars, dogVars, Bound
  <2>2. pace' \in Int /\ pace' <= Poll
    <3>1. PICK transient \in {0, 1} : pace' = Paced(Interval(transient), elapsed)
      BY <1>2 DEF BeginTick
    <3>2. Poll \in Nat /\ Floor \in Nat /\ Floor <= Poll /\ Relax \in Nat
      BY HeartbeatAssumption
    <3>3. Interval(transient) \in Int /\ Interval(transient) <= Poll
      BY <3>2 DEF Interval
    <3>4. Relax * elapsed \in Int
      BY <3>2, LongestBounds DEF HeartInv, Paces
    <3>5. pace \in Int /\ pace <= Poll
      BY DEF HeartInv, Paces
    <3>6. \A target, later \in Int : target <= Poll =>
            LET p == IF target <= pace THEN target ELSE IF target < later THEN target ELSE later
            IN  p \in Int /\ p <= Poll
      BY <3>2, <3>5
    <3>7. pace + Relax * elapsed \in Int
      BY <3>4, <3>5
    <3> QED BY <3>1, <3>3, <3>6, <3>7 DEF Paced, Lesser
  <2>3. tickMod \in 0 .. StatusEvery - 1 /\ elapsed \in 0 .. Longest /\ docAge \in Nat
    BY DEF HeartInv, Paces
  <2>4. tickMod' = IF tickMod + 1 = StatusEvery THEN 0 ELSE tickMod + 1
    BY <2>1, <2>3, LongestBounds
  <2>5. Paces'
    <3>1. tickMod' \in 0 .. StatusEvery - 1
      BY <2>3, <2>4, LongestBounds
    <3>2. elapsed' \in 0 .. Longest /\ work' \in 0 .. MaxWork /\ elapsed' + work' <= MaxWork
      <4>1. work' \in Nat /\ work' <= MaxWork /\ elapsed' = 0
        BY <2>1, LongestBounds
      <4>2. MaxWork \in Nat /\ Longest \in Nat
        BY LongestBounds
      <4>3. elapsed' \in 0 .. Longest
        BY <4>1, <4>2
      <4>4. work' \in 0 .. MaxWork
        BY <2>1
      <4>5. 0 + work' <= MaxWork
        <5>1. \A n \in Nat : n <= MaxWork => 0 + n <= MaxWork
          BY <4>2
        <5> QED BY <4>1, <5>1
      <4> QED BY <4>1, <4>3, <4>4, <4>5
    <3> QED BY <2>1, <2>2, <2>3, <3>1, <3>2 DEF HeartInv, Paces
  <2>6. TicksSince' = tickMod + 1 /\ TicksSince = tickMod
    BY <2>1, <2>3, <2>4, LongestBounds DEF TicksSince
  <2>7. OnSchedule'
    <3> SUFFICES ASSUME Sound' PROVE docAge <= (tickMod + 1) * Longest
      <4>1. \A k \in Nat : docAge <= k => docAge' <= elapsed' + k
        BY <2>1, <2>3
      <4>2. (tickMod + 1) * Longest \in Nat /\ (tickMod + 1) * Longest = TicksSince' * Longest
        BY <2>3, <2>6, LongestBounds
      <4> QED BY <2>6, <4>1, <4>2 DEF OnSchedule, Longest
    <3>1. Sound
      BY <2>1 DEF Sound, InLoop
    <3>2. docAge <= elapsed + tickMod * Longest
      BY <2>6, <3>1 DEF HeartInv, OnSchedule
    <3> QED BY <2>3, <3>2, TicksTake, LongestBounds
  <2> QED BY <2>1, <2>5, <2>7, JudgedSoundly DEF HeartInv, Documents
<1>3. CASE EndTick
  <2>1. /\ loop = "working" /\ loop' = "waiting"
        /\ UNCHANGED <<tickMod, pace, elapsed, work, dog, seen>>
    BY <1>3 DEF EndTick, dogVars
  <2>2. \/ doc' = Doc("running") /\ docAge' = elapsed
        \/ doc' = doc /\ docAge' = docAge /\ lapsed' = TRUE
        \/ doc' = doc /\ docAge' = docAge /\ lapsed' = lapsed /\ tickMod # 0
    BY <1>3 DEF EndTick, PublishStatus
  <2>3. /\ tickMod \in 0 .. StatusEvery - 1 /\ elapsed \in Nat /\ docAge \in Nat
        /\ tickMod * Longest \in Nat
    BY LongestBounds, TicksTake DEF HeartInv, Paces
  <2>4. Paces'
    BY <2>1, <2>2, <2>3 DEF HeartInv, Paces
  <2>5. OnSchedule'
    <3> SUFFICES ASSUME Sound' PROVE docAge' <= elapsed + tickMod * Longest
      BY <2>1 DEF OnSchedule, TicksSince
    <3>1. CASE docAge' = elapsed
      BY <2>3, <3>1
    <3>2. CASE doc' = doc /\ docAge' = docAge /\ lapsed' = lapsed /\ tickMod # 0
      <4>1. Sound
        BY <2>1, <3>2 DEF Sound, InLoop
      <4> QED BY <3>2, <4>1 DEF HeartInv, OnSchedule, TicksSince
    <3>3. ~lapsed'
      BY DEF Sound
    <3> QED BY <2>2, <3>1, <3>2, <3>3
  <2>6. doc' \in Docs /\ (doc'.own => doc'.stamped /\ ~doc'.stale)
    BY <2>2, OwnDocs DEF HeartInv, Documents
  <2> QED BY <2>1, <2>4, <2>5, <2>6, JudgedSoundly
<1> QED BY <1>1, <1>2, <1>3

LEMMA TimePasses ==
  ASSUME HeartInv, Watched, Pass
  PROVE  HeartInv'
<1>1. /\ UNCHANGED <<loop, tickMod, pace, doc, dog, seen, lapsed>>
      /\ docAge' = Lesser(docAge + 1, StaleAfter + 1)
  BY DEF Pass, dogVars
<1>2. docAge \in Nat /\ docAge' \in Nat /\ docAge' <= docAge + 1
  BY <1>1, LongestBounds DEF HeartInv, Paces, Lesser
<1>3. /\ elapsed \in Nat /\ work \in Nat /\ elapsed <= Longest /\ pace \in Int /\ pace <= Poll
      /\ tickMod \in 0 .. StatusEvery - 1
  BY LongestBounds DEF HeartInv, Paces
<1>4. CASE loop \in InLoop
  <2>1. /\ elapsed' = Lesser(elapsed + 1, Longest) /\ work' = Max({work - 1, 0})
        /\ loop = "working" => work > 0
        /\ loop = "waiting" => elapsed < pace
    BY <1>4 DEF Pass, Longest
  <2>2. elapsed + 1 <= Longest
    BY <1>3, <1>4, <2>1, LongestBounds DEF InLoop, HeartInv, Paces
  <2>3. elapsed' = elapsed + 1
    BY <1>3, <2>1, <2>2, LongestBounds DEF Lesser
  <2>4. work' = IF work - 1 >= 0 THEN work - 1 ELSE 0
    BY <1>3, <2>1, MaxOfTwo
  <2>5. Paces'
    BY <1>1, <1>2, <1>3, <2>1, <2>2, <2>3, <2>4, LongestBounds DEF HeartInv, Paces
  <2>6. OnSchedule'
    <3> SUFFICES ASSUME Sound PROVE docAge' <= elapsed + 1 + TicksSince * Longest
      BY <1>1, <2>3 DEF OnSchedule, TicksSince, Sound
    <3>1. docAge <= elapsed + TicksSince * Longest
      BY DEF HeartInv, OnSchedule
    <3>2. TicksSince * Longest \in Nat
      BY <1>3, TicksTake DEF TicksSince
    <3> QED BY <1>2, <1>3, <3>1, <3>2
  <2> QED BY <1>1, <2>5, <2>6, JudgedSoundly DEF HeartInv, Documents
<1>5. CASE loop \notin InLoop
  <2>1. elapsed' = elapsed /\ work' = work
    BY <1>5 DEF Pass
  <2>2. Paces'
    BY <1>1, <1>2, <2>1 DEF HeartInv, Paces
  <2>3. ~Sound'
    BY <1>1, <1>5 DEF Sound
  <2> QED BY <1>1, <2>2, <2>3, JudgedSoundly DEF HeartInv, Documents, OnSchedule
<1> QED BY <1>4, <1>5

\* A worker that is leaving its loop, or has left it.
LEMMA WorkerLeaves ==
  ASSUME HeartInv, Watched, Launch \/ Refuse \/ StopLoop \/ EndWorker \/ Hang \/ Restart
  PROVE  HeartInv'
<1>1. /\ loop' \in {"none", "starting", "hung", "ending"}
      /\ OutOfLoop \/ UNCHANGED <<tickMod, pace, elapsed, work>>
      /\ \/ UNCHANGED <<doc, docAge, seen>>
         \/ docAge' = docAge /\ doc' \in {doc, Doc("shutdown")} /\ seen' = seen
         \/ \E state \in {"as it was", "failed", "shutdown"} : Orphan(state)
      /\ dog' = dog \/ (dog = "restarting" /\ dog' = "idle")
  BY DEF Launch, Refuse, StopLoop, EndWorker, Hang, Restart, fileVars, dogVars
<1>2. StaleAfter + 1 \in Nat /\ docAge \in Nat /\ dog \in {"idle", "probing", "restarting"}
  BY LongestBounds DEF HeartInv, Paces
<1>3. docAge' \in Nat
  BY <1>1, <1>2 DEF Orphan
<1>4. Paces' /\ OnSchedule' /\ ~Sound'
  BY <1>1, <1>2, <1>3, OutOfLoopKeeps
<1>5. doc' \in Docs /\ (doc'.own => doc'.stamped /\ ~doc'.stale)
  <2>1. CASE doc' \in {doc, Doc("shutdown")}
    BY <2>1, OwnDocs DEF HeartInv, Documents
  <2>2. CASE \E state \in {"as it was", "failed", "shutdown"} : Orphan(state)
    <3>1. doc' = Stray(doc) \/ doc' = Stray(Doc("failed")) \/ doc' = Stray(Doc("shutdown"))
      BY <2>2 DEF Orphan
    <3> QED BY <3>1, OwnDocs, StrayDocs DEF HeartInv, Documents
  <2> QED BY <1>1, <2>1, <2>2
<1>6. seen' = seen \/ seen' = Stray(seen)
  BY <1>1 DEF Orphan
<1>7. seen' \in Docs
  BY <1>6, StrayDocs DEF HeartInv, Documents
<1> QED BY <1>1, <1>4, <1>5, <1>6, <1>7, JudgedSoundly

LEMMA WorldChanges ==
  ASSUME HeartInv, Watched, AskStop \/ Damage \/ SetClock
  PROVE  HeartInv'
<1>1. UNCHANGED <<loopVars, dogVars>>
  BY DEF AskStop, Damage, SetClock
<1>2. \/ UNCHANGED <<doc, docAge, lapsed>>
      \/ doc' = Stray(Doc("unreadable")) /\ docAge' = StaleAfter + 1
      \/ doc' = doc /\ docAge' \in {0, StaleAfter + 1} /\ lapsed' = (loop \in InLoop)
  BY DEF AskStop, Damage, SetClock
<1>3. docAge' \in Nat
  BY <1>2, LongestBounds DEF HeartInv, Paces
<1>4. Paces'
  BY <1>1, <1>3 DEF HeartInv, Paces, loopVars, dogVars
<1>5. UNCHANGED <<doc, docAge, lapsed>> \/ ~Sound'
  <2>1. CASE doc' = Stray(Doc("unreadable"))
    BY <2>1, OwnDocs, StrayDocs DEF Sound
  <2>2. CASE lapsed' = (loop \in InLoop)
    BY <1>1, <2>2 DEF Sound, loopVars
  <2> QED BY <1>2, <2>1, <2>2
<1>6. OnSchedule'
  BY <1>1, <1>5 DEF HeartInv, OnSchedule, Sound, TicksSince, loopVars
<1>7. doc' \in Docs /\ (doc'.own => doc'.stamped /\ ~doc'.stale)
  BY <1>2, OwnDocs, StrayDocs DEF HeartInv, Documents
<1> QED BY <1>1, <1>4, <1>6, <1>7, JudgedSoundly DEF dogVars

\* The watchdog judges by what it has read and by the time it is.
LEMMA WatchdogSpares ==
  ASSUME HeartInv, Watched, ProbeReads \/ ProbeJudges
  PROVE  HeartInv'
<1>1. UNCHANGED <<loopVars, fileVars, lapsed>>
  BY DEF ProbeReads, ProbeJudges
<1>2. OnSchedule'
  BY <1>1 DEF HeartInv, OnSchedule, Sound, TicksSince, loopVars, fileVars
<1>3. CASE ProbeReads
  <2>1. dog = "idle" /\ dog' = "probing" /\ seen' = doc /\ doc' = doc
    BY <1>3 DEF ProbeReads, fileVars
  <2>2. Paces'
    BY <1>1, <2>1 DEF HeartInv, Paces, loopVars, fileVars
  <2> QED BY <1>2, <2>1, <2>2, JudgedSoundly DEF HeartInv, Documents
<1>4. CASE ProbeJudges
  <2>1. PICK troubled \in BOOLEAN :
          dog' = IF ExitCode(Health(seen, troubled)) = 2 THEN "restarting" ELSE "idle"
    BY <1>4 DEF ProbeJudges
  <2>2. dog = "probing" /\ seen' = Stray(Doc("absent")) /\ doc' = doc
    BY <1>4 DEF ProbeJudges, fileVars
  <2>3. Paces'
    BY <1>1, <2>1 DEF HeartInv, Paces, loopVars, fileVars
  <2>4. seen' \in Docs
    BY <2>2, OwnDocs, StrayDocs
  <2>5. sound' => sound /\ Sound'
    BY <2>2 DEF Watched
  <2>6. ASSUME sound' PROVE dog' = "idle"
    <3>1. sound /\ Sound
      BY <2>5, <2>6 DEF HeartInv, Documents
    <3>2. seen.own /\ seen.state = "running" /\ seen.stamped /\ ~seen.stale
      BY <2>2, <3>1 DEF HeartInv, Documents
    <3>3. ~(docAge > StaleAfter)
      BY <3>1, SoundIsNotStale, LongestBounds DEF HeartInv, Paces
    <3>4. Health(seen, troubled) \in {"failed", "degraded", "healthy"}
      BY <3>2, <3>3 DEF Health
    <3>5. ExitCode(Health(seen, troubled)) # 2
      BY <3>4 DEF ExitCode
    <3> QED BY <2>1, <3>5
  <2>7. CASE dog' = "idle"
    BY <1>2, <2>2, <2>3, <2>4, <2>7, JudgedSoundly DEF HeartInv, Documents
  <2>8. CASE dog' # "idle"
    <3>1. ~sound' /\ dog' = "restarting"
      BY <2>1, <2>6, <2>8
    <3> QED BY <1>2, <2>2, <2>3, <2>4, <3>1 DEF HeartInv, Documents, SoundWorkerIsSpared
  <2> QED BY <2>7, <2>8
<1> QED BY <1>3, <1>4

\* The watchdog restarts no worker that has kept its schedule and published while it
\* was assessed, for every poll interval, cadence, work and staleness limit that fit
\* together as the shipped ones do.
THEOREM SoundWorkersAreSpared == HeartSpec => []SoundWorkerIsSpared
<1>1. HeartInv /\ [HeartNext]_heartVars => HeartInv'
  <2> SUFFICES ASSUME HeartInv, [HeartNext]_heartVars PROVE HeartInv'
    OBVIOUS
  <2>1. CASE UNCHANGED heartVars
    BY <2>1 DEF heartVars, loopVars, fileVars, dogVars, HeartInv, Paces, OnSchedule, Documents,
                SoundWorkerIsSpared, Sound, TicksSince
  <2> QED
    BY <2>1, WorkerBeats, TimePasses, WorkerLeaves, WorldChanges, WatchdogSpares DEF HeartNext
<1>2. HeartInv => SoundWorkerIsSpared
  BY DEF HeartInv
<1> QED BY <1>1, <1>2, HeartInvInit, PTL DEF HeartSpec
=============================================================================
