-------------------------------- MODULE Sensors --------------------------------
(***************************************************************************)
(* What a tick of the control loop takes from its sensors:                 *)
(* SampleDirectRuntimeSnapshot (platform/direct_runtime_snapshot.cpp) with  *)
(* the temperatures of the AMD reader (hardware/amd_reader.cpp), the GPU    *)
(* reader (hardware/gpu_reader.cpp), and the inputs the loop makes of the   *)
(* snapshot (control/tick_runner.cpp).  The snapshot is one buffer that is  *)
(* used again in every tick, and the GPU's workload context is cached.     *)
(*                                                                         *)
(* A temperature that was read is above 0.  The counters of the AMD reader  *)
(* are in CounterWindows, the outputs in FanHardware; board power is left   *)
(* out.                                                                    *)
(***************************************************************************)
EXTENDS Integers

CONSTANTS
  Degrees,      \* temperatures a sensor can show, naturals above 0
  Loads,        \* workload contexts
  Refresh,      \* kGpuContextRefreshInterval, in ticks
  Undefined,    \* no such reading
  Rejected,     \* a register value the decoder rejects
  Unread        \* a GPU whose sensors were not read

ASSUME SensorAssumption ==
  /\ Degrees \subseteq Nat \ {0}
  /\ Refresh \in Nat \ {0}
  /\ Undefined \notin Nat \cup Loads \cup {Rejected, Unread}
  /\ {Rejected, Unread} \cap Nat = {}

\* What the hardware answers in a tick.  tctl: a temperature, a value the decoder
\* rejects, or a failed read, also for want of the PCI mutex.  ccd: a valid die
\* sensor or none.  gpu: the device's sensors, none of them read, or no sample at
\* all.  load: its workload context, or no value of it.
World ==
  [tctl : Degrees \cup {Undefined, Rejected},
   ccd  : Degrees \cup {Undefined},
   gpu  : Degrees \cup {Undefined, Unread},
   load : Loads \cup {Undefined}]

VARIABLES
  world,     \* what the hardware answered in this tick
  amd,       \* RuntimeSnapshot::amd_sensors by label; Undefined: not there
  cpuInput,  \* TempInputs of the tick, Undefined: not available
  gpuInput,
  cache,     \* GpuReader::context_cache, of which age is the time since sampled_at
  loadAge    \* ticks since the load in the cache was read (history)

sensorVars == <<world, amd, cpuInput, gpuInput, cache, loadAge>>

Labels == {"tctl", "ccd"}

NoSamples == [l \in Labels |-> Undefined]
NoContext == [load |-> Undefined, age |-> 0]

SensorTypeOK ==
  /\ world \in World
  /\ amd \in [Labels -> Degrees \cup {Undefined}]
  /\ cpuInput \in Degrees \cup {Undefined}
  /\ gpuInput \in Degrees \cup {0, Undefined}
  /\ cache \in [load : Loads \cup {Undefined}, age : 0 .. Refresh + 1]
  /\ loadAge \in 0 .. Refresh + 1

SensorInit ==
  /\ world = [f \in {"tctl", "ccd", "gpu", "load"} |-> Undefined]
  /\ amd = NoSamples
  /\ cpuInput = Undefined /\ gpuInput = Undefined
  /\ cache = NoContext /\ loadAge = 0

\* AmdReader::Sample: nothing without the first register, whatever it shows.
AmdSamples(w) ==
  IF w.tctl = Undefined THEN NoSamples
  ELSE [tctl |-> IF w.tctl = Rejected THEN Undefined ELSE w.tctl, ccd |-> w.ccd]

\* Mutant: the sensors of the last tick stay when there are none now.
MergedAmdKept(w) == IF AmdSamples(w) = NoSamples THEN amd ELSE AmdSamples(w)

\* The buffer is cleared before MergeAmdTelemetry, which leaves it alone when the
\* reader has no sample.
MergedAmd(w) == AmdSamples(w)

\* GpuReader::Sample succeeds.
GpuAvailable(w) == w.gpu # Undefined

\* GpuControlEnvelopeC: a sample whose sensors were not read has them at 0.
GpuEnvelope(w) == IF w.gpu = Unread THEN 0 ELSE w.gpu

CacheAge == IF cache.age <= Refresh THEN cache.age + 1 ELSE cache.age

\* The context is read in ticks with a sample, when there is none or an old one.
ContextDue(w) == GpuAvailable(w) /\ (cache.load = Undefined \/ CacheAge >= Refresh)

\* A context that cannot be read leaves the last one in place, ageing.
Cached(w) ==
  IF ContextDue(w) /\ w.load # Undefined THEN [load |-> w.load, age |-> 0]
  ELSE IF cache.load = Undefined THEN NoContext
  ELSE [cache EXCEPT !.age = CacheAge]

SampleSnapshot ==
  \E w \in World :
    /\ world' = w
    /\ amd' = MergedAmd(w)
    /\ cpuInput' = MergedAmd(w)["tctl"]
    /\ gpuInput' = IF GpuAvailable(w) THEN GpuEnvelope(w) ELSE Undefined
    /\ cache' = Cached(w)
    /\ loadAge' = IF (ContextDue(w) /\ w.load # Undefined) \/ cache.load = Undefined THEN 0
                  ELSE IF loadAge <= Refresh THEN loadAge + 1 ELSE loadAge

SensorSpec == SensorInit /\ [][SampleSnapshot]_sensorVars

-----------------------------------------------------------------------------
(* Properties.                                                             *)

\* No tick works with a reading of an earlier one: what the control law is given
\* is what the sensors answer now, and a context is as old as its row says.
InputsAreOfThisTick ==
  /\ cpuInput # Undefined => world.tctl = cpuInput
  /\ gpuInput \notin {0, Undefined} => world.gpu = gpuInput
  /\ cache.load # Undefined => cache.age = loadAge
=============================================================================
