--------------------------------- MODULE Fcyc ---------------------------------
(***************************************************************************)
(* The cycle counter of the malloc lab (clock.c) and the K-best scheme on  *)
(* top of it (fcyc.c): f is run again and again, and the K shortest        *)
(* measurements are kept until they agree.  The counter is two words of    *)
(* Word values each; a timer interrupt takes TickCost cycles and adds one  *)
(* to the user time of the process, and callibrate has found that cost.    *)
(***************************************************************************)
EXTENDS Integers, Sequences, SequencesExt

CONSTANTS
  Word,             \* 2^32
  Durations,        \* how many cycles a run of f takes
  TickCost,
  Ks, MaxSamples,   \* the arguments of set_fcyc_k and set_fcyc_maxsamples
  CacheSizes,       \* the arguments of set_fcyc_cache_size
  EpsNum, EpsDen    \* epsilon, as a fraction

FcycAssumption ==
  /\ Word \in Nat \ {0} /\ Durations \subseteq Nat /\ TickCost \in Nat
  /\ \A d \in Durations : d + TickCost < Word * Word
  /\ Ks \subseteq Nat \ {0} /\ MaxSamples \in Nat \ {0} /\ CacheSizes \subseteq Nat \ {0}

VARIABLES
  counter,     \* the cycle counter of the processor
  cyc,         \* cyc_hi and cyc_lo
  ticks,       \* interrupts since start_comp_counter read the user time
  kbest, compensate, clear_cache, cache_bytes,
  cache_buf,   \* the size of the block it points to; 0 when it is null
  values, samplecount,
  step,        \* where fcyc is
  time,        \* what get_counter or get_comp_counter returned
  run,         \* the measurement under way: the cycles of f, the interrupts
  samples,     \* the samples of this call to fcyc
  runs,        \* what really happened in each of them
  result       \* what the last call to fcyc returned

settings == <<kbest, compensate, clear_cache>>
cache == <<cache_bytes, cache_buf>>
sampler == <<values, samplecount>>
history == <<samples, runs, result>>
vars == <<counter, cyc, ticks, settings, cache, sampler, step, time, run, history>>

Quiet == [cycles |-> 0, interrupts |-> 0]

Init ==
  /\ counter \in 0..Word*Word-1 /\ cyc = [hi |-> 0, lo |-> 0] /\ ticks = 0
  /\ kbest \in Ks /\ compensate \in BOOLEAN /\ clear_cache \in BOOLEAN
  /\ cache_bytes \in CacheSizes /\ cache_buf = 0
  /\ values = << >> /\ samplecount = 0 /\ step = "idle" /\ time = 0 /\ run = Quiet
  /\ samples = << >> /\ runs = << >> /\ result = 0

Advance(n) == counter' = (counter + n) % (Word * Word)

\* set_fcyc_k, set_fcyc_compensate, set_fcyc_clear_cache.
Set ==
  /\ step = "idle" /\ kbest' \in Ks /\ compensate' \in BOOLEAN /\ clear_cache' \in BOOLEAN
  /\ UNCHANGED <<counter, cyc, ticks, cache, sampler, step, time, run, history>>

\* Variant with a defect: the block stays as large as it was.
SetCacheSizeKeeps ==
  /\ step = "idle" /\ cache_bytes' \in CacheSizes \ {cache_bytes} /\ UNCHANGED cache_buf
  /\ UNCHANGED <<counter, cyc, ticks, settings, sampler, step, time, run, history>>

\* set_fcyc_cache_size.
SetCacheSize ==
  /\ step = "idle" /\ cache_bytes' \in CacheSizes \ {cache_bytes} /\ cache_buf' = 0
  /\ UNCHANGED <<counter, cyc, ticks, settings, sampler, step, time, run, history>>

NextRun == step' = IF clear_cache THEN "clear" ELSE "start"

\* init_sampler.
Call ==
  /\ step = "idle" /\ NextRun
  /\ values' = << >> /\ samplecount' = 0 /\ samples' = << >> /\ runs' = << >>
  /\ UNCHANGED <<counter, cyc, ticks, settings, cache, time, run, result>>

\* clear: it reads cache_bytes bytes of a block that it allocates once.
Clear ==
  /\ step = "clear"
  /\ \/ step' = "start" /\ cache_buf' = IF cache_buf = 0 THEN cache_bytes ELSE cache_buf
     \/ step' = "exited" /\ cache_buf = 0 /\ UNCHANGED cache_buf
  /\ UNCHANGED <<counter, cyc, ticks, settings, cache_bytes, sampler, time, run, history>>

\* start_comp_counter reads the user time first.
StartTimes ==
  /\ step = "start" /\ compensate /\ step' = "counter" /\ ticks' = 0
  /\ UNCHANGED <<counter, cyc, settings, cache, sampler, time, run, history>>

StartCounter ==
  /\ step = IF compensate THEN "counter" ELSE "start"
  /\ step' = "run" /\ cyc' = [hi |-> counter \div Word, lo |-> counter % Word]
  /\ UNCHANGED <<counter, ticks, settings, cache, sampler, time, run, history>>

RunF ==
  /\ step = "run" /\ step' = "get"
  /\ \E d \in Durations : Advance(d) /\ run' = [run EXCEPT !.cycles = d]
  /\ UNCHANGED <<cyc, ticks, settings, cache, sampler, time, history>>

\* A timer interrupt, at most one in a measurement.  Only get_comp_counter
\* reads the ticks.
Tick ==
  /\ step \in {"counter", "run", "get", "times"} /\ run.interrupts = 0
  /\ Advance(TickCost) /\ ticks' = IF compensate THEN ticks + 1 ELSE ticks
  /\ run' = [run EXCEPT !.interrupts = 1]
  /\ UNCHANGED <<cyc, settings, cache, sampler, step, time, history>>

\* Variant with a defect: nothing is borrowed from the high word.
GetCounterNoBorrow ==
  /\ step = "get" /\ step' = IF compensate THEN "times" ELSE "add"
  /\ LET lo == ((counter % Word) - cyc.lo) % Word
         hi == ((counter \div Word) - cyc.hi) % Word
     IN  time' = hi * Word + lo
  /\ UNCHANGED <<counter, cyc, ticks, settings, cache, sampler, run, history>>

\* The difference of two double words, in unsigned words.
GetCounter ==
  /\ step = "get" /\ step' = IF compensate THEN "times" ELSE "add"
  /\ LET lo == ((counter % Word) - cyc.lo) % Word
         borrow == IF lo > (counter % Word) THEN 1 ELSE 0
         hi == ((counter \div Word) - cyc.hi - borrow) % Word
     IN  time' = hi * Word + lo
  /\ UNCHANGED <<counter, cyc, ticks, settings, cache, sampler, run, history>>

\* get_comp_counter reads the user time last.
GetTimes ==
  /\ step = "times" /\ step' = "add" /\ time' = time - ticks * TickCost
  /\ UNCHANGED <<counter, cyc, ticks, settings, cache, sampler, run, history>>

\* The last of vs moves down to its place.
Sink(vs) ==
  LET n == Len(vs)
      smaller == {j \in 0..n-1 : \A l \in j+1..n-1 : vs[l] > vs[n]}
      pos == CHOOSE j \in smaller : \A l \in smaller : j <= l
  IN  InsertAt(SubSeq(vs, 1, n - 1), pos + 1, vs[n])

AddSample ==
  /\ step = "add" /\ step' = "test"
  /\ values' = IF samplecount < kbest THEN Sink(Append(values, time))
               ELSE IF time < values[kbest] THEN Sink([values EXCEPT ![kbest] = time])
               ELSE values
  /\ samplecount' = samplecount + 1
  /\ samples' = Append(samples, time) /\ runs' = Append(runs, run) /\ run' = Quiet
  /\ UNCHANGED <<counter, cyc, ticks, settings, cache, time, result>>

HasConverged == samplecount >= kbest /\ (EpsDen + EpsNum) * values[1] >= EpsDen * values[kbest]

Loop ==
  /\ step = "test"
  /\ IF ~HasConverged /\ samplecount < MaxSamples
     THEN NextRun /\ UNCHANGED <<values, result>>
     ELSE step' = "idle" /\ result' = values[1] /\ values' = << >>
  /\ UNCHANGED <<counter, cyc, ticks, settings, cache, samplecount, time, run, samples, runs>>

Next ==
  \/ Set \/ SetCacheSize \/ Call \/ Clear \/ StartTimes \/ StartCounter \/ RunF \/ Tick \/ GetCounter \/ GetTimes
  \/ AddSample \/ Loop

Spec == Init /\ [][Next]_vars
-----------------------------------------------------------------------------

(***************************************************************************)
(* Values holds the shortest samples in order, and fcyc returns the        *)
(* shortest one.  A sample is exactly the cycles of f when no interrupt    *)
(* came, however the words of the counter wrapped around; an interrupt     *)
(* makes it too long without compensation and never with it (but too short *)
(* when it falls between the two reads of a start or of an end).           *)
(***************************************************************************)
Shortest(vs, n) ==
  /\ Len(vs) = IF n < Len(samples) THEN n ELSE Len(samples)
  /\ \A j, k \in 1..Len(vs) : j < k => vs[j] <= vs[k]
  /\ \E pick \in Injection(1..Len(vs), 1..Len(samples)) :
       /\ \A k \in 1..Len(vs) : vs[k] = samples[pick[k]]
       /\ \A l \in 1..Len(samples) : \A k \in 1..Len(vs) : (\A j \in 1..Len(vs) : pick[j] # l) => vs[k] <= samples[l]
Faithful(n) ==
  /\ runs[n].interrupts = 0 => samples[n] = runs[n].cycles
  /\ IF compensate THEN samples[n] <= runs[n].cycles ELSE samples[n] >= runs[n].cycles
MeasuresBest ==
  /\ IF step = "idle" THEN samples # << >> => Shortest(<<result>>, 1)
     ELSE Shortest(values, kbest) /\ \A n \in 1..Len(samples) : Faithful(n)

(***************************************************************************)
(* The cache is cleared inside the block that was allocated for it,        *)
(* whatever set_fcyc_cache_size has changed since.                         *)
(***************************************************************************)
ClearsInside == step = "start" /\ clear_cache => cache_buf = cache_bytes
=============================================================================
