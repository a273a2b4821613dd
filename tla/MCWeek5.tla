------------------------------- MODULE MCWeek5 -------------------------------
(***************************************************************************)
(* For TLC: what week 5 has beside the allocators themselves, that is the  *)
(* abstract heap they implement, the driver that checks them and the timer *)
(* it measures them with.  They share nothing, and a behaviour is of one   *)
(* of them.                                                                *)
(***************************************************************************)
EXTENDS BlockHeap, Sequences

CONSTANTS
  Structures,                                              \* the parts behaviours may be of
  Ids, Files, NumTraces, Alignment, Breaks, Half,          \* of Checker
  Word, Durations, TickCost, Ks, MaxSamples, CacheSizes, EpsNum, EpsDen  \* of Fcyc

A(index, n) == [type |-> "a", index |-> index, size |-> n]
R(index, n) == [type |-> "r", index |-> index, size |-> n]
F(index) == [type |-> "f", index |-> index, size |-> 1]
TraceFile(ids, n, ops) == [num_ids |-> ids, num_ops |-> n, ops |-> ops]
\* Balanced; not balanced; an index whose byte is negative; a header that lies.
TraceFiles ==
  {TraceFile(2, 5, <<A(0, 1), A(1, 2), R(0, 4), F(1), F(0)>>),
   TraceFile(2, 3, <<A(1, 2), R(1, 1), A(0, 4)>>),
   TraceFile(3, 2, <<A(2, 1), R(2, 2)>>),
   TraceFile(1, 2, <<A(0, 1)>>)}

VARIABLES
  structure,   \* the part this behaviour is of
  sound, package, phase, tracenum, trace, i, payloads, block_sizes, ranges, total_size, max_total_size,
  errors, numcorrect, brk, mem, held, status,
  counter, cyc, ticks, kbest, compensate, clear_cache, cache_bytes, cache_buf, values, samplecount, step, time, run, samples, runs, result

Mdriver == INSTANCE Checker WITH blocks <- payloads
Timer == INSTANCE Fcyc

ASSUME DriverAssumption == Mdriver!CheckerAssumption /\ Timer!FcycAssumption

mdriverVars == <<sound, package, phase, tracenum, trace, i, payloads, block_sizes, ranges, total_size,
                 max_total_size, errors, numcorrect, brk, mem, held, status>>
timerVars == <<counter, cyc, ticks, kbest, compensate, clear_cache, cache_bytes, cache_buf, values,
               samplecount, step, time, run, samples, runs, result>>

Week5Init ==
  /\ structure \in Structures /\ Init
  /\ Mdriver!Init /\ (structure # "checker" => sound /\ package = "mm")
  /\ Timer!Init /\ (structure # "timer" => counter = 0 /\ compensate /\ clear_cache
                                                  /\ \A k \in Ks : kbest <= k)
  /\ \A n \in CacheSizes : cache_bytes <= n

Week5Next ==
  \/ structure = "heap" /\ Next /\ UNCHANGED <<structure, mdriverVars, timerVars>>
  \/ structure = "checker" /\ Mdriver!Next /\ UNCHANGED <<structure, vars, timerVars>>
  \/ structure = "timer" /\ Timer!Next /\ UNCHANGED <<structure, vars, mdriverVars>>

Week5Spec == Week5Init /\ [][Week5Next]_<<structure, vars, mdriverVars, timerVars>>
-----------------------------------------------------------------------------

(***************************************************************************)
(* mdriver.c: a correct allocator is not reported, the list of ranges is   *)
(* that of the blocks, and the utilisation counts the payloads: its books  *)
(* are kept.                                                               *)
(***************************************************************************)
NoFalseAlarm == Mdriver!NoFalseAlarm
RangesKept == Mdriver!RangesKept
UtilCounts == Mdriver!UtilCounts
BooksKept == RangesKept /\ UtilCounts

(***************************************************************************)
(* clock.c, fcyc.c: the shortest of exact measurements, each with a cache  *)
(* that was cleared inside its block.                                      *)
(***************************************************************************)
MeasuresBest == Timer!MeasuresBest /\ Timer!ClearsInside
=============================================================================
