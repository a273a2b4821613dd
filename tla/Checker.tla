------------------------------- MODULE Checker -------------------------------
(***************************************************************************)
(* The driver of the malloc lab (mdriver.c): for each trace it checks the  *)
(* allocator, then measures how well it uses the heap, then how fast it    *)
(* is, each time on a heap that is emptied first; with the option -l it    *)
(* first runs all traces with the malloc of libc.  The allocators are any: *)
(* they keep their contract, or they return whatever they like.            *)
(*                                                                         *)
(* Addresses count from the start of the heap.  A byte has 2 * Half values *)
(* and char is signed, as on the lab's machines.                           *)
(***************************************************************************)
EXTENDS Integers, Sequences, FiniteSets, FiniteSetsExt

CONSTANTS
  Ids,         \* the indices traces use
  Files,       \* the trace files: num_ids, num_ops and the requests
  NumTraces,   \* how many of them the driver is given
  Alignment,
  Breaks,      \* where the heap may end
  Half         \* 128

HeapSize == Max(Breaks)
NULL == -1

\* The indices that requests before the k-th allocate, and do not free.
Owned(ops, k) ==
  {id \in Ids : \E j \in 1..k-1 : /\ ops[j].index = id /\ ops[j].type # "f"
                                  /\ \A l \in j+1..k-1 : ops[l].index # id}

\* A trace allocates an index before it reallocs or frees it, and does not
\* allocate it again before it is freed.
CheckerAssumption ==
  /\ Ids \subseteq Nat /\ Breaks \subseteq Nat /\ 0 \in Breaks
  /\ HeapSize \in Breaks /\ \A b \in Breaks : b <= HeapSize
  /\ NumTraces \in Nat /\ Half \in Nat \ {0}
  /\ \A f \in Files :
       /\ Len(f.ops) \in Nat
       /\ \A k \in 1..Len(f.ops) :
            /\ f.ops[k].index \in Ids /\ f.ops[k].size \in Nat /\ f.ops[k].size > 0
            /\ f.ops[k].type \in {"a", "r", "f"}
            /\ f.ops[k].type = "a" <=> f.ops[k].index \notin Owned(f.ops, k)

VARIABLES
  sound,       \* whether the allocators keep their contract
  package,     \* the one under test: "libc" or "mm"
  phase,       \* "read", "valid", "util", "speed", or "end"
  tracenum, trace,
  i,           \* the next request; 0 before the heap is emptied
  blocks, block_sizes,
  ranges,      \* the extents of the payloads that were accepted
  total_size, max_total_size,
  errors, numcorrect,
  brk,         \* the end of the heap
  mem,         \* the bytes of the heap
  held,        \* what the allocator owes for each index; 0 when nothing
  status       \* "running", "aborted" by an assertion, "exited" by app_error

resultVars == <<errors, numcorrect>>
traceVars == <<package, tracenum, trace>>
blockVars == <<blocks, block_sizes>>
sumVars == <<total_size, max_total_size>>
vars == <<sound, phase, traceVars, i, blockVars, ranges, sumVars, resultVars, brk, mem, held, status>>

Elsewhere == HeapSize + 1    \* a block of libc
Zeros == [id \in Ids |-> 0]
Live == {id \in Ids : held[id] > 0}
Request == trace.ops[i]
NoMem == [a \in 0..HeapSize-1 |-> NULL]

Init ==
  /\ sound \in BOOLEAN /\ package \in {"libc", "mm"} /\ phase = "read" /\ tracenum = 0
  /\ trace = [num_ids |-> 0, num_ops |-> 0, ops |-> << >>] /\ i = 0
  /\ blocks = Zeros /\ block_sizes = Zeros /\ ranges = << >>
  /\ total_size = 0 /\ max_total_size = 0 /\ errors = 0 /\ numcorrect = 0
  /\ brk = 0 /\ mem = NoMem /\ held = Zeros /\ status = "running"

-----------------------------------------------------------------------------
(* The allocator *)

Overlap(p, n, q, m) == p < q + m /\ q < p + n

\* It returns p for n bytes and lets the heap end at b; others are the blocks
\* it may not touch.
Returns(p, n, b, others) ==
  /\ b >= brk
  /\ sound => /\ p # NULL /\ p % Alignment = 0 /\ p + n <= b
              /\ \A id \in others : ~Overlap(p, n, blocks[id], held[id])
Pointers == {NULL} \cup 0..HeapSize

\* A realloc moves what fits of the n bytes at p to q.
Moved(p, n, q) ==
  [a \in DOMAIN mem |-> IF q <= a /\ a < q + n /\ p + (a - q) \in DOMAIN mem THEN mem[p + (a - q)] ELSE mem[a]]

-----------------------------------------------------------------------------
(* The ranges *)

\* Variant with a defect: only the start of the payload is looked up.
AddRangeLo(rs, lo, size) ==
  LET hi == lo + size - 1
      bad == \/ lo % Alignment # 0 \/ lo < 0 \/ lo > brk' - 1 \/ hi < 0 \/ hi > brk' - 1
             \/ \E k \in 1..Len(rs) : lo >= rs[k].lo /\ lo <= rs[k].hi
  IN  IF bad THEN << >> ELSE <<[lo |-> lo, hi |-> hi]>> \o rs

\* add_range: the new list; empty when the payload is refused.
AddRange(rs, lo, size) ==
  LET hi == lo + size - 1
      bad == \/ lo % Alignment # 0 \/ lo < 0 \/ lo > brk' - 1 \/ hi < 0 \/ hi > brk' - 1
             \/ \E k \in 1..Len(rs) : \/ lo >= rs[k].lo /\ lo <= rs[k].hi
                                      \/ hi >= rs[k].lo /\ hi <= rs[k].hi
  IN  IF bad THEN << >> ELSE <<[lo |-> lo, hi |-> hi]>> \o rs

\* remove_range: the first one that starts at lo.
RemoveRange(rs, lo) ==
  LET at == {k \in 1..Len(rs) : rs[k].lo = lo}
  IN  IF at = {} THEN rs ELSE SubSeq(rs, 1, Min(at) - 1) \o SubSeq(rs, Min(at) + 1, Len(rs))

-----------------------------------------------------------------------------
(* The driver *)

\* read_trace: the array of pointers is not initialised, and not read before
\* it is written in a trace that allocates before it frees.
ReadTrace ==
  /\ phase = "read" /\ tracenum < NumTraces
  /\ trace' \in Files
  /\ IF /\ Max({0} \cup {trace'.ops[k].index : k \in 1..Len(trace'.ops)}) = trace'.num_ids - 1
        /\ trace'.num_ops = Len(trace'.ops)
     THEN phase' = "valid" /\ i' = 0 /\ UNCHANGED status
     ELSE status' = "aborted" /\ UNCHANGED <<phase, i>>
  /\ blocks' = Zeros /\ block_sizes' = Zeros
  /\ UNCHANGED <<sound, package, tracenum, ranges, sumVars, resultVars, brk, mem, held>>

\* free_trace, and the loops of main.
Last == tracenum + 1 = NumTraces
NextTrace ==
  /\ phase' = IF Last /\ package = "mm" THEN "end" ELSE "read"
  /\ package' = IF Last THEN "mm" ELSE package
  /\ tracenum' = IF Last /\ package = "libc" THEN 0 ELSE tracenum + 1
  /\ i' = 0

\* malloc_error, and eval_mm_valid returns 0.
Refused ==
  /\ errors' = errors + 1 /\ NextTrace
  /\ UNCHANGED <<numcorrect, blockVars, ranges, held>>

AppError == status' = "exited" /\ UNCHANGED <<phase, i, package, tracenum, resultVars, blockVars, ranges, sumVars, held>>

\* Variant with a defect: the ranges of the last trace stay.
StartKeepsRanges ==
  /\ package = "mm" /\ phase \in {"valid", "util", "speed"} /\ i = 0
  /\ brk' \in Breaks /\ mem' = NoMem /\ held' = Zeros
  /\ total_size' = 0 /\ max_total_size' = 0
  /\ UNCHANGED ranges
  /\ i' = 1 /\ UNCHANGED <<phase, status, resultVars, package, tracenum>>
  /\ UNCHANGED <<sound, trace, blockVars>>

\* mem_reset_brk, clear_ranges and mm_init, which may fail.
Start ==
  /\ package = "mm" /\ phase \in {"valid", "util", "speed"} /\ i = 0
  /\ brk' \in Breaks /\ mem' = NoMem /\ held' = Zeros
  /\ total_size' = 0 /\ max_total_size' = 0
  /\ ranges' = IF phase = "valid" THEN << >> ELSE ranges
  /\ \/ i' = 1 /\ UNCHANGED <<phase, status, resultVars, package, tracenum>>
     \/ /\ ~sound /\ phase = "valid" /\ errors' = errors + 1 /\ NextTrace
        /\ UNCHANGED <<status, numcorrect>>
     \/ /\ ~sound /\ phase # "valid" /\ status' = "exited"
        /\ UNCHANGED <<phase, i, resultVars, package, tracenum>>
  /\ UNCHANGED <<sound, trace, blockVars>>

\* The payload is filled with the index, and remembered.
Filled(m, p, size, index) ==
  [a \in DOMAIN m |-> IF p <= a /\ a < p + size THEN index % (2 * Half) ELSE m[a]]
Remember(index, p, size) ==
  /\ blocks' = [blocks EXCEPT ![index] = p]
  /\ block_sizes' = [block_sizes EXCEPT ![index] = size]
  /\ held' = [held EXCEPT ![index] = size]

Is(ph, type) == package = "mm" /\ phase = ph /\ i \in 1..Len(trace.ops) /\ Request.type = type
Proceed == i' = i + 1 /\ UNCHANGED <<phase, package, tracenum>>

ValidAlloc ==
  /\ Is("valid", "a")
  /\ \E p \in Pointers, b \in Breaks :
       /\ Returns(p, Request.size, b, Live) /\ brk' = b
       /\ LET rs == AddRange(ranges, p, Request.size)
          IN  IF p = NULL \/ rs = << >> THEN Refused /\ UNCHANGED mem
              ELSE /\ ranges' = rs /\ Remember(Request.index, p, Request.size) /\ Proceed
                   /\ mem' = Filled(mem, p, Request.size, Request.index)
                   /\ UNCHANGED resultVars
  /\ UNCHANGED <<sound, trace, sumVars, status>>

\* newp[j] is a char, index & 0xFF an int.
SignedChar(byte) == IF byte >= Half THEN byte - 2 * Half ELSE byte
Preserved(m, p, n, index) == \A j \in 0..n-1 : SignedChar(m[p + j]) = index % (2 * Half)

ValidRealloc ==
  /\ Is("valid", "r")
  /\ LET index == Request.index
         size == Request.size
         oldsize == IF size < block_sizes[index] THEN size ELSE block_sizes[index]
     IN  \E p \in Pointers, b \in Breaks :
           /\ Returns(p, size, b, Live \ {index}) /\ brk' = b
           /\ LET rs == AddRange(RemoveRange(ranges, blocks[index]), p, size)
              IN  \E m \in {Moved(blocks[index], oldsize, p)} \cup (IF sound THEN {} ELSE {mem}) :
                    IF p = NULL \/ rs = << >> \/ ~Preserved(m, p, oldsize, index)
                    THEN Refused /\ UNCHANGED mem
                    ELSE /\ ranges' = rs /\ Remember(index, p, size) /\ Proceed
                         /\ mem' = Filled(m, p, size, index)
                         /\ UNCHANGED resultVars
  /\ UNCHANGED <<sound, trace, sumVars, status>>

ValidFree ==
  /\ Is("valid", "f")
  /\ ranges' = RemoveRange(ranges, blocks[Request.index])
  /\ held' = [held EXCEPT ![Request.index] = 0] /\ Proceed
  /\ UNCHANGED <<sound, trace, blockVars, sumVars, resultVars, brk, mem, status>>

\* The sum of the payloads, and its largest value so far.
Count(total) ==
  /\ total_size' = total
  /\ max_total_size' = IF total > max_total_size THEN total ELSE max_total_size

UtilAlloc ==
  /\ Is("util", "a")
  /\ \E p \in Pointers, b \in Breaks :
       /\ Returns(p, Request.size, b, Live) /\ brk' = b
       /\ IF p = NULL THEN AppError
          ELSE /\ Remember(Request.index, p, Request.size) /\ Proceed
               /\ Count(total_size + Request.size)
               /\ UNCHANGED <<ranges, resultVars, status>>
  /\ UNCHANGED <<sound, trace, mem>>

\* Variant with a defect: the old size is not taken off.
UtilReallocAdds ==
  /\ Is("util", "r")
  /\ \E p \in Pointers, b \in Breaks :
       /\ Returns(p, Request.size, b, Live \ {Request.index}) /\ brk' = b
       /\ p # NULL /\ Remember(Request.index, p, Request.size) /\ Proceed
       /\ Count(total_size + Request.size)
       /\ UNCHANGED <<ranges, resultVars, status>>
  /\ UNCHANGED <<sound, trace, mem>>

UtilRealloc ==
  /\ Is("util", "r")
  /\ \E p \in Pointers, b \in Breaks :
       /\ Returns(p, Request.size, b, Live \ {Request.index}) /\ brk' = b
       /\ IF p = NULL THEN AppError
          ELSE /\ Remember(Request.index, p, Request.size) /\ Proceed
               /\ Count(total_size + (Request.size - block_sizes[Request.index]))
               /\ UNCHANGED <<ranges, resultVars, status>>
  /\ UNCHANGED <<sound, trace, mem>>

UtilFree ==
  /\ Is("util", "f")
  /\ total_size' = total_size - block_sizes[Request.index]
  /\ held' = [held EXCEPT ![Request.index] = 0] /\ Proceed
  /\ UNCHANGED <<sound, trace, blockVars, ranges, max_total_size, resultVars, brk, mem, status>>

\* eval_mm_speed makes the calls, and does not keep the sizes.
Speed ==
  /\ package = "mm" /\ phase = "speed" /\ i \in 1..Len(trace.ops)
  /\ \/ /\ Request.type = "f"
        /\ held' = [held EXCEPT ![Request.index] = 0] /\ Proceed
        /\ UNCHANGED <<blocks, brk, status, resultVars, block_sizes, ranges, sumVars>>
     \/ /\ Request.type # "f"
        /\ \E p \in Pointers, b \in Breaks :
             /\ Returns(p, Request.size, b, Live \ {Request.index}) /\ brk' = b
             /\ IF p = NULL THEN AppError
                ELSE /\ blocks' = [blocks EXCEPT ![Request.index] = p]
                     /\ held' = [held EXCEPT ![Request.index] = Request.size] /\ Proceed
                     /\ UNCHANGED <<block_sizes, ranges, sumVars, resultVars, status>>
  /\ UNCHANGED <<sound, trace, mem>>

\* The end of the trace: the next evaluation, once more the same one for its
\* speed, or the next trace.  What main counts at its end is counted here.
Finish ==
  /\ package = "mm" /\ phase \in {"valid", "util", "speed"} /\ i = Len(trace.ops) + 1
  /\ \/ /\ i' = 0 /\ UNCHANGED <<package, tracenum>>
        /\ phase' = IF phase = "valid" THEN "util" ELSE "speed"
        /\ numcorrect' = IF phase = "valid" THEN numcorrect + 1 ELSE numcorrect
     \/ phase = "speed" /\ NextTrace /\ UNCHANGED numcorrect
  /\ UNCHANGED <<sound, trace, blockVars, ranges, sumVars, errors, brk, mem, held, status>>

\* eval_libc_valid: the calls are made and nothing is checked.
LibcValid ==
  /\ package = "libc" /\ phase = "valid" /\ i \in 0..Len(trace.ops)
  /\ \/ /\ Proceed /\ UNCHANGED <<errors, status>>
        /\ blocks' = IF i = 0 \/ Request.type = "f" THEN blocks ELSE [blocks EXCEPT ![Request.index] = Elsewhere]
     \/ /\ ~sound /\ i > 0 /\ Request.type # "f" /\ errors' = errors + 1 /\ status' = "exited"
        /\ UNCHANGED <<phase, package, tracenum, i, blocks>>
  /\ UNCHANGED <<sound, trace, block_sizes, ranges, sumVars, numcorrect, brk, mem, held>>

\* eval_libc_speed, as often as fsecs likes.
LibcSpeed ==
  /\ package = "libc"
  /\ \/ phase = "valid" /\ i = Len(trace.ops) + 1 /\ phase' = "speed" /\ i' = 1
        /\ UNCHANGED <<package, tracenum, status>>
     \/ phase = "speed" /\ i \in 1..Len(trace.ops) /\ Proceed /\ UNCHANGED status
     \/ /\ phase = "speed" /\ i \in 1..Len(trace.ops) /\ Request.type # "f" /\ ~sound
        /\ status' = "exited" /\ UNCHANGED <<phase, package, tracenum, i>>
     \/ /\ phase = "speed" /\ i = Len(trace.ops) + 1
        /\ (i' = 1 /\ UNCHANGED <<phase, package, tracenum>>) \/ NextTrace
        /\ UNCHANGED status
  /\ UNCHANGED <<sound, trace, blockVars, ranges, sumVars, resultVars, brk, mem, held>>

Next ==
  /\ status = "running"
  /\ \/ ReadTrace \/ Start \/ Finish
     \/ ValidAlloc \/ ValidRealloc \/ ValidFree
     \/ UtilAlloc \/ UtilRealloc \/ UtilFree \/ Speed
     \/ LibcValid \/ LibcSpeed

Spec == Init /\ [][Next]_vars
-----------------------------------------------------------------------------
(* Properties *)

\* The traces with a realloc of an index whose byte is negative as a char.
ReallocsHigh == \E k \in 1..Len(trace.ops) : trace.ops[k].type = "r" /\ trace.ops[k].index % (2 * Half) >= Half

(***************************************************************************)
(* An allocator that keeps its contract is never reported, whatever the    *)
(* traces before left in the list of ranges, unless the trace reallocs an  *)
(* index of 128 or more (mdriver.c:656); and at the end the driver has     *)
(* counted every trace either as an error or as correct.                   *)
(***************************************************************************)
NoFalseAlarm ==
  [][/\ sound => (errors' = errors \/ ReallocsHigh) /\ status' # "exited"
     /\ phase' = "end" => errors' + numcorrect' = NumTraces]_vars

(***************************************************************************)
(* While a trace is checked the list holds the extent of every block the   *)
(* allocator has given out and of no other, each of them aligned and in    *)
(* the heap, and of two that overlap the later one encloses the earlier    *)
(* one (mdriver.c:409 does not see that), whatever the allocator returns.  *)
(***************************************************************************)
Extent(id) == [lo |-> blocks[id], hi |-> blocks[id] + block_sizes[id] - 1]
RangesKept ==
  package = "mm" /\ phase = "valid" /\ i > 0 =>
    /\ Len(ranges) = Cardinality(Live)
    /\ {ranges[k] : k \in 1..Len(ranges)} = {Extent(id) : id \in Live}
    /\ \A k \in 1..Len(ranges) : ranges[k].lo % Alignment = 0 /\ 0 <= ranges[k].lo /\ ranges[k].hi < brk
    /\ \A j, k \in 1..Len(ranges) : j < k =>
         \/ ranges[j].hi < ranges[k].lo \/ ranges[k].hi < ranges[j].lo
         \/ ranges[j].lo < ranges[k].lo /\ ranges[k].hi < ranges[j].hi

(***************************************************************************)
(* The utilisation is computed from the sum of the payloads that are       *)
(* allocated, through every realloc and free, and with an allocator that   *)
(* keeps its contract it never exceeds one.                                *)
(***************************************************************************)
BytesHeld == UNION {{id} \X (1..held[id]) : id \in Ids}
UtilCounts ==
  phase = "util" /\ i > 0 =>
    /\ total_size = Cardinality(BytesHeld)
    /\ total_size <= max_total_size
    /\ sound => max_total_size <= brk
=============================================================================
