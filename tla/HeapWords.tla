------------------------------ MODULE HeapWords ------------------------------
(***************************************************************************)
(* What the allocators of the malloc lab are written on: the words of the  *)
(* simulated heap (memlib.c), the macros on headers and footers and the    *)
(* size arithmetic of mm_malloc, which mm.c and lab1 to lab3 share.        *)
(*                                                                         *)
(* A heap h is a record with the fields mem, the value of every word, brk, *)
(* and list, the variable free_listp of lab2-explicit.c, which the others  *)
(* do not have.  An address is the distance in bytes from mem_start_brk,   *)
(* and words are aligned to WSIZE.  The word at 0 is padding that no       *)
(* pointer refers to, so that 0 is NULL.  size_t has SizeMod values.       *)
(***************************************************************************)
EXTENDS Integers, Sequences, FiniteSets

CONSTANTS
  ChunkSize,   \* CHUNKSIZE in bytes
  MaxHeap,     \* MAX_HEAP in bytes
  Base,        \* the address of mem_start_brk, which malloc returned
  SizeMod      \* 2^32: mdriver is built with -m32

WSIZE == 4
DSIZE == 8
NULL == 0

ASSUME HeapWordsAssumption ==
  /\ ChunkSize \in Nat /\ ChunkSize >= 2 * DSIZE /\ ChunkSize % DSIZE = 0
  /\ MaxHeap \in Nat /\ MaxHeap % DSIZE = 0
  /\ SizeMod \in Nat /\ SizeMod % DSIZE = 0 /\ 2 * MaxHeap < SizeMod
  /\ Base \in Nat /\ Base + MaxHeap + ChunkSize < SizeMod

Words == {WSIZE * i : i \in 0..(MaxHeap \div WSIZE) - 1}
Junk == -1     \* the contents of memory nobody has written yet

(***************************************************************************)
(* memlib.c.  mem_sbrk takes an int: half of the sizes are negative there. *)
(* Line 62 compares addresses, and mem_brk + incr wraps around at SizeMod. *)
(***************************************************************************)
MemInit == [mem |-> [a \in Words |-> Junk], brk |-> 0, list |-> NULL]
MemResetBrk(h) == [h EXCEPT !.brk = 0]
\* Variant with a defect: the last byte of the heap cannot be used.
SbrkFailsEarly(h, incr) ==
  incr >= SizeMod \div 2 \/ (Base + h.brk + incr) % SizeMod >= Base + MaxHeap

SbrkFails(h, incr) ==
  incr >= SizeMod \div 2 \/ (Base + h.brk + incr) % SizeMod > Base + MaxHeap
MemSbrk(h, incr) == [h EXCEPT !.brk = @ + incr]

(***************************************************************************)
(* A header or footer: a size, which is a multiple of 8, and an alloc bit. *)
(***************************************************************************)
Pack(size, alloc) == size + alloc
SizeAt(h, p) == (h.mem[p] \div DSIZE) * DSIZE
AllocAt(h, p) == h.mem[p] % 2

Hdrp(bp) == bp - WSIZE
BlockSize(h, bp) == SizeAt(h, Hdrp(bp))
IsAlloc(h, bp) == AllocAt(h, Hdrp(bp)) = 1
Ftrp(h, bp) == bp + BlockSize(h, bp) - DSIZE
NextBp(h, bp) == bp + BlockSize(h, bp)
PrevBp(h, bp) == bp - SizeAt(h, bp - DSIZE)

Put(h, p, val) == [h EXCEPT !.mem[p] = val]
\* PUT(HDRP(bp), val); PUT(FTRP(bp), val)
Tag(h, bp, size, alloc) ==
  LET g == Put(h, Hdrp(bp), Pack(size, alloc)) IN Put(g, Ftrp(g, bp), Pack(size, alloc))

(***************************************************************************)
(* The block for a request: header, footer and payload, rounded up to the  *)
(* alignment, in the arithmetic of size_t.                                 *)
(***************************************************************************)
Asize(size) ==
  IF size <= DSIZE THEN 2 * DSIZE
  ELSE DSIZE * (((size + DSIZE + DSIZE - 1) % SizeMod) \div DSIZE)

\* No growth by n makes the address wrap around below the end of the heap.
NoWrap(n) == n >= SizeMod \div 2 \/ Base + MaxHeap + n < SizeMod

ExtendSize(asize) == IF asize > ChunkSize THEN asize ELSE ChunkSize

\* memcpy(to, from, n), word by word.
Copy(h, to, from, n) ==
  [h EXCEPT !.mem = [a \in Words |-> IF to <= a /\ a < to + n THEN h.mem[from + (a - to)]
                                     ELSE h.mem[a]]]

(***************************************************************************)
(* The blocks the headers describe, from the first one after the prologue  *)
(* to the epilogue, whose size is 0.                                       *)
(***************************************************************************)
MaxBlocks == MaxHeap \div (2 * DSIZE)
IsBlock(h, bp) == Hdrp(bp) \in Words /\ BlockSize(h, bp) > 0
Blocks(h, first) ==
  LET Reached[k \in 0..MaxBlocks] ==
        IF k = 0 THEN {first}
        ELSE {first} \cup {NextBp(h, bp) : bp \in {p \in Reached[k-1] : IsBlock(h, p)}}
  IN  {[at |-> bp, size |-> BlockSize(h, bp), used |-> IsAlloc(h, bp)] :
         bp \in {p \in Reached[MaxBlocks] : IsBlock(h, p)}}
=============================================================================
