------------------------------- MODULE Mdriver -------------------------------
(***************************************************************************)
(* A program on an allocator, as eval_mm_valid of mdriver.c is: it starts  *)
(* the heap, allocates, reallocates and frees blocks that it knows by an   *)
(* index, fills every block with its index, and expects to find it again.  *)
(* It is linked with one allocator, whose functions are those of MmCalls.  *)
(***************************************************************************)
EXTENDS MmCalls

CONSTANTS
  Allocators,            \* the allocators the program can be linked with
  Ids,                   \* the indices of the blocks
  Requests               \* the sizes the program asks for

\* The first chunk fits into the heap.
ASSUME AllocatorsAssumption ==
  /\ Allocators \subseteq Listed \cup {"lab1"}
  /\ \A a \in Allocators : FirstBlock(a) + ChunkSize <= MaxHeap

(***************************************************************************)
(* mm.c:240 rounds a request within 15 bytes of SIZE_MAX to a block of no  *)
(* size, whose payload is not in the heap, and memlib.c:62 grants a block  *)
(* of less than SIZE_MAX / 2 that makes mem_brk + incr wrap around to an   *)
(* address below the heap: no program here asks for either.                *)
(***************************************************************************)
ASSUME IdsAssumption ==
  /\ Ids \subseteq Nat /\ Requests \subseteq {n \in Nat : n + DSIZE + DSIZE - 1 < SizeMod}
  /\ \A n \in Requests : NoWrap(Asize(n))

VARIABLES
  linked,      \* the allocator of this program
  heap,        \* the simulated heap
  blocks,      \* trace->blocks: the payload of each index, NULL when it has none
  sizes,       \* trace->block_sizes
  filled       \* how many bytes of the payload hold the index

vars == <<linked, heap, blocks, sizes, filled>>

\* A word of four bytes that all hold the index.
Fill(id) == -2 - id
Memset(h, bp, size, id) ==
  [h EXCEPT !.mem = [a \in Words |-> IF bp <= a /\ a < bp + size THEN Fill(id) ELSE @[a]]]

(***************************************************************************)
(* The contents of freed memory are forgotten: the words of a free block   *)
(* between its links and its footer, those of a used block nobody filled,  *)
(* and those beyond brk hold Junk again, so that two states do not differ  *)
(* by what was there before.  An allocator that read one would find Junk.  *)
(***************************************************************************)
Kept(h, bps, lengths) ==
  LET bs == Blocks(h, FirstBlock(linked))
      ends == UNION {{Hdrp(b.at), Hdrp(b.at + b.size), b.at + b.size - DSIZE} : b \in bs}
      links == {b.at + WSIZE * i : b \in {c \in bs : ~c.used}, i \in 0..Links(linked)-1}
  IN  {a \in Words : \/ a < FirstBlock(linked) \/ a \in ends \/ a \in links
                     \/ \E id \in Ids : bps[id] # NULL /\ bps[id] <= a /\ a < bps[id] + lengths[id]}
Forget(h, bps, lengths) ==
  LET kept == Kept(h, bps, lengths)
  IN  [h EXCEPT !.mem = [a \in Words |-> IF a \in kept THEN h.mem[a] ELSE Junk]]

Live == {id \in Ids : blocks[id] # NULL}

NoBlocks == [id \in Ids |-> NULL]

Init ==
  /\ linked \in Allocators
  /\ heap = mm_init(linked, MemInit).heap
  /\ blocks = NoBlocks /\ sizes = NoBlocks /\ filled = NoBlocks

\* The next trace: mem_reset_brk and mm_init, on the words the last one left.
Restart ==
  /\ heap' = Forget(mm_init(linked, MemResetBrk(heap)).heap, NoBlocks, NoBlocks)
  /\ blocks' = NoBlocks /\ sizes' = NoBlocks /\ filled' = NoBlocks
  /\ UNCHANGED linked

AllocOp(id, size) ==
  /\ blocks[id] = NULL
  /\ \E r \in {mm_malloc(linked, heap, size)} :
         IF r.bp = NULL THEN UNCHANGED vars
         ELSE /\ blocks' = [blocks EXCEPT ![id] = r.bp]
              /\ sizes' = [sizes EXCEPT ![id] = size]
              /\ filled' = [filled EXCEPT ![id] = size]
              /\ heap' = Forget(Memset(r.heap, r.bp, size, id), blocks', filled')
              /\ UNCHANGED linked

\* Variant with a defect: more of the old data is expected than was asked for.
ReallocOpAll(id, size) ==
  /\ blocks[id] # NULL
  /\ \E r \in {mm_realloc(linked, heap, blocks[id], size)} :
         IF r.bp = NULL THEN UNCHANGED vars
         ELSE /\ blocks' = [blocks EXCEPT ![id] = r.bp]
              /\ sizes' = [sizes EXCEPT ![id] = size]
              /\ heap' = Forget(r.heap, blocks', filled)
              /\ UNCHANGED <<linked, filled>>

ReallocOp(id, size) ==
  /\ blocks[id] # NULL
  /\ \E r \in {mm_realloc(linked, heap, blocks[id], size)} :
         IF r.bp = NULL THEN UNCHANGED vars
         ELSE /\ blocks' = [blocks EXCEPT ![id] = r.bp]
              /\ sizes' = [sizes EXCEPT ![id] = size]
              /\ filled' = [filled EXCEPT ![id] = IF size < @ THEN size ELSE @]
              /\ heap' = Forget(r.heap, blocks', filled')
              /\ UNCHANGED linked

\* After a realloc the new payload is filled again.
Refill(id) ==
  /\ filled[id] < sizes[id]
  /\ heap' = Memset(heap, blocks[id], sizes[id], id)
  /\ filled' = [filled EXCEPT ![id] = sizes[id]]
  /\ UNCHANGED <<linked, blocks, sizes>>

FreeOp(id) ==
  /\ blocks[id] # NULL
  /\ blocks' = [blocks EXCEPT ![id] = NULL]
  /\ sizes' = [sizes EXCEPT ![id] = 0]
  /\ filled' = [filled EXCEPT ![id] = 0]
  /\ heap' = Forget(mm_free(linked, heap, blocks[id]), blocks', filled')
  /\ UNCHANGED linked

Next ==
  \/ Restart
  \/ \E id \in Ids : Refill(id) \/ FreeOp(id)
                     \/ \E size \in Requests : AllocOp(id, size) \/ ReallocOp(id, size)

Spec == Init /\ [][Next]_vars
-----------------------------------------------------------------------------
(* Properties *)

HeapBlocks == Blocks(heap, FirstBlock(linked))

TypeOK ==
  /\ heap.mem \in [Words -> Int] /\ heap.brk \in {a \in 0..MaxHeap : a % DSIZE = 0}
  /\ blocks \in [Ids -> 0..MaxHeap] /\ sizes \in [Ids -> Requests \cup {0}]
  /\ \A id \in Ids : filled[id] \in 0..sizes[id]

(***************************************************************************)
(* What add_range of mdriver.c checks of every payload: it is aligned, in  *)
(* the heap and overlaps no other payload.                                 *)
(***************************************************************************)
PayloadsValid ==
  /\ \A id \in Live : blocks[id] % DSIZE = 0 /\ 0 < blocks[id] /\ blocks[id] + sizes[id] <= heap.brk
  /\ \A i, j \in Live : i # j => \/ blocks[i] + sizes[i] <= blocks[j]
                                 \/ blocks[j] + sizes[j] <= blocks[i]

(***************************************************************************)
(* The allocator never writes into a payload, and a realloc brings along   *)
(* as much of the old payload as the new one holds.                        *)
(***************************************************************************)
DataIntact ==
  \A id \in Live : \A a \in Words :
    blocks[id] <= a /\ a < blocks[id] + filled[id] => heap.mem[a] = Fill(id)

(***************************************************************************)
(* The headers describe exactly the blocks the program holds: each of them *)
(* is a used block large enough for it, and no other block is used.        *)
(***************************************************************************)
NoLeak ==
  /\ {b.at : b \in {c \in HeapBlocks : c.used}} = {blocks[id] : id \in Live}
  /\ \A b \in HeapBlocks : \A id \in Live :
       b.at = blocks[id] => sizes[id] <= b.size - DSIZE

(***************************************************************************)
(* Every footer repeats its header: coalesce finds the block to the left.  *)
(***************************************************************************)
FootersMatch == \A b \in HeapBlocks : heap.mem[Hdrp(b.at)] = heap.mem[b.at + b.size - DSIZE]

(***************************************************************************)
(* mm_malloc refuses a request only when no free block is large enough and *)
(* the heap cannot grow by what it asks for.                               *)
(***************************************************************************)
DeniedOnlyWhenFull ==
  \A n \in Requests \ {0} :
    mm_malloc(linked, heap, n).bp = NULL => /\ \A b \in HeapBlocks : ~b.used => b.size < Asize(n)
                                    /\ heap.brk + ExtendSize(Asize(n)) > MaxHeap

=============================================================================
