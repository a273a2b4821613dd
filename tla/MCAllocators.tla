----------------------------- MODULE MCAllocators -----------------------------
(***************************************************************************)
(* Mdriver linked with each of the allocators, against what they promise.  *)
(***************************************************************************)
EXTENDS Mdriver

(***************************************************************************)
(* best_fit sees every free block: the lists hold exactly the free blocks  *)
(* of their class, linked both ways, after any history of merges.          *)
(***************************************************************************)
FreeListsExact == linked \in Listed => ListsExact(linked, heap)

(***************************************************************************)
(* Each allocator is the block heap: best fit over all free blocks, split, *)
(* immediate coalescing, and growth only when nothing fits.                *)
(***************************************************************************)
Abstract(a) == INSTANCE BlockHeap
  WITH First <- FirstBlock(a), Limit <- MaxHeap, Chunk <- ChunkSize,
       Sizes <- {Asize(n) : n \in Requests \ {0}}, blocks <- HeapBlocks, top <- heap.brk
ImplementsBlockHeap ==
  /\ \A a \in Allocators : linked = a => Abstract(a)!Init
  /\ [][\A a \in Allocators : linked = a => [Abstract(a)!Next]_<<HeapBlocks, heap.brk>>]_heap
=============================================================================
