------------------------------- MODULE Implicit -------------------------------
(***************************************************************************)
(* lab1-implicit.c: no list of free blocks.  best_fit walks over all the   *)
(* blocks of the heap, from the prologue to the epilogue, by their sizes.  *)
(***************************************************************************)
EXTENDS HeapWords

PrologueBp == DSIZE

\* coalesce, whose third and fourth case only differ in the size.
ImplicitCoalesce(h, bp) ==
  LET prev == PrevBp(h, bp)
      next == NextBp(h, bp)
      start == IF IsAlloc(h, prev) THEN bp ELSE prev
      size == BlockSize(h, bp) + (IF IsAlloc(h, prev) THEN 0 ELSE BlockSize(h, prev))
                               + (IF IsAlloc(h, next) THEN 0 ELSE BlockSize(h, next))
  IN  IF IsAlloc(h, prev) /\ IsAlloc(h, next) THEN [heap |-> h, bp |-> bp]
      ELSE [heap |-> Tag(h, start, size, 0), bp |-> start]

\* The first of the smallest free blocks that are large enough.
ImplicitBestFit(h, asize) ==
  LET fits == {b \in Blocks(h, PrologueBp) : ~b.used /\ asize <= b.size}
      best == CHOOSE b \in fits : \A c \in fits :
                b.size < c.size \/ (b.size = c.size /\ b.at <= c.at)
  IN  IF fits = {} THEN NULL ELSE best.at

\* Variant with a defect: the footer of the block in use is not written.
PlaceNoFooter(h, bp, asize) ==
  LET csize == BlockSize(h, bp)
      h1 == Put(h, Hdrp(bp), Pack(asize, 1))
  IN  IF csize - asize >= 2 * DSIZE THEN Tag(h1, NextBp(h1, bp), csize - asize, 0)
      ELSE Tag(h, bp, csize, 1)

ImplicitPlace(h, bp, asize) ==
  LET csize == BlockSize(h, bp)
      h1 == Tag(h, bp, asize, 1)
  IN  IF csize - asize >= 2 * DSIZE THEN Tag(h1, NextBp(h1, bp), csize - asize, 0)
      ELSE Tag(h, bp, csize, 1)

\* The words of mm_init, and where the first block will be.
ImplicitFirst == 4 * WSIZE
ImplicitStart(h) ==
  [mem |-> [a \in Words |-> CASE a \in {h.brk, h.brk + 3 * WSIZE} -> Pack(0, IF a = h.brk THEN 0 ELSE 1)
                              [] a \in {h.brk + WSIZE, h.brk + 2 * WSIZE} -> Pack(DSIZE, 1)
                              [] OTHER -> h.mem[a]],
   brk |-> h.brk + 4 * WSIZE, list |-> h.list]
=============================================================================
