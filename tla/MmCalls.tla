-------------------------------- MODULE MmCalls --------------------------------
(***************************************************************************)
(* The functions mm.c and lab1 to lab3 write alike, for the allocator a,   *)
(* on a coalesce, a best_fit and a place of its own.  A function takes the *)
(* heap and returns the heap it leaves, with the pointer it returns as bp. *)
(***************************************************************************)
EXTENDS Implicit, FreeLists

Coalesce(a, h, bp) == IF a \in Listed THEN ListsCoalesce(a, h, bp) ELSE ImplicitCoalesce(h, bp)
BestFit(a, h, asize) == IF a \in Listed THEN ListsBestFit(a, h, asize) ELSE ImplicitBestFit(h, asize)
Place(a, h, bp, asize) ==
  IF a \in Listed THEN ListsPlace(a, h, bp, asize) ELSE ImplicitPlace(h, bp, asize)
Start(a, h) == IF a \in Listed THEN ListsStart(a, h) ELSE ImplicitStart(h)

\* The first block after the prologue, and how many words of a free block are links.
FirstBlock(a) == IF a \in Listed THEN ListsFirst(a) ELSE ImplicitFirst
Links(a) == IF a \in Listed THEN 2 ELSE 0

ExtendHeap(a, h, words) ==
  LET size == (words + (words % 2)) * WSIZE
      bp == h.brk
      tagged == Tag(MemSbrk(h, size), bp, size, 0)
  IN  IF SbrkFails(h, size) THEN [heap |-> h, bp |-> NULL]
      ELSE Coalesce(a, Put(tagged, Hdrp(NextBp(tagged, bp)), Pack(0, 1)), bp)

mm_init(a, h) == ExtendHeap(a, Start(a, h), ChunkSize \div WSIZE)

mm_malloc(a, h, size) ==
  LET asize == Asize(size)
      fit == BestFit(a, h, asize)
      more == ExtendHeap(a, h, ExtendSize(asize) \div WSIZE)
  IN  IF size = 0 THEN [heap |-> h, bp |-> NULL]
      ELSE IF fit # NULL THEN [heap |-> Place(a, h, fit, asize), bp |-> fit]
      ELSE IF more.bp # NULL THEN [heap |-> Place(a, more.heap, more.bp, asize), bp |-> more.bp]
      ELSE [heap |-> h, bp |-> NULL]

mm_free(a, h, bp) == Coalesce(a, Tag(h, bp, BlockSize(h, bp), 0), bp).heap

\* Variant with a defect: the old block is freed before it is copied.
MoveFreeFirst(a, new, bp, size) ==
  LET payload == BlockSize(new.heap, bp) - DSIZE
      freed == mm_free(a, new.heap, bp)
  IN  IF new.bp = NULL THEN new
      ELSE [heap |-> Copy(freed, new.bp, bp, IF size < payload THEN size ELSE payload), bp |-> new.bp]

\* Variant with a defect: the old block is not freed.
MoveKeep(a, new, bp, size) ==
  LET payload == BlockSize(new.heap, bp) - DSIZE
  IN  IF new.bp = NULL THEN new
      ELSE [heap |-> Copy(new.heap, new.bp, bp, IF size < payload THEN size ELSE payload),
            bp |-> new.bp]

\* mm_realloc once mm_malloc has returned new.
Move(a, new, bp, size) ==
  LET payload == BlockSize(new.heap, bp) - DSIZE
      copied == Copy(new.heap, new.bp, bp, IF size < payload THEN size ELSE payload)
  IN  IF new.bp = NULL THEN new ELSE [heap |-> mm_free(a, copied, bp), bp |-> new.bp]
mm_realloc(a, h, bp, size) == Move(a, mm_malloc(a, h, size), bp, size)
=============================================================================
