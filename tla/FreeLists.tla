------------------------------- MODULE FreeLists -------------------------------
(***************************************************************************)
(* The allocators that link their free blocks: mm.c, which is handed in,   *)
(* lab3-segregated.c, which differs from it in one shift, and              *)
(* lab2-explicit.c.  The first two keep ClassSize lists by size, whose     *)
(* heads are words of the prologue; lab2 keeps one list, whose head is the *)
(* variable free_listp and which ends at the prologue block.  The rest of  *)
(* the code is the same, so that it is written here once, for the          *)
(* allocator a.                                                            *)
(***************************************************************************)
EXTENDS HeapWords

CONSTANT ClassSize   \* CLASSSIZE, even so that payloads are aligned

ASSUME ClassSizeAssumption == ClassSize \in Nat \ {0} /\ ClassSize % 2 = 0

Listed == {"mm", "lab3", "lab2"}

\* The links of a free block are the first two words of its payload.
PrevFree(h, bp) == h.mem[bp]
NextFree(h, bp) == h.mem[bp + WSIZE]
SetPrev(h, bp, p) == Put(h, bp, p)
SetNext(h, bp, p) == Put(h, bp + WSIZE, p)

\* A size is shifted to the right until nothing is left of it.
Shift(a) == IF a = "mm" THEN 4 ELSE 5
Classes(a) == IF a = "lab2" THEN {0} ELSE 0..ClassSize-1
GetClassIdx(a, size) ==
  IF a = "lab2" THEN 0
  ELSE IF size = 0 THEN -1
  ELSE LET Fits == {i \in Classes(a) : size < 2^(Shift(a) + i + 1)}
       IN  IF Fits = {} THEN ClassSize - 1 ELSE CHOOSE i \in Fits : \A j \in Fits : i <= j
GetClass(i) == DSIZE + i * WSIZE

\* *free_listp, and an assignment to it.
FreeListp(a, h, i) == IF a = "lab2" THEN h.list ELSE h.mem[GetClass(i)]
SetFreeListp(a, h, i, bp) == IF a = "lab2" THEN [h EXCEPT !.list = bp] ELSE Put(h, GetClass(i), bp)

DeleteBlock(a, h, bp) ==
  LET h1 == IF PrevFree(h, bp) # NULL THEN SetNext(h, PrevFree(h, bp), NextFree(h, bp))
            ELSE SetFreeListp(a, h, GetClassIdx(a, BlockSize(h, bp)), NextFree(h, bp))
      h2 == IF NextFree(h1, bp) # NULL THEN SetPrev(h1, NextFree(h1, bp), PrevFree(h1, bp)) ELSE h1
  IN  SetPrev(SetNext(h2, bp, NULL), bp, NULL)

\* Variant with a defect: the old first block is not linked back.
LinkOneWay(a, h, bp, size) ==
  LET i == GetClassIdx(a, size)
  IN  SetFreeListp(a, SetPrev(SetNext(h, bp, FreeListp(a, h, i)), bp, NULL), i, bp)

\* The end of coalesce: bp becomes the first block of the list for size.
Link(a, h, bp, size) ==
  LET i == GetClassIdx(a, size)
      head == FreeListp(a, h, i)
      h1 == SetPrev(SetNext(h, bp, head), bp, NULL)
      h2 == IF a = "lab2" \/ head # NULL THEN SetPrev(h1, head, bp) ELSE h1
  IN  SetFreeListp(a, h2, i, bp)

\* Variant with a defect: a free block on the left is not merged.
CoalesceRight(a, h, bp) ==
  LET next == NextBp(h, bp)
      h1 == IF IsAlloc(h, next) THEN h ELSE DeleteBlock(a, h, next)
      size == BlockSize(h, bp) + (IF IsAlloc(h, next) THEN 0 ELSE BlockSize(h, next))
  IN  [heap |-> Tag(Link(a, h1, bp, size), bp, size, 0), bp |-> bp]

ListsCoalesce(a, h, bp) ==
  LET prev == PrevBp(h, bp)
      next == NextBp(h, bp)
      h1 == IF IsAlloc(h, next) THEN h ELSE DeleteBlock(a, h, next)
      h2 == IF IsAlloc(h, prev) THEN h1 ELSE DeleteBlock(a, h1, prev)
      start == IF IsAlloc(h, prev) THEN bp ELSE prev
      size == BlockSize(h, bp) + (IF IsAlloc(h, prev) THEN 0 ELSE BlockSize(h, prev))
                               + (IF IsAlloc(h, next) THEN 0 ELSE BlockSize(h, next))
  IN  [heap |-> Tag(Link(a, h2, start, size), start, size, 0), bp |-> start]

(***************************************************************************)
(* The blocks of a list, up to NULL, in lab2 up to the first block whose   *)
(* header says it is allocated.                                            *)
(***************************************************************************)
Ends(a, h, bp) == IF a = "lab2" THEN IsAlloc(h, bp) ELSE bp = NULL
List(a, h, i) ==
  LET Met[k \in 0..MaxBlocks] ==
        LET s == IF k = 0 THEN << >> ELSE Met[k-1]
            bp == IF s = << >> THEN FreeListp(a, h, i) ELSE NextFree(h, s[Len(s)])
        IN  IF Ends(a, h, bp) THEN s ELSE Append(s, bp)
  IN  Met[MaxBlocks]

(***************************************************************************)
(* best_fit: of the first class that has a block large enough, the         *)
(* smallest such block, the one nearest to the head when there are several.*)
(***************************************************************************)
Fitting(h, bps, asize) == {k \in DOMAIN bps : asize <= BlockSize(h, bps[k])}

\* Variant with a defect: the first block of the class, whatever its size.
ListsAnyFit(a, h, asize) ==
  LET Able == {i \in Classes(a) : GetClassIdx(a, asize) <= i /\ List(a, h, i) # << >>}
  IN  IF Able = {} THEN NULL ELSE List(a, h, CHOOSE i \in Able : \A j \in Able : i <= j)[1]

ListsBestFit(a, h, asize) ==
  LET Able == {i \in Classes(a) : GetClassIdx(a, asize) <= i /\ Fitting(h, List(a, h, i), asize) # {}}
      bps == List(a, h, CHOOSE i \in Able : \A j \in Able : i <= j)
      fits == Fitting(h, bps, asize)
      best == CHOOSE k \in fits : \A j \in fits :
                \/ BlockSize(h, bps[k]) < BlockSize(h, bps[j])
                \/ BlockSize(h, bps[k]) = BlockSize(h, bps[j]) /\ k <= j
  IN  IF Able = {} THEN NULL ELSE bps[best]

ListsPlace(a, h, bp, asize) ==
  LET csize == BlockSize(h, bp)
      h1 == DeleteBlock(a, h, bp)
      h2 == Tag(h1, bp, asize, 1)
      rest == NextBp(h2, bp)
  IN  IF csize - asize >= 4 * WSIZE
      THEN ListsCoalesce(a, Tag(h2, rest, csize - asize, 0), rest).heap
      ELSE Tag(h1, bp, csize, 1)

(***************************************************************************)
(* The words of mm_init: padding, the header of the prologue block, the    *)
(* heads of the lists or, in lab2, two links, its footer, the epilogue.    *)
(***************************************************************************)
Inner(a) == IF a = "lab2" THEN 2 ELSE ClassSize
ListsFirst(a) == (Inner(a) + 4) * WSIZE
ListsStart(a, h) ==
  LET prologue == ListsFirst(a) - DSIZE
      at(n) == h.brk + n * WSIZE
  IN  [mem |-> [w \in Words |-> CASE w = at(0) -> Pack(0, 0)
                                  [] w \in {at(1), at(Inner(a) + 2)} -> Pack(prologue, 1)
                                  [] w \in {at(n) : n \in 2..Inner(a)+1} -> NULL
                                  [] w = at(Inner(a) + 3) -> Pack(0, 1)
                                  [] OTHER -> h.mem[w]],
       brk |-> h.brk + ListsFirst(a),
       list |-> IF a = "lab2" THEN h.brk + DSIZE ELSE h.list]
-----------------------------------------------------------------------------
(***************************************************************************)
(* Every free block is on the list of its class, once, and every list can  *)
(* be followed in both directions.                                         *)
(***************************************************************************)
ListsExact(a, h) ==
  \A i \in Classes(a) :
    LET bps == List(a, h, i)
    IN  /\ {bps[k] : k \in DOMAIN bps} =
             {b.at : b \in {c \in Blocks(h, ListsFirst(a)) : ~c.used /\ GetClassIdx(a, c.size) = i}}
        /\ \A k \in DOMAIN bps : PrevFree(h, bps[k]) = IF k = 1 THEN NULL ELSE bps[k-1]
=============================================================================
