------------------------------ MODULE BlockHeap ------------------------------
(***************************************************************************)
(* What the allocators of the malloc lab do to the heap, whatever they     *)
(* keep in its words: it is a row of blocks from First to top, a request   *)
(* takes a smallest free block that is large enough and gives back what it *)
(* does not need, a block that is freed is merged with its free            *)
(* neighbours, and the heap grows by at least Chunk when no block fits.    *)
(***************************************************************************)
EXTENDS Integers

CONSTANTS
  First,       \* where the first block starts
  Limit,       \* where the heap must end at the latest
  Chunk,       \* what the heap grows by at least
  Sizes        \* the block sizes requests ask for

Align == 8     \* payloads, and so sizes, are aligned to double words
MinSize == 16  \* header, footer and two links

ASSUME BlockHeapAssumption ==
  /\ First \in Nat /\ First % Align = 0 /\ Limit \in Nat
  /\ Chunk \in Nat /\ Chunk % Align = 0 /\ Chunk >= MinSize
  /\ Sizes \subseteq {n \in Nat : n >= MinSize /\ n % Align = 0}

VARIABLES
  blocks,      \* the blocks: where each starts, its size, whether it is used
  top          \* the end of the heap

vars == <<blocks, top>>

Block == [at : Nat, size : Nat, used : BOOLEAN]
End(b) == b.at + b.size

\* The free neighbours of b in bs, and bs with b merged with them.
Left(bs, b) == {c \in bs : ~c.used /\ End(c) = b.at}
Right(bs, b) == {c \in bs : ~c.used /\ c.at = End(b)}
\* Variant with a defect: the block on the right is removed and its size is lost.
JoinedShort(bs, b) ==
  LET start == IF Left(bs, b) = {} THEN b.at ELSE (CHOOSE c \in Left(bs, b) : TRUE).at
  IN  [at |-> start, size |-> End(b) - start, used |-> FALSE]

Joined(bs, b) ==
  LET start == IF Left(bs, b) = {} THEN b.at ELSE (CHOOSE c \in Left(bs, b) : TRUE).at
      end == IF Right(bs, b) = {} THEN End(b) ELSE End(CHOOSE c \in Right(bs, b) : TRUE)
  IN  [at |-> start, size |-> end - start, used |-> FALSE]
Merge(bs, b) == (bs \ (Left(bs, b) \cup Right(bs, b))) \cup {Joined(bs, b)}

\* b with n bytes of it in use, the rest free when it is worth a block.
Split(b, n) ==
  IF b.size - n >= MinSize
  THEN {[at |-> b.at, size |-> n, used |-> TRUE],
        [at |-> b.at + n, size |-> b.size - n, used |-> FALSE]}
  ELSE {[b EXCEPT !.used = TRUE]}
Place(bs, b, n) == (bs \ {b}) \cup Split(b, n)

Fits(bs, n) == {b \in bs : ~b.used /\ n <= b.size}
Best(bs, n) == {b \in Fits(bs, n) : \A c \in Fits(bs, n) : b.size <= c.size}

Growth(n) == IF n > Chunk THEN n ELSE Chunk
Grown(bs, t, n) == Merge(bs, [at |-> t, size |-> Growth(n), used |-> FALSE])

\* The heaps a request for n bytes may leave; none when it fails.
Allocations(bs, t, n) ==
  IF Fits(bs, n) # {} THEN {<<Place(bs, b, n), t>> : b \in Best(bs, n)}
  ELSE IF t + Growth(n) <= Limit
  THEN {<<Place(Grown(bs, t, n), b, n), t + Growth(n)>> :
          b \in {c \in Grown(bs, t, n) : End(c) = t + Growth(n)}}
  ELSE {}

\* Variant with a defect: freeing does not merge.
ReleaseAlone(bs, b) == (bs \ {b}) \cup {[b EXCEPT !.used = FALSE]}

Release(bs, b) == Merge(bs \ {b}, [b EXCEPT !.used = FALSE])

Init ==
  /\ First + Chunk <= Limit
  /\ blocks = {[at |-> First, size |-> Chunk, used |-> FALSE]}
  /\ top = First + Chunk

Malloc(n) == \E a \in Allocations(blocks, top, n) : blocks' = a[1] /\ top' = a[2]

Free(b) ==
  /\ b.used /\ blocks' = Release(blocks, b)
  /\ UNCHANGED top

\* A new block, then the old one is freed.
Realloc(b, n) ==
  /\ b.used
  /\ \E a \in Allocations(blocks, top, n) : blocks' = Release(a[1], b) /\ top' = a[2]

\* The heap is emptied and started again.
Reset ==
  /\ blocks' = {[at |-> First, size |-> Chunk, used |-> FALSE]}
  /\ top' = First + Chunk

Next ==
  \/ \E n \in Sizes : Malloc(n) \/ \E b \in blocks : Realloc(b, n)
  \/ \E b \in blocks : Free(b)
  \/ Reset

Spec == Init /\ [][Next]_vars
-----------------------------------------------------------------------------
(* Properties *)

TypeOK == blocks \subseteq Block /\ top \in Nat

(***************************************************************************)
(* The blocks are aligned, large enough, and tile the heap: they do not    *)
(* overlap, the first starts at First, the last ends at the top, and every *)
(* other one ends where another one starts.                                *)
(***************************************************************************)
Sized(bs) == \A b \in bs : b.size >= MinSize /\ b.at % Align = 0 /\ b.size % Align = 0
Disjoint(bs) == \A b, c \in bs : b # c => End(b) <= c.at \/ End(c) <= b.at
Within(bs, t) == \A b \in bs : First <= b.at /\ End(b) <= t
Covering(bs, t) ==
  /\ \E b \in bs : b.at = First
  /\ \E b \in bs : End(b) = t
  /\ \A b \in bs : End(b) = t \/ \E c \in bs : c.at = End(b)
Tiles(bs, t) == Sized(bs) /\ Disjoint(bs) /\ Within(bs, t) /\ Covering(bs, t)

Tiled == Tiles(blocks, top) /\ top <= Limit

(***************************************************************************)
(* Freed space is never left in two pieces: no two free blocks are         *)
(* adjacent.                                                               *)
(***************************************************************************)
Separate(bs) == \A b, c \in bs : ~b.used /\ ~c.used => End(b) # c.at
Coalesced == Separate(blocks)
=============================================================================
