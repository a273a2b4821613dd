---------------------------- MODULE AllocatorProofs ----------------------------
(***************************************************************************)
(* mm.c, lab3-segregated.c, lab2-explicit.c and lab1-implicit.c under a    *)
(* program, for any heap, chunk, requests and number of blocks.  The       *)
(* invariant says that the words of the heap are those of a row of blocks: *)
(* a header and a footer each, the prologue before and the epilogue after  *)
(* them, and the free blocks of each class linked on its list.  Every      *)
(* function of the allocators is shown to take such a row to the row that  *)
(* BlockHeap says, and to spare the payloads of the blocks in use.         *)
(***************************************************************************)
EXTENDS MCAllocators, SequenceFacts, FiniteSetTheorems

(* Words. *)
Heap == [mem : [Words -> Int], brk : Nat, list : Int]
Aligned(x) == x \in Nat /\ x % 8 = 0

\* An address below the end of the heap that is aligned to words is a word.
LEMMA WordIs == ASSUME NEW x \in Int, x % 4 = 0, 0 <= x, x < MaxHeap PROVE x \in Words
  BY HeapWordsAssumption DEF Words, WSIZE, DSIZE
\* What a word is.
LEMMA WordsAre == ASSUME NEW w \in Words PROVE w \in Nat /\ w % 4 = 0 /\ w < MaxHeap
  BY HeapWordsAssumption DEF Words, WSIZE, DSIZE

\* The words around an aligned address.
LEMMA AlignedWords ==
  ASSUME NEW x, Aligned(x)
  PROVE  /\ 0 < x /\ x <= MaxHeap => x - 4 \in Words /\ x - 8 \in Words
         /\ x < MaxHeap => x \in Words /\ x + 4 \in Words
<1>1. MaxHeap \in Nat /\ MaxHeap % 8 = 0
  BY HeapWordsAssumption DEF DSIZE
<1>2. x \in Nat /\ x % 8 = 0
  BY DEF Aligned
<1>3. ASSUME 0 < x, x <= MaxHeap PROVE x - 4 \in Words /\ x - 8 \in Words
  <2>1. x - 4 \in Int /\ (x - 4) % 4 = 0 /\ 0 <= x - 4 /\ x - 4 < MaxHeap
    BY <1>1, <1>2, <1>3
  <2>2. x - 8 \in Int /\ (x - 8) % 4 = 0 /\ 0 <= x - 8 /\ x - 8 < MaxHeap
    BY <1>1, <1>2, <1>3
  <2> QED BY <2>1, <2>2, WordIs
<1>4. ASSUME x < MaxHeap PROVE x \in Words /\ x + 4 \in Words
  <2>1. x \in Int /\ x % 4 = 0 /\ 0 <= x /\ x < MaxHeap
    BY <1>1, <1>2, <1>4
  <2>2. x + 4 \in Int /\ (x + 4) % 4 = 0 /\ 0 <= x + 4 /\ x + 4 < MaxHeap
    BY <1>1, <1>2, <1>4
  <2> QED BY <2>1, <2>2, WordIs
<1> QED BY <1>3, <1>4

\* Sums and differences of aligned addresses are aligned.
LEMMA Sums ==
  ASSUME NEW x, Aligned(x), NEW y, Aligned(y)
  PROVE  Aligned(x + y) /\ (y <= x => Aligned(x - y)) /\ (x < y => x + 8 <= y)
  BY DEF Aligned

\* PUT.
Writes(h, g, p, v) ==
  /\ g \in Heap /\ g.brk = h.brk /\ g.list = h.list
  /\ \A w \in Words : g.mem[w] = IF w = p THEN v ELSE h.mem[w]

\* PUT writes one word.
LEMMA PutIs ==
  ASSUME NEW h \in Heap, NEW p \in Words, NEW v \in Int
  PROVE  Writes(h, Put(h, p, v), p, v)
  BY DEF Put, Heap, Writes

\* Two PUTs write a header and the footer it leads to, and nothing else.
Tags(h, g, at, n, v) ==
  /\ g \in Heap /\ g.brk = h.brk /\ g.list = h.list
  /\ at - 4 \in Words /\ at + n - 8 \in Words
  /\ g.mem[at - 4] = v /\ g.mem[at + n - 8] = v
  /\ \A w \in Words : w = at - 4 \/ w = at + n - 8 \/ g.mem[w] = h.mem[w]

\* Two PUTs, to HDRP and to FTRP, write the header and the footer of a block.
LEMMA TagIs ==
  ASSUME NEW h \in Heap, NEW at, Aligned(at), 0 < at, NEW n, Aligned(n), n >= 16,
         at + n <= MaxHeap, NEW u \in {0, 1}
  PROVE  Tags(h, Tag(h, at, n, u), at, n, n + u)
<1> DEFINE g == Put(h, at - 4, n + u)
<1>1. at \in Nat /\ n \in Nat /\ n % 8 = 0 /\ Aligned(at + n) /\ at + n > 0 /\ MaxHeap \in Nat
  BY Sums, HeapWordsAssumption DEF Aligned
<1>2. at - 4 \in Words /\ at + n - 8 \in Words
  BY <1>1, AlignedWords
<1>3. n + u \in Int /\ ((n + u) \div 8) * 8 = n
  BY <1>1
<1>4. Writes(h, g, at - 4, n + u)
  BY <1>2, <1>3, PutIs
<1> HIDE DEF g
<1>5. Ftrp(g, at) = at + n - 8
  BY <1>1, <1>2, <1>3, <1>4 DEF Writes, Ftrp, BlockSize, SizeAt, Hdrp, DSIZE, WSIZE
<1>6. Tag(h, at, n, u) = Put(g, at + n - 8, n + u)
  BY <1>5 DEF Tag, g, Hdrp, Pack, WSIZE
<1>7. Writes(g, Tag(h, at, n, u), at + n - 8, n + u)
  <2>1. g \in Heap
    BY <1>4 DEF Writes
  <2>2. Writes(g, Put(g, at + n - 8, n + u), at + n - 8, n + u)
    BY <1>2, <1>3, <2>1, PutIs
  <2> QED BY <1>6, <2>2
<1> QED BY <1>2, <1>4, <1>7 DEF Tags, Writes

-----------------------------------------------------------------------------
(* A heap that is a row of blocks. *)
Bit(b) == IF b.used THEN 1 ELSE 0
Stop(b) == b.at + b.size
Fine(b) ==
  /\ b \in [at : Nat, size : Nat, used : BOOLEAN]
  /\ Aligned(b.at) /\ Aligned(b.size) /\ b.size >= 16
Apart(b, c) == Stop(b) <= c.at \/ Stop(c) <= b.at
Tiles(f, t, bs) ==
  /\ \A b \in bs : Fine(b) /\ f <= b.at /\ Stop(b) <= t
  /\ \A b, c \in bs : b = c \/ Apart(b, c)
  /\ \A x \in Nat : f <= x /\ x < t => \E b \in bs : b.at <= x /\ x < Stop(b)
Tagged(h, b) == h.mem[b.at - 4] = b.size + Bit(b) /\ h.mem[Stop(b) - 8] = b.size + Bit(b)
Walls(h, f) == h.mem[4] = f - 7 /\ h.mem[f - 8] = f - 7 /\ h.mem[h.brk - 4] = 1
Fitted(h, f) == h \in Heap /\ Aligned(f) /\ f >= 16 /\ Aligned(h.brk) /\ f <= h.brk /\ h.brk <= MaxHeap
Row(h, f, bs) == Fitted(h, f) /\ Tiles(f, h.brk, bs) /\ Walls(h, f) /\ \A b \in bs : Tagged(h, b)

\* The words a row is made of.
LEMMA RowWords ==
  ASSUME NEW h, NEW f, NEW bs, Row(h, f, bs)
  PROVE  /\ 4 \in Words /\ f - 8 \in Words /\ h.brk - 4 \in Words
         /\ \A b \in bs : /\ b.at - 4 \in Words /\ b.at \in Words /\ b.at + 4 \in Words
                          /\ Stop(b) - 8 \in Words /\ Stop(b) - 4 \in Words
                          /\ Aligned(Stop(b))
<1>1. Fitted(h, f) /\ MaxHeap \in Nat
  BY HeapWordsAssumption DEF Row
<1>2. 4 \in Words
  <2>1. Aligned(8) /\ 8 <= MaxHeap
    BY <1>1 DEF Fitted, Aligned
  <2> QED BY <2>1, AlignedWords
<1>3. f - 8 \in Words /\ h.brk - 4 \in Words
  <2>1. Aligned(f) /\ 0 < f /\ f <= MaxHeap /\ Aligned(h.brk) /\ 0 < h.brk /\ h.brk <= MaxHeap
    BY <1>1 DEF Fitted, Aligned
  <2> QED BY <2>1, AlignedWords
<1>4. ASSUME NEW b \in bs
      PROVE  /\ b.at - 4 \in Words /\ b.at \in Words /\ b.at + 4 \in Words
             /\ Stop(b) - 8 \in Words /\ Stop(b) - 4 \in Words /\ Aligned(Stop(b))
  <2>1. Fine(b) /\ f <= b.at /\ Stop(b) <= h.brk
    BY DEF Row, Tiles
  <2>2. Aligned(b.at) /\ 0 < b.at /\ b.at < MaxHeap /\ b.at <= MaxHeap /\ Stop(b) \in Nat /\ 0 < Stop(b) /\ Stop(b) <= MaxHeap
    BY <1>1, <2>1 DEF Fine, Stop, Fitted, Aligned
  <2>3. Aligned(Stop(b))
    BY <2>1, Sums DEF Fine, Stop
  <2>4. b.at - 4 \in Words /\ b.at \in Words /\ b.at + 4 \in Words
    BY <2>2, AlignedWords
  <2>5. Stop(b) - 8 \in Words /\ Stop(b) - 4 \in Words
    BY <2>2, <2>3, AlignedWords
  <2> QED BY <2>3, <2>4, <2>5
<1> QED BY <1>2, <1>3, <1>4

\* What the macros read of a block.
LEMMA Reads ==
  ASSUME NEW h, NEW f, NEW bs, Row(h, f, bs), NEW b \in bs
  PROVE  /\ BlockSize(h, b.at) = b.size /\ NextBp(h, b.at) = Stop(b)
         /\ (IsAlloc(h, b.at) <=> b.used)
         /\ SizeAt(h, Stop(b) - 8) = b.size
<1>1. Fine(b) /\ Tagged(h, b)
  BY DEF Row, Tiles
<1>2. b.size \in Nat /\ b.size % 8 = 0 /\ b.used \in BOOLEAN /\ b.at \in Nat
  BY <1>1 DEF Fine, Aligned
<1>3. ((b.size + Bit(b)) \div 8) * 8 = b.size /\ ((b.size + Bit(b)) % 2 = 1 <=> b.used)
  <2>1. ASSUME NEW n \in Nat, n % 8 = 0
        PROVE  ((n + 1) \div 8) * 8 = n /\ (n \div 8) * 8 = n /\ (n + 1) % 2 = 1 /\ n % 2 = 0
    BY <2>1
  <2>2. b.used => Bit(b) = 1
    BY DEF Bit
  <2>3. ~b.used => Bit(b) = 0
    BY DEF Bit
  <2>4. b.size + 0 = b.size
    BY <1>2
  <2>5. ((b.size + 0) \div 8) * 8 = b.size /\ ((b.size + 1) \div 8) * 8 = b.size
        /\ (b.size + 0) % 2 = 0 /\ (b.size + 1) % 2 = 1
    BY <1>2, <2>1, <2>4
  <2>6. CASE b.used
    BY <2>2, <2>5, <2>6
  <2>7. CASE ~b.used
    BY <2>3, <2>5, <2>7
  <2> QED BY <2>6, <2>7
<1> QED BY <1>1, <1>2, <1>3 DEF Tagged, BlockSize, NextBp, SizeAt, IsAlloc, AllocAt, Hdrp, Stop, DSIZE, WSIZE

\* A heap that differs from h in links only, and in the words of the prologue.
IsLink(w, f, bs) == (8 <= w /\ w < f - 8) \/ \E b \in bs : ~b.used /\ (w = b.at \/ w = b.at + 4)
LinksOnly(h, g, f, bs) ==
  /\ g \in Heap /\ g.brk = h.brk
  /\ \A w \in Words : g.mem[w] = h.mem[w] \/ IsLink(w, f, bs)

\* The tags of a row are not words a link may be in.
LEMMA TagsAreNoLinks ==
  ASSUME NEW h, NEW f, NEW bs, Row(h, f, bs)
  PROVE  /\ ~IsLink(4, f, bs) /\ ~IsLink(f - 8, f, bs) /\ ~IsLink(h.brk - 4, f, bs)
         /\ \A b \in bs : ~IsLink(b.at - 4, f, bs) /\ ~IsLink(Stop(b) - 8, f, bs)
<1>1. f \in Nat /\ f % 8 = 0 /\ f >= 16 /\ h.brk \in Nat /\ h.brk % 8 = 0 /\ f <= h.brk
  BY DEF Row, Fitted, Aligned
<1>2. \A b \in bs : /\ b.at \in Nat /\ b.at % 8 = 0 /\ b.size \in Nat /\ b.size % 8 = 0 /\ b.size >= 16
                    /\ f <= b.at /\ b.at + b.size <= h.brk
  BY DEF Row, Tiles, Fine, Aligned, Stop
<1>3. ~IsLink(4, f, bs)
  BY <1>1, <1>2 DEF IsLink
<1>4. ~IsLink(f - 8, f, bs)
  BY <1>1, <1>2 DEF IsLink
<1>5. ~IsLink(h.brk - 4, f, bs)
  BY <1>1, <1>2 DEF IsLink
<1>6. ASSUME NEW b \in bs PROVE ~IsLink(b.at - 4, f, bs) /\ ~IsLink(Stop(b) - 8, f, bs)
  <2>1. \A c \in bs : b = c \/ b.at + b.size <= c.at \/ c.at + c.size <= b.at
    BY DEF Row, Tiles, Apart, Stop
  <2>2. ~IsLink(b.at - 4, f, bs)
    BY <1>1, <1>2, <2>1 DEF IsLink
  <2>3. ~IsLink(Stop(b) - 8, f, bs)
    BY <1>1, <1>2, <2>1 DEF IsLink, Stop
  <2> QED BY <2>2, <2>3
<1> QED BY <1>3, <1>4, <1>5, <1>6

\* Who writes links only keeps the row.
LEMMA LinksKeepRow ==
  ASSUME NEW h, NEW f, NEW bs, Row(h, f, bs), NEW g, LinksOnly(h, g, f, bs)
  PROVE  Row(g, f, bs)
<1>1. \A w \in Words : ~IsLink(w, f, bs) => g.mem[w] = h.mem[w]
  BY DEF LinksOnly
<1>2. g.mem[4] = h.mem[4] /\ g.mem[f - 8] = h.mem[f - 8] /\ g.mem[h.brk - 4] = h.mem[h.brk - 4]
  BY <1>1, RowWords, TagsAreNoLinks
<1>3. \A b \in bs : g.mem[b.at - 4] = h.mem[b.at - 4] /\ g.mem[Stop(b) - 8] = h.mem[Stop(b) - 8]
  BY <1>1, RowWords, TagsAreNoLinks
<1>4. g.brk = h.brk /\ g \in Heap
  BY DEF LinksOnly
<1>5. Fitted(g, f) /\ Tiles(f, g.brk, bs)
  BY <1>4 DEF Row, Fitted
<1>6. Walls(g, f)
  BY <1>2, <1>4 DEF Row, Walls
<1>7. \A b \in bs : Tagged(g, b)
  BY <1>3 DEF Row, Tagged
<1> QED BY <1>5, <1>6, <1>7 DEF Row

(***************************************************************************)
(* The blocks between x and y give way to others.                          *)
(***************************************************************************)
Within(old, x, y) == \A b \in old : x <= b.at /\ Stop(b) <= y
Clear(bs, x, y) == \A b \in bs : Stop(b) <= x \/ y <= b.at
Laid(g, new, x, y) == Tiles(x, y, new) /\ \A b \in new : Tagged(g, b)
Beyond(h, g, x, y) ==
  /\ g \in Heap /\ g.brk = h.brk
  /\ \A w \in Words : w < x - 4 \/ y - 4 <= w => g.mem[w] = h.mem[w]

\* Blocks that fill the same space may take the place of others.
LEMMA RowReplace ==
  ASSUME NEW h, NEW f, NEW bs, Row(h, f, bs), NEW x \in Nat, NEW y \in Nat, f <= x, y <= h.brk,
         x < y, Aligned(x), Aligned(y),
         NEW old \in SUBSET bs, Within(old, x, y), Clear(bs \ old, x, y),
         NEW new, NEW g, Laid(g, new, x, y), Beyond(h, g, x, y)
  PROVE  Row(g, f, (bs \ old) \cup new)
<1> DEFINE cs == (bs \ old) \cup new
<1>1. g \in Heap /\ g.brk = h.brk /\ Fitted(g, f) /\ h.brk \in Nat /\ f \in Nat /\ f >= 16 /\ f % 8 = 0 /\ h.brk % 8 = 0
  BY DEF Row, Fitted, Beyond, Aligned
<1>2. /\ \A b \in bs : Fine(b) /\ f <= b.at /\ Stop(b) <= h.brk
      /\ \A b, c \in bs : b = c \/ Apart(b, c)
      /\ \A p \in Nat : f <= p /\ p < h.brk => \E b \in bs : b.at <= p /\ p < Stop(b)
  BY DEF Row, Tiles
<1>3. /\ \A b \in new : Fine(b) /\ x <= b.at /\ Stop(b) <= y /\ Tagged(g, b)
      /\ \A b, c \in new : b = c \/ Apart(b, c)
      /\ \A p \in Nat : x <= p /\ p < y => \E b \in new : b.at <= p /\ p < Stop(b)
  BY DEF Laid, Tiles
<1>4. \A b : Fine(b) => b.at \in Nat /\ Stop(b) \in Nat /\ b.at + 16 <= Stop(b)
  BY DEF Fine, Stop
<1>5. \A b \in cs : Fine(b) /\ f <= b.at /\ Stop(b) <= g.brk
  BY <1>1, <1>2, <1>3, <1>4
<1>6. ASSUME NEW b \in cs, NEW c \in cs PROVE b = c \/ Apart(b, c)
  <2>1. CASE b \in new /\ c \in new
    BY <1>3, <2>1
  <2>2. CASE b \in bs \ old /\ c \in bs \ old
    BY <1>2, <2>2
  <2>3. ASSUME NEW d \in bs \ old, NEW n \in new PROVE Apart(d, n) /\ Apart(n, d)
    BY <1>2, <1>3, <1>4 DEF Clear, Apart
  <2> QED BY <2>1, <2>2, <2>3
<1>7. ASSUME NEW p \in Nat, f <= p, p < g.brk PROVE \E b \in cs : b.at <= p /\ p < Stop(b)
  <2>1. CASE x <= p /\ p < y
    BY <1>3, <2>1
  <2>2. CASE ~(x <= p /\ p < y)
    <3>1. PICK b \in bs : b.at <= p /\ p < Stop(b)
      BY <1>1, <1>2, <1>7
    <3>2. b \notin old
      BY <1>2, <1>4, <2>2, <3>1 DEF Within
    <3> QED BY <3>1, <3>2
  <2> QED BY <2>1, <2>2
<1>8. Tiles(f, g.brk, cs)
  BY <1>5, <1>6, <1>7 DEF Tiles
<1>9. \A w \in Words : w < x - 4 \/ y - 4 <= w => g.mem[w] = h.mem[w]
  BY DEF Beyond
<1>10. ASSUME NEW b \in bs \ old PROVE Tagged(g, b)
  <2>1. b.at - 4 \in Words /\ Stop(b) - 8 \in Words
    BY RowWords
  <2>2. Stop(b) <= x \/ y <= b.at
    BY DEF Clear
  <2>3. b.at \in Nat /\ Stop(b) \in Nat /\ b.at + 16 <= Stop(b)
    BY <1>2, <1>4
  <2>4. g.mem[b.at - 4] = h.mem[b.at - 4] /\ g.mem[Stop(b) - 8] = h.mem[Stop(b) - 8]
    BY <1>9, <2>1, <2>2, <2>3
  <2> QED BY <2>4 DEF Row, Tagged
<1>11. Walls(g, f)
  <2>1. 4 \in Words /\ f - 8 \in Words /\ h.brk - 4 \in Words
    BY RowWords
  <2>2. g.mem[4] = h.mem[4] /\ g.mem[f - 8] = h.mem[f - 8] /\ g.mem[h.brk - 4] = h.mem[h.brk - 4]
    BY <1>1, <1>9, <2>1
  <2> QED BY <1>1, <2>2 DEF Row, Walls
<1> QED BY <1>1, <1>3, <1>8, <1>10, <1>11 DEF Row

\* One block in the place of some.
LEMMA OneLaid ==
  ASSUME NEW n, Fine(n), NEW g, NEW h, NEW f, NEW bs, Row(h, f, bs), Tags(h, g, n.at, n.size, n.size + Bit(n)),
         f <= n.at, Stop(n) <= h.brk
  PROVE  Laid(g, {n}, n.at, Stop(n)) /\ Beyond(h, g, n.at, Stop(n))
<1>1. n.at \in Nat /\ n.size \in Nat /\ n.size >= 16 /\ Stop(n) = n.at + n.size /\ Aligned(n.at)
  BY DEF Fine, Stop
<1>2. Tiles(n.at, Stop(n), {n})
  BY <1>1 DEF Tiles
<1>3. Tagged(g, n)
  BY <1>1 DEF Tags, Tagged
<1>4. \A w \in Words : w < n.at - 4 \/ Stop(n) - 4 <= w => g.mem[w] = h.mem[w]
  <2>1. \A w \in Words : w \in Nat
    BY WordsAre
  <2> QED BY <1>1, <2>1 DEF Tags
<1> QED BY <1>2, <1>3, <1>4 DEF Laid, Beyond, Tags

\* Changing whether one block is used.
LEMMA RowRetag ==
  ASSUME NEW h, NEW f, NEW bs, Row(h, f, bs), NEW b \in bs, NEW n, Fine(n), n.at = b.at, n.size = b.size,
         NEW g, Tags(h, g, b.at, b.size, b.size + Bit(n))
  PROVE  Row(g, f, (bs \ {b}) \cup {n})
<1>1. f <= b.at /\ Stop(b) <= h.brk /\ Fine(b) /\ \A c \in bs : b = c \/ Apart(b, c)
  BY DEF Row, Tiles
<1>2. Stop(n) = Stop(b) /\ Aligned(b.at) /\ Aligned(Stop(b)) /\ b.at < Stop(b) /\ b.at \in Nat /\ Stop(b) \in Nat
  BY <1>1, RowWords DEF Stop, Fine
<1>3. Laid(g, {n}, b.at, Stop(b)) /\ Beyond(h, g, b.at, Stop(b))
  BY <1>1, <1>2, OneLaid
<1>4. Within({b}, b.at, Stop(b)) /\ Clear(bs \ {b}, b.at, Stop(b)) /\ {b} \in SUBSET bs
  BY <1>1, <1>2 DEF Within, Clear, Apart
<1> QED BY <1>1, <1>2, <1>3, <1>4, RowReplace

\* NEXT_BP: the next block, or the epilogue, which is allocated.
LEMMA NextTo ==
  ASSUME NEW h, NEW f, NEW bs, Row(h, f, bs), NEW b \in bs
  PROVE  \/ Stop(b) = h.brk /\ IsAlloc(h, Stop(b))
         \/ \E c \in bs : c.at = Stop(b)
<1>1. /\ \A c \in bs : Fine(c) /\ f <= c.at /\ Stop(c) <= h.brk
      /\ \A c \in bs : b = c \/ Apart(b, c)
      /\ \A p \in Nat : f <= p /\ p < h.brk => \E c \in bs : c.at <= p /\ p < Stop(c)
  BY DEF Row, Tiles
<1>2. \A c \in bs : c.at \in Nat /\ Stop(c) \in Nat /\ c.at + 16 <= Stop(c)
  BY <1>1 DEF Fine, Stop
<1>3. h.mem[h.brk - 4] = 1 /\ h.brk \in Nat /\ f \in Nat
  BY DEF Row, Walls, Fitted, Aligned
<1>4. CASE Stop(b) = h.brk
  BY <1>3, <1>4 DEF IsAlloc, AllocAt, Hdrp, WSIZE
<1>5. CASE Stop(b) # h.brk
  <2>1. PICK c \in bs : c.at <= Stop(b) /\ Stop(b) < Stop(c)
    BY <1>1, <1>2, <1>3, <1>5
  <2> QED BY <1>1, <1>2, <2>1 DEF Apart
<1> QED BY <1>4, <1>5

\* PREV_BP: the previous block, or the prologue, which is allocated.
LEMMA PrevTo ==
  ASSUME NEW h, NEW f, NEW bs, Row(h, f, bs), NEW b \in bs
  PROVE  \/ b.at = f /\ PrevBp(h, b.at) = 8 /\ IsAlloc(h, 8)
         \/ \E c \in bs : Stop(c) = b.at /\ PrevBp(h, b.at) = c.at
<1>1. /\ \A c \in bs : Fine(c) /\ f <= c.at /\ Stop(c) <= h.brk
      /\ \A c \in bs : b = c \/ Apart(b, c)
      /\ \A p \in Nat : f <= p /\ p < h.brk => \E c \in bs : c.at <= p /\ p < Stop(c)
  BY DEF Row, Tiles
<1>2. \A c \in bs : c.at \in Nat /\ Stop(c) \in Nat /\ c.at + 16 <= Stop(c) /\ c.size \in Nat
  BY <1>1 DEF Fine, Stop
<1>3. h.mem[4] = f - 7 /\ h.mem[f - 8] = f - 7 /\ h.brk \in Nat /\ f \in Nat /\ f % 8 = 0 /\ f >= 16
  BY DEF Row, Walls, Fitted, Aligned
<1>4. CASE b.at = f
  <2>1. ((f - 7) \div 8) * 8 = f - 8 /\ (f - 7) % 2 = 1
    BY <1>3
  <2> QED BY <1>3, <1>4, <2>1 DEF IsAlloc, AllocAt, Hdrp, WSIZE, PrevBp, SizeAt, DSIZE
<1>5. CASE b.at # f
  <2>1. b.at - 1 \in Nat /\ f <= b.at - 1 /\ b.at - 1 < h.brk
    BY <1>1, <1>2, <1>3, <1>5
  <2>2. PICK c \in bs : c.at <= b.at - 1 /\ b.at - 1 < Stop(c)
    BY <1>1, <2>1
  <2>3. Stop(c) = b.at
    BY <1>1, <1>2, <2>2 DEF Apart
  <2>4. SizeAt(h, Stop(c) - 8) = c.size
    BY Reads
  <2>5. PrevBp(h, b.at) = c.at
    BY <1>2, <2>3, <2>4 DEF PrevBp, DSIZE, Stop
  <2> QED BY <2>3, <2>5
<1> QED BY <1>4, <1>5

(***************************************************************************)
(* coalesce: the block that b and its free neighbours make.                *)
(***************************************************************************)
CodeStart(h, bp) == IF IsAlloc(h, PrevBp(h, bp)) THEN bp ELSE PrevBp(h, bp)
CodeSize(h, bp) ==
  BlockSize(h, bp) + (IF IsAlloc(h, PrevBp(h, bp)) THEN 0 ELSE BlockSize(h, PrevBp(h, bp)))
                   + (IF IsAlloc(h, NextBp(h, bp)) THEN 0 ELSE BlockSize(h, NextBp(h, bp)))
LeftOf(bs, b) == {c \in bs : c # b /\ ~c.used /\ Stop(c) = b.at}
RightOf(bs, b) == {c \in bs : c # b /\ ~c.used /\ c.at = Stop(b)}
Whole(h, b) == [at |-> CodeStart(h, b.at), size |-> CodeSize(h, b.at), used |-> FALSE]
Melted(h, bs, b) == (bs \ ({b} \cup LeftOf(bs, b) \cup RightOf(bs, b))) \cup {Whole(h, b)}

\* The neighbours as coalesce sees them.
LeftSeen(h, bs, b, l) ==
  \/ l = {} /\ IsAlloc(h, PrevBp(h, b.at))
  \/ \E c \in bs : l = {c} /\ c # b /\ ~c.used /\ Stop(c) = b.at /\ PrevBp(h, b.at) = c.at
                   /\ ~IsAlloc(h, c.at) /\ BlockSize(h, c.at) = c.size
RightSeen(h, bs, b, r) ==
  \/ r = {} /\ IsAlloc(h, NextBp(h, b.at))
  \/ \E c \in bs : r = {c} /\ c # b /\ ~c.used /\ c.at = Stop(b) /\ NextBp(h, b.at) = c.at
                   /\ ~IsAlloc(h, c.at) /\ BlockSize(h, c.at) = c.size

\* What coalesce reads of the two neighbours of b.
LEMMA Neighbours ==
  ASSUME NEW h, NEW f, NEW bs, Row(h, f, bs), NEW b \in bs
  PROVE  LeftSeen(h, bs, b, LeftOf(bs, b)) /\ RightSeen(h, bs, b, RightOf(bs, b))
<1>1. /\ \A c \in bs : Fine(c) /\ f <= c.at /\ Stop(c) <= h.brk
      /\ \A c, d \in bs : d = c \/ Apart(d, c)
  BY DEF Row, Tiles
<1>2. \A c \in bs : c.at \in Nat /\ Stop(c) \in Nat /\ c.at + 16 <= Stop(c) /\ c.used \in BOOLEAN
  BY <1>1 DEF Fine, Stop
<1>3. \A c, d \in bs : (c.at = d.at \/ Stop(c) = Stop(d)) => c = d
  BY <1>1, <1>2 DEF Apart
<1>4. \A c \in bs : BlockSize(h, c.at) = c.size /\ (IsAlloc(h, c.at) <=> c.used)
  BY Reads
<1>5. NextBp(h, b.at) = Stop(b)
  BY Reads
<1>6. LeftSeen(h, bs, b, LeftOf(bs, b))
  <2>1. CASE b.at = f /\ PrevBp(h, b.at) = 8 /\ IsAlloc(h, 8)
    <3>1. \A c \in bs : Stop(c) # b.at
      BY <1>1, <1>2, <2>1
    <3> QED BY <2>1, <3>1 DEF LeftOf, LeftSeen
  <2>2. ASSUME NEW c \in bs, Stop(c) = b.at, PrevBp(h, b.at) = c.at PROVE LeftSeen(h, bs, b, LeftOf(bs, b))
    <3>1. c # b
      BY <1>2, <2>2
    <3>2. CASE c.used
      <4>1. \A d \in bs : Stop(d) = b.at => d.used
        BY <1>3, <2>2, <3>2
      <4>2. LeftOf(bs, b) = {}
        BY <4>1 DEF LeftOf
      <4> QED BY <1>4, <2>2, <3>2, <4>2 DEF LeftSeen
    <3>3. CASE ~c.used
      <4>1. LeftOf(bs, b) = {c}
        BY <1>3, <2>2, <3>1, <3>3 DEF LeftOf
      <4> QED BY <1>4, <2>2, <3>1, <3>3, <4>1 DEF LeftSeen
    <3> QED BY <3>2, <3>3
  <2> QED BY <2>1, <2>2, PrevTo
<1>7. RightSeen(h, bs, b, RightOf(bs, b))
  <2>1. CASE Stop(b) = h.brk /\ IsAlloc(h, Stop(b))
    <3>1. \A c \in bs : c.at # Stop(b)
      BY <1>1, <1>2, <2>1
    <3> QED BY <1>5, <2>1, <3>1 DEF RightOf, RightSeen
  <2>2. ASSUME NEW c \in bs, c.at = Stop(b) PROVE RightSeen(h, bs, b, RightOf(bs, b))
    <3>1. c # b
      BY <1>2, <2>2
    <3>2. CASE c.used
      <4>1. \A d \in bs : d.at = Stop(b) => d.used
        BY <1>3, <2>2, <3>2
      <4>2. RightOf(bs, b) = {}
        BY <4>1 DEF RightOf
      <4> QED BY <1>4, <1>5, <2>2, <3>2, <4>2 DEF RightSeen
    <3>3. CASE ~c.used
      <4>1. RightOf(bs, b) = {c}
        BY <1>3, <2>2, <3>1, <3>3 DEF RightOf
      <4> QED BY <1>4, <1>5, <2>2, <3>1, <3>3, <4>1 DEF RightSeen
    <3> QED BY <3>2, <3>3
  <2> QED BY <2>1, <2>2, NextTo
<1> QED BY <1>6, <1>7

\* Where the whole begins and ends.
WholeSpans(bs, b, w, l, r) ==
  /\ \/ l = {} /\ w.at = b.at
     \/ \E c \in bs : l = {c} /\ c # b /\ Stop(c) = b.at /\ w.at = c.at
  /\ \/ r = {} /\ Stop(w) = Stop(b)
     \/ \E c \in bs : r = {c} /\ c # b /\ c.at = Stop(b) /\ Stop(w) = Stop(c)

\* The sizes coalesce adds up reach from one neighbour to the other.
LEMMA WholeSpan ==
  ASSUME NEW h, NEW f, NEW bs, Row(h, f, bs), NEW b \in bs
  PROVE  WholeSpans(bs, b, Whole(h, b), LeftOf(bs, b), RightOf(bs, b)) /\ CodeSize(h, b.at) \in Int
<1> DEFINE l == LeftOf(bs, b)
           r == RightOf(bs, b)
           w == Whole(h, b)
<1>1. LeftSeen(h, bs, b, l) /\ RightSeen(h, bs, b, r)
  BY Neighbours
<1>2. \A c \in bs : Fine(c)
  BY DEF Row, Tiles
<1>3. \A c \in bs : c.at \in Nat /\ c.size \in Nat /\ Stop(c) = c.at + c.size
  BY <1>2 DEF Fine, Stop
<1>4. BlockSize(h, b.at) = b.size
  BY Reads
<1>5. w.at = CodeStart(h, b.at) /\ w.size = CodeSize(h, b.at) /\ w.used = FALSE
  BY DEF Whole
<1> HIDE DEF l, r, w
<1>6. \/ l = {} /\ w.at = b.at
      \/ \E c \in bs : l = {c} /\ c # b /\ Stop(c) = b.at /\ w.at = c.at
  BY <1>1, <1>5 DEF LeftSeen, CodeStart
<1>7. (Stop(w) = Stop(b) /\ r = {}) \/ \E c \in bs : r = {c} /\ c # b /\ c.at = Stop(b) /\ Stop(w) = Stop(c)
  <2>1. Stop(w) = CodeStart(h, b.at) + CodeSize(h, b.at)
    BY <1>5 DEF Stop
  <2>2. \/ IsAlloc(h, PrevBp(h, b.at))
        \/ \E c \in bs : Stop(c) = b.at /\ PrevBp(h, b.at) = c.at /\ ~IsAlloc(h, c.at) /\ BlockSize(h, c.at) = c.size
    BY <1>1 DEF LeftSeen
  <2>3. \/ r = {} /\ IsAlloc(h, NextBp(h, b.at))
        \/ \E c \in bs : r = {c} /\ c # b /\ c.at = Stop(b) /\ NextBp(h, b.at) = c.at
                         /\ ~IsAlloc(h, c.at) /\ BlockSize(h, c.at) = c.size
    BY <1>1 DEF RightSeen
  <2>4. CodeStart(h, b.at) + BlockSize(h, b.at)
          + (IF IsAlloc(h, PrevBp(h, b.at)) THEN 0 ELSE BlockSize(h, PrevBp(h, b.at))) = Stop(b)
    BY <1>3, <1>4, <2>2 DEF CodeStart
  <2>5. CASE r = {} /\ IsAlloc(h, NextBp(h, b.at))
    <3>1. Stop(w) = Stop(b)
      BY <1>3, <1>4, <2>1, <2>2, <2>5 DEF CodeStart, CodeSize
    <3> QED BY <2>5, <3>1
  <2>6. ASSUME NEW c \in bs, r = {c}, c # b, c.at = Stop(b), NextBp(h, b.at) = c.at,
               ~IsAlloc(h, c.at), BlockSize(h, c.at) = c.size
        PROVE  Stop(w) = Stop(c)
    BY <1>3, <1>4, <2>1, <2>2, <2>6 DEF CodeStart, CodeSize
  <2> QED BY <2>3, <2>5, <2>6
<1>8. CodeSize(h, b.at) \in Int
  <2>1. \A c \in bs : BlockSize(h, c.at) \in Int
    BY <1>3, Reads
  <2> QED BY <1>1, <1>3, <1>4, <2>1 DEF CodeSize, LeftSeen, RightSeen
<1> QED BY <1>6, <1>7, <1>8 DEF WholeSpans, l, r, w

\* The merged block is a block, and covers b and its free neighbours only.
LEMMA WholeIs ==
  ASSUME NEW h, NEW f, NEW bs, Row(h, f, bs), NEW b \in bs
  PROVE  /\ Fine(Whole(h, b)) /\ f <= CodeStart(h, b.at) /\ Stop(Whole(h, b)) <= h.brk
         /\ Within({b} \cup LeftOf(bs, b) \cup RightOf(bs, b), CodeStart(h, b.at), Stop(Whole(h, b)))
         /\ Clear(bs \ ({b} \cup LeftOf(bs, b) \cup RightOf(bs, b)), CodeStart(h, b.at), Stop(Whole(h, b)))
<1> DEFINE l == LeftOf(bs, b)
           r == RightOf(bs, b)
           w == Whole(h, b)
<1>2. /\ \A c \in bs : Fine(c) /\ f <= c.at /\ Stop(c) <= h.brk
      /\ \A c, d \in bs : d = c \/ Apart(d, c)
  BY DEF Row, Tiles
<1>3. \A c \in bs : c.at \in Nat /\ c.size \in Nat /\ Stop(c) = c.at + c.size /\ c.size >= 16 /\ c.used \in BOOLEAN
                    /\ Aligned(c.at) /\ Aligned(c.size)
  BY <1>2 DEF Fine, Stop
<1>5. w.at = CodeStart(h, b.at) /\ w.size = CodeSize(h, b.at) /\ w.used = FALSE
  BY DEF Whole
<1>0. WholeSpans(bs, b, w, l, r) /\ w.size \in Int
  BY <1>5, WholeSpan
<1> HIDE DEF l, r, w
<1>6. \/ l = {} /\ w.at = b.at
      \/ \E c \in bs : l = {c} /\ c # b /\ Stop(c) = b.at /\ w.at = c.at
  BY <1>0 DEF WholeSpans
<1>7. (Stop(w) = Stop(b) /\ r = {}) \/ \E c \in bs : r = {c} /\ c # b /\ c.at = Stop(b) /\ Stop(w) = Stop(c)
  BY <1>0 DEF WholeSpans
<1>8. Aligned(w.at) /\ w.at <= b.at /\ f <= w.at
  BY <1>2, <1>3, <1>6
<1>9. Aligned(Stop(w)) /\ Stop(b) <= Stop(w) /\ Stop(w) <= h.brk
  <2>1. \A c \in bs : Aligned(Stop(c))
    BY RowWords
  <2> QED BY <1>2, <1>3, <1>7, <2>1
<1>10. Fine(w)
  <2>1. w.at \in Nat /\ Stop(w) \in Nat /\ w.at + 16 <= Stop(w)
    BY <1>3, <1>8, <1>9 DEF Aligned
  <2>2. w.size \in Int
    BY <1>0
  <2>3. w.size = Stop(w) - w.at
    BY <2>1, <2>2 DEF Stop
  <2>4. Aligned(w.size) /\ w.size >= 16 /\ w.size \in Nat
    BY <1>8, <1>9, <2>1, <2>3, Sums DEF Aligned
  <2>5. w \in [at : Nat, size : Nat, used : BOOLEAN]
    BY <1>5, <2>1, <2>4 DEF w, Whole
  <2> QED BY <1>8, <2>4, <2>5 DEF Fine
<1>11. Within({b} \cup l \cup r, w.at, Stop(w))
  BY <1>2, <1>3, <1>6, <1>7 DEF Within
<1>12. Clear(bs \ ({b} \cup l \cup r), w.at, Stop(w))
  BY <1>2, <1>3, <1>6, <1>7 DEF Clear, Apart
<1> QED BY <1>5, <1>8, <1>9, <1>10, <1>11, <1>12 DEF l, r, w

\* When the merged block is tagged the heap is a row again.
LEMMA RowMelts ==
  ASSUME NEW h, NEW f, NEW bs, Row(h, f, bs), NEW b \in bs,
         NEW k, NEW g, Row(k, f, bs), k.brk = h.brk,
         Tags(k, g, CodeStart(h, b.at), CodeSize(h, b.at), CodeSize(h, b.at))
  PROVE  Row(g, f, Melted(h, bs, b))
<1> DEFINE old == {b} \cup LeftOf(bs, b) \cup RightOf(bs, b)
           w == Whole(h, b)
<1>1. w.at = CodeStart(h, b.at) /\ w.size = CodeSize(h, b.at) /\ w.used = FALSE
  BY DEF Whole
<1>2. Fine(w) /\ f <= w.at /\ Stop(w) <= h.brk /\ Within(old, w.at, Stop(w)) /\ Clear(bs \ old, w.at, Stop(w))
  BY <1>1, WholeIs
<1>3. old \in SUBSET bs
  BY DEF LeftOf, RightOf
<1>4. Melted(h, bs, b) = (bs \ old) \cup {w}
  BY DEF Melted
<1> HIDE DEF old, w
<1>5. w.size \in Nat /\ w.size + Bit(w) = w.size /\ w.at \in Nat /\ Stop(w) \in Nat /\ w.at < Stop(w) /\ Aligned(w.at)
  BY <1>1, <1>2 DEF Bit, Fine, Stop
<1>6. Aligned(Stop(w))
  BY <1>2, Sums DEF Fine, Stop
<1>7. Laid(g, {w}, w.at, Stop(w)) /\ Beyond(k, g, w.at, Stop(w))
  BY <1>1, <1>2, <1>5, OneLaid
<1> QED BY <1>2, <1>3, <1>4, <1>5, <1>6, <1>7, RowReplace

(***************************************************************************)
(* Lists of free blocks, whose links are the words x and x + 4 of a block: *)
(* S is the set of the blocks on a list.                                   *)
(***************************************************************************)
Ranked(m, S, r) == r \in [S -> Nat] /\ \A x \in S : m[x + 4] \in S => r[x] < r[m[x + 4]]
ListOf(m, head, end, S) ==
  /\ head \in S \cup {end}
  /\ \A x \in S : m[x] \in S \cup {0} /\ m[x + 4] \in S \cup {end}
  /\ \A x \in S : m[x] = 0 <=> x = head
  /\ \A x, y \in S : m[x + 4] = y <=> m[y] = x
  /\ \E r : Ranked(m, S, r)

\* delete_block on a list: the neighbours of x are linked to each other.
LEMMA ListLoses ==
  ASSUME NEW m, NEW head, NEW end, NEW S, ListOf(m, head, end, S), 0 \notin S, end \notin S,
         NEW x \in S, NEW n, NEW first,
         first = IF m[x] = 0 THEN m[x + 4] ELSE head,
         \A y \in S \ {x} : n[y] = IF y = m[x + 4] THEN m[x] ELSE m[y],
         \A y \in S \ {x} : n[y + 4] = IF y = m[x] THEN m[x + 4] ELSE m[y + 4]
  PROVE  ListOf(n, first, end, S \ {x})
<1> DEFINE p == m[x]
           q == m[x + 4]
           T == S \ {x}
<1>1. PICK r : Ranked(m, S, r)
  BY DEF ListOf
<1>2. /\ head \in S \cup {end}
      /\ \A y \in S : m[y] \in S \cup {0} /\ m[y + 4] \in S \cup {end}
      /\ \A y \in S : m[y] = 0 <=> y = head
      /\ \A y, z \in S : m[y + 4] = z <=> m[z] = y
  BY DEF ListOf
<1>3. r \in [S -> Nat] /\ \A y \in S : m[y + 4] \in S => r[y] < r[m[y + 4]]
  BY <1>1 DEF Ranked
<1>4. p \in S \cup {0} /\ q \in S \cup {end}
  BY <1>2
<1>5. p # x /\ q # x
  <2>1. \A y \in S : r[y] \in Nat
    BY <1>3
  <2>2. q # x
    BY <1>3, <2>1
  <2> QED BY <1>2, <2>2
<1>6. /\ \A y \in T : n[y] = IF y = q THEN p ELSE m[y]
      /\ \A y \in T : n[y + 4] = IF y = p THEN q ELSE m[y + 4]
      /\ first = IF p = 0 THEN q ELSE head
  OBVIOUS
<1>7. \A y \in T : (m[y] = x <=> y = q) /\ (m[y + 4] = x <=> y = p)
  BY <1>2
<1> HIDE DEF p, q
<1>8. first \in T \cup {end}
  <2>1. p # 0 => head # x
    BY <1>2 DEF p
  <2> QED BY <1>2, <1>4, <1>5, <1>6, <2>1
<1>9. \A y \in T : n[y] \in T \cup {0} /\ n[y + 4] \in T \cup {end}
  <2>1. ASSUME NEW y \in T PROVE n[y] \in T \cup {0}
    BY <1>2, <1>4, <1>5, <1>6, <1>7
  <2>2. ASSUME NEW y \in T PROVE n[y + 4] \in T \cup {end}
    BY <1>2, <1>4, <1>5, <1>6, <1>7
  <2> QED BY <2>1, <2>2
<1>10. ASSUME NEW y \in T PROVE n[y] = 0 <=> y = first
  <2>1. p = 0 <=> x = head
    BY <1>2 DEF p
  <2>2. m[y] = 0 <=> y = head
    BY <1>2
  <2>3. CASE y = q
    <3>1. m[y] = x /\ x # 0
      BY <1>7, <2>3
    <3> QED BY <1>6, <2>1, <2>2, <2>3, <3>1
  <2>4. CASE y # q
    BY <1>6, <2>1, <2>2, <2>4
  <2> QED BY <2>3, <2>4
<1>11. ASSUME NEW y \in T, NEW z \in T PROVE n[y + 4] = z <=> n[z] = y
  <2>1. m[y + 4] = z <=> m[z] = y
    BY <1>2
  <2>2. p \in S => (m[p + 4] = x)
    BY <1>2 DEF p
  <2>3. q \in S => (m[q] = x)
    BY <1>2 DEF q
  <2> QED BY <1>2, <1>5, <1>6, <1>7, <2>1, <2>2, <2>3
<1>12. Ranked(n, T, [y \in T |-> r[y]])
  <2>1. \A y \in S : r[y] \in Nat
    BY <1>3
  <2>2. ASSUME NEW y \in T, n[y + 4] \in T PROVE r[y] < r[n[y + 4]]
    <3>1. CASE y = p
      <4>1. n[y + 4] = q /\ m[p + 4] = x /\ q \in S /\ p \in S
        BY <1>2, <1>4, <1>6, <2>2, <3>1 DEF p
      <4>2. r[p] < r[x] /\ r[x] < r[q]
        BY <1>3, <4>1 DEF q
      <4> QED BY <2>1, <3>1, <4>1, <4>2
    <3>2. CASE y # p
      BY <1>3, <1>6, <2>2, <3>2
    <3> QED BY <3>1, <3>2
  <2> QED BY <2>1, <2>2 DEF Ranked
<1> QED BY <1>8, <1>9, <1>10, <1>11, <1>12 DEF ListOf

\* The end of coalesce on a list: x becomes the first block.
LEMMA ListGains ==
  ASSUME NEW m, NEW head, NEW end, NEW S, ListOf(m, head, end, S), 0 \notin S, end \notin S,
         NEW x, x \notin S, x # 0, x # end, NEW n,
         n[x] = 0, n[x + 4] = head,
         \A y \in S : n[y] = IF y = head THEN x ELSE m[y],
         \A y \in S : n[y + 4] = m[y + 4]
  PROVE  ListOf(n, x, end, S \cup {x})
<1> DEFINE T == S \cup {x}
<1>1. PICK r : Ranked(m, S, r)
  BY DEF ListOf
<1>2. /\ head \in S \cup {end}
      /\ \A y \in S : m[y] \in S \cup {0} /\ m[y + 4] \in S \cup {end}
      /\ \A y \in S : m[y] = 0 <=> y = head
      /\ \A y, z \in S : m[y + 4] = z <=> m[z] = y
  BY DEF ListOf
<1>3. r \in [S -> Nat] /\ \A y \in S : m[y + 4] \in S => r[y] < r[m[y + 4]]
  BY <1>1 DEF Ranked
<1>4. \A y \in T : n[y] \in T \cup {0} /\ n[y + 4] \in T \cup {end}
  BY <1>2
<1>5. \A y \in T : n[y] = 0 <=> y = x
  BY <1>2
<1>6. ASSUME NEW y \in T, NEW z \in T PROVE n[y + 4] = z <=> n[z] = y
  <2>1. CASE y \in S /\ z \in S
    <3>1. m[y + 4] = z <=> m[z] = y
      BY <1>2, <2>1
    <3>2. z = head => m[z] = 0 /\ y # 0 /\ y # x
      BY <1>2, <2>1
    <3> QED BY <2>1, <3>1, <3>2
  <2>2. CASE y = x /\ z \in S
    BY <1>2, <2>2
  <2>3. CASE z = x
    <3>1. n[z] = 0 /\ y # 0
      BY <2>3
    <3>2. n[y + 4] # x
      BY <1>2
    <3> QED BY <2>3, <3>1, <3>2
  <2> QED BY <2>1, <2>2, <2>3
<1>7. Ranked(n, T, [y \in T |-> IF y = x THEN 0 ELSE r[y] + 1])
  <2> DEFINE s == [y \in T |-> IF y = x THEN 0 ELSE r[y] + 1]
  <2>1. \A y \in S : r[y] \in Nat /\ s[y] = r[y] + 1
    BY <1>3
  <2>2. s[x] = 0 /\ s \in [T -> Nat]
    BY <2>1
  <2>3. ASSUME NEW y \in T, n[y + 4] \in T PROVE s[y] < s[n[y + 4]]
    <3>1. n[y + 4] \in S
      BY <1>2, <2>3
    <3>2. CASE y = x
      BY <2>1, <2>2, <3>1, <3>2
    <3>3. CASE y # x
      <4>1. y \in S /\ n[y + 4] = m[y + 4]
        BY <3>3
      <4>2. r[y] < r[n[y + 4]]
        BY <1>3, <3>1, <4>1
      <4> QED BY <2>1, <3>1, <4>1, <4>2
    <3> QED BY <3>2, <3>3
  <2> HIDE DEF s
  <2> QED BY <2>2, <2>3 DEF Ranked, s
<1> QED BY <1>4, <1>5, <1>6, <1>7 DEF ListOf

\* A list is where its links are.
LEMMA ListStays ==
  ASSUME NEW m, NEW head, NEW end, NEW S, ListOf(m, head, end, S),
         NEW n, \A y \in S : n[y] = m[y] /\ n[y + 4] = m[y + 4]
  PROVE  ListOf(n, head, end, S)
<1>1. \A r : Ranked(m, S, r) => Ranked(n, S, r)
  BY DEF Ranked
<1> QED BY <1>1 DEF ListOf

(* The lists of an allocator. *)
Stops(a) == IF a = "lab2" THEN 8 ELSE 0
Nodes(a) == {x \in Nat : Aligned(x) /\ ListsFirst(a) <= x /\ x < MaxHeap}
Filed(a, S) ==
  /\ S \in [Classes(a) -> SUBSET Nodes(a)]
  /\ \A i, j \in Classes(a) : i # j => S[i] \cap S[j] = {}
Lists(a, h, S) == \A i \in Classes(a) : ListOf(h.mem, FreeListp(a, h, i), Stops(a), S[i])

\* What a change of the lists may write.
Relinked(a, h, g, S, x) ==
  /\ g \in Heap /\ g.brk = h.brk
  /\ \A w \in Words : \/ g.mem[w] = h.mem[w] \/ w = x \/ w = x + 4
                      \/ 8 <= w /\ w < ListsFirst(a) - 8
                      \/ \E i \in Classes(a) : \E y \in S[i] : w = y \/ w = y + 4

\* Where the first block and the heads of the lists are.
LEMMA FirstIs ==
  ASSUME NEW a \in Listed
  PROVE  /\ Aligned(ListsFirst(a)) /\ ListsFirst(a) >= 24 /\ ImplicitFirst = 16
         /\ \A i \in Classes(a) : i \in Nat
         /\ a # "lab2" => \A i \in Classes(a) : GetClass(i) \in Nat /\ GetClass(i) % 4 = 0
                              /\ 8 <= GetClass(i) /\ GetClass(i) < ListsFirst(a) - 8
  BY ClassSizeAssumption DEF Aligned, ListsFirst, Inner, WSIZE, DSIZE, Classes, GetClass, Listed, ImplicitFirst

\* The words of the links are in the heap, apart, and none is NULL or an end.
LEMMA NodesAre ==
  ASSUME NEW a \in Listed, NEW x \in Nodes(a)
  PROVE  /\ x \in Words /\ x + 4 \in Words /\ x \in Nat /\ x # 0 /\ x # Stops(a) /\ x >= ListsFirst(a)
         /\ \A y \in Nodes(a) : x # y + 4 /\ (x = y \/ (x # y /\ x + 4 # y + 4))
<1>1. Aligned(x) /\ x < MaxHeap /\ x \in Nat /\ x >= ListsFirst(a)
  BY DEF Nodes
<1>2. x \in Words /\ x + 4 \in Words
  BY <1>1, AlignedWords
<1>3. ListsFirst(a) \in Nat /\ ListsFirst(a) >= 24
  BY FirstIs DEF Aligned
<1>4. \A y \in Nodes(a) : y \in Nat /\ y % 8 = 0
  BY DEF Nodes, Aligned
<1> QED BY <1>1, <1>2, <1>3, <1>4 DEF Stops, Aligned

\* The head of a list is a word.
LEMMA ClassWords ==
  ASSUME NEW a \in Listed, a # "lab2", ListsFirst(a) <= MaxHeap, NEW i \in Classes(a)
  PROVE  GetClass(i) \in Words
<1>1. GetClass(i) \in Nat /\ GetClass(i) % 4 = 0 /\ GetClass(i) < ListsFirst(a) - 8 /\ ListsFirst(a) \in Nat /\ MaxHeap \in Nat
  BY FirstIs, HeapWordsAssumption DEF Aligned
<1> QED BY <1>1, WordIs

\* PUT to the head of a list.
Heads(a, h, g, i, v) ==
  /\ g \in Heap /\ g.brk = h.brk
  /\ g.list = IF a = "lab2" THEN v ELSE h.list
  /\ \A w \in Words : g.mem[w] = IF a # "lab2" /\ w = GetClass(i) THEN v ELSE h.mem[w]

LEMMA HeadIs ==
  ASSUME NEW a \in Listed, ListsFirst(a) <= MaxHeap, NEW h \in Heap, NEW i \in Classes(a), NEW v \in Int
  PROVE  Heads(a, h, SetFreeListp(a, h, i, v), i, v)
<1>1. CASE a = "lab2"
  BY <1>1 DEF SetFreeListp, Heads, Heap
<1>2. CASE a # "lab2"
  <2>1. Writes(h, Put(h, GetClass(i), v), GetClass(i), v)
    BY <1>2, ClassWords, PutIs
  <2> QED BY <1>2, <2>1 DEF SetFreeListp, Heads, Writes
<1> QED BY <1>1, <1>2

(***************************************************************************)
(* delete_block.                                                           *)
(***************************************************************************)
Deleted(a, h, g, i, x, p, q) ==
  /\ g \in Heap /\ g.brk = h.brk
  /\ g.list = IF a = "lab2" /\ p = 0 THEN q ELSE h.list
  /\ \A w \in Words :
       g.mem[w] = IF w = x \/ w = x + 4 THEN 0
                  ELSE IF q # 0 /\ w = q THEN p
                  ELSE IF p # 0 /\ w = p + 4 THEN q
                  ELSE IF p = 0 /\ a # "lab2" /\ w = GetClass(i) THEN q
                  ELSE h.mem[w]

\* delete_block, word by word.
LEMMA DeleteIs ==
  ASSUME NEW a \in Listed, ListsFirst(a) <= MaxHeap, NEW h \in Heap,
         NEW x \in Nodes(a), NEW i \in Classes(a), i = GetClassIdx(a, BlockSize(h, x)),
         NEW p, NEW q, p = h.mem[x], q = h.mem[x + 4],
         p \in Nodes(a) \cup {0}, q \in Nodes(a) \cup {Stops(a)}, p # x, q # x
  PROVE  Deleted(a, h, DeleteBlock(a, h, x), i, x, p, q)
<1>1. x \in Words /\ x + 4 \in Words /\ x \in Nat /\ x >= ListsFirst(a)
  BY NodesAre
<1>2. p = 0 \/ (p \in Nat /\ p \in Words /\ p + 4 \in Words /\ p # 0 /\ p + 4 # x /\ p + 4 # x + 4 /\ p >= ListsFirst(a))
  BY NodesAre
<1>3. q \in Nat /\ q # x + 4 /\ (q # 0 => q \in Words) /\ (q \in Nodes(a) => q >= ListsFirst(a))
  <2>1. CASE q \in Nodes(a)
    BY <2>1, NodesAre
  <2>2. CASE q = Stops(a)
    <3>1. ListsFirst(a) \in Nat /\ 24 <= ListsFirst(a) /\ MaxHeap \in Nat
      BY FirstIs, HeapWordsAssumption DEF Aligned
    <3>2. 8 \in Words
      BY <3>1, AlignedWords DEF Aligned
    <3>3. q = 0 \/ q = 8
      BY <2>2 DEF Stops
    <3>4. q \notin Nodes(a)
      BY <3>1, <3>3 DEF Nodes
    <3> QED BY <1>1, <3>1, <3>2, <3>3, <3>4
  <2> QED BY <2>1, <2>2
<1>4. a # "lab2" => /\ GetClass(i) \in Words /\ GetClass(i) # x /\ GetClass(i) # x + 4
                    /\ (q # 0 => GetClass(i) # q)
  <2>1. a # "lab2" => GetClass(i) \in Words
    BY ClassWords
  <2>2. a # "lab2" => GetClass(i) \in Nat /\ GetClass(i) < ListsFirst(a) /\ ListsFirst(a) \in Nat
    BY FirstIs DEF Aligned
  <2>3. a # "lab2" /\ q # 0 => q \in Nodes(a)
    BY DEF Stops
  <2> QED BY <1>1, <1>3, <2>1, <2>2, <2>3
<1>5. p + 4 # q
  <2>1. p = 0 => q # 4
    <3>1. q # Stops(a) => q \in Nodes(a)
      OBVIOUS
    <3>2. 4 \notin Nodes(a)
      BY DEF Nodes, Aligned
    <3> QED BY <3>1, <3>2 DEF Stops
  <2>2. p # 0 => p \in Nodes(a) /\ p % 8 = 0 /\ p \in Nat
    BY DEF Nodes, Aligned
  <2>3. q % 8 = 0 /\ q \in Nat
    BY DEF Nodes, Aligned, Stops
  <2> QED BY <2>1, <2>2, <2>3
<1> DEFINE h1 == IF PrevFree(h, x) # NULL THEN SetNext(h, PrevFree(h, x), NextFree(h, x))
                 ELSE SetFreeListp(a, h, GetClassIdx(a, BlockSize(h, x)), NextFree(h, x))
           h2 == IF NextFree(h1, x) # NULL THEN SetPrev(h1, NextFree(h1, x), PrevFree(h1, x)) ELSE h1
           h3 == SetNext(h2, x, NULL)
           g == SetPrev(h3, x, NULL)
<1>6. g = DeleteBlock(a, h, x)
  BY Zenon DEF DeleteBlock
<1>7. /\ h1 \in Heap /\ h1.brk = h.brk /\ h1.list = IF a = "lab2" /\ p = 0 THEN q ELSE h.list
      /\ \A w \in Words : h1.mem[w] = IF p # 0 /\ w = p + 4 THEN q
                                      ELSE IF p = 0 /\ a # "lab2" /\ w = GetClass(i) THEN q
                                      ELSE h.mem[w]
  <2>1. CASE p # 0
    <3>1. h1 = Put(h, p + 4, q)
      BY <2>1 DEF PrevFree, NextFree, SetNext, NULL, WSIZE
    <3>2. Writes(h, Put(h, p + 4, q), p + 4, q)
      BY <1>2, <1>3, <2>1, PutIs
    <3> QED BY <2>1, <3>1, <3>2 DEF Writes
  <2>2. CASE p = 0
    <3>1. h1 = SetFreeListp(a, h, i, q)
      BY <2>2 DEF PrevFree, NextFree, NULL, WSIZE
    <3>2. Heads(a, h, SetFreeListp(a, h, i, q), i, q)
      BY <1>3, HeadIs
    <3> QED BY <2>2, <3>1, <3>2 DEF Heads
  <2> QED BY <2>1, <2>2
<1> HIDE DEF h1
<1>8. h1.mem[x] = p /\ h1.mem[x + 4] = q
  BY <1>1, <1>2, <1>4, <1>7
<1>9. /\ h2 \in Heap /\ h2.brk = h1.brk /\ h2.list = h1.list
      /\ \A w \in Words : h2.mem[w] = IF q # 0 /\ w = q THEN p ELSE h1.mem[w]
  <2>1. CASE q # 0
    <3>1. h2 = Put(h1, q, p)
      BY <1>8, <2>1 DEF PrevFree, NextFree, SetPrev, NULL, WSIZE
    <3>2. Writes(h1, Put(h1, q, p), q, p)
      BY <1>2, <1>3, <1>7, <2>1, PutIs
    <3> QED BY <2>1, <3>1, <3>2 DEF Writes
  <2>2. CASE q = 0
    <3>1. h2 = h1
      BY <1>8, <2>2 DEF NextFree, NULL, WSIZE
    <3> QED BY <1>7, <2>2, <3>1
  <2> QED BY <2>1, <2>2
<1> HIDE DEF h2
<1>10. Writes(h2, h3, x + 4, 0)
  <2>1. h3 = Put(h2, x + 4, 0)
    BY DEF SetNext, NULL, WSIZE
  <2> QED BY <1>1, <1>9, <2>1, PutIs
<1> HIDE DEF h3
<1>11. Writes(h3, g, x, 0)
  <2>1. g = Put(h3, x, 0)
    BY DEF SetPrev, NULL
  <2>2. h3 \in Heap
    BY <1>10 DEF Writes
  <2> QED BY <1>1, <2>1, <2>2, PutIs
<1> HIDE DEF g
<1>12. g \in Heap /\ g.brk = h.brk /\ g.list = IF a = "lab2" /\ p = 0 THEN q ELSE h.list
  BY <1>7, <1>9, <1>10, <1>11 DEF Writes
<1>13. ASSUME NEW w \in Words
       PROVE  g.mem[w] = IF w = x \/ w = x + 4 THEN 0
                  ELSE IF q # 0 /\ w = q THEN p
                  ELSE IF p # 0 /\ w = p + 4 THEN q
                  ELSE IF p = 0 /\ a # "lab2" /\ w = GetClass(i) THEN q
                  ELSE h.mem[w]
  <2>1. g.mem[w] = IF w = x THEN 0 ELSE h3.mem[w]
    BY <1>11 DEF Writes
  <2>2. h3.mem[w] = IF w = x + 4 THEN 0 ELSE h2.mem[w]
    BY <1>10 DEF Writes
  <2> QED BY <1>7, <1>9, <2>1, <2>2
<1> QED BY <1>6, <1>12, <1>13 DEF Deleted

Without(S, i, x) == [S EXCEPT ![i] = @ \ {x}]
With(S, i, x) == [S EXCEPT ![i] = @ \cup {x}]

\* delete_block takes x off its list and changes no other list.
LEMMA Deletes ==
  ASSUME NEW a \in Listed, ListsFirst(a) <= MaxHeap, NEW h \in Heap, NEW S, Filed(a, S), Lists(a, h, S),
         NEW i \in Classes(a), NEW x \in S[i], i = GetClassIdx(a, BlockSize(h, x))
  PROVE  /\ Lists(a, DeleteBlock(a, h, x), Without(S, i, x))
         /\ Relinked(a, h, DeleteBlock(a, h, x), S, x)
<1> DEFINE p == h.mem[x]
           q == h.mem[x + 4]
           g == DeleteBlock(a, h, x)
           e == Stops(a)
           T == Without(S, i, x)
<1>1. /\ \A j \in Classes(a) : S[j] \subseteq Nodes(a)
      /\ \A j \in Classes(a) : j # i => S[i] \cap S[j] = {}
      /\ S \in [Classes(a) -> SUBSET Nodes(a)]
  BY DEF Filed
<1>2. x \in Nodes(a) /\ 0 \notin Nodes(a) /\ e \notin Nodes(a)
  BY <1>1, NodesAre
<1>3. ListOf(h.mem, FreeListp(a, h, i), e, S[i])
  BY DEF Lists
<1>4. p \in S[i] \cup {0} /\ q \in S[i] \cup {e} /\ p # x /\ q # x
  <2>1. p \in S[i] \cup {0} /\ q \in S[i] \cup {e}
    BY <1>3 DEF ListOf
  <2>2. PICK r : Ranked(h.mem, S[i], r)
    BY <1>3 DEF ListOf
  <2>3. r \in [S[i] -> Nat] /\ \A y \in S[i] : h.mem[y + 4] \in S[i] => r[y] < r[h.mem[y + 4]]
    BY <2>2 DEF Ranked
  <2>4. \A y \in S[i] : r[y] \in Nat
    BY <2>3
  <2>5. \A y, z \in S[i] : h.mem[y + 4] = z <=> h.mem[z] = y
    BY <1>3 DEF ListOf
  <2>6. q # x
    BY <1>1, <1>2, <2>3, <2>4
  <2>7. p # x
    BY <2>5, <2>6
  <2> QED BY <2>1, <2>6, <2>7
<1> HIDE DEF p, q, g, e
<1>5. Deleted(a, h, g, i, x, p, q)
  <2>1. p \in Nodes(a) \cup {0} /\ q \in Nodes(a) \cup {Stops(a)}
    BY <1>1, <1>4 DEF e
  <2> QED BY <1>2, <1>4, <2>1, DeleteIs DEF p, q, g
<1>6. /\ g \in Heap /\ g.brk = h.brk
      /\ g.list = IF a = "lab2" /\ p = 0 THEN q ELSE h.list
      /\ \A w \in Words :
           g.mem[w] = IF w = x \/ w = x + 4 THEN 0
                  ELSE IF q # 0 /\ w = q THEN p
                  ELSE IF p # 0 /\ w = p + 4 THEN q
                  ELSE IF p = 0 /\ a # "lab2" /\ w = GetClass(i) THEN q
                  ELSE h.mem[w]
  BY <1>5 DEF Deleted
<1>7. \A y \in Nodes(a) : /\ y \in Words /\ y + 4 \in Words /\ y \in Nat /\ y >= ListsFirst(a)
                          /\ \A z \in Nodes(a) : y # z + 4 /\ (y # z => y + 4 # z + 4)
  BY NodesAre
<1>8. ListsFirst(a) \in Nat /\ ListsFirst(a) >= 24 /\ ListsFirst(a) % 8 = 0 /\ (e = 0 \/ e = 8)
      /\ (a # "lab2" => e = 0)
  BY FirstIs DEF Aligned, Stops, e
<1>9. \A j \in Classes(a) : a # "lab2" =>
         /\ GetClass(j) \in Words /\ GetClass(j) \in Nat /\ GetClass(j) < ListsFirst(a) - 8 /\ 8 <= GetClass(j)
         /\ (j # i => GetClass(j) # GetClass(i))
  <2>1. \A j \in Classes(a) : a # "lab2" => GetClass(j) \in Words
    BY ClassWords
  <2>2. \A j \in Classes(a) : j \in Nat /\ (j # i => GetClass(j) # GetClass(i))
    BY FirstIs DEF GetClass, DSIZE, WSIZE
  <2> QED BY <2>1, <2>2, FirstIs
<1>10. \A y \in Nodes(a) : y # x =>
         /\ g.mem[y] = IF y = q THEN p ELSE h.mem[y]
         /\ g.mem[y + 4] = IF y = p THEN q ELSE h.mem[y + 4]
  <2> SUFFICES ASSUME NEW y \in Nodes(a), y # x
               PROVE  /\ g.mem[y] = IF y = q THEN p ELSE h.mem[y]
                      /\ g.mem[y + 4] = IF y = p THEN q ELSE h.mem[y + 4]
    OBVIOUS
  <2>1. y \in Words /\ y + 4 \in Words /\ y \in Nat /\ y >= ListsFirst(a) /\ y # 0
        /\ y # x + 4 /\ y + 4 # x /\ y + 4 # x + 4
    BY <1>2, <1>7
  <2>2. a # "lab2" => y # GetClass(i) /\ y + 4 # GetClass(i)
    BY <1>8, <1>9, <2>1
  <2>3. y + 4 # q /\ (p # 0 => y # p + 4) /\ (p = y <=> y + 4 = p + 4)
    <3>1. p = 0 \/ p \in Nodes(a)
      BY <1>1, <1>4
    <3>2. q = e \/ q \in Nodes(a)
      BY <1>1, <1>4
    <3>3. y + 4 # q
      BY <1>7, <1>8, <2>1, <3>2
    <3>4. p # 0 => y # p + 4
      BY <1>7, <3>1
    <3>5. p \in Nat
      BY <1>7, <3>1
    <3> QED BY <2>1, <3>3, <3>4, <3>5
  <2> QED BY <1>6, <2>1, <2>2, <2>3
<1>11. FreeListp(a, g, i) = IF p = 0 THEN q ELSE FreeListp(a, h, i)
  <2>1. CASE a = "lab2"
    BY <1>6, <2>1 DEF FreeListp
  <2>2. CASE a # "lab2"
    <3>1. \A y \in Nodes(a) : y # GetClass(i) /\ y + 4 # GetClass(i)
      BY <1>7, <1>8, <1>9, <2>2
    <3>2. p # 0 => p + 4 # GetClass(i)
      BY <1>1, <1>4, <3>1
    <3>3. q # 0 => q # GetClass(i)
      BY <1>1, <1>4, <1>8, <2>2, <3>1
    <3>4. g.mem[GetClass(i)] = IF p = 0 THEN q ELSE h.mem[GetClass(i)]
      BY <1>2, <1>6, <1>9, <2>2, <3>1, <3>2, <3>3
    <3> QED BY <2>2, <3>4 DEF FreeListp
  <2> QED BY <2>1, <2>2
<1>12. \A j \in Classes(a) : j # i => FreeListp(a, g, j) = FreeListp(a, h, j)
  <2>1. CASE a = "lab2"
    BY <2>1 DEF Classes
  <2>2. CASE a # "lab2"
    <3>0. SUFFICES ASSUME NEW j \in Classes(a), j # i PROVE FreeListp(a, g, j) = FreeListp(a, h, j)
      OBVIOUS
    <3>1. \A y \in Nodes(a) : y # GetClass(j) /\ y + 4 # GetClass(j)
      BY <1>7, <1>8, <1>9, <2>2
    <3>2. p # 0 => p + 4 # GetClass(j)
      BY <1>1, <1>4, <3>1
    <3>3. q # 0 => q # GetClass(j)
      BY <1>1, <1>4, <1>8, <2>2, <3>1
    <3>4. g.mem[GetClass(j)] = h.mem[GetClass(j)]
      BY <1>2, <1>6, <1>9, <2>2, <3>0, <3>1, <3>2, <3>3
    <3> QED BY <2>2, <3>4 DEF FreeListp
  <2> QED BY <2>1, <2>2
<1>13. T[i] = S[i] \ {x} /\ \A j \in Classes(a) : j # i => T[j] = S[j]
  BY <1>1 DEF Without
<1> HIDE DEF T
<1>14. ListOf(g.mem, FreeListp(a, g, i), e, T[i])
  <2>1. 0 \notin S[i] /\ e \notin S[i]
    BY <1>1, <1>2
  <2>2. \A y \in S[i] \ {x} : g.mem[y] = IF y = h.mem[x + 4] THEN h.mem[x] ELSE h.mem[y]
    BY <1>1, <1>10 DEF p, q
  <2>3. \A y \in S[i] \ {x} : g.mem[y + 4] = IF y = h.mem[x] THEN h.mem[x + 4] ELSE h.mem[y + 4]
    BY <1>1, <1>10 DEF p, q
  <2>4. FreeListp(a, g, i) = IF h.mem[x] = 0 THEN h.mem[x + 4] ELSE FreeListp(a, h, i)
    BY <1>11 DEF p, q
  <2>5. ListOf(g.mem, FreeListp(a, g, i), e, S[i] \ {x})
    BY <1>3, <2>1, <2>2, <2>3, <2>4, ListLoses
  <2> QED BY <1>13, <2>5
<1>15. ASSUME NEW j \in Classes(a), j # i PROVE ListOf(g.mem, FreeListp(a, g, j), e, T[j])
  <2>1. \A y \in S[j] : g.mem[y] = h.mem[y] /\ g.mem[y + 4] = h.mem[y + 4]
    <3>1. S[i] \cap S[j] = {} /\ S[j] \subseteq Nodes(a)
      BY <1>1, <1>15
    <3>2. \A y \in S[j] : y # x /\ y # p /\ y # q
      BY <1>2, <1>4, <3>1
    <3> QED BY <1>10, <3>1, <3>2
  <2>2. ListOf(h.mem, FreeListp(a, h, j), e, S[j])
    BY DEF Lists, e
  <2>3. ListOf(g.mem, FreeListp(a, h, j), e, S[j])
    BY <2>1, <2>2, ListStays
  <2> QED BY <1>12, <1>13, <1>15, <2>3
<1>16. Lists(a, g, T)
  BY <1>14, <1>15 DEF Lists, e
<1>17. Relinked(a, h, g, S, x)
  <2>1. ASSUME NEW w \in Words, g.mem[w] # h.mem[w]
        PROVE  \/ w = x \/ w = x + 4 \/ (8 <= w /\ w < ListsFirst(a) - 8)
               \/ \E y \in S[i] : w = y \/ w = y + 4
    <3>1. w = x \/ w = x + 4 \/ (q # 0 /\ w = q) \/ (p # 0 /\ w = p + 4) \/ (a # "lab2" /\ w = GetClass(i))
      BY <1>6, <2>1
    <3>2. a # "lab2" /\ w = GetClass(i) => 8 <= w /\ w < ListsFirst(a) - 8
      BY <1>9
    <3>3. p # 0 /\ w = p + 4 => \E y \in S[i] : w = y + 4
      BY <1>4
    <3>4. q # 0 /\ w = q => (w \in S[i] \/ w = 8)
      BY <1>4, <1>8
    <3>5. q # 0 /\ w = 8 /\ w = q => 8 <= w /\ w < ListsFirst(a) - 8
      BY <1>8
    <3> QED BY <3>1, <3>2, <3>3, <3>4, <3>5
  <2> QED BY <1>6, <2>1 DEF Relinked
<1> QED BY <1>16, <1>17 DEF T, g

(***************************************************************************)
(* The end of coalesce: a block becomes the head of its list.              *)
(***************************************************************************)
Linked(a, h, g, i, x, head) ==
  /\ g \in Heap /\ g.brk = h.brk
  /\ g.list = IF a = "lab2" THEN x ELSE h.list
  /\ \A w \in Words :
       g.mem[w] = IF a # "lab2" /\ w = GetClass(i) THEN x
                  ELSE IF (a = "lab2" \/ head # 0) /\ w = head THEN x
                  ELSE IF w = x THEN 0
                  ELSE IF w = x + 4 THEN head
                  ELSE h.mem[w]

\* The end of coalesce, word by word.
LEMMA LinkIs ==
  ASSUME NEW a \in Listed, ListsFirst(a) <= MaxHeap, NEW h \in Heap,
         NEW x \in Nodes(a), NEW size, NEW i \in Classes(a), i = GetClassIdx(a, size),
         NEW head, head = FreeListp(a, h, i), head \in Nodes(a) \cup {Stops(a)}, head # x
  PROVE  Linked(a, h, Link(a, h, x, size), i, x, head)
<1>1. x \in Words /\ x + 4 \in Words /\ x \in Nat /\ x >= ListsFirst(a)
  BY NodesAre
<1>2. head \in Nat /\ head # x + 4 /\ (a = "lab2" \/ head # 0 => head \in Words)
  <2>1. CASE head \in Nodes(a)
    BY <2>1, NodesAre
  <2>2. CASE head = Stops(a)
    <3>1. ListsFirst(a) \in Nat /\ 24 <= ListsFirst(a) /\ MaxHeap \in Nat
      BY FirstIs, HeapWordsAssumption DEF Aligned
    <3>2. 8 \in Words
      BY <3>1, AlignedWords DEF Aligned
    <3>3. head = IF a = "lab2" THEN 8 ELSE 0
      BY <2>2 DEF Stops
    <3> QED BY <1>1, <3>1, <3>2, <3>3
  <2> QED BY <2>1, <2>2
<1>3. a # "lab2" => /\ GetClass(i) \in Words /\ GetClass(i) # x /\ GetClass(i) # x + 4
  <2>1. a # "lab2" => GetClass(i) \in Words
    BY ClassWords
  <2>2. a # "lab2" => GetClass(i) \in Nat /\ GetClass(i) < ListsFirst(a) /\ ListsFirst(a) \in Nat
    BY FirstIs DEF Aligned
  <2> QED BY <1>1, <2>1, <2>2
<1> DEFINE ha == Put(h, x + 4, head)
           hb == Put(ha, x, 0)
           hc == IF a = "lab2" \/ head # NULL THEN SetPrev(hb, head, x) ELSE hb
           g == SetFreeListp(a, hc, i, x)
<1>4. g = Link(a, h, x, size)
  <2>1. hb = SetPrev(SetNext(h, x, FreeListp(a, h, i)), x, NULL)
    BY DEF SetPrev, SetNext, WSIZE, NULL
  <2> HIDE DEF hb
  <2> QED BY <2>1, Zenon DEF Link
<1>5. Writes(h, ha, x + 4, head)
  <2>1. head \in Int
    BY <1>2
  <2> QED BY <1>1, <2>1, PutIs
<1> HIDE DEF ha
<1>6. Writes(ha, hb, x, 0)
  <2>1. ha \in Heap
    BY <1>5 DEF Writes
  <2> QED BY <1>1, <2>1, PutIs
<1> HIDE DEF hb
<1>7. /\ hc \in Heap /\ hc.brk = hb.brk /\ hc.list = hb.list
      /\ \A w \in Words : hc.mem[w] = IF (a = "lab2" \/ head # 0) /\ w = head THEN x ELSE hb.mem[w]
  <2>0. hb \in Heap
    BY <1>6 DEF Writes
  <2>1. CASE a = "lab2" \/ head # 0
    <3>1. hc = Put(hb, head, x)
      BY <2>1 DEF SetPrev, NULL
    <3>2. x \in Int
      BY <1>1
    <3>3. Writes(hb, Put(hb, head, x), head, x)
      BY <1>2, <2>0, <2>1, <3>2, PutIs
    <3> QED BY <2>1, <3>1, <3>3 DEF Writes
  <2>2. CASE ~(a = "lab2" \/ head # 0)
    <3>1. hc = hb
      BY <2>2 DEF NULL
    <3> QED BY <2>0, <2>2, <3>1
  <2> QED BY <2>1, <2>2
<1> HIDE DEF hc
<1>8. Heads(a, hc, g, i, x)
  <2>1. x \in Int
    BY <1>1
  <2> QED BY <1>7, <2>1, HeadIs
<1> HIDE DEF g
<1>9. g \in Heap /\ g.brk = h.brk /\ g.list = IF a = "lab2" THEN x ELSE h.list
  BY <1>5, <1>6, <1>7, <1>8 DEF Writes, Heads
<1>10. ASSUME NEW w \in Words
       PROVE g.mem[w] = IF a # "lab2" /\ w = GetClass(i) THEN x
                  ELSE IF (a = "lab2" \/ head # 0) /\ w = head THEN x
                  ELSE IF w = x THEN 0
                  ELSE IF w = x + 4 THEN head
                  ELSE h.mem[w]
  <2>1. g.mem[w] = IF a # "lab2" /\ w = GetClass(i) THEN x ELSE hc.mem[w]
    BY <1>8 DEF Heads
  <2>2. hb.mem[w] = IF w = x THEN 0 ELSE ha.mem[w]
    BY <1>6 DEF Writes
  <2>3. ha.mem[w] = IF w = x + 4 THEN head ELSE h.mem[w]
    BY <1>5 DEF Writes
  <2> QED BY <1>7, <2>1, <2>2, <2>3
<1> QED BY <1>4, <1>9, <1>10 DEF Linked

\* The end of coalesce puts x on the list of its class and changes no other list.
LEMMA LinkGains ==
  ASSUME NEW a \in Listed, ListsFirst(a) <= MaxHeap, NEW h \in Heap, NEW S, Filed(a, S), Lists(a, h, S),
         NEW size, NEW i \in Classes(a), i = GetClassIdx(a, size),
         NEW x \in Nodes(a), \A j \in Classes(a) : x \notin S[j]
  PROVE  /\ Lists(a, Link(a, h, x, size), With(S, i, x))
         /\ Relinked(a, h, Link(a, h, x, size), S, x)
<1> DEFINE head == FreeListp(a, h, i)
           g == Link(a, h, x, size)
           e == Stops(a)
           T == With(S, i, x)
<1>1. /\ \A j \in Classes(a) : S[j] \subseteq Nodes(a)
      /\ \A j \in Classes(a) : j # i => S[i] \cap S[j] = {}
      /\ S \in [Classes(a) -> SUBSET Nodes(a)]
  BY DEF Filed
<1>2. 0 \notin Nodes(a) /\ e \notin Nodes(a)
  BY <1>1, NodesAre
<1>3. ListOf(h.mem, head, e, S[i])
  BY DEF Lists
<1>4. head \in S[i] \cup {e} /\ head # x
  BY <1>2, <1>3 DEF ListOf
<1> HIDE DEF head, g, e
<1>5. Linked(a, h, g, i, x, head)
  <2>1. head \in Nodes(a) \cup {Stops(a)}
    BY <1>1, <1>4 DEF e
  <2> QED BY <1>4, <2>1, LinkIs DEF head, g
<1>6. /\ g \in Heap /\ g.brk = h.brk
      /\ g.list = IF a = "lab2" THEN x ELSE h.list
      /\ \A w \in Words :
           g.mem[w] = IF a # "lab2" /\ w = GetClass(i) THEN x
                  ELSE IF (a = "lab2" \/ head # 0) /\ w = head THEN x
                  ELSE IF w = x THEN 0
                  ELSE IF w = x + 4 THEN head
                  ELSE h.mem[w]
  BY <1>5 DEF Linked
<1>7. \A y \in Nodes(a) : /\ y \in Words /\ y + 4 \in Words /\ y \in Nat /\ y >= ListsFirst(a)
                          /\ \A z \in Nodes(a) : y # z + 4 /\ (y # z => y + 4 # z + 4)
  BY NodesAre
<1>8. ListsFirst(a) \in Nat /\ ListsFirst(a) >= 24 /\ ListsFirst(a) % 8 = 0 /\ (e = 0 \/ e = 8)
      /\ (a # "lab2" => e = 0)
  BY FirstIs DEF Aligned, Stops, e
<1>9. \A j \in Classes(a) : a # "lab2" =>
         /\ GetClass(j) \in Words /\ GetClass(j) \in Nat /\ GetClass(j) < ListsFirst(a) - 8 /\ 8 <= GetClass(j)
         /\ (j # i => GetClass(j) # GetClass(i))
  <2>1. \A j \in Classes(a) : a # "lab2" => GetClass(j) \in Words
    BY ClassWords
  <2>2. \A j \in Classes(a) : j \in Nat /\ (j # i => GetClass(j) # GetClass(i))
    BY FirstIs DEF GetClass, DSIZE, WSIZE
  <2> QED BY <2>1, <2>2, FirstIs
<1>10. \A y \in Nodes(a) :
         /\ g.mem[y] = IF y = head THEN x ELSE IF y = x THEN 0 ELSE h.mem[y]
         /\ g.mem[y + 4] = IF y = x THEN head ELSE h.mem[y + 4]
  <2> SUFFICES ASSUME NEW y \in Nodes(a)
               PROVE  /\ g.mem[y] = IF y = head THEN x ELSE IF y = x THEN 0 ELSE h.mem[y]
                      /\ g.mem[y + 4] = IF y = x THEN head ELSE h.mem[y + 4]
    OBVIOUS
  <2>1. y \in Words /\ y + 4 \in Words /\ y \in Nat /\ y >= ListsFirst(a) /\ y # 0 /\ x \in Nat
        /\ y # x + 4 /\ y + 4 # x /\ (y + 4 = x + 4 <=> y = x)
    BY <1>7, <1>8
  <2>2. a # "lab2" => y # GetClass(i) /\ y + 4 # GetClass(i)
    BY <1>8, <1>9, <2>1
  <2>3. y + 4 # head
    BY <1>1, <1>4, <1>7, <1>8, <2>1
  <2> QED BY <1>6, <2>1, <2>2, <2>3
<1>11. FreeListp(a, g, i) = x
  <2>1. CASE a = "lab2"
    BY <1>6, <2>1 DEF FreeListp
  <2>2. CASE a # "lab2"
    BY <1>6, <1>9, <2>2 DEF FreeListp
  <2> QED BY <2>1, <2>2
<1>12. \A j \in Classes(a) : j # i => FreeListp(a, g, j) = FreeListp(a, h, j)
  <2>1. CASE a = "lab2"
    BY <2>1 DEF Classes
  <2>2. CASE a # "lab2"
    <3>0. SUFFICES ASSUME NEW j \in Classes(a), j # i PROVE FreeListp(a, g, j) = FreeListp(a, h, j)
      OBVIOUS
    <3>1. \A y \in Nodes(a) : y # GetClass(j) /\ y + 4 # GetClass(j)
      BY <1>7, <1>8, <1>9, <2>2
    <3>2. head # 0 => head # GetClass(j)
      BY <1>1, <1>4, <1>8, <2>2, <3>1
    <3>3. g.mem[GetClass(j)] = h.mem[GetClass(j)]
      BY <1>6, <1>9, <2>2, <3>0, <3>1, <3>2
    <3> QED BY <2>2, <3>3 DEF FreeListp
  <2> QED BY <2>1, <2>2
<1>13. T[i] = S[i] \cup {x} /\ \A j \in Classes(a) : j # i => T[j] = S[j]
  BY <1>1 DEF With
<1> HIDE DEF T
<1>14. ListOf(g.mem, FreeListp(a, g, i), e, T[i])
  <2>1. 0 \notin S[i] /\ e \notin S[i] /\ x \notin S[i] /\ x # 0 /\ x # e
    BY <1>1, <1>2
  <2>2. \A y \in S[i] : y \in Nodes(a) /\ y # x
    BY <1>1
  <2>3. \A y \in S[i] : g.mem[y] = IF y = head THEN x ELSE h.mem[y]
    BY <1>10, <2>2
  <2>4. \A y \in S[i] : g.mem[y + 4] = h.mem[y + 4]
    BY <1>10, <2>2
  <2>5. g.mem[x] = 0 /\ g.mem[x + 4] = head
    BY <1>4, <1>10
  <2>6. ListOf(g.mem, x, e, S[i] \cup {x})
    BY <1>3, <2>1, <2>3, <2>4, <2>5, ListGains
  <2> QED BY <1>11, <1>13, <2>6
<1>15. ASSUME NEW j \in Classes(a), j # i PROVE ListOf(g.mem, FreeListp(a, g, j), e, T[j])
  <2>1. \A y \in S[j] : g.mem[y] = h.mem[y] /\ g.mem[y + 4] = h.mem[y + 4]
    <3>1. S[i] \cap S[j] = {} /\ S[j] \subseteq Nodes(a)
      BY <1>1, <1>15
    <3>2. \A y \in S[j] : y # x /\ y # head
      BY <1>2, <1>4, <3>1
    <3> QED BY <1>10, <3>1, <3>2
  <2>2. ListOf(h.mem, FreeListp(a, h, j), e, S[j])
    BY DEF Lists, e
  <2>3. ListOf(g.mem, FreeListp(a, h, j), e, S[j])
    BY <2>1, <2>2, ListStays
  <2> QED BY <1>12, <1>13, <1>15, <2>3
<1>16. Lists(a, g, T)
  BY <1>14, <1>15 DEF Lists, e
<1>17. Relinked(a, h, g, S, x)
  <2>1. ASSUME NEW w \in Words, g.mem[w] # h.mem[w]
        PROVE  \/ w = x \/ w = x + 4 \/ (8 <= w /\ w < ListsFirst(a) - 8)
               \/ \E y \in S[i] : w = y \/ w = y + 4
    <3>1. w = x \/ w = x + 4 \/ ((a = "lab2" \/ head # 0) /\ w = head) \/ (a # "lab2" /\ w = GetClass(i))
      BY <1>6, <2>1
    <3>2. a # "lab2" /\ w = GetClass(i) => 8 <= w /\ w < ListsFirst(a) - 8
      BY <1>9
    <3>3. (a = "lab2" \/ head # 0) /\ w = head => (w \in S[i] \/ w = 8)
      BY <1>4, <1>8 DEF e, Stops
    <3>4. w = 8 => 8 <= w /\ w < ListsFirst(a) - 8
      BY <1>8
    <3> QED BY <3>1, <3>2, <3>3, <3>4
  <2> QED BY <1>6, <2>1 DEF Relinked
<1> QED BY <1>16, <1>17 DEF T, g

(* Classes of sizes. *)
LEMMA ClassIs ==
  ASSUME NEW a \in Listed, NEW n \in Nat, n # 0
  PROVE  /\ GetClassIdx(a, n) \in Classes(a)
         /\ \A m \in Nat : n <= m => GetClassIdx(a, n) <= GetClassIdx(a, m)
<1> DEFINE Room(m) == {i \in Classes(a) : m < 2^(Shift(a) + i + 1)}
<1>1. CASE a = "lab2"
  BY <1>1 DEF GetClassIdx, Classes
<1>2. CASE a # "lab2"
  <2>1. Classes(a) = 0..ClassSize - 1 /\ ClassSize \in Nat /\ ClassSize # 0
    BY <1>2, ClassSizeAssumption DEF Classes
  <2>2. ASSUME NEW m \in Nat, m # 0
        PROVE  /\ GetClassIdx(a, m) \in Classes(a)
               /\ \A i \in Room(m) : GetClassIdx(a, m) <= i
               /\ Room(m) = {} => GetClassIdx(a, m) = ClassSize - 1
               /\ Room(m) # {} => GetClassIdx(a, m) \in Room(m)
    <3>1. GetClassIdx(a, m) = IF Room(m) = {} THEN ClassSize - 1
                              ELSE CHOOSE i \in Room(m) : \A j \in Room(m) : i <= j
      BY <1>2, <2>2 DEF GetClassIdx
    <3>2. Room(m) \in SUBSET Nat /\ Room(m) \subseteq Classes(a)
      BY <2>1
    <3> HIDE DEF Room
    <3>3. CASE Room(m) = {}
      BY <2>1, <3>1, <3>3
    <3>4. CASE Room(m) # {}
      <4>1. \E i \in Room(m) : \A j \in Room(m) : i <= j
        BY <3>2, <3>4, LeastMember
      <4> QED BY <3>1, <3>2, <3>4, <4>1
    <3> QED BY <3>3, <3>4
  <2>3. ASSUME NEW m \in Nat, n <= m PROVE GetClassIdx(a, n) <= GetClassIdx(a, m)
    <3>1. m # 0
      BY <2>3
    <3>2. Room(m) \subseteq Room(n)
      <4>1. \A i \in Classes(a) : 2^(Shift(a) + i + 1) \in Int
        <5>1. ASSUME NEW k \in Nat PROVE 2^k \in Int
          OBVIOUS
        <5>2. \A i \in Classes(a) : Shift(a) + i + 1 \in Nat
          BY <2>1 DEF Shift
        <5> QED BY <5>1, <5>2
      <4>2. ASSUME NEW i \in Classes(a), m < 2^(Shift(a) + i + 1) PROVE n < 2^(Shift(a) + i + 1)
        <5> DEFINE v == 2^(Shift(a) + i + 1)
        <5>1. v \in Int /\ m < v
          BY <4>1, <4>2
        <5> HIDE DEF v
        <5>2. n < v
          BY <2>3, <5>1
        <5> QED BY <5>2 DEF v
      <4> QED BY <4>2
    <3> HIDE DEF Room
    <3>3. GetClassIdx(a, n) \in Classes(a) /\ \A i \in Room(n) : GetClassIdx(a, n) <= i
      BY <2>2
    <3>4. \/ GetClassIdx(a, m) = ClassSize - 1
          \/ GetClassIdx(a, m) \in Room(m)
      BY <2>2, <3>1
    <3>5. GetClassIdx(a, n) <= ClassSize - 1
      BY <2>1, <3>3
    <3> QED BY <3>2, <3>3, <3>4, <3>5
  <2> QED BY <2>2, <2>3
<1> QED BY <1>1, <1>2

(***************************************************************************)
(* Which block is on which list.                                           *)
(***************************************************************************)
OfClass(a, bs, i) == {b.at : b \in {c \in bs : ~c.used /\ GetClassIdx(a, c.size) = i}}
Files(a, bs) == [i \in Classes(a) |-> OfClass(a, bs, i)]

\* Who is filed under a class.
LEMMA FilesAre ==
  ASSUME NEW a, NEW bs, NEW i \in Classes(a), NEW x
  PROVE  x \in Files(a, bs)[i] <=> \E c \in bs : ~c.used /\ GetClassIdx(a, c.size) = i /\ c.at = x
  BY DEF Files, OfClass

\* Files are equal when every class has the same blocks.
LEMMA SameFiles ==
  ASSUME NEW a, NEW S, DOMAIN S = Classes(a), S = [i \in Classes(a) |-> S[i]], NEW bs,
         \A i \in Classes(a) : S[i] = OfClass(a, bs, i)
  PROVE  S = Files(a, bs)
  BY DEF Files

\* The free blocks of a row can be filed: no block is on two lists.
LEMMA FilesFiled ==
  ASSUME NEW a \in Listed, NEW h, NEW bs, Row(h, ListsFirst(a), bs), NEW cs \in SUBSET bs
  PROVE  Filed(a, Files(a, cs))
<1>1. /\ \A b \in bs : Fine(b) /\ ListsFirst(a) <= b.at /\ Stop(b) <= h.brk
      /\ \A b, c \in bs : b = c \/ Apart(b, c)
      /\ h.brk \in Nat /\ h.brk <= MaxHeap /\ MaxHeap \in Nat
  BY HeapWordsAssumption DEF Row, Tiles, Fitted, Aligned
<1>2. \A b \in bs : b.at \in Nat /\ Aligned(b.at) /\ Stop(b) \in Nat /\ b.at + 16 <= Stop(b)
  BY <1>1 DEF Fine, Stop
<1>3. \A b \in bs : b.at \in Nodes(a)
  BY <1>1, <1>2 DEF Nodes
<1>4. \A b, c \in bs : b.at = c.at => b = c
  BY <1>1, <1>2 DEF Apart
<1>5. \A i \in Classes(a) : OfClass(a, cs, i) \subseteq Nodes(a)
  BY <1>3 DEF OfClass
<1>6. \A i, j \in Classes(a) : i # j => OfClass(a, cs, i) \cap OfClass(a, cs, j) = {}
  BY <1>4 DEF OfClass
<1> QED BY <1>5, <1>6 DEF Filed, Files

\* Who takes a free block off the list of its class files the others.
LEMMA FilesLose ==
  ASSUME NEW a \in Listed, NEW h, NEW bs, Row(h, ListsFirst(a), bs), NEW cs \in SUBSET bs, NEW c \in cs, ~c.used
  PROVE  /\ GetClassIdx(a, c.size) \in Classes(a) /\ c.at \in Files(a, cs)[GetClassIdx(a, c.size)]
         /\ Without(Files(a, cs), GetClassIdx(a, c.size), c.at) = Files(a, cs \ {c})
<1> DEFINE i == GetClassIdx(a, c.size)
           S == Files(a, cs)
           T == Without(S, i, c.at)
<1>1. /\ \A b \in bs : Fine(b)
      /\ \A b, d \in bs : b = d \/ Apart(b, d)
  BY DEF Row, Tiles
<1>2. \A b \in bs : b.at \in Nat /\ Stop(b) \in Nat /\ b.at + 16 <= Stop(b) /\ b.size \in Nat /\ b.size # 0
  BY <1>1 DEF Fine, Stop
<1>3. \A b, d \in bs : b.at = d.at => b = d
  BY <1>1, <1>2 DEF Apart
<1>4. i \in Classes(a)
  BY <1>2, ClassIs
<1>5. \A j \in Classes(a) : S[j] = OfClass(a, cs, j)
  BY DEF Files
<1>6. \A j \in Classes(a) : T[j] = IF j = i THEN S[i] \ {c.at} ELSE S[j]
  BY DEF Without, Files
<1>7. DOMAIN T = Classes(a) /\ T = [j \in Classes(a) |-> T[j]]
  BY DEF Without, Files
<1> HIDE DEF T, S, i
<1>8. OfClass(a, cs, i) \ {c.at} = OfClass(a, cs \ {c}, i)
  BY <1>3 DEF OfClass
<1>9. \A j \in Classes(a) : j # i => OfClass(a, cs, j) = OfClass(a, cs \ {c}, j)
  BY DEF OfClass, i
<1>10. \A j \in Classes(a) : T[j] = OfClass(a, cs \ {c}, j)
  BY <1>4, <1>5, <1>6, <1>8, <1>9
<1>11. T = Files(a, cs \ {c})
  BY <1>7, <1>10, SameFiles
<1>12. c.at \in S[i]
  BY <1>4, <1>5 DEF OfClass, i
<1> QED BY <1>4, <1>11, <1>12 DEF T, S, i

\* Who puts a free block on the list of its class files it, too.
LEMMA FilesGain ==
  ASSUME NEW a, NEW cs, NEW c, ~c.used, GetClassIdx(a, c.size) \in Classes(a)
  PROVE  With(Files(a, cs), GetClassIdx(a, c.size), c.at) = Files(a, cs \cup {c})
<1> DEFINE i == GetClassIdx(a, c.size)
           S == Files(a, cs)
           T == With(S, i, c.at)
<1>5. \A j \in Classes(a) : S[j] = OfClass(a, cs, j)
  BY DEF Files
<1>6. \A j \in Classes(a) : T[j] = IF j = i THEN S[i] \cup {c.at} ELSE S[j]
  BY DEF With, Files
<1>7. DOMAIN T = Classes(a) /\ T = [j \in Classes(a) |-> T[j]]
  BY DEF With, Files
<1> HIDE DEF T, S
<1>8. OfClass(a, cs, i) \cup {c.at} = OfClass(a, cs \cup {c}, i)
  BY DEF OfClass
<1>9. \A j \in Classes(a) : j # i => OfClass(a, cs, j) = OfClass(a, cs \cup {c}, j)
  BY DEF OfClass
<1> HIDE DEF i
<1>10. \A j \in Classes(a) : T[j] = OfClass(a, cs \cup {c}, j)
  <2>1. i \in Classes(a)
    BY DEF i
  <2> QED BY <2>1, <1>5, <1>6, <1>8, <1>9
<1>11. T = Files(a, cs \cup {c})
  BY <1>7, <1>10, SameFiles
<1> QED BY <1>11 DEF T, S, i

\* A used block is on no list.
LEMMA FilesUsed ==
  ASSUME NEW a, NEW cs, NEW c, c.used
  PROVE  Files(a, cs \cup {c}) = Files(a, cs)
<1>1. \A j \in Classes(a) : OfClass(a, cs, j) = OfClass(a, cs \cup {c}, j)
  BY DEF OfClass
<1> QED BY <1>1 DEF Files

(***************************************************************************)
(* The payloads of the used blocks are spared.                             *)
(***************************************************************************)
Spared(h, g, bs) ==
  \A b \in bs : b.used =>
    \A w \in Words : b.at <= w /\ w < Stop(b) - 8 => g.mem[w] = h.mem[w]

\* Links are no payload of a used block.
LEMMA LinksSpare ==
  ASSUME NEW h, NEW f, NEW bs, Row(h, f, bs), NEW g, LinksOnly(h, g, f, bs)
  PROVE  Spared(h, g, bs)
<1>1. /\ \A b \in bs : Fine(b) /\ f <= b.at
      /\ \A b, c \in bs : b = c \/ Apart(b, c)
      /\ f \in Nat
  BY DEF Row, Tiles, Fitted, Aligned
<1>2. \A b \in bs : b.at \in Nat /\ Stop(b) \in Nat /\ b.at + 16 <= Stop(b) /\ b.at % 8 = 0
  BY <1>1 DEF Fine, Stop, Aligned
<1>3. ASSUME NEW b \in bs, b.used, NEW w \in Words, b.at <= w, w < Stop(b) - 8
      PROVE  ~IsLink(w, f, bs)
  <2>1. w \in Nat /\ w % 4 = 0
    BY WordsAre
  <2>2. ~(w < f - 8)
    BY <1>1, <1>2, <1>3, <2>1
  <2>3. ASSUME NEW c \in bs, ~c.used PROVE w # c.at /\ w # c.at + 4
    <3>1. Apart(b, c)
      BY <1>1, <1>3, <2>3
    <3> QED BY <1>2, <1>3, <2>1, <3>1 DEF Apart
  <2> QED BY <2>2, <2>3 DEF IsLink
<1> QED BY <1>3 DEF Spared, LinksOnly

\* Who writes links, and links again, writes links only.
LEMMA LinksCompose ==
  ASSUME NEW h, NEW g, NEW k, NEW f, NEW bs, LinksOnly(h, g, f, bs), LinksOnly(g, k, f, bs)
  PROVE  LinksOnly(h, k, f, bs)
  BY DEF LinksOnly

\* What delete_block and the end of coalesce write are links of free blocks.
LEMMA RelinkedIs ==
  ASSUME NEW a \in Listed, NEW h, NEW bs, NEW cs \in SUBSET bs, NEW g, NEW x,
         Relinked(a, h, g, Files(a, cs), x), \E b \in bs : ~b.used /\ b.at = x
  PROVE  LinksOnly(h, g, ListsFirst(a), bs)
<1>1. \A i \in Classes(a) : \A y \in Files(a, cs)[i] : \E b \in bs : ~b.used /\ b.at = y
  BY DEF Files, OfClass
<1> QED BY <1>1 DEF Relinked, LinksOnly, IsLink

\* The heap of a row.
LEMMA HeapFits ==
  ASSUME NEW h, NEW f, NEW bs, Row(h, f, bs)
  PROVE  f <= MaxHeap /\ h \in Heap
  BY HeapWordsAssumption DEF Row, Fitted, Aligned

\* delete_block of a block that is on its list.
Dropped(a, h, g, bs, cs) ==
  Row(g, ListsFirst(a), bs) /\ Lists(a, g, Files(a, cs)) /\ LinksOnly(h, g, ListsFirst(a), bs)

\* delete_block keeps the row and files the other blocks.
LEMMA DeleteStep ==
  ASSUME NEW a \in Listed, NEW h, NEW bs, Row(h, ListsFirst(a), bs), NEW cs \in SUBSET bs,
         Lists(a, h, Files(a, cs)), NEW c \in cs, ~c.used
  PROVE  Dropped(a, h, DeleteBlock(a, h, c.at), bs, cs \ {c})
<1> DEFINE S == Files(a, cs)
           i == GetClassIdx(a, c.size)
           g == DeleteBlock(a, h, c.at)
<1>1. ListsFirst(a) <= MaxHeap /\ h \in Heap
  BY HeapFits
<1>2. Filed(a, S)
  BY FilesFiled
<1>3. i \in Classes(a) /\ c.at \in S[i] /\ Without(S, i, c.at) = Files(a, cs \ {c})
  BY FilesLose
<1>4. i = GetClassIdx(a, BlockSize(h, c.at))
  BY Reads
<1>5. Lists(a, g, Without(S, i, c.at)) /\ Relinked(a, h, g, S, c.at)
  <2> HIDE DEF S, i
  <2>1. Lists(a, h, S)
    BY DEF S
  <2> QED BY <1>1, <1>2, <1>3, <1>4, <2>1, Deletes
<1>6. LinksOnly(h, g, ListsFirst(a), bs)
  <2>1. \E b \in bs : ~b.used /\ b.at = c.at
    OBVIOUS
  <2>2. Relinked(a, h, g, Files(a, cs), c.at)
    BY <1>5
  <2> HIDE DEF g
  <2> QED BY <2>1, <2>2, RelinkedIs
<1>7. Row(g, ListsFirst(a), bs)
  BY <1>6, LinksKeepRow
<1> QED BY <1>3, <1>5, <1>6, <1>7 DEF Dropped

\* The end of coalesce, for the block w that is to be.
LEMMA LinkStep ==
  ASSUME NEW a \in Listed, NEW h, NEW bs, Row(h, ListsFirst(a), bs), NEW cs \in SUBSET bs,
         Lists(a, h, Files(a, cs)), NEW w, ~w.used, w.size \in Nat, w.size # 0,
         \E b \in bs : ~b.used /\ b.at = w.at, \A c \in cs : c.at # w.at
  PROVE  Dropped(a, h, Link(a, h, w.at, w.size), bs, cs \cup {w})
<1> DEFINE S == Files(a, cs)
           i == GetClassIdx(a, w.size)
           g == Link(a, h, w.at, w.size)
<1>1. ListsFirst(a) <= MaxHeap /\ h \in Heap
  BY HeapFits
<1>2. Filed(a, S)
  BY FilesFiled
<1>3. i \in Classes(a) /\ With(S, i, w.at) = Files(a, cs \cup {w})
  BY ClassIs, FilesGain
<1>4. w.at \in Nodes(a)
  <2>1. \A b \in bs : b.at \in Nodes(a)
    <3>1. \A b \in bs : Fine(b) /\ ListsFirst(a) <= b.at /\ Stop(b) <= h.brk
      BY DEF Row, Tiles
    <3>2. h.brk \in Nat /\ h.brk <= MaxHeap /\ MaxHeap \in Nat
      BY HeapWordsAssumption DEF Row, Fitted, Aligned
    <3> QED BY <3>1, <3>2 DEF Nodes, Fine, Stop, Aligned
  <2> QED BY <2>1
<1>5. \A j \in Classes(a) : w.at \notin S[j]
  BY DEF Files, OfClass
<1>6. Lists(a, g, With(S, i, w.at)) /\ Relinked(a, h, g, S, w.at)
  <2> HIDE DEF S
  <2>1. Lists(a, h, S)
    BY DEF S
  <2> QED BY <1>1, <1>2, <1>3, <1>4, <1>5, <2>1, LinkGains
<1>7. LinksOnly(h, g, ListsFirst(a), bs)
  <2>1. Relinked(a, h, g, Files(a, cs), w.at)
    BY <1>6
  <2> HIDE DEF g
  <2> QED BY <2>1, RelinkedIs
<1>8. Row(g, ListsFirst(a), bs)
  BY <1>7, LinksKeepRow
<1> QED BY <1>3, <1>6, <1>7, <1>8 DEF Dropped

\* Headers and footers are not links.
LEMMA TagsKeepLists ==
  ASSUME NEW a \in Listed, NEW h, NEW g, NEW bs, Row(g, ListsFirst(a), bs), NEW cs \in SUBSET bs,
         g.list = h.list,
         \A w \in Words : \/ g.mem[w] = h.mem[w] \/ w = g.brk - 4
                          \/ \E b \in bs : w = b.at - 4 \/ w = Stop(b) - 8,
         Lists(a, h, Files(a, cs))
  PROVE  Lists(a, g, Files(a, cs))
<1>1. \A w \in Words : IsLink(w, ListsFirst(a), bs) => g.mem[w] = h.mem[w]
  BY TagsAreNoLinks
<1>2. ListsFirst(a) <= MaxHeap
  BY HeapFits
<1>3. \A i \in Classes(a) : FreeListp(a, g, i) = FreeListp(a, h, i)
  <2>1. CASE a = "lab2"
    BY <2>1 DEF FreeListp
  <2>2. CASE a # "lab2"
    <3>1. ASSUME NEW i \in Classes(a) PROVE g.mem[GetClass(i)] = h.mem[GetClass(i)]
      <4>1. GetClass(i) \in Words
        BY <1>2, <2>2, ClassWords
      <4>2. 8 <= GetClass(i) /\ GetClass(i) < ListsFirst(a) - 8
        BY <2>2, FirstIs
      <4> QED BY <1>1, <4>1, <4>2 DEF IsLink
    <3> QED BY <2>2, <3>1 DEF FreeListp
  <2> QED BY <2>1, <2>2
<1>4. ASSUME NEW i \in Classes(a)
      PROVE  \A y \in Files(a, cs)[i] : g.mem[y] = h.mem[y] /\ g.mem[y + 4] = h.mem[y + 4]
  <2>1. ASSUME NEW b \in bs, ~b.used PROVE g.mem[b.at] = h.mem[b.at] /\ g.mem[b.at + 4] = h.mem[b.at + 4]
    <3>1. b.at \in Words /\ b.at + 4 \in Words
      BY RowWords
    <3>2. IsLink(b.at, ListsFirst(a), bs) /\ IsLink(b.at + 4, ListsFirst(a), bs)
      BY <2>1 DEF IsLink
    <3> QED BY <1>1, <3>1, <3>2
  <2> QED BY <2>1 DEF Files, OfClass
<1> HIDE DEF Lists
<1>5. \A i \in Classes(a) : ListOf(g.mem, FreeListp(a, g, i), Stops(a), Files(a, cs)[i])
  BY <1>3, <1>4, ListStays DEF Lists
<1> QED BY <1>5 DEF Lists

\* Two writers that spare the payloads spare them together.
LEMMA SparedCompose ==
  ASSUME NEW h, NEW g, NEW k, NEW bs, Spared(h, g, bs), Spared(g, k, bs)
  PROVE  Spared(h, k, bs)
  BY DEF Spared

\* What coalesce leaves.
Merged(h, g, f, bs, b) == Row(g, f, Melted(h, bs, b)) /\ Spared(h, g, bs) /\ g.brk = h.brk

\* The header and the footer of the whole.
LEMMA WholeTagged ==
  ASSUME NEW h, NEW f, NEW bs, Row(h, f, bs), NEW b \in bs, ~b.used,
         NEW k, Row(k, f, bs), LinksOnly(h, k, f, bs)
  PROVE  /\ Merged(h, Tag(k, CodeStart(h, b.at), CodeSize(h, b.at), 0), f, bs, b)
         /\ Tags(k, Tag(k, CodeStart(h, b.at), CodeSize(h, b.at), 0),
                 CodeStart(h, b.at), CodeSize(h, b.at), CodeSize(h, b.at))
<1> DEFINE x == CodeStart(h, b.at)
           n == CodeSize(h, b.at)
           g == Tag(k, x, n, 0)
           w == Whole(h, b)
           old == {b} \cup LeftOf(bs, b) \cup RightOf(bs, b)
<1>1. w.at = x /\ w.size = n /\ w.used = FALSE
  BY DEF Whole
<1>2. Fine(w) /\ f <= x /\ Stop(w) <= h.brk /\ Clear(bs \ old, x, Stop(w))
  BY WholeIs
<1>3. k \in Heap /\ k.brk = h.brk /\ h.brk \in Nat /\ h.brk <= MaxHeap /\ MaxHeap \in Nat /\ f \in Nat /\ f >= 16
  BY HeapWordsAssumption DEF Row, Fitted, LinksOnly, Aligned
<1> HIDE DEF x, n, w
<1>4. Aligned(x) /\ 0 < x /\ Aligned(n) /\ n >= 16 /\ Stop(w) = x + n /\ x + n <= MaxHeap /\ x \in Nat /\ n \in Nat
  BY <1>1, <1>2, <1>3 DEF Fine, Stop, Aligned
<1>5. Tags(k, g, x, n, n)
  <2>1. Tags(k, g, x, n, n + 0)
    BY <1>3, <1>4, TagIs
  <2>2. n + 0 = n
    BY <1>4
  <2> QED BY <2>1, <2>2
<1> HIDE DEF g
<1>6. Row(g, f, Melted(h, bs, b))
  BY <1>3, <1>5, RowMelts DEF x, n
<1>7. g.brk = h.brk
  BY <1>3, <1>5 DEF Tags
<1>8. Spared(k, g, bs)
  <2>1. /\ \A c \in bs : Fine(c)
        /\ \A w1 \in Words : w1 \in Nat
    BY WordsAre DEF Row, Tiles
  <2>2. ASSUME NEW c \in bs, c.used, NEW p \in Words, c.at <= p, p < Stop(c) - 8
        PROVE  p # x - 4 /\ p # x + n - 8
    <3>1. c \in bs \ old
      BY <2>2 DEF LeftOf, RightOf
    <3>2. Stop(c) <= x \/ x + n <= c.at
      BY <1>2, <1>4, <3>1 DEF Clear
    <3>3. c.at \in Nat /\ Stop(c) \in Nat
      BY <2>1 DEF Fine, Stop
    <3> QED BY <1>4, <2>1, <2>2, <3>2, <3>3
  <2> QED BY <1>5, <2>2 DEF Spared, Tags
<1>9. Spared(h, g, bs)
  BY <1>8, LinksSpare, SparedCompose
<1> QED BY <1>5, <1>6, <1>7, <1>9 DEF Merged, x, n, g

\* coalesce of mm.c, lab3 and lab2: all the four cases merge b with its free neighbours and file the result.
LEMMA ListsCoalesceIs ==
  ASSUME NEW a \in Listed, NEW h, NEW bs, Row(h, ListsFirst(a), bs), NEW b \in bs, ~b.used,
         Lists(a, h, Files(a, bs \ {b}))
  PROVE  /\ Merged(h, ListsCoalesce(a, h, b.at).heap, ListsFirst(a), bs, b)
         /\ Lists(a, ListsCoalesce(a, h, b.at).heap, Files(a, Melted(h, bs, b)))
         /\ ListsCoalesce(a, h, b.at).bp = CodeStart(h, b.at)
<1> DEFINE f == ListsFirst(a)
           l == LeftOf(bs, b)
           r == RightOf(bs, b)
           w == Whole(h, b)
           old == {b} \cup l \cup r
           x == CodeStart(h, b.at)
           n == CodeSize(h, b.at)
           prev == PrevBp(h, b.at)
           next == NextBp(h, b.at)
           h1 == IF IsAlloc(h, next) THEN h ELSE DeleteBlock(a, h, next)
           h2 == IF IsAlloc(h, prev) THEN h1 ELSE DeleteBlock(a, h1, prev)
           h3 == Link(a, h2, x, n)
           g == Tag(h3, x, n, 0)
<1>1. ListsCoalesce(a, h, b.at) = [heap |-> g, bp |-> x]
  BY Zenon DEF ListsCoalesce, CodeStart, CodeSize
<1>2. LeftSeen(h, bs, b, l) /\ RightSeen(h, bs, b, r)
  BY Neighbours
<1>3. \A c \in bs : c.at \in Nat /\ Stop(c) \in Nat /\ c.at + 16 <= Stop(c)
  BY DEF Row, Tiles, Fine, Stop
<1>4. w.at = x /\ w.size = n /\ w.used = FALSE
  BY DEF Whole
<1>5. Fine(w) /\ Clear(bs \ old, x, Stop(w)) /\ Melted(h, bs, b) = (bs \ old) \cup {w}
  BY WholeIs DEF Melted
<1>6. Lists(a, h, Files(a, bs \ {b})) /\ Row(h, f, bs) /\ LinksOnly(h, h, f, bs)
  <2>1. h \in Heap
    BY HeapFits
  <2> QED BY <2>1 DEF LinksOnly
<1>7. \/ l = {} /\ IsAlloc(h, prev) /\ x = b.at
      \/ \E c \in bs : l = {c} /\ c # b /\ ~c.used /\ Stop(c) = b.at /\ prev = c.at /\ ~IsAlloc(h, prev) /\ x = c.at
  BY <1>2 DEF LeftSeen, CodeStart
<1>8. \/ r = {} /\ IsAlloc(h, next)
      \/ \E c \in bs : r = {c} /\ c # b /\ ~c.used /\ c.at = Stop(b) /\ next = c.at /\ ~IsAlloc(h, next)
  BY <1>2 DEF RightSeen
<1> HIDE DEF w, l, r, x, n, prev, next, f
<1>9. Dropped(a, h, h1, bs, bs \ ({b} \cup r))
  <2>1. CASE r = {} /\ IsAlloc(h, next)
    <3>1. h1 = h /\ bs \ ({b} \cup r) = bs \ {b}
      BY <2>1
    <3> QED BY <1>6, <3>1 DEF Dropped, f
  <2>2. ASSUME NEW c \in bs, r = {c}, c # b, ~c.used, next = c.at, ~IsAlloc(h, next)
        PROVE  Dropped(a, h, h1, bs, bs \ ({b} \cup r))
    <3>1. h1 = DeleteBlock(a, h, c.at) /\ bs \ ({b} \cup r) = (bs \ {b}) \ {c} /\ c \in bs \ {b} /\ (bs \ {b}) \in SUBSET bs
      BY <2>2
    <3> HIDE DEF h1
    <3>2. Dropped(a, h, DeleteBlock(a, h, c.at), bs, (bs \ {b}) \ {c})
      BY <2>2, <3>1, DeleteStep
    <3> QED BY <3>1, <3>2
  <2> QED BY <1>8, <2>1, <2>2
<1> HIDE DEF h1
<1>10. Row(h1, f, bs) /\ Lists(a, h1, Files(a, bs \ ({b} \cup r))) /\ LinksOnly(h, h1, f, bs)
  BY <1>9 DEF Dropped, f
<1>11. Dropped(a, h1, h2, bs, bs \ old)
  <2>1. CASE l = {} /\ IsAlloc(h, prev)
    <3>1. h2 = h1 /\ bs \ ({b} \cup r) = bs \ old
      BY <2>1
    <3>2. LinksOnly(h1, h1, f, bs)
      BY <1>10 DEF LinksOnly
    <3> QED BY <1>10, <3>1, <3>2 DEF Dropped, f
  <2>2. ASSUME NEW c \in bs, l = {c}, c # b, ~c.used, Stop(c) = b.at, prev = c.at, ~IsAlloc(h, prev)
        PROVE  Dropped(a, h1, h2, bs, bs \ old)
    <3>1. c \notin r
      BY <1>3, <1>8, <2>2
    <3>2. h2 = DeleteBlock(a, h1, c.at) /\ bs \ old = (bs \ ({b} \cup r)) \ {c} /\ c \in bs \ ({b} \cup r)
          /\ (bs \ ({b} \cup r)) \in SUBSET bs
      BY <2>2, <3>1
    <3> HIDE DEF h2, old
    <3>3. Dropped(a, h1, DeleteBlock(a, h1, c.at), bs, (bs \ ({b} \cup r)) \ {c})
      BY <1>10, <2>2, <3>2, DeleteStep DEF f
    <3> QED BY <3>2, <3>3
  <2> QED BY <1>7, <2>1, <2>2
<1> HIDE DEF h2
<1>12. Row(h2, f, bs) /\ Lists(a, h2, Files(a, bs \ old)) /\ LinksOnly(h1, h2, f, bs)
  BY <1>11 DEF Dropped, f
<1>13. Dropped(a, h2, h3, bs, (bs \ old) \cup {w})
  <2>1. \E c \in bs : ~c.used /\ c.at = w.at
    BY <1>4, <1>7
  <2>2. w.size \in Nat /\ w.size # 0 /\ ~w.used /\ w.at \in Nat /\ w.at < Stop(w) /\ Stop(w) \in Nat
    BY <1>4, <1>5 DEF Fine, Stop
  <2>3. \A c \in bs \ old : c.at # w.at
    <3>1. \A c \in bs \ old : Stop(c) <= w.at \/ Stop(w) <= c.at
      BY <1>4, <1>5 DEF Clear
    <3> QED BY <1>3, <2>2, <3>1
  <2>4. (bs \ old) \in SUBSET bs
    OBVIOUS
  <2>5. h3 = Link(a, h2, w.at, w.size)
    BY <1>4
  <2> HIDE DEF old, h3
  <2>6. Dropped(a, h2, Link(a, h2, w.at, w.size), bs, (bs \ old) \cup {w})
    BY <1>12, <2>1, <2>2, <2>3, <2>4, LinkStep DEF f
  <2> QED BY <2>5, <2>6
<1> HIDE DEF h3
<1>14. Row(h3, f, bs) /\ Lists(a, h3, Files(a, (bs \ old) \cup {w})) /\ LinksOnly(h2, h3, f, bs)
  BY <1>13 DEF Dropped, f
<1>15. LinksOnly(h, h3, f, bs)
  BY <1>10, <1>12, <1>14, LinksCompose
<1>16. Merged(h, g, f, bs, b) /\ Tags(h3, g, x, n, n)
  BY <1>6, <1>14, <1>15, WholeTagged DEF x, n
<1> HIDE DEF g, old
<1>17. Lists(a, g, Files(a, Melted(h, bs, b)))
  <2> DEFINE ms == Melted(h, bs, b)
  <2>1. Row(g, ListsFirst(a), ms)
    BY <1>16 DEF Merged, f
  <2>2. Lists(a, h3, Files(a, ms))
    BY <1>5, <1>14
  <2>3. w \in ms
    BY <1>5
  <2> HIDE DEF ms
  <2>7. w.at - 4 = x - 4 /\ Stop(w) - 8 = x + n - 8
    <3>1. Stop(w) = x + n /\ w.at = x /\ x \in Nat /\ n \in Nat
      BY <1>4, <1>5 DEF Stop, Fine
    <3> QED BY <3>1
  <2>4. \A p \in Words : g.mem[p] = h3.mem[p] \/ \E c \in ms : p = c.at - 4 \/ p = Stop(c) - 8
    BY <1>16, <2>3, <2>7 DEF Tags
  <2>5. g.list = h3.list /\ ms \in SUBSET ms
    BY <1>16 DEF Tags
  <2>6. Lists(a, g, Files(a, ms))
    BY <2>1, <2>2, <2>4, <2>5, TagsKeepLists
  <2> QED BY <2>6 DEF ms
<1> QED BY <1>1, <1>16, <1>17 DEF x, f

Kinds == Listed \cup {"lab1"}
Sound(a, h, bs) == Row(h, FirstBlock(a), bs) /\ (a \in Listed => Lists(a, h, Files(a, bs)))
Loose(a, h, bs, b) ==
  /\ Row(h, FirstBlock(a), bs) /\ b \in bs /\ ~b.used
  /\ a \in Listed => Lists(a, h, Files(a, bs \ {b}))
Coalesced(a, h, bs, b, r) ==
  /\ Sound(a, r.heap, Melted(h, bs, b)) /\ Spared(h, r.heap, bs) /\ r.heap.brk = h.brk
  /\ r.bp = CodeStart(h, b.at)

\* coalesce of lab1: all the four cases merge b with its free neighbours.
LEMMA ImplicitCoalesceIs ==
  ASSUME NEW h, NEW f, NEW bs, Row(h, f, bs), NEW b \in bs, ~b.used
  PROVE  /\ Merged(h, ImplicitCoalesce(h, b.at).heap, f, bs, b)
         /\ ImplicitCoalesce(h, b.at).bp = CodeStart(h, b.at)
<1> DEFINE w == Whole(h, b)
           old == {b} \cup LeftOf(bs, b) \cup RightOf(bs, b)
           prev == PrevBp(h, b.at)
           next == NextBp(h, b.at)
           g == Tag(h, CodeStart(h, b.at), CodeSize(h, b.at), 0)
<1>1. ImplicitCoalesce(h, b.at) = IF IsAlloc(h, prev) /\ IsAlloc(h, next) THEN [heap |-> h, bp |-> b.at]
                                  ELSE [heap |-> g, bp |-> CodeStart(h, b.at)]
  BY Zenon DEF ImplicitCoalesce, CodeStart, CodeSize
<1>2. Merged(h, g, f, bs, b)
  <2>1. LinksOnly(h, h, f, bs)
    <3>1. h \in Heap
      BY HeapFits
    <3> QED BY <3>1 DEF LinksOnly
  <2> QED BY <2>1, WholeTagged
<1>3. CASE IsAlloc(h, prev) /\ IsAlloc(h, next)
  <2>1. LeftOf(bs, b) = {} /\ RightOf(bs, b) = {}
    <3>1. LeftSeen(h, bs, b, LeftOf(bs, b)) /\ RightSeen(h, bs, b, RightOf(bs, b))
      BY Neighbours
    <3> QED BY <1>3, <3>1 DEF LeftSeen, RightSeen
  <2>2. Fine(b)
    BY DEF Row, Tiles
  <2>3. BlockSize(h, b.at) = b.size
    BY Reads
  <2>4. w = b
    <3>1. CodeStart(h, b.at) = b.at /\ CodeSize(h, b.at) = b.size
      BY <1>3, <2>2, <2>3 DEF CodeStart, CodeSize, Fine
    <3> QED BY <2>2, <3>1 DEF Whole, Fine
  <2>5. Melted(h, bs, b) = bs
    BY <2>1, <2>4 DEF Melted
  <2>6. Spared(h, h, bs)
    BY DEF Spared
  <2>7. CodeStart(h, b.at) = b.at
    BY <1>3 DEF CodeStart
  <2> QED BY <1>1, <1>3, <2>5, <2>6, <2>7 DEF Merged
<1>4. CASE ~(IsAlloc(h, prev) /\ IsAlloc(h, next))
  <2> HIDE DEF g
  <2> QED BY <1>1, <1>2, <1>4
<1> QED BY <1>3, <1>4

\* coalesce, whichever allocator is linked.
LEMMA CoalesceIs ==
  ASSUME NEW a \in Kinds, NEW h, NEW bs, NEW b, Loose(a, h, bs, b)
  PROVE  Coalesced(a, h, bs, b, Coalesce(a, h, b.at))
<1>1. Row(h, FirstBlock(a), bs) /\ b \in bs /\ ~b.used
  BY DEF Loose
<1>2. CASE a \in Listed
  <2>1. FirstBlock(a) = ListsFirst(a) /\ Coalesce(a, h, b.at) = ListsCoalesce(a, h, b.at)
    BY <1>2 DEF FirstBlock, Coalesce
  <2>2. Lists(a, h, Files(a, bs \ {b}))
    BY <1>2 DEF Loose
  <2>3. /\ Merged(h, ListsCoalesce(a, h, b.at).heap, ListsFirst(a), bs, b)
        /\ Lists(a, ListsCoalesce(a, h, b.at).heap, Files(a, Melted(h, bs, b)))
        /\ ListsCoalesce(a, h, b.at).bp = CodeStart(h, b.at)
    BY <1>1, <1>2, <2>1, <2>2, ListsCoalesceIs
  <2> QED BY <2>1, <2>3 DEF Coalesced, Sound, Merged
<1>3. CASE a \notin Listed
  <2>1. Coalesce(a, h, b.at) = ImplicitCoalesce(h, b.at)
    BY <1>3 DEF Coalesce
  <2>2. /\ Merged(h, ImplicitCoalesce(h, b.at).heap, FirstBlock(a), bs, b)
        /\ ImplicitCoalesce(h, b.at).bp = CodeStart(h, b.at)
    BY <1>1, ImplicitCoalesceIs
  <2> QED BY <1>3, <2>1, <2>2 DEF Coalesced, Sound, Merged
<1> QED BY <1>2, <1>3

(***************************************************************************)
(* It is what the block heap does.                                         *)
(***************************************************************************)
LEMMA MeltedIsMerge ==
  ASSUME NEW a, NEW h, NEW f, NEW bs, Row(h, f, bs), NEW b \in bs
  PROVE  Melted(h, bs, b) = Abstract(a)!Merge(bs \ {b}, b)
<1> DEFINE l == LeftOf(bs, b)
           r == RightOf(bs, b)
           w == Whole(h, b)
<1>1. LeftSeen(h, bs, b, l) /\ RightSeen(h, bs, b, r)
  BY Neighbours
<1>2. Abstract(a)!Left(bs \ {b}, b) = l /\ Abstract(a)!Right(bs \ {b}, b) = r
  BY DEF Abstract!Left, Abstract!Right, Abstract!End, LeftOf, RightOf, Stop
<1>3. \A c \in bs : Fine(c) /\ BlockSize(h, c.at) = c.size
  BY Reads DEF Row, Tiles
<1>4. \A c \in bs : c.at \in Nat /\ c.size \in Nat /\ Stop(c) = c.at + c.size
  BY <1>3 DEF Fine, Stop
<1> HIDE DEF l, r
<1>5. \/ l = {} /\ CodeStart(h, b.at) = b.at
      \/ \E c \in bs : l = {c} /\ CodeStart(h, b.at) = c.at
  BY <1>1 DEF LeftSeen, CodeStart
<1>6. (IF l = {} THEN b.at ELSE (CHOOSE c \in l : TRUE).at) = CodeStart(h, b.at)
  BY <1>5
<1>7. (IF r = {} THEN Abstract(a)!End(b) ELSE Abstract(a)!End(CHOOSE c \in r : TRUE)) - CodeStart(h, b.at) = CodeSize(h, b.at)
  <2>1. \/ IsAlloc(h, PrevBp(h, b.at))
        \/ \E c \in bs : Stop(c) = b.at /\ PrevBp(h, b.at) = c.at /\ ~IsAlloc(h, c.at) /\ BlockSize(h, c.at) = c.size
    BY <1>1 DEF LeftSeen
  <2>2. CodeStart(h, b.at) \in Nat
    BY <1>4, <1>5
  <2>3. CodeStart(h, b.at) + BlockSize(h, b.at)
          + (IF IsAlloc(h, PrevBp(h, b.at)) THEN 0 ELSE BlockSize(h, PrevBp(h, b.at))) = Stop(b)
    BY <1>3, <1>4, <2>1 DEF CodeStart
  <2>4. CASE r = {} /\ IsAlloc(h, NextBp(h, b.at))
    <3>1. (IF r = {} THEN Abstract(a)!End(b) ELSE Abstract(a)!End(CHOOSE c \in r : TRUE)) = Stop(b)
      BY <2>4 DEF Abstract!End, Stop
    <3>2. Stop(b) - CodeStart(h, b.at) = CodeSize(h, b.at)
      BY <1>3, <1>4, <2>1, <2>4 DEF CodeStart, CodeSize
    <3> QED BY <3>1, <3>2
  <2>5. ASSUME NEW c \in bs, r = {c}, c.at = Stop(b), NextBp(h, b.at) = c.at, ~IsAlloc(h, c.at), BlockSize(h, c.at) = c.size
        PROVE  (IF r = {} THEN Abstract(a)!End(b) ELSE Abstract(a)!End(CHOOSE d \in r : TRUE)) - CodeStart(h, b.at) = CodeSize(h, b.at)
    <3>1. (IF r = {} THEN Abstract(a)!End(b) ELSE Abstract(a)!End(CHOOSE d \in r : TRUE)) = Stop(c)
      BY <2>5 DEF Abstract!End, Stop
    <3>2. Stop(c) - CodeStart(h, b.at) = CodeSize(h, b.at)
      BY <1>3, <1>4, <2>1, <2>5 DEF CodeStart, CodeSize
    <3> QED BY <3>1, <3>2
  <2> QED BY <1>1, <2>4, <2>5 DEF RightSeen
<1>8. Abstract(a)!Joined(bs \ {b}, b) = w
  BY <1>2, <1>6, <1>7 DEF Abstract!Joined, Whole
<1> HIDE DEF w
<1>9. Abstract(a)!Merge(bs \ {b}, b) = ((bs \ {b}) \ (l \cup r)) \cup {w}
  BY <1>2, <1>8 DEF Abstract!Merge
<1> QED BY <1>9 DEF Melted, l, r, w

\* Who spares blocks spares fewer of them.
LEMMA SparedFewer ==
  ASSUME NEW h, NEW g, NEW bs, NEW cs, Spared(h, g, cs), \A b \in bs : b.used => b \in cs
  PROVE  Spared(h, g, bs)
  BY DEF Spared

\* Who writes nothing spares everything.
LEMMA SparedSame == ASSUME NEW h, NEW bs PROVE Spared(h, h, bs)
  BY DEF Spared

\* A block whose neighbours are used stays as it is.
LEMMA MeltedAlone ==
  ASSUME NEW h, NEW f, NEW bs, Row(h, f, bs), NEW b \in bs, ~b.used, LeftOf(bs, b) = {}, RightOf(bs, b) = {}
  PROVE  Melted(h, bs, b) = bs /\ CodeStart(h, b.at) = b.at
<1>1. LeftSeen(h, bs, b, LeftOf(bs, b)) /\ RightSeen(h, bs, b, RightOf(bs, b))
  BY Neighbours
<1>2. IsAlloc(h, PrevBp(h, b.at)) /\ IsAlloc(h, NextBp(h, b.at))
  BY <1>1 DEF LeftSeen, RightSeen
<1>3. Fine(b)
  BY DEF Row, Tiles
<1>4. BlockSize(h, b.at) = b.size
  BY Reads
<1>5. CodeStart(h, b.at) = b.at /\ CodeSize(h, b.at) = b.size
  BY <1>2, <1>3, <1>4 DEF CodeStart, CodeSize, Fine
<1>6. Whole(h, b) = b
  BY <1>3, <1>5 DEF Whole, Fine
<1> QED BY <1>5, <1>6 DEF Melted

(***************************************************************************)
(* place: the block c is cut in two.                                       *)
(***************************************************************************)
Front(c, n) == [at |-> c.at, size |-> n, used |-> TRUE]
Rest(c, n) == [at |-> c.at + n, size |-> c.size - n, used |-> FALSE]
CutUp(k, g, f, bs, c, n) ==
  /\ Row(g, f, (bs \ {c}) \cup {Front(c, n), Rest(c, n)})
  /\ g.list = k.list /\ g.brk = k.brk
  /\ \A w \in Words : g.mem[w] = k.mem[w] \/ w \in {c.at - 4, c.at + n - 8, c.at + n - 4, Stop(c) - 8}

\* place cuts a block in two.
LEMMA CutIs ==
  ASSUME NEW k, NEW f, NEW bs, Row(k, f, bs), NEW c \in bs, NEW n, Aligned(n), n >= 16, c.size - n >= 16
  PROVE  /\ NextBp(Tag(k, c.at, n, 1), c.at) = c.at + n
         /\ CutUp(k, Tag(Tag(k, c.at, n, 1), c.at + n, c.size - n, 0), f, bs, c, n)
<1> DEFINE k1 == Tag(k, c.at, n, 1)
           y == c.at + n
           m == c.size - n
           g == Tag(k1, y, m, 0)
           u == Front(c, n)
           v == Rest(c, n)
<1>1. /\ Fine(c) /\ f <= c.at /\ Stop(c) <= k.brk /\ \A b \in bs : c = b \/ Apart(c, b)
      /\ k \in Heap /\ k.brk \in Nat /\ k.brk <= MaxHeap /\ MaxHeap \in Nat /\ f \in Nat /\ f >= 16
  BY HeapWordsAssumption DEF Row, Tiles, Fitted, Aligned
<1>2. /\ c.at \in Nat /\ c.at % 8 = 0 /\ c.size \in Nat /\ c.size % 8 = 0 /\ Stop(c) = c.at + c.size
      /\ n \in Nat /\ n % 8 = 0 /\ Aligned(c.at)
  BY <1>1 DEF Fine, Stop, Aligned
<1>3. m \in Nat /\ m >= 16 /\ m % 8 = 0 /\ y \in Nat /\ y % 8 = 0 /\ y + m = Stop(c) /\ Aligned(m) /\ Aligned(y) /\ 0 < y /\ 0 < c.at
      /\ Stop(c) \in Nat /\ c.at + n <= MaxHeap /\ y + m <= MaxHeap /\ y = c.at + n
  BY <1>1, <1>2 DEF Aligned
<1>4. u.at = c.at /\ u.size = n /\ u.used = TRUE /\ v.at = y /\ v.size = m /\ v.used = FALSE
      /\ Stop(u) = y /\ Stop(v) = y + m /\ Bit(u) = 1 /\ Bit(v) = 0
  BY DEF Front, Rest, Stop, Bit
<1>5. Fine(u) /\ Fine(v)
  <2>1. u \in [at : Nat, size : Nat, used : BOOLEAN] /\ v \in [at : Nat, size : Nat, used : BOOLEAN]
    BY <1>2, <1>3 DEF Front, Rest
  <2> QED BY <1>2, <1>3, <1>4, <2>1 DEF Fine
<1> HIDE DEF y, m, u, v
<1>6. Tags(k, k1, c.at, n, n + 1)
  BY <1>1, <1>2, <1>3, TagIs
<1> HIDE DEF k1
<1>7. Tags(k1, g, y, m, m + 0)
  <2>1. k1 \in Heap
    BY <1>6 DEF Tags
  <2> QED BY <1>3, <2>1, TagIs
<1> HIDE DEF g
<1>8. c.at - 4 \in Words /\ y - 8 \in Words /\ y - 4 \in Words /\ y + m - 8 \in Words
  <2>1. c.at + n - 8 = y - 8
    BY <1>2, <1>3
  <2> QED BY <1>6, <1>7, <2>1 DEF Tags
<1>9. /\ k1.mem[c.at - 4] = n + 1 /\ k1.mem[y - 8] = n + 1
      /\ \A w \in Words : w = c.at - 4 \/ w = y - 8 \/ k1.mem[w] = k.mem[w]
  <2>1. c.at + n - 8 = y - 8
    BY <1>2, <1>3
  <2> QED BY <1>6, <2>1 DEF Tags
<1>10. /\ g.mem[y - 4] = m /\ g.mem[y + m - 8] = m
       /\ \A w \in Words : w = y - 4 \/ w = y + m - 8 \/ g.mem[w] = k1.mem[w]
  <2>1. m + 0 = m
    BY <1>3
  <2> QED BY <1>7, <2>1 DEF Tags
<1>11. Tagged(g, u)
  <2>1. c.at - 4 # y - 4 /\ c.at - 4 # y + m - 8 /\ y - 8 # y - 4 /\ y - 8 # y + m - 8
    BY <1>2, <1>3
  <2>2. g.mem[c.at - 4] = n + 1 /\ g.mem[y - 8] = n + 1
    BY <1>8, <1>9, <1>10, <2>1
  <2> QED BY <1>4, <2>2 DEF Tagged
<1>12. Tagged(g, v)
  <2>1. m + 0 = m /\ m \in Nat /\ y \in Nat
    BY <1>3
  <2>2. Stop(v) - 8 = y + m - 8
    BY <1>4, <2>1
  <2> QED BY <1>4, <1>10, <2>1, <2>2 DEF Tagged
<1>13. Laid(g, {u, v}, c.at, Stop(c))
  <2>1. \A b \in {u, v} : Fine(b) /\ c.at <= b.at /\ Stop(b) <= Stop(c)
    BY <1>2, <1>3, <1>4, <1>5
  <2>2. \A b, d \in {u, v} : b = d \/ Apart(b, d)
    <3>1. Stop(u) <= v.at
      BY <1>3, <1>4
    <3> QED BY <3>1 DEF Apart
  <2>3. \A p \in Nat : c.at <= p /\ p < Stop(c) => \E b \in {u, v} : b.at <= p /\ p < Stop(b)
    BY <1>2, <1>3, <1>4
  <2> QED BY <1>11, <1>12, <2>1, <2>2, <2>3 DEF Laid, Tiles
<1>14. Beyond(k, g, c.at, Stop(c))
  <2>1. ASSUME NEW w \in Words, w < c.at - 4 \/ Stop(c) - 4 <= w PROVE g.mem[w] = k.mem[w]
    <3>1. w \in Nat
      BY WordsAre
    <3> QED BY <1>2, <1>3, <1>9, <1>10, <2>1, <3>1
  <2> QED BY <1>6, <1>7, <2>1 DEF Beyond, Tags
<1>15. Row(g, f, (bs \ {c}) \cup {u, v})
  <2>1. Within({c}, c.at, Stop(c)) /\ Clear(bs \ {c}, c.at, Stop(c)) /\ {c} \in SUBSET bs /\ c.at < Stop(c)
    BY <1>1, <1>2, <1>3 DEF Within, Clear, Apart
  <2>2. Aligned(Stop(c))
    BY RowWords
  <2> QED BY <1>1, <1>2, <1>3, <1>13, <1>14, <2>1, <2>2, RowReplace
<1>16. NextBp(k1, c.at) = c.at + n
  <2>1. ((n + 1) \div 8) * 8 = n
    BY <1>2
  <2> QED BY <1>9, <2>1 DEF NextBp, BlockSize, SizeAt, Hdrp, WSIZE, DSIZE
<1>17. \A w \in Words : g.mem[w] = k.mem[w] \/ w \in {c.at - 4, c.at + n - 8, c.at + n - 4, Stop(c) - 8}
  <2>1. c.at + n - 8 = y - 8 /\ c.at + n - 4 = y - 4 /\ Stop(c) - 8 = y + m - 8
    BY <1>2, <1>3
  <2> QED BY <1>9, <1>10, <2>1
<1>18. g.list = k.list /\ g.brk = k.brk
  BY <1>6, <1>7 DEF Tags
<1>19. CutUp(k, g, f, bs, c, n)
  BY <1>15, <1>17, <1>18 DEF CutUp, u, v
<1> QED BY <1>16, <1>19 DEF k1, y, m, g

\* place writes into the block it cuts only.
LEMMA CutSpares ==
  ASSUME NEW k, NEW f, NEW bs, Row(k, f, bs), NEW c \in bs, ~c.used, NEW n, Aligned(n), n >= 16, c.size - n >= 16,
         NEW g, CutUp(k, g, f, bs, c, n)
  PROVE  Spared(k, g, bs)
<1>1. /\ \A b \in bs : Fine(b) /\ (c = b \/ Apart(c, b))
  BY DEF Row, Tiles
<1>2. \A b \in bs : b.at \in Nat /\ b.size \in Nat /\ Stop(b) = b.at + b.size /\ b.size >= 16
  BY <1>1 DEF Fine, Stop
<1>3. n \in Nat
  BY DEF Aligned
<1>4. ASSUME NEW b \in bs, b.used, NEW w \in Words, b.at <= w, w < Stop(b) - 8
      PROVE  w \notin {c.at - 4, c.at + n - 8, c.at + n - 4, Stop(c) - 8}
  <2>1. w \in Nat
    BY WordsAre
  <2>2. Stop(c) <= b.at \/ Stop(b) <= c.at
    BY <1>1, <1>4 DEF Apart
  <2> QED BY <1>2, <1>3, <1>4, <2>1, <2>2
<1> QED BY <1>4 DEF CutUp, Spared

Parted(bs) == \A b, c \in bs : ~b.used /\ ~c.used => Stop(b) # c.at
Taken1(c) == [c EXCEPT !.used = TRUE]
Placed(a, h, g, bs, c, n) ==
  Sound(a, g, Abstract(a)!Place(bs, c, n)) /\ Spared(h, g, bs) /\ g.brk = h.brk

\* place: the whole block c is used.
Used(k, g, f, bs, c) ==
  /\ Row(g, f, (bs \ {c}) \cup {Taken1(c)}) /\ Spared(k, g, bs)
  /\ g.list = k.list /\ g.brk = k.brk
  /\ \A w \in Words : g.mem[w] = k.mem[w] \/ w \in {c.at - 4, Stop(c) - 8}

\* place marks a block that is not worth cutting.
LEMMA UsedIs ==
  ASSUME NEW k, NEW f, NEW bs, Row(k, f, bs), NEW c \in bs, ~c.used
  PROVE  Used(k, Tag(k, c.at, c.size, 1), f, bs, c)
<1> DEFINE g == Tag(k, c.at, c.size, 1)
           t == Taken1(c)
<1>1. /\ Fine(c) /\ f <= c.at /\ Stop(c) <= k.brk /\ \A b \in bs : Fine(b) /\ (c = b \/ Apart(c, b))
      /\ k \in Heap /\ k.brk \in Nat /\ k.brk <= MaxHeap /\ MaxHeap \in Nat /\ f \in Nat /\ f >= 16
  BY HeapWordsAssumption DEF Row, Tiles, Fitted, Aligned
<1>2. /\ c.at \in Nat /\ c.size \in Nat /\ Stop(c) = c.at + c.size /\ Aligned(c.at) /\ Aligned(c.size) /\ c.size >= 16
      /\ 0 < c.at /\ c.at + c.size <= MaxHeap
  BY <1>1 DEF Fine, Stop
<1>3. Tags(k, g, c.at, c.size, c.size + 1)
  BY <1>1, <1>2, TagIs
<1> HIDE DEF g
<1>4. t.at = c.at /\ t.size = c.size /\ t.used = TRUE /\ Fine(t) /\ Bit(t) = 1
  BY <1>1 DEF Taken1, Fine, Bit
<1> HIDE DEF t
<1>5. Row(g, f, (bs \ {c}) \cup {t})
  BY <1>3, <1>4, RowRetag
<1>6. \A w \in Words : g.mem[w] = k.mem[w] \/ w \in {c.at - 4, Stop(c) - 8}
  <2>1. c.at + c.size - 8 = Stop(c) - 8
    BY <1>2
  <2> QED BY <1>3, <2>1 DEF Tags
<1>7. \A b \in bs : b.at \in Nat /\ b.size \in Nat /\ Stop(b) = b.at + b.size /\ b.size >= 16
  BY <1>1 DEF Fine, Stop
<1>8. ASSUME NEW b \in bs, b.used, NEW w \in Words, b.at <= w, w < Stop(b) - 8
      PROVE  w \notin {c.at - 4, Stop(c) - 8}
  <2>1. w \in Nat
    BY WordsAre
  <2>2. Stop(c) <= b.at \/ Stop(b) <= c.at
    BY <1>1, <1>8 DEF Apart
  <2> QED BY <1>2, <1>7, <1>8, <2>1, <2>2
<1>9. Spared(k, g, bs)
  BY <1>6, <1>8 DEF Spared
<1> QED BY <1>3, <1>5, <1>6, <1>9 DEF Used, Tags, g, t

\* place has taken c off its list.
Opened(a, h, k, bs, c) ==
  /\ Row(k, FirstBlock(a), bs) /\ k.brk = h.brk /\ Spared(h, k, bs)
  /\ a \in Listed => Lists(a, k, Files(a, bs \ {c}))

WholeUsed(a, h, g, bs, c) ==
  Sound(a, g, (bs \ {c}) \cup {Taken1(c)}) /\ Spared(h, g, bs) /\ g.brk = h.brk

\* place without a rest keeps the heap sound.
LEMMA UseWhole ==
  ASSUME NEW a \in Kinds, NEW h, NEW k, NEW bs, NEW c \in bs, ~c.used, Opened(a, h, k, bs, c)
  PROVE  WholeUsed(a, h, Tag(k, c.at, c.size, 1), bs, c)
<1> DEFINE g == Tag(k, c.at, c.size, 1)
           f == FirstBlock(a)
           t == Taken1(c)
           cs == (bs \ {c}) \cup {t}
<1>1. Row(k, f, bs) /\ k.brk = h.brk /\ Spared(h, k, bs)
  BY DEF Opened
<1>2. Used(k, g, f, bs, c)
  BY <1>1, UsedIs
<1> HIDE DEF g, f
<1>3. /\ Row(g, f, cs) /\ Spared(k, g, bs) /\ g.list = k.list /\ g.brk = k.brk
      /\ \A w \in Words : g.mem[w] = k.mem[w] \/ w \in {c.at - 4, Stop(c) - 8}
  BY <1>2 DEF Used
<1>4. Spared(h, g, bs)
  BY <1>1, <1>3, SparedCompose
<1>5. Fine(c) /\ t.at = c.at /\ t.size = c.size /\ t.used /\ Stop(t) = Stop(c)
  <2>1. Fine(c)
    BY <1>1 DEF Row, Tiles
  <2> QED BY <2>1 DEF Taken1, Fine, Stop
<1>6. a \in Listed => Lists(a, g, Files(a, cs))
  <2> SUFFICES ASSUME a \in Listed PROVE Lists(a, g, Files(a, cs))
    OBVIOUS
  <2>1. f = ListsFirst(a)
    BY DEF f, FirstBlock
  <2>2. Lists(a, k, Files(a, cs))
    BY <1>5, FilesUsed DEF Opened
  <2>3. t \in cs
    OBVIOUS
  <2> HIDE DEF t, cs
  <2>4. \A w \in Words : g.mem[w] = k.mem[w] \/ \E b \in cs : w = b.at - 4 \/ w = Stop(b) - 8
    BY <1>3, <1>5, <2>3
  <2>5. cs \in SUBSET cs /\ Row(g, ListsFirst(a), cs) /\ g.list = k.list
    BY <1>3, <2>1
  <2> QED BY <2>2, <2>4, <2>5, TagsKeepLists
<1> QED BY <1>1, <1>3, <1>4, <1>6 DEF Sound, WholeUsed, f, g

FrontUsed(a, h, g, bs, cs, v) ==
  Loose(a, g, cs, v) /\ Melted(g, cs, v) = cs /\ Spared(h, g, bs) /\ g.brk = h.brk

\* place with a rest leaves a heap whose rest has yet to be filed.
LEMMA UseFront ==
  ASSUME NEW a \in Kinds, NEW h, NEW k, NEW bs, Parted(bs), NEW c \in bs, ~c.used, Opened(a, h, k, bs, c),
         NEW n, Aligned(n), n >= 16, c.size - n >= 16,
         NEW g, CutUp(k, g, FirstBlock(a), bs, c, n)
  PROVE  FrontUsed(a, h, g, bs, (bs \ {c}) \cup {Front(c, n), Rest(c, n)}, Rest(c, n))
<1> DEFINE f == FirstBlock(a)
           u == Front(c, n)
           v == Rest(c, n)
           cs == (bs \ {c}) \cup {u, v}
<1>1. Row(k, f, bs) /\ k.brk = h.brk /\ Spared(h, k, bs)
  BY DEF Opened
<1>2. /\ Row(g, f, cs) /\ g.list = k.list /\ g.brk = k.brk
      /\ \A w \in Words : g.mem[w] = k.mem[w] \/ w \in {c.at - 4, c.at + n - 8, c.at + n - 4, Stop(c) - 8}
  BY DEF CutUp
<1>3. Spared(h, g, bs)
  BY <1>1, CutSpares, SparedCompose
<1>4. /\ \A b \in bs : Fine(b) /\ (c = b \/ Apart(c, b))
  BY <1>1 DEF Row, Tiles
<1>5. \A b \in bs : b.at \in Nat /\ b.size \in Nat /\ Stop(b) = b.at + b.size /\ b.size >= 16
  BY <1>4 DEF Fine, Stop
<1>6. n \in Nat
  BY DEF Aligned
<1>7. /\ u.at = c.at /\ u.size = n /\ u.used /\ v.at = c.at + n /\ v.size = c.size - n /\ ~v.used
      /\ Stop(u) = c.at + n /\ Stop(v) = Stop(c)
  BY <1>5, <1>6 DEF Front, Rest, Stop
<1>8. v \notin bs
  <2>1. ASSUME v \in bs PROVE FALSE
    <3>1. v = c \/ Stop(c) <= v.at \/ Stop(v) <= c.at
      BY <1>4, <2>1 DEF Apart
    <3> QED BY <1>5, <1>6, <1>7, <2>1, <3>1
  <2> QED BY <2>1
<1> HIDE DEF u, v
<1>9. cs \ {v} = (bs \ {c}) \cup {u}
  BY <1>7, <1>8
<1>10. a \in Listed => Lists(a, g, Files(a, cs \ {v}))
  <2> SUFFICES ASSUME a \in Listed PROVE Lists(a, g, Files(a, cs \ {v}))
    OBVIOUS
  <2>1. f = ListsFirst(a)
    BY DEF FirstBlock
  <2>2. Lists(a, k, Files(a, cs \ {v}))
    BY <1>7, <1>9, FilesUsed DEF Opened
  <2>3. u \in cs /\ v \in cs /\ (cs \ {v}) \in SUBSET cs
    OBVIOUS
  <2> HIDE DEF cs
  <2>4. \A w \in Words : g.mem[w] = k.mem[w] \/ \E b \in cs : w = b.at - 4 \/ w = Stop(b) - 8
    <3>1. c.at + n - 8 = (c.at + n) - 8 /\ c.at + n - 4 = (c.at + n) - 4
      BY <1>5, <1>6
    <3> QED BY <1>2, <1>7, <2>3, <3>1
  <2>5. Row(g, ListsFirst(a), cs) /\ g.list = k.list
    BY <1>2, <2>1
  <2> DEFINE ds == cs \ {v}
  <2>6. ds \in SUBSET cs /\ Lists(a, k, Files(a, ds))
    BY <2>2, <2>3
  <2> HIDE DEF ds
  <2>7. Lists(a, g, Files(a, ds))
    BY <2>4, <2>5, <2>6, TagsKeepLists
  <2> QED BY <2>7 DEF ds
<1>11. Loose(a, g, cs, v)
  BY <1>2, <1>7, <1>10 DEF Loose
<1>12. LeftOf(cs, v) = {}
  <2>1. ASSUME NEW d \in cs, d # v, ~d.used, Stop(d) = v.at PROVE FALSE
    <3>1. d \in bs /\ d # c
      BY <1>7, <2>1
    <3>2. Stop(c) <= d.at \/ Stop(d) <= c.at
      BY <1>4, <3>1 DEF Apart
    <3> QED BY <1>5, <1>6, <1>7, <2>1, <3>1, <3>2
  <2> QED BY <2>1 DEF LeftOf
<1>13. RightOf(cs, v) = {}
  <2>1. ASSUME NEW d \in cs, d # v, ~d.used, d.at = Stop(v) PROVE FALSE
    <3>1. d \in bs
      BY <1>7, <2>1
    <3> QED BY <1>7, <2>1, <3>1 DEF Parted
  <2> QED BY <2>1 DEF RightOf
<1>14. Melted(g, cs, v) = cs
  <2>1. v \in cs
    OBVIOUS
  <2> HIDE DEF cs
  <2> QED BY <1>2, <1>7, <1>12, <1>13, <2>1, MeltedAlone
<1> QED BY <1>1, <1>2, <1>3, <1>11, <1>14 DEF FrontUsed, u, v

\* place does to the heap what Place of BlockHeap does to the blocks.
LEMMA PlaceIs ==
  ASSUME NEW a \in Kinds, NEW h, NEW bs, Sound(a, h, bs), Parted(bs), NEW c \in bs, ~c.used,
         NEW n, Aligned(n), n >= 16, n <= c.size
  PROVE  Placed(a, h, Place(a, h, c.at, n), bs, c, n)
<1> DEFINE f == FirstBlock(a)
           k == IF a \in Listed THEN DeleteBlock(a, h, c.at) ELSE h
           cs == (bs \ {c}) \cup {Front(c, n), Rest(c, n)}
           g == Tag(Tag(k, c.at, n, 1), c.at + n, c.size - n, 0)
           whole == Tag(k, c.at, c.size, 1)
           rest == NextBp(Tag(k, c.at, n, 1), c.at)
<1>1. Row(h, f, bs)
  BY DEF Sound
<1>2. BlockSize(h, c.at) = c.size
  BY <1>1, Reads
<1>3. Opened(a, h, k, bs, c)
  <2>1. CASE a \in Listed
    <3>1. f = ListsFirst(a) /\ Lists(a, h, Files(a, bs)) /\ k = DeleteBlock(a, h, c.at)
      BY <2>1 DEF Sound, FirstBlock
    <3> HIDE DEF k
    <3>2. Dropped(a, h, k, bs, bs \ {c})
      BY <1>1, <2>1, <3>1, DeleteStep
    <3>3. Spared(h, k, bs)
      BY <1>1, <3>1, <3>2, LinksSpare DEF Dropped
    <3> QED BY <3>1, <3>2, <3>3 DEF Dropped, Opened, LinksOnly
  <2>2. CASE a \notin Listed
    BY <1>1, <2>2, SparedSame DEF Opened
  <2> QED BY <2>1, <2>2
<1>4. Place(a, h, c.at, n) = IF c.size - n >= 16
                             THEN IF a \in Listed THEN ListsCoalesce(a, Tag(Tag(k, c.at, n, 1), rest, c.size - n, 0), rest).heap
                                  ELSE Tag(Tag(k, c.at, n, 1), rest, c.size - n, 0)
                             ELSE whole
  <2>1. CASE a \in Listed
    <3>1. Place(a, h, c.at, n) = IF c.size - n >= 4 * WSIZE
                                 THEN ListsCoalesce(a, Tag(Tag(k, c.at, n, 1), rest, c.size - n, 0), rest).heap
                                 ELSE whole
      BY <1>2, <2>1, Zenon DEF Place, ListsPlace
    <3>2. 4 * WSIZE = 16
      BY DEF WSIZE
    <3> HIDE DEF k, whole, rest
    <3> QED BY <2>1, <3>1, <3>2, Zenon
  <2>2. CASE a \notin Listed
    BY <1>2, <2>2 DEF Place, ImplicitPlace, DSIZE
  <2> QED BY <2>1, <2>2
<1>5. Abstract(a)!Place(bs, c, n) = IF c.size - n >= 16 THEN cs ELSE (bs \ {c}) \cup {Taken1(c)}
  BY DEF Abstract!Place, Abstract!Split, Abstract!MinSize, Front, Rest, Taken1
<1>6. Row(k, f, bs)
  BY <1>3 DEF Opened
<1> HIDE DEF k
<1>7. CASE c.size - n >= 16
  <2>1. rest = c.at + n /\ CutUp(k, g, f, bs, c, n)
    BY <1>6, <1>7, CutIs
  <2> HIDE DEF g, rest
  <2>2. Place(a, h, c.at, n) = IF a \in Listed THEN ListsCoalesce(a, g, Rest(c, n).at).heap ELSE g
    BY <1>4, <1>7, <2>1 DEF g, Rest
  <2>3. Loose(a, g, cs, Rest(c, n)) /\ Melted(g, cs, Rest(c, n)) = cs /\ Spared(h, g, bs) /\ g.brk = h.brk
    <3>0. SUFFICES FrontUsed(a, h, g, bs, cs, Rest(c, n))
      BY DEF FrontUsed
    <3>1. /\ Parted(bs) /\ c \in bs /\ ~c.used /\ Opened(a, h, k, bs, c) /\ Aligned(n) /\ n >= 16
          /\ c.size - n >= 16 /\ CutUp(k, g, FirstBlock(a), bs, c, n)
      BY <1>3, <1>7, <2>1
    <3> QED BY ONLY <3>1, a \in Kinds, UseFront
  <2> DEFINE r == Coalesce(a, g, Rest(c, n).at)
  <2>4. CASE a \in Listed
    <3>1. Coalesced(a, g, cs, Rest(c, n), r)
      BY <2>3, CoalesceIs
    <3>2. Place(a, h, c.at, n) = r.heap
      BY <2>2, <2>4 DEF Coalesce
    <3> HIDE DEF r
    <3>3. Sound(a, r.heap, cs) /\ Spared(g, r.heap, cs) /\ r.heap.brk = g.brk
      BY <2>3, <3>1 DEF Coalesced
    <3>4. Spared(h, r.heap, bs)
      <4>1. \A b \in bs : b.used => b \in cs
        OBVIOUS
      <4> HIDE DEF cs
      <4> QED BY <2>3, <3>3, <4>1, SparedFewer, SparedCompose
    <3> QED BY <1>5, <1>7, <2>3, <3>2, <3>3, <3>4 DEF Placed
  <2>5. CASE a \notin Listed
    <3>1. Sound(a, g, cs)
      BY <2>3, <2>5 DEF Loose, Sound
    <3> QED BY <1>5, <1>7, <2>2, <2>3, <2>5, <3>1 DEF Placed
  <2> QED BY <2>4, <2>5
<1>8. CASE ~(c.size - n >= 16)
  <2>1. WholeUsed(a, h, whole, bs, c)
    BY <1>3, UseWhole
  <2>2. Place(a, h, c.at, n) = whole
    BY <1>4, <1>8
  <2>3. Abstract(a)!Place(bs, c, n) = (bs \ {c}) \cup {Taken1(c)}
    BY <1>5, <1>8
  <2> HIDE DEF whole
  <2> QED BY <2>1, <2>2, <2>3 DEF Placed, WholeUsed
<1> QED BY <1>7, <1>8

(***************************************************************************)
(* Following a list from its head.                                         *)
(***************************************************************************)
After(m, head, s) == IF s = << >> THEN head ELSE m[s[Len(s)] + 4]
Chain(m, head, S, s) ==
  /\ s \in Seq(S) /\ (s # << >> => s[1] = head)
  /\ \A k \in 1..Len(s) : k # Len(s) => m[s[k] + 4] = s[k + 1]
Steps16(S) == \A x \in S : /\ x \in Nat /\ x + 16 <= MaxHeap
                           /\ \A y \in S : x = y \/ x + 16 <= y \/ y + 16 <= x

\* A walk along a list goes to a block of the list, or ends.
LEMMA ChainSteps ==
  ASSUME NEW m, NEW head, NEW end, NEW S, ListOf(m, head, end, S), NEW s, Chain(m, head, S, s)
  PROVE  /\ After(m, head, s) \in S \cup {end}
         /\ After(m, head, s) \in S => /\ Chain(m, head, S, Append(s, After(m, head, s)))
                                       /\ Len(Append(s, After(m, head, s))) = Len(s) + 1
<1> DEFINE x == After(m, head, s)
           t == Append(s, x)
<1>1. s \in Seq(S) /\ Len(s) \in Nat /\ \A k \in 1..Len(s) : s[k] \in S
  BY LenProperties, ElementOfSeq DEF Chain
<1>2. s # << >> => Len(s) \in 1..Len(s)
  BY <1>1, EmptySeq
<1>3. x \in S \cup {end}
  BY <1>1, <1>2 DEF After, ListOf
<1>4. ASSUME x \in S PROVE Chain(m, head, S, t) /\ Len(t) = Len(s) + 1
  <2>1. t \in Seq(S) /\ Len(t) = Len(s) + 1 /\ t[Len(s) + 1] = x /\ \A k \in 1..Len(s) : t[k] = s[k]
    BY <1>1, <1>4, AppendProperties
  <2>2. t[1] = head
    <3>1. CASE s = << >>
      BY <1>1, <2>1, <3>1, EmptySeq DEF After
    <3>2. CASE s # << >>
      <4>1. 1 \in 1..Len(s)
        BY <1>1, <1>2, <3>2
      <4> QED BY <2>1, <3>2, <4>1 DEF Chain
    <3> QED BY <3>1, <3>2
  <2>3. ASSUME NEW k \in 1..Len(t), k # Len(t) PROVE m[t[k] + 4] = t[k + 1]
    <3>1. k \in 1..Len(s) /\ (k # Len(s) => k + 1 \in 1..Len(s))
      BY <1>1, <2>1, <2>3
    <3>2. CASE k = Len(s)
      <4>1. s # << >>
        BY <3>1, <3>2
      <4> QED BY <2>1, <3>1, <3>2, <4>1 DEF After
    <3>3. CASE k # Len(s)
      BY <2>1, <3>1, <3>3 DEF Chain
    <3> QED BY <3>2, <3>3
  <2> QED BY <2>1, <2>2, <2>3 DEF Chain
<1> QED BY <1>3, <1>4

\* A walk along a list meets no block twice: the links back tell its places apart.
LEMMA ChainRises ==
  ASSUME NEW m, NEW head, NEW end, NEW S, ListOf(m, head, end, S), NEW s, Chain(m, head, S, s)
  PROVE  \A j, k \in 1..Len(s) : j # k => s[j] # s[k]
<1>1. s \in Seq(S) /\ Len(s) \in Nat /\ \A k \in 1..Len(s) : s[k] \in S
  BY LenProperties, ElementOfSeq DEF Chain
<1>2. PICK r : Ranked(m, S, r)
  BY DEF ListOf
<1>3. \A x \in S : r[x] \in Nat /\ (m[x + 4] \in S => r[x] < r[m[x + 4]])
  BY <1>2 DEF Ranked
<1> DEFINE Done == {d \in Nat : \A j \in 1..Len(s) : j + d + 1 \in 1..Len(s) => r[s[j]] < r[s[j + d + 1]]}
<1>4. \A j \in 1..Len(s) : j # Len(s) => r[s[j]] < r[s[j + 1]]
  <2> SUFFICES ASSUME NEW j \in 1..Len(s), j # Len(s) PROVE r[s[j]] < r[s[j + 1]]
    OBVIOUS
  <2>1. j + 1 \in 1..Len(s) /\ m[s[j] + 4] = s[j + 1]
    BY <1>1 DEF Chain
  <2> QED BY <1>1, <1>3, <2>1
<1>5. 0 \in Done
  <2>1. ASSUME NEW j \in 1..Len(s), j + 0 + 1 \in 1..Len(s) PROVE r[s[j]] < r[s[j + 0 + 1]]
    <3>1. j + 0 + 1 = j + 1 /\ j # Len(s)
      BY <1>1, <2>1
    <3> QED BY <1>4, <3>1
  <2> QED BY <2>1
<1>6. ASSUME NEW d \in Nat \cap Done PROVE d + 1 \in Done
  <2>1. ASSUME NEW j \in 1..Len(s), j + (d + 1) + 1 \in 1..Len(s)
        PROVE  r[s[j]] < r[s[j + (d + 1) + 1]]
    <3>1. j + d + 1 \in 1..Len(s) /\ j + d + 1 # Len(s) /\ (j + d + 1) + 1 = j + (d + 1) + 1
      BY <1>1, <2>1
    <3>2. r[s[j]] < r[s[j + d + 1]]
      BY <1>6, <2>1, <3>1
    <3>3. r[s[j + d + 1]] < r[s[(j + d + 1) + 1]]
      BY <1>4, <3>1
    <3>4. r[s[j]] \in Nat /\ r[s[j + d + 1]] \in Nat /\ r[s[(j + d + 1) + 1]] \in Nat
      BY <1>1, <1>3, <2>1, <3>1
    <3> HIDE DEF Done
    <3>5. \A x, y, z \in Nat : x < y /\ y < z => x < z
      OBVIOUS
    <3>6. r[s[j]] < r[s[(j + d + 1) + 1]]
      BY <3>2, <3>3, <3>4, <3>5
    <3> QED BY <3>1, <3>6
  <2> QED BY <2>1
<1>7. Nat \subseteq Done
  <2> HIDE DEF Done
  <2> QED BY <1>5, <1>6, Counting
<1>8. ASSUME NEW j \in 1..Len(s), NEW k \in 1..Len(s), j < k PROVE s[j] # s[k]
  <2>1. k - j - 1 \in Done
    <3>1. k - j - 1 \in Nat
      BY <1>8
    <3> HIDE DEF Done
    <3> QED BY <1>7, <3>1
  <2>2. j + (k - j - 1) + 1 = k
    BY <1>8
  <2>3. r[s[j]] < r[s[k]]
    BY <1>8, <2>1, <2>2
  <2>4. r[s[j]] \in Nat
    BY <1>1, <1>3, <1>8
  <2> QED BY <2>3, <2>4
<1> QED BY <1>8

\* There is no room for more.
LEMMA ChainShort ==
  ASSUME NEW m, NEW head, NEW end, NEW S, ListOf(m, head, end, S), NEW s, Chain(m, head, S, s), Steps16(S)
  PROVE  Len(s) <= MaxBlocks
<1>1. s \in Seq(S) /\ Len(s) \in Nat /\ \A k \in 1..Len(s) : s[k] \in S
  BY LenProperties, ElementOfSeq DEF Chain
<1>2. \A j, k \in 1..Len(s) : j # k => s[j] # s[k]
  BY ChainRises
<1>3. MaxBlocks = MaxHeap \div 16 /\ MaxHeap \in Nat /\ MaxBlocks \in Nat
  BY HeapWordsAssumption DEF MaxBlocks, DSIZE
<1> DEFINE f == [k \in 1..Len(s) |-> s[k] \div 16]
           T == 0..MaxBlocks - 1
<1>4. \A x \in S : x \in Nat /\ x \div 16 \in T
  <2>1. ASSUME NEW x \in Nat, x + 16 <= MaxHeap PROVE x \div 16 \in 0..(MaxHeap \div 16) - 1
    BY <1>3, <2>1
  <2> QED BY <1>3, <2>1 DEF Steps16
<1>5. f \in [1..Len(s) -> T]
  BY <1>1, <1>4
<1>6. \A j, k \in 1..Len(s) : j # k => f[j] # f[k]
  <2> SUFFICES ASSUME NEW j \in 1..Len(s), NEW k \in 1..Len(s), j # k PROVE s[j] \div 16 # s[k] \div 16
    OBVIOUS
  <2>1. s[j] \in Nat /\ s[k] \in Nat /\ (s[j] + 16 <= s[k] \/ s[k] + 16 <= s[j])
    BY <1>1, <1>2 DEF Steps16
  <2> QED BY <2>1
<1>7. IsFiniteSet(1..Len(s)) /\ Cardinality(1..Len(s)) = Len(s)
  <2>1. ASSUME NEW n \in Nat PROVE IsFiniteSet(1..n) /\ Cardinality(1..n) = n
    BY FS_Interval
  <2> QED BY <1>1, <2>1
<1>8. IsFiniteSet(T) /\ Cardinality(T) = MaxBlocks
  BY <1>3, FS_Interval
<1> SUFFICES ASSUME MaxBlocks < Len(s) PROVE FALSE
  BY <1>1, <1>3
<1> HIDE DEF f, T
<1>9. \E j, k \in 1..Len(s) : j # k /\ f[j] = f[k]
  BY <1>5, <1>7, <1>8, FS_PigeonHole
<1> QED BY <1>6, <1>9

\* Who has come to the end has met every block.
Complete(m, S, s) ==
  /\ s \in Seq(S) /\ {s[k] : k \in DOMAIN s} = S
  /\ \A k \in DOMAIN s : m[s[k]] = IF k = 1 THEN 0 ELSE s[k - 1]

\* A walk that ended has met every block of the list.
LEMMA ChainComplete ==
  ASSUME NEW m, NEW head, NEW end, NEW S, ListOf(m, head, end, S), end \notin S, 0 \notin S,
         NEW s, Chain(m, head, S, s), After(m, head, s) = end
  PROVE  Complete(m, S, s)
<1>1. s \in Seq(S) /\ Len(s) \in Nat /\ (\A k \in 1..Len(s) : s[k] \in S) /\ DOMAIN s = 1..Len(s)
  BY LenProperties, ElementOfSeq DEF Chain
<1>2. PICK r : Ranked(m, S, r)
  BY DEF ListOf
<1>3. \A x \in S : r[x] \in Nat /\ (m[x + 4] \in S => r[x] < r[m[x + 4]])
  BY <1>2 DEF Ranked
<1>4. /\ \A x \in S : m[x] \in S \cup {0}
      /\ \A x \in S : m[x] = 0 <=> x = head
      /\ \A x, y \in S : m[x + 4] = y <=> m[y] = x
      /\ head \in S \cup {end}
  BY DEF ListOf
<1>5. \A k \in 1..Len(s) : k # Len(s) => m[s[k] + 4] = s[k + 1]
  BY DEF Chain
<1> DEFINE R == {s[k] : k \in 1..Len(s)}
           Missed == {n \in Nat : \E x \in S \ R : r[x] = n}
<1>8. Len(s) \in Nat
  BY <1>1
<1>6. R = S
  <2> SUFFICES ASSUME NEW x0 \in S, x0 \notin R PROVE FALSE
    BY <1>1
  <2>1. Missed \in SUBSET Nat /\ Missed # {}
    BY <1>3
  <2>2. PICK n \in Missed : \A j \in Missed : n <= j
    <3> HIDE DEF Missed
    <3> QED BY <2>1, LeastMember
  <2>3. PICK x \in S \ R : r[x] = n
    OBVIOUS
  <2>4. \A y \in S \ R : ~(r[y] < r[x])
    BY <1>3, <2>2, <2>3
  <2>5. CASE m[x] = 0
    <3>1. x = head /\ head # end
      BY <1>4, <2>3, <2>5
    <3>2. s # << >>
      BY <3>1 DEF After
    <3>3. 1 \in 1..Len(s) /\ s[1] = head
      <4>1. Len(s) # 0
        BY <1>1, <3>2, EmptySeq
      <4> QED BY <1>8, <3>2, <4>1 DEF Chain
    <3> QED BY <2>3, <3>1, <3>3
  <2>6. CASE m[x] # 0
    <3> DEFINE p == m[x]
    <3>1. p \in S /\ m[p + 4] = x
      BY <1>4, <2>3, <2>6
    <3>2. r[p] < r[x]
      BY <1>3, <2>3, <3>1
    <3>3. p \in R
      BY <2>4, <3>1, <3>2
    <3>4. PICK k \in 1..Len(s) : s[k] = p
      BY <3>3
    <3>5. CASE k = Len(s)
      <4>1. s # << >>
        BY <1>1, <3>4
      <4>2. m[p + 4] = end
        BY <3>4, <3>5, <4>1 DEF After
      <4> QED BY <2>3, <3>1, <4>2
    <3>6. CASE k # Len(s)
      <4> HIDE DEF p
      <4>1. k + 1 \in 1..Len(s)
        BY <1>8, <3>6
      <4>2. m[s[k] + 4] = s[k + 1]
        BY <1>5, <3>6
      <4>3. s[k + 1] = x
        BY <3>1, <3>4, <4>2
      <4> QED BY <2>3, <4>1, <4>3
    <3> QED BY <3>5, <3>6
  <2> QED BY <2>5, <2>6
<1>7. ASSUME NEW k \in 1..Len(s) PROVE m[s[k]] = IF k = 1 THEN 0 ELSE s[k - 1]
  <2>1. CASE k = 1
    <3>1. s # << >>
      BY <1>1, <2>1
    <3>2. s[1] = head /\ head \in S
      BY <1>1, <2>1, <3>1 DEF Chain
    <3> QED BY <1>4, <2>1, <3>2
  <2>2. CASE k # 1
    <3>1. k - 1 \in 1..Len(s) /\ k - 1 # Len(s) /\ (k - 1) + 1 = k
      BY <1>1, <2>2
    <3>2. m[s[k - 1] + 4] = s[k]
      BY <1>5, <3>1
    <3>3. s[k - 1] \in S /\ s[k] \in S
      BY <1>1, <3>1
    <3> QED BY <1>4, <2>2, <3>2, <3>3
  <2> QED BY <2>1, <2>2
<1> QED BY <1>1, <1>6, <1>7 DEF Complete

\* The blocks of a list are apart.
LEMMA FilesSpaced ==
  ASSUME NEW a \in Listed, NEW h, NEW bs, Row(h, ListsFirst(a), bs), NEW i \in Classes(a)
  PROVE  Steps16(Files(a, bs)[i])
<1>1. /\ \A b \in bs : Fine(b) /\ Stop(b) <= h.brk
      /\ \A b, c \in bs : b = c \/ Apart(b, c)
      /\ h.brk \in Nat /\ h.brk <= MaxHeap /\ MaxHeap \in Nat
  BY HeapWordsAssumption DEF Row, Tiles, Fitted, Aligned
<1>2. \A b \in bs : b.at \in Nat /\ Stop(b) \in Nat /\ b.at + 16 <= Stop(b) /\ b.at + 16 <= MaxHeap
  BY <1>1 DEF Fine, Stop
<1>3. \A b, c \in bs : b.at = c.at \/ b.at + 16 <= c.at \/ c.at + 16 <= b.at
  BY <1>1, <1>2 DEF Apart
<1>4. \A x \in Files(a, bs)[i] : \E b \in bs : b.at = x
  BY DEF Files, OfClass
<1> QED BY <1>2, <1>3, <1>4 DEF Steps16

\* A walk ends where a list does: at NULL, in lab2 at the prologue.
LEMMA EndIs ==
  ASSUME NEW a \in Listed, NEW h, NEW bs, Row(h, ListsFirst(a), bs), NEW i \in Classes(a),
         NEW x \in Files(a, bs)[i] \cup {Stops(a)}
  PROVE  /\ Ends(a, h, x) <=> x = Stops(a)
         /\ 0 \notin Files(a, bs)[i] /\ Stops(a) \notin Files(a, bs)[i]
<1>1. Files(a, bs)[i] \subseteq Nodes(a)
  <2>1. bs \in SUBSET bs
    OBVIOUS
  <2> QED BY <2>1, FilesFiled DEF Filed
<1>2. 0 \notin Files(a, bs)[i] /\ Stops(a) \notin Files(a, bs)[i]
  BY <1>1, NodesAre
<1>3. CASE x \in Files(a, bs)[i]
  <2>1. PICK c \in bs : ~c.used /\ c.at = x
    BY <1>3 DEF Files, OfClass
  <2>2. ~IsAlloc(h, x)
    BY <2>1, Reads
  <2>3. x # 0 /\ x # Stops(a)
    BY <1>2, <1>3
  <2> QED BY <1>2, <2>2, <2>3 DEF Ends, NULL
<1>4. CASE x = Stops(a)
  <2>1. CASE a = "lab2"
    <3>1. h.mem[4] = ListsFirst(a) - 7 /\ Aligned(ListsFirst(a)) /\ ListsFirst(a) >= 24
      BY FirstIs DEF Row, Walls
    <3>2. ListsFirst(a) \in Nat /\ ListsFirst(a) % 8 = 0
      BY <3>1 DEF Aligned
    <3>3. (ListsFirst(a) - 7) % 2 = 1
      BY <3>1, <3>2
    <3>4. IsAlloc(h, 8)
      BY <3>1, <3>3 DEF IsAlloc, AllocAt, Hdrp, WSIZE
    <3> QED BY <1>2, <1>4, <2>1, <3>4 DEF Ends, Stops
  <2>2. CASE a # "lab2"
    BY <1>2, <1>4, <2>2 DEF Ends, Stops, NULL
  <2> QED BY <2>1, <2>2
<1> QED BY <1>3, <1>4

\* List is the whole list, in the order of its links.
LEMMA ListIs ==
  ASSUME NEW a \in Listed, NEW h, NEW bs, Row(h, ListsFirst(a), bs), Lists(a, h, Files(a, bs)),
         NEW i \in Classes(a)
  PROVE  Complete(h.mem, Files(a, bs)[i], List(a, h, i))
<1> DEFINE m == h.mem
           S == Files(a, bs)[i]
           head == FreeListp(a, h, i)
           e == Stops(a)
           N == MaxBlocks
           Body(g) ==
             [k \in 0..N |->
                LET s == IF k = 0 THEN << >> ELSE g[k-1]
                    bp == IF s = << >> THEN FreeListp(a, h, i) ELSE NextFree(h, s[Len(s)])
                IN  IF Ends(a, h, bp) THEN s ELSE Append(s, bp)]
           Met == CHOOSE g : g = Body(g)
           Adv(s) == IF Ends(a, h, After(m, head, s)) THEN s ELSE Append(s, After(m, head, s))
           C == {s \in Seq(S) : Chain(m, head, S, s)}
           step == [s \in C |-> Adv(s)]
<1>1. N \in Nat
  BY HeapWordsAssumption DEF MaxBlocks, DSIZE
<1>2. ListOf(m, head, e, S)
  BY DEF Lists
<1>3. e \notin S /\ 0 \notin S /\ \A x \in S \cup {e} : Ends(a, h, x) <=> x = e
  BY EndIs
<1>4. List(a, h, i) = Met[N]
  BY DEF List
<1>5. \A s : (LET bp == IF s = << >> THEN FreeListp(a, h, i) ELSE NextFree(h, s[Len(s)])
              IN  IF Ends(a, h, bp) THEN s ELSE Append(s, bp)) = Adv(s)
  BY DEF After, NextFree, WSIZE
<1>6. \A g : Body(g) = [k \in 0..N |-> Adv(IF k = 0 THEN << >> ELSE g[k-1])]
  <2> HIDE DEF Adv
  <2> QED BY <1>5
<1> HIDE DEF Body, m, S, head, e, N
<1>7. ASSUME NEW s \in C
      PROVE  /\ Adv(s) \in C
             /\ After(m, head, s) # e => Len(Adv(s)) = Len(s) + 1
             /\ After(m, head, s) = e => Adv(s) = s
  <2>0. Chain(m, head, S, s)
    OBVIOUS
  <2>1. /\ After(m, head, s) \in S \cup {e}
        /\ After(m, head, s) \in S => /\ Chain(m, head, S, Append(s, After(m, head, s)))
                                      /\ Len(Append(s, After(m, head, s))) = Len(s) + 1
    BY <1>2, <2>0, ChainSteps
  <2>2. CASE After(m, head, s) = e
    BY <1>3, <2>1, <2>2
  <2>3. CASE After(m, head, s) # e
    <3>1. Adv(s) = Append(s, After(m, head, s)) /\ After(m, head, s) \in S
      BY <1>3, <2>1, <2>3
    <3>2. Chain(m, head, S, Adv(s)) /\ Len(Adv(s)) = Len(s) + 1
      BY <2>1, <3>1
    <3>3. Adv(s) \in Seq(S)
      BY <3>2 DEF Chain
    <3> HIDE DEF Adv
    <3> QED BY <2>3, <3>2, <3>3
  <2> QED BY <2>2, <2>3
<1>8. << >> \in C /\ Len(<< >>) = 0
  BY DEF Chain
<1> HIDE DEF C, Adv
<1>9. Met = Body(Met)
  <2>1. Adv(<< >>) \in C
    BY <1>7, <1>8
  <2>2. step \in [C -> C]
    BY <1>7
  <2> HIDE DEF step
  <2>3. PICK f \in [0..N -> C] : Iterated(f, Adv(<< >>), step, N)
    BY <1>1, <2>1, <2>2, Iterates
  <2>4. f = [n \in 0..N |-> IF n = 0 THEN Adv(<< >>) ELSE step[f[n-1]]]
    BY <2>3 DEF Iterated
  <2>5. ASSUME NEW n \in 0..N PROVE f[n] = Adv(IF n = 0 THEN << >> ELSE f[n-1])
    <3>1. CASE n = 0
      BY <2>4, <3>1
    <3>2. CASE n # 0
      <4>1. n - 1 \in 0..N
        BY <1>1, <3>2
      <4>2. f[n - 1] \in C
        BY <2>3, <4>1
      <4>3. f[n] = step[f[n - 1]]
        BY <2>4, <3>2
      <4> QED BY <3>2, <4>2, <4>3 DEF step
    <3> QED BY <3>1, <3>2
  <2>6. f = [n \in 0..N |-> f[n]]
    BY <2>3
  <2>7. f = Body(f)
    BY <1>6, <2>5, <2>6
  <2> QED BY <2>7
<1>10. \A k \in 0..N : Met[k] = Adv(IF k = 0 THEN << >> ELSE Met[k-1])
  <2>1. Met = [k \in 0..N |-> Adv(IF k = 0 THEN << >> ELSE Met[k-1])]
    BY <1>6, <1>9
  <2> HIDE DEF Met
  <2> QED BY <2>1
<1> HIDE DEF Met, step
<1> DEFINE Good(k) == k <= N => /\ Met[k] \in C
                                /\ Len(Met[k]) = k + 1 \/ After(m, head, Met[k]) = e
           Done == {k \in Nat : Good(k)}
<1>11. 0 \in Done
  <2>1. Met[0] = Adv(<< >>)
    BY <1>1, <1>10
  <2>2. Met[0] \in C
    BY <1>7, <1>8, <2>1
  <2>3. CASE After(m, head, << >>) = e
    <3>1. Met[0] = << >>
      BY <1>7, <1>8, <2>1, <2>3
    <3> QED BY <2>2, <2>3, <3>1
  <2>4. CASE After(m, head, << >>) # e
    <3>1. Len(Met[0]) = Len(<< >>) + 1
      BY <1>7, <1>8, <2>1, <2>4
    <3>2. Len(Met[0]) = 0 + 1
      BY <1>8, <3>1
    <3> QED BY <2>2, <3>2
  <2> QED BY <2>3, <2>4
<1>12. ASSUME NEW k \in Nat \cap Done PROVE k + 1 \in Done
  <2> SUFFICES ASSUME k + 1 <= N PROVE /\ Met[k + 1] \in C
                                       /\ Len(Met[k + 1]) = (k + 1) + 1 \/ After(m, head, Met[k + 1]) = e
    OBVIOUS
  <2>1. Met[k] \in C /\ (Len(Met[k]) = k + 1 \/ After(m, head, Met[k]) = e)
    BY <1>1, <1>12
  <2>2. k + 1 \in 0..N /\ k + 1 # 0 /\ (k + 1) - 1 = k
    BY <1>1
  <2>3. Met[k + 1] = Adv(Met[k])
    BY <1>10, <2>2
  <2> QED BY <1>7, <2>1, <2>3
<1>13. Good(N)
  <2>1. Nat \subseteq Done
    <3> HIDE DEF Done
    <3> QED BY <1>11, <1>12, Counting
  <2> QED BY <1>1, <2>1
<1>14. Chain(m, head, S, Met[N]) /\ After(m, head, Met[N]) = e
  <2>1. Met[N] \in C /\ (Len(Met[N]) = N + 1 \/ After(m, head, Met[N]) = e)
    BY <1>1, <1>13
  <2>2. Chain(m, head, S, Met[N])
    BY <2>1 DEF C
  <2>3. Len(Met[N]) <= N
    <3>1. Steps16(S)
      BY FilesSpaced DEF S
    <3> QED BY <1>2, <2>2, <3>1, ChainShort DEF N
  <2> QED BY <1>1, <2>1, <2>2, <2>3
<1>15. Complete(m, S, Met[N])
  BY <1>2, <1>3, <1>14, ChainComplete
<1> QED BY <1>4, <1>15 DEF m, S

(***************************************************************************)
(* What the headers describe.                                              *)
(***************************************************************************)
IsRecord(h, c) ==
  /\ c \in [at : Nat, size : Nat, used : BOOLEAN]
  /\ c.at - 4 \in Words /\ BlockSize(h, c.at) = c.size /\ c.size > 0 /\ (IsAlloc(h, c.at) <=> c.used)
Walkable(h, first, cs) ==
  /\ \A c \in cs :
       /\ IsRecord(h, c) /\ c.at \div 16 <= MaxBlocks
       /\ c.at = first \/ \E d \in cs : Stop(d) = c.at /\ d.at \div 16 < c.at \div 16
       /\ Stop(c) = h.brk \/ \E d \in cs : d.at = Stop(c)
  /\ first = h.brk \/ \E c \in cs : c.at = first
  /\ ~IsBlock(h, h.brk)

\* A walk by the sizes from one block to the epilogue meets exactly the blocks.
LEMMA WalkIs ==
  ASSUME NEW h, NEW first, NEW cs, Walkable(h, first, cs)
  PROVE  Blocks(h, first) = cs
<1> DEFINE N == MaxBlocks
           A == {c.at : c \in cs} \cup {first, h.brk}
           Onward(R) == {first} \cup {NextBp(h, bp) : bp \in {p \in R : IsBlock(h, p)}}
           Body(g) == [k \in 0..N |-> IF k = 0 THEN {first}
                         ELSE {first} \cup {NextBp(h, bp) : bp \in {p \in g[k-1] : IsBlock(h, p)}}]
           Reached == CHOOSE g : g = Body(g)
           step == [R \in SUBSET A |-> Onward(R)]
           Read(bp) == [at |-> bp, size |-> BlockSize(h, bp), used |-> IsAlloc(h, bp)]
<1>1. N \in Nat
  BY HeapWordsAssumption DEF MaxBlocks, DSIZE
<1>2. Blocks(h, first) = {Read(bp) : bp \in {p \in Reached[N] : IsBlock(h, p)}}
  BY DEF Blocks
<1>3. \A c \in cs : /\ IsBlock(h, c.at) /\ NextBp(h, c.at) = Stop(c) /\ Read(c.at) = c /\ c.at \in Nat
                    /\ c.at \div 16 \in 0..N
  <2> SUFFICES ASSUME NEW c \in cs
               PROVE  /\ IsBlock(h, c.at) /\ NextBp(h, c.at) = Stop(c) /\ Read(c.at) = c /\ c.at \in Nat
                      /\ c.at \div 16 \in 0..N
    OBVIOUS
  <2>1. /\ c \in [at : Nat, size : Nat, used : BOOLEAN] /\ c.at - 4 \in Words
        /\ BlockSize(h, c.at) = c.size /\ c.size > 0 /\ (IsAlloc(h, c.at) <=> c.used)
        /\ c.at \div 16 <= MaxBlocks
    BY DEF Walkable, IsRecord
  <2>2. IsBlock(h, c.at) /\ NextBp(h, c.at) = Stop(c) /\ c.at \in Nat
    BY <2>1 DEF IsBlock, Hdrp, WSIZE, NextBp, Stop
  <2>3. IsAlloc(h, c.at) = c.used
    <3>1. IsAlloc(h, c.at) \in BOOLEAN /\ c.used \in BOOLEAN
      BY <2>1 DEF IsAlloc
    <3> QED BY <2>1, <3>1
  <2>4. c.at \div 16 \in 0..N
    BY <1>1, <2>1, <2>2
  <2>5. Read(c.at) = c
    BY <2>1, <2>3
  <2> QED BY <2>2, <2>4, <2>5
<1>4. \A p \in A : IsBlock(h, p) => \E c \in cs : c.at = p
  BY DEF Walkable
<1> HIDE DEF N, Read
<1>5. ASSUME NEW R \in SUBSET A PROVE Onward(R) \in SUBSET A
  <2>1. ASSUME NEW p \in R, IsBlock(h, p) PROVE NextBp(h, p) \in A
    <3>1. PICK c \in cs : c.at = p
      BY <1>4, <2>1
    <3>2. NextBp(h, p) = Stop(c)
      BY <1>3, <3>1
    <3>3. Stop(c) = h.brk \/ \E d \in cs : d.at = Stop(c)
      BY DEF Walkable
    <3> QED BY <3>2, <3>3
  <2> QED BY <2>1
<1>6. \A g : Body(g) = [k \in 0..N |-> IF k = 0 THEN {first} ELSE Onward(g[k-1])]
  OBVIOUS
<1> HIDE DEF Body, Onward
<1>7. {first} \in SUBSET A
  OBVIOUS
<1> HIDE DEF A
<1>8. Reached = Body(Reached)
  <2>1. step \in [SUBSET A -> SUBSET A]
    BY <1>5
  <2> HIDE DEF step
  <2>2. PICK f \in [0..N -> SUBSET A] : Iterated(f, {first}, step, N)
    <3> DEFINE P == SUBSET A
               z == {first}
    <3>1. z \in P /\ step \in [P -> P]
      BY <1>7, <2>1
    <3> HIDE DEF P, z
    <3>2. \E f \in [0..N -> P] : Iterated(f, z, step, N)
      BY <1>1, <3>1, Iterates
    <3> QED BY <3>2 DEF P, z
  <2>3. f = [n \in 0..N |-> IF n = 0 THEN {first} ELSE step[f[n-1]]]
    BY <2>2 DEF Iterated
  <2>4. ASSUME NEW n \in 0..N PROVE f[n] = IF n = 0 THEN {first} ELSE Onward(f[n-1])
    <3>1. CASE n = 0
      BY <2>3, <3>1
    <3>2. CASE n # 0
      <4>1. n - 1 \in 0..N
        BY <1>1, <3>2
      <4>2. f[n - 1] \in SUBSET A
        BY <2>2, <4>1
      <4>3. f[n] = step[f[n - 1]]
        BY <2>3, <3>2
      <4> QED BY <3>2, <4>2, <4>3 DEF step
    <3> QED BY <3>1, <3>2
  <2>5. f = [n \in 0..N |-> f[n]]
    BY <2>2
  <2>6. f = Body(f)
    BY <1>6, <2>4, <2>5
  <2> QED BY <2>6
<1>9. \A k \in 0..N : Reached[k] = IF k = 0 THEN {first} ELSE Onward(Reached[k-1])
  <2>1. Reached = [k \in 0..N |-> IF k = 0 THEN {first} ELSE Onward(Reached[k-1])]
    BY <1>6, <1>8
  <2> HIDE DEF Reached
  <2> QED BY <2>1
<1> HIDE DEF Reached, step
<1> DEFINE Good(k) == k <= N => /\ Reached[k] \in SUBSET A
                                /\ \A c \in cs : c.at \div 16 <= k => c.at \in Reached[k]
           Done == {k \in Nat : Good(k)}
<1>10. \A c \in cs : c.at = first \/ \E d \in cs : Stop(d) = c.at /\ d.at \div 16 < c.at \div 16
  BY DEF Walkable
<1>11. 0 \in Done
  <2>1. Reached[0] = {first}
    BY <1>1, <1>9
  <2>2. ASSUME NEW c \in cs, c.at \div 16 <= 0 PROVE c.at \in Reached[0]
    <3>1. \A d \in cs : d.at \div 16 \in 0..N
      BY <1>3
    <3>2. ~(\E d \in cs : d.at \div 16 < c.at \div 16)
      BY <1>1, <2>2, <3>1
    <3> QED BY <1>10, <2>1, <3>2
  <2> QED BY <1>7, <2>1, <2>2
<1>12. ASSUME NEW k \in Nat \cap Done PROVE k + 1 \in Done
  <2> SUFFICES ASSUME k + 1 <= N
               PROVE  /\ Reached[k + 1] \in SUBSET A
                      /\ \A c \in cs : c.at \div 16 <= k + 1 => c.at \in Reached[k + 1]
    OBVIOUS
  <2>1. Reached[k] \in SUBSET A /\ \A c \in cs : c.at \div 16 <= k => c.at \in Reached[k]
    BY <1>1, <1>12
  <2>2. k + 1 \in 0..N /\ k + 1 # 0 /\ (k + 1) - 1 = k
    BY <1>1
  <2>3. Reached[k + 1] = Onward(Reached[k])
    BY <1>9, <2>2
  <2>4. Reached[k + 1] \in SUBSET A
    BY <1>5, <2>1, <2>3
  <2>5. ASSUME NEW c \in cs, c.at \div 16 <= k + 1 PROVE c.at \in Reached[k + 1]
    <3>1. CASE c.at = first
      BY <2>3, <3>1 DEF Onward
    <3>2. CASE c.at # first
      <4>1. PICK d \in cs : Stop(d) = c.at /\ d.at \div 16 < c.at \div 16
        BY <1>10, <3>2
      <4>2. d.at \div 16 <= k
        <5>1. d.at \div 16 \in 0..N /\ c.at \div 16 \in 0..N
          BY <1>3
        <5> QED BY <1>1, <2>5, <4>1, <5>1
      <4>3. d.at \in Reached[k] /\ IsBlock(h, d.at) /\ NextBp(h, d.at) = c.at
        BY <1>3, <2>1, <4>1, <4>2
      <4>4. c.at \in Onward(Reached[k])
        BY <4>3 DEF Onward
      <4> QED BY <2>3, <4>4
    <3> QED BY <3>1, <3>2
  <2> QED BY <2>4, <2>5
<1>13. Reached[N] \in SUBSET A /\ \A c \in cs : c.at \in Reached[N]
  <2>1. Nat \subseteq Done
    <3> HIDE DEF Done
    <3> QED BY <1>11, <1>12, Counting
  <2>2. Good(N)
    BY <1>1, <2>1
  <2> QED BY <1>1, <1>3, <2>2
<1>14. \A p \in Reached[N] : IsBlock(h, p) => \E c \in cs : c.at = p
  BY <1>4, <1>13
<1>15. {Read(bp) : bp \in {p \in Reached[N] : IsBlock(h, p)}} = cs
  BY <1>3, <1>13, <1>14
<1> QED BY <1>2, <1>15

\* The blocks of a row.
LEMMA RowRecords ==
  ASSUME NEW h, NEW f, NEW bs, Row(h, f, bs)
  PROVE  /\ \A c \in bs : IsRecord(h, c) /\ c.at \div 16 <= MaxBlocks
         /\ \A c \in bs : c.at = f \/ \E d \in bs : Stop(d) = c.at /\ d.at \div 16 < c.at \div 16
         /\ \A c \in bs : Stop(c) = h.brk \/ \E d \in bs : d.at = Stop(c)
         /\ f = h.brk \/ \E c \in bs : c.at = f
         /\ ~IsBlock(h, h.brk)
<1>1. /\ \A c \in bs : Fine(c) /\ f <= c.at /\ Stop(c) <= h.brk
      /\ \A p \in Nat : f <= p /\ p < h.brk => \E c \in bs : c.at <= p /\ p < Stop(c)
      /\ f \in Nat /\ h.brk \in Nat /\ f <= h.brk /\ h.brk <= MaxHeap /\ MaxHeap \in Nat
      /\ h.mem[h.brk - 4] = 1
  BY HeapWordsAssumption DEF Row, Tiles, Fitted, Aligned, Walls
<1>2. \A c \in bs : /\ c.at \in Nat /\ Stop(c) \in Nat /\ c.at + 16 <= Stop(c) /\ c.size > 0
                    /\ c \in [at : Nat, size : Nat, used : BOOLEAN]
  BY <1>1 DEF Fine, Stop
<1>3. \A c \in bs : IsRecord(h, c)
  <2>1. \A c \in bs : c.at - 4 \in Words
    BY RowWords
  <2> QED BY <1>2, <2>1, Reads DEF IsRecord
<1>4. \A c \in bs : c.at \div 16 <= MaxBlocks
  <2>1. MaxBlocks = MaxHeap \div 16
    BY DEF MaxBlocks, DSIZE
  <2>2. \A x \in Nat : x <= MaxHeap => x \div 16 <= MaxHeap \div 16
    BY <1>1
  <2> QED BY <1>1, <1>2, <2>1, <2>2
<1>5. ASSUME NEW c \in bs, c.at # f PROVE \E d \in bs : Stop(d) = c.at /\ d.at \div 16 < c.at \div 16
  <2>1. PICK d \in bs : Stop(d) = c.at
    BY <1>5, PrevTo
  <2>2. d.at \div 16 < c.at \div 16
    <3>1. \A x, y \in Nat : x + 16 <= y => x \div 16 < y \div 16
      OBVIOUS
    <3> QED BY <1>2, <2>1, <3>1
  <2> QED BY <2>1, <2>2
<1>6. \A c \in bs : Stop(c) = h.brk \/ \E d \in bs : d.at = Stop(c)
  BY NextTo
<1>7. ASSUME f # h.brk PROVE \E c \in bs : c.at = f
  BY <1>1, <1>2, <1>7
<1>8. ~IsBlock(h, h.brk)
  BY <1>1 DEF IsBlock, BlockSize, SizeAt, Hdrp, WSIZE, DSIZE
<1> QED BY <1>3, <1>4, <1>5, <1>6, <1>7, <1>8

\* The headers describe the blocks of the row.
LEMMA BlocksAre ==
  ASSUME NEW h, NEW f, NEW bs, Row(h, f, bs)
  PROVE  Blocks(h, f) = bs
<1>1. Walkable(h, f, bs)
  BY RowRecords DEF Walkable
<1> QED BY <1>1, WalkIs

\* best_fit of lab1 starts at the prologue.
LEMMA BlocksFromPrologue ==
  ASSUME NEW h, NEW f, NEW bs, Row(h, f, bs)
  PROVE  Blocks(h, 8) = bs \cup {[at |-> 8, size |-> f - 8, used |-> TRUE]}
<1> DEFINE p == [at |-> 8, size |-> f - 8, used |-> TRUE]
           cs == bs \cup {p}
<1>1. f \in Nat /\ f % 8 = 0 /\ f >= 16 /\ h.mem[4] = f - 7
  BY DEF Row, Fitted, Walls, Aligned
<1>2. IsRecord(h, p)
  <2>1. ((f - 7) \div 8) * 8 = f - 8 /\ (f - 7) % 2 = 1
    BY <1>1
  <2>2. BlockSize(h, 8) = f - 8 /\ IsAlloc(h, 8)
    BY <1>1, <2>1 DEF BlockSize, SizeAt, IsAlloc, AllocAt, Hdrp, WSIZE, DSIZE
  <2>3. 8 - 4 \in Words
    BY RowWords
  <2>4. p.at = 8 /\ p.size = f - 8 /\ p.used = TRUE /\ f - 8 \in Nat /\ f - 8 > 0
    BY <1>1
  <2> QED BY <2>2, <2>3, <2>4 DEF IsRecord
<1>3. /\ \A c \in bs : IsRecord(h, c) /\ c.at \div 16 <= MaxBlocks
      /\ \A c \in bs : c.at = f \/ \E d \in bs : Stop(d) = c.at /\ d.at \div 16 < c.at \div 16
      /\ \A c \in bs : Stop(c) = h.brk \/ \E d \in bs : d.at = Stop(c)
      /\ f = h.brk \/ \E c \in bs : c.at = f
      /\ ~IsBlock(h, h.brk)
  BY RowRecords
<1>4. p.at = 8 /\ Stop(p) = f /\ p.at \div 16 = 0 /\ 0 < f \div 16 /\ 0 <= MaxBlocks
  <2>1. Stop(p) = f
    BY <1>1 DEF Stop
  <2>2. 0 < f \div 16
    BY <1>1
  <2> QED BY <2>1, <2>2, HeapWordsAssumption DEF MaxBlocks, DSIZE
<1>5. p \in cs
  OBVIOUS
<1> HIDE DEF p
<1>6. \A c \in bs : c.at = f => Stop(p) = c.at /\ p.at \div 16 < c.at \div 16
  BY <1>4
<1>7. Walkable(h, 8, cs)
  <2>1. \A c \in cs : IsRecord(h, c) /\ c.at \div 16 <= MaxBlocks
    BY <1>2, <1>3, <1>4
  <2>2. \A c \in cs : c.at = 8 \/ \E d \in cs : Stop(d) = c.at /\ d.at \div 16 < c.at \div 16
    BY <1>3, <1>4, <1>6
  <2>3. \A c \in cs : Stop(c) = h.brk \/ \E d \in cs : d.at = Stop(c)
    BY <1>3, <1>4
  <2>4. 8 = h.brk \/ \E c \in cs : c.at = 8
    BY <1>4, <1>5
  <2> QED BY <1>3, <2>1, <2>2, <2>3, <2>4 DEF Walkable
<1>8. Blocks(h, 8) = cs
  <2> HIDE DEF cs
  <2> QED BY <1>7, WalkIs
<1> QED BY <1>8 DEF p

(***************************************************************************)
(* best_fit.                                                               *)
(***************************************************************************)
Able(bs, n) == {b \in bs : ~b.used /\ n <= b.size}
Smallest(bs, n) == {b \in Able(bs, n) : \A c \in Able(bs, n) : b.size <= c.size}
Found(bs, n, r) == IF Able(bs, n) = {} THEN r = 0 ELSE \E c \in Smallest(bs, n) : r = c.at

\* The smallest by a size, and then by a place.
LEMMA Choices ==
  ASSUME NEW K, K # {}, NEW v, NEW w, \A k \in K : v[k] \in Nat /\ w[k] \in Nat
  PROVE  \E k \in K : \A j \in K : v[k] < v[j] \/ (v[k] = v[j] /\ w[k] <= w[j])
<1> DEFINE V == {v[k] : k \in K}
<1>1. V \in SUBSET Nat /\ V # {}
  OBVIOUS
<1>2. PICK x \in V : \A y \in V : x <= y
  <2> HIDE DEF V
  <2> QED BY <1>1, LeastMember
<1> DEFINE W == {w[k] : k \in {j \in K : v[j] = x}}
<1>3. W \in SUBSET Nat /\ W # {}
  OBVIOUS
<1>4. PICK z \in W : \A y \in W : z <= y
  <2> HIDE DEF W
  <2> QED BY <1>3, LeastMember
<1>5. PICK k \in K : v[k] = x /\ w[k] = z
  OBVIOUS
<1>6. ASSUME NEW j \in K PROVE v[k] < v[j] \/ (v[k] = v[j] /\ w[k] <= w[j])
  <2>1. v[k] \in Nat /\ v[j] \in Nat /\ v[k] <= v[j]
    BY <1>2, <1>5
  <2>2. v[j] = x => w[k] <= w[j]
    BY <1>4, <1>5
  <2> QED BY <1>5, <2>1, <2>2
<1> QED BY <1>6

\* best_fit of lab1 finds a smallest block among all.
LEMMA ImplicitBestFitIs ==
  ASSUME NEW h, NEW f, NEW bs, Row(h, f, bs), NEW n \in Nat
  PROVE  Found(bs, n, ImplicitBestFit(h, n))
<1> DEFINE fits == {b \in Blocks(h, PrologueBp) : ~b.used /\ n <= b.size}
           best == CHOOSE b \in fits : \A c \in fits : b.size < c.size \/ (b.size = c.size /\ b.at <= c.at)
<1>1. fits = Able(bs, n)
  <2>1. Blocks(h, PrologueBp) = bs \cup {[at |-> 8, size |-> f - 8, used |-> TRUE]}
    BY BlocksFromPrologue DEF PrologueBp, DSIZE
  <2> QED BY <2>1 DEF Able
<1>2. ImplicitBestFit(h, n) = IF fits = {} THEN 0 ELSE best.at
  BY Zenon DEF ImplicitBestFit, NULL
<1>3. \A b \in bs : b.at \in Nat /\ b.size \in Nat
  BY DEF Row, Tiles, Fine
<1> HIDE DEF fits
<1>4. CASE fits = {}
  BY <1>1, <1>2, <1>4 DEF Found
<1>5. CASE fits # {}
  <2> DEFINE v == [b \in fits |-> b.size]
             w == [b \in fits |-> b.at]
  <2>1. \A k \in fits : v[k] = k.size /\ w[k] = k.at /\ v[k] \in Nat /\ w[k] \in Nat
    BY <1>1, <1>3 DEF Able
  <2> HIDE DEF v, w
  <2>2. \E k \in fits : \A j \in fits : v[k] < v[j] \/ (v[k] = v[j] /\ w[k] <= w[j])
    BY <1>5, <2>1, Choices
  <2>3. \E b \in fits : \A c \in fits : b.size < c.size \/ (b.size = c.size /\ b.at <= c.at)
    BY <2>1, <2>2
  <2>4. best \in fits /\ \A c \in fits : best.size < c.size \/ (best.size = c.size /\ best.at <= c.at)
    BY <2>3
  <2> HIDE DEF best
  <2>5. \A c \in fits : best.size <= c.size
    BY <1>1, <1>3, <2>4 DEF Able
  <2> QED BY <1>1, <1>2, <1>5, <2>4, <2>5 DEF Found, Smallest
<1> QED BY <1>4, <1>5

\* What a list says of the blocks of its class.
LEMMA ListMembers ==
  ASSUME NEW a \in Listed, NEW h, NEW bs, Row(h, ListsFirst(a), bs), Lists(a, h, Files(a, bs)),
         NEW i \in Classes(a)
  PROVE  /\ \A k \in DOMAIN List(a, h, i) :
              /\ k \in Nat
              /\ \E c \in bs : /\ ~c.used /\ GetClassIdx(a, c.size) = i /\ c.at = List(a, h, i)[k]
                               /\ BlockSize(h, List(a, h, i)[k]) = c.size
         /\ \A c \in bs : ~c.used /\ GetClassIdx(a, c.size) = i =>
              \E k \in DOMAIN List(a, h, i) : List(a, h, i)[k] = c.at /\ BlockSize(h, List(a, h, i)[k]) = c.size
<1> DEFINE s == List(a, h, i)
           S == Files(a, bs)[i]
<1>1. Complete(h.mem, S, s)
  BY ListIs
<1>2. \A x : x \in S <=> \E c \in bs : ~c.used /\ GetClassIdx(a, c.size) = i /\ c.at = x
  BY FilesAre
<1>3. \A c \in bs : BlockSize(h, c.at) = c.size
  BY Reads
<1> HIDE DEF s, S
<1>4. {s[k] : k \in DOMAIN s} = S /\ DOMAIN s \subseteq Nat
  <2>1. s \in Seq(S)
    BY <1>1 DEF Complete
  <2>2. DOMAIN s = 1..Len(s) /\ Len(s) \in Nat
    BY <2>1, LenProperties
  <2> QED BY <1>1, <2>2 DEF Complete
<1>5. ASSUME NEW k \in DOMAIN s
      PROVE  /\ k \in Nat
             /\ \E c \in bs : ~c.used /\ GetClassIdx(a, c.size) = i /\ c.at = s[k] /\ BlockSize(h, s[k]) = c.size
  <2>1. s[k] \in S
    BY <1>4
  <2>2. PICK c \in bs : ~c.used /\ GetClassIdx(a, c.size) = i /\ c.at = s[k]
    BY <1>2, <2>1
  <2>3. BlockSize(h, s[k]) = c.size
    BY <1>3, <2>2
  <2> QED BY <1>4, <2>2, <2>3
<1>6. ASSUME NEW c \in bs, ~c.used, GetClassIdx(a, c.size) = i
      PROVE  \E k \in DOMAIN s : s[k] = c.at /\ BlockSize(h, s[k]) = c.size
  <2>1. c.at \in S
    BY <1>2, <1>6
  <2>2. PICK k \in DOMAIN s : s[k] = c.at
    BY <1>4, <2>1
  <2>3. BlockSize(h, s[k]) = c.size
    BY <1>3, <2>2
  <2> QED BY <2>2, <2>3
<1> QED BY <1>5, <1>6 DEF s

\* best_fit of mm.c, lab3 and lab2: the smallest of the first class that has a fit is a smallest of all.
LEMMA ListsBestFitIs ==
  ASSUME NEW a \in Listed, NEW h, NEW bs, Row(h, ListsFirst(a), bs), Lists(a, h, Files(a, bs)),
         NEW n \in Nat, n # 0
  PROVE  Found(bs, n, ListsBestFit(a, h, n))
<1> DEFINE Fit(i) == Fitting(h, List(a, h, i), n)
           able == {i \in Classes(a) : GetClassIdx(a, n) <= i /\ Fit(i) # {}}
           i == CHOOSE i \in able : \A j \in able : i <= j
           bps == List(a, h, i)
           fits == Fitting(h, bps, n)
           best == CHOOSE k \in fits : \A j \in fits :
                     \/ BlockSize(h, bps[k]) < BlockSize(h, bps[j])
                     \/ BlockSize(h, bps[k]) = BlockSize(h, bps[j]) /\ k <= j
<1>1. ListsBestFit(a, h, n) = IF able = {} THEN 0 ELSE bps[best]
  BY Zenon DEF ListsBestFit, NULL
<1>2. \A b \in bs : b.at \in Nat /\ b.size \in Nat /\ b.size # 0
  BY DEF Row, Tiles, Fine
<1>3. ASSUME NEW j \in Classes(a)
      PROVE  /\ \A k \in Fit(j) : /\ k \in Nat /\ k \in DOMAIN List(a, h, j)
                                  /\ \E c \in bs : /\ ~c.used /\ GetClassIdx(a, c.size) = j /\ c.at = List(a, h, j)[k]
                                                   /\ BlockSize(h, List(a, h, j)[k]) = c.size /\ n <= c.size
             /\ \A c \in bs : ~c.used /\ GetClassIdx(a, c.size) = j /\ n <= c.size =>
                   \E k \in Fit(j) : List(a, h, j)[k] = c.at /\ BlockSize(h, List(a, h, j)[k]) = c.size
  <2> DEFINE s == List(a, h, j)
  <2>1. /\ \A k \in DOMAIN s : k \in Nat /\ \E c \in bs : ~c.used /\ GetClassIdx(a, c.size) = j /\ c.at = s[k] /\ BlockSize(h, s[k]) = c.size
        /\ \A c \in bs : ~c.used /\ GetClassIdx(a, c.size) = j => \E k \in DOMAIN s : s[k] = c.at /\ BlockSize(h, s[k]) = c.size
    BY ListMembers
  <2>2. Fit(j) = {k \in DOMAIN s : n <= BlockSize(h, s[k])}
    BY DEF Fitting
  <2> HIDE DEF s
  <2>3. ASSUME NEW k \in Fit(j)
        PROVE  k \in Nat /\ k \in DOMAIN s /\ \E c \in bs : ~c.used /\ GetClassIdx(a, c.size) = j /\ c.at = s[k]
                                                            /\ BlockSize(h, s[k]) = c.size /\ n <= c.size
    <3>1. k \in DOMAIN s /\ n <= BlockSize(h, s[k])
      BY <2>2
    <3> QED BY <2>1, <3>1
  <2>4. ASSUME NEW c \in bs, ~c.used, GetClassIdx(a, c.size) = j, n <= c.size
        PROVE  \E k \in Fit(j) : s[k] = c.at /\ BlockSize(h, s[k]) = c.size
    <3>1. PICK k \in DOMAIN s : s[k] = c.at /\ BlockSize(h, s[k]) = c.size
      BY <2>1, <2>4
    <3>2. k \in Fit(j)
      BY <2>2, <2>4, <3>1
    <3> QED BY <3>1, <3>2
  <2> QED BY <2>3, <2>4 DEF s
<1>4. \A c \in Able(bs, n) : GetClassIdx(a, c.size) \in able
  <2> SUFFICES ASSUME NEW c \in bs, ~c.used, n <= c.size PROVE GetClassIdx(a, c.size) \in able
    BY DEF Able
  <2>1. GetClassIdx(a, n) <= GetClassIdx(a, c.size) /\ GetClassIdx(a, c.size) \in Classes(a)
    BY <1>2, ClassIs
  <2>2. \E k \in Fit(GetClassIdx(a, c.size)) : TRUE
    <3> HIDE DEF Fit
    <3> QED BY <1>3, <2>1
  <2> HIDE DEF Fit
  <2> QED BY <2>1, <2>2
<1> HIDE DEF Fit
<1>5. CASE able = {}
  <2>1. Able(bs, n) = {}
    BY <1>4, <1>5
  <2> QED BY <1>1, <1>5, <2>1 DEF Found
<1>6. CASE able # {}
  <2>1. able \in SUBSET Nat
    <3>1. \A j \in Classes(a) : j \in Nat
      BY FirstIs
    <3> QED BY <3>1
  <2>2. \E k \in able : \A j \in able : k <= j
    <3> HIDE DEF able
    <3> QED BY <1>6, <2>1, LeastMember
  <2>3. i \in able /\ \A j \in able : i <= j
    <3> HIDE DEF able
    <3> QED BY <2>2
  <2> HIDE DEF i
  <2>4. i \in Classes(a) /\ Fit(i) # {} /\ i \in Nat
    BY <2>1, <2>3
  <2>5. fits = Fit(i)
    BY DEF Fit
  <2>6. /\ \A k \in fits : /\ k \in Nat
                           /\ \E c \in bs : /\ ~c.used /\ GetClassIdx(a, c.size) = i /\ c.at = bps[k]
                                            /\ BlockSize(h, bps[k]) = c.size /\ n <= c.size
        /\ \A c \in bs : ~c.used /\ GetClassIdx(a, c.size) = i /\ n <= c.size =>
              \E k \in fits : bps[k] = c.at /\ BlockSize(h, bps[k]) = c.size
    BY <1>3, <2>4, <2>5
  <2> HIDE DEF fits, bps
  <2> DEFINE v == [k \in fits |-> BlockSize(h, bps[k])]
             w == [k \in fits |-> k]
  <2>7. \A k \in fits : v[k] = BlockSize(h, bps[k]) /\ w[k] = k /\ v[k] \in Nat /\ w[k] \in Nat
    BY <1>2, <2>6
  <2> HIDE DEF v, w
  <2>8. \E k \in fits : \A j \in fits : v[k] < v[j] \/ (v[k] = v[j] /\ w[k] <= w[j])
    BY <2>4, <2>5, <2>7, Choices
  <2>9. \E k \in fits : \A j \in fits :
           \/ BlockSize(h, bps[k]) < BlockSize(h, bps[j])
           \/ BlockSize(h, bps[k]) = BlockSize(h, bps[j]) /\ k <= j
    BY <2>7, <2>8
  <2>10. best \in fits /\ \A j \in fits :
           \/ BlockSize(h, bps[best]) < BlockSize(h, bps[j])
           \/ BlockSize(h, bps[best]) = BlockSize(h, bps[j]) /\ best <= j
    BY <2>9
  <2> HIDE DEF best
  <2>11. PICK c \in bs : ~c.used /\ GetClassIdx(a, c.size) = i /\ c.at = bps[best] /\ BlockSize(h, bps[best]) = c.size /\ n <= c.size
    BY <2>6, <2>10
  <2>12. ASSUME NEW d \in Able(bs, n) PROVE c.size <= d.size
    <3>1. d \in bs /\ ~d.used /\ n <= d.size
      BY DEF Able
    <3>2. GetClassIdx(a, d.size) \in able /\ i <= GetClassIdx(a, d.size) /\ GetClassIdx(a, d.size) \in Nat
      <4>1. GetClassIdx(a, d.size) \in able
        BY <1>4
      <4> HIDE DEF able
      <4> QED BY <2>1, <2>3, <4>1
    <3>3. CASE GetClassIdx(a, d.size) = i
      <4>1. PICK k \in fits : bps[k] = d.at /\ BlockSize(h, bps[k]) = d.size
        BY <2>6, <3>1, <3>3
      <4>2. c.size < d.size \/ c.size = d.size
        BY <2>10, <2>11, <4>1
      <4> QED BY <1>2, <3>1, <4>2
    <3>4. CASE GetClassIdx(a, d.size) # i
      <4>1. d.size <= c.size => GetClassIdx(a, d.size) <= i
        BY <1>2, <2>11, <3>1, ClassIs
      <4>2. ~(d.size <= c.size)
        BY <2>4, <3>2, <3>4, <4>1
      <4> QED BY <1>2, <3>1, <4>2
    <3> QED BY <3>3, <3>4
  <2>13. c \in Smallest(bs, n)
    BY <2>11, <2>12 DEF Able, Smallest
  <2>14. ListsBestFit(a, h, n) = c.at
    BY <1>1, <1>6, <2>11
  <2>15. Able(bs, n) # {}
    BY <2>11 DEF Able
  <2> QED BY <2>13, <2>14, <2>15 DEF Found
<1> QED BY <1>5, <1>6

\* best_fit, whichever allocator is linked.
LEMMA BestFitIs ==
  ASSUME NEW a \in Kinds, NEW h, NEW bs, Sound(a, h, bs), NEW n \in Nat, n # 0
  PROVE  Found(bs, n, BestFit(a, h, n))
<1>1. Row(h, FirstBlock(a), bs)
  BY DEF Sound
<1>2. CASE a \in Listed
  <2>1. Row(h, ListsFirst(a), bs) /\ Lists(a, h, Files(a, bs))
    BY <1>1, <1>2 DEF Sound, FirstBlock
  <2> QED BY <1>2, <2>1, ListsBestFitIs DEF BestFit
<1>3. CASE a \notin Listed
  BY <1>1, <1>3, ImplicitBestFitIs DEF BestFit
<1> QED BY <1>2, <1>3

(***************************************************************************)
(* What merging does not change.                                           *)
(***************************************************************************)
UsedOf(bs) == {b \in bs : b.used}

\* Merging free blocks leaves the used ones.
LEMMA MeltedUsed ==
  ASSUME NEW h, NEW bs, NEW b, ~b.used
  PROVE  UsedOf(Melted(h, bs, b)) = UsedOf(bs)
<1>1. Whole(h, b).used = FALSE
  BY DEF Whole
<1> QED BY <1>1 DEF UsedOf, Melted, LeftOf, RightOf

\* After merging, no two free blocks are next to each other.
LEMMA MeltedParted ==
  ASSUME NEW h, NEW f, NEW bs, Row(h, f, bs), NEW b \in bs, ~b.used, Parted(bs \ {b})
  PROVE  Parted(Melted(h, bs, b))
<1> DEFINE w == Whole(h, b)
           l == LeftOf(bs, b)
           r == RightOf(bs, b)
           ms == bs \ ({b} \cup l \cup r)
<1>1. WholeSpans(bs, b, w, l, r)
  BY WholeSpan
<1>2. Fine(w)
  BY WholeIs
<1>3. \A c, d \in bs : c # b /\ d # b /\ ~c.used /\ ~d.used => Stop(c) # d.at
  BY DEF Parted
<1>4. Melted(h, bs, b) = ms \cup {w}
  BY DEF Melted
<1>5. \A c \in l \cup r : ~c.used /\ c # b /\ c \in bs
  BY DEF LeftOf, RightOf
<1>6. \A c \in ms : ~c.used => Stop(c) # b.at /\ c.at # Stop(b) /\ c \in bs /\ c # b
  BY DEF LeftOf, RightOf
<1> HIDE DEF w, l, r
<1>7. ASSUME NEW d \in ms, ~d.used PROVE Stop(w) # d.at /\ Stop(d) # w.at
  <2>1. d \in bs /\ d # b /\ Stop(d) # b.at /\ d.at # Stop(b)
    BY <1>6, <1>7
  <2>2. Stop(w) # d.at
    BY <1>1, <1>3, <1>5, <1>7, <2>1 DEF WholeSpans
  <2>3. Stop(d) # w.at
    BY <1>1, <1>3, <1>5, <1>7, <2>1 DEF WholeSpans
  <2> QED BY <2>2, <2>3
<1>8. Stop(w) # w.at
  BY <1>2 DEF Fine, Stop
<1>9. ASSUME NEW c \in ms \cup {w}, NEW d \in ms \cup {w}, ~c.used, ~d.used PROVE Stop(c) # d.at
  BY <1>3, <1>6, <1>7, <1>8, <1>9
<1> QED BY <1>4, <1>9 DEF Parted

(***************************************************************************)
(* extend_heap: the heap grows by one free block.                          *)
(***************************************************************************)
Fresh(x, n) == [at |-> x, size |-> n, used |-> FALSE]
GrownBy(h, n) ==
  LET tagged == Tag(MemSbrk(h, n), h.brk, n, 0) IN Put(tagged, Hdrp(NextBp(tagged, h.brk)), Pack(0, 1))
Grows(h, g, n) ==
  /\ g \in Heap /\ g.brk = h.brk + n /\ g.list = h.list
  /\ g.mem[h.brk - 4] = n /\ g.mem[h.brk + n - 8] = n /\ g.mem[h.brk + n - 4] = 1
  /\ \A w \in Words : w \in {h.brk - 4, h.brk + n - 8, h.brk + n - 4} \/ g.mem[w] = h.mem[w]

\* extend_heap: sbrk, the tags of the new block and the new epilogue.
LEMMA GrowIs ==
  ASSUME NEW h \in Heap, Aligned(h.brk), 0 < h.brk, NEW n, Aligned(n), n >= 16, h.brk + n <= MaxHeap
  PROVE  Grows(h, GrownBy(h, n), n)
<1> DEFINE x == h.brk
           k == MemSbrk(h, n)
           t == Tag(k, x, n, 0)
           g == Put(t, x + n - 4, 1)
<1>1. /\ x \in Nat /\ n \in Nat /\ x % 8 = 0 /\ n % 8 = 0 /\ Aligned(x) /\ 0 < x /\ x + n <= MaxHeap
      /\ Aligned(x + n) /\ 0 < x + n
  <2>1. Aligned(x + n)
    BY Sums
  <2> QED BY <2>1 DEF Aligned
<1>2. k \in Heap /\ k.brk = x + n /\ k.list = h.list /\ k.mem = h.mem
  BY <1>1 DEF MemSbrk, Heap
<1>3. x - 4 \in Words /\ x + n - 8 \in Words /\ x + n - 4 \in Words
  <2>1. x <= MaxHeap
    BY <1>1, HeapWordsAssumption
  <2> QED BY <1>1, <2>1, AlignedWords
<1> HIDE DEF k, x
<1>4. Tags(k, t, x, n, n + 0)
  BY <1>1, <1>2, TagIs
<1> HIDE DEF t
<1>5. /\ t \in Heap /\ t.brk = x + n /\ t.list = h.list /\ t.mem[x - 4] = n /\ t.mem[x + n - 8] = n
      /\ \A w \in Words : w = x - 4 \/ w = x + n - 8 \/ t.mem[w] = h.mem[w]
  <2>1. n + 0 = n
    BY <1>1
  <2> QED BY <1>2, <1>4, <2>1 DEF Tags
<1>6. NextBp(t, x) = x + n
  <2>1. (n \div 8) * 8 = n
    BY <1>1
  <2> QED BY <1>5, <2>1 DEF NextBp, BlockSize, SizeAt, Hdrp, WSIZE, DSIZE
<1>7. GrownBy(h, n) = g
  <2>1. GrownBy(h, n) = Put(t, Hdrp(NextBp(t, x)), Pack(0, 1))
    BY DEF GrownBy, t, k, x
  <2>2. Hdrp(NextBp(t, x)) = x + n - 4 /\ Pack(0, 1) = 1
    BY <1>1, <1>6 DEF Hdrp, WSIZE, Pack
  <2> QED BY <2>1, <2>2
<1>8. Writes(t, g, x + n - 4, 1)
  BY <1>3, <1>5, PutIs
<1> HIDE DEF g
<1>9. x - 4 # x + n - 4 /\ x + n - 8 # x + n - 4
  BY <1>1
<1>10. Grows(h, g, n)
  BY <1>3, <1>5, <1>8, <1>9 DEF Grows, Writes, x
<1> QED BY <1>7, <1>10

\* The old epilogue is the header of the new block.
LEMMA RowGrows ==
  ASSUME NEW h, NEW f, NEW bs, Row(h, f, bs), NEW n, Aligned(n), n >= 16, h.brk + n <= MaxHeap,
         NEW g, Grows(h, g, n)
  PROVE  Row(g, f, bs \cup {Fresh(h.brk, n)}) /\ Spared(h, g, bs)
<1> DEFINE v == Fresh(h.brk, n)
           cs == bs \cup {v}
<1>1. /\ Aligned(h.brk) /\ h.brk \in Nat /\ h.brk % 8 = 0 /\ n \in Nat /\ n % 8 = 0 /\ MaxHeap \in Nat
      /\ f \in Nat /\ f >= 16 /\ f <= h.brk /\ f % 8 = 0 /\ Aligned(f)
  BY HeapWordsAssumption DEF Row, Fitted, Aligned
<1>2. v.at = h.brk /\ v.size = n /\ v.used = FALSE /\ Stop(v) = h.brk + n /\ Bit(v) = 0 /\ Fine(v)
  BY <1>1 DEF Fresh, Stop, Bit, Fine
<1> HIDE DEF v
<1>3. g \in Heap /\ g.brk = h.brk + n
  BY DEF Grows
<1>4. /\ \A b \in bs : Fine(b) /\ f <= b.at /\ Stop(b) <= h.brk
      /\ \A b, c \in bs : b = c \/ Apart(b, c)
      /\ \A p \in Nat : f <= p /\ p < h.brk => \E b \in bs : b.at <= p /\ p < Stop(b)
  BY DEF Row, Tiles
<1>5. \A b \in bs : b.at \in Nat /\ Stop(b) \in Nat /\ b.at + 16 <= Stop(b)
  BY <1>4 DEF Fine, Stop
<1>6. Fitted(g, f)
  <2>1. Aligned(h.brk + n)
    BY <1>1, Sums
  <2> QED BY <1>1, <1>3, <2>1 DEF Fitted
<1>7. Tiles(f, g.brk, cs)
  <2>1. \A b \in cs : Fine(b) /\ f <= b.at /\ Stop(b) <= g.brk
    BY <1>1, <1>2, <1>3, <1>4, <1>5
  <2>2. \A b, c \in cs : b = c \/ Apart(b, c)
    <3>1. \A b \in bs : Apart(b, v) /\ Apart(v, b)
      BY <1>2, <1>4 DEF Apart
    <3> QED BY <1>4, <3>1
  <2>3. ASSUME NEW p \in Nat, f <= p, p < g.brk PROVE \E b \in cs : b.at <= p /\ p < Stop(b)
    <3>1. CASE p < h.brk
      BY <1>4, <2>3, <3>1
    <3>2. CASE ~(p < h.brk)
      BY <1>1, <1>2, <1>3, <2>3, <3>2
    <3> QED BY <3>1, <3>2
  <2> QED BY <2>1, <2>2, <2>3 DEF Tiles
<1>8. \A w \in Words : w < h.brk - 4 => g.mem[w] = h.mem[w]
  <2>1. \A w \in Words : w \in Nat
    BY WordsAre
  <2> QED BY <1>1, <2>1 DEF Grows
<1>9. Walls(g, f)
  <2>1. 4 \in Words /\ f - 8 \in Words
    BY RowWords
  <2>2. g.mem[4] = h.mem[4] /\ g.mem[f - 8] = h.mem[f - 8]
    BY <1>1, <1>8, <2>1
  <2>3. g.mem[g.brk - 4] = 1
    <3>1. (h.brk + n) - 4 = h.brk + n - 4
      BY <1>1
    <3> QED BY <1>3, <3>1 DEF Grows
  <2> QED BY <2>2, <2>3 DEF Row, Walls
<1>10. ASSUME NEW b \in cs PROVE Tagged(g, b)
  <2>1. CASE b \in bs
    <3>1. b.at - 4 \in Words /\ Stop(b) - 8 \in Words
      BY <2>1, RowWords
    <3>2. b.at - 4 < h.brk - 4 /\ Stop(b) - 8 < h.brk - 4
      BY <1>1, <1>4, <1>5, <2>1
    <3>3. g.mem[b.at - 4] = h.mem[b.at - 4] /\ g.mem[Stop(b) - 8] = h.mem[Stop(b) - 8]
      BY <1>8, <3>1, <3>2
    <3> QED BY <2>1, <3>3 DEF Row, Tagged
  <2>2. CASE b = v
    <3>1. n + 0 = n
      BY <1>1
    <3>2. Stop(v) - 8 = h.brk + n - 8
      BY <1>1, <1>2
    <3> QED BY <1>2, <2>2, <3>1, <3>2 DEF Grows, Tagged
  <2> QED BY <2>1, <2>2
<1>11. Row(g, f, cs)
  BY <1>6, <1>7, <1>9, <1>10 DEF Row
<1>12. Spared(h, g, bs)
  <2>1. \A b \in bs : \A w \in Words : w < Stop(b) - 8 => w < h.brk - 4
    <3>1. \A w \in Words : w \in Nat
      BY WordsAre
    <3> QED BY <1>1, <1>4, <1>5, <3>1
  <2> QED BY <1>8, <2>1 DEF Spared
<1> QED BY <1>11, <1>12 DEF v

\* The new block is one that coalesce can be called for.
LEMMA GrowthIsLoose ==
  ASSUME NEW a \in Kinds, NEW h, NEW bs, Sound(a, h, bs), NEW n, Aligned(n), n >= 16, h.brk + n <= MaxHeap,
         NEW g, Grows(h, g, n)
  PROVE  /\ Fresh(h.brk, n) \notin bs /\ Spared(h, g, bs)
         /\ Loose(a, g, bs \cup {Fresh(h.brk, n)}, Fresh(h.brk, n))
<1> DEFINE v == Fresh(h.brk, n)
           cs == bs \cup {v}
           f == FirstBlock(a)
<1>1. Row(h, f, bs)
  BY DEF Sound
<1>2. Row(g, f, cs) /\ Spared(h, g, bs)
  BY <1>1, RowGrows
<1>3. h.brk \in Nat /\ n \in Nat
  BY <1>1 DEF Row, Fitted, Aligned
<1>4. v \notin bs
  <2>1. \A b \in bs : Fine(b) /\ Stop(b) <= h.brk
    BY <1>1 DEF Row, Tiles
  <2>2. Stop(v) = h.brk + n
    BY DEF Fresh, Stop
  <2> HIDE DEF v
  <2> QED BY <1>3, <2>1, <2>2
<1>5. v.at = h.brk /\ v.size = n /\ ~v.used /\ Stop(v) = h.brk + n
  BY DEF Fresh, Stop
<1>6. cs \ {v} = bs /\ v \in cs
  BY <1>4
<1> HIDE DEF v, cs
<1>7. ASSUME a \in Listed PROVE Lists(a, g, Files(a, bs))
  <2>1. f = ListsFirst(a) /\ Lists(a, h, Files(a, bs))
    BY <1>7 DEF Sound, FirstBlock
  <2>2. bs \in SUBSET cs
    BY <1>6
  <2>3. g.list = h.list /\ \A w \in Words : g.mem[w] = h.mem[w] \/ w = g.brk - 4 \/ \E b \in cs : w = b.at - 4 \/ w = Stop(b) - 8
    <3>1. (h.brk + n) - 8 = h.brk + n - 8 /\ (h.brk + n) - 4 = h.brk + n - 4
      BY <1>3
    <3> QED BY <1>5, <1>6, <3>1 DEF Grows
  <2> HIDE DEF f
  <2>4. Row(g, ListsFirst(a), cs)
    BY <1>2, <2>1
  <2> QED BY <1>7, <2>1, <2>2, <2>3, <2>4, TagsKeepLists
<1>8. Loose(a, g, cs, v)
  BY <1>2, <1>5, <1>6, <1>7 DEF Loose
<1> QED BY <1>2, <1>4, <1>8 DEF v, cs

\* What extend_heap leaves, for n bytes.
Extended(a, h, bs, n, r) ==
  LET ms == Abstract(a)!Merge(bs, Fresh(h.brk, n))
  IN  /\ Sound(a, r.heap, ms) /\ Parted(ms) /\ UsedOf(ms) = UsedOf(bs) /\ Spared(h, r.heap, bs)
      /\ r.heap.brk = h.brk + n
      /\ \E c \in ms : ~c.used /\ c.at = r.bp /\ Stop(c) = h.brk + n /\ n <= c.size

\* extend_heap is called with words and asks sbrk for the bytes.
LEMMA WordsOf ==
  ASSUME NEW h \in Heap, NEW n, Aligned(n), h.brk <= MaxHeap, NoWrap(n)
  PROVE  /\ (n \div 4 + ((n \div 4) % 2)) * WSIZE = n
         /\ SbrkFails(h, n) <=> h.brk + n > MaxHeap
<1>1. n \in Nat /\ n % 8 = 0 /\ h.brk \in Nat
  BY DEF Aligned, Heap
<1>2. n \div 4 \in Nat /\ (n \div 4) % 2 = 0 /\ (n \div 4) * 4 = n
  BY <1>1
<1>3. (n \div 4 + ((n \div 4) % 2)) * WSIZE = n
  BY <1>2 DEF WSIZE
<1>4. SbrkFails(h, n) <=> h.brk + n > MaxHeap
  <2>1. MaxHeap \in Nat /\ SizeMod \in Nat /\ SizeMod % 8 = 0 /\ 2 * MaxHeap < SizeMod
    BY HeapWordsAssumption DEF DSIZE
  <2>2. Base \in Nat /\ Base + MaxHeap < SizeMod
    BY <2>1, HeapWordsAssumption
  <2>3. CASE n >= SizeMod \div 2
    <3>1. n > MaxHeap
      BY <1>1, <2>1, <2>3
    <3> QED BY <1>1, <2>1, <2>3, <3>1 DEF SbrkFails
  <2>4. CASE ~(n >= SizeMod \div 2)
    <3> DEFINE x == Base + h.brk + n
    <3>1. x \in Nat /\ x < SizeMod
      BY <1>1, <2>1, <2>2, <2>4 DEF NoWrap
    <3>2. SbrkFails(h, n) <=> x % SizeMod > Base + MaxHeap
      BY <2>4 DEF SbrkFails
    <3>3. x > Base + MaxHeap <=> h.brk + n > MaxHeap
      BY <1>1, <2>1, <2>2
    <3> HIDE DEF x
    <3>4. x % SizeMod = x
      BY <2>1, <3>1
    <3> QED BY <3>2, <3>3, <3>4
  <2> QED BY <2>3, <2>4
<1> QED BY <1>3, <1>4

\* extend_heap refuses, or leaves the blocks that Grown of BlockHeap says.
LEMMA ExtendIs ==
  ASSUME NEW a \in Kinds, NEW h, NEW bs, Sound(a, h, bs), Parted(bs),
         NEW n, Aligned(n), n >= 16, NoWrap(n)
  PROVE  /\ h.brk + n > MaxHeap => ExtendHeap(a, h, n \div 4) = [heap |-> h, bp |-> 0]
         /\ h.brk + n <= MaxHeap => Extended(a, h, bs, n, ExtendHeap(a, h, n \div 4))
<1> DEFINE g == GrownBy(h, n)
           v == Fresh(h.brk, n)
           cs == bs \cup {v}
           r == Coalesce(a, g, v.at)
<1>1. Row(h, FirstBlock(a), bs) /\ h \in Heap
  BY HeapFits DEF Sound
<1>2. h.brk \in Nat /\ n \in Nat /\ Aligned(h.brk) /\ h.brk >= 16 /\ MaxHeap \in Nat
  BY <1>1, HeapWordsAssumption DEF Row, Fitted, Aligned
<1>3. ExtendHeap(a, h, n \div 4) = IF h.brk + n > MaxHeap THEN [heap |-> h, bp |-> 0] ELSE r
  <2> DEFINE size == (n \div 4 + ((n \div 4) % 2)) * WSIZE
  <2>1. size = n /\ (SbrkFails(h, n) <=> h.brk + n > MaxHeap)
    BY <1>1, HeapFits, WordsOf DEF Row, Fitted
  <2>2. ExtendHeap(a, h, n \div 4) = IF SbrkFails(h, size) THEN [heap |-> h, bp |-> NULL]
                                     ELSE Coalesce(a, GrownBy(h, size), h.brk)
    BY Zenon DEF ExtendHeap, GrownBy
  <2>3. v.at = h.brk
    BY DEF Fresh
  <2> HIDE DEF size, v
  <2> QED BY <2>1, <2>2, <2>3 DEF NULL
<1>4. ASSUME h.brk + n <= MaxHeap PROVE Extended(a, h, bs, n, r)
  <2>1. Grows(h, g, n)
    BY <1>1, <1>2, <1>4, GrowIs
  <2> HIDE DEF g
  <2>2. v \notin bs /\ Spared(h, g, bs) /\ Loose(a, g, cs, v)
    BY <1>4, <2>1, GrowthIsLoose
  <2>3. v.at = h.brk /\ v.size = n /\ ~v.used /\ Stop(v) = h.brk + n /\ cs \ {v} = bs /\ v \in cs /\ UsedOf(cs) = UsedOf(bs)
    <3>1. v.at = h.brk /\ v.size = n /\ ~v.used /\ Stop(v) = h.brk + n
      BY DEF Fresh, Stop
    <3>2. v \in cs
      OBVIOUS
    <3> HIDE DEF v
    <3>3. cs \ {v} = bs
      BY <2>2
    <3>4. UsedOf(cs) = UsedOf(bs)
      BY <3>1 DEF UsedOf
    <3> QED BY <3>1, <3>2, <3>3, <3>4
  <2>4. Coalesced(a, g, cs, v, r)
    BY <2>2, CoalesceIs
  <2>5. \A b \in bs : b \in cs
    OBVIOUS
  <2> HIDE DEF v, cs, r
  <2> DEFINE ms == Melted(g, cs, v)
             w == Whole(g, v)
  <2>6. Row(g, FirstBlock(a), cs)
    BY <2>2 DEF Loose
  <2>7. Melted(g, cs, v) = Abstract(a)!Merge(bs, v)
    BY <2>3, <2>6, MeltedIsMerge
  <2>8. UsedOf(Melted(g, cs, v)) = UsedOf(bs)
    BY <2>3, MeltedUsed
  <2>9. Parted(Melted(g, cs, v))
    BY <2>3, <2>6, MeltedParted
  <2>10. Spared(h, r.heap, bs)
    BY <2>2, <2>4, <2>5, SparedFewer, SparedCompose DEF Coalesced
  <2>11. g.brk = h.brk + n
    BY <2>1 DEF Grows
  <2>12. RightOf(cs, v) = {}
    <3>1. \A c \in cs : Fine(c) /\ Stop(c) <= g.brk
      BY <2>6 DEF Row, Tiles
    <3>2. \A c \in cs : c.at \in Nat /\ Stop(c) \in Nat /\ c.at + 16 <= Stop(c)
      BY <3>1 DEF Fine, Stop
    <3>3. \A c \in cs : c.at # Stop(v)
      BY <1>2, <2>3, <2>11, <3>1, <3>2
    <3> QED BY <3>3 DEF RightOf
  <2>13. WholeSpans(cs, v, w, LeftOf(cs, v), RightOf(cs, v)) /\ Fine(w) /\ w \in ms /\ ~w.used /\ w.at = CodeStart(g, v.at)
    <3>1. WholeSpans(cs, v, w, LeftOf(cs, v), RightOf(cs, v))
      BY <2>3, <2>6, WholeSpan
    <3>2. Fine(w)
      BY <2>3, <2>6, WholeIs
    <3>3. w \in ms /\ ~w.used /\ w.at = CodeStart(g, v.at)
      BY DEF Melted, Whole
    <3> QED BY <3>1, <3>2, <3>3
  <2> HIDE DEF w
  <2>14. Stop(w) = Stop(v)
    BY <2>12, <2>13 DEF WholeSpans
  <2>15. w.at <= v.at
    <3>1. \A c \in cs : Fine(c)
      BY <2>6 DEF Row, Tiles
    <3>2. \A c \in cs : c.at \in Nat /\ c.at <= Stop(c)
      BY <3>1 DEF Fine, Stop
    <3> QED BY <2>3, <2>13, <3>2 DEF WholeSpans
  <2>16. n <= w.size
    BY <1>2, <2>3, <2>13, <2>14, <2>15 DEF Fine, Stop
  <2>17. r.bp = w.at /\ r.heap.brk = h.brk + n /\ Sound(a, r.heap, ms)
    BY <2>4, <2>11, <2>13 DEF Coalesced
  <2>18. \E c \in ms : ~c.used /\ c.at = r.bp /\ Stop(c) = h.brk + n /\ n <= c.size
    BY <2>3, <2>13, <2>14, <2>16, <2>17
  <2>19. ms = Abstract(a)!Merge(bs, Fresh(h.brk, n))
    BY <2>7 DEF v
  <2> HIDE DEF ms
  <2> QED BY <2>8, <2>9, <2>10, <2>17, <2>18, <2>19 DEF Extended, ms
<1> HIDE DEF r
<1>5. ASSUME h.brk + n > MaxHeap PROVE ExtendHeap(a, h, n \div 4) = [heap |-> h, bp |-> 0]
  BY <1>3, <1>5
<1>6. ASSUME h.brk + n <= MaxHeap PROVE ExtendHeap(a, h, n \div 4) = r
  BY <1>2, <1>3, <1>6
<1> QED BY <1>4, <1>5, <1>6

(***************************************************************************)
(* mm_init: a row of no blocks, which grows by the first chunk.            *)
(***************************************************************************)
LEMMA FirstBlockIs ==
  ASSUME NEW a \in Kinds
  PROVE  Aligned(FirstBlock(a)) /\ FirstBlock(a) >= 16
<1>1. CASE a \in Listed
  <2>1. FirstBlock(a) = ListsFirst(a) /\ Aligned(ListsFirst(a)) /\ ListsFirst(a) >= 24
    BY <1>1, FirstIs DEF FirstBlock
  <2> QED BY <2>1 DEF Aligned
<1>2. CASE a \notin Listed
  BY <1>2 DEF FirstBlock, ImplicitFirst, WSIZE, Aligned
<1> QED BY <1>1, <1>2

\* The words mm_init writes.
Started(h, g, f) == g \in Heap /\ g.brk = f /\ Walls(g, f)

\* mm_init of lab1 before the first chunk.
LEMMA ImplicitStartIs ==
  ASSUME NEW h \in Heap, h.brk = 0, 16 <= MaxHeap
  PROVE  Started(h, ImplicitStart(h), 16)
<1> DEFINE g == ImplicitStart(h)
<1>1. 0 \in Words /\ 4 \in Words /\ 8 \in Words /\ 12 \in Words
  BY HeapWordsAssumption, WordIs
<1>2. /\ g.brk = 16 /\ g.list = h.list
      /\ g.mem = [w \in Words |-> IF w = 0 THEN 0 ELSE IF w = 12 THEN 1 ELSE IF w = 4 \/ w = 8 THEN 9 ELSE h.mem[w]]
  BY DEF ImplicitStart, WSIZE, DSIZE, Pack
<1>3. g = [mem |-> g.mem, brk |-> g.brk, list |-> g.list]
  BY DEF ImplicitStart
<1> HIDE DEF g
<1>4. g \in Heap
  BY <1>2, <1>3 DEF Heap
<1>5. g.mem[4] = 9 /\ g.mem[8] = 9 /\ g.mem[12] = 1
  BY <1>1, <1>2
<1> QED BY <1>2, <1>4, <1>5 DEF Started, Walls, g

ListsStarted(a, h, g) ==
  /\ Started(h, g, ListsFirst(a))
  /\ \A i \in Classes(a) : FreeListp(a, g, i) = Stops(a)

\* mm_init of mm.c, lab3 and lab2 before the first chunk: every list is empty.
LEMMA ListsStartIs ==
  ASSUME NEW a \in Listed, NEW h \in Heap, h.brk = 0, ListsFirst(a) <= MaxHeap
  PROVE  ListsStarted(a, h, ListsStart(a, h))
<1> DEFINE g == ListsStart(a, h)
           f == ListsFirst(a)
           inner == {n * 4 : n \in 2..Inner(a) + 1}
<1>1. f = Inner(a) * 4 + 16 /\ Inner(a) \in Nat /\ Inner(a) >= 2 /\ f \in Nat /\ MaxHeap \in Nat /\ Inner(a) % 2 = 0
  BY ClassSizeAssumption, HeapWordsAssumption DEF ListsFirst, Inner, WSIZE
<1>2. 4 \in Words /\ f - 8 \in Words /\ f - 4 \in Words
  <2>1. Aligned(f) /\ Aligned(8) /\ 0 < f /\ 8 <= MaxHeap
    BY <1>1, FirstIs DEF Aligned
  <2> QED BY <1>1, <2>1, AlignedWords
<1>3. /\ g.brk = f /\ g.list = IF a = "lab2" THEN 8 ELSE h.list
      /\ g.mem = [w \in Words |-> IF w = 0 THEN 0 ELSE IF w = 4 \/ w = f - 8 THEN f - 7
                                  ELSE IF w \in inner THEN 0 ELSE IF w = f - 4 THEN 1 ELSE h.mem[w]]
  <2> DEFINE at(n) == h.brk + n * WSIZE
  <2>1. /\ at(0) = 0 /\ at(1) = 4 /\ at(Inner(a) + 2) = f - 8 /\ at(Inner(a) + 3) = f - 4
        /\ h.brk + ListsFirst(a) = f /\ Pack(0, 0) = 0 /\ Pack(0, 1) = 1 /\ Pack(f - DSIZE, 1) = f - 7 /\ h.brk + DSIZE = 8
    BY <1>1 DEF WSIZE, DSIZE, Pack
  <2>2. {at(n) : n \in 2..Inner(a) + 1} = inner
    BY <1>1 DEF WSIZE
  <2>3. g = [mem |-> [w \in Words |-> CASE w = at(0) -> Pack(0, 0)
                                  [] w \in {at(1), at(Inner(a) + 2)} -> Pack(f - DSIZE, 1)
                                  [] w \in {at(n) : n \in 2..Inner(a)+1} -> NULL
                                  [] w = at(Inner(a) + 3) -> Pack(0, 1)
                                  [] OTHER -> h.mem[w]],
             brk |-> h.brk + ListsFirst(a),
             list |-> IF a = "lab2" THEN h.brk + DSIZE ELSE h.list]
    BY Zenon DEF ListsStart
  <2>6. /\ \A w \in inner : w # 0 /\ w # 4 /\ w # f - 8 /\ w # f - 4
        /\ f - 4 # 0 /\ f - 4 # 4 /\ f - 4 # f - 8 /\ f - 8 # 0
    BY <1>1
  <2> HIDE DEF at, inner, g, f
  <2>4. ASSUME NEW w \in Words
        PROVE  g.mem[w] = IF w = 0 THEN 0 ELSE IF w = 4 \/ w = f - 8 THEN f - 7
                                  ELSE IF w \in inner THEN 0 ELSE IF w = f - 4 THEN 1 ELSE h.mem[w]
    <3>1. g.mem[w] = CASE w = 0 -> 0 [] w \in {4, f - 8} -> f - 7 [] w \in inner -> 0
                       [] w = f - 4 -> 1 [] OTHER -> h.mem[w]
      BY <2>1, <2>2, <2>3 DEF NULL
    <3>2. CASE w = 0
      BY <2>6, <3>1, <3>2
    <3>3. CASE w = 4 \/ w = f - 8
      BY <2>6, <3>1, <3>3
    <3>4. CASE w \in inner
      BY <2>6, <3>1, <3>4
    <3>5. CASE w = f - 4
      BY <2>6, <3>1, <3>5
    <3>6. CASE w # 0 /\ w # 4 /\ w # f - 8 /\ w \notin inner /\ w # f - 4
      BY <3>1, <3>6
    <3> QED BY <3>2, <3>3, <3>4, <3>5, <3>6
  <2>5. g.mem = [w \in Words |-> g.mem[w]]
    BY <2>3
  <2> QED BY <2>1, <2>3, <2>4, <2>5
<1>4. g = [mem |-> g.mem, brk |-> g.brk, list |-> g.list]
  BY DEF ListsStart
<1> HIDE DEF g
<1>5. \A w \in inner : w \in Nat /\ 8 <= w /\ w <= f - 12
  BY <1>1
<1>6. g \in Heap
  <2>1. g.list \in Int
    BY <1>3 DEF Heap
  <2>2. \A w \in Words : g.mem[w] \in Int
    BY <1>1, <1>3 DEF Heap
  <2>3. g.mem \in [Words -> Int]
    BY <1>3, <2>2
  <2> QED BY <1>1, <1>3, <1>4, <2>1, <2>3 DEF Heap
<1>7. g.mem[4] = f - 7 /\ g.mem[f - 8] = f - 7 /\ g.mem[f - 4] = 1
  <2>1. f - 4 \notin inner /\ f - 4 # 0 /\ f - 4 # 4 /\ f - 4 # f - 8 /\ f - 8 # 0
    BY <1>1, <1>5
  <2> HIDE DEF inner
  <2> QED BY <1>2, <1>3, <2>1
<1>8. ASSUME NEW i \in Classes(a) PROVE FreeListp(a, g, i) = Stops(a)
  <2>1. CASE a = "lab2"
    BY <1>3, <2>1 DEF FreeListp, Stops
  <2>2. CASE a # "lab2"
    <3>1. GetClass(i) \in Words
      BY <2>2, ClassWords
    <3>2. GetClass(i) = (i + 2) * 4 /\ i + 2 \in 2..Inner(a) + 1
      BY <2>2, <1>1 DEF GetClass, DSIZE, WSIZE, Classes, Inner
    <3>3. GetClass(i) \in inner /\ GetClass(i) # 0 /\ GetClass(i) # 4 /\ GetClass(i) # f - 8
      BY <1>1, <1>5, <3>2
    <3> HIDE DEF inner
    <3> QED BY <1>3, <2>2, <3>1, <3>3 DEF FreeListp, Stops
  <2> QED BY <2>1, <2>2
<1>9. Started(h, g, f)
  BY <1>3, <1>6, <1>7 DEF Started, Walls
<1> HIDE DEF f
<1> QED BY <1>8, <1>9 DEF ListsStarted, g, f

\* mm_init leaves an empty row, on whatever words the last trace left.
LEMMA StartIs ==
  ASSUME NEW a \in Kinds, NEW h \in Heap, h.brk = 0, FirstBlock(a) <= MaxHeap
  PROVE  Sound(a, Start(a, h), {}) /\ Start(a, h).brk = FirstBlock(a)
<1> DEFINE g == Start(a, h)
           f == FirstBlock(a)
<1>1. Aligned(f) /\ f >= 16 /\ f \in Nat
  BY FirstBlockIs DEF Aligned
<1>2. Started(h, g, f) /\ (a \in Listed => \A i \in Classes(a) : FreeListp(a, g, i) = Stops(a))
  <2>1. CASE a \in Listed
    <3>1. g = ListsStart(a, h) /\ f = ListsFirst(a)
      BY <2>1 DEF Start, FirstBlock
    <3>2. ListsStarted(a, h, ListsStart(a, h))
      BY <2>1, <3>1, ListsStartIs
    <3> QED BY <3>1, <3>2 DEF ListsStarted
  <2>2. CASE a \notin Listed
    <3>1. g = ImplicitStart(h) /\ f = 16
      BY <2>2 DEF Start, FirstBlock, ImplicitFirst, WSIZE
    <3>2. Started(h, ImplicitStart(h), 16)
      BY <3>1, ImplicitStartIs
    <3> QED BY <2>2, <3>1, <3>2
  <2> QED BY <2>1, <2>2
<1> HIDE DEF g, f
<1>3. Fitted(g, f)
  BY <1>1, <1>2 DEF Fitted, Started, f
<1>4. Tiles(f, g.brk, {})
  BY <1>1, <1>2 DEF Tiles, Started
<1>5. Row(g, f, {})
  BY <1>2, <1>3, <1>4 DEF Row, Started
<1>6. ASSUME a \in Listed PROVE Lists(a, g, Files(a, {}))
  <2>1. \A i \in Classes(a) : Files(a, {})[i] = {}
    BY DEF Files, OfClass
  <2>2. \A m, e : ListOf(m, e, e, {})
    <3>1. ASSUME NEW m, NEW e PROVE ListOf(m, e, e, {})
      <4>1. Ranked(m, {}, [x \in {} |-> 0])
        BY DEF Ranked
      <4> QED BY <4>1 DEF ListOf
    <3> QED BY <3>1
  <2> QED BY <1>2, <1>6, <2>1, <2>2 DEF Lists
<1> QED BY <1>2, <1>5, <1>6 DEF Sound, Started, f, g

Fresh1(a) == Fresh(FirstBlock(a), ChunkSize)
\* mm_init leaves one free chunk.
LEMMA InitIs ==
  ASSUME NEW a \in Kinds, NEW h \in Heap, h.brk = 0, FirstBlock(a) + ChunkSize <= MaxHeap
  PROVE  /\ Sound(a, mm_init(a, h).heap, {Fresh1(a)}) /\ Parted({Fresh1(a)})
         /\ mm_init(a, h).heap.brk = FirstBlock(a) + ChunkSize
<1> DEFINE g == Start(a, h)
           n == ChunkSize
           r == ExtendHeap(a, g, n \div 4)
<1>1. FirstBlock(a) \in Nat /\ n \in Nat /\ n >= 16 /\ Aligned(n) /\ MaxHeap \in Nat
  BY FirstBlockIs, HeapWordsAssumption DEF Aligned, DSIZE
<1>2. FirstBlock(a) <= MaxHeap
  BY <1>1
<1>3. Sound(a, g, {}) /\ g.brk = FirstBlock(a)
  BY <1>2, StartIs
<1>4. mm_init(a, h) = r
  BY DEF mm_init, WSIZE
<1> HIDE DEF g, n
<1>5. Parted({}) /\ g.brk + n <= MaxHeap
  BY <1>3 DEF Parted, n
<1>6. Extended(a, g, {}, n, r)
  <2>1. NoWrap(n)
    BY HeapWordsAssumption DEF NoWrap, n
  <2> QED BY <1>1, <1>3, <1>5, <2>1, ExtendIs
<1> HIDE DEF r
<1>7. Abstract(a)!Merge({}, Fresh(g.brk, n)) = {Fresh1(a)}
  <2> DEFINE v == Fresh(g.brk, n)
  <2>1. Abstract(a)!Left({}, v) = {} /\ Abstract(a)!Right({}, v) = {}
    BY DEF Abstract!Left, Abstract!Right
  <2>2. v.at = g.brk /\ v.size = n /\ Abstract(a)!End(v) - v.at = n
    BY <1>1, <1>3 DEF Fresh, Abstract!End
  <2>3. Abstract(a)!Joined({}, v) = v
    BY <2>1, <2>2 DEF Abstract!Joined, Fresh
  <2>4. v = Fresh1(a)
    BY <1>3 DEF Fresh1, n
  <2> HIDE DEF v
  <2> QED BY <2>1, <2>3, <2>4 DEF Abstract!Merge, v
<1>8. Sound(a, r.heap, {Fresh1(a)}) /\ Parted({Fresh1(a)}) /\ r.heap.brk = g.brk + n
  BY <1>6, <1>7 DEF Extended
<1> QED BY <1>3, <1>4, <1>8 DEF n

(***************************************************************************)
(* Sizes.                                                                  *)
(***************************************************************************)
LEMMA AsizeIs ==
  ASSUME NEW s \in Nat, s + 15 < SizeMod
  PROVE  Aligned(Asize(s)) /\ Asize(s) >= 16 /\ s + 8 <= Asize(s)
<1>1. CASE s <= 8
  BY <1>1 DEF Asize, DSIZE, Aligned
<1>2. CASE ~(s <= 8)
  <2>1. SizeMod \in Nat
    BY HeapWordsAssumption
  <2>2. (s + 15) % SizeMod = s + 15
    <3> DEFINE x == s + 15
    <3>1. x \in Nat /\ x < SizeMod
      OBVIOUS
    <3> HIDE DEF x
    <3>2. x % SizeMod = x
      BY <2>1, <3>1
    <3> QED BY <3>2 DEF x
  <2>3. s + DSIZE + DSIZE - 1 = s + 15
    BY DEF DSIZE
  <2>4. Asize(s) = 8 * ((s + 15) \div 8)
    BY <1>2, <2>2, <2>3 DEF Asize, DSIZE
  <2> QED BY <1>2, <2>4 DEF Aligned
<1> QED BY <1>1, <1>2

\* MAX(asize, CHUNKSIZE).
LEMMA ExtendSizeIs ==
  ASSUME NEW n, Aligned(n), n >= 16, NoWrap(n), NEW a
  PROVE  /\ Aligned(ExtendSize(n)) /\ ExtendSize(n) >= 16 /\ n <= ExtendSize(n)
         /\ NoWrap(ExtendSize(n))
         /\ Abstract(a)!Growth(n) = ExtendSize(n)
<1>1. Aligned(ChunkSize) /\ ChunkSize >= 16
  BY HeapWordsAssumption DEF Aligned, DSIZE
<1>2. NoWrap(ChunkSize)
  BY HeapWordsAssumption DEF NoWrap
<1> QED BY <1>1, <1>2 DEF Aligned, ExtendSize, Abstract!Growth

(***************************************************************************)
(* place, as the program sees it.                                          *)
(***************************************************************************)
Took(bs, cs, u, c, n) ==
  /\ Parted(cs) /\ UsedOf(cs) = UsedOf(bs) \cup {u} /\ u \notin UsedOf(bs)
  /\ u \in cs /\ u.used /\ u.at = c.at /\ n <= u.size

\* place gives the program one block more.
LEMMA PlaceTakes ==
  ASSUME NEW a, NEW h, NEW f, NEW bs, Row(h, f, bs), Parted(bs), NEW c \in bs, ~c.used,
         NEW n, Aligned(n), n >= 16, n <= c.size
  PROVE  \E u : Took(bs, Abstract(a)!Place(bs, c, n), u, c, n)
<1>1. /\ \A b \in bs : Fine(b) /\ (c = b \/ Apart(c, b))
  BY DEF Row, Tiles
<1>2. \A b \in bs : b.at \in Nat /\ b.size \in Nat /\ Stop(b) = b.at + b.size /\ b.size >= 16
  BY <1>1 DEF Fine, Stop
<1>3. n \in Nat
  BY DEF Aligned
<1>4. \A b \in bs : b.at = c.at => b = c
  BY <1>1, <1>2 DEF Apart
<1>5. CASE c.size - n >= 16
  <2> DEFINE u == Front(c, n)
             v == Rest(c, n)
             cs == (bs \ {c}) \cup {u, v}
  <2>1. Abstract(a)!Place(bs, c, n) = cs
    BY <1>5 DEF Abstract!Place, Abstract!Split, Abstract!MinSize, Front, Rest
  <2>2. /\ u.at = c.at /\ u.size = n /\ u.used /\ v.at = c.at + n /\ v.size = c.size - n /\ ~v.used
        /\ Stop(v) = Stop(c)
    BY <1>2, <1>3 DEF Front, Rest, Stop
  <2> HIDE DEF u, v
  <2>3. u \notin bs
    BY <1>4, <2>2
  <2>4. UsedOf(cs) = UsedOf(bs) \cup {u}
    BY <2>2 DEF UsedOf
  <2>5. \A d \in bs \ {c} : ~d.used => Stop(d) # v.at /\ Stop(v) # d.at
    <3>1. ASSUME NEW d \in bs \ {c}, ~d.used PROVE Stop(d) # v.at
      <4>1. Stop(c) <= d.at \/ Stop(d) <= c.at
        BY <1>1 DEF Apart
      <4> QED BY <1>2, <1>3, <1>5, <2>2, <4>1
    <3>2. ASSUME NEW d \in bs \ {c}, ~d.used PROVE Stop(v) # d.at
      BY <2>2, <3>2 DEF Parted
    <3> QED BY <3>1, <3>2
  <2>6. Stop(v) # v.at
    BY <1>2, <1>3, <1>5, <2>2
  <2>7. Parted(cs)
    <3>1. ASSUME NEW x \in cs, NEW y \in cs, ~x.used, ~y.used PROVE Stop(x) # y.at
      <4>1. x \in (bs \ {c}) \cup {v} /\ y \in (bs \ {c}) \cup {v}
        BY <2>2, <3>1
      <4>2. CASE x = v \/ y = v
        BY <2>5, <2>6, <3>1, <4>1, <4>2
      <4>3. CASE x \in bs /\ y \in bs
        BY <3>1, <4>3 DEF Parted
      <4> QED BY <4>1, <4>2, <4>3
    <3> QED BY <3>1 DEF Parted
  <2>8. u \in cs /\ n <= u.size /\ u \notin UsedOf(bs)
    BY <1>3, <2>2, <2>3 DEF UsedOf
  <2>9. Took(bs, cs, u, c, n)
    BY <2>2, <2>4, <2>7, <2>8 DEF Took
  <2> HIDE DEF cs
  <2> QED BY <2>1, <2>9
<1>6. CASE ~(c.size - n >= 16)
  <2> DEFINE u == Taken1(c)
             cs == (bs \ {c}) \cup {u}
  <2>1. Abstract(a)!Place(bs, c, n) = cs
    BY <1>6 DEF Abstract!Place, Abstract!Split, Abstract!MinSize, Taken1
  <2>2. u.at = c.at /\ u.size = c.size /\ u.used
    <3>1. Fine(c)
      BY <1>1
    <3> QED BY <3>1 DEF Taken1, Fine
  <2> HIDE DEF u
  <2>3. u \notin bs
    BY <1>4, <2>2
  <2>4. UsedOf(cs) = UsedOf(bs) \cup {u}
    BY <2>2 DEF UsedOf
  <2>5. Parted(cs)
    <3>1. ASSUME NEW x \in cs, NEW y \in cs, ~x.used, ~y.used PROVE Stop(x) # y.at
      <4>1. x \in bs /\ y \in bs
        BY <2>2, <3>1
      <4> QED BY <3>1, <4>1 DEF Parted
    <3> QED BY <3>1 DEF Parted
  <2>6. Took(bs, cs, u, c, n)
    BY <2>2, <2>3, <2>4, <2>5 DEF Took, UsedOf
  <2> HIDE DEF cs
  <2> QED BY <2>1, <2>6
<1> QED BY <1>5, <1>6

(***************************************************************************)
(* mm_malloc.                                                              *)
(***************************************************************************)
Handed(a, h, bs, s, r, cs, u) ==
  /\ <<cs, r.heap.brk>> \in Abstract(a)!Allocations(bs, h.brk, Asize(s))
  /\ Sound(a, r.heap, cs) /\ Parted(cs) /\ Spared(h, r.heap, bs)
  /\ UsedOf(cs) = UsedOf(bs) \cup {u} /\ u \notin UsedOf(bs)
  /\ u \in cs /\ u.used /\ u.at = r.bp /\ s + 8 <= u.size
Refused(h, bs, s, r) ==
  /\ r = [heap |-> h, bp |-> 0]
  /\ s = 0 \/ (Able(bs, Asize(s)) = {} /\ h.brk + ExtendSize(Asize(s)) > MaxHeap)

\* mm_malloc refuses for a reason, or hands out a block as Allocations of BlockHeap says.
LEMMA MallocIs ==
  ASSUME NEW a \in Kinds, NEW h, NEW bs, Sound(a, h, bs), Parted(bs),
         NEW s \in Nat, s + 15 < SizeMod, NoWrap(Asize(s))
  PROVE  \/ Refused(h, bs, s, mm_malloc(a, h, s))
         \/ s # 0 /\ mm_malloc(a, h, s).bp # 0 /\ \E cs, u : Handed(a, h, bs, s, mm_malloc(a, h, s), cs, u)
<1> DEFINE n == Asize(s)
           e == ExtendSize(n)
           fit == BestFit(a, h, n)
           more == ExtendHeap(a, h, e \div 4)
           r == mm_malloc(a, h, s)
           f == FirstBlock(a)
<1>1. r = IF s = 0 THEN [heap |-> h, bp |-> 0]
          ELSE IF fit # 0 THEN [heap |-> Place(a, h, fit, n), bp |-> fit]
          ELSE IF more.bp # 0 THEN [heap |-> Place(a, more.heap, more.bp, n), bp |-> more.bp]
          ELSE [heap |-> h, bp |-> 0]
  <2>1. r = IF s = 0 THEN [heap |-> h, bp |-> NULL]
            ELSE IF fit # NULL THEN [heap |-> Place(a, h, fit, n), bp |-> fit]
            ELSE IF ExtendHeap(a, h, e \div WSIZE).bp # NULL
            THEN [heap |-> Place(a, ExtendHeap(a, h, e \div WSIZE).heap, ExtendHeap(a, h, e \div WSIZE).bp, n),
                  bp |-> ExtendHeap(a, h, e \div WSIZE).bp]
            ELSE [heap |-> h, bp |-> NULL]
    BY Zenon DEF mm_malloc
  <2>2. NULL = 0 /\ WSIZE = 4
    BY DEF NULL, WSIZE
  <2>3. ExtendHeap(a, h, e \div WSIZE) = more
    BY <2>2
  <2> HIDE DEF r, more, fit, e, n
  <2> QED BY <2>1, <2>2, <2>3, Zenon
<1>2. Aligned(n) /\ n >= 16 /\ s + 8 <= n /\ n \in Nat /\ n # 0 /\ NoWrap(n)
  <2>1. Aligned(n) /\ n >= 16 /\ s + 8 <= n /\ NoWrap(n)
    BY AsizeIs
  <2> QED BY <2>1 DEF Aligned
<1> HIDE DEF n
<1>3. Aligned(e) /\ e >= 16 /\ n <= e /\ Abstract(a)!Growth(n) = e /\ e \in Nat /\ NoWrap(e)
  <2>1. Aligned(e) /\ e >= 16 /\ n <= e /\ Abstract(a)!Growth(n) = e /\ NoWrap(e)
    BY <1>2, ExtendSizeIs
  <2> QED BY <2>1 DEF Aligned
<1>4. Row(h, f, bs) /\ f \in Nat /\ f >= 16 /\ h.brk \in Nat /\ MaxHeap \in Nat
  BY FirstBlockIs, HeapWordsAssumption DEF Sound, Aligned, Row, Fitted
<1>5. Found(bs, n, fit)
  BY <1>2, BestFitIs
<1>6. \A cs, g : Row(g, f, cs) => \A c \in cs : c.at # 0
  BY <1>4 DEF Row, Tiles
<1>7. Abstract(a)!Fits(bs, n) = Able(bs, n) /\ Abstract(a)!Best(bs, n) = Smallest(bs, n)
  BY DEF Abstract!Fits, Abstract!Best, Able, Smallest
<1> HIDE DEF fit, more, r, e, f
<1>8. CASE s = 0
  <2>1. Refused(h, bs, s, r)
    BY <1>1, <1>8 DEF Refused
  <2> QED BY <2>1 DEF r
<1>9. CASE s # 0 /\ Able(bs, n) # {}
  <2>1. PICK c \in Smallest(bs, n) : fit = c.at
    BY <1>5, <1>9 DEF Found
  <2>2. c \in bs /\ ~c.used /\ n <= c.size
    BY DEF Smallest, Able
  <2>3. fit # 0 /\ r = [heap |-> Place(a, h, c.at, n), bp |-> c.at]
    BY <1>1, <1>4, <1>6, <1>9, <2>1, <2>2
  <2> DEFINE cs == Abstract(a)!Place(bs, c, n)
             g == Place(a, h, c.at, n)
  <2>4. Placed(a, h, g, bs, c, n)
    BY <1>2, <2>2, PlaceIs
  <2>5. PICK u : Took(bs, cs, u, c, n)
    BY <1>2, <1>4, <2>2, PlaceTakes
  <2>6. <<cs, h.brk>> \in Abstract(a)!Allocations(bs, h.brk, n)
    <3>1. Abstract(a)!Allocations(bs, h.brk, n) = {<<Abstract(a)!Place(bs, b, n), h.brk>> : b \in Smallest(bs, n)}
      BY <1>7, <1>9 DEF Abstract!Allocations
    <3> QED BY <3>1
  <2>7. Sound(a, g, cs) /\ Spared(h, g, bs) /\ g.brk = h.brk
    BY <2>4 DEF Placed
  <2> HIDE DEF cs, g
  <2>8. r.heap = g /\ r.bp = c.at
    BY <2>3 DEF g
  <2>9. s + 8 <= u.size
    <3>1. u \in cs /\ n <= u.size
      BY <2>5 DEF Took
    <3>2. u.size \in Nat
      BY <2>7, <3>1 DEF Sound, Row, Tiles, Fine
    <3> QED BY <1>2, <3>1, <3>2
  <2>10. Handed(a, h, bs, s, r, cs, u)
    BY <2>5, <2>6, <2>7, <2>8, <2>9 DEF Handed, Took, n
  <2> QED BY <1>9, <2>1, <2>3, <2>8, <2>10 DEF r
<1>10. CASE s # 0 /\ Able(bs, n) = {} /\ h.brk + e > MaxHeap
  <2>1. fit = 0
    BY <1>5, <1>10 DEF Found
  <2>2. more = [heap |-> h, bp |-> 0]
    BY <1>3, <1>10, ExtendIs DEF more
  <2>3. r = [heap |-> h, bp |-> 0]
    BY <1>1, <1>10, <2>1, <2>2
  <2>4. Refused(h, bs, s, r)
    BY <1>10, <2>3 DEF Refused, n, e
  <2> QED BY <2>4 DEF r
<1>11. CASE s # 0 /\ Able(bs, n) = {} /\ h.brk + e <= MaxHeap
  <2>1. fit = 0
    BY <1>5, <1>11 DEF Found
  <2> DEFINE ms == Abstract(a)!Merge(bs, Fresh(h.brk, e))
  <2>2. Extended(a, h, bs, e, more)
    BY <1>3, <1>11, ExtendIs DEF more
  <2>3. /\ Sound(a, more.heap, ms) /\ Parted(ms) /\ UsedOf(ms) = UsedOf(bs) /\ Spared(h, more.heap, bs)
        /\ more.heap.brk = h.brk + e
        /\ \E c \in ms : ~c.used /\ c.at = more.bp /\ Stop(c) = h.brk + e /\ e <= c.size
    BY <2>2 DEF Extended
  <2>4. Abstract(a)!Grown(bs, h.brk, n) = ms
    BY <1>3 DEF Abstract!Grown, Fresh
  <2> HIDE DEF ms
  <2>5. PICK c \in ms : ~c.used /\ c.at = more.bp /\ Stop(c) = h.brk + e /\ e <= c.size
    BY <2>3
  <2>6. Row(more.heap, f, ms)
    BY <2>3 DEF Sound, f
  <2>7. n <= c.size /\ more.bp # 0
    <3>1. c.size \in Nat
      BY <2>6 DEF Row, Tiles, Fine
    <3> QED BY <1>2, <1>3, <1>6, <2>5, <2>6, <3>1
  <2> DEFINE cs == Abstract(a)!Place(ms, c, n)
             g == Place(a, more.heap, c.at, n)
  <2>8. r.heap = g /\ r.bp = c.at
    BY <1>1, <1>11, <2>1, <2>5, <2>7
  <2>9. Placed(a, more.heap, g, ms, c, n)
    BY <1>2, <2>3, <2>5, <2>7, PlaceIs
  <2>10. PICK u : Took(ms, cs, u, c, n)
    BY <1>2, <2>3, <2>5, <2>6, <2>7, PlaceTakes
  <2>11. Sound(a, g, cs) /\ Spared(more.heap, g, ms) /\ g.brk = h.brk + e
    BY <2>3, <2>9 DEF Placed
  <2>12. <<cs, h.brk + e>> \in Abstract(a)!Allocations(bs, h.brk, n)
    <3>1. Abstract(a)!Allocations(bs, h.brk, n) =
            {<<Abstract(a)!Place(ms, b, n), h.brk + e>> : b \in {d \in ms : Abstract(a)!End(d) = h.brk + e}}
      BY <1>3, <1>7, <1>11, <2>4 DEF Abstract!Allocations
    <3>2. c \in {d \in ms : Abstract(a)!End(d) = h.brk + e}
      BY <2>5 DEF Abstract!End, Stop
    <3> QED BY <3>1, <3>2
  <2> HIDE DEF cs, g
  <2>13. Spared(h, g, bs)
    <3>1. \A b \in bs : b.used => b \in ms
      BY <2>3 DEF UsedOf
    <3> QED BY <2>3, <2>11, <3>1, SparedFewer, SparedCompose
  <2>14. s + 8 <= u.size
    <3>1. u \in cs /\ n <= u.size
      BY <2>10 DEF Took
    <3>2. u.size \in Nat
      BY <2>11, <3>1 DEF Sound, Row, Tiles, Fine
    <3> QED BY <1>2, <3>1, <3>2
  <2>15. Handed(a, h, bs, s, r, cs, u)
    BY <2>3, <2>8, <2>10, <2>11, <2>12, <2>13, <2>14 DEF Handed, Took, n
  <2> QED BY <1>11, <2>5, <2>7, <2>8, <2>15 DEF r
<1> QED BY <1>3, <1>4, <1>8, <1>9, <1>10, <1>11

(***************************************************************************)
(* mm_free.                                                                *)
(***************************************************************************)
Freed1(b) == [b EXCEPT !.used = FALSE]
Freed(a, h, bs, b, g) ==
  LET cs == Abstract(a)!Release(bs, b)
  IN  /\ Sound(a, g, cs) /\ Parted(cs) /\ UsedOf(cs) = UsedOf(bs) \ {b}
      /\ Spared(h, g, bs \ {b}) /\ g.brk = h.brk

\* mm_free does what Release of BlockHeap does.
LEMMA FreeIs ==
  ASSUME NEW a \in Kinds, NEW h, NEW bs, Sound(a, h, bs), Parted(bs), NEW b \in bs, b.used
  PROVE  Freed(a, h, bs, b, mm_free(a, h, b.at))
<1> DEFINE f == FirstBlock(a)
           d == Freed1(b)
           k == Tag(h, b.at, b.size, 0)
           cs == (bs \ {b}) \cup {d}
           r == Coalesce(a, k, d.at)
<1>1. Row(h, f, bs) /\ h \in Heap /\ f \in Nat /\ f >= 16 /\ h.brk <= MaxHeap /\ MaxHeap \in Nat /\ h.brk \in Nat
  BY FirstBlockIs, HeapFits, HeapWordsAssumption DEF Sound, Row, Fitted, Aligned
<1>2. /\ Fine(b) /\ f <= b.at /\ Stop(b) <= h.brk /\ \A c \in bs : Fine(c) /\ (b = c \/ Apart(b, c))
  BY <1>1 DEF Row, Tiles
<1>3. /\ b.at \in Nat /\ b.size \in Nat /\ Stop(b) = b.at + b.size /\ Aligned(b.at) /\ Aligned(b.size) /\ b.size >= 16
      /\ 0 < b.at /\ b.at + b.size <= MaxHeap
  BY <1>1, <1>2 DEF Fine, Stop
<1>4. BlockSize(h, b.at) = b.size
  BY <1>1, Reads
<1>5. d.at = b.at /\ d.size = b.size /\ ~d.used /\ Fine(d) /\ Bit(d) = 0 /\ Stop(d) = Stop(b)
  BY <1>2 DEF Freed1, Fine, Bit, Stop
<1>6. mm_free(a, h, b.at) = r.heap
  BY <1>4, <1>5 DEF mm_free
<1> HIDE DEF r
<1>7. Tags(h, k, b.at, b.size, b.size + 0)
  BY <1>1, <1>3, TagIs
<1> HIDE DEF d, k, f
<1>8. Row(k, f, cs)
  BY <1>1, <1>5, <1>7, RowRetag
<1>9. /\ k.brk = h.brk /\ k.list = h.list
      /\ \A w \in Words : k.mem[w] = h.mem[w] \/ w = b.at - 4 \/ w = Stop(b) - 8
  <2>1. b.at + b.size - 8 = Stop(b) - 8
    BY <1>3
  <2> QED BY <1>7, <2>1 DEF Tags
<1>10. \A c \in bs : c.at \in Nat /\ c.size \in Nat /\ Stop(c) = c.at + c.size /\ c.size >= 16
  BY <1>2 DEF Fine, Stop
<1>11. d \notin bs
  <2>1. \A c \in bs : c.at = b.at => b = c
    BY <1>2, <1>10 DEF Apart
  <2> QED BY <1>5, <2>1
<1>12. cs \ {d} = bs \ {b} /\ d \in cs
  BY <1>11
<1>13. Spared(h, k, bs \ {b})
  <2>1. ASSUME NEW c \in bs \ {b}, NEW w \in Words, c.at <= w, w < Stop(c) - 8
        PROVE  w # b.at - 4 /\ w # Stop(b) - 8
    <3>1. w \in Nat
      BY WordsAre
    <3>2. Stop(b) <= c.at \/ Stop(c) <= b.at
      BY <1>2 DEF Apart
    <3> QED BY <1>3, <1>10, <2>1, <3>1, <3>2
  <2> QED BY <1>9, <2>1 DEF Spared
<1>14. ASSUME a \in Listed PROVE Lists(a, k, Files(a, bs \ {b}))
  <2> DEFINE ds == bs \ {b}
  <2>1. f = ListsFirst(a) /\ Lists(a, h, Files(a, bs))
    BY <1>14 DEF Sound, FirstBlock, f
  <2>2. ds \in SUBSET cs
    OBVIOUS
  <2>3. Files(a, bs) = Files(a, ds)
    <3>1. ds \cup {b} = bs
      OBVIOUS
    <3> HIDE DEF ds
    <3> QED BY <3>1, FilesUsed
  <2>4. \A w \in Words : k.mem[w] = h.mem[w] \/ \E c \in cs : w = c.at - 4 \/ w = Stop(c) - 8
    BY <1>5, <1>9, <1>12
  <2> HIDE DEF ds, cs
  <2>5. Row(k, ListsFirst(a), cs) /\ Lists(a, h, Files(a, ds)) /\ k.list = h.list
    BY <1>8, <1>9, <2>1, <2>3
  <2>6. Lists(a, k, Files(a, ds))
    BY <1>14, <2>2, <2>4, <2>5, TagsKeepLists
  <2> QED BY <2>6 DEF ds
<1>15. Loose(a, k, cs, d)
  BY <1>5, <1>8, <1>12, <1>14 DEF Loose, f
<1>16. Coalesced(a, k, cs, d, r)
  BY <1>15, CoalesceIs DEF r
<1>17. \A c \in bs \ {b} : c \in cs
  OBVIOUS
<1>18. UsedOf(cs) = UsedOf(bs) \ {b}
  BY <1>5 DEF UsedOf
<1>19. Parted(bs \ {b})
  BY DEF Parted
<1>20. Abstract(a)!Release(bs, b) = Abstract(a)!Merge(bs \ {b}, d)
  BY DEF Abstract!Release, d, Freed1
<1> DEFINE ds == bs \ {b}
<1> HIDE DEF cs, ds
<1>21. Melted(k, cs, d) = Abstract(a)!Release(bs, b)
  BY <1>8, <1>12, <1>20, MeltedIsMerge
<1>22. UsedOf(Melted(k, cs, d)) = UsedOf(bs) \ {b}
  BY <1>5, <1>18, MeltedUsed
<1>23. Parted(Melted(k, cs, d))
  BY <1>5, <1>8, <1>12, <1>19, MeltedParted
<1>24. Spared(h, r.heap, ds)
  <2>1. Spared(h, k, ds) /\ \A c \in ds : c \in cs
    BY <1>13, <1>17 DEF ds
  <2> QED BY <1>16, <2>1, SparedFewer, SparedCompose DEF Coalesced
<1>25. Sound(a, r.heap, Melted(k, cs, d)) /\ r.heap.brk = h.brk
  BY <1>9, <1>16 DEF Coalesced
<1> QED BY <1>6, <1>21, <1>22, <1>23, <1>24, <1>25 DEF Freed, ds

(***************************************************************************)
(* What a program may write: the allocator keeps its words elsewhere.      *)
(***************************************************************************)
IsCore(a, h, bs, w) ==
  \/ w < FirstBlock(a) \/ w = h.brk - 4
  \/ \E b \in bs : \/ w = b.at - 4 \/ w = Stop(b) - 8
                   \/ a \in Listed /\ ~b.used /\ (w = b.at \/ w = b.at + 4)
Keeps(a, h, g, bs) ==
  /\ g \in Heap /\ g.brk = h.brk /\ g.list = h.list
  /\ \A w \in Words : IsCore(a, h, bs, w) => g.mem[w] = h.mem[w]

\* A heap is sound as long as its tags and links are.
LEMMA CoreKept ==
  ASSUME NEW a \in Kinds, NEW h, NEW bs, Sound(a, h, bs), NEW g, Keeps(a, h, g, bs)
  PROVE  Sound(a, g, bs)
<1> DEFINE f == FirstBlock(a)
<1>1. Row(h, f, bs) /\ f \in Nat /\ f >= 16
  BY FirstBlockIs DEF Sound, Aligned
<1>2. g \in Heap /\ g.brk = h.brk /\ g.list = h.list /\ Fitted(g, f) /\ Tiles(f, g.brk, bs)
  BY <1>1 DEF Row, Fitted, Keeps
<1>3. \A w \in Words : IsCore(a, h, bs, w) => g.mem[w] = h.mem[w]
  BY DEF Keeps
<1>4. Walls(g, f)
  <2>1. 4 \in Words /\ f - 8 \in Words /\ h.brk - 4 \in Words
    BY <1>1, RowWords
  <2>2. IsCore(a, h, bs, 4) /\ IsCore(a, h, bs, f - 8) /\ IsCore(a, h, bs, h.brk - 4)
    BY <1>1 DEF IsCore
  <2>3. g.mem[4] = h.mem[4] /\ g.mem[f - 8] = h.mem[f - 8] /\ g.mem[h.brk - 4] = h.mem[h.brk - 4]
    BY <1>3, <2>1, <2>2
  <2> HIDE DEF f
  <2> QED BY <1>1, <1>2, <2>3 DEF Walls, Row
<1>5. \A b \in bs : Tagged(g, b)
  <2>1. \A b \in bs : b.at - 4 \in Words /\ Stop(b) - 8 \in Words
    BY <1>1, RowWords
  <2>2. \A b \in bs : g.mem[b.at - 4] = h.mem[b.at - 4] /\ g.mem[Stop(b) - 8] = h.mem[Stop(b) - 8]
    BY <1>3, <2>1 DEF IsCore
  <2> HIDE DEF f
  <2> QED BY <1>1, <2>2 DEF Tagged, Row
<1>6. Row(g, f, bs)
  BY <1>2, <1>4, <1>5 DEF Row
<1>7. ASSUME a \in Listed PROVE Lists(a, g, Files(a, bs))
  <2>1. f = ListsFirst(a) /\ Lists(a, h, Files(a, bs)) /\ f <= MaxHeap
    BY <1>1, <1>7, HeapFits DEF Sound, FirstBlock
  <2>2. \A i \in Classes(a) : FreeListp(a, g, i) = FreeListp(a, h, i)
    <3>1. CASE a = "lab2"
      BY <1>2, <3>1 DEF FreeListp
    <3>2. CASE a # "lab2"
      <4>1. ASSUME NEW i \in Classes(a) PROVE g.mem[GetClass(i)] = h.mem[GetClass(i)]
        <5>1. GetClass(i) \in Words
          BY <1>7, <2>1, <3>2, ClassWords
        <5>2. GetClass(i) < f
          <6>1. GetClass(i) \in Nat /\ GetClass(i) < ListsFirst(a) - 8
            BY <1>7, <3>2, FirstIs
          <6> QED BY <1>1, <2>1, <6>1
        <5> QED BY <1>3, <5>1, <5>2 DEF IsCore
      <4> QED BY <3>2, <4>1 DEF FreeListp
    <3> QED BY <3>1, <3>2
  <2>3. ASSUME NEW i \in Classes(a)
        PROVE  \A y \in Files(a, bs)[i] : g.mem[y] = h.mem[y] /\ g.mem[y + 4] = h.mem[y + 4]
    <3>1. ASSUME NEW b \in bs, ~b.used PROVE g.mem[b.at] = h.mem[b.at] /\ g.mem[b.at + 4] = h.mem[b.at + 4]
      <4>1. b.at \in Words /\ b.at + 4 \in Words
        BY <1>1, RowWords
      <4>2. IsCore(a, h, bs, b.at) /\ IsCore(a, h, bs, b.at + 4)
        BY <1>7, <3>1 DEF IsCore
      <4> QED BY <1>3, <4>1, <4>2
    <3> QED BY <3>1 DEF Files, OfClass
  <2> HIDE DEF Lists
  <2>4. \A i \in Classes(a) : ListOf(g.mem, FreeListp(a, g, i), Stops(a), Files(a, bs)[i])
    BY <2>1, <2>2, <2>3, ListStays DEF Lists
  <2> QED BY <2>4 DEF Lists
<1> QED BY <1>6, <1>7 DEF Sound

\* A program that writes into the payload of u only.
WritesIn(h, g, u) ==
  /\ g \in Heap /\ g.brk = h.brk /\ g.list = h.list
  /\ \A w \in Words : (u.at <= w /\ w < Stop(u) - 8) \/ g.mem[w] = h.mem[w]

\* The payload of a used block has no tag and no link.
LEMMA PayloadIsNotCore ==
  ASSUME NEW a \in Kinds, NEW h, NEW bs, Sound(a, h, bs), NEW u \in bs, u.used,
         NEW w \in Words, u.at <= w, w < Stop(u) - 8
  PROVE  ~IsCore(a, h, bs, w) /\ \A b \in bs \ {u} : ~(b.at <= w /\ w < Stop(b) - 8)
<1> DEFINE f == FirstBlock(a)
<1>1. Row(h, f, bs) /\ f \in Nat
  BY FirstBlockIs DEF Sound, Aligned
<1>2. /\ \A b \in bs : Fine(b) /\ f <= b.at /\ Stop(b) <= h.brk /\ (u = b \/ Apart(u, b))
      /\ h.brk \in Nat
  BY <1>1 DEF Row, Tiles, Fitted, Aligned
<1>3. \A b \in bs : b.at \in Nat /\ Stop(b) \in Nat /\ b.at + 16 <= Stop(b)
  BY <1>2 DEF Fine, Stop
<1>4. w \in Nat
  BY WordsAre
<1> HIDE DEF f
<1>5. ~(w < f) /\ w # h.brk - 4
  BY <1>1, <1>2, <1>3, <1>4
<1>6. ASSUME NEW b \in bs \ {u} PROVE w < b.at - 4 \/ Stop(b) <= w
  <2>1. Stop(u) <= b.at \/ Stop(b) <= u.at
    BY <1>2 DEF Apart
  <2> QED BY <1>3, <1>4, <2>1
<1>7. ASSUME NEW b \in bs
      PROVE  w # b.at - 4 /\ w # Stop(b) - 8 /\ (~b.used => w # b.at /\ w # b.at + 4)
  <2>1. CASE b = u
    BY <1>3, <1>4, <2>1
  <2>2. CASE b # u
    BY <1>3, <1>4, <1>6, <2>2
  <2> QED BY <2>1, <2>2
<1>8. \A b \in bs \ {u} : ~(b.at <= w /\ w < Stop(b) - 8)
  BY <1>3, <1>4, <1>6
<1> QED BY <1>5, <1>7, <1>8 DEF IsCore, f

\* A program that stays in its payload disturbs nobody.
LEMMA WritesKeep ==
  ASSUME NEW a \in Kinds, NEW h, NEW bs, Sound(a, h, bs), NEW u \in bs, u.used, NEW g, WritesIn(h, g, u)
  PROVE  Sound(a, g, bs) /\ Spared(h, g, bs \ {u})
<1>1. Keeps(a, h, g, bs)
  BY PayloadIsNotCore DEF Keeps, WritesIn
<1>2. Spared(h, g, bs \ {u})
  BY PayloadIsNotCore DEF Spared, WritesIn
<1> QED BY <1>1, <1>2, CoreKept

(***************************************************************************)
(* memcpy between two payloads.                                            *)
(***************************************************************************)
Copies(h, g, u, b, n) ==
  /\ WritesIn(h, g, u)
  /\ \A w \in Words : u.at <= w /\ w < u.at + n => g.mem[w] = h.mem[b.at + (w - u.at)]

\* memcpy copies what was in the words.
LEMMA CopyIs ==
  ASSUME NEW h, NEW f, NEW bs, Row(h, f, bs), NEW u \in bs, NEW b \in bs, NEW n \in Nat,
         n + 8 <= u.size, n + 8 <= b.size
  PROVE  Copies(h, Copy(h, u.at, b.at, n), u, b, n)
<1> DEFINE g == Copy(h, u.at, b.at, n)
<1>1. h \in Heap /\ h.brk \in Nat /\ h.brk <= MaxHeap /\ MaxHeap \in Nat
  BY HeapFits, HeapWordsAssumption DEF Row, Fitted, Aligned
<1>2. \A c \in bs : Fine(c) /\ Stop(c) <= h.brk
  BY DEF Row, Tiles
<1>3. /\ u.at \in Nat /\ u.at % 8 = 0 /\ u.size \in Nat /\ Stop(u) = u.at + u.size
      /\ b.at \in Nat /\ b.at % 8 = 0 /\ b.size \in Nat /\ Stop(b) = b.at + b.size
  BY <1>2 DEF Fine, Stop, Aligned
<1>4. /\ g.mem = [w \in Words |-> IF u.at <= w /\ w < u.at + n THEN h.mem[b.at + (w - u.at)] ELSE h.mem[w]]
      /\ g.brk = h.brk /\ g.list = h.list /\ g = [mem |-> g.mem, brk |-> g.brk, list |-> g.list]
  BY <1>1 DEF Copy, Heap
<1> HIDE DEF g
<1>5. ASSUME NEW w \in Words, u.at <= w, w < u.at + n PROVE b.at + (w - u.at) \in Words
  <2>1. w \in Nat /\ w % 4 = 0
    BY WordsAre
  <2> DEFINE x == b.at + (w - u.at)
  <2>4. b.at + b.size <= MaxHeap
    <3>1. Stop(b) <= h.brk
      BY <1>2
    <3> QED BY <1>1, <1>3, <3>1
  <2>5. x \in Int /\ x % 4 = 0
    BY <1>3, <2>1
  <2>6. 0 <= x /\ x < MaxHeap
    <3>1. n + 8 <= b.size
      OBVIOUS
    <3> QED BY <1>1, <1>3, <1>5, <2>1, <2>4, <3>1
  <2>2. x \in Int /\ x % 4 = 0 /\ 0 <= x /\ x < MaxHeap
    BY <2>5, <2>6
  <2> HIDE DEF x
  <2>3. x \in Words
    BY <2>2, WordIs
  <2> QED BY <2>3 DEF x
<1>6. \A w \in Words : g.mem[w] \in Int
  BY <1>1, <1>4, <1>5 DEF Heap
<1>7. g \in Heap
  BY <1>1, <1>4, <1>6 DEF Heap
<1>8. \A w \in Words : (u.at <= w /\ w < Stop(u) - 8) \/ g.mem[w] = h.mem[w]
  <2>1. \A w \in Words : w \in Nat
    BY WordsAre
  <2> QED BY <1>3, <1>4, <2>1
<1> QED BY <1>4, <1>7, <1>8 DEF Copies, WritesIn, g

(***************************************************************************)
(* mm_realloc.                                                             *)
(***************************************************************************)
Moved(a, h, bs, b, s, r, cs, u) ==
  /\ <<cs, r.heap.brk>> \in Abstract(a)!Allocations(bs, h.brk, Asize(s)) /\ b \in cs
  /\ Sound(a, r.heap, Abstract(a)!Release(cs, b)) /\ Parted(Abstract(a)!Release(cs, b))
  /\ UsedOf(Abstract(a)!Release(cs, b)) = (UsedOf(bs) \cup {u}) \ {b}
  /\ Spared(h, r.heap, bs \ {b})
  /\ u \notin UsedOf(bs) /\ u.used /\ u.at = r.bp /\ s + 8 <= u.size
  /\ \A w \in Words : u.at <= w /\ w < u.at + s /\ (w - u.at) + 8 < b.size =>
                        r.heap.mem[w] = h.mem[b.at + (w - u.at)]

\* mm_realloc is mm_malloc, memcpy and mm_free, and the payload moves along.
LEMMA ReallocIs ==
  ASSUME NEW a \in Kinds, NEW h, NEW bs, Sound(a, h, bs), Parted(bs),
         NEW s \in Nat, s + 15 < SizeMod, NoWrap(Asize(s)), NEW b \in bs, b.used
  PROVE  \/ Refused(h, bs, s, mm_realloc(a, h, b.at, s))
         \/ s # 0 /\ mm_realloc(a, h, b.at, s).bp # 0
            /\ \E cs, u : Moved(a, h, bs, b, s, mm_realloc(a, h, b.at, s), cs, u)
<1> DEFINE new == mm_malloc(a, h, s)
           payload == BlockSize(new.heap, b.at) - 8
           n == IF s < payload THEN s ELSE payload
           k == Copy(new.heap, new.bp, b.at, n)
           g == mm_free(a, k, b.at)
           r == mm_realloc(a, h, b.at, s)
<1>1. r = IF new.bp = 0 THEN new ELSE [heap |-> g, bp |-> new.bp]
  BY Zenon DEF mm_realloc, Move, NULL, DSIZE
<1> HIDE DEF r, g, k, new
<1>2. CASE Refused(h, bs, s, new)
  <2>1. new.bp = 0
    BY <1>2 DEF Refused
  <2> QED BY <1>1, <1>2, <2>1 DEF r
<1>3. ASSUME s # 0, new.bp # 0, NEW cs, NEW u, Handed(a, h, bs, s, new, cs, u)
      PROVE  s # 0 /\ r.bp # 0 /\ Moved(a, h, bs, b, s, r, cs, u)
  <2>1. /\ Sound(a, new.heap, cs) /\ Parted(cs) /\ Spared(h, new.heap, bs)
        /\ UsedOf(cs) = UsedOf(bs) \cup {u} /\ u \notin UsedOf(bs)
        /\ u \in cs /\ u.used /\ u.at = new.bp /\ s + 8 <= u.size
        /\ <<cs, new.heap.brk>> \in Abstract(a)!Allocations(bs, h.brk, Asize(s))
    BY <1>3 DEF Handed
  <2>2. b \in cs /\ b # u /\ b \in UsedOf(bs)
    BY <2>1 DEF UsedOf
  <2>3. Row(new.heap, FirstBlock(a), cs)
    BY <2>1 DEF Sound
  <2>4. BlockSize(new.heap, b.at) = b.size
    BY <2>2, <2>3, Reads
  <2>5. /\ Fine(b) /\ Fine(u)
        /\ b.size \in Nat /\ b.size >= 16 /\ u.at \in Nat /\ u.size \in Nat /\ b.at \in Nat
        /\ Stop(b) = b.at + b.size /\ Stop(u) = u.at + u.size
    BY <2>1, <2>2, <2>3 DEF Row, Tiles, Fine, Stop
  <2>6. n \in Nat /\ n + 8 <= b.size /\ n + 8 <= u.size /\ (n = s \/ n = b.size - 8)
    BY <2>1, <2>4, <2>5
  <2> HIDE DEF n
  <2>7. Copies(new.heap, k, u, b, n)
    <3>1. k = Copy(new.heap, u.at, b.at, n)
      BY <2>1 DEF k
    <3> QED BY <2>1, <2>2, <2>3, <2>6, <3>1, CopyIs
  <2>8. Sound(a, k, cs) /\ Spared(new.heap, k, cs \ {u}) /\ k.brk = new.heap.brk
    BY <2>1, <2>7, WritesKeep DEF Copies, WritesIn
  <2>9. Freed(a, k, cs, b, g)
    BY <2>1, <2>2, <2>8, FreeIs DEF g
  <2>10. r.heap = g /\ r.bp = new.bp
    BY <1>1, <1>3
  <2>11. /\ Sound(a, g, Abstract(a)!Release(cs, b)) /\ Parted(Abstract(a)!Release(cs, b))
         /\ UsedOf(Abstract(a)!Release(cs, b)) = UsedOf(cs) \ {b} /\ Spared(k, g, cs \ {b}) /\ g.brk = k.brk
    BY <2>9 DEF Freed
  <2>12. Spared(h, g, bs \ {b})
    <3> DEFINE ds == bs \ {b}
    <3>1. \A c \in ds : c.used => c \in bs /\ c \in cs \ {u} /\ c \in cs \ {b}
      BY <2>1 DEF UsedOf
    <3> HIDE DEF ds
    <3>2. Spared(h, new.heap, ds)
      BY <2>1, <3>1, SparedFewer
    <3>3. Spared(new.heap, k, ds)
      <4> DEFINE es == cs \ {u}
      <4>1. Spared(new.heap, k, es) /\ \A c \in ds : c.used => c \in es
        BY <2>8, <3>1
      <4> HIDE DEF es
      <4> QED BY <4>1, SparedFewer
    <3>4. Spared(k, g, ds)
      <4> DEFINE es == cs \ {b}
      <4>1. Spared(k, g, es) /\ \A c \in ds : c.used => c \in es
        BY <2>11, <3>1
      <4> HIDE DEF es
      <4> QED BY <4>1, SparedFewer
    <3>5. Spared(h, g, ds)
      BY <3>2, <3>3, <3>4, SparedCompose
    <3> QED BY <3>5 DEF ds
  <2>13. ASSUME NEW w \in Words, u.at <= w, w < u.at + s, (w - u.at) + 8 < b.size
         PROVE  g.mem[w] = h.mem[b.at + (w - u.at)]
    <3>1. w \in Nat /\ w % 4 = 0
      BY WordsAre
    <3>2. w < u.at + n /\ w < Stop(u) - 8
      BY <2>5, <2>6, <2>13, <3>1
    <3>3. g.mem[w] = k.mem[w]
      BY <2>1, <2>2, <2>11, <2>13, <3>2 DEF Spared
    <3>4. k.mem[w] = new.heap.mem[b.at + (w - u.at)]
      BY <2>7, <2>13, <3>2 DEF Copies
    <3>5. new.heap.mem[b.at + (w - u.at)] = h.mem[b.at + (w - u.at)]
      <4> DEFINE x == b.at + (w - u.at)
      <4>1. b.at <= x /\ x < Stop(b) - 8
        BY <2>5, <2>13, <3>1
      <4>2. x \in Words
        <5>1. Stop(b) <= MaxHeap
          <6>1. Stop(b) <= new.heap.brk /\ new.heap.brk <= MaxHeap /\ new.heap.brk \in Nat
            BY <2>2, <2>3 DEF Row, Tiles, Fitted, Aligned
          <6> QED BY <2>5, <6>1, HeapWordsAssumption
        <5>2. b.at % 8 = 0 /\ u.at % 8 = 0
          BY <2>5 DEF Fine, Aligned
        <5>3. x \in Int /\ x % 4 = 0 /\ 0 <= x /\ x < MaxHeap
          <6>1. MaxHeap \in Nat
            BY HeapWordsAssumption
          <6>2. b.at \in Nat /\ u.at \in Nat /\ Stop(b) \in Nat /\ u.at <= w
            BY <2>5, <2>13
          <6>3. x \in Int /\ 0 <= x /\ x < MaxHeap
            BY <3>1, <4>1, <5>1, <6>1, <6>2
          <6>4. x % 4 = 0
            <7>1. b.at % 4 = 0 /\ u.at % 4 = 0
              BY <5>2, <6>2
            <7>2. (w - u.at) % 4 = 0 /\ w - u.at \in Int
              BY <3>1, <6>2, <7>1
            <7> QED BY <6>2, <7>1, <7>2
          <6> QED BY <6>3, <6>4
        <5> HIDE DEF x
        <5> QED BY <5>3, WordIs
      <4> HIDE DEF x
      <4>3. new.heap.mem[x] = h.mem[x]
        BY <2>1, <4>1, <4>2 DEF Spared
      <4> QED BY <4>3 DEF x
    <3> QED BY <3>3, <3>4, <3>5
  <2>14. Moved(a, h, bs, b, s, r, cs, u)
    BY <2>1, <2>2, <2>8, <2>10, <2>11, <2>12, <2>13 DEF Moved
  <2> QED BY <1>3, <2>10, <2>14
<1>4. Refused(h, bs, s, new) \/ (s # 0 /\ new.bp # 0 /\ \E cs, u : Handed(a, h, bs, s, new, cs, u))
  BY MallocIs DEF new
<1>5. CASE s # 0 /\ new.bp # 0 /\ \E cs, u : Handed(a, h, bs, s, new, cs, u)
  BY <1>3, <1>5 DEF r
<1> QED BY <1>2, <1>4, <1>5 DEF r

(***************************************************************************)
(* The program on the allocator: which block each index has.               *)
(***************************************************************************)
Holds(bs, u, at, n) == u \in UsedOf(bs) /\ u.at = at /\ n + 8 <= u.size
Named(bs, bps, szs, fls) ==
  /\ bps \in [Ids -> Nat] /\ szs \in [Ids -> Requests \cup {0}] /\ fls \in [Ids -> Nat]
  /\ \A id \in Ids : fls[id] <= szs[id] /\ (bps[id] = 0 => szs[id] = 0)
  /\ \A id \in Ids : bps[id] # 0 => \E u : Holds(bs, u, bps[id], szs[id])
  /\ \A u \in UsedOf(bs) : \E id \in Ids : bps[id] = u.at
  /\ \A i, j \in Ids : bps[i] # 0 /\ bps[i] = bps[j] => i = j
Filled(h, at, n, id) == \A w \in Words : at <= w /\ w < at + n => h.mem[w] = Fill(id)
Intact(h, bps, fls) == \A id \in Ids : bps[id] # 0 => Filled(h, bps[id], fls[id], id)
Good(a, h, bs, bps, szs, fls) ==
  Sound(a, h, bs) /\ Parted(bs) /\ Named(bs, bps, szs, fls) /\ Intact(h, bps, fls)

\* A request is a number whose block does not wrap around.
LEMMA SizesAre ==
  ASSUME NEW s \in Requests \cup {0}
  PROVE  s \in Nat /\ (s \in Requests => s + 15 < SizeMod /\ NoWrap(Asize(s)))
<1>1. \A n \in Requests : n \in Nat /\ n + 8 + 8 - 1 < SizeMod /\ NoWrap(Asize(n))
  BY IdsAssumption DEF DSIZE
<1>2. SizeMod \in Nat
  BY HeapWordsAssumption
<1> QED BY <1>1, <1>2

\* Blocks are told apart by where they start, and none starts at NULL.
LEMMA Places ==
  ASSUME NEW a \in Kinds, NEW h, NEW bs, Sound(a, h, bs)
  PROVE  /\ \A b \in bs : Fine(b) /\ b.at # 0 /\ Stop(b) <= h.brk /\ Stop(b) <= MaxHeap
         /\ \A b, c \in bs : b.at = c.at => b = c
         /\ \A b, c \in bs : b = c \/ Apart(b, c)
<1>1. Row(h, FirstBlock(a), bs) /\ FirstBlock(a) \in Nat /\ FirstBlock(a) >= 16
  BY FirstBlockIs DEF Sound, Aligned
<1>2. /\ \A b \in bs : Fine(b) /\ FirstBlock(a) <= b.at /\ Stop(b) <= h.brk
      /\ \A b, c \in bs : b = c \/ Apart(b, c)
      /\ h.brk \in Nat /\ h.brk <= MaxHeap /\ MaxHeap \in Nat
  BY <1>1, HeapWordsAssumption DEF Row, Tiles, Fitted, Aligned
<1>3. \A b \in bs : b.at \in Nat /\ Stop(b) \in Nat /\ b.at + 16 <= Stop(b)
  BY <1>2 DEF Fine, Stop
<1>4. \A b \in bs : b.at # 0 /\ Stop(b) <= MaxHeap
  BY <1>1, <1>2, <1>3
<1>5. \A b, c \in bs : b.at = c.at => b = c
  BY <1>2, <1>3 DEF Apart
<1> QED BY <1>2, <1>4, <1>5

\* A payload that is spared keeps its data.
LEMMA DataSpared ==
  ASSUME NEW h, NEW g, NEW ds, Spared(h, g, ds), NEW v \in ds, v.used, Fine(v),
         NEW n \in Nat, n + 8 <= v.size, NEW id, Filled(h, v.at, n, id)
  PROVE  Filled(g, v.at, n, id)
<1>1. v.at \in Nat /\ v.size \in Nat /\ Stop(v) = v.at + v.size
  BY DEF Fine, Stop
<1>2. ASSUME NEW w \in Words, v.at <= w, w < v.at + n PROVE g.mem[w] = h.mem[w]
  <2>1. w \in Nat
    BY WordsAre
  <2>2. w < Stop(v) - 8
    BY <1>1, <1>2, <2>1
  <2> QED BY <1>2, <2>2 DEF Spared
<1> QED BY <1>2 DEF Filled

\* memset of a payload.
Fills(h, g, u, n, id) == WritesIn(h, g, u) /\ Filled(g, u.at, n, id)

\* memset writes into one payload only.
LEMMA MemsetIs ==
  ASSUME NEW h \in Heap, NEW u, Fine(u), NEW n \in Nat, n + 8 <= u.size, NEW id \in Ids
  PROVE  Fills(h, Memset(h, u.at, n, id), u, n, id)
<1> DEFINE g == Memset(h, u.at, n, id)
<1>1. u.at \in Nat /\ u.size \in Nat /\ Stop(u) = u.at + u.size
  BY DEF Fine, Stop
<1>2. /\ g.mem = [w \in Words |-> IF u.at <= w /\ w < u.at + n THEN Fill(id) ELSE h.mem[w]]
      /\ g.brk = h.brk /\ g.list = h.list /\ g = [mem |-> g.mem, brk |-> g.brk, list |-> g.list]
  BY DEF Memset, Heap
<1> HIDE DEF g
<1>3. Fill(id) \in Int
  BY IdsAssumption DEF Fill
<1>4. \A w \in Words : g.mem[w] \in Int
  BY <1>2, <1>3 DEF Heap
<1>5. g \in Heap
  BY <1>2, <1>4 DEF Heap
<1>6. \A w \in Words : (u.at <= w /\ w < Stop(u) - 8) \/ g.mem[w] = h.mem[w]
  <2>1. \A w \in Words : w \in Nat
    BY WordsAre
  <2> QED BY <1>1, <1>2, <2>1
<1> QED BY <1>2, <1>5, <1>6 DEF Fills, WritesIn, Filled, g

(***************************************************************************)
(* An index and its block.                                                 *)
(***************************************************************************)
Other(a, h, bs, bps, szs, fls, id, u) ==
  /\ u \in bs /\ u.used /\ u.at = bps[id] /\ Fine(u) /\ szs[id] + 8 <= u.size /\ fls[id] + 8 <= u.size
  /\ fls[id] \in Nat /\ szs[id] \in Nat /\ Filled(h, u.at, fls[id], id)

\* Every index with a payload has a block of its own.
LEMMA BlockOf ==
  ASSUME NEW a \in Kinds, NEW h, NEW bs, NEW bps, NEW szs, NEW fls, Good(a, h, bs, bps, szs, fls),
         NEW id \in Ids, bps[id] # 0
  PROVE  \E u : Other(a, h, bs, bps, szs, fls, id, u)
<1>1. PICK u : Holds(bs, u, bps[id], szs[id])
  BY DEF Good, Named
<1>2. u \in bs /\ u.used /\ u.at = bps[id] /\ szs[id] + 8 <= u.size
  BY <1>1 DEF Holds, UsedOf
<1>3. Fine(u)
  BY <1>2, Places DEF Good
<1>4. szs[id] \in Nat /\ fls[id] \in Nat /\ fls[id] <= szs[id]
  BY SizesAre DEF Good, Named
<1>5. u.size \in Nat
  BY <1>3 DEF Fine
<1>6. fls[id] + 8 <= u.size
  BY <1>2, <1>4, <1>5
<1>7. Filled(h, u.at, fls[id], id)
  BY <1>2 DEF Good, Intact
<1> QED BY <1>2, <1>3, <1>4, <1>6, <1>7 DEF Other

(***************************************************************************)
(* The first chunk.                                                        *)
(***************************************************************************)
LEMMA InitGood ==
  ASSUME NEW a \in Kinds, NEW h \in Heap, h.brk = 0, FirstBlock(a) + ChunkSize <= MaxHeap
  PROVE  Good(a, mm_init(a, h).heap, {Fresh1(a)}, NoBlocks, NoBlocks, NoBlocks)
<1>1. Sound(a, mm_init(a, h).heap, {Fresh1(a)}) /\ Parted({Fresh1(a)})
  BY InitIs
<1>2. UsedOf({Fresh1(a)}) = {}
  BY DEF UsedOf, Fresh1, Fresh
<1>3. Named({Fresh1(a)}, NoBlocks, NoBlocks, NoBlocks)
  BY <1>2 DEF Named, NoBlocks, NULL
<1>4. Intact(mm_init(a, h).heap, NoBlocks, NoBlocks)
  BY DEF Intact, NoBlocks, NULL
<1> QED BY <1>1, <1>3, <1>4 DEF Good

(***************************************************************************)
(* A new block.                                                            *)
(***************************************************************************)
LEMMA AllocGood ==
  ASSUME NEW a \in Kinds, NEW h, NEW bs, NEW bps, NEW szs, NEW fls, Good(a, h, bs, bps, szs, fls),
         NEW id \in Ids, bps[id] = 0, NEW s \in Requests, NEW r, NEW cs, NEW u, Handed(a, h, bs, s, r, cs, u)
  PROVE  Good(a, Memset(r.heap, r.bp, s, id), cs, [bps EXCEPT ![id] = r.bp],
              [szs EXCEPT ![id] = s], [fls EXCEPT ![id] = s])
<1> DEFINE g == Memset(r.heap, r.bp, s, id)
           bps1 == [bps EXCEPT ![id] = r.bp]
           szs1 == [szs EXCEPT ![id] = s]
           fls1 == [fls EXCEPT ![id] = s]
<1>1. /\ Sound(a, r.heap, cs) /\ Parted(cs) /\ Spared(h, r.heap, bs)
      /\ UsedOf(cs) = UsedOf(bs) \cup {u} /\ u \notin UsedOf(bs)
      /\ u \in cs /\ u.used /\ u.at = r.bp /\ s + 8 <= u.size
  BY DEF Handed
<1>2. Sound(a, h, bs) /\ Named(bs, bps, szs, fls) /\ Intact(h, bps, fls)
  BY DEF Good
<1>3. s \in Nat
  BY SizesAre
<1>4. Fine(u) /\ u.at # 0 /\ u.at \in Nat /\ \A b, c \in cs : b.at = c.at => b = c
  BY <1>1, Places DEF Fine
<1>5. r.heap \in Heap
  BY <1>1, HeapFits DEF Sound
<1>6. Fills(r.heap, g, u, s, id)
  BY <1>1, <1>3, <1>4, <1>5, MemsetIs
<1> HIDE DEF g
<1>7. Sound(a, g, cs) /\ Spared(r.heap, g, cs \ {u})
  BY <1>1, <1>6, WritesKeep DEF Fills
<1>8. /\ bps1 \in [Ids -> Nat] /\ szs1 \in [Ids -> Requests \cup {0}] /\ fls1 \in [Ids -> Nat]
      /\ bps1[id] = u.at /\ szs1[id] = s /\ fls1[id] = s
      /\ \A j \in Ids : j # id => bps1[j] = bps[j] /\ szs1[j] = szs[j] /\ fls1[j] = fls[j]
  BY <1>1, <1>2, <1>3, <1>4 DEF Named
<1> HIDE DEF bps1, szs1, fls1
<1>9. ASSUME NEW j \in Ids, j # id, bps[j] # 0
      PROVE  /\ \E v : Holds(cs, v, bps[j], szs[j])
             /\ bps[j] # u.at /\ Filled(g, bps[j], fls[j], j)
  <2>1. PICK v : Other(a, h, bs, bps, szs, fls, j, v)
    BY <1>9, BlockOf
  <2>2. /\ v \in bs /\ v.used /\ v.at = bps[j] /\ Fine(v) /\ szs[j] + 8 <= v.size /\ fls[j] + 8 <= v.size
        /\ fls[j] \in Nat /\ Filled(h, v.at, fls[j], j)
    BY <2>1 DEF Other
  <2>3. v \in UsedOf(bs) /\ v \in UsedOf(cs) /\ v \in cs /\ v # u
    BY <1>1, <2>2 DEF UsedOf
  <2>4. v.at # u.at
    BY <1>1, <1>4, <2>3
  <2>5. Filled(r.heap, v.at, fls[j], j)
    BY <1>1, <2>2, DataSpared
  <2> DEFINE ds == cs \ {u}
  <2>6. v \in ds /\ Spared(r.heap, g, ds)
    BY <1>7, <2>3
  <2> HIDE DEF ds
  <2>7. Filled(g, v.at, fls[j], j)
    BY <2>2, <2>5, <2>6, DataSpared
  <2> QED BY <2>2, <2>3, <2>4, <2>7 DEF Holds
<1>10. Named(cs, bps1, szs1, fls1)
  <2>1. \A j \in Ids : fls1[j] <= szs1[j] /\ (bps1[j] = 0 => szs1[j] = 0)
    BY <1>2, <1>3, <1>4, <1>8 DEF Named
  <2>2. \A j \in Ids : bps1[j] # 0 => \E v : Holds(cs, v, bps1[j], szs1[j])
    <3>1. Holds(cs, u, bps1[id], szs1[id])
      BY <1>1, <1>8 DEF Holds
    <3> QED BY <1>8, <1>9, <3>1
  <2>3. \A v \in UsedOf(cs) : \E j \in Ids : bps1[j] = v.at
    <3>1. \A v \in UsedOf(bs) : \E j \in Ids : bps[j] = v.at /\ j # id
      <4>1. \A v \in UsedOf(bs) : v.at # 0
        BY <1>2, Places DEF UsedOf
      <4> QED BY <1>2, <4>1 DEF Named
    <3> QED BY <1>1, <1>8, <3>1
  <2>4. \A i, j \in Ids : bps1[i] # 0 /\ bps1[i] = bps1[j] => i = j
    <3>1. \A i, j \in Ids : bps[i] # 0 /\ bps[i] = bps[j] => i = j
      BY <1>2 DEF Named
    <3>2. \A j \in Ids : j # id => bps1[j] # u.at
      BY <1>4, <1>8, <1>9
    <3> QED BY <1>8, <3>1, <3>2
  <2> QED BY <1>8, <2>1, <2>2, <2>3, <2>4 DEF Named
<1>11. Intact(g, bps1, fls1)
  <2>1. Filled(g, bps1[id], fls1[id], id)
    BY <1>6, <1>8 DEF Fills
  <2> QED BY <1>8, <1>9, <2>1 DEF Intact
<1> QED BY <1>1, <1>7, <1>10, <1>11 DEF Good, g, bps1, szs1, fls1

(***************************************************************************)
(* A block that is given back.                                             *)
(***************************************************************************)
LEMMA FreeGood ==
  ASSUME NEW a \in Kinds, NEW h, NEW bs, NEW bps, NEW szs, NEW fls, Good(a, h, bs, bps, szs, fls),
         NEW id \in Ids, NEW b, Other(a, h, bs, bps, szs, fls, id, b), NEW g, Freed(a, h, bs, b, g)
  PROVE  Good(a, g, Abstract(a)!Release(bs, b), [bps EXCEPT ![id] = 0],
              [szs EXCEPT ![id] = 0], [fls EXCEPT ![id] = 0])
<1> DEFINE cs == Abstract(a)!Release(bs, b)
           ds == bs \ {b}
           bps1 == [bps EXCEPT ![id] = 0]
           szs1 == [szs EXCEPT ![id] = 0]
           fls1 == [fls EXCEPT ![id] = 0]
<1>1. /\ Sound(a, g, cs) /\ Parted(cs) /\ UsedOf(cs) = UsedOf(bs) \ {b} /\ Spared(h, g, ds)
  BY DEF Freed
<1>2. Sound(a, h, bs) /\ Named(bs, bps, szs, fls)
  BY DEF Good
<1>3. b \in bs /\ b.used /\ b.at = bps[id]
  BY DEF Other
<1>4. \A c, d \in bs : c.at = d.at => c = d
  BY <1>2, Places
<1> HIDE DEF cs
<1>5. /\ bps1 \in [Ids -> Nat] /\ szs1 \in [Ids -> Requests \cup {0}] /\ fls1 \in [Ids -> Nat]
      /\ bps1[id] = 0 /\ szs1[id] = 0 /\ fls1[id] = 0
      /\ \A j \in Ids : j # id => bps1[j] = bps[j] /\ szs1[j] = szs[j] /\ fls1[j] = fls[j]
  BY <1>2 DEF Named
<1> HIDE DEF bps1, szs1, fls1
<1>6. \A i, j \in Ids : bps[i] # 0 /\ bps[i] = bps[j] => i = j
  BY <1>2 DEF Named
<1>7. ASSUME NEW j \in Ids, j # id, bps[j] # 0
      PROVE  (\E v : Holds(cs, v, bps[j], szs[j])) /\ Filled(g, bps[j], fls[j], j)
  <2>1. PICK v : Other(a, h, bs, bps, szs, fls, j, v)
    BY <1>7, BlockOf
  <2>2. /\ v \in bs /\ v.used /\ v.at = bps[j] /\ Fine(v) /\ szs[j] + 8 <= v.size /\ fls[j] + 8 <= v.size
        /\ fls[j] \in Nat /\ Filled(h, v.at, fls[j], j)
    BY <2>1 DEF Other
  <2>3. v # b
    BY <1>3, <1>6, <1>7, <2>2
  <2>4. v \in UsedOf(cs) /\ v \in ds
    BY <1>1, <2>2, <2>3 DEF UsedOf
  <2> HIDE DEF ds
  <2>5. Filled(g, v.at, fls[j], j)
    BY <1>1, <2>2, <2>4, DataSpared
  <2> QED BY <2>2, <2>4, <2>5 DEF Holds
<1>8. Named(cs, bps1, szs1, fls1)
  <2>1. \A j \in Ids : fls1[j] <= szs1[j] /\ (bps1[j] = 0 => szs1[j] = 0)
    BY <1>2, <1>5 DEF Named
  <2>2. \A j \in Ids : bps1[j] # 0 => \E v : Holds(cs, v, bps1[j], szs1[j])
    BY <1>5, <1>7
  <2>3. \A v \in UsedOf(cs) : \E j \in Ids : bps1[j] = v.at
    <3>1. ASSUME NEW v \in UsedOf(bs), v # b PROVE \E j \in Ids : bps[j] = v.at /\ j # id
      <4>1. v.at # b.at
        BY <1>3, <1>4, <3>1 DEF UsedOf
      <4> QED BY <1>2, <1>3, <4>1 DEF Named
    <3> QED BY <1>1, <1>5, <3>1
  <2>4. \A i, j \in Ids : bps1[i] # 0 /\ bps1[i] = bps1[j] => i = j
    BY <1>5, <1>6
  <2> QED BY <1>5, <2>1, <2>2, <2>3, <2>4 DEF Named
<1>9. Intact(g, bps1, fls1)
  BY <1>5, <1>7 DEF Intact
<1> QED BY <1>1, <1>8, <1>9 DEF Good, cs, bps1, szs1, fls1

(***************************************************************************)
(* A block that moves.                                                     *)
(***************************************************************************)
LEMMA ReallocGood ==
  ASSUME NEW a \in Kinds, NEW h, NEW bs, NEW bps, NEW szs, NEW fls, Good(a, h, bs, bps, szs, fls),
         NEW id \in Ids, bps[id] # 0, NEW b, Other(a, h, bs, bps, szs, fls, id, b), NEW s \in Requests,
         NEW r, NEW cs, NEW u, Moved(a, h, bs, b, s, r, cs, u)
  PROVE  Good(a, r.heap, Abstract(a)!Release(cs, b), [bps EXCEPT ![id] = r.bp],
              [szs EXCEPT ![id] = s], [fls EXCEPT ![id] = IF s < fls[id] THEN s ELSE fls[id]])
<1> DEFINE es == Abstract(a)!Release(cs, b)
           ds == bs \ {b}
           g == r.heap
           bps1 == [bps EXCEPT ![id] = r.bp]
           szs1 == [szs EXCEPT ![id] = s]
           fls1 == [fls EXCEPT ![id] = IF s < fls[id] THEN s ELSE fls[id]]
<1>1. /\ Sound(a, g, es) /\ Parted(es) /\ UsedOf(es) = (UsedOf(bs) \cup {u}) \ {b} /\ Spared(h, g, ds)
      /\ u \notin UsedOf(bs) /\ u.used /\ u.at = r.bp /\ s + 8 <= u.size
      /\ \A w \in Words : u.at <= w /\ w < u.at + s /\ (w - u.at) + 8 < b.size =>
                        g.mem[w] = h.mem[b.at + (w - u.at)]
  BY DEF Moved
<1>2. Sound(a, h, bs) /\ Named(bs, bps, szs, fls)
  BY DEF Good
<1>3. /\ b \in bs /\ b.used /\ b.at = bps[id] /\ Fine(b) /\ fls[id] + 8 <= b.size /\ fls[id] \in Nat
      /\ Filled(h, b.at, fls[id], id)
  BY DEF Other
<1>4. (\A c, d \in bs : c.at = d.at => c = d) /\ s \in Nat
  BY <1>2, Places, SizesAre
<1> HIDE DEF es, g
<1>5. u \in es /\ u \in UsedOf(es) /\ u # b
  BY <1>1, <1>3 DEF UsedOf
<1>6. Fine(u) /\ u.at # 0 /\ u.at \in Nat /\ Stop(u) <= MaxHeap /\ \A c, d \in es : c.at = d.at => c = d
  BY <1>1, <1>5, Places DEF Fine
<1>7. /\ bps1 \in [Ids -> Nat] /\ szs1 \in [Ids -> Requests \cup {0}] /\ fls1 \in [Ids -> Nat]
      /\ bps1[id] = u.at /\ szs1[id] = s /\ fls1[id] = IF s < fls[id] THEN s ELSE fls[id]
      /\ \A j \in Ids : j # id => bps1[j] = bps[j] /\ szs1[j] = szs[j] /\ fls1[j] = fls[j]
  <2>1. (IF s < fls[id] THEN s ELSE fls[id]) \in Nat
    BY <1>3, <1>4
  <2> QED BY <1>1, <1>2, <1>6, <2>1 DEF Named
<1> HIDE DEF bps1, szs1, fls1
<1>8. \A i, j \in Ids : bps[i] # 0 /\ bps[i] = bps[j] => i = j
  BY <1>2 DEF Named
<1>9. ASSUME NEW j \in Ids, j # id, bps[j] # 0
      PROVE  (\E v : Holds(es, v, bps[j], szs[j])) /\ Filled(g, bps[j], fls[j], j) /\ bps[j] # u.at
  <2>1. PICK v : Other(a, h, bs, bps, szs, fls, j, v)
    BY <1>9, BlockOf
  <2>2. /\ v \in bs /\ v.used /\ v.at = bps[j] /\ Fine(v) /\ szs[j] + 8 <= v.size /\ fls[j] + 8 <= v.size
        /\ fls[j] \in Nat /\ Filled(h, v.at, fls[j], j)
    BY <2>1 DEF Other
  <2>3. v # b /\ v # u
    BY <1>1, <1>3, <1>8, <1>9, <2>2 DEF UsedOf
  <2>4. v \in UsedOf(es) /\ v \in ds /\ v \in es
    BY <1>1, <2>2, <2>3 DEF UsedOf
  <2>5. v.at # u.at
    BY <1>5, <1>6, <2>3, <2>4
  <2> HIDE DEF ds
  <2>6. Filled(g, v.at, fls[j], j)
    BY <1>1, <2>2, <2>4, DataSpared
  <2> QED BY <2>2, <2>4, <2>5, <2>6 DEF Holds
<1>10. Filled(g, u.at, fls1[id], id)
  <2>1. ASSUME NEW w \in Words, u.at <= w, w < u.at + fls1[id] PROVE g.mem[w] = Fill(id)
    <3>1. w \in Nat /\ w % 4 = 0
      BY WordsAre
    <3>2. /\ b.at \in Nat /\ b.at % 8 = 0 /\ b.size \in Nat /\ Stop(b) = b.at + b.size
          /\ u.at % 8 = 0 /\ MaxHeap \in Nat
      BY <1>3, <1>6, HeapWordsAssumption DEF Fine, Stop, Aligned
    <3>3. Stop(b) <= MaxHeap
      BY <1>2, <1>3, Places
    <3> DEFINE x == b.at + (w - u.at)
    <3>4. w < u.at + s /\ w < u.at + fls[id]
      BY <1>3, <1>4, <1>6, <1>7, <2>1, <3>1
    <3>5. (w - u.at) + 8 < b.size /\ b.at <= x /\ x < b.at + fls[id]
      BY <1>3, <1>6, <2>1, <3>1, <3>2, <3>4
    <3>6. x \in Words
      <4>1. x \in Int /\ x % 4 = 0
        BY <1>6, <3>1, <3>2
      <4>2. 0 <= x /\ x < MaxHeap
        BY <1>3, <3>2, <3>3, <3>5, <4>1
      <4> HIDE DEF x
      <4> QED BY <4>1, <4>2, WordIs
    <3>7. g.mem[w] = h.mem[x]
      BY <1>1, <2>1, <3>4, <3>5
    <3> HIDE DEF x
    <3>8. h.mem[x] = Fill(id)
      BY <1>3, <3>5, <3>6 DEF Filled
    <3> QED BY <3>7, <3>8
  <2> QED BY <2>1 DEF Filled
<1>11. Named(es, bps1, szs1, fls1)
  <2>1. \A j \in Ids : fls1[j] <= szs1[j] /\ (bps1[j] = 0 => szs1[j] = 0)
    BY <1>2, <1>3, <1>4, <1>6, <1>7 DEF Named
  <2>2. \A j \in Ids : bps1[j] # 0 => \E v : Holds(es, v, bps1[j], szs1[j])
    <3>1. Holds(es, u, bps1[id], szs1[id])
      BY <1>1, <1>5, <1>7 DEF Holds
    <3> QED BY <1>7, <1>9, <3>1
  <2>3. \A v \in UsedOf(es) : \E j \in Ids : bps1[j] = v.at
    <3>1. ASSUME NEW v \in UsedOf(bs), v # b PROVE \E j \in Ids : bps[j] = v.at /\ j # id
      <4>1. v.at # b.at
        BY <1>3, <1>4, <3>1 DEF UsedOf
      <4> QED BY <1>2, <1>3, <3>1, <4>1 DEF Named
    <3> QED BY <1>1, <1>7, <3>1
  <2>4. \A i, j \in Ids : bps1[i] # 0 /\ bps1[i] = bps1[j] => i = j
    <3>1. \A j \in Ids : j # id => bps1[j] # u.at
      BY <1>6, <1>7, <1>9
    <3> QED BY <1>7, <1>8, <3>1
  <2> QED BY <1>7, <2>1, <2>2, <2>3, <2>4 DEF Named
<1>12. Intact(g, bps1, fls1)
  BY <1>7, <1>9, <1>10 DEF Intact
<1> QED BY <1>1, <1>11, <1>12 DEF Good, es, g, bps1, szs1, fls1

(***************************************************************************)
(* A payload that is filled again.                                         *)
(***************************************************************************)
LEMMA RefillGood ==
  ASSUME NEW a \in Kinds, NEW h, NEW bs, NEW bps, NEW szs, NEW fls, Good(a, h, bs, bps, szs, fls),
         NEW id \in Ids, fls[id] < szs[id]
  PROVE  Good(a, Memset(h, bps[id], szs[id], id), bs, bps, szs, [fls EXCEPT ![id] = szs[id]])
<1> DEFINE g == Memset(h, bps[id], szs[id], id)
           fls1 == [fls EXCEPT ![id] = szs[id]]
<1>1. Sound(a, h, bs) /\ Parted(bs) /\ Named(bs, bps, szs, fls)
  BY DEF Good
<1>2. szs[id] \in Nat /\ fls[id] \in Nat /\ bps[id] # 0
  BY <1>1, SizesAre DEF Named
<1>3. PICK u : Other(a, h, bs, bps, szs, fls, id, u)
  BY <1>2, BlockOf
<1>4. u \in bs /\ u.used /\ u.at = bps[id] /\ Fine(u) /\ szs[id] + 8 <= u.size
  BY <1>3 DEF Other
<1>5. h \in Heap
  BY <1>1, HeapFits DEF Sound
<1>6. Fills(h, g, u, szs[id], id)
  <2>1. Fills(h, Memset(h, u.at, szs[id], id), u, szs[id], id)
    BY <1>2, <1>4, <1>5, MemsetIs
  <2> QED BY <1>4, <2>1
<1> HIDE DEF g
<1> DEFINE ds == bs \ {u}
<1>7. Sound(a, g, bs) /\ Spared(h, g, ds)
  BY <1>1, <1>4, <1>6, WritesKeep DEF Fills
<1>8. /\ fls1 \in [Ids -> Nat] /\ fls1[id] = szs[id] /\ \A j \in Ids : j # id => fls1[j] = fls[j]
  BY <1>1, <1>2 DEF Named
<1> HIDE DEF fls1
<1>9. ASSUME NEW j \in Ids, j # id, bps[j] # 0 PROVE Filled(g, bps[j], fls[j], j)
  <2>1. PICK v : Other(a, h, bs, bps, szs, fls, j, v)
    BY <1>9, BlockOf
  <2>2. /\ v \in bs /\ v.used /\ v.at = bps[j] /\ Fine(v) /\ fls[j] + 8 <= v.size
        /\ fls[j] \in Nat /\ Filled(h, v.at, fls[j], j)
    BY <2>1 DEF Other
  <2>3. v \in ds
    BY <1>1, <1>4, <1>9, <2>2 DEF Named
  <2> HIDE DEF ds
  <2>4. Filled(g, v.at, fls[j], j)
    BY <1>7, <2>2, <2>3, DataSpared
  <2> QED BY <2>2, <2>4
<1>10. Intact(g, bps, fls1)
  <2>1. Filled(g, bps[id], fls1[id], id)
    BY <1>4, <1>6, <1>8 DEF Fills
  <2> QED BY <1>8, <1>9, <2>1 DEF Intact
<1>11. Named(bs, bps, szs, fls1)
  <2>1. \A j \in Ids : fls1[j] <= szs[j]
    BY <1>1, <1>2, <1>8 DEF Named
  <2> QED BY <1>1, <1>8, <2>1 DEF Named
<1> QED BY <1>1, <1>7, <1>10, <1>11 DEF Good, g, fls1

(***************************************************************************)
(* What is forgotten is nobody's.                                          *)
(***************************************************************************)
LEMMA ForgetGood ==
  ASSUME linked \in Kinds, NEW h, NEW bs, NEW bps, NEW szs, NEW fls, Good(linked, h, bs, bps, szs, fls)
  PROVE  Good(linked, Forget(h, bps, fls), bs, bps, szs, fls)
<1> DEFINE g == Forget(h, bps, fls)
           kept == Kept(h, bps, fls)
           f == FirstBlock(linked)
<1>1. Sound(linked, h, bs) /\ Parted(bs) /\ Named(bs, bps, szs, fls) /\ Intact(h, bps, fls)
  BY DEF Good
<1>2. Row(h, f, bs) /\ h \in Heap
  BY <1>1, HeapFits DEF Sound
<1>3. /\ g.mem = [w \in Words |-> IF w \in kept THEN h.mem[w] ELSE Junk]
      /\ g.brk = h.brk /\ g.list = h.list /\ g = [mem |-> g.mem, brk |-> g.brk, list |-> g.list]
  BY <1>2 DEF Forget, Heap
<1>4. Blocks(h, f) = bs
  BY <1>2, BlocksAre
<1> DEFINE EndsOf(cs) == UNION {{Hdrp(b.at), Hdrp(b.at + b.size), b.at + b.size - DSIZE} : b \in cs}
           LinksOf(cs) == {b.at + WSIZE * i : b \in {c \in cs : ~c.used}, i \in 0..Links(linked)-1}
           ends == EndsOf(bs)
           links == LinksOf(bs)
<1>5. kept = {w \in Words : \/ w < f \/ w \in ends \/ w \in links
                     \/ \E id \in Ids : bps[id] # NULL /\ bps[id] <= w /\ w < bps[id] + fls[id]}
  <2>1. kept = {w \in Words : \/ w < f \/ w \in EndsOf(Blocks(h, f)) \/ w \in LinksOf(Blocks(h, f))
                     \/ \E id \in Ids : bps[id] # NULL /\ bps[id] <= w /\ w < bps[id] + fls[id]}
    BY DEF Kept
  <2> HIDE DEF kept, f, EndsOf, LinksOf
  <2> QED BY <1>4, <2>1
<1> HIDE DEF g, kept, f
<1>6. \A b \in bs : b.at \in Nat /\ b.size \in Nat /\ Stop(b) = b.at + b.size /\ b.size >= 16
  BY <1>1, Places DEF Fine, Stop
<1>7. \A b \in bs : b.at - 4 \in ends /\ Stop(b) - 4 \in ends /\ Stop(b) - 8 \in ends
  BY <1>6 DEF Hdrp, WSIZE, DSIZE
<1>8. linked \in Listed => \A b \in bs : ~b.used => b.at \in links /\ b.at + 4 \in links
  <2>1. ASSUME linked \in Listed, NEW b \in bs, ~b.used PROVE b.at \in links /\ b.at + 4 \in links
    <3>1. 0 \in 0..Links(linked)-1 /\ 1 \in 0..Links(linked)-1
      BY <2>1 DEF Links
    <3>2. b.at + WSIZE * 0 = b.at /\ b.at + WSIZE * 1 = b.at + 4
      BY <1>6 DEF WSIZE
    <3>3. b.at + WSIZE * 0 \in links /\ b.at + WSIZE * 1 \in links
      BY <2>1, <3>1
    <3> HIDE DEF links
    <3> QED BY <3>2, <3>3
  <2> QED BY <2>1
<1> HIDE DEF ends, links
<1>9. h.brk - 4 < f \/ h.brk - 4 \in ends
  <2>1. /\ h.brk \in Nat /\ f \in Nat /\ f <= h.brk
        /\ \A p \in Nat : f <= p /\ p < h.brk => \E b \in bs : b.at <= p /\ p < Stop(b)
        /\ \A b \in bs : Stop(b) <= h.brk
    BY <1>2 DEF Row, Tiles, Fitted, Aligned
  <2>2. CASE f = h.brk
    BY <2>1, <2>2
  <2>3. CASE f < h.brk
    <3>1. h.brk - 1 \in Nat /\ f <= h.brk - 1 /\ h.brk - 1 < h.brk
      BY <2>1, <2>3
    <3>2. PICK b \in bs : b.at <= h.brk - 1 /\ h.brk - 1 < Stop(b)
      BY <2>1, <3>1
    <3>3. Stop(b) = h.brk
      BY <1>6, <2>1, <3>2
    <3> QED BY <1>7, <3>3
  <2> QED BY <2>1, <2>2, <2>3
<1>10. ASSUME NEW w \in Words, IsCore(linked, h, bs, w) PROVE w \in kept
  BY <1>5, <1>7, <1>8, <1>9, <1>10 DEF IsCore, f
<1>11. g \in Heap
  <2>1. \A w \in Words : g.mem[w] \in Int
    BY <1>2, <1>3 DEF Heap, Junk
  <2> QED BY <1>2, <1>3, <2>1 DEF Heap
<1>12. Sound(linked, g, bs)
  <2>1. Keeps(linked, h, g, bs)
    BY <1>3, <1>10, <1>11 DEF Keeps
  <2> QED BY <1>1, <2>1, CoreKept
<1>13. Intact(g, bps, fls)
  <2>1. ASSUME NEW id \in Ids, bps[id] # 0, NEW w \in Words, bps[id] <= w, w < bps[id] + fls[id]
        PROVE  g.mem[w] = Fill(id)
    <3>1. w \in kept
      BY <1>5, <2>1 DEF NULL
    <3>2. h.mem[w] = Fill(id)
      BY <1>1, <2>1 DEF Intact, Filled
    <3> QED BY <1>3, <3>1, <3>2
  <2> QED BY <2>1 DEF Intact, Filled
<1> QED BY <1>1, <1>12, <1>13 DEF Good, g

(***************************************************************************)
(* The inductive invariant, and what a step does to the blocks.            *)
(***************************************************************************)
IInv == linked \in Allocators /\ \E bs : Good(linked, heap, bs, blocks, sizes, filled)

\* The program is linked with an allocator whose first chunk fits.
LEMMA LinkedIs ==
  ASSUME linked \in Allocators
  PROVE  linked \in Kinds /\ FirstBlock(linked) + ChunkSize <= MaxHeap
  BY AllocatorsAssumption DEF Kinds

\* The blocks of the invariant are those the headers describe.
LEMMA HeapBlocksAre ==
  ASSUME linked \in Kinds, NEW bs, Good(linked, heap, bs, blocks, sizes, filled)
  PROVE  HeapBlocks = bs /\ Sound(linked, heap, bs) /\ heap \in Heap
  BY BlocksAre, HeapFits DEF Good, Sound, HeapBlocks

\* The invariant holds at first.
LEMMA InitKeeps == ASSUME Init PROVE IInv
<1>1. linked \in Allocators /\ linked \in Kinds /\ FirstBlock(linked) + ChunkSize <= MaxHeap
  BY LinkedIs DEF Init
<1>2. MemInit \in Heap /\ MemInit.brk = 0
  BY DEF MemInit, Heap, Junk, NULL
<1>3. Good(linked, mm_init(linked, MemInit).heap, {Fresh1(linked)}, NoBlocks, NoBlocks, NoBlocks)
  BY <1>1, <1>2, InitGood
<1> QED BY <1>1, <1>3 DEF Init, IInv

\* What each action leaves, for the blocks cs it leaves.
Leaves(cs) ==
  linked' = linked /\ Good(linked, heap', cs, blocks', sizes', filled')

\* mem_reset_brk and mm_init start again with one free chunk.
LEMMA RestartKeeps ==
  ASSUME IInv, Restart
  PROVE  Leaves({Fresh1(linked)}) /\ heap'.brk = FirstBlock(linked) + ChunkSize
<1> DEFINE h == MemResetBrk(heap)
           k == mm_init(linked, h).heap
<1>1. linked \in Allocators /\ linked \in Kinds /\ FirstBlock(linked) + ChunkSize <= MaxHeap
  BY LinkedIs DEF IInv
<1>2. heap \in Heap
  <2>1. PICK bs : Good(linked, heap, bs, blocks, sizes, filled)
    BY DEF IInv
  <2> QED BY <1>1, <2>1, HeapBlocksAre
<1>3. h \in Heap /\ h.brk = 0
  BY <1>2 DEF MemResetBrk, Heap
<1> HIDE DEF h
<1>4. Good(linked, k, {Fresh1(linked)}, NoBlocks, NoBlocks, NoBlocks) /\ k.brk = FirstBlock(linked) + ChunkSize
  BY <1>1, <1>3, InitGood, InitIs
<1>5. heap' = Forget(k, NoBlocks, NoBlocks) /\ linked' = linked
      /\ blocks' = NoBlocks /\ sizes' = NoBlocks /\ filled' = NoBlocks
  BY DEF Restart, h
<1> HIDE DEF k
<1>6. Good(linked, heap', {Fresh1(linked)}, NoBlocks, NoBlocks, NoBlocks)
  BY <1>1, <1>4, <1>5, ForgetGood
<1>7. heap'.brk = k.brk
  <2>1. k \in Heap
    BY <1>4, HeapFits DEF Good, Sound
  <2> QED BY <1>5, <2>1 DEF Forget, Heap
<1> QED BY <1>4, <1>5, <1>6, <1>7 DEF Leaves

BlockSizes == {Asize(n) : n \in Requests \ {0}}
AbsStep(a, bs, t, cs, t1) ==
  \/ cs = bs /\ t1 = t
  \/ \E n \in BlockSizes : <<cs, t1>> \in Abstract(a)!Allocations(bs, t, n)
  \/ \E n \in BlockSizes : \E b \in bs :
       b.used /\ \E x \in Abstract(a)!Allocations(bs, t, n) : cs = Abstract(a)!Release(x[1], b) /\ t1 = x[2]
  \/ \E b \in bs : b.used /\ cs = Abstract(a)!Release(bs, b) /\ t1 = t
  \/ cs = {Fresh1(a)} /\ t1 = FirstBlock(a) + ChunkSize
Goes(bs) == \E cs : Leaves(cs) /\ AbsStep(linked, bs, heap.brk, cs, heap'.brk)

\* Neither memset nor forgetting moves the end of the heap.
LEMMA SameBrk ==
  ASSUME NEW h \in Heap, NEW x, NEW n, NEW id, NEW bps, NEW lengths
  PROVE  Memset(h, x, n, id).brk = h.brk /\ Forget(h, bps, lengths).brk = h.brk
  BY DEF Memset, Forget, Heap

\* A step that changes nothing, as a refused request does.
LEMMA StutterKeeps ==
  ASSUME linked \in Kinds, NEW bs, Good(linked, heap, bs, blocks, sizes, filled), UNCHANGED vars
  PROVE  Goes(bs)
<1>1. Leaves(bs) /\ heap'.brk = heap.brk
  BY DEF Leaves, vars
<1>2. AbsStep(linked, bs, heap.brk, bs, heap'.brk)
  BY <1>1 DEF AbsStep
<1> QED BY <1>1, <1>2 DEF Goes

\* AllocOp is a Malloc of BlockHeap, or changes nothing.
LEMMA AllocKeeps ==
  ASSUME linked \in Kinds, NEW bs, Good(linked, heap, bs, blocks, sizes, filled),
         NEW id \in Ids, NEW s \in Requests, AllocOp(id, s)
  PROVE  Goes(bs)
<1> DEFINE r == mm_malloc(linked, heap, s)
           bps == [blocks EXCEPT ![id] = r.bp]
           fls == [filled EXCEPT ![id] = s]
           k == Memset(r.heap, r.bp, s, id)
<1>1. /\ blocks[id] = 0
      /\ r.bp = 0 => UNCHANGED vars
      /\ r.bp # 0 => /\ blocks' = bps /\ sizes' = [sizes EXCEPT ![id] = s] /\ filled' = fls
                     /\ heap' = Forget(k, bps, fls) /\ linked' = linked
  BY DEF AllocOp, NULL
<1>2. /\ s \in Nat /\ s + 15 < SizeMod /\ NoWrap(Asize(s))
      /\ Sound(linked, heap, bs) /\ Parted(bs)
  BY SizesAre DEF Good
<1>3. CASE r.bp = 0
  BY <1>1, <1>3, StutterKeeps
<1>4. CASE r.bp # 0
  <2>1. ~Refused(heap, bs, s, r)
    BY <1>4 DEF Refused
  <2>2. s # 0 /\ \E cs, u : Handed(linked, heap, bs, s, r, cs, u)
    BY <1>2, <2>1, MallocIs
  <2> HIDE DEF r
  <2>3. PICK cs, u : Handed(linked, heap, bs, s, r, cs, u)
    BY <2>2
  <2>4. Good(linked, k, cs, bps, [sizes EXCEPT ![id] = s], fls)
    BY <1>1, <2>3, AllocGood
  <2>5. k.brk = r.heap.brk /\ k \in Heap
    <3>1. r.heap \in Heap
      BY <2>3, HeapFits DEF Handed, Sound
    <3>2. k \in Heap
      BY <2>4, HeapFits DEF Good, Sound
    <3> QED BY <3>1, <3>2, SameBrk
  <2> HIDE DEF k, bps, fls
  <2>6. Good(linked, Forget(k, bps, fls), cs, bps, [sizes EXCEPT ![id] = s], fls)
    BY <2>4, ForgetGood
  <2>7. Leaves(cs)
    BY <1>1, <1>4, <2>6 DEF Leaves
  <2>8. heap'.brk = r.heap.brk
    BY <1>1, <1>4, <2>5, SameBrk
  <2>9. <<cs, heap'.brk>> \in Abstract(linked)!Allocations(bs, heap.brk, Asize(s)) /\ Asize(s) \in BlockSizes
    BY <2>2, <2>3, <2>8 DEF Handed, BlockSizes
  <2> QED BY <2>7, <2>9 DEF Goes, AbsStep
<1> QED BY <1>3, <1>4

\* ReallocOp is a Realloc of BlockHeap, or changes nothing.
LEMMA ReallocKeeps ==
  ASSUME linked \in Kinds, NEW bs, Good(linked, heap, bs, blocks, sizes, filled),
         NEW id \in Ids, NEW s \in Requests, ReallocOp(id, s)
  PROVE  Goes(bs)
<1> DEFINE r == mm_realloc(linked, heap, blocks[id], s)
           bps == [blocks EXCEPT ![id] = r.bp]
           fls == [filled EXCEPT ![id] = IF s < filled[id] THEN s ELSE filled[id]]
<1>0. filled \in [Ids -> Nat]
  BY DEF Good, Named
<1>1. /\ blocks[id] # 0
      /\ r.bp = 0 => UNCHANGED vars
      /\ r.bp # 0 => /\ blocks' = bps /\ sizes' = [sizes EXCEPT ![id] = s] /\ filled' = fls
                     /\ heap' = Forget(r.heap, bps, fls) /\ linked' = linked
  BY <1>0 DEF ReallocOp, NULL
<1>2. /\ s \in Nat /\ s + 15 < SizeMod /\ NoWrap(Asize(s))
      /\ Sound(linked, heap, bs) /\ Parted(bs)
  BY SizesAre DEF Good
<1>3. CASE r.bp = 0
  BY <1>1, <1>3, StutterKeeps
<1>4. CASE r.bp # 0
  <2>1. ~Refused(heap, bs, s, r)
    BY <1>4 DEF Refused
  <2>2. PICK b : Other(linked, heap, bs, blocks, sizes, filled, id, b)
    BY <1>1, BlockOf
  <2>3. b \in bs /\ b.used /\ b.at = blocks[id]
    BY <2>2 DEF Other
  <2>4. s # 0 /\ \E cs, u : Moved(linked, heap, bs, b, s, r, cs, u)
    <3>1. r = mm_realloc(linked, heap, b.at, s)
      BY <2>3
    <3> HIDE DEF r
    <3> QED BY <1>2, <2>1, <2>3, <3>1, ReallocIs
  <2> HIDE DEF r
  <2>5. PICK cs, u : Moved(linked, heap, bs, b, s, r, cs, u)
    BY <2>4
  <2> DEFINE es == Abstract(linked)!Release(cs, b)
  <2>6. Good(linked, r.heap, es, bps, [sizes EXCEPT ![id] = s], fls)
    BY <1>1, <2>2, <2>5, ReallocGood
  <2> HIDE DEF bps, fls, es
  <2>7. Good(linked, Forget(r.heap, bps, fls), es, bps, [sizes EXCEPT ![id] = s], fls)
    BY <2>6, ForgetGood
  <2>8. Leaves(es)
    BY <1>1, <1>4, <2>7 DEF Leaves
  <2>9. heap'.brk = r.heap.brk
    <3>1. r.heap \in Heap
      BY <2>6, HeapFits DEF Good, Sound
    <3> QED BY <1>1, <1>4, <3>1, SameBrk
  <2>10. <<cs, heap'.brk>> \in Abstract(linked)!Allocations(bs, heap.brk, Asize(s)) /\ Asize(s) \in BlockSizes
    BY <2>4, <2>5, <2>9 DEF Moved, BlockSizes
  <2>11. AbsStep(linked, bs, heap.brk, es, heap'.brk)
    <3> DEFINE x == <<cs, heap'.brk>>
    <3>1. es = Abstract(linked)!Release(x[1], b) /\ heap'.brk = x[2]
      BY DEF es
    <3> QED BY <2>3, <2>10, <3>1 DEF AbsStep
  <2> QED BY <2>8, <2>11 DEF Goes
<1> QED BY <1>3, <1>4

\* FreeOp is a Free of BlockHeap.
LEMMA FreeKeeps ==
  ASSUME linked \in Kinds, NEW bs, Good(linked, heap, bs, blocks, sizes, filled), NEW id \in Ids, FreeOp(id)
  PROVE  Goes(bs)
<1> DEFINE g == mm_free(linked, heap, blocks[id])
           bps == [blocks EXCEPT ![id] = 0]
           fls == [filled EXCEPT ![id] = 0]
<1>1. /\ blocks[id] # 0 /\ blocks' = bps /\ sizes' = [sizes EXCEPT ![id] = 0] /\ filled' = fls
      /\ heap' = Forget(g, bps, fls) /\ linked' = linked
  BY DEF FreeOp, NULL
<1>2. Sound(linked, heap, bs) /\ Parted(bs)
  BY DEF Good
<1>3. PICK b : Other(linked, heap, bs, blocks, sizes, filled, id, b)
  BY <1>1, BlockOf
<1>4. b \in bs /\ b.used /\ b.at = blocks[id]
  BY <1>3 DEF Other
<1>5. Freed(linked, heap, bs, b, g)
  <2>1. Freed(linked, heap, bs, b, mm_free(linked, heap, b.at))
    BY <1>2, <1>4, FreeIs
  <2> QED BY <1>4, <2>1
<1> HIDE DEF g
<1> DEFINE cs == Abstract(linked)!Release(bs, b)
<1>6. Good(linked, g, cs, bps, [sizes EXCEPT ![id] = 0], fls)
  BY <1>3, <1>5, FreeGood
<1>7. g.brk = heap.brk
  BY <1>5 DEF Freed
<1>8. AbsStep(linked, bs, heap.brk, cs, heap.brk)
  BY <1>4 DEF AbsStep
<1> HIDE DEF bps, fls, cs
<1>9. Good(linked, heap', cs, blocks', sizes', filled')
  BY <1>1, <1>6, ForgetGood
<1>10. heap'.brk = heap.brk
  <2>1. g \in Heap
    BY <1>6, HeapFits DEF Good, Sound
  <2> QED BY <1>1, <1>7, <2>1, SameBrk
<1> QED BY <1>1, <1>8, <1>9, <1>10 DEF Goes, Leaves

\* Refill leaves the blocks as they are.
LEMMA RefillKeeps ==
  ASSUME linked \in Kinds, NEW bs, Good(linked, heap, bs, blocks, sizes, filled), NEW id \in Ids, Refill(id)
  PROVE  Goes(bs)
<1>1. /\ filled[id] < sizes[id] /\ heap' = Memset(heap, blocks[id], sizes[id], id)
      /\ filled' = [filled EXCEPT ![id] = sizes[id]]
      /\ linked' = linked /\ blocks' = blocks /\ sizes' = sizes
  BY DEF Refill
<1>2. Good(linked, heap', bs, blocks', sizes', filled')
  BY <1>1, RefillGood
<1>3. heap'.brk = heap.brk
  <2>1. heap \in Heap
    BY HeapBlocksAre
  <2> QED BY <1>1, <2>1, SameBrk
<1>4. AbsStep(linked, bs, heap.brk, bs, heap'.brk)
  BY <1>3 DEF AbsStep
<1> QED BY <1>1, <1>2, <1>4 DEF Goes, Leaves

\* Every step keeps the invariant and is a step of BlockHeap or none.
LEMMA NextKeeps ==
  ASSUME IInv, [Next]_vars
  PROVE  IInv' /\ \E bs : Good(linked, heap, bs, blocks, sizes, filled) /\ Goes(bs)
<1>1. linked \in Allocators /\ linked \in Kinds
  BY LinkedIs DEF IInv
<1>2. PICK bs : Good(linked, heap, bs, blocks, sizes, filled)
  BY DEF IInv
<1>3. Goes(bs)
  <2>1. CASE UNCHANGED vars
    BY <1>1, <1>2, <2>1, StutterKeeps
  <2>2. CASE Restart
    <3>1. Leaves({Fresh1(linked)}) /\ heap'.brk = FirstBlock(linked) + ChunkSize
      BY <2>2, RestartKeeps
    <3>2. AbsStep(linked, bs, heap.brk, {Fresh1(linked)}, heap'.brk)
      BY <3>1 DEF AbsStep
    <3> QED BY <3>1, <3>2 DEF Goes
  <2>3. ASSUME NEW id \in Ids, Refill(id) PROVE Goes(bs)
    BY <1>1, <1>2, <2>3, RefillKeeps
  <2>4. ASSUME NEW id \in Ids, FreeOp(id) PROVE Goes(bs)
    BY <1>1, <1>2, <2>4, FreeKeeps
  <2>5. ASSUME NEW id \in Ids, NEW size \in Requests, AllocOp(id, size) PROVE Goes(bs)
    BY <1>1, <1>2, <2>5, AllocKeeps
  <2>6. ASSUME NEW id \in Ids, NEW size \in Requests, ReallocOp(id, size) PROVE Goes(bs)
    BY <1>1, <1>2, <2>6, ReallocKeeps
  <2> QED BY <2>1, <2>2, <2>3, <2>4, <2>5, <2>6 DEF Next
<1>4. IInv'
  <2>1. PICK cs : Leaves(cs)
    BY <1>3 DEF Goes
  <2>2. linked' \in Allocators /\ Good(linked', heap', cs, blocks', sizes', filled')
    BY <1>1, <2>1 DEF Leaves
  <2> QED BY <2>2 DEF IInv
<1> QED BY <1>2, <1>3, <1>4

(***************************************************************************)
(* Whatever the program asks for, in whatever order, the heap of the       *)
(* linked allocator is sound, no two free blocks are neighbours, the used  *)
(* blocks are those the program holds, and they hold what it filled in.    *)
(***************************************************************************)
THEOREM Inductive == Spec => []IInv
<1>1. Init => IInv
  BY InitKeeps
<1>2. IInv /\ [Next]_vars => IInv'
  BY NextKeeps
<1> QED BY <1>1, <1>2, PTL DEF Spec

\* What the invariant says of the types,
LEMMA InvTypes == ASSUME IInv PROVE TypeOK
<1>1. linked \in Kinds
  BY LinkedIs DEF IInv
<1>2. PICK bs : Good(linked, heap, bs, blocks, sizes, filled)
  BY DEF IInv
<1>3. Sound(linked, heap, bs) /\ Named(bs, blocks, sizes, filled) /\ heap \in Heap
  BY <1>1, <1>2, HeapBlocksAre DEF Good
<1>4. heap.mem \in [Words -> Int] /\ heap.brk \in {x \in 0..MaxHeap : x % DSIZE = 0} /\ MaxHeap \in Nat
  <2>1. Aligned(heap.brk) /\ heap.brk <= MaxHeap
    BY <1>3 DEF Sound, Row, Fitted
  <2> QED BY <1>3, <2>1, HeapWordsAssumption DEF Heap, Aligned, DSIZE
<1>5. ASSUME NEW id \in Ids PROVE blocks[id] \in 0..MaxHeap /\ filled[id] \in 0..sizes[id]
  <2>1. sizes[id] \in Nat /\ filled[id] \in Nat /\ filled[id] <= sizes[id] /\ blocks[id] \in Nat
    BY <1>3, SizesAre DEF Named
  <2>2. blocks[id] # 0 => blocks[id] <= MaxHeap
    <3>1. SUFFICES ASSUME blocks[id] # 0 PROVE blocks[id] <= MaxHeap
      OBVIOUS
    <3>2. PICK u : Other(linked, heap, bs, blocks, sizes, filled, id, u)
      BY <1>1, <1>2, <3>1, BlockOf
    <3>3. u \in bs /\ u.at = blocks[id] /\ Fine(u)
      BY <3>2 DEF Other
    <3>4. Stop(u) <= MaxHeap
      BY <1>1, <1>3, <3>3, Places
    <3> QED BY <1>4, <3>3, <3>4 DEF Fine, Stop
  <2> QED BY <1>4, <2>1, <2>2
<1>6. blocks \in [Ids -> 0..MaxHeap] /\ sizes \in [Ids -> Requests \cup {0}]
  BY <1>3, <1>5 DEF Named
<1> QED BY <1>4, <1>5, <1>6 DEF TypeOK

\* of the payloads,
LEMMA InvPayloads == ASSUME IInv PROVE PayloadsValid
<1>1. linked \in Kinds
  BY LinkedIs DEF IInv
<1>2. PICK bs : Good(linked, heap, bs, blocks, sizes, filled)
  BY DEF IInv
<1>3. /\ \A b \in bs : Fine(b) /\ b.at # 0 /\ Stop(b) <= heap.brk
      /\ \A b, c \in bs : b = c \/ Apart(b, c)
      /\ heap.brk \in Nat
  <2>1. Sound(linked, heap, bs) /\ heap \in Heap
    BY <1>1, <1>2, HeapBlocksAre
  <2> QED BY <1>1, <2>1, Places DEF Heap
<1>4. ASSUME NEW id \in Live
      PROVE  \E u \in bs : /\ u.at = blocks[id] /\ sizes[id] + 8 <= u.size /\ sizes[id] \in Nat
                           /\ u.at \in Nat /\ u.size \in Nat /\ Stop(u) = u.at + u.size /\ u.at % 8 = 0
  <2>1. id \in Ids /\ blocks[id] # 0
    BY DEF Live, NULL
  <2>2. PICK u : Other(linked, heap, bs, blocks, sizes, filled, id, u)
    BY <1>1, <1>2, <2>1, BlockOf
  <2> QED BY <2>2 DEF Other, Fine, Stop, Aligned
<1>5. ASSUME NEW id \in Live
      PROVE  blocks[id] % DSIZE = 0 /\ 0 < blocks[id] /\ blocks[id] + sizes[id] <= heap.brk
  <2>1. PICK u \in bs : /\ u.at = blocks[id] /\ sizes[id] + 8 <= u.size /\ sizes[id] \in Nat
                        /\ u.at \in Nat /\ u.size \in Nat /\ Stop(u) = u.at + u.size /\ u.at % 8 = 0
    BY <1>4
  <2> QED BY <1>3, <2>1 DEF DSIZE
<1>6. ASSUME NEW i \in Live, NEW j \in Live, i # j
      PROVE  blocks[i] + sizes[i] <= blocks[j] \/ blocks[j] + sizes[j] <= blocks[i]
  <2>1. PICK u \in bs : /\ u.at = blocks[i] /\ sizes[i] + 8 <= u.size /\ sizes[i] \in Nat
                        /\ u.at \in Nat /\ u.size \in Nat /\ Stop(u) = u.at + u.size /\ u.at % 8 = 0
    BY <1>4
  <2>2. PICK v \in bs : /\ v.at = blocks[j] /\ sizes[j] + 8 <= v.size /\ sizes[j] \in Nat
                        /\ v.at \in Nat /\ v.size \in Nat /\ Stop(v) = v.at + v.size /\ v.at % 8 = 0
    BY <1>4
  <2>3. u # v
    BY <1>2, <1>6, <2>1, <2>2 DEF Live, NULL, Good, Named
  <2>4. Stop(u) <= v.at \/ Stop(v) <= u.at
    BY <1>3, <2>3 DEF Apart
  <2> QED BY <2>1, <2>2, <2>4
<1> QED BY <1>5, <1>6 DEF PayloadsValid

\* of their data,
LEMMA InvData == ASSUME IInv PROVE DataIntact
<1>1. PICK bs : Good(linked, heap, bs, blocks, sizes, filled)
  BY DEF IInv
<1> QED BY <1>1 DEF Good, Intact, Filled, DataIntact, Live, NULL

\* of the used blocks,
LEMMA InvNoLeak == ASSUME IInv PROVE NoLeak
<1>1. linked \in Kinds
  BY LinkedIs DEF IInv
<1>2. PICK bs : Good(linked, heap, bs, blocks, sizes, filled)
  BY DEF IInv
<1>3. HeapBlocks = bs /\ Sound(linked, heap, bs) /\ Named(bs, blocks, sizes, filled)
  BY <1>1, <1>2, HeapBlocksAre DEF Good
<1>4. (\A b, c \in bs : b.at = c.at => b = c) /\ \A b \in bs : b.at # 0
  BY <1>1, <1>3, Places
<1>5. {b.at : b \in {c \in bs : c.used}} = {blocks[id] : id \in Live}
  <2>1. ASSUME NEW b \in bs, b.used PROVE \E id \in Live : blocks[id] = b.at
    <3>1. b \in UsedOf(bs) /\ b.at # 0
      BY <1>4, <2>1 DEF UsedOf
    <3> QED BY <1>3, <3>1 DEF Named, Live, NULL
  <2>2. ASSUME NEW id \in Live PROVE \E b \in bs : b.used /\ b.at = blocks[id]
    <3>1. id \in Ids /\ blocks[id] # 0
      BY DEF Live, NULL
    <3>2. PICK u : Holds(bs, u, blocks[id], sizes[id])
      BY <1>3, <3>1 DEF Named
    <3> QED BY <3>2 DEF Holds, UsedOf
  <2> QED BY <2>1, <2>2
<1>6. ASSUME NEW b \in bs, NEW id \in Live, b.at = blocks[id] PROVE sizes[id] <= b.size - DSIZE
  <2>1. id \in Ids /\ blocks[id] # 0
    BY DEF Live, NULL
  <2>2. PICK u : Other(linked, heap, bs, blocks, sizes, filled, id, u)
    BY <1>1, <1>2, <2>1, BlockOf
  <2>3. u \in bs /\ u.at = blocks[id] /\ sizes[id] + 8 <= u.size /\ sizes[id] \in Nat /\ u.size \in Nat
    BY <2>2 DEF Other, Fine
  <2>4. u = b
    BY <1>4, <1>6, <2>3
  <2> QED BY <2>3, <2>4 DEF DSIZE
<1> QED BY <1>3, <1>5, <1>6 DEF NoLeak

\* of the footers,
LEMMA InvFooters == ASSUME IInv PROVE FootersMatch
<1>1. linked \in Kinds
  BY LinkedIs DEF IInv
<1>2. PICK bs : Good(linked, heap, bs, blocks, sizes, filled)
  BY DEF IInv
<1>3. HeapBlocks = bs /\ Sound(linked, heap, bs)
  BY <1>1, <1>2, HeapBlocksAre
<1>4. ASSUME NEW b \in bs PROVE heap.mem[Hdrp(b.at)] = heap.mem[b.at + b.size - DSIZE]
  <2>1. Tagged(heap, b) /\ Fine(b)
    BY <1>3 DEF Sound, Row, Tiles
  <2>2. Hdrp(b.at) = b.at - 4 /\ b.at + b.size - DSIZE = Stop(b) - 8
    BY <2>1 DEF Fine, Stop, Hdrp, WSIZE, DSIZE
  <2> QED BY <2>1, <2>2 DEF Tagged
<1> QED BY <1>3, <1>4 DEF FootersMatch

\* of a request that is refused,
LEMMA InvDenied == ASSUME IInv PROVE DeniedOnlyWhenFull
<1>1. linked \in Kinds
  BY LinkedIs DEF IInv
<1>2. PICK bs : Good(linked, heap, bs, blocks, sizes, filled)
  BY DEF IInv
<1>3. HeapBlocks = bs /\ Sound(linked, heap, bs) /\ Parted(bs)
  BY <1>1, <1>2, HeapBlocksAre DEF Good
<1>4. ASSUME NEW n \in Requests \ {0}, mm_malloc(linked, heap, n).bp = NULL
      PROVE  /\ \A b \in bs : ~b.used => b.size < Asize(n)
             /\ heap.brk + ExtendSize(Asize(n)) > MaxHeap
  <2>1. n \in Nat /\ n + 15 < SizeMod /\ NoWrap(Asize(n)) /\ n # 0
    BY SizesAre
  <2>2. Refused(heap, bs, n, mm_malloc(linked, heap, n))
    BY <1>1, <1>3, <1>4, <2>1, MallocIs DEF NULL
  <2>3. Able(bs, Asize(n)) = {} /\ heap.brk + ExtendSize(Asize(n)) > MaxHeap
    BY <2>1, <2>2 DEF Refused
  <2>4. ASSUME NEW b \in bs, ~b.used PROVE b.size < Asize(n)
    <3>1. b.size \in Nat
      BY <1>3 DEF Sound, Row, Tiles, Fine
    <3>2. Asize(n) \in Nat
      BY <2>1, AsizeIs DEF Aligned
    <3>3. ~(Asize(n) <= b.size)
      BY <2>3, <2>4 DEF Able
    <3> QED BY <3>1, <3>2, <3>3
  <2> QED BY <2>3, <2>4
<1> QED BY <1>3, <1>4 DEF DeniedOnlyWhenFull

\* and of the free lists.
LEMMA InvLists == ASSUME IInv PROVE FreeListsExact
<1>1. linked \in Kinds
  BY LinkedIs DEF IInv
<1>2. PICK bs : Good(linked, heap, bs, blocks, sizes, filled)
  BY DEF IInv
<1>3. Sound(linked, heap, bs)
  BY <1>1, <1>2, HeapBlocksAre
<1>4. SUFFICES ASSUME linked \in Listed PROVE ListsExact(linked, heap)
  BY DEF FreeListsExact
<1>5. Row(heap, ListsFirst(linked), bs) /\ Lists(linked, heap, Files(linked, bs))
  BY <1>3, <1>4 DEF Sound, FirstBlock
<1>6. Blocks(heap, ListsFirst(linked)) = bs
  BY <1>5, BlocksAre
<1>7. ASSUME NEW i \in Classes(linked)
      PROVE  /\ {List(linked, heap, i)[k] : k \in DOMAIN List(linked, heap, i)} =
                  {b.at : b \in {c \in bs : ~c.used /\ GetClassIdx(linked, c.size) = i}}
             /\ \A k \in DOMAIN List(linked, heap, i) :
                  PrevFree(heap, List(linked, heap, i)[k]) = IF k = 1 THEN NULL ELSE List(linked, heap, i)[k-1]
  <2>1. Complete(heap.mem, Files(linked, bs)[i], List(linked, heap, i))
    BY <1>4, <1>5, ListIs
  <2>2. Files(linked, bs)[i] = {b.at : b \in {c \in bs : ~c.used /\ GetClassIdx(linked, c.size) = i}}
    BY DEF Files, OfClass
  <2> QED BY <2>1, <2>2 DEF Complete, PrevFree, NULL
<1> QED BY <1>6, <1>7 DEF ListsExact

\* The first state is one of BlockHeap.
LEMMA StartsAbstract ==
  ASSUME Init, NEW a \in Allocators, linked = a
  PROVE  Abstract(a)!Init
<1>1. linked \in Kinds /\ FirstBlock(a) + ChunkSize <= MaxHeap
  BY LinkedIs
<1>2. MemInit \in Heap /\ MemInit.brk = 0
  BY DEF MemInit, Heap, Junk, NULL
<1>3. heap = mm_init(linked, MemInit).heap /\ blocks = NoBlocks /\ sizes = NoBlocks /\ filled = NoBlocks
  BY DEF Init
<1>4. heap.brk = FirstBlock(a) + ChunkSize
  BY <1>1, <1>2, <1>3, InitIs
<1>5. HeapBlocks = {Fresh1(a)}
  BY <1>1, <1>2, <1>3, InitGood, HeapBlocksAre
<1> QED BY <1>1, <1>4, <1>5 DEF Abstract!Init, Fresh1, Fresh

\* Every step is a step of BlockHeap, or leaves the blocks.
LEMMA StepsAbstract ==
  ASSUME IInv, [Next]_vars, NEW a \in Allocators, linked = a
  PROVE  [Abstract(a)!Next]_<<HeapBlocks, heap.brk>>
<1>1. linked \in Kinds
  BY LinkedIs
<1>2. PICK bs : Good(linked, heap, bs, blocks, sizes, filled) /\ Goes(bs)
  BY NextKeeps
<1>3. PICK cs : Leaves(cs) /\ AbsStep(linked, bs, heap.brk, cs, heap'.brk)
  BY <1>2 DEF Goes
<1>4. HeapBlocks = bs
  BY <1>1, <1>2, HeapBlocksAre
<1>5. HeapBlocks' = cs
  <2>1. linked' = linked /\ Sound(linked, heap', cs)
    BY <1>3 DEF Leaves, Good
  <2>2. Blocks(heap', FirstBlock(linked)) = cs
    BY <1>1, <2>1, BlocksAre DEF Sound
  <2> QED BY <2>1, <2>2 DEF HeapBlocks
<1>6. AbsStep(a, HeapBlocks, heap.brk, HeapBlocks', heap'.brk)
  BY <1>3, <1>4, <1>5
<1>7. CASE HeapBlocks' = HeapBlocks /\ heap'.brk = heap.brk
  BY <1>7
<1>8. ASSUME NEW n \in BlockSizes, <<HeapBlocks', heap'.brk>> \in Abstract(a)!Allocations(HeapBlocks, heap.brk, n)
      PROVE  Abstract(a)!Next
  <2>1. Abstract(a)!Malloc(n)
    BY <1>8 DEF Abstract!Malloc
  <2> QED BY <1>8, <2>1 DEF Abstract!Next, BlockSizes
<1>9. ASSUME NEW n \in BlockSizes, NEW b \in HeapBlocks, b.used,
             NEW x \in Abstract(a)!Allocations(HeapBlocks, heap.brk, n),
             HeapBlocks' = Abstract(a)!Release(x[1], b), heap'.brk = x[2]
      PROVE  Abstract(a)!Next
  <2>1. Abstract(a)!Realloc(b, n)
    BY <1>9 DEF Abstract!Realloc
  <2> QED BY <1>9, <2>1 DEF Abstract!Next, BlockSizes
<1>10. ASSUME NEW b \in HeapBlocks, b.used, HeapBlocks' = Abstract(a)!Release(HeapBlocks, b), heap'.brk = heap.brk
       PROVE  Abstract(a)!Next
  <2>1. Abstract(a)!Free(b)
    BY <1>10 DEF Abstract!Free
  <2> QED BY <1>10, <2>1 DEF Abstract!Next
<1>11. ASSUME HeapBlocks' = {Fresh1(a)}, heap'.brk = FirstBlock(a) + ChunkSize
       PROVE  Abstract(a)!Next
  <2>1. Abstract(a)!Reset
    BY <1>11 DEF Abstract!Reset, Fresh1, Fresh
  <2> QED BY <2>1 DEF Abstract!Next
<1> QED BY <1>6, <1>7, <1>8, <1>9, <1>10, <1>11 DEF AbsStep

(***************************************************************************)
(* The heap ends at a double word, payloads are in the heap, and what is   *)
(* filled of one is at most what was asked for.                            *)
(***************************************************************************)
THEOREM Types == Spec => []TypeOK
<1>1. IInv => TypeOK
  BY InvTypes
<1> QED BY <1>1, Inductive, PTL

(***************************************************************************)
(* What add_range of mdriver.c checks (mdriver.c:399-421) holds of every   *)
(* payload of all four allocators: it is aligned, in the heap, and overlaps *)
(* no other.                                                               *)
(***************************************************************************)
THEOREM Payloads == Spec => []PayloadsValid
<1>1. IInv => PayloadsValid
  BY InvPayloads
<1> QED BY <1>1, Inductive, PTL

(***************************************************************************)
(* No call of mm_malloc, mm_free or mm_realloc writes into the payload of  *)
(* another block, and mm_realloc brings along what fits.                   *)
(***************************************************************************)
THEOREM Data == Spec => []DataIntact
<1>1. IInv => DataIntact
  BY InvData
<1> QED BY <1>1, Inductive, PTL

(***************************************************************************)
(* The used blocks of the heap are those the program holds, each large     *)
(* enough for what was asked for: mm_realloc leaves none behind, and a call *)
(* that is refused takes none.                                             *)
(***************************************************************************)
THEOREM Leaks == Spec => []NoLeak
<1>1. IInv => NoLeak
  BY InvNoLeak
<1> QED BY <1>1, Inductive, PTL

(***************************************************************************)
(* Every footer repeats its header, so that PREV_BP finds the block on the *)
(* left whatever was merged or cut before.                                 *)
(***************************************************************************)
THEOREM Footers == Spec => []FootersMatch
<1>1. IInv => FootersMatch
  BY InvFooters
<1> QED BY <1>1, Inductive, PTL

(***************************************************************************)
(* mm_malloc returns NULL only when no free block is large enough and the  *)
(* heap cannot grow by what the block needs: best_fit misses none, in      *)
(* whichever class it is filed.                                            *)
(***************************************************************************)
THEOREM Denied == Spec => []DeniedOnlyWhenFull
<1>1. IInv => DeniedOnlyWhenFull
  BY InvDenied
<1> QED BY <1>1, Inductive, PTL

(***************************************************************************)
(* The free lists of mm.c, lab3 and lab2 hold every free block, once, on   *)
(* the list of its class, linked both ways, after any history of calls.    *)
(***************************************************************************)
THEOREM FreeListsAreExact == Spec => []FreeListsExact
<1>1. IInv => FreeListsExact
  BY InvLists
<1> QED BY <1>1, Inductive, PTL

(***************************************************************************)
(* Each of the four allocators is the block heap: it takes a smallest free *)
(* block that is large enough, gives back the rest, merges at once, and    *)
(* grows only when nothing fits.                                           *)
(***************************************************************************)
THEOREM IsBlockHeap == Spec => ImplementsBlockHeap
<1> DEFINE Starts == \A a \in Allocators : linked = a => Abstract(a)!Init
           Steps == \A a \in Allocators : linked = a => [Abstract(a)!Next]_<<HeapBlocks, heap.brk>>
<1>1. Init => Starts
  BY StartsAbstract
<1>2. IInv /\ [Next]_vars => [Steps]_heap
  BY StepsAbstract
<1>3. ImplementsBlockHeap <=> Starts /\ [][Steps]_heap
  BY DEF ImplementsBlockHeap
<1> HIDE DEF Starts, Steps
<1> QED BY <1>1, <1>2, <1>3, Inductive, PTL DEF Spec
==============================================================================
