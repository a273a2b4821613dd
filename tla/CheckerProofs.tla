----------------------------- MODULE CheckerProofs -----------------------------
(***************************************************************************)
(* The driver of the malloc lab, for any traces, allocator and heap: the   *)
(* list of ranges is that of the blocks, an allocator that keeps its       *)
(* contract is not reported, and the utilisation counts the bytes that are *)
(* allocated.  The invariant relates what the allocator owes, what the     *)
(* driver remembers and what the trace says, request by request.           *)
(***************************************************************************)
EXTENDS Checker, SequenceFacts, FiniteSetTheorems, WellFoundedInduction

-----------------------------------------------------------------------------
\* The invariant.

ActivePhases == {"valid", "util", "speed"}
Extents == [lo : Int, hi : Int]
Types ==
  /\ package \in {"libc", "mm"} /\ phase \in ActivePhases \cup {"read", "end"}
  /\ tracenum \in Nat /\ i \in Nat
  /\ blocks \in [Ids -> Int] /\ block_sizes \in [Ids -> Nat] /\ held \in [Ids -> Nat]
  /\ ranges \in Seq(Extents) /\ total_size \in Nat /\ max_total_size \in Nat
  /\ errors \in Nat /\ numcorrect \in Nat /\ brk \in Breaks /\ DOMAIN mem = 0..HeapSize-1
  /\ phase \in ActivePhases => trace \in Files
  /\ phase = "util" => package = "mm"

\* Every trace is counted once, and a trace of mm when it has been checked.
Counted ==
  /\ package = "libc" => phase # "end" /\ (status = "running" => errors + numcorrect = 0)
  /\ package = "mm" => errors + numcorrect = tracenum + (IF phase \in {"util", "speed"} THEN 1 ELSE 0)
  /\ phase = "end" => tracenum = NumTraces

\* The list of ranges is that of the blocks of some ids.
Lists(rs, ids) ==
  /\ rs \in Seq(Extents) /\ IsFiniteSet(ids) /\ Len(rs) = Cardinality(ids)
  /\ \A k \in 1..Len(rs) : \E id \in ids : rs[k] = Extent(id)
  /\ \A id \in ids : \E k \in 1..Len(rs) : rs[k] = Extent(id)
  /\ \A id \in ids, jd \in ids : blocks[id] = blocks[jd] => id = jd
Spaced(rs, end) ==
  /\ \A k \in 1..Len(rs) : rs[k].lo % Alignment = 0 /\ 0 <= rs[k].lo /\ rs[k].hi < end
  /\ \A j, k \in 1..Len(rs) : j < k =>
       \/ rs[j].hi < rs[k].lo \/ rs[k].hi < rs[j].lo
       \/ rs[j].lo < rs[k].lo /\ rs[k].hi < rs[j].hi

\* A sound allocator places its blocks in the heap and apart, and keeps what
\* the driver fills them with.
Apart == \A id \in Live, jd \in Live : id # jd => ~Overlap(blocks[id], held[id], blocks[jd], held[jd])
Inside == \A id \in Live : 0 <= blocks[id] /\ blocks[id] + held[id] <= brk
Intact == \A id \in Live : \A a \in blocks[id]..blocks[id]+held[id]-1 : mem[a] = id % (2 * Half)

\* While a trace is checked, or its use of the heap measured.
Holds ==
  /\ Live = Owned(trace.ops, i) /\ \A id \in Live : block_sizes[id] = held[id]
  /\ sound => Apart /\ Inside
Checked == Lists(ranges, Live) /\ Spaced(ranges, brk) /\ (sound => Intact)
Measured ==
  /\ IsFiniteSet(BytesHeld) /\ total_size = Cardinality(BytesHeld)
  /\ total_size <= max_total_size /\ (sound => max_total_size <= brk)

Working(ph) == package = "mm" /\ phase = ph /\ i > 0
CheckInv ==
  /\ Types /\ Counted
  /\ Working("valid") => Holds /\ Checked
  /\ Working("util") => Holds /\ Measured

-----------------------------------------------------------------------------
\* Numbers and sets.

\* A set of numbers that is not empty has a least element.
LEMMA LeastIn ==
  ASSUME NEW S \in SUBSET Nat, S # {}
  PROVE  \E k \in S : \A j \in S : k <= j
<1> DEFINE R == {ss \in Nat \X Nat : ss[1] < ss[2]}
<1>1. IsWellFoundedOn(R, Nat)
  BY NatLessThanWellFounded, Zenon DEF OpToRel
<1>2. PICK k \in S : \A j \in S : <<j, k>> \notin R
  <2> HIDE DEF R
  <2> QED BY <1>1, WFMin
<1>3. \A j \in S : j \in Nat /\ k \in Nat /\ ~(j < k)
  BY <1>2
<1> QED BY <1>3

-----------------------------------------------------------------------------
\* The list of ranges.

Without(s, m) == SubSeq(s, 1, m - 1) \o SubSeq(s, m + 1, Len(s))
LEMMA Taking ==
  ASSUME NEW s \in Seq(Extents), NEW m \in 1..Len(s)
  PROVE  /\ Without(s, m) \in Seq(Extents) /\ Len(Without(s, m)) = Len(s) - 1
         /\ \A k \in 1..Len(s)-1 : Without(s, m)[k] = IF k < m THEN s[k] ELSE s[k + 1]
<1> DEFINE a == SubSeq(s, 1, m - 1)
           b == SubSeq(s, m + 1, Len(s))
<1>1. Len(s) \in Nat /\ m \in Int /\ \A k \in 1..Len(s) : s[k] \in Extents
  BY LenProperties, ElementOfSeq
<1>2. a \in Seq(Extents) /\ Len(a) = m - 1 /\ \A k \in 1..m-1 : a[k] = s[k]
  <2>1. m - 1 \in 0..Len(s)
    BY <1>1
  <2> QED BY <2>1, Cut
<1>3. b \in Seq(Extents) /\ Len(b) = Len(s) - m /\ \A k \in 1..Len(s)-m : b[k] = s[m + k]
  <2>1. \A k \in m+1..Len(s) : s[k] \in Extents
    BY <1>1
  <2>2. /\ b \in Seq(Extents) /\ Len(b) = IF m + 1 <= Len(s) THEN Len(s) - (m + 1) + 1 ELSE 0
        /\ \A k \in 1..Len(s) - (m + 1) + 1 : b[k] = s[(m + 1) + k - 1]
    <3> HIDE DEF b
    <3> QED BY <1>1, <2>1, SubSeqProperties DEF b
  <2> HIDE DEF b
  <2> QED BY <1>1, <2>2
<1> HIDE DEF a, b
<1>4. /\ a \o b \in Seq(Extents) /\ Len(a \o b) = Len(a) + Len(b)
      /\ \A k \in 1..Len(a) + Len(b) : (a \o b)[k] = IF k <= Len(a) THEN a[k] ELSE b[k - Len(a)]
  BY <1>2, <1>3, ConcatProperties
<1>5. \A k \in 1..Len(s)-1 : (a \o b)[k] = IF k < m THEN s[k] ELSE s[k + 1]
  <2> SUFFICES ASSUME NEW k \in 1..Len(s)-1 PROVE (a \o b)[k] = IF k < m THEN s[k] ELSE s[k + 1]
    OBVIOUS
  <2>0. (a \o b)[k] = IF k <= m - 1 THEN a[k] ELSE b[k - (m - 1)]
    <3>1. k \in 1..Len(a) + Len(b)
      BY <1>1, <1>2, <1>3
    <3> QED BY <1>2, <1>4, <3>1
  <2>1. CASE k < m
    <3>1. k \in 1..m-1 /\ k <= m - 1
      BY <1>1, <2>1
    <3> QED BY <1>2, <2>0, <2>1, <3>1
  <2>2. CASE ~(k < m)
    <3>1. k - (m - 1) \in 1..Len(s)-m /\ m + (k - (m - 1)) = k + 1 /\ ~(k <= m - 1)
      BY <1>1, <2>2
    <3>2. b[k - (m - 1)] = s[k + 1]
      BY <1>3, <3>1
    <3> QED BY <2>0, <2>2, <3>1, <3>2
  <2> QED BY <2>1, <2>2
<1>6. Without(s, m) = a \o b
  BY DEF Without, a, b
<1>7. Len(a) + Len(b) = Len(s) - 1
  BY <1>1, <1>2, <1>3
<1> QED BY <1>4, <1>5, <1>6, <1>7

\* remove_range takes out a range that starts there.
LEMMA RemoveTakes ==
  ASSUME NEW rs \in Seq(Extents), NEW lo, \E k \in 1..Len(rs) : rs[k].lo = lo
  PROVE  \E m \in 1..Len(rs) :
           /\ rs[m].lo = lo /\ RemoveRange(rs, lo) \in Seq(Extents)
           /\ Len(RemoveRange(rs, lo)) = Len(rs) - 1
           /\ \A k \in 1..Len(rs)-1 : RemoveRange(rs, lo)[k] = IF k < m THEN rs[k] ELSE rs[k + 1]
<1> DEFINE at == {k \in 1..Len(rs) : rs[k].lo = lo}
<1>1. at # {} /\ at \in SUBSET Nat
  BY LenProperties
<1>2. Min(at) \in at
  <2>1. \E k \in at : \A j \in at : k <= j
    BY <1>1, LeastIn
  <2> QED BY <2>1 DEF Min
<1>3. RemoveRange(rs, lo) = Without(rs, Min(at))
  BY <1>1 DEF RemoveRange, Without
<1>4. Min(at) \in 1..Len(rs) /\ rs[Min(at)].lo = lo
  BY <1>2
<1> HIDE DEF at
<1> QED BY <1>3, <1>4, Taking

\* Two ranges of a list start at different places.
LEMMA StartsDiffer ==
  ASSUME NEW rs \in Seq(Extents), NEW end \in Int, Spaced(rs, end),
         \A k \in 1..Len(rs) : rs[k].lo <= rs[k].hi,
         NEW j \in 1..Len(rs), NEW k \in 1..Len(rs), rs[j].lo = rs[k].lo
  PROVE  j = k
<1>1. Len(rs) \in Nat /\ rs[j].lo \in Int /\ rs[j].hi \in Int /\ rs[k].lo \in Int /\ rs[k].hi \in Int
  <2>1. rs[j] \in Extents /\ rs[k] \in Extents
    BY ElementOfSeq
  <2> QED BY <2>1, LenProperties DEF Extents
<1>2. rs[j].lo <= rs[j].hi /\ rs[k].lo <= rs[k].hi
  OBVIOUS
<1>3. ~(j < k)
  BY <1>1, <1>2 DEF Spaced
<1>4. ~(k < j)
  BY <1>1, <1>2 DEF Spaced
<1> QED BY <1>1, <1>3, <1>4

\* Without the block of one id the list is that of the others.
LEMMA RemoveKeeps ==
  ASSUME Types, NEW rs, NEW ids \in SUBSET Ids, NEW id \in ids, Lists(rs, ids), Spaced(rs, brk), brk \in Int,
         \A jd \in ids : block_sizes[jd] > 0
  PROVE  /\ Lists(RemoveRange(rs, blocks[id]), ids \ {id})
         /\ Spaced(RemoveRange(rs, blocks[id]), brk)
<1>1. rs \in Seq(Extents) /\ Len(rs) \in Nat /\ \E k \in 1..Len(rs) : rs[k].lo = blocks[id]
  <2>1. PICK k \in 1..Len(rs) : rs[k] = Extent(id)
    BY DEF Lists
  <2> QED BY <2>1, LenProperties DEF Lists, Extent
<1> DEFINE r == RemoveRange(rs, blocks[id])
<1>2. PICK m \in 1..Len(rs) :
        /\ rs[m].lo = blocks[id] /\ r \in Seq(Extents) /\ Len(r) = Len(rs) - 1
        /\ \A k \in 1..Len(rs)-1 : r[k] = IF k < m THEN rs[k] ELSE rs[k + 1]
  BY <1>1, RemoveTakes
<1> HIDE DEF r
<1>3. \A jd \in ids : blocks[jd] \in Int /\ block_sizes[jd] \in Nat
  BY DEF Types
<1>4. \A k \in 1..Len(rs) : rs[k].lo <= rs[k].hi
  <2> SUFFICES ASSUME NEW k \in 1..Len(rs) PROVE rs[k].lo <= rs[k].hi
    OBVIOUS
  <2>1. PICK jd \in ids : rs[k] = Extent(jd)
    BY DEF Lists
  <2> QED BY <1>3, <2>1 DEF Extent
<1>5. ids \ {id} \in SUBSET Ids /\ IsFiniteSet(ids \ {id}) /\ Len(r) = Cardinality(ids \ {id})
  BY <1>2, FS_RemoveElement DEF Lists
\* Where each range comes from, and goes to.
<1>6. \A k \in 1..Len(r) : \E q \in 1..Len(rs) : q # m /\ r[k] = rs[q] /\ q = IF k < m THEN k ELSE k + 1
  <2> SUFFICES ASSUME NEW k \in 1..Len(r)
               PROVE  \E q \in 1..Len(rs) : q # m /\ r[k] = rs[q] /\ q = IF k < m THEN k ELSE k + 1
    OBVIOUS
  <2>1. CASE k < m
    BY <1>1, <1>2, <2>1
  <2>2. CASE ~(k < m)
    <3>1. k + 1 \in 1..Len(rs) /\ k + 1 # m
      BY <1>1, <1>2, <2>2
    <3> QED BY <1>1, <1>2, <2>2, <3>1
  <2> QED BY <2>1, <2>2
<1>7. \A q \in 1..Len(rs) : q # m => \E k \in 1..Len(r) : r[k] = rs[q]
  <2> SUFFICES ASSUME NEW q \in 1..Len(rs), q # m PROVE \E k \in 1..Len(r) : r[k] = rs[q]
    OBVIOUS
  <2>1. CASE q < m
    <3>1. q \in 1..Len(rs)-1
      BY <1>1, <1>2, <2>1
    <3> QED BY <1>2, <2>1, <3>1
  <2>2. CASE m < q
    <3>1. q - 1 \in 1..Len(rs)-1 /\ ~(q - 1 < m) /\ (q - 1) + 1 = q
      BY <1>1, <1>2, <2>2
    <3> QED BY <1>2, <3>1
  <2> QED BY <1>1, <2>1, <2>2
<1>8. Lists(r, ids \ {id})
  <2>1. ASSUME NEW k \in 1..Len(r) PROVE \E jd \in ids \ {id} : r[k] = Extent(jd)
    <3>1. PICK q \in 1..Len(rs) : q # m /\ r[k] = rs[q]
      BY <1>6
    <3>2. PICK jd \in ids : rs[q] = Extent(jd)
      BY DEF Lists
    <3>3. jd # id
      <4>1. rs[q].lo # rs[m].lo
        BY <1>1, <1>4, <3>1, StartsDiffer
      <4> QED BY <1>2, <3>2, <4>1 DEF Extent
    <3> QED BY <3>1, <3>2, <3>3
  <2>2. ASSUME NEW jd \in ids \ {id} PROVE \E k \in 1..Len(r) : r[k] = Extent(jd)
    <3>1. PICK q \in 1..Len(rs) : rs[q] = Extent(jd)
      BY DEF Lists
    <3>2. q # m
      <4>1. blocks[jd] # blocks[id]
        BY DEF Lists
      <4> QED BY <1>2, <3>1, <4>1 DEF Extent
    <3> QED BY <1>7, <3>1, <3>2
  <2>3. \A kd \in ids \ {id}, jd \in ids \ {id} : blocks[kd] = blocks[jd] => kd = jd
    BY DEF Lists
  <2> QED BY <1>2, <1>5, <2>1, <2>2, <2>3 DEF Lists
<1>9. Spaced(r, brk)
  <2>1. \A k \in 1..Len(r) : r[k].lo % Alignment = 0 /\ 0 <= r[k].lo /\ r[k].hi < brk
    BY <1>6 DEF Spaced
  <2>2. ASSUME NEW j \in 1..Len(r), NEW k \in 1..Len(r), j < k
        PROVE  \/ r[j].hi < r[k].lo \/ r[k].hi < r[j].lo
               \/ r[j].lo < r[k].lo /\ r[k].hi < r[j].hi
    <3>1. PICK p \in 1..Len(rs) : r[j] = rs[p] /\ p = IF j < m THEN j ELSE j + 1
      BY <1>6
    <3>2. PICK q \in 1..Len(rs) : r[k] = rs[q] /\ q = IF k < m THEN k ELSE k + 1
      BY <1>6
    <3>3. p < q
      BY <1>1, <2>2, <3>1, <3>2
    <3> QED BY <3>1, <3>2, <3>3 DEF Spaced
  <2> QED BY <2>1, <2>2 DEF Spaced
<1> QED BY <1>8, <1>9 DEF r

\* What a range that add_range accepts satisfies.
LEMMA AddTells ==
  ASSUME NEW rs \in Seq(Extents), NEW p \in Int, NEW n \in Nat, AddRange(rs, p, n) # << >>
  PROVE  /\ AddRange(rs, p, n) = << [lo |-> p, hi |-> p + n - 1] >> \o rs
         /\ p % Alignment = 0 /\ ~(p < 0) /\ ~(p + n - 1 > brk' - 1)
         /\ \A k \in 1..Len(rs) : /\ ~(p >= rs[k].lo /\ p <= rs[k].hi)
                                  /\ ~(p + n - 1 >= rs[k].lo /\ p + n - 1 <= rs[k].hi)
BY Zenon DEF AddRange

\* The list with one more range in front.
LEMMA InFront ==
  ASSUME NEW rs \in Seq(Extents), NEW r \in Extents
  PROVE  /\ << r >> \o rs \in Seq(Extents) /\ Len(<< r >> \o rs) = Len(rs) + 1
         /\ (<< r >> \o rs)[1] = r /\ << r >> \o rs # << >>
         /\ \A k \in 2..Len(rs)+1 : (<< r >> \o rs)[k] = rs[k - 1]
<1>1. << r >> \in Seq(Extents) /\ Len(<< r >>) = 1 /\ << r >>[1] = r
  OBVIOUS
<1>2. Len(rs) \in Nat
  BY LenProperties
<1>3. /\ << r >> \o rs \in Seq(Extents) /\ Len(<< r >> \o rs) = 1 + Len(rs)
      /\ \A k \in 1..1+Len(rs) : (<< r >> \o rs)[k] = IF k <= 1 THEN << r >>[k] ELSE rs[k - 1]
  <2> DEFINE a == << r >>
  <2>1. a \in Seq(Extents) /\ Len(a) = 1
    BY <1>1
  <2> HIDE DEF a
  <2>2. /\ a \o rs \in Seq(Extents) /\ Len(a \o rs) = Len(a) + Len(rs)
        /\ \A k \in 1..Len(a)+Len(rs) : (a \o rs)[k] = IF k <= Len(a) THEN a[k] ELSE rs[k - Len(a)]
    BY <2>1, ConcatProperties
  <2> QED BY <2>1, <2>2 DEF a
<1> DEFINE t == << r >> \o rs
<1>4. t \in Seq(Extents) /\ Len(t) = 1 + Len(rs)
  BY <1>3
<1>5. \A k \in 1..1+Len(rs) : t[k] = IF k <= 1 THEN << r >>[k] ELSE rs[k - 1]
  BY <1>3
<1> HIDE DEF t
<1>6. t[1] = r
  BY <1>1, <1>2, <1>5
<1>7. t # << >>
  BY <1>2, <1>4, EmptySeq
<1>8. \A k \in 2..Len(rs)+1 : t[k] = rs[k - 1]
  BY <1>2, <1>5
<1> QED BY <1>2, <1>4, <1>6, <1>7, <1>8 DEF t

\* With the block of one more id in front, the list is that of all of them.
LEMMA AddKeeps ==
  ASSUME Types, NEW rs, NEW ids \in SUBSET Ids, NEW id \in Ids \ ids, Lists(rs, ids), Spaced(rs, brk),
         brk \in Int, brk' \in Int, brk <= brk', \A jd \in ids : block_sizes[jd] > 0,
         NEW p \in Int, NEW n \in Nat, n > 0, AddRange(rs, p, n) # << >>,
         blocks' = [blocks EXCEPT ![id] = p], block_sizes' = [block_sizes EXCEPT ![id] = n],
         ranges' = AddRange(rs, p, n), Live' = ids \cup {id}
  PROVE  Lists(ranges, Live)' /\ Spaced(ranges, brk)'
<1> DEFINE new == [lo |-> p, hi |-> p + n - 1]
<1>1. rs \in Seq(Extents) /\ Len(rs) \in Nat /\ \A k \in 1..Len(rs) : rs[k] \in Extents
  BY LenProperties, ElementOfSeq DEF Lists
<1>2. /\ ranges' = << new >> \o rs /\ p % Alignment = 0 /\ 0 <= p /\ new.hi < brk'
      /\ \A k \in 1..Len(rs) : /\ ~(new.lo >= rs[k].lo /\ new.lo <= rs[k].hi)
                               /\ ~(new.hi >= rs[k].lo /\ new.hi <= rs[k].hi)
  <2>1. /\ ranges' = << new >> \o rs /\ p % Alignment = 0 /\ ~(p < 0) /\ ~(p + n - 1 > brk' - 1)
        /\ \A k \in 1..Len(rs) : /\ ~(p >= rs[k].lo /\ p <= rs[k].hi)
                                 /\ ~(p + n - 1 >= rs[k].lo /\ p + n - 1 <= rs[k].hi)
    BY <1>1, AddTells
  <2>2. new.lo = p /\ new.hi = p + n - 1
    OBVIOUS
  <2>3. 0 <= p /\ p + n - 1 < brk'
    <3>1. ~(p < 0) /\ ~(p + n - 1 > brk' - 1)
      BY <2>1
    <3>2. \A a \in Int, b \in Nat, c \in Int : ~(a < 0) /\ ~(a + b - 1 > c - 1) => 0 <= a /\ a + b - 1 < c
      OBVIOUS
    <3> QED BY <3>1, <3>2, Zenon
  <2> HIDE DEF new
  <2> QED BY <2>1, <2>2, <2>3
<1>3. new \in Extents /\ new.lo = p
  BY DEF Extents
<1>4. Extent(id)' = new
  <2>1. blocks'[id] = p /\ block_sizes'[id] = n
    BY Zenon DEF Types
  <2> QED BY <2>1 DEF Extent
<1> HIDE DEF new
<1>5. /\ ranges' \in Seq(Extents) /\ Len(ranges') = Len(rs) + 1 /\ ranges'[1] = new
      /\ \A k \in 2..Len(rs)+1 : ranges'[k] = rs[k - 1]
  BY <1>1, <1>2, <1>3, InFront
<1>6. \A jd \in ids : blocks'[jd] = blocks[jd] /\ block_sizes'[jd] = block_sizes[jd] /\ Extent(jd)' = Extent(jd)
  <2> SUFFICES ASSUME NEW jd \in ids
               PROVE  blocks'[jd] = blocks[jd] /\ block_sizes'[jd] = block_sizes[jd] /\ Extent(jd)' = Extent(jd)
    OBVIOUS
  <2>1. blocks'[jd] = blocks[jd] /\ block_sizes'[jd] = block_sizes[jd]
    BY Zenon DEF Types
  <2> QED BY <2>1 DEF Extent
<1>7. IsFiniteSet(Live') /\ Len(ranges') = Cardinality(Live')
  BY <1>5, FS_AddElement DEF Lists
<1>8. ASSUME NEW k \in 1..Len(ranges') PROVE \E jd \in Live' : ranges'[k] = Extent(jd)'
  <2>1. CASE k = 1
    BY <1>4, <1>5, <2>1
  <2>2. CASE k # 1
    <3>1. k \in 2..Len(rs)+1 /\ k - 1 \in 1..Len(rs)
      BY <1>1, <1>5, <2>2
    <3>2. PICK jd \in ids : rs[k - 1] = Extent(jd)
      BY <3>1 DEF Lists
    <3> QED BY <1>5, <1>6, <3>1, <3>2
  <2> QED BY <2>1, <2>2
<1>9. ASSUME NEW jd \in Live' PROVE \E k \in 1..Len(ranges') : ranges'[k] = Extent(jd)'
  <2>1. CASE jd = id
    BY <1>1, <1>4, <1>5, <2>1
  <2>2. CASE jd \in ids
    <3>1. PICK k \in 1..Len(rs) : rs[k] = Extent(jd)
      BY <2>2 DEF Lists
    <3>2. k + 1 \in 2..Len(rs)+1 /\ k + 1 \in 1..Len(ranges') /\ (k + 1) - 1 = k
      BY <1>1, <1>5
    <3>3. ranges'[k + 1] = rs[k]
      BY <1>5, <3>2
    <3> QED BY <1>6, <2>2, <3>1, <3>2, <3>3
  <2> QED BY <2>1, <2>2
<1>10. ASSUME NEW jd \in ids PROVE blocks[jd] # p
  <2>1. PICK k \in 1..Len(rs) : rs[k] = Extent(jd)
    BY DEF Lists
  <2>2. rs[k].lo = blocks[jd] /\ rs[k].hi = blocks[jd] + block_sizes[jd] - 1
    BY <2>1 DEF Extent
  <2>3. blocks[jd] \in Int /\ block_sizes[jd] \in Nat /\ block_sizes[jd] > 0
    BY DEF Types
  <2> QED BY <1>2, <1>3, <2>2, <2>3, SMTT(30)
<1>11. \A kd \in Live', jd \in Live' : blocks'[kd] = blocks'[jd] => kd = jd
  <2>1. blocks'[id] = p
    BY Zenon DEF Types
  <2>2. \A kd \in ids, jd \in ids : blocks'[kd] = blocks'[jd] => kd = jd
    BY <1>6 DEF Lists
  <2> QED BY <1>6, <1>10, <2>1, <2>2
<1>12. Lists(ranges, Live)'
  BY <1>5, <1>7, <1>8, <1>9, <1>11 DEF Lists
<1>13. \A k \in 1..Len(ranges') : ranges'[k].lo % Alignment = 0 /\ 0 <= ranges'[k].lo /\ ranges'[k].hi < brk'
  <2> SUFFICES ASSUME NEW k \in 1..Len(ranges')
               PROVE  ranges'[k].lo % Alignment = 0 /\ 0 <= ranges'[k].lo /\ ranges'[k].hi < brk'
    OBVIOUS
  <2>1. CASE k = 1
    BY <1>2, <1>3, <1>5, <2>1
  <2>2. CASE k # 1
    <3>1. k \in 2..Len(rs)+1 /\ k - 1 \in 1..Len(rs)
      BY <1>1, <1>5, <2>2
    <3>2. rs[k - 1].lo % Alignment = 0 /\ 0 <= rs[k - 1].lo /\ rs[k - 1].hi < brk
      BY <3>1 DEF Spaced
    <3>3. rs[k - 1].hi \in Int
      BY <1>1, <3>1 DEF Extents
    <3> QED BY <1>5, <3>1, <3>2, <3>3
  <2> QED BY <2>1, <2>2
<1>14. ASSUME NEW j \in 1..Len(ranges'), NEW k \in 1..Len(ranges'), j < k
       PROVE  \/ ranges'[j].hi < ranges'[k].lo \/ ranges'[k].hi < ranges'[j].lo
              \/ ranges'[j].lo < ranges'[k].lo /\ ranges'[k].hi < ranges'[j].hi
  <2>1. k \in 2..Len(rs)+1 /\ k - 1 \in 1..Len(rs)
    BY <1>1, <1>5, <1>14
  <2>2. CASE j = 1
    <3>1. ranges'[j] = new /\ ranges'[k] = rs[k - 1]
      BY <1>5, <2>1, <2>2
    <3>2. rs[k - 1].lo \in Int /\ rs[k - 1].hi \in Int /\ new.lo \in Int /\ new.hi \in Int
      BY <1>1, <1>3, <2>1 DEF Extents
    <3>3. /\ ~(new.lo >= rs[k - 1].lo /\ new.lo <= rs[k - 1].hi)
          /\ ~(new.hi >= rs[k - 1].lo /\ new.hi <= rs[k - 1].hi)
      BY <1>2, <2>1
    <3> QED BY <3>1, <3>2, <3>3
  <2>3. CASE j # 1
    <3>1. j \in 2..Len(rs)+1 /\ j - 1 \in 1..Len(rs) /\ j - 1 < k - 1
      BY <1>1, <1>5, <1>14, <2>3
    <3> QED BY <1>5, <2>1, <3>1 DEF Spaced
  <2> QED BY <2>2, <2>3
<1> QED BY <1>12, <1>13, <1>14 DEF Spaced

-----------------------------------------------------------------------------
\* The indices a trace owns.

LEMMA OwnsOneMore ==
  ASSUME NEW ops, NEW k \in Nat \ {0}, ops[k].index \in Ids
  PROVE  Owned(ops, k + 1) = IF ops[k].type = "f" THEN Owned(ops, k) \ {ops[k].index}
                             ELSE Owned(ops, k) \cup {ops[k].index}
<1> DEFINE Mine(id, m, j) == /\ ops[j].index = id /\ ops[j].type # "f"
                             /\ \A l \in j+1..m-1 : ops[l].index # id
<1>1. \A id, m : id \in Owned(ops, m) <=> id \in Ids /\ \E j \in 1..m-1 : Mine(id, m, j)
  BY DEF Owned
<1>2. ASSUME NEW id \in Ids, id # ops[k].index
      PROVE  id \in Owned(ops, k + 1) <=> id \in Owned(ops, k)
  <2>1. ASSUME NEW j \in 1..k-1, Mine(id, k, j) PROVE j \in 1..(k+1)-1 /\ Mine(id, k + 1, j)
    <3>1. \A l \in j+1..(k+1)-1 : ops[l].index # id
      <4> SUFFICES ASSUME NEW l \in j+1..(k+1)-1 PROVE ops[l].index # id
        OBVIOUS
      <4>1. l = k \/ l \in j+1..k-1
        OBVIOUS
      <4> QED BY <1>2, <2>1, <4>1
    <3> QED BY <2>1, <3>1
  <2>2. ASSUME NEW j \in 1..(k+1)-1, Mine(id, k + 1, j) PROVE j \in 1..k-1 /\ Mine(id, k, j)
    <3>1. j # k
      BY <1>2, <2>2
    <3>2. j \in 1..k-1 /\ \A l \in j+1..k-1 : l \in j+1..(k+1)-1
      BY <3>1
    <3> QED BY <2>2, <3>2
  <2> HIDE DEF Mine
  <2> QED BY <1>1, <2>1, <2>2
<1>3. ops[k].index \in Owned(ops, k + 1) <=> ops[k].type # "f"
  <2>1. ASSUME NEW j \in 1..(k+1)-1, Mine(ops[k].index, k + 1, j) PROVE ops[k].type # "f"
    <3>1. CASE j = k
      BY <2>1, <3>1
    <3>2. CASE j # k
      <4>1. k \in j+1..(k+1)-1
        BY <3>2
      <4> QED BY <2>1, <4>1
    <3> QED BY <3>1, <3>2
  <2>2. ASSUME ops[k].type # "f" PROVE k \in 1..(k+1)-1 /\ Mine(ops[k].index, k + 1, k)
    BY <2>2
  <2> HIDE DEF Mine
  <2> QED BY <1>1, <2>1, <2>2
<1>4. Owned(ops, k + 1) \subseteq Ids /\ Owned(ops, k) \subseteq Ids
  BY DEF Owned
<1> QED BY <1>2, <1>3, <1>4

\* Nothing is owned at the start.
LEMMA OwnsNothing == ASSUME NEW ops PROVE Owned(ops, 1) = {}
<1>1. 1..1-1 = {}
  OBVIOUS
<1> QED BY <1>1 DEF Owned

-----------------------------------------------------------------------------
\* The bytes that are allocated.

Bytes(h, ids) == UNION {{id} \X (1..h[id]) : id \in ids}

\* The bytes of one id are as many as it holds.
LEMMA BytesOfOne ==
  ASSUME NEW n \in Nat, NEW id
  PROVE  IsFiniteSet({id} \X (1..n)) /\ Cardinality({id} \X (1..n)) = n
<1>1. IsFiniteSet(1..n) /\ Cardinality(1..n) = n
  <2>1. Cardinality(1..n) = IF 1 > n THEN 0 ELSE n - 1 + 1
    BY FS_Interval
  <2> QED BY <2>1, FS_Interval
<1>2. IsFiniteSet({id}) /\ Cardinality({id}) = 1
  BY FS_Singleton
<1> QED BY <1>1, <1>2, FS_Product

\* The bytes of all are those of one and those of the others.
LEMMA BytesSplit ==
  ASSUME NEW h \in [Ids -> Nat], NEW id \in Ids, IsFiniteSet(Bytes(h, Ids \ {id}))
  PROVE  /\ IsFiniteSet(Bytes(h, Ids))
         /\ Cardinality(Bytes(h, Ids)) = Cardinality(Bytes(h, Ids \ {id})) + h[id]
<1> DEFINE A == Bytes(h, Ids \ {id})
           B == {id} \X (1..h[id])
<1>1. Bytes(h, Ids) = A \cup B
  BY DEF Bytes
<1>2. A \cap B = {}
  BY DEF Bytes
<1>3. IsFiniteSet(B) /\ Cardinality(B) = h[id]
  BY BytesOfOne
<1>4. IsFiniteSet(A)
  OBVIOUS
<1> HIDE DEF A, B
<1>5. IsFiniteSet(A \cup B) /\ Cardinality(A \cup B) = Cardinality(A) + Cardinality(B) - Cardinality(A \cap B)
  BY <1>3, <1>4, FS_Union
<1>6. Cardinality({}) = 0 /\ Cardinality(A) \in Nat
  BY <1>4, FS_EmptySet, FS_CardinalityType
<1>7. h[id] \in Nat
  OBVIOUS
<1>8. Cardinality(A) + Cardinality(B) - Cardinality(A \cap B) = Cardinality(A) + h[id]
  <2>1. \A x \in Nat, y \in Nat : x + y - 0 = x + y
    OBVIOUS
  <2> QED BY <1>2, <1>3, <1>6, <1>7, <2>1, Zenon
<1> QED BY <1>1, <1>5, <1>8 DEF A

\* Blocks that are in the heap and apart hold no more bytes than the heap has.
LEMMA BytesFit ==
  ASSUME NEW h \in [Ids -> Nat], NEW at \in [Ids -> Int], NEW end \in Nat, IsFiniteSet(Bytes(h, Ids)),
         \A id \in Ids : h[id] > 0 => 0 <= at[id] /\ at[id] + h[id] <= end,
         \A id \in Ids, jd \in Ids : h[id] > 0 /\ h[jd] > 0 /\ id # jd => ~Overlap(at[id], h[id], at[jd], h[jd])
  PROVE  Cardinality(Bytes(h, Ids)) <= end
<1> DEFINE S == Bytes(h, Ids)
           T == 1..end
           f == [x \in S |-> at[x[1]] + x[2]]
<1>1. \A x \in S : x[1] \in Ids /\ x[2] \in 1..h[x[1]] /\ x = << x[1], x[2] >>
  BY DEF Bytes
<1>2. \A x \in S : f[x] \in T
  <2> SUFFICES ASSUME NEW x \in S PROVE at[x[1]] + x[2] \in T
    OBVIOUS
  <2>1. x[1] \in Ids /\ x[2] \in 1..h[x[1]] /\ h[x[1]] \in Nat /\ at[x[1]] \in Int
    BY <1>1
  <2>2. h[x[1]] > 0
    BY <2>1
  <2> QED BY <2>1, <2>2
<1>3. \A x \in S, y \in S : f[x] = f[y] => x = y
  <2> SUFFICES ASSUME NEW x \in S, NEW y \in S, at[x[1]] + x[2] = at[y[1]] + y[2] PROVE x = y
    OBVIOUS
  <2>1. /\ x[1] \in Ids /\ x[2] \in 1..h[x[1]] /\ h[x[1]] \in Nat /\ at[x[1]] \in Int
        /\ y[1] \in Ids /\ y[2] \in 1..h[y[1]] /\ h[y[1]] \in Nat /\ at[y[1]] \in Int
    BY <1>1
  <2>2. x[1] = y[1]
    <3> SUFFICES ASSUME x[1] # y[1] PROVE FALSE
      OBVIOUS
    <3>1. ~Overlap(at[x[1]], h[x[1]], at[y[1]], h[y[1]])
      BY <2>1
    <3> QED BY <2>1, <3>1 DEF Overlap
  <2>3. x[2] = y[2]
    BY <2>1, <2>2
  <2> QED BY <1>1, <2>2, <2>3
<1>4. f \in Injection(S, T)
  BY <1>2, <1>3 DEF Injection, IsInjective
<1>5. IsFiniteSet(T) /\ Cardinality(T) = end
  BY FS_Interval
<1> HIDE DEF f, T
<1> QED BY <1>4, <1>5, FS_Injection DEF S

-----------------------------------------------------------------------------
\* The requests, and what a call leaves.

LEMMA RequestFacts ==
  ASSUME CheckerAssumption, Types, phase \in ActivePhases, i \in 1..Len(trace.ops)
  PROVE  /\ Len(trace.ops) \in Nat /\ i \in Nat \ {0} /\ Request.index \in Ids
         /\ Request.size \in Nat /\ Request.size > 0 /\ Request.type \in {"a", "r", "f"}
         /\ Request.type = "a" <=> Request.index \notin Owned(trace.ops, i)
<1>1. trace \in Files
  BY DEF Types
<1>2. /\ Len(trace.ops) \in Nat
      /\ \A k \in 1..Len(trace.ops) :
           /\ trace.ops[k].index \in Ids /\ trace.ops[k].size \in Nat /\ trace.ops[k].size > 0
           /\ trace.ops[k].type \in {"a", "r", "f"}
           /\ trace.ops[k].type = "a" <=> trace.ops[k].index \notin Owned(trace.ops, k)
  BY <1>1 DEF CheckerAssumption
<1>3. i \in Nat \ {0}
  OBVIOUS
<1> QED BY <1>2, <1>3 DEF Request

LEMMA HeapFacts ==
  ASSUME CheckerAssumption
  PROVE  HeapSize \in Nat /\ 0 \in Breaks /\ \A b \in Breaks : b \in Nat /\ b <= HeapSize
BY DEF CheckerAssumption

LEMMA Remembered ==
  ASSUME Types, NEW id \in Ids, NEW p \in Int, NEW n \in Nat, Remember(id, p, n)
  PROVE  /\ blocks' \in [Ids -> Int] /\ block_sizes' \in [Ids -> Nat] /\ held' \in [Ids -> Nat]
         /\ blocks'[id] = p /\ block_sizes'[id] = n /\ held'[id] = n
         /\ \A jd \in Ids \ {id} : /\ blocks'[jd] = blocks[jd] /\ block_sizes'[jd] = block_sizes[jd]
                                   /\ held'[jd] = held[jd]
BY DEF Types, Remember

LEMMA Pointing ==
  ASSUME CheckerAssumption, NEW p \in Pointers
  PROVE  p \in Int /\ (p # NULL => 0 <= p)
BY HeapFacts DEF Pointers, NULL

\* A call that returned a block.
LEMMA Placed ==
  ASSUME CheckerAssumption, Types, Holds, phase \in ActivePhases, i \in 1..Len(trace.ops),
         Request.type # "f", NEW p \in Pointers, p # NULL, NEW b \in Breaks,
         Returns(p, Request.size, b, Live \ {Request.index}), brk' = b,
         Remember(Request.index, p, Request.size), i' = i + 1, UNCHANGED <<sound, trace>>
  PROVE  Holds' /\ Live' = Live \cup {Request.index} /\ brk <= brk'
<1> DEFINE id == Request.index
           n == Request.size
<1>1. id \in Ids /\ n \in Nat /\ n > 0 /\ i \in Nat \ {0} /\ trace.ops[i].index \in Ids
  BY RequestFacts DEF Request
<1>2. p \in Int /\ 0 <= p
  BY Pointing
<1>3. brk \in Nat /\ brk' \in Nat /\ brk <= brk'
  BY HeapFacts DEF Types, Returns
<1>4. /\ blocks'[id] = p /\ block_sizes'[id] = n /\ held'[id] = n
      /\ \A jd \in Ids \ {id} : /\ blocks'[jd] = blocks[jd] /\ block_sizes'[jd] = block_sizes[jd]
                                /\ held'[jd] = held[jd]
  BY <1>1, <1>2, Remembered
<1>5. sound => /\ p + n <= brk'
               /\ \A jd \in Live \ {id} : ~Overlap(p, n, blocks[jd], held[jd])
  BY DEF Returns
<1>6. id = trace.ops[i].index
  BY DEF Request
<1> HIDE DEF id, n
<1>7. Live' = Live \cup {id}
  BY <1>1, <1>4 DEF Live
<1>8. \A jd \in Live : jd \in Ids /\ blocks[jd] \in Int /\ held[jd] \in Nat /\ block_sizes[jd] = held[jd]
  BY DEF Live, Types, Holds
<1>9. Live' = Owned(trace.ops, i)'
  <2>1. Live = Owned(trace.ops, i)
    BY DEF Holds
  <2>2. Owned(trace.ops, i + 1) = Owned(trace.ops, i) \cup {trace.ops[i].index}
    BY <1>1, OwnsOneMore DEF Request
  <2> QED BY <1>6, <1>7, <2>1, <2>2
<1>10. \A jd \in Live' : block_sizes'[jd] = held'[jd]
  BY <1>1, <1>4, <1>7, <1>8
<1>11. ASSUME sound PROVE Apart'
  <2>1. ASSUME NEW jd \in Live, jd # id
        PROVE  ~Overlap(p, n, blocks[jd], held[jd]) /\ ~Overlap(blocks[jd], held[jd], p, n)
    <3>1. ~Overlap(p, n, blocks[jd], held[jd])
      BY <1>5, <1>11, <2>1
    <3> QED BY <3>1, Zenon DEF Overlap
  <2>2. ASSUME NEW jd \in Live, NEW kd \in Live, jd # kd PROVE ~Overlap(blocks[jd], held[jd], blocks[kd], held[kd])
    BY <1>11, <2>2 DEF Holds, Apart
  <2>3. ASSUME NEW jd \in Live', NEW kd \in Live', jd # kd
        PROVE  ~Overlap(blocks'[jd], held'[jd], blocks'[kd], held'[kd])
    <3>1. CASE jd = id
      <4>1. kd \in Live /\ kd # id /\ kd \in Ids \ {id}
        BY <1>7, <1>8, <2>3, <3>1
      <4> QED BY <1>4, <2>1, <3>1, <4>1
    <3>2. CASE kd = id
      <4>1. jd \in Live /\ jd # id /\ jd \in Ids \ {id}
        BY <1>7, <1>8, <2>3, <3>2
      <4> QED BY <1>4, <2>1, <3>2, <4>1
    <3>3. CASE jd # id /\ kd # id
      <4>1. jd \in Live /\ kd \in Live /\ jd \in Ids \ {id} /\ kd \in Ids \ {id}
        BY <1>7, <1>8, <3>3
      <4> QED BY <1>4, <2>2, <2>3, <4>1
    <3> QED BY <3>1, <3>2, <3>3
  <2> QED BY <2>3 DEF Apart, Overlap
<1>12. ASSUME sound PROVE Inside'
  <2> SUFFICES ASSUME NEW jd \in Live' PROVE 0 <= blocks'[jd] /\ blocks'[jd] + held'[jd] <= brk'
    BY DEF Inside
  <2>1. CASE jd = id
    BY <1>2, <1>4, <1>5, <1>12, <2>1
  <2>2. CASE jd # id
    <3>1. jd \in Live /\ blocks'[jd] = blocks[jd] /\ held'[jd] = held[jd]
      BY <1>4, <1>7, <1>8, <2>2
    <3>2. 0 <= blocks[jd] /\ blocks[jd] + held[jd] <= brk /\ blocks[jd] \in Int /\ held[jd] \in Nat
      BY <1>8, <1>12, <3>1 DEF Holds, Inside
    <3> QED BY <1>3, <3>1, <3>2
  <2> QED BY <2>1, <2>2
<1>13. Holds'
  BY <1>9, <1>10, <1>11, <1>12 DEF Holds
<1> QED BY <1>3, <1>7, <1>13 DEF id

\* A call to free.
LEMMA Freed ==
  ASSUME CheckerAssumption, Types, Holds, phase \in ActivePhases, i \in 1..Len(trace.ops),
         Request.type = "f", held' = [held EXCEPT ![Request.index] = 0], i' = i + 1,
         UNCHANGED <<sound, trace, blocks, block_sizes, brk>>
  PROVE  /\ Holds' /\ Live' = Live \ {Request.index}
         /\ held' \in [Ids -> Nat] /\ held'[Request.index] = 0
         /\ \A jd \in Ids \ {Request.index} : held'[jd] = held[jd]
<1> DEFINE id == Request.index
<1>1. id \in Ids /\ i \in Nat \ {0} /\ trace.ops[i].index \in Ids
  BY RequestFacts DEF Request
<1>2. held' \in [Ids -> Nat] /\ held'[id] = 0 /\ \A jd \in Ids \ {id} : held'[jd] = held[jd]
  BY <1>1 DEF Types
<1>3. id = trace.ops[i].index
  BY DEF Request
<1> HIDE DEF id
<1>4. Live' = Live \ {id}
  BY <1>1, <1>2 DEF Live
<1>5. Live' = Owned(trace.ops, i)'
  <2>1. Live = Owned(trace.ops, i)
    BY DEF Holds
  <2>2. Owned(trace.ops, i + 1) = Owned(trace.ops, i) \ {trace.ops[i].index}
    BY <1>1, OwnsOneMore DEF Request
  <2> QED BY <1>3, <1>4, <2>1, <2>2
<1>6. \A jd \in Live' : jd \in Live /\ jd \in Ids \ {id} /\ held'[jd] = held[jd]
  BY <1>2, <1>4 DEF Live
<1>7. Holds'
  BY <1>5, <1>6 DEF Holds, Apart, Inside
<1> QED BY <1>2, <1>4, <1>7 DEF id

-----------------------------------------------------------------------------
\* The steps.

Quiet == sound => (errors' = errors \/ ReallocsHigh) /\ status' # "exited"

LEMMA ToNext ==
  ASSUME CheckerAssumption, Types, package = "mm", NextTrace
  PROVE  /\ i' = 0 /\ phase' \in {"read", "end"} /\ package' = "mm"
         /\ tracenum' = tracenum + 1 /\ tracenum' \in Nat /\ (phase' = "end" => tracenum' = NumTraces)
BY DEF CheckerAssumption, Types, NextTrace, Last

\* A trace that is refused is counted, and nothing is checked after it.
LEMMA RefusedStep ==
  ASSUME CheckerAssumption, CheckInv, package = "mm", phase = "valid", errors' = errors + 1, NextTrace,
         UNCHANGED <<numcorrect, trace, mem>>, blocks' \in [Ids -> Int], block_sizes' \in [Ids -> Nat],
         held' \in [Ids -> Nat], ranges' \in Seq(Extents), total_size' \in Nat, max_total_size' \in Nat,
         brk' \in Breaks
  PROVE  CheckInv'
<1>1. /\ i' = 0 /\ phase' \in {"read", "end"} /\ package' = "mm"
      /\ tracenum' = tracenum + 1 /\ tracenum' \in Nat /\ (phase' = "end" => tracenum' = NumTraces)
  BY ToNext DEF CheckInv
<1>2. errors + numcorrect = tracenum /\ errors \in Nat /\ numcorrect \in Nat /\ tracenum \in Nat
  BY DEF CheckInv, Counted, Types
<1>3. Counted'
  BY <1>1, <1>2 DEF Counted
<1>4. Types'
  BY <1>1, <1>2 DEF CheckInv, Types, ActivePhases
<1>5. ~Working("valid")' /\ ~Working("util")'
  BY <1>1 DEF Working
<1> QED BY <1>3, <1>4, <1>5 DEF CheckInv

\* A step of the driver that only goes on keeps the count.
LEMMA ProceedStep ==
  ASSUME CheckInv, Proceed, UNCHANGED <<errors, numcorrect, trace>>, DOMAIN mem' = 0..HeapSize-1,
         status = "running",
         blocks' \in [Ids -> Int], block_sizes' \in [Ids -> Nat],
         held' \in [Ids -> Nat], ranges' \in Seq(Extents), total_size' \in Nat, max_total_size' \in Nat,
         brk' \in Breaks
  PROVE  Types' /\ Counted'
<1>1. phase' = phase /\ package' = package /\ tracenum' = tracenum /\ i' = i + 1 /\ i' \in Nat
  BY DEF Proceed, CheckInv, Types
<1>2. Types'
  BY <1>1 DEF CheckInv, Types, ActivePhases
<1>3. Counted'
  BY <1>1 DEF CheckInv, Counted
<1> QED BY <1>2, <1>3

LEMMA InitStep == ASSUME CheckerAssumption, Init PROVE CheckInv
<1>1. << >> \in Seq(Extents)
  BY EmptySeq
<1>2. Types
  BY <1>1 DEF Init, Types, CheckerAssumption, Zeros, NoMem, ActivePhases
<1>3. Counted
  BY DEF Init, Counted
<1>4. ~Working("valid") /\ ~Working("util")
  BY DEF Init, Working
<1> QED BY <1>2, <1>3, <1>4 DEF CheckInv

LEMMA ReadStep ==
  ASSUME CheckerAssumption, CheckInv, status = "running", ReadTrace
  PROVE  CheckInv' /\ Quiet
<1>1. /\ phase = "read" /\ phase' \in {"valid", "read"} /\ package' = package /\ tracenum' = tracenum
      /\ trace' \in Files /\ i' \in {0, i} /\ (phase' = "valid" => i' = 0) /\ status' # "exited"
      /\ blocks' = Zeros /\ block_sizes' = Zeros
      /\ UNCHANGED <<ranges, total_size, max_total_size, errors, numcorrect, brk, mem, held>>
  BY DEF ReadTrace, sumVars, resultVars
<1>2. Zeros \in [Ids -> Int] /\ Zeros \in [Ids -> Nat]
  BY DEF Zeros
<1>3. Types'
  BY <1>1, <1>2 DEF CheckInv, Types, ActivePhases
<1>4. Counted'
  BY <1>1 DEF CheckInv, Counted
<1>5. ~Working("valid")' /\ ~Working("util")'
  BY <1>1 DEF Working
<1> QED BY <1>1, <1>3, <1>4, <1>5 DEF CheckInv, Quiet

LEMMA FinishStep ==
  ASSUME CheckerAssumption, CheckInv, status = "running", Finish
  PROVE  CheckInv' /\ Quiet
<1>1. /\ package = "mm" /\ i' = 0 /\ phase \in ActivePhases
      /\ UNCHANGED <<trace, blocks, block_sizes, ranges, total_size, max_total_size, errors, brk, mem, held>>
      /\ UNCHANGED status
  BY DEF Finish, NextTrace, blockVars, sumVars, ActivePhases
<1>2. /\ errors + numcorrect = tracenum + (IF phase \in {"util", "speed"} THEN 1 ELSE 0)
      /\ errors \in Nat /\ numcorrect \in Nat /\ tracenum \in Nat
  BY <1>1 DEF CheckInv, Counted, Types
<1>3. CASE /\ i' = 0 /\ UNCHANGED <<package, tracenum>>
           /\ phase' = IF phase = "valid" THEN "util" ELSE "speed"
           /\ numcorrect' = IF phase = "valid" THEN numcorrect + 1 ELSE numcorrect
  <2>1. phase' \in {"util", "speed"} /\ package' = "mm" /\ tracenum' = tracenum
    BY <1>1, <1>3
  <2>2. numcorrect' \in Nat /\ errors' + numcorrect' = tracenum' + 1
    BY <1>1, <1>2, <1>3 DEF ActivePhases
  <2>3. Types'
    BY <1>1, <2>1, <2>2 DEF CheckInv, Types, ActivePhases
  <2>4. Counted'
    BY <2>1, <2>2 DEF Counted
  <2>5. ~Working("valid")' /\ ~Working("util")'
    BY <1>1 DEF Working
  <2> QED BY <1>1, <2>3, <2>4, <2>5 DEF CheckInv, Quiet
<1>4. CASE phase = "speed" /\ NextTrace /\ UNCHANGED numcorrect
  <2>1. /\ i' = 0 /\ phase' \in {"read", "end"} /\ package' = "mm"
        /\ tracenum' = tracenum + 1 /\ tracenum' \in Nat /\ (phase' = "end" => tracenum' = NumTraces)
    BY <1>1, <1>4, ToNext DEF CheckInv
  <2>2. Types'
    BY <1>1, <1>4, <2>1 DEF CheckInv, Types, ActivePhases
  <2>3. Counted'
    BY <1>1, <1>2, <1>4, <2>1 DEF Counted
  <2>4. ~Working("valid")' /\ ~Working("util")'
    BY <1>1 DEF Working
  <2> QED BY <1>1, <2>2, <2>3, <2>4 DEF CheckInv, Quiet
<1> QED BY <1>3, <1>4 DEF Finish

LEMMA SpeedStep ==
  ASSUME CheckerAssumption, CheckInv, status = "running", Speed
  PROVE  CheckInv' /\ Quiet
<1>1. /\ phase = "speed" /\ package = "mm" /\ i \in 1..Len(trace.ops)
      /\ UNCHANGED <<trace, mem, block_sizes, ranges, total_size, max_total_size, errors, numcorrect>>
  BY DEF Speed, AppError, sumVars, resultVars, blockVars
<1>2. Request.index \in Ids /\ Request.size \in Nat
  BY <1>1, RequestFacts DEF CheckInv, ActivePhases
<1>3. brk' \in Breaks /\ blocks' \in [Ids -> Int] /\ held' \in [Ids -> Nat]
  <2>1. ASSUME NEW p \in Pointers PROVE p \in Int
    BY Pointing
  <2>2. brk \in Breaks /\ blocks \in [Ids -> Int] /\ held \in [Ids -> Nat]
    BY DEF CheckInv, Types
  <2>3. \/ brk' = brk /\ blocks' = blocks /\ held' = [held EXCEPT ![Request.index] = 0]
        \/ \E p \in Pointers, b \in Breaks :
              /\ brk' = b
              /\ \/ blocks' = blocks /\ held' = held
                 \/ blocks' = [blocks EXCEPT ![Request.index] = p] /\ held' = [held EXCEPT ![Request.index] = Request.size]
    <3>1. CASE Request.type = "f"
      BY <3>1 DEF Speed
    <3>2. CASE Request.type # "f"
      <4>1. PICK p \in Pointers, b \in Breaks :
              /\ brk' = b
              /\ IF p = NULL THEN AppError
                 ELSE /\ blocks' = [blocks EXCEPT ![Request.index] = p]
                      /\ held' = [held EXCEPT ![Request.index] = Request.size]
        BY <3>2 DEF Speed
      <4>2. AppError => blocks' = blocks /\ held' = held
        BY DEF AppError, blockVars
      <4> QED BY <4>1, <4>2
    <3> QED BY <3>1, <3>2
  <2>4. CASE brk' = brk /\ blocks' = blocks /\ held' = [held EXCEPT ![Request.index] = 0]
    BY <1>2, <2>2, <2>4
  <2>5. ASSUME NEW p \in Pointers, NEW b \in Breaks, brk' = b, blocks' = blocks, held' = held
        PROVE  brk' \in Breaks /\ blocks' \in [Ids -> Int] /\ held' \in [Ids -> Nat]
    BY <2>2, <2>5
  <2>6. ASSUME NEW p \in Pointers, NEW b \in Breaks, brk' = b,
               blocks' = [blocks EXCEPT ![Request.index] = p], held' = [held EXCEPT ![Request.index] = Request.size]
        PROVE  brk' \in Breaks /\ blocks' \in [Ids -> Int] /\ held' \in [Ids -> Nat]
    BY <1>2, <2>1, <2>2, <2>6
  <2> QED BY <2>3, <2>4, <2>5, <2>6
<1>4. phase' = phase /\ package' = package /\ tracenum' = tracenum /\ i' \in Nat
  BY DEF Speed, AppError, Proceed, CheckInv, Types
<1>5. Types'
  BY <1>1, <1>3, <1>4 DEF CheckInv, Types, ActivePhases
<1>6. Counted'
  BY <1>1, <1>4 DEF CheckInv, Counted
<1>7. ~Working("valid")' /\ ~Working("util")'
  BY <1>1, <1>4 DEF Working
<1>8. sound => status' = status
  BY DEF Speed, Returns
<1> QED BY <1>1, <1>5, <1>6, <1>7, <1>8 DEF CheckInv, Quiet

LEMMA LibcValidStep ==
  ASSUME CheckerAssumption, CheckInv, status = "running", LibcValid
  PROVE  CheckInv' /\ Quiet
<1>1. /\ package = "libc" /\ phase = "valid" /\ phase' = phase /\ package' = package /\ tracenum' = tracenum
      /\ UNCHANGED <<trace, block_sizes, ranges, total_size, max_total_size, numcorrect, brk, mem, held>>
  BY DEF LibcValid, Proceed, sumVars
<1>2. i' \in Nat /\ errors' \in Nat /\ (errors' = errors \/ (~sound /\ status' = "exited"))
  <2>1. i \in Nat /\ errors \in Nat
    BY DEF CheckInv, Types
  <2>2. (i' = i + 1 /\ errors' = errors) \/ (i' = i /\ errors' = errors + 1 /\ ~sound /\ status' = "exited")
    BY DEF LibcValid, Proceed
  <2> QED BY <2>1, <2>2
<1>3. blocks' \in [Ids -> Int]
  <2>1. ASSUME i > 0, i \in 0..Len(trace.ops) PROVE Request.index \in Ids
    <3>1. i \in 1..Len(trace.ops)
      <4>1. i \in Nat
        BY DEF CheckInv, Types
      <4> QED BY <2>1, <4>1
    <3> QED BY <1>1, <3>1, RequestFacts DEF CheckInv, ActivePhases
  <2>2. Elsewhere \in Int /\ blocks \in [Ids -> Int] /\ i \in Nat
    BY HeapFacts DEF Elsewhere, CheckInv, Types
  <2>3. CASE blocks' = blocks
    BY <2>2, <2>3
  <2>4. CASE i > 0 /\ i \in 0..Len(trace.ops) /\ blocks' = [blocks EXCEPT ![Request.index] = Elsewhere]
    BY <2>1, <2>2, <2>4
  <2> QED BY <2>2, <2>3, <2>4 DEF LibcValid
<1>4. Types'
  BY <1>1, <1>2, <1>3 DEF CheckInv, Types, ActivePhases
<1>5. status' = "running" => errors' = errors
  BY <1>2
<1>6. Counted'
  BY <1>1, <1>5 DEF CheckInv, Counted
<1>7. ~Working("valid")' /\ ~Working("util")'
  BY <1>1 DEF Working
<1>8. sound => status' = status
  BY DEF LibcValid
<1> QED BY <1>2, <1>4, <1>6, <1>7, <1>8 DEF CheckInv, Quiet

LEMMA LibcSpeedStep ==
  ASSUME CheckerAssumption, CheckInv, status = "running", LibcSpeed
  PROVE  CheckInv' /\ Quiet
<1>1. /\ package = "libc" /\ phase \in {"valid", "speed"}
      /\ UNCHANGED <<trace, blocks, block_sizes, ranges, total_size, max_total_size, errors, numcorrect>>
      /\ UNCHANGED <<brk, mem, held>>
  BY DEF LibcSpeed, sumVars, blockVars, resultVars
<1>2. \/ phase' \in {"valid", "speed"} /\ package' = "libc" /\ tracenum' = tracenum /\ i' \in Nat
      \/ phase' = "read" /\ package' = "libc" /\ tracenum' \in Nat /\ i' \in Nat
      \/ phase' = "read" /\ package' = "mm" /\ tracenum' = 0 /\ i' \in Nat
  BY <1>1 DEF LibcSpeed, NextTrace, Last, Proceed, CheckInv, Types
<1>3. tracenum' \in Nat
  BY <1>2 DEF CheckInv, Types
<1>4. Types'
  BY <1>1, <1>2, <1>3 DEF CheckInv, Types, ActivePhases
<1>5. Counted'
  BY <1>1, <1>2 DEF CheckInv, Counted
<1>6. ~Working("valid")' /\ ~Working("util")'
  BY <1>2 DEF Working
<1>7. sound => status' = status
  BY DEF LibcSpeed
<1> QED BY <1>1, <1>4, <1>5, <1>6, <1>7 DEF CheckInv, Quiet

LEMMA StartStep ==
  ASSUME CheckerAssumption, CheckInv, status = "running", Start
  PROVE  CheckInv' /\ Quiet
<1>1. /\ package = "mm" /\ phase \in ActivePhases /\ i = 0 /\ brk' \in Breaks /\ mem' = NoMem /\ held' = Zeros
      /\ total_size' = 0 /\ max_total_size' = 0
      /\ ranges' = (IF phase = "valid" THEN << >> ELSE ranges)
      /\ UNCHANGED <<sound, trace, blocks, block_sizes, numcorrect>>
  BY DEF Start, blockVars, resultVars, ActivePhases
<1>2. /\ blocks' \in [Ids -> Int] /\ block_sizes' \in [Ids -> Nat] /\ held' \in [Ids -> Nat]
      /\ ranges' \in Seq(Extents) /\ total_size' \in Nat /\ max_total_size' \in Nat
      /\ DOMAIN mem' = 0..HeapSize-1 /\ brk' \in Nat
  <2>1. << >> \in Seq(Extents)
    BY EmptySeq
  <2>2. held' \in [Ids -> Nat] /\ DOMAIN mem' = 0..HeapSize-1
    BY <1>1 DEF Zeros, NoMem
  <2>3. brk' \in Nat
    BY <1>1, HeapFacts
  <2> QED BY <1>1, <2>1, <2>2, <2>3 DEF CheckInv, Types
<1>3. CASE i' = 1 /\ UNCHANGED <<phase, status, resultVars, package, tracenum>>
  <2>1. Types'
    BY <1>1, <1>2, <1>3 DEF CheckInv, Types, resultVars, ActivePhases
  <2>2. Counted'
    BY <1>3 DEF CheckInv, Counted, resultVars
  <2>3. Live' = {}
    BY <1>1 DEF Live, Zeros
  <2>4. Holds'
    <3>1. Owned(trace.ops, i)' = {}
      BY <1>1, <1>3, OwnsNothing
    <3> QED BY <2>3, <3>1 DEF Holds, Apart, Inside
  <2>5. ASSUME phase = "valid" PROVE Checked'
    <3>1. ranges' = << >> /\ << >> \in Seq(Extents) /\ Len(ranges') = 0
      BY <1>1, <2>5, EmptySeq
    <3>2. IsFiniteSet({}) /\ Cardinality({}) = 0
      BY FS_EmptySet
    <3>3. 1..0 = {}
      OBVIOUS
    <3>4. Lists(ranges, Live)'
      BY <2>3, <3>1, <3>2, <3>3 DEF Lists
    <3>5. Spaced(ranges, brk)'
      BY <3>1, <3>3 DEF Spaced
    <3>6. Intact'
      BY <2>3 DEF Intact
    <3> QED BY <3>4, <3>5, <3>6 DEF Checked
  <2>6. Measured'
    <3>1. BytesHeld' = {}
      <4>1. \A id \in Ids : held'[id] = 0
        BY <1>1 DEF Zeros
      <4>2. 1..0 = {}
        OBVIOUS
      <4> QED BY <4>1, <4>2 DEF BytesHeld
    <3>2. IsFiniteSet({}) /\ Cardinality({}) = 0
      BY FS_EmptySet
    <3> QED BY <1>1, <1>2, <3>1, <3>2 DEF Measured
  <2>7. Working("valid")' => phase = "valid"
    BY <1>3 DEF Working
  <2> QED BY <1>3, <2>1, <2>2, <2>4, <2>5, <2>6, <2>7 DEF CheckInv, Quiet, resultVars
<1>4. CASE ~sound /\ phase = "valid" /\ errors' = errors + 1 /\ NextTrace /\ UNCHANGED <<status, numcorrect>>
  <2>1. /\ i' = 0 /\ phase' \in {"read", "end"} /\ package' = "mm"
        /\ tracenum' = tracenum + 1 /\ tracenum' \in Nat /\ (phase' = "end" => tracenum' = NumTraces)
    BY <1>1, <1>4, ToNext DEF CheckInv
  <2>2. errors + numcorrect = tracenum /\ errors \in Nat /\ numcorrect \in Nat /\ tracenum \in Nat
    BY <1>1, <1>4 DEF CheckInv, Counted, Types
  <2>3. Counted'
    BY <1>4, <2>1, <2>2 DEF Counted
  <2>4. Types'
    BY <1>1, <1>2, <1>4, <2>1, <2>2 DEF CheckInv, Types, ActivePhases
  <2>5. ~Working("valid")' /\ ~Working("util")'
    BY <2>1 DEF Working
  <2> QED BY <1>4, <2>3, <2>4, <2>5 DEF CheckInv, Quiet
<1>5. CASE ~sound /\ phase # "valid" /\ UNCHANGED <<phase, i, resultVars, package, tracenum>>
  <2>1. Types'
    BY <1>1, <1>2, <1>5 DEF CheckInv, Types, resultVars, ActivePhases
  <2>2. Counted'
    BY <1>1, <1>5 DEF CheckInv, Counted, resultVars
  <2>3. ~Working("valid")' /\ ~Working("util")'
    BY <1>1, <1>5 DEF Working
  <2> QED BY <1>5, <2>1, <2>2, <2>3 DEF CheckInv, Quiet
<1> QED BY <1>3, <1>4, <1>5 DEF Start

\* add_range accepts what an allocator returns that keeps its contract.
LEMMA AddAccepts ==
  ASSUME CheckerAssumption, Types, sound, NEW rs, NEW ids \in SUBSET Live, Lists(rs, ids),
         \A jd \in Live : block_sizes[jd] = held[jd],
         NEW p \in Pointers, NEW n \in Nat, n > 0, NEW b \in Breaks, Returns(p, n, b, ids), brk' = b
  PROVE  p # NULL /\ AddRange(rs, p, n) # << >>
<1>1. p # NULL /\ p % Alignment = 0 /\ p + n <= b /\ \A id \in ids : ~Overlap(p, n, blocks[id], held[id])
  BY DEF Returns
<1>2. p \in Int /\ 0 <= p /\ b \in Nat
  BY <1>1, Pointing, HeapFacts
<1>3. rs \in Seq(Extents) /\ Len(rs) \in Nat
  BY LenProperties DEF Lists
<1>4. ~(p < 0) /\ ~(p > b - 1) /\ ~(p + n - 1 < 0) /\ ~(p + n - 1 > b - 1)
  BY <1>1, <1>2
<1>5. ASSUME NEW k \in 1..Len(rs)
      PROVE  ~(p >= rs[k].lo /\ p <= rs[k].hi) /\ ~(p + n - 1 >= rs[k].lo /\ p + n - 1 <= rs[k].hi)
  <2>1. PICK id \in ids : rs[k] = Extent(id)
    BY DEF Lists
  <2>2. id \in Live /\ id \in Ids /\ blocks[id] \in Int /\ held[id] \in Nat /\ block_sizes[id] = held[id]
    BY DEF Live, Types
  <2>3. ~Overlap(p, n, blocks[id], held[id])
    BY <1>1
  <2>4. rs[k].lo = blocks[id] /\ rs[k].hi = blocks[id] + held[id] - 1
    BY <2>1, <2>2 DEF Extent
  <2> QED BY <1>2, <2>2, <2>3, <2>4 DEF Overlap
<1>6. << [lo |-> p, hi |-> p + n - 1] >> \o rs # << >>
  <2>1. [lo |-> p, hi |-> p + n - 1] \in Extents
    BY <1>2 DEF Extents
  <2> QED BY <1>3, <2>1, InFront
<1>7. AddRange(rs, p, n) = << [lo |-> p, hi |-> p + n - 1] >> \o rs
  BY <1>1, <1>4, <1>5, Zenon DEF AddRange
<1> QED BY <1>1, <1>6, <1>7

\* What the driver writes into a block leaves the others as they were.
LEMMA FillKeeps ==
  ASSUME CheckerAssumption, Types, Inside, NEW id \in Ids, NEW p \in Int, NEW n \in Nat, Remember(id, p, n),
         NEW m, DOMAIN m = 0..HeapSize-1, mem' = Filled(m, p, n, id), Live' = Live \cup {id},
         0 <= p, p + n <= HeapSize,
         \A jd \in Live \ {id} : /\ ~Overlap(p, n, blocks[jd], held[jd])
                                 /\ \A a \in blocks[jd]..blocks[jd]+held[jd]-1 : m[a] = jd % (2 * Half)
  PROVE  Intact'
<1> SUFFICES ASSUME NEW jd \in Live', NEW a \in blocks'[jd]..blocks'[jd]+held'[jd]-1
             PROVE  mem'[a] = jd % (2 * Half)
  BY DEF Intact
<1>1. /\ blocks'[id] = p /\ held'[id] = n
      /\ \A kd \in Ids \ {id} : blocks'[kd] = blocks[kd] /\ held'[kd] = held[kd]
  BY Remembered
<1>2. HeapSize \in Nat /\ brk \in Nat /\ brk <= HeapSize
  BY HeapFacts DEF Types
<1>3. CASE jd = id
  <2>1. a \in 0..HeapSize-1 /\ p <= a /\ a < p + n
    BY <1>1, <1>2, <1>3
  <2> QED BY <1>3, <2>1 DEF Filled
<1>4. CASE jd # id
  <2>1. jd \in Live \ {id} /\ blocks'[jd] = blocks[jd] /\ held'[jd] = held[jd]
    BY <1>1, <1>4 DEF Live
  <2>2. blocks[jd] \in Int /\ held[jd] \in Nat /\ 0 <= blocks[jd] /\ blocks[jd] + held[jd] <= brk
    BY <2>1 DEF Live, Types, Inside
  <2>3. a \in Int /\ blocks[jd] <= a /\ a < blocks[jd] + held[jd]
    BY <2>1, <2>2
  <2>4. a \in 0..HeapSize-1 /\ ~(p <= a /\ a < p + n)
    <3>1. ~Overlap(p, n, blocks[jd], held[jd])
      BY <2>1
    <3> QED BY <1>2, <2>2, <2>3, <3>1 DEF Overlap
  <2>5. m[a] = jd % (2 * Half)
    BY <2>1
  <2> QED BY <2>4, <2>5 DEF Filled
<1> QED BY <1>3, <1>4

LEMMA ValidAllocStep ==
  ASSUME CheckerAssumption, CheckInv, status = "running", ValidAlloc
  PROVE  CheckInv' /\ Quiet
<1> DEFINE id == Request.index
           n == Request.size
<1>1. /\ package = "mm" /\ phase = "valid" /\ phase \in ActivePhases /\ i \in 1..Len(trace.ops)
      /\ Request.type = "a" /\ Request.type # "f"
      /\ UNCHANGED <<sound, trace, total_size, max_total_size, status>>
  BY DEF ValidAlloc, Is, sumVars, ActivePhases
<1>2. Types /\ Counted /\ Holds /\ Checked
  <2>1. Working("valid")
    BY <1>1 DEF Working
  <2> QED BY <2>1 DEF CheckInv
<1>3. /\ id \in Ids /\ n \in Nat /\ n > 0 /\ id \notin Live
  BY <1>1, <1>2, RequestFacts DEF Holds
<1>4. PICK p \in Pointers, b \in Breaks :
        /\ Returns(p, n, b, Live) /\ brk' = b
        /\ IF p = NULL \/ AddRange(ranges, p, n) = << >> THEN Refused /\ UNCHANGED mem
           ELSE /\ ranges' = AddRange(ranges, p, n) /\ Remember(id, p, n) /\ Proceed
                /\ mem' = Filled(mem, p, n, id) /\ UNCHANGED resultVars
  BY DEF ValidAlloc
<1>5. sound => p # NULL /\ AddRange(ranges, p, n) # << >>
  BY <1>2, <1>3, <1>4, AddAccepts DEF Checked, Holds
<1>6. CASE p = NULL \/ AddRange(ranges, p, n) = << >>
  <2>1. /\ errors' = errors + 1 /\ NextTrace
        /\ UNCHANGED <<numcorrect, mem, blocks, block_sizes, held, ranges>>
    BY <1>4, <1>6 DEF Refused, blockVars
  <2>2. /\ blocks' \in [Ids -> Int] /\ block_sizes' \in [Ids -> Nat] /\ held' \in [Ids -> Nat]
        /\ ranges' \in Seq(Extents) /\ total_size' \in Nat /\ max_total_size' \in Nat /\ brk' \in Breaks
    BY <1>1, <1>2, <1>4, <2>1 DEF Types
  <2>3. CheckInv'
    BY <1>1, <2>1, <2>2, RefusedStep
  <2> QED BY <1>5, <1>6, <2>3 DEF Quiet
<1>7. CASE ~(p = NULL \/ AddRange(ranges, p, n) = << >>)
  <2>1. /\ ranges' = AddRange(ranges, p, n) /\ Remember(id, p, n) /\ Proceed
        /\ mem' = Filled(mem, p, n, id) /\ UNCHANGED <<errors, numcorrect>>
    BY <1>4, <1>7 DEF resultVars
  <2>2. i' = i + 1 /\ phase' = "valid" /\ package' = "mm" /\ Live \ {id} = Live
    BY <1>1, <1>3, <2>1 DEF Proceed
  <2>3. Holds' /\ Live' = Live \cup {id} /\ brk <= brk'
    BY <1>1, <1>2, <1>4, <1>7, <2>1, <2>2, Placed
  <2>4. p \in Int /\ 0 <= p /\ brk \in Nat /\ brk' \in Nat /\ brk' <= HeapSize /\ HeapSize \in Nat
    BY <1>2, <1>4, <1>7, Pointing, HeapFacts DEF Types
  <2>5. Lists(ranges, Live)' /\ Spaced(ranges, brk)'
    <3>1. Lists(ranges, Live) /\ Spaced(ranges, brk)
      BY <1>2 DEF Checked
    <3>2. \A jd \in Live : block_sizes[jd] > 0
      BY <1>2 DEF Holds, Live
    <3>3. blocks' = [blocks EXCEPT ![id] = p] /\ block_sizes' = [block_sizes EXCEPT ![id] = n]
      BY <2>1 DEF Remember
    <3>4. Live \in SUBSET Ids /\ id \in Ids \ Live
      BY <1>3 DEF Live
    <3>5. /\ AddRange(ranges, p, n) # << >> /\ brk \in Int /\ brk' \in Int /\ brk <= brk'
          /\ ranges' = AddRange(ranges, p, n) /\ Live' = Live \cup {id}
          /\ p \in Int /\ n \in Nat /\ n > 0 /\ Types
      BY <1>2, <1>3, <1>7, <2>1, <2>3, <2>4
    <3> HIDE DEF id, n
    <3> QED BY <3>1, <3>2, <3>3, <3>4, <3>5, AddKeeps, Zenon
  <2>6. sound => Intact'
    <3> SUFFICES ASSUME sound PROVE Intact'
      OBVIOUS
    <3>1. Inside /\ DOMAIN mem = 0..HeapSize-1 /\ p + n <= HeapSize
      BY <1>2, <1>3, <1>4, <2>4 DEF Holds, Types, Returns
    <3>2. \A jd \in Live \ {id} : /\ ~Overlap(p, n, blocks[jd], held[jd])
                                  /\ \A a \in blocks[jd]..blocks[jd]+held[jd]-1 : mem[a] = jd % (2 * Half)
      BY <1>2, <1>4 DEF Returns, Checked, Intact
    <3> HIDE DEF id, n
    <3> QED BY <1>2, <1>3, <2>1, <2>3, <2>4, <3>1, <3>2, FillKeeps
  <2>7. Types' /\ Counted'
    <3>1. /\ blocks' \in [Ids -> Int] /\ block_sizes' \in [Ids -> Nat] /\ held' \in [Ids -> Nat]
      BY <1>2, <1>3, <2>1, <2>4, Remembered
    <3>2. ranges' \in Seq(Extents)
      BY <2>5 DEF Lists
    <3>3. DOMAIN mem' = 0..HeapSize-1 /\ total_size' \in Nat /\ max_total_size' \in Nat /\ brk' \in Breaks
      BY <1>1, <1>2, <1>4, <2>1 DEF Types, Filled
    <3> QED BY <1>1, <2>1, <3>1, <3>2, <3>3, ProceedStep
  <2>8. Checked'
    BY <1>1, <2>5, <2>6 DEF Checked
  <2>9. ~Working("util")'
    BY <2>2 DEF Working
  <2> QED BY <1>1, <2>1, <2>3, <2>7, <2>8, <2>9 DEF CheckInv, Quiet
<1> QED BY <1>6, <1>7

LEMMA ValidFreeStep ==
  ASSUME CheckerAssumption, CheckInv, status = "running", ValidFree
  PROVE  CheckInv' /\ Quiet
<1> DEFINE id == Request.index
<1>1. /\ package = "mm" /\ phase = "valid" /\ phase \in ActivePhases /\ i \in 1..Len(trace.ops)
      /\ Request.type = "f" /\ ranges' = RemoveRange(ranges, blocks[id])
      /\ held' = [held EXCEPT ![id] = 0] /\ Proceed
      /\ UNCHANGED <<sound, trace, blocks, block_sizes, total_size, max_total_size, errors, numcorrect>>
      /\ UNCHANGED <<brk, mem, status>>
  BY DEF ValidFree, Is, sumVars, blockVars, resultVars, ActivePhases
<1>2. Types /\ Counted /\ Holds /\ Checked
  <2>1. Working("valid")
    BY <1>1 DEF Working
  <2> QED BY <2>1 DEF CheckInv
<1>3. id \in Live
  BY <1>1, <1>2, RequestFacts DEF Holds
<1>4. i' = i + 1 /\ phase' = "valid" /\ package' = "mm"
  BY <1>1 DEF Proceed
<1>5. /\ Holds' /\ Live' = Live \ {id} /\ held' \in [Ids -> Nat]
      /\ \A jd \in Ids \ {id} : held'[jd] = held[jd]
  BY <1>1, <1>2, <1>4, Freed
<1>6. /\ Lists(RemoveRange(ranges, blocks[id]), Live \ {id})
      /\ Spaced(RemoveRange(ranges, blocks[id]), brk)
  <2>1. Lists(ranges, Live) /\ Spaced(ranges, brk)
    BY <1>2 DEF Checked
  <2>2. \A jd \in Live : block_sizes[jd] > 0
    BY <1>2 DEF Holds, Live
  <2>3. Live \in SUBSET Ids /\ brk \in Int
    BY <1>2, HeapFacts DEF Live, Types
  <2> HIDE DEF id
  <2> QED BY <1>2, <1>3, <2>1, <2>2, <2>3, RemoveKeeps
<1>7. Lists(ranges, Live)' /\ Spaced(ranges, brk)'
  <2>1. \A jd : Extent(jd)' = Extent(jd)
    BY <1>1 DEF Extent
  <2> QED BY <1>1, <1>5, <1>6, <2>1 DEF Lists, Spaced
<1>8. sound => Intact'
  <2>1. \A jd \in Live' : jd \in Live /\ held'[jd] = held[jd]
    BY <1>5 DEF Live
  <2> QED BY <1>1, <1>2, <2>1 DEF Checked, Intact
<1>9. Types' /\ Counted'
  <2>1. ranges' \in Seq(Extents)
    BY <1>7 DEF Lists
  <2>2. /\ blocks' \in [Ids -> Int] /\ block_sizes' \in [Ids -> Nat]
        /\ DOMAIN mem' = 0..HeapSize-1 /\ total_size' \in Nat /\ max_total_size' \in Nat /\ brk' \in Breaks
    BY <1>1, <1>2 DEF Types
  <2> QED BY <1>1, <1>5, <2>1, <2>2, ProceedStep
<1>10. Checked'
  BY <1>1, <1>7, <1>8 DEF Checked
<1>11. ~Working("util")'
  BY <1>4 DEF Working
<1> QED BY <1>1, <1>5, <1>9, <1>10, <1>11 DEF CheckInv, Quiet

\* What a realloc moves is what the driver looks for, unless the byte is
\* negative as a char.
LEMMA MoveKeeps ==
  ASSUME CheckerAssumption, Types, Inside, Intact, NEW id \in Live, block_sizes[id] = held[id],
         NEW p \in Int, NEW n \in Nat, NEW old \in Nat, old <= n, old <= held[id],
         0 <= p, p + n <= HeapSize, ~(id % (2 * Half) >= Half)
  PROVE  Preserved(Moved(blocks[id], old, p), p, old, id)
<1> SUFFICES ASSUME NEW j \in 0..old-1
             PROVE  SignedChar(Moved(blocks[id], old, p)[p + j]) = id % (2 * Half)
  BY DEF Preserved
<1>1. /\ blocks[id] \in Int /\ held[id] \in Nat /\ 0 <= blocks[id] /\ blocks[id] + held[id] <= brk
      /\ brk \in Nat /\ brk <= HeapSize /\ HeapSize \in Nat /\ DOMAIN mem = 0..HeapSize-1
  BY HeapFacts DEF Live, Types, Inside
<1>2. /\ p + j \in DOMAIN mem /\ p <= p + j /\ p + j < p + old /\ (p + j) - p = j
      /\ blocks[id] + j \in DOMAIN mem /\ blocks[id] + j \in blocks[id]..blocks[id]+held[id]-1
  BY <1>1
<1>3. Moved(blocks[id], old, p)[p + j] = mem[blocks[id] + j]
  BY <1>2, Zenon DEF Moved
<1>4. mem[blocks[id] + j] = id % (2 * Half)
  BY <1>2 DEF Intact
<1> QED BY <1>3, <1>4, Zenon DEF SignedChar

LEMMA ValidReallocStep ==
  ASSUME CheckerAssumption, CheckInv, status = "running", ValidRealloc
  PROVE  CheckInv' /\ Quiet
<1> DEFINE id == Request.index
           n == Request.size
           old == IF n < block_sizes[id] THEN n ELSE block_sizes[id]
           rest == RemoveRange(ranges, blocks[id])
<1>1. /\ package = "mm" /\ phase = "valid" /\ phase \in ActivePhases /\ i \in 1..Len(trace.ops)
      /\ Request.type = "r" /\ Request.type # "f" /\ Request.type # "a"
      /\ UNCHANGED <<sound, trace, total_size, max_total_size, status>>
  BY DEF ValidRealloc, Is, sumVars, ActivePhases
<1>2. Types /\ Counted /\ Holds /\ Checked
  <2>1. Working("valid")
    BY <1>1 DEF Working
  <2> QED BY <2>1 DEF CheckInv
<1>3. /\ id \in Ids /\ n \in Nat /\ n > 0 /\ id \in Live
  BY <1>1, <1>2, RequestFacts DEF Holds
<1> DEFINE Outcome(p, m) ==
             IF p = NULL \/ AddRange(rest, p, n) = << >> \/ ~Preserved(m, p, old, id)
             THEN Refused /\ UNCHANGED mem
             ELSE /\ ranges' = AddRange(rest, p, n) /\ Remember(id, p, n) /\ Proceed
                  /\ mem' = Filled(m, p, n, id) /\ UNCHANGED resultVars
<1>4. PICK p \in Pointers, b \in Breaks :
         /\ Returns(p, n, b, Live \ {id}) /\ brk' = b
         /\ \E m \in {Moved(blocks[id], old, p)} \cup (IF sound THEN {} ELSE {mem}) : Outcome(p, m)
  BY Zenon DEF ValidRealloc
<1>5. PICK m \in {Moved(blocks[id], old, p)} \cup (IF sound THEN {} ELSE {mem}) : Outcome(p, m)
  BY <1>4
<1>6. Returns(p, n, b, Live \ {id}) /\ brk' = b /\ Outcome(p, m)
  BY <1>4, <1>5
<1>7. Lists(rest, Live \ {id}) /\ Spaced(rest, brk) /\ \A jd \in Live : block_sizes[jd] > 0
  <2>1. Lists(ranges, Live) /\ Spaced(ranges, brk)
    BY <1>2 DEF Checked
  <2>2. \A jd \in Live : block_sizes[jd] > 0
    BY <1>2 DEF Holds, Live
  <2>3. Live \in SUBSET Ids /\ brk \in Int
    BY <1>2, HeapFacts DEF Live, Types
  <2> HIDE DEF id
  <2> QED BY <1>2, <1>3, <2>1, <2>2, <2>3, RemoveKeeps
<1>8. old \in Nat /\ old <= n /\ old <= held[id] /\ block_sizes[id] = held[id]
  BY <1>2, <1>3 DEF Types, Holds
<1>9. DOMAIN m = 0..HeapSize-1 /\ (sound => m = Moved(blocks[id], old, p))
  BY <1>2, <1>5 DEF Types, Moved
<1> HIDE DEF rest, old
<1>10. sound => p # NULL /\ AddRange(rest, p, n) # << >>
  <2>1. Live \ {id} \in SUBSET Live /\ \A jd \in Live : block_sizes[jd] = held[jd]
    BY <1>2 DEF Holds
  <2> HIDE DEF id, n
  <2> QED BY <1>2, <1>3, <1>6, <1>7, <2>1, AddAccepts
<1>11. HeapSize \in Nat /\ brk \in Nat /\ brk' \in Nat /\ brk' <= HeapSize /\ p \in Int /\ (p # NULL => 0 <= p)
      /\ (sound => p + n <= brk' /\ \A jd \in Live \ {id} : ~Overlap(p, n, blocks[jd], held[jd]))
  BY <1>2, <1>6, Pointing, HeapFacts DEF Types, Returns
<1>12. sound => ReallocsHigh \/ Preserved(m, p, old, id)
  <2> SUFFICES ASSUME sound, ~ReallocsHigh PROVE Preserved(m, p, old, id)
    OBVIOUS
  <2>1. ~(id % (2 * Half) >= Half)
    BY <1>1 DEF ReallocsHigh, Request
  <2>2. Inside /\ Intact /\ 0 <= p /\ p + n <= HeapSize
    BY <1>2, <1>3, <1>10, <1>11 DEF Holds, Checked
  <2> HIDE DEF id, n
  <2> QED BY <1>2, <1>3, <1>8, <1>9, <1>11, <2>1, <2>2, MoveKeeps
<1>13. CASE p = NULL \/ AddRange(rest, p, n) = << >> \/ ~Preserved(m, p, old, id)
  <2>1. /\ errors' = errors + 1 /\ NextTrace
        /\ UNCHANGED <<numcorrect, mem, blocks, block_sizes, held, ranges>>
    BY <1>6, <1>13 DEF Refused, blockVars
  <2>2. /\ blocks' \in [Ids -> Int] /\ block_sizes' \in [Ids -> Nat] /\ held' \in [Ids -> Nat]
        /\ ranges' \in Seq(Extents) /\ total_size' \in Nat /\ max_total_size' \in Nat /\ brk' \in Breaks
    BY <1>1, <1>2, <1>6, <2>1 DEF Types
  <2>3. CheckInv'
    BY <1>1, <2>1, <2>2, RefusedStep
  <2>4. sound => ReallocsHigh
    BY <1>10, <1>12, <1>13
  <2>5. status' # "exited"
    BY <1>1
  <2> QED BY <2>3, <2>4, <2>5 DEF Quiet
<1>14. CASE ~(p = NULL \/ AddRange(rest, p, n) = << >> \/ ~Preserved(m, p, old, id))
  <2>1. /\ ranges' = AddRange(rest, p, n) /\ Remember(id, p, n) /\ Proceed
        /\ mem' = Filled(m, p, n, id) /\ UNCHANGED <<errors, numcorrect>> /\ p # NULL /\ 0 <= p
    BY <1>6, <1>11, <1>14 DEF resultVars
  <2>2. i' = i + 1 /\ phase' = "valid" /\ package' = "mm"
    BY <1>1, <2>1 DEF Proceed
  <2>3. Holds' /\ Live' = Live \cup {id} /\ brk <= brk'
    BY <1>1, <1>2, <1>6, <2>1, <2>2, Placed
  <2>4. Lists(ranges, Live)' /\ Spaced(ranges, brk)'
    <3>1. blocks' = [blocks EXCEPT ![id] = p] /\ block_sizes' = [block_sizes EXCEPT ![id] = n]
      BY <2>1 DEF Remember
    <3>2. Live \ {id} \in SUBSET Ids /\ id \in Ids \ (Live \ {id})
      BY <1>3 DEF Live
    <3>3. /\ AddRange(rest, p, n) # << >> /\ brk \in Int /\ brk' \in Int /\ brk <= brk'
          /\ ranges' = AddRange(rest, p, n) /\ p \in Int /\ n \in Nat /\ n > 0 /\ Types
      BY <1>2, <1>3, <1>11, <1>14, <2>1, <2>3
    <3>4. Live' = (Live \ {id}) \cup {id} /\ \A jd \in Live \ {id} : block_sizes[jd] > 0
      BY <1>7, <2>3
    <3> HIDE DEF id, n
    <3> QED BY <1>7, <3>1, <3>2, <3>3, <3>4, AddKeeps, Zenon
  <2>5. sound => Intact'
    <3> SUFFICES ASSUME sound PROVE Intact'
      OBVIOUS
    <3>1. Inside /\ Intact /\ p + n <= HeapSize
      BY <1>2, <1>3, <1>11 DEF Holds, Checked
    <3>2. ASSUME NEW jd \in Live \ {id}, NEW a \in blocks[jd]..blocks[jd]+held[jd]-1
          PROVE  m[a] = jd % (2 * Half)
      <4>1. blocks[jd] \in Int /\ held[jd] \in Nat /\ 0 <= blocks[jd] /\ blocks[jd] + held[jd] <= brk
        BY <1>2, <3>1 DEF Live, Types, Inside
      <4>2. a \in DOMAIN mem
        BY <1>2, <1>11, <2>3, <4>1 DEF Types
      <4>3. ~Overlap(p, n, blocks[jd], held[jd])
        BY <1>11
      <4>4. ~(p <= a /\ a < p + old)
        BY <1>3, <1>8, <1>11, <4>1, <4>3 DEF Overlap
      <4>5. m[a] = mem[a]
        BY <1>9, <4>2, <4>4, Zenon DEF Moved
      <4> QED BY <3>1, <4>5 DEF Intact
    <3>3. \A jd \in Live \ {id} : ~Overlap(p, n, blocks[jd], held[jd])
      BY <1>11
    <3> HIDE DEF id, n
    <3> QED BY <1>2, <1>3, <1>9, <1>11, <2>1, <2>3, <3>1, <3>2, <3>3, FillKeeps
  <2>6. Types' /\ Counted'
    <3>1. /\ blocks' \in [Ids -> Int] /\ block_sizes' \in [Ids -> Nat] /\ held' \in [Ids -> Nat]
      BY <1>2, <1>3, <1>11, <2>1, Remembered
    <3>2. ranges' \in Seq(Extents)
      BY <2>4 DEF Lists
    <3>3. DOMAIN mem' = 0..HeapSize-1 /\ total_size' \in Nat /\ max_total_size' \in Nat /\ brk' \in Breaks
      BY <1>1, <1>2, <1>6, <1>9, <2>1 DEF Types, Filled
    <3> QED BY <1>1, <2>1, <3>1, <3>2, <3>3, ProceedStep
  <2>7. Checked'
    BY <1>1, <2>4, <2>5 DEF Checked
  <2>8. ~Working("util")'
    BY <2>2 DEF Working
  <2> QED BY <1>1, <2>1, <2>3, <2>6, <2>7, <2>8 DEF CheckInv, Quiet
<1> QED BY <1>13, <1>14

\* The bytes after one id's block has changed.
LEMMA BytesChange ==
  ASSUME held \in [Ids -> Nat], held' \in [Ids -> Nat], NEW id \in Ids, \A jd \in Ids \ {id} : held'[jd] = held[jd],
         IsFiniteSet(BytesHeld)
  PROVE  /\ IsFiniteSet(BytesHeld') /\ Cardinality(BytesHeld) \in Nat
         /\ Cardinality(BytesHeld') = Cardinality(BytesHeld) - held[id] + held'[id]
<1> DEFINE A == Bytes(held, Ids \ {id})
<1>1. A \subseteq Bytes(held, Ids) /\ BytesHeld = Bytes(held, Ids)
  BY DEF Bytes, BytesHeld
<1>2. IsFiniteSet(A)
  <2> HIDE DEF A
  <2> QED BY <1>1, FS_Subset
<1>3. BytesHeld' = Bytes(held', Ids) /\ Bytes(held', Ids \ {id}) = A
  BY DEF Bytes, BytesHeld
<1>4. IsFiniteSet(Bytes(held, Ids)) /\ Cardinality(Bytes(held, Ids)) = Cardinality(A) + held[id]
  BY <1>2, BytesSplit
<1>5. IsFiniteSet(Bytes(held', Ids)) /\ Cardinality(Bytes(held', Ids)) = Cardinality(A) + held'[id]
  <2>1. IsFiniteSet(Bytes(held', Ids \ {id}))
    BY <1>2, <1>3
  <2> QED BY <1>3, <2>1, BytesSplit
<1>6. Cardinality(A) \in Nat /\ held[id] \in Nat /\ held'[id] \in Nat
  BY <1>2, FS_CardinalityType
<1> HIDE DEF A
<1>7. \A x \in Nat, y \in Nat, z \in Nat : x + y \in Nat /\ x + z = (x + y) - y + z
  OBVIOUS
<1>8. /\ Cardinality(A) + held[id] \in Nat
      /\ Cardinality(A) + held'[id] = (Cardinality(A) + held[id]) - held[id] + held'[id]
  BY <1>6, <1>7, Zenon
<1> QED BY <1>1, <1>3, <1>4, <1>5, <1>8, Zenon

\* The use of the heap after a call that is counted.
LEMMA Measures ==
  ASSUME CheckerAssumption, Types, Types', Measured, Holds', NEW id \in Ids, \A jd \in Ids \ {id} : held'[jd] = held[jd],
         total_size' = total_size - held[id] + held'[id], brk <= brk', UNCHANGED sound,
         \/ max_total_size' = IF total_size' > max_total_size THEN total_size' ELSE max_total_size
         \/ max_total_size' = max_total_size /\ held'[id] = 0
  PROVE  Measured'
<1>1. held \in [Ids -> Nat] /\ held' \in [Ids -> Nat] /\ blocks' \in [Ids -> Int] /\ brk \in Nat /\ brk' \in Nat
  BY HeapFacts DEF Types
<1>2. /\ IsFiniteSet(BytesHeld') /\ Cardinality(BytesHeld) \in Nat
      /\ Cardinality(BytesHeld') = Cardinality(BytesHeld) - held[id] + held'[id]
  BY <1>1, BytesChange DEF Measured
<1>3. total_size' = Cardinality(BytesHeld')
  BY <1>2 DEF Measured
<1>4. /\ total_size \in Nat /\ total_size' \in Nat /\ max_total_size \in Nat /\ max_total_size' \in Nat
      /\ held[id] \in Nat /\ held'[id] \in Nat /\ total_size <= max_total_size
  BY <1>1 DEF Types, Measured
<1>5. total_size' <= max_total_size' /\ (max_total_size' <= max_total_size \/ max_total_size' = total_size')
  BY <1>4
<1>6. sound => max_total_size' <= brk'
  <2> SUFFICES ASSUME sound PROVE max_total_size' <= brk'
    OBVIOUS
  <2>1. Apart' /\ Inside'
    BY DEF Holds
  <2>2. \A jd \in Ids : held'[jd] > 0 => 0 <= blocks'[jd] /\ blocks'[jd] + held'[jd] <= brk'
    BY <2>1 DEF Inside, Live
  <2>3. \A jd \in Ids, kd \in Ids : held'[jd] > 0 /\ held'[kd] > 0 /\ jd # kd =>
          ~Overlap(blocks'[jd], held'[jd], blocks'[kd], held'[kd])
    BY <2>1, Zenon DEF Apart, Live, Overlap
  <2>4. BytesHeld' = Bytes(held', Ids)
    BY DEF BytesHeld, Bytes
  <2>5. Cardinality(BytesHeld') <= brk'
    BY <1>1, <1>2, <2>2, <2>3, <2>4, BytesFit
  <2>6. max_total_size <= brk
    BY DEF Measured
  <2> QED BY <1>1, <1>3, <1>4, <1>5, <2>5, <2>6
<1> QED BY <1>2, <1>3, <1>5, <1>6 DEF Measured

\* A call of the evaluation that is counted, or refused.
LEMMA UtilCallStep ==
  ASSUME CheckerAssumption, CheckInv, status = "running", package = "mm", phase = "util", i \in 1..Len(trace.ops),
         UNCHANGED <<sound, trace, mem>>, Request.type # "f",
         NEW p \in Pointers, NEW b \in Breaks, Returns(p, Request.size, b, Live \ {Request.index}), brk' = b,
         IF p = NULL THEN AppError
         ELSE /\ Remember(Request.index, p, Request.size) /\ Proceed
              /\ Count(total_size - held[Request.index] + Request.size)
              /\ UNCHANGED <<ranges, resultVars, status>>
  PROVE  CheckInv' /\ Quiet
<1> DEFINE id == Request.index
           n == Request.size
<1>1. Types /\ Counted /\ Holds /\ Measured /\ phase \in ActivePhases
  <2>1. Working("util")
    <3>1. i > 0
      OBVIOUS
    <3> QED BY <3>1 DEF Working
  <2> QED BY <2>1 DEF CheckInv, ActivePhases
<1>2. id \in Ids /\ n \in Nat /\ n > 0
  BY <1>1, RequestFacts
<1>3. CASE p = NULL
  <2>1. /\ UNCHANGED <<phase, i, package, tracenum, errors, numcorrect, blocks, block_sizes, ranges>>
        /\ UNCHANGED <<total_size, max_total_size, held>> /\ ~sound
    BY <1>3 DEF AppError, resultVars, blockVars, sumVars, Returns
  <2>2. Types'
    BY <1>1, <2>1 DEF Types, ActivePhases
  <2>3. Counted'
    BY <1>1, <2>1 DEF Counted
  <2>4. Live' = Live /\ BytesHeld' = BytesHeld
    BY <2>1 DEF Live, BytesHeld
  <2>5. Holds' /\ Measured'
    BY <1>1, <2>1, <2>4 DEF Holds, Measured
  <2>6. ~Working("valid")'
    BY <2>1 DEF Working
  <2> QED BY <2>1, <2>2, <2>3, <2>5, <2>6 DEF CheckInv, Quiet
<1>4. CASE p # NULL
  <2>1. /\ Remember(id, p, n) /\ Proceed /\ Count(total_size - held[id] + n)
        /\ UNCHANGED <<ranges, errors, numcorrect, status>>
    BY <1>4 DEF resultVars
  <2>2. i' = i + 1 /\ phase' = "util" /\ package' = "mm"
    BY <2>1 DEF Proceed
  <2>3. Holds' /\ brk <= brk'
    BY <1>1, <1>4, <2>1, <2>2, Placed
  <2>4. p \in Int
    BY Pointing
  <2>5. /\ blocks' \in [Ids -> Int] /\ block_sizes' \in [Ids -> Nat] /\ held' \in [Ids -> Nat]
        /\ held'[id] = n /\ \A jd \in Ids \ {id} : held'[jd] = held[jd]
    BY <1>1, <1>2, <2>1, <2>4, Remembered
  <2>6. /\ total_size' = total_size - held[id] + held'[id]
        /\ max_total_size' = IF total_size' > max_total_size THEN total_size' ELSE max_total_size
    BY <2>1, <2>5 DEF Count
  <2>7. total_size' \in Nat /\ max_total_size' \in Nat
    <3>1. /\ Cardinality(BytesHeld') = Cardinality(BytesHeld) - held[id] + held'[id]
          /\ IsFiniteSet(BytesHeld')
      BY <1>1, <1>2, <2>5, BytesChange DEF Types, Measured
    <3>2. total_size' = Cardinality(BytesHeld')
      BY <1>1, <2>6, <3>1 DEF Measured
    <3>3. total_size' \in Nat
      BY <3>1, <3>2, FS_CardinalityType
    <3> QED BY <1>1, <2>6, <3>3 DEF Types
  <2>8. Types' /\ Counted'
    <3>1. ranges' \in Seq(Extents) /\ DOMAIN mem' = 0..HeapSize-1 /\ brk' \in Breaks
      BY <1>1, <2>1 DEF Types
    <3> QED BY <2>1, <2>5, <2>7, <3>1, ProceedStep
  <2>9. Measured'
    BY <1>1, <1>2, <2>3, <2>5, <2>6, <2>8, Measures
  <2>10. ~Working("valid")'
    BY <2>2 DEF Working
  <2> QED BY <2>1, <2>3, <2>8, <2>9, <2>10 DEF CheckInv, Quiet
<1> QED BY <1>3, <1>4

LEMMA UtilAllocStep ==
  ASSUME CheckerAssumption, CheckInv, status = "running", UtilAlloc
  PROVE  CheckInv' /\ Quiet
<1>1. /\ package = "mm" /\ phase = "util" /\ phase \in ActivePhases /\ i \in 1..Len(trace.ops)
      /\ Request.type = "a" /\ Request.type # "f" /\ UNCHANGED <<sound, trace, mem>>
  BY DEF UtilAlloc, Is, ActivePhases
<1>2. Types /\ Holds
  <2>1. Working("util")
    BY <1>1 DEF Working
  <2> QED BY <2>1 DEF CheckInv
<1>3. Request.index \in Ids /\ Request.index \notin Live /\ Request.size \in Nat
  BY <1>1, <1>2, RequestFacts DEF Holds
<1>4. held[Request.index] = 0 /\ Live \ {Request.index} = Live /\ total_size \in Nat
  <2>1. held[Request.index] \in Nat
    BY <1>2, <1>3 DEF Types
  <2> QED BY <1>2, <1>3, <2>1 DEF Live, Types
<1>5. total_size - held[Request.index] + Request.size = total_size + Request.size
  BY <1>3, <1>4
<1>6. PICK p \in Pointers, b \in Breaks :
        /\ Returns(p, Request.size, b, Live) /\ brk' = b
        /\ IF p = NULL THEN AppError
           ELSE /\ Remember(Request.index, p, Request.size) /\ Proceed
                /\ Count(total_size + Request.size) /\ UNCHANGED <<ranges, resultVars, status>>
  BY DEF UtilAlloc
<1> QED BY <1>1, <1>4, <1>5, <1>6, UtilCallStep

LEMMA UtilReallocStep ==
  ASSUME CheckerAssumption, CheckInv, status = "running", UtilRealloc
  PROVE  CheckInv' /\ Quiet
<1>1. /\ package = "mm" /\ phase = "util" /\ phase \in ActivePhases /\ i \in 1..Len(trace.ops)
      /\ Request.type = "r" /\ Request.type # "a" /\ Request.type # "f" /\ UNCHANGED <<sound, trace, mem>>
  BY DEF UtilRealloc, Is, ActivePhases
<1>2. Types /\ Holds
  <2>1. Working("util")
    BY <1>1 DEF Working
  <2> QED BY <2>1 DEF CheckInv
<1>3. Request.index \in Ids /\ Request.index \in Live /\ Request.size \in Nat
  BY <1>1, <1>2, RequestFacts DEF Holds
<1>4. block_sizes[Request.index] = held[Request.index] /\ held[Request.index] \in Nat /\ total_size \in Nat
  BY <1>2, <1>3 DEF Holds, Types
<1>5. total_size - held[Request.index] + Request.size = total_size + (Request.size - block_sizes[Request.index])
  BY <1>3, <1>4
<1>6. PICK p \in Pointers, b \in Breaks :
        /\ Returns(p, Request.size, b, Live \ {Request.index}) /\ brk' = b
        /\ IF p = NULL THEN AppError
           ELSE /\ Remember(Request.index, p, Request.size) /\ Proceed
                /\ Count(total_size + (Request.size - block_sizes[Request.index]))
                /\ UNCHANGED <<ranges, resultVars, status>>
  BY DEF UtilRealloc
<1> QED BY <1>1, <1>5, <1>6, UtilCallStep

LEMMA UtilFreeStep ==
  ASSUME CheckerAssumption, CheckInv, status = "running", UtilFree
  PROVE  CheckInv' /\ Quiet
<1> DEFINE id == Request.index
<1>1. /\ package = "mm" /\ phase = "util" /\ phase \in ActivePhases /\ i \in 1..Len(trace.ops)
      /\ Request.type = "f" /\ Request.type # "a" /\ held' = [held EXCEPT ![id] = 0] /\ Proceed
      /\ total_size' = total_size - block_sizes[id]
      /\ UNCHANGED <<sound, trace, blocks, block_sizes, ranges, max_total_size, errors, numcorrect>>
      /\ UNCHANGED <<brk, mem, status>>
  BY DEF UtilFree, Is, blockVars, resultVars, ActivePhases
<1>2. Types /\ Holds /\ Measured
  <2>1. Working("util")
    BY <1>1 DEF Working
  <2> QED BY <2>1 DEF CheckInv
<1>3. id \in Ids /\ id \in Live
  BY <1>1, <1>2, RequestFacts DEF Holds
<1>4. i' = i + 1 /\ phase' = "util" /\ package' = "mm"
  BY <1>1 DEF Proceed
<1>5. Holds' /\ held' \in [Ids -> Nat] /\ held'[id] = 0 /\ \A jd \in Ids \ {id} : held'[jd] = held[jd]
  BY <1>1, <1>2, <1>4, Freed
<1>6. total_size' = total_size - held[id] + held'[id]
  <2>1. block_sizes[id] = held[id] /\ held[id] \in Nat /\ total_size \in Nat
    BY <1>2, <1>3 DEF Holds, Types
  <2> QED BY <1>1, <1>5, <2>1
<1>7. total_size' \in Nat
  <2>1. Cardinality(BytesHeld') = Cardinality(BytesHeld) - held[id] + held'[id] /\ IsFiniteSet(BytesHeld')
    BY <1>2, <1>3, <1>5, BytesChange DEF Types, Measured
  <2>2. total_size' = Cardinality(BytesHeld')
    BY <1>2, <1>6, <2>1 DEF Measured
  <2> QED BY <2>1, <2>2, FS_CardinalityType
<1>8. Types' /\ Counted'
  <2>1. /\ blocks' \in [Ids -> Int] /\ block_sizes' \in [Ids -> Nat] /\ ranges' \in Seq(Extents)
        /\ DOMAIN mem' = 0..HeapSize-1 /\ max_total_size' \in Nat /\ brk' \in Breaks
    BY <1>1, <1>2 DEF Types
  <2> QED BY <1>1, <1>5, <1>7, <2>1, ProceedStep
<1>9. Measured'
  <2>1. brk <= brk' /\ max_total_size' = max_total_size
    BY <1>1, <1>2, HeapFacts DEF Types
  <2> QED BY <1>1, <1>2, <1>3, <1>5, <1>6, <1>8, <2>1, Measures
<1>10. ~Working("valid")'
  BY <1>4 DEF Working
<1> QED BY <1>1, <1>5, <1>8, <1>9, <1>10 DEF CheckInv, Quiet

LEMMA StutterStep == ASSUME CheckInv, UNCHANGED vars PROVE CheckInv'
<1>1. /\ UNCHANGED <<sound, phase, package, tracenum, trace, i, blocks, block_sizes, ranges>>
      /\ UNCHANGED <<total_size, max_total_size, errors, numcorrect, brk, mem, held, status>>
  BY DEF vars, traceVars, blockVars, sumVars, resultVars
<1>2. Types'
  BY <1>1 DEF CheckInv, Types
<1>3. Counted'
  BY <1>1 DEF CheckInv, Counted
<1>4. /\ Live' = Live /\ BytesHeld' = BytesHeld
      /\ Working("valid")' = Working("valid") /\ Working("util")' = Working("util")
  BY <1>1 DEF Live, BytesHeld, Working
<1>5. Holds => Holds'
  BY <1>1, <1>4 DEF Holds, Apart, Inside
<1>6. Checked => Checked'
  BY <1>1, <1>4 DEF Checked, Lists, Spaced, Extent, Intact
<1>7. Measured => Measured'
  BY <1>1, <1>4 DEF Measured
<1> QED BY <1>2, <1>3, <1>4, <1>5, <1>6, <1>7 DEF CheckInv

LEMMA CheckerStep ==
  ASSUME CheckerAssumption, CheckInv, Next
  PROVE  CheckInv' /\ Quiet
<1>1. status = "running"
  BY DEF Next
<1> QED
  BY <1>1, ReadStep, StartStep, FinishStep, ValidAllocStep, ValidReallocStep, ValidFreeStep,
     UtilAllocStep, UtilReallocStep, UtilFreeStep, SpeedStep, LibcValidStep, LibcSpeedStep, Zenon DEF Next

\* The invariant, in every state of the driver.
LEMMA CheckerInv == ASSUME CheckerAssumption PROVE Spec => []CheckInv
<1>1. Init => CheckInv
  BY InitStep
<1>2. CheckInv /\ [Next]_vars => CheckInv'
  BY CheckerStep, StutterStep
<1> QED BY <1>1, <1>2, PTL DEF Spec

-----------------------------------------------------------------------------
\* What the invariant says of the properties.

LEMMA ImpliesRangesKept == CheckInv => RangesKept
<1> SUFFICES ASSUME CheckInv, package = "mm" /\ phase = "valid" /\ i > 0
             PROVE  /\ Len(ranges) = Cardinality(Live)
                    /\ {ranges[k] : k \in 1..Len(ranges)} = {Extent(id) : id \in Live}
                    /\ \A k \in 1..Len(ranges) :
                         ranges[k].lo % Alignment = 0 /\ 0 <= ranges[k].lo /\ ranges[k].hi < brk
                    /\ \A j, k \in 1..Len(ranges) : j < k =>
                         \/ ranges[j].hi < ranges[k].lo \/ ranges[k].hi < ranges[j].lo
                         \/ ranges[j].lo < ranges[k].lo /\ ranges[k].hi < ranges[j].hi
  BY DEF RangesKept
<1>1. Lists(ranges, Live) /\ Spaced(ranges, brk)
  BY DEF CheckInv, Working, Checked
<1>2. {ranges[k] : k \in 1..Len(ranges)} = {Extent(id) : id \in Live}
  BY <1>1 DEF Lists
<1> QED BY <1>1, <1>2 DEF Lists, Spaced

LEMMA ImpliesUtilCounts == CheckInv => UtilCounts
<1> SUFFICES ASSUME CheckInv, phase = "util" /\ i > 0 PROVE Measured
  BY DEF UtilCounts, Measured
<1> QED BY DEF CheckInv, Types, Working

Honest ==
  /\ sound => (errors' = errors \/ ReallocsHigh) /\ status' # "exited"
  /\ phase' = "end" => errors' + numcorrect' = NumTraces

LEMMA StepIsHonest == ASSUME CheckerAssumption, CheckInv, Next PROVE Honest
<1>1. CheckInv' /\ Quiet
  BY CheckerStep
<1>2. phase' = "end" => errors' + numcorrect' = NumTraces
  <2> SUFFICES ASSUME phase' = "end" PROVE errors' + numcorrect' = NumTraces
    OBVIOUS
  <2>1. package' = "mm" /\ tracenum' = NumTraces /\ tracenum' \in Nat
    BY <1>1 DEF CheckInv, Counted, Types
  <2> QED BY <1>1, <2>1 DEF CheckInv, Counted
<1> QED BY <1>1, <1>2 DEF Quiet, Honest

-----------------------------------------------------------------------------
(***************************************************************************)
(* Whatever the allocator returns, the list of ranges is that of the       *)
(* blocks it has given out, and of two that overlap the later one encloses *)
(* the earlier one (add_range and remove_range).                           *)
(***************************************************************************)
THEOREM CheckerRangesKept == ASSUME CheckerAssumption PROVE Spec => []RangesKept
BY ImpliesRangesKept, CheckerInv, PTL

(***************************************************************************)
(* The utilisation is computed from the bytes that are allocated, and with *)
(* an allocator that keeps its contract it never exceeds one               *)
(* (eval_mm_util).                                                         *)
(***************************************************************************)
THEOREM CheckerUtilCounts == ASSUME CheckerAssumption PROVE Spec => []UtilCounts
BY ImpliesUtilCounts, CheckerInv, PTL

(***************************************************************************)
(* An allocator that keeps its contract is never reported, except by the   *)
(* check of a realloc of an index whose byte is negative as a char         *)
(* (mdriver.c:656), and at the end every trace has been counted.           *)
(***************************************************************************)
THEOREM CheckerNoFalseAlarm == ASSUME CheckerAssumption PROVE Spec => NoFalseAlarm
<1>1. CheckInv /\ [Next]_vars => [Honest]_vars
  BY StepIsHonest
<1>2. Spec => [][Honest]_vars
  BY <1>1, CheckerInv, PTL DEF Spec
<1> QED BY <1>2 DEF NoFalseAlarm, Honest
=============================================================================
