----------------------------- MODULE Week5Proofs -----------------------------
(***************************************************************************)
(* What is proved about week 5.  For every heap size, chunk size and set   *)
(* of request sizes, the blocks tile the heap and no two free ones are     *)
(* adjacent; from CheckerProofs, what the driver of the lab checks and     *)
(* counts; and what its timer measures.                                    *)
(*                                                                         *)
(* A set of blocks is sound when it tiles [First, t) and its free blocks   *)
(* are apart.  Each operation on sets of blocks keeps that: Merge of a     *)
(* free block that completes a tiling, Place in a free block, growth at    *)
(* the end, and so a whole request and the release of a block.             *)
(***************************************************************************)
EXTENDS MCWeek5, SequenceTheorems, FiniteSetTheorems, TLAPS

CheckerP == INSTANCE CheckerProofs WITH blocks <- payloads

Sound(bs, t) == bs \subseteq Block /\ t \in Nat /\ Tiles(bs, t) /\ Separate(bs)

\* The inductive invariant.
IInv == Sound(blocks, top) /\ top <= Limit

-----------------------------------------------------------------------------
(* The blocks next to a free block *)

\* In a tiling at most one block ends at a place, and at most one starts there.
LEMMA OneNeighbour ==
  ASSUME NEW bs, bs \subseteq Block, Sized(bs), Disjoint(bs), NEW b \in bs, NEW c \in bs,
         End(b) = End(c) \/ b.at = c.at
  PROVE  b = c
BY DEF Block, Sized, Disjoint, End, MinSize

\* Where the merged block starts and ends, and which blocks it replaces.
LEMMA JoinedShape ==
  ASSUME NEW bs, NEW b, b \notin bs, bs \cup {b} \subseteq Block, ~b.used,
         Sized(bs \cup {b}), Disjoint(bs \cup {b})
  PROVE  /\ Joined(bs, b) \in Block /\ ~Joined(bs, b).used
         /\ \/ Left(bs, b) = {} /\ Joined(bs, b).at = b.at
            \/ \E l \in bs : Left(bs, b) = {l} /\ ~l.used /\ End(l) = b.at /\ Joined(bs, b).at = l.at
         /\ \/ Right(bs, b) = {} /\ End(Joined(bs, b)) = End(b)
            \/ \E r \in bs : /\ Right(bs, b) = {r} /\ ~r.used /\ r.at = End(b)
                             /\ End(Joined(bs, b)) = End(r)
<1> DEFINE j == Joined(bs, b)
<1> DEFINE left == Left(bs, b)
<1> DEFINE right == Right(bs, b)
<1> DEFINE start == IF left = {} THEN b.at ELSE (CHOOSE c \in left : TRUE).at
<1> DEFINE end == IF right = {} THEN End(b) ELSE End(CHOOSE c \in right : TRUE)
<1>1. j = [at |-> start, size |-> end - start, used |-> FALSE]
  BY DEF Joined
<1>2. \/ left = {} /\ start = b.at
      \/ \E l \in bs : left = {l} /\ ~l.used /\ End(l) = b.at /\ start = l.at
  <2>1. CASE left = {}
    BY <2>1
  <2>2. CASE left # {}
    <3>1. PICK l \in left : TRUE
      BY <2>2
    <3>2. l \in bs /\ ~l.used /\ End(l) = b.at
      BY <3>1 DEF Left
    <3>3. left = {l}
      <4>1. SUFFICES ASSUME NEW c \in left PROVE c = l
        BY <3>1
      <4>2. c \in bs /\ End(c) = End(l)
        BY <3>2 DEF Left
      <4> HIDE DEF left
      <4> QED
        BY <3>2, <4>2, OneNeighbour DEF Sized, Disjoint
    <3> QED
      BY <3>2, <3>3
  <2> QED
    BY <2>1, <2>2
<1>3. \/ right = {} /\ end = End(b)
      \/ \E r \in bs : right = {r} /\ ~r.used /\ r.at = End(b) /\ end = End(r)
  <2>1. CASE right = {}
    BY <2>1
  <2>2. CASE right # {}
    <3>1. PICK r \in right : TRUE
      BY <2>2
    <3>2. r \in bs /\ ~r.used /\ r.at = End(b)
      BY <3>1 DEF Right
    <3>3. right = {r}
      <4>1. SUFFICES ASSUME NEW c \in right PROVE c = r
        BY <3>1
      <4>2. c \in bs /\ c.at = r.at
        BY <3>2 DEF Right
      <4> HIDE DEF right
      <4> QED
        BY <3>2, <4>2, OneNeighbour DEF Sized, Disjoint
    <3> QED
      BY <3>2, <3>3
  <2> QED
    BY <2>1, <2>2
<1> HIDE DEF left, right, start, end
<1>4. start \in Nat /\ end \in Nat /\ start <= b.at /\ End(b) <= end
  BY <1>2, <1>3 DEF Block, End
<1>5. end - start \in Nat
  BY <1>4 DEF Block, End
<1>6. j \in Block /\ ~j.used /\ j.at = start /\ End(j) = end
  BY <1>1, <1>4, <1>5 DEF Block, End
<1> QED
  BY <1>2, <1>3, <1>6 DEF left, right

-----------------------------------------------------------------------------
(* The operations on sets of blocks *)

\* A free block that completes a tiling is merged with its neighbours.
LEMMA MergeSound ==
  ASSUME NEW bs, NEW b, NEW t \in Nat, b \notin bs, bs \cup {b} \subseteq Block, ~b.used,
         Tiles(bs \cup {b}, t), Separate(bs)
  PROVE  Sound(Merge(bs, b), t)
<1> DEFINE j == Joined(bs, b)
<1> DEFINE rest == bs \ (Left(bs, b) \cup Right(bs, b))
<1>0. Sized(bs \cup {b}) /\ Disjoint(bs \cup {b}) /\ Within(bs \cup {b}, t) /\ Covering(bs \cup {b}, t)
  BY DEF Tiles
<1>1. /\ j \in Block /\ ~j.used
      /\ \/ Left(bs, b) = {} /\ j.at = b.at
         \/ \E l \in bs : Left(bs, b) = {l} /\ ~l.used /\ End(l) = b.at /\ j.at = l.at
      /\ \/ Right(bs, b) = {} /\ End(j) = End(b)
         \/ \E r \in bs : Right(bs, b) = {r} /\ ~r.used /\ r.at = End(b) /\ End(j) = End(r)
  BY <1>0, JoinedShape
<1>2. Merge(bs, b) = rest \cup {j}
  BY DEF Merge
<1>3. rest \subseteq bs
  OBVIOUS
<1>4. \A c \in rest : /\ ~c.used => End(c) # b.at /\ c.at # End(b)
                      /\ c # b
  BY DEF Left, Right
<1>5. j.at <= b.at /\ End(b) <= End(j)
  BY <1>1 DEF Block, End
<1>6. Sized(rest \cup {j})
  <2>1. j.size >= MinSize /\ j.at % Align = 0 /\ j.size % Align = 0
    <3>1. j.at % Align = 0 /\ End(j) % Align = 0
      BY <1>0, <1>1 DEF Sized, Block, End, Align
    <3>2. j.at \in Nat /\ j.size \in Nat
      BY <1>1 DEF Block
    <3> QED
      BY <1>0, <1>5, <3>1, <3>2 DEF Sized, Block, End, Align, MinSize
  <2> QED
    BY <1>0, <1>3, <2>1 DEF Sized
<1>7. \A c \in rest : End(c) <= j.at \/ End(j) <= c.at
  <2> SUFFICES ASSUME NEW c \in rest PROVE End(c) <= j.at \/ End(j) <= c.at
    OBVIOUS
  <2>1. End(c) <= b.at \/ End(b) <= c.at
    BY <1>0, <1>3, <1>4 DEF Disjoint
  <2>2. End(c) <= b.at => End(c) <= j.at
    <3>1. CASE Left(bs, b) = {} /\ j.at = b.at
      BY <3>1
    <3>2. CASE \E l \in bs : Left(bs, b) = {l} /\ ~l.used /\ End(l) = b.at /\ j.at = l.at
      <4>1. PICK l \in bs : Left(bs, b) = {l} /\ ~l.used /\ End(l) = b.at /\ j.at = l.at
        BY <3>2
      <4>2. c # l /\ c \in bs
        BY <4>1
      <4>3. End(c) <= l.at \/ End(l) <= c.at
        BY <1>0, <4>2 DEF Disjoint
      <4> QED
        BY <1>0, <4>1, <4>2, <4>3 DEF Sized, Block, End, MinSize
    <3> QED
      BY <1>1, <3>1, <3>2
  <2>3. End(b) <= c.at => End(j) <= c.at
    <3>1. CASE Right(bs, b) = {} /\ End(j) = End(b)
      BY <3>1
    <3>2. CASE \E r \in bs : Right(bs, b) = {r} /\ ~r.used /\ r.at = End(b) /\ End(j) = End(r)
      <4>1. PICK r \in bs : Right(bs, b) = {r} /\ ~r.used /\ r.at = End(b) /\ End(j) = End(r)
        BY <3>2
      <4>2. c # r /\ c \in bs
        BY <4>1
      <4>3. End(c) <= r.at \/ End(r) <= c.at
        BY <1>0, <4>2 DEF Disjoint
      <4> QED
        BY <1>0, <4>1, <4>2, <4>3 DEF Sized, Block, End, MinSize
    <3> QED
      BY <1>1, <3>1, <3>2
  <2> QED
    BY <2>1, <2>2, <2>3
<1>8. Disjoint(rest \cup {j})
  BY <1>0, <1>3, <1>7 DEF Disjoint
<1>9. Within(rest \cup {j}, t)
  BY <1>0, <1>1, <1>3 DEF Within
<1>10. Covering(rest \cup {j}, t)
  <2>2. \E y \in rest \cup {j} : y.at = First
    <3>1. PICK x \in bs \cup {b} : x.at = First
      BY <1>0 DEF Covering
    <3>2. First <= j.at /\ First \in Nat
      BY <1>9, BlockHeapAssumption DEF Within
    <3>3. x \in rest \/ x = b \/ x \in Left(bs, b) \/ x \in Right(bs, b)
      OBVIOUS
    <3>4. x = b => j.at = First
      BY <1>1, <1>5, <3>1, <3>2 DEF Block
    <3>5. x \in Left(bs, b) => j.at = First
      BY <1>1, <3>1
    <3>6. x \notin Right(bs, b)
      BY <1>0, <3>1 DEF Right, Within, Sized, Block, End, MinSize
    <3> QED
      BY <3>1, <3>3, <3>4, <3>5, <3>6
  <2>4. \E y \in rest \cup {j} : End(y) = t
    <3>1. PICK x \in bs \cup {b} : End(x) = t
      BY <1>0 DEF Covering
    <3>2. End(j) <= t /\ End(j) \in Nat /\ j.at \in Nat
      BY <1>1, <1>9 DEF Within, Block, End
    <3>3. x \in rest \/ x = b \/ x \in Left(bs, b) \/ x \in Right(bs, b)
      OBVIOUS
    <3>4. x = b => End(j) = t
      BY <1>5, <3>1, <3>2
    <3>5. x \in Right(bs, b) => End(j) = t
      BY <1>1, <3>1
    <3>6. x \notin Left(bs, b)
      BY <1>0, <3>1 DEF Left, Within, Sized, Block, End, MinSize
    <3> QED
      BY <3>1, <3>3, <3>4, <3>5, <3>6
  <2>3. ASSUME NEW x \in rest \cup {j} PROVE End(x) = t \/ \E y \in rest \cup {j} : y.at = End(x)
    <3>1. PICK z \in bs \cup {b} : End(z) = End(x) /\ (x = j => z = b \/ z \in Right(bs, b)) /\ (x # j => z = x)
      BY <1>1
    <3>2. CASE End(z) = t
      BY <3>1, <3>2
    <3>3. CASE \E y \in bs \cup {b} : y.at = End(z)
      <4>1. PICK y \in bs \cup {b} : y.at = End(z)
        BY <3>3
      <4>2. CASE y = b
        <5>1. x # j /\ x = z
          BY <1>1, <1>5, <3>1, <4>1, <4>2, <1>0 DEF Right, Block, End, Sized, MinSize
        <5>2. x \in bs /\ x \notin Left(bs, b) /\ End(x) = b.at
          BY <3>1, <4>1, <4>2, <5>1
        <5>3. Left(bs, b) = {}
          <6>1. \A l \in Left(bs, b) : l \in bs /\ End(l) = b.at
            BY DEF Left
          <6> QED
            BY <1>0, <5>2, <6>1, OneNeighbour
        <5>4. j.at = b.at
          BY <1>1, <5>3
        <5> QED
          BY <5>2, <5>4
      <4>3. CASE y \in Left(bs, b)
        BY <1>1, <3>1, <4>1, <4>3
      <4>4. CASE y \in Right(bs, b)
        <5>1. PICK r \in bs : Right(bs, b) = {r} /\ r.at = End(b) /\ End(j) = End(r)
          BY <1>1, <4>4
        <5>2. y = r
          BY <4>4, <5>1
        <5>3. CASE x = j
          BY <1>0, <3>1, <4>1, <5>1, <5>2, <5>3 DEF Sized, Block, End, MinSize
        <5>4. CASE x # j
          <6>1. x \in bs /\ x # b /\ End(x) = End(b)
            BY <1>4, <3>1, <4>1, <5>1, <5>2, <5>4
          <6> QED
            BY <1>0, <6>1, OneNeighbour
        <5> QED
          BY <5>3, <5>4
      <4>5. CASE y \in rest
        BY <3>1, <4>1, <4>5
      <4> QED
        BY <4>2, <4>3, <4>4, <4>5
    <3> QED
      BY <1>0, <3>2, <3>3, <3>1 DEF Covering
  <2> QED
    BY <2>2, <2>3, <2>4 DEF Covering
<1>11. ASSUME NEW c \in rest, ~c.used
       PROVE  End(c) # j.at /\ End(j) # c.at
  <2>1. End(c) # j.at
    <3>1. CASE Left(bs, b) = {}
      BY <1>1, <1>4, <1>11, <3>1
    <3>2. CASE Left(bs, b) # {}
      BY <1>1, <1>3, <1>11, <3>2 DEF Separate
    <3> QED
      BY <3>1, <3>2
  <2>2. End(j) # c.at
    <3>1. CASE Right(bs, b) = {}
      BY <1>1, <1>4, <1>11, <3>1
    <3>2. CASE Right(bs, b) # {}
      BY <1>1, <1>3, <1>11, <3>2 DEF Separate
    <3> QED
      BY <3>1, <3>2
  <2> QED
    BY <2>1, <2>2
<1>12. End(j) # j.at
  BY <1>0, <1>1, <1>5 DEF Sized, Block, End, MinSize
<1>13. Separate(rest \cup {j})
  BY <1>3, <1>11, <1>12 DEF Separate
<1>14. rest \cup {j} \subseteq Block
  BY <1>1
<1> HIDE DEF j, rest
<1> QED
  BY <1>2, <1>6, <1>8, <1>9, <1>10, <1>13, <1>14 DEF Sound, Tiles

\* Giving back a used block: its extent does not change, then it is merged.
LEMMA ReleaseSound ==
  ASSUME NEW bs, NEW t, Sound(bs, t), NEW b \in bs, b.used
  PROVE  Sound(Release(bs, b), t)
<1> DEFINE f == [b EXCEPT !.used = FALSE]
<1> DEFINE rest == bs \ {b}
<1>1. /\ bs \subseteq Block /\ t \in Nat /\ Separate(bs)
      /\ Sized(bs) /\ Disjoint(bs) /\ Within(bs, t) /\ Covering(bs, t)
  BY DEF Sound, Tiles
<1>2. f \in Block /\ ~f.used /\ f.at = b.at /\ f.size = b.size /\ End(f) = End(b)
  BY <1>1 DEF Block, End
<1> HIDE DEF f
<1>3. f \notin rest
  BY <1>1, <1>2, OneNeighbour
<1>4. Tiles(rest \cup {f}, t)
  <2>1. Sized(rest \cup {f})
    BY <1>1, <1>2 DEF Sized
  <2>2. Disjoint(rest \cup {f})
    BY <1>1, <1>2 DEF Disjoint
  <2>3. Within(rest \cup {f}, t)
    BY <1>1, <1>2 DEF Within
  <2>4. Covering(rest \cup {f}, t)
    <3>1. \A x \in bs : \E y \in rest \cup {f} : y.at = x.at
      BY <1>2
    <3>2. \A y \in rest \cup {f} : \E x \in bs : End(y) = End(x)
      BY <1>2
    <3>3. \A x \in bs : \E y \in rest \cup {f} : End(y) = End(x)
      BY <1>2
    <3> QED
      BY <1>1, <3>1, <3>2, <3>3 DEF Covering
  <2> QED
    BY <2>1, <2>2, <2>3, <2>4 DEF Tiles
<1>5. Separate(rest)
  BY <1>1 DEF Separate
<1>6. rest \cup {f} \subseteq Block
  BY <1>1, <1>2
<1>7. Sound(Merge(rest, f), t)
  BY <1>1, <1>2, <1>3, <1>4, <1>5, <1>6, MergeSound
<1> QED
  BY <1>7 DEF Release, f, rest

\* A request takes a free block that is large enough, and no used one.
LEMMA PlaceSound ==
  ASSUME NEW bs, NEW t, Sound(bs, t), NEW b \in bs, ~b.used,
         NEW n \in Nat, n >= MinSize, n % Align = 0, n <= b.size
  PROVE  /\ Sound(Place(bs, b, n), t)
         /\ \A c \in bs : c.used => c \in Place(bs, b, n)
<1> DEFINE rest == bs \ {b}
<1> DEFINE whole == [b EXCEPT !.used = TRUE]
<1> DEFINE u == [at |-> b.at, size |-> n, used |-> TRUE]
<1> DEFINE f == [at |-> b.at + n, size |-> b.size - n, used |-> FALSE]
<1>1. /\ bs \subseteq Block /\ t \in Nat /\ Separate(bs)
      /\ Sized(bs) /\ Disjoint(bs) /\ Within(bs, t) /\ Covering(bs, t)
  BY DEF Sound, Tiles
<1>2. CASE b.size - n < MinSize
  <2>1. Place(bs, b, n) = rest \cup {whole}
    BY <1>1, <1>2 DEF Place, Split, MinSize, Block
  <2>2. whole \in Block /\ whole.used /\ whole.at = b.at /\ whole.size = b.size /\ End(whole) = End(b)
    BY <1>1 DEF Block, End
  <2> HIDE DEF whole
  <2>3. Sized(rest \cup {whole})
    BY <1>1, <2>2 DEF Sized
  <2>4. Disjoint(rest \cup {whole})
    BY <1>1, <2>2 DEF Disjoint
  <2>5. Within(rest \cup {whole}, t)
    BY <1>1, <2>2 DEF Within
  <2>6. Covering(rest \cup {whole}, t)
    <3>1. \A x \in bs : \E y \in rest \cup {whole} : y.at = x.at
      BY <2>2
    <3>2. \A y \in rest \cup {whole} : \E x \in bs : End(y) = End(x)
      BY <2>2
    <3>3. \A x \in bs : \E y \in rest \cup {whole} : End(y) = End(x)
      BY <2>2
    <3> QED
      BY <1>1, <3>1, <3>2, <3>3 DEF Covering
  <2>7. Separate(rest \cup {whole})
    BY <1>1, <2>2 DEF Separate
  <2> QED
    BY <1>1, <2>1, <2>2, <2>3, <2>4, <2>5, <2>6, <2>7 DEF Sound, Tiles
<1>3. CASE b.size - n >= MinSize
  <2>1. Place(bs, b, n) = rest \cup {u, f}
    BY <1>3 DEF Place, Split
  <2>2. /\ u \in Block /\ u.used /\ u.at = b.at /\ u.size = n /\ End(u) = f.at
        /\ f \in Block /\ ~f.used /\ f.at = b.at + n /\ f.size = b.size - n /\ End(f) = End(b)
    BY <1>1, <1>3 DEF Block, End, MinSize
  <2>3. b \in Block /\ b.at % Align = 0 /\ b.size % Align = 0
    BY <1>1 DEF Sized
  <2> HIDE DEF u, f
  <2>4. Sized(rest \cup {u, f})
    <3>1. u.size >= MinSize /\ u.at % Align = 0 /\ u.size % Align = 0
      BY <2>2, <2>3
    <3>2. f.size >= MinSize /\ f.at % Align = 0 /\ f.size % Align = 0
      BY <1>3, <2>2, <2>3 DEF Block, Align, MinSize
    <3> QED
      BY <1>1, <3>1, <3>2 DEF Sized
  <2>5. Disjoint(rest \cup {u, f})
    <3>1. \A c \in rest : End(c) <= b.at \/ End(b) <= c.at
      BY <1>1 DEF Disjoint
    <3>2. b.at <= f.at /\ f.at <= End(b)
      BY <1>3, <2>2, <2>3 DEF Block, End, MinSize
    <3>3. \A c \in rest : \A d \in {u, f} : End(c) <= d.at \/ End(d) <= c.at
      BY <1>1, <2>2, <2>3, <3>1, <3>2 DEF Block, End
    <3>4. End(u) <= f.at
      BY <2>2 DEF Block, End
    <3>5. \A c, d \in rest : c # d => End(c) <= d.at \/ End(d) <= c.at
      BY <1>1 DEF Disjoint
    <3> HIDE DEF rest
    <3> SUFFICES ASSUME NEW c \in rest \cup {u, f}, NEW d \in rest \cup {u, f}, c # d
                 PROVE  End(c) <= d.at \/ End(d) <= c.at
      BY DEF Disjoint
    <3>6. CASE c \in rest /\ d \in rest
      BY <3>5, <3>6
    <3>7. CASE c \in rest /\ d \in {u, f}
      BY <3>3, <3>7
    <3>8. CASE c \in {u, f} /\ d \in rest
      BY <3>3, <3>8
    <3>9. CASE c \in {u, f} /\ d \in {u, f}
      BY <3>4, <3>9
    <3> QED
      BY <3>6, <3>7, <3>8, <3>9
  <2>6. Within(rest \cup {u, f}, t)
    <3>1. First <= b.at /\ End(b) <= t
      BY <1>1 DEF Within
    <3>2. First <= u.at /\ End(u) <= t /\ First <= f.at /\ End(f) <= t
      BY <1>1, <2>2, <2>3, <3>1, <1>3, BlockHeapAssumption DEF Block, End, MinSize
    <3> QED
      BY <1>1, <3>2 DEF Within
  <2>7. Covering(rest \cup {u, f}, t)
    <3>1. \A x \in bs : \E y \in rest \cup {u, f} : y.at = x.at
      BY <2>2
    <3>2. \A y \in rest \cup {u, f} : y = u \/ \E x \in bs : End(y) = End(x)
      BY <2>2
    <3>3. \A x \in bs : \E y \in rest \cup {u, f} : End(y) = End(x)
      BY <2>2
    <3>4. End(u) = f.at
      BY <2>2
    <3> QED
      BY <1>1, <3>1, <3>2, <3>3, <3>4 DEF Covering
  <2>8. Separate(rest \cup {u, f})
    <3>1. \A c \in rest : ~c.used => End(f) # c.at
      BY <1>1, <2>2 DEF Separate
    <3>2. \A c \in rest : End(c) # f.at
      BY <1>1, <1>3, <2>2, <2>3 DEF Disjoint, Sized, Block, End, MinSize
    <3>3. End(f) # f.at
      BY <1>3, <2>2, <2>3 DEF Block, End, MinSize
    <3> QED
      BY <1>1, <2>2, <3>1, <3>2, <3>3 DEF Separate
  <2> QED
    BY <1>1, <2>1, <2>2, <2>4, <2>5, <2>6, <2>7, <2>8 DEF Sound, Tiles
<1>4. b \in Block /\ b.size - n \in Int
  BY <1>1 DEF Block
<1> QED
  BY <1>2, <1>3, <1>4 DEF MinSize

\* The heap grows by a free block, and the block that now ends it is free and
\* at least as large.
LEMMA GrownSound ==
  ASSUME NEW bs, NEW t, Sound(bs, t), NEW n \in Sizes
  PROVE  /\ Sound(Grown(bs, t, n), t + Growth(n))
         /\ \A c \in bs : c.used => c \in Grown(bs, t, n)
         /\ \A c \in Grown(bs, t, n) : End(c) = t + Growth(n) => ~c.used /\ n <= c.size
<1> DEFINE g == Growth(n)
<1> DEFINE new == [at |-> t, size |-> g, used |-> FALSE]
<1> DEFINE j == Joined(bs, new)
<1>1. /\ bs \subseteq Block /\ t \in Nat /\ Separate(bs)
      /\ Sized(bs) /\ Disjoint(bs) /\ Within(bs, t) /\ Covering(bs, t)
  BY DEF Sound, Tiles
<1>2. n \in Nat /\ n >= MinSize /\ n % Align = 0
  BY BlockHeapAssumption
<1>3. g \in Nat /\ g >= n /\ g >= MinSize /\ g % Align = 0
  BY <1>2, BlockHeapAssumption DEF Growth, MinSize
<1> HIDE DEF g
<1>4. new \in Block /\ ~new.used /\ new.at = t /\ new.size = g /\ End(new) = t + g
  BY <1>1, <1>3 DEF Block, End
<1> HIDE DEF new
<1>5. \A c \in bs : c.at < t /\ End(c) <= t /\ End(c) # c.at
  BY <1>1 DEF Within, Sized, Block, End, MinSize
<1>6. new \notin bs
  BY <1>4, <1>5, <1>1
<1>7. t % Align = 0
  <2>1. PICK e \in bs : End(e) = t
    BY <1>1 DEF Covering
  <2> QED
    BY <1>1, <2>1 DEF Sized, Block, End, Align
<1>8. Tiles(bs \cup {new}, t + g)
  <2>1. Sized(bs \cup {new})
    BY <1>1, <1>3, <1>4, <1>7 DEF Sized
  <2>2. Disjoint(bs \cup {new})
    BY <1>1, <1>4, <1>5 DEF Disjoint
  <2>3. Within(bs \cup {new}, t + g)
    <3>1. First <= t
      BY <1>1, BlockHeapAssumption DEF Within, Covering, Block, End
    <3> QED
      BY <1>1, <1>3, <1>4, <3>1 DEF Within, Block, End
  <2>4. Covering(bs \cup {new}, t + g)
    BY <1>1, <1>4 DEF Covering
  <2> QED
    BY <2>1, <2>2, <2>3, <2>4 DEF Tiles
<1>9. bs \cup {new} \subseteq Block /\ t + g \in Nat
  BY <1>1, <1>3, <1>4
<1>10. Grown(bs, t, n) = Merge(bs, new)
  BY DEF Grown, new, g
<1>11. Sound(Merge(bs, new), t + g)
  BY <1>1, <1>4, <1>6, <1>8, <1>9, MergeSound
<1>12. j \in Block /\ ~j.used /\ j.at <= t /\ End(j) = t + g
  <2>1. Right(bs, new) = {}
    BY <1>1, <1>3, <1>4, <1>5 DEF Right, Block
  <2>2. Sized(bs \cup {new}) /\ Disjoint(bs \cup {new})
    BY <1>8 DEF Tiles
  <2>3. /\ j \in Block /\ ~j.used
        /\ \/ j.at = new.at
           \/ \E l \in bs : j.at = l.at
        /\ End(j) = End(new)
    BY <1>4, <1>6, <1>9, <2>1, <2>2, JoinedShape
  <2> QED
    BY <1>1, <1>4, <1>5, <2>3 DEF Block
<1>13. j \in Merge(bs, new)
  BY DEF Merge
<1>14. ASSUME NEW c \in Merge(bs, new), End(c) = t + g PROVE ~c.used /\ n <= c.size
  <2>1. c = j
    BY <1>11, <1>12, <1>13, <1>14, OneNeighbour DEF Sound, Tiles
  <2>2. n <= j.size
    BY <1>1, <1>2, <1>3, <1>12 DEF Block, End
  <2> QED
    BY <1>12, <2>1, <2>2
<1>15. \A c \in bs : c.used => c \in Merge(bs, new)
  BY DEF Merge, Left, Right
<1> QED
  BY <1>10, <1>11, <1>14, <1>15 DEF g

\* A request that succeeds leaves a sound heap and every used block as it was.
LEMMA AllocationSound ==
  ASSUME NEW bs, NEW t, Sound(bs, t), t <= Limit, NEW n \in Sizes,
         NEW a \in Allocations(bs, t, n)
  PROVE  /\ Sound(a[1], a[2]) /\ a[2] <= Limit
         /\ \A c \in bs : c.used => c \in a[1]
<1>1. n \in Nat /\ n >= MinSize /\ n % Align = 0
  BY BlockHeapAssumption
<1>2. CASE Fits(bs, n) # {}
  <2>1. PICK b \in Best(bs, n) : a = <<Place(bs, b, n), t>>
    BY <1>2 DEF Allocations
  <2>2. b \in bs /\ ~b.used /\ n <= b.size
    BY <2>1 DEF Best, Fits
  <2> QED
    BY <1>1, <2>1, <2>2, PlaceSound
<1>3. CASE Fits(bs, n) = {}
  <2> DEFINE gs == Grown(bs, t, n)
  <2> DEFINE top1 == t + Growth(n)
  <2>1. top1 <= Limit /\ \E b \in {c \in gs : End(c) = top1} : a = <<Place(gs, b, n), top1>>
    BY <1>3 DEF Allocations
  <2>2. PICK b \in gs : End(b) = top1 /\ a = <<Place(gs, b, n), top1>>
    BY <2>1
  <2>3. /\ Sound(gs, top1) /\ ~b.used /\ n <= b.size
        /\ \A c \in bs : c.used => c \in gs
    BY <2>2, GrownSound
  <2> HIDE DEF gs, top1
  <2>4. /\ Sound(Place(gs, b, n), top1)
        /\ \A c \in gs : c.used => c \in Place(gs, b, n)
    BY <1>1, <2>2, <2>3, PlaceSound
  <2> QED
    BY <2>1, <2>2, <2>3, <2>4
<1> QED
  BY <1>2, <1>3

-----------------------------------------------------------------------------

LEMMA FirstBlockSound ==
  First + Chunk <= Limit =>
    Sound({[at |-> First, size |-> Chunk, used |-> FALSE]}, First + Chunk)
<1> DEFINE b == [at |-> First, size |-> Chunk, used |-> FALSE]
<1>1. b \in Block /\ b.at = First /\ b.size = Chunk /\ End(b) = First + Chunk
  BY BlockHeapAssumption DEF Block, End
<1> HIDE DEF b
<1>2. Tiles({b}, First + Chunk)
  BY <1>1, BlockHeapAssumption DEF Tiles, Sized, Disjoint, Within, Covering
<1>3. Separate({b})
  BY <1>1, BlockHeapAssumption DEF Separate, MinSize
<1>4. First + Chunk \in Nat
  BY BlockHeapAssumption
<1> QED
  BY <1>1, <1>2, <1>3, <1>4 DEF Sound, b

\* Reset starts a heap of the size Init started.
LEMMA InvariantInductive ==
  /\ Init => IInv /\ First + Chunk <= Limit
  /\ IInv /\ First + Chunk <= Limit /\ [Next]_vars => IInv'
<1>1. Init => IInv /\ First + Chunk <= Limit
  BY FirstBlockSound DEF Init, IInv
<1>2. ASSUME IInv, First + Chunk <= Limit, [Next]_vars
      PROVE  IInv'
  <2>0. Sound(blocks, top) /\ top <= Limit
    BY <1>2 DEF IInv
  <2>1. ASSUME NEW n \in Sizes, Malloc(n) PROVE IInv'
    <3>1. PICK a \in Allocations(blocks, top, n) : blocks' = a[1] /\ top' = a[2]
      BY <2>1 DEF Malloc
    <3> QED
      BY <2>0, <3>1, AllocationSound DEF IInv
  <2>2. ASSUME NEW n \in Sizes, NEW b \in blocks, Realloc(b, n) PROVE IInv'
    <3>1. PICK a \in Allocations(blocks, top, n) :
            b.used /\ blocks' = Release(a[1], b) /\ top' = a[2]
      BY <2>2 DEF Realloc
    <3>2. Sound(a[1], a[2]) /\ a[2] <= Limit /\ b \in a[1]
      BY <2>0, <3>1, AllocationSound
    <3>3. Sound(Release(a[1], b), a[2])
      BY <3>1, <3>2, ReleaseSound
    <3> QED
      BY <3>1, <3>2, <3>3 DEF IInv
  <2>3. ASSUME NEW b \in blocks, Free(b) PROVE IInv'
    BY <2>0, <2>3, ReleaseSound DEF Free, IInv
  <2>4. CASE Reset
    BY <1>2, <2>4, FirstBlockSound DEF Reset, IInv
  <2>5. CASE UNCHANGED vars
    BY <1>2, <2>5 DEF vars, IInv, Sound
  <2> QED
    BY <1>2, <2>1, <2>2, <2>3, <2>4, <2>5 DEF Next
<1> QED
  BY <1>1, <1>2

(***************************************************************************)
(* After any sequence of malloc, free and realloc the blocks are aligned,  *)
(* do not overlap, and cover the heap between the prologue and brk.        *)
(***************************************************************************)
THEOREM BlocksTile == Spec => []Tiled
<1> DEFINE Grows == First + Chunk <= Limit
<1>1. Init => IInv /\ Grows
  BY InvariantInductive
<1>2. IInv /\ Grows /\ [Next]_vars => IInv' /\ Grows'
  BY InvariantInductive
<1>3. IInv => Tiled
  BY DEF IInv, Sound, Tiled
<1> QED
  BY <1>1, <1>2, <1>3, PTL DEF Spec

(***************************************************************************)
(* Coalescing is complete: no two free blocks are ever adjacent.           *)
(***************************************************************************)
THEOREM FreeBlocksApart == Spec => []Coalesced
<1> DEFINE Grows == First + Chunk <= Limit
<1>1. Init => IInv /\ Grows
  BY InvariantInductive
<1>2. IInv /\ Grows /\ [Next]_vars => IInv' /\ Grows'
  BY InvariantInductive
<1>3. IInv => Coalesced
  BY DEF IInv, Sound, Coalesced
<1> QED
  BY <1>1, <1>2, <1>3, PTL DEF Spec

-----------------------------------------------------------------------------
\* The driver in the composition is that of CheckerProofs.

LEMMA SameChecker ==
  /\ Mdriver!CheckerAssumption <=> CheckerP!CheckerAssumption
  /\ Mdriver!Init <=> CheckerP!Init
  /\ Mdriver!Next <=> CheckerP!Next
  /\ UNCHANGED mdriverVars <=> UNCHANGED CheckerP!vars
  /\ Mdriver!RangesKept <=> CheckerP!RangesKept
  /\ Mdriver!UtilCounts <=> CheckerP!UtilCounts
<1> USE DEF Mdriver!NULL, CheckerP!NULL, Mdriver!HeapSize, CheckerP!HeapSize, Mdriver!Max, CheckerP!Max, Mdriver!Min, CheckerP!Min,
            Mdriver!Owned, CheckerP!Owned, Mdriver!Zeros, CheckerP!Zeros, Mdriver!Live, CheckerP!Live, Mdriver!NoMem, CheckerP!NoMem,
            Mdriver!Request, CheckerP!Request, Mdriver!resultVars, CheckerP!resultVars, Mdriver!blockVars, CheckerP!blockVars,
            Mdriver!sumVars, CheckerP!sumVars, Mdriver!traceVars, CheckerP!traceVars
<1>1. Mdriver!CheckerAssumption <=> CheckerP!CheckerAssumption
  BY Zenon DEF Mdriver!CheckerAssumption, CheckerP!CheckerAssumption
<1>2. Mdriver!Init <=> CheckerP!Init
  BY Zenon DEF Mdriver!Init, CheckerP!Init
<1>3. Mdriver!Next <=> CheckerP!Next
  BY Zenon DEF Mdriver!Elsewhere, CheckerP!Elsewhere, Mdriver!Overlap, CheckerP!Overlap, Mdriver!Returns, CheckerP!Returns,
     Mdriver!Pointers, CheckerP!Pointers, Mdriver!Moved, CheckerP!Moved, Mdriver!AddRange, CheckerP!AddRange,
     Mdriver!RemoveRange, CheckerP!RemoveRange, Mdriver!ReadTrace, CheckerP!ReadTrace, Mdriver!Last, CheckerP!Last,
     Mdriver!NextTrace, CheckerP!NextTrace, Mdriver!Refused, CheckerP!Refused, Mdriver!AppError, CheckerP!AppError,
     Mdriver!Start, CheckerP!Start, Mdriver!Filled, CheckerP!Filled, Mdriver!Remember, CheckerP!Remember,
     Mdriver!Is, CheckerP!Is, Mdriver!Proceed, CheckerP!Proceed, Mdriver!ValidAlloc, CheckerP!ValidAlloc,
     Mdriver!SignedChar, CheckerP!SignedChar, Mdriver!Preserved, CheckerP!Preserved,
     Mdriver!ValidRealloc, CheckerP!ValidRealloc, Mdriver!ValidFree, CheckerP!ValidFree, Mdriver!Count, CheckerP!Count,
     Mdriver!UtilAlloc, CheckerP!UtilAlloc, Mdriver!UtilRealloc, CheckerP!UtilRealloc, Mdriver!UtilFree, CheckerP!UtilFree,
     Mdriver!Speed, CheckerP!Speed, Mdriver!Finish, CheckerP!Finish, Mdriver!LibcValid, CheckerP!LibcValid,
     Mdriver!LibcSpeed, CheckerP!LibcSpeed, Mdriver!Next, CheckerP!Next
<1>4. UNCHANGED mdriverVars <=> UNCHANGED CheckerP!vars
  BY DEF mdriverVars, CheckerP!vars
<1> USE DEF Mdriver!Cardinality, CheckerP!Cardinality
<1>5. Mdriver!RangesKept <=> CheckerP!RangesKept
  BY Zenon DEF Mdriver!RangesKept, CheckerP!RangesKept, Mdriver!Extent, CheckerP!Extent
<1>6. Mdriver!UtilCounts <=> CheckerP!UtilCounts
  BY Zenon DEF Mdriver!UtilCounts, CheckerP!UtilCounts, Mdriver!BytesHeld, CheckerP!BytesHeld
<1> QED BY <1>1, <1>2, <1>3, <1>4, <1>5, <1>6

\* A step of week 5 is a step of one part, and leaves the others alone.
LEMMA StepOfOnePart ==
  ASSUME [Week5Next]_<<structure, vars, mdriverVars, timerVars>>
  PROVE  [Next]_vars /\ [CheckerP!Next]_(CheckerP!vars) /\ [Timer!Next]_timerVars
<1>1. /\ Next \/ UNCHANGED vars
      /\ Mdriver!Next \/ UNCHANGED mdriverVars
      /\ Timer!Next \/ UNCHANGED timerVars
  BY DEF Week5Next
<1> QED BY <1>1, SameChecker

LEMMA Week5CheckInv == Week5Spec => []CheckerP!CheckInv
<1>1. CheckerP!CheckerAssumption
  BY DriverAssumption, SameChecker
<1>2. Week5Init => CheckerP!CheckInv
  BY <1>1, SameChecker, CheckerP!InitStep DEF Week5Init
<1>3. CheckerP!CheckInv /\ [Week5Next]_<<structure, vars, mdriverVars, timerVars>> => CheckerP!CheckInv'
  BY <1>1, StepOfOnePart, CheckerP!CheckerStep, CheckerP!StutterStep
<1> QED BY <1>2, <1>3, PTL DEF Week5Spec

(***************************************************************************)
(* In the composition, too, the list of ranges of mdriver.c is that of the *)
(* blocks an allocator has given out, whatever it returns: each range is   *)
(* aligned and in the heap, and of two that overlap the later one encloses *)
(* the earlier one.                                                        *)
(***************************************************************************)
THEOREM Week5RangesKept == Week5Spec => []RangesKept
<1>1. CheckerP!CheckInv => RangesKept
  BY SameChecker, CheckerP!ImpliesRangesKept DEF RangesKept
<1> QED BY <1>1, Week5CheckInv, PTL

(***************************************************************************)
(* The utilisation the driver reports is computed from the bytes that are  *)
(* allocated, through every realloc and free, and with an allocator that   *)
(* keeps its contract it never exceeds one.                                *)
(***************************************************************************)
THEOREM Week5UtilCounts == Week5Spec => []UtilCounts
<1>1. CheckerP!CheckInv => UtilCounts
  BY SameChecker, CheckerP!ImpliesUtilCounts DEF UtilCounts
<1> QED BY <1>1, Week5CheckInv, PTL

(***************************************************************************)
(* The books the driver keeps of an allocator are right: its ranges and    *)
(* its totals are those of the blocks that are live.                       *)
(***************************************************************************)
THEOREM Week5BooksKept == Week5Spec => []BooksKept
BY Week5RangesKept, Week5UtilCounts, PTL DEF BooksKept

(***************************************************************************)
(* The driver never reports an allocator that keeps its contract, whatever *)
(* the traces and the heap, except at a realloc of an index whose byte is  *)
(* negative as a char (mdriver.c:656), and it counts every trace.          *)
(***************************************************************************)
THEOREM Week5NoFalseAlarm == Week5Spec => NoFalseAlarm
<1> DEFINE Honest == /\ sound => (errors' = errors \/ Mdriver!ReallocsHigh) /\ status' # "exited"
                     /\ phase' = "end" => errors' + numcorrect' = NumTraces
<1>1. CheckerP!CheckInv /\ [Week5Next]_<<structure, vars, mdriverVars, timerVars>> => [Honest]_(Mdriver!vars)
  <2> SUFFICES ASSUME CheckerP!CheckInv, [Week5Next]_<<structure, vars, mdriverVars, timerVars>>
               PROVE  Honest \/ UNCHANGED Mdriver!vars
    OBVIOUS
  <2>1. CASE CheckerP!Next
    <3>1. CheckerP!CheckerAssumption
      BY DriverAssumption, SameChecker
    <3>2. CheckerP!Honest
      BY <2>1, <3>1, CheckerP!StepIsHonest
    <3> QED BY <3>2 DEF CheckerP!Honest, CheckerP!ReallocsHigh, Mdriver!ReallocsHigh
  <2>2. CASE UNCHANGED CheckerP!vars
    BY <2>2, Zenon DEF CheckerP!vars, Mdriver!vars, CheckerP!resultVars, Mdriver!resultVars, CheckerP!blockVars, Mdriver!blockVars,
       CheckerP!sumVars, Mdriver!sumVars, CheckerP!traceVars, Mdriver!traceVars
  <2> QED BY <2>1, <2>2, StepOfOnePart
<1>2. Week5Spec => [][Honest]_(Mdriver!vars)
  <2> HIDE DEF Honest
  <2> QED BY <1>1, Week5CheckInv, PTL DEF Week5Spec
<1> QED BY <1>2 DEF NoFalseAlarm, Mdriver!NoFalseAlarm

-----------------------------------------------------------------------------
(***************************************************************************)
(* The timer.  While a measurement is under way, the counter has advanced  *)
(* by the cycles of f and by those of an interrupt that came since it was  *)
(* read; and the list of the sampler has the shortest samples in order.    *)
(***************************************************************************)

Cycle == Word * Word
Measurement == [cycles : Nat, interrupts : {0, 1}]
Steps == {"idle", "clear", "start", "counter", "run", "get", "times", "add", "test", "exited"}
TimerTypes ==
  /\ counter \in 0..Cycle-1 /\ cyc \in [hi : 0..Word-1, lo : 0..Word-1] /\ ticks \in Nat
  /\ kbest \in Ks /\ compensate \in BOOLEAN /\ step \in Steps /\ time \in Int /\ run \in Measurement
  /\ values \in Seq(Int) /\ samples \in Seq(Int) /\ runs \in Seq(Measurement)
  /\ Len(runs) = Len(samples) /\ samplecount = Len(samples)

\* The counter has advanced by n since start_counter read it.
Advanced(n) == \E q \in Nat : counter + q * Cycle = cyc.hi * Word + cyc.lo + n
\* What the interrupts add to a measurement: when the user time is read too,
\* they may come before or after it.
Delay(d) == \/ d = 0 /\ (compensate \/ run.interrupts = 0)
            \/ d = TickCost /\ run.interrupts = 1
Exact(t, r) ==
  /\ r.interrupts = 0 => t = r.cycles
  /\ IF compensate THEN t <= r.cycles ELSE t >= r.cycles
Measures ==
  /\ step \in {"idle", "clear", "start", "test"} => run = Timer!Quiet
  /\ step \in {"counter", "run"} => run.cycles = 0
  /\ step \in {"counter", "times"} => compensate
  /\ step \in {"counter", "run", "get", "times"} /\ compensate => ticks = run.interrupts
  /\ step \in {"run", "get"} => \E d \in Nat : Delay(d) /\ Advanced(run.cycles + d)
  /\ step = "get" => run.cycles \in Durations
  /\ step = "times" => \E d \in Nat : Delay(d) /\ time = run.cycles + d
  /\ step = "add" => Exact(time, run)

Sorted(vs, n) == \A j, k \in 1..n : j < k => vs[j] <= vs[k]
Picks(vs, n, ss, pick) ==
  /\ pick \in Injection(1..n, 1..Len(ss)) /\ \A k \in 1..n : vs[k] = ss[pick[k]]
Leaves(vs, n, ss, pick, m) ==
  \A l \in 1..Len(ss) : \A k \in 1..m : (\A j \in 1..n : pick[j] # l) => vs[k] <= ss[l]
KBest(vs, n, ss) ==
  /\ Len(vs) = IF n < Len(ss) THEN n ELSE Len(ss)
  /\ Sorted(vs, Len(vs))
  /\ \E pick : Picks(vs, Len(vs), ss, pick) /\ Leaves(vs, Len(vs), ss, pick, Len(vs))
Sampled ==
  /\ step = "test" => samples # << >>
  /\ step = "idle" /\ samples # << >> => KBest(<<result>>, 1, samples)
  /\ step # "idle" => KBest(values, kbest, samples) /\ \A n \in 1..Len(samples) : Exact(samples[n], runs[n])
Clears == cache_buf \in {0, cache_bytes} /\ Timer!ClearsInside
TimerInv == TimerTypes /\ Measures /\ Sampled /\ Clears

-----------------------------------------------------------------------------
\* The counter: the difference of two double words.

LEMMA Remainder ==
  ASSUME NEW a \in Nat, NEW m \in Nat \ {0}
  PROVE  a % m \in 0..m-1 /\ a \div m \in Nat /\ a = m * (a \div m) + (a % m)
OBVIOUS
LEMMA RemainderSmall ==
  ASSUME NEW m \in Nat \ {0}, NEW a \in Int, -m <= a, a < m
  PROVE  a % m = IF a >= 0 THEN a ELSE a + m
<1>1. CASE a >= 0
  <2>1. a \in 0..m-1
    BY <1>1
  <2>2. a % m = a
    BY <2>1
  <2> QED BY <1>1, <2>2
<1>2. CASE a < 0
  BY <1>2
<1> QED BY <1>1, <1>2
LEMMA Halves ==
  ASSUME NEW w \in Nat \ {0}, NEW a \in 0..w*w-1
  PROVE  /\ a % w \in 0..w-1 /\ a \div w \in 0..w-1 /\ a = (a \div w) * w + (a % w)
<1>1. a % w \in 0..w-1 /\ a \div w \in Nat /\ a = w * (a \div w) + (a % w)
  <2>1. a \in Nat
    OBVIOUS
  <2> QED BY <2>1, Remainder, Zenon
<1>2. a \div w < w
  <2> DEFINE d == a \div w
             r == a % w
  <2>1. d \in Nat /\ r \in Nat /\ a = w * d + r /\ a < w * w
    BY <1>1
  <2>2. d >= w => w * d >= w * w
    <3> HIDE DEF d
    <3> QED BY <2>1
  <2> HIDE DEF d, r
  <2>3. d < w
    BY <2>1, <2>2
  <2> QED BY <2>3 DEF d
<1>3. w * (a \div w) = (a \div w) * w
  BY <1>1
<1> QED BY <1>1, <1>2, <1>3

LEMMA Spread == \A a, b, c, w \in Int : (a - b - c) * w = a * w - b * w - c * w
OBVIOUS
WordDiff(w, ch, cl, sh, sl) ==
  LET lo == (cl - sl) % w
      borrow == IF lo > cl THEN 1 ELSE 0
      hi == (ch - sh - borrow) % w
  IN  hi * w + lo
LEMMA DoubleWord ==
  ASSUME NEW w \in Nat \ {0}, NEW ch \in 0..w-1, NEW cl \in 0..w-1, NEW sh \in 0..w-1, NEW sl \in 0..w-1
  PROVE  WordDiff(w, ch, cl, sh, sl) = IF (ch * w + cl) - (sh * w + sl) >= 0
                                       THEN (ch * w + cl) - (sh * w + sl)
                                       ELSE (ch * w + cl) - (sh * w + sl) + w * w
<1> DEFINE lo == (cl - sl) % w
           b == IF lo > cl THEN 1 ELSE 0
           hi == (ch - sh - b) % w
           diff == (ch * w + cl) - (sh * w + sl)
<1>0. WordDiff(w, ch, cl, sh, sl) = hi * w + lo
  BY DEF WordDiff
<1>1. /\ lo = IF cl - sl >= 0 THEN cl - sl ELSE cl - sl + w
      /\ lo \in 0..w-1
  <2>1. -w <= cl - sl /\ cl - sl < w /\ cl - sl \in Int
    OBVIOUS
  <2>2. (cl - sl) % w = IF cl - sl >= 0 THEN cl - sl ELSE cl - sl + w
    BY <2>1, RemainderSmall, Zenon
  <2> QED BY <2>1, <2>2
<1>2. b = IF cl - sl >= 0 THEN 0 ELSE 1
  BY <1>1
<1> HIDE DEF b, lo
<1>3. /\ hi = IF ch - sh - b >= 0 THEN ch - sh - b ELSE ch - sh - b + w
      /\ hi \in 0..w-1
  <2>1. -w <= ch - sh - b /\ ch - sh - b < w /\ ch - sh - b \in Int
    BY <1>2
  <2>2. (ch - sh - b) % w = IF ch - sh - b >= 0 THEN ch - sh - b ELSE ch - sh - b + w
    BY <2>1, RemainderSmall, Zenon
  <2> QED BY <2>1, <2>2
<1> HIDE DEF hi
<1>4. (ch - sh - b) * w = ch * w - sh * w - b * w
  BY <1>2, Spread
<1>5. lo = (cl - sl) + b * w
  BY <1>1, <1>2
<1>6. hi * w = (ch - sh - b) * w + (IF ch - sh - b >= 0 THEN 0 ELSE w * w)
  <2>1. CASE ch - sh - b >= 0
    BY <1>3, <2>1
  <2>2. CASE ~(ch - sh - b >= 0)
    <3>1. hi = (ch - sh - b) + w /\ (ch - sh - b) \in Int
      BY <1>2, <1>3, <2>2
    <3>2. \A x \in Int : (x + w) * w = x * w + w * w
      OBVIOUS
    <3> QED BY <2>2, <3>1, <3>2
  <2> QED BY <2>1, <2>2
<1>7. hi * w \in 0..w*w-w
  <2>1. hi \in 0..w-1
    BY <1>3
  <2>2. \A h \in 0..w-1 : h * w <= (w - 1) * w /\ h * w >= 0 /\ (w - 1) * w = w * w - w
    OBVIOUS
  <2> QED BY <2>1, <2>2
<1>8. hi * w + lo = diff + (IF ch - sh - b >= 0 THEN 0 ELSE w * w) /\ hi * w + lo \in 0..w*w-1
  BY <1>1, <1>2, <1>4, <1>5, <1>6, <1>7
<1>9. diff < w * w /\ diff \in Int
  BY <1>8
<1> QED BY <1>0, <1>8, <1>9

-----------------------------------------------------------------------------
\* The Timer!sampler.

LEMMA Sinks ==
  ASSUME NEW vs \in Seq(Int), NEW n \in Nat \ {0}, Len(vs) = n, Sorted(vs, n - 1)
  PROVE  \E p \in 0..n-1 :
           /\ Timer!Sink(vs) \in Seq(Int) /\ Len(Timer!Sink(vs)) = n
           /\ \A k \in 1..n : Timer!Sink(vs)[k] = IF k <= p THEN vs[k] ELSE IF k = p + 1 THEN vs[n] ELSE vs[k - 1]
           /\ \A k \in 1..p : vs[k] <= vs[n]
           /\ \A k \in p+1..n-1 : vs[k] > vs[n]
<1> DEFINE smaller == {j \in 0..Len(vs)-1 : \A l \in j+1..Len(vs)-1 : vs[l] > vs[Len(vs)]}
           pos == CHOOSE j \in smaller : \A l \in smaller : j <= l
           front == SubSeq(vs, 1, Len(vs) - 1)
           low == SubSeq(front, 1, pos)
           high == SubSeq(front, pos + 1, Len(front))
<1>1. \A k \in 1..n : vs[k] \in Int
  BY ElementOfSeq
<1>2. pos \in smaller /\ \A l \in smaller : pos <= l
  <2>1. n - 1 \in smaller /\ smaller \in SUBSET Nat
    OBVIOUS
  <2> HIDE DEF smaller
  <2>2. \E k \in smaller : \A j \in smaller : k <= j
    BY <2>1, CheckerP!LeastIn
  <2> QED BY <2>2
<1>3. Timer!Sink(vs) = Timer!InsertAt(front, pos + 1, vs[Len(vs)])
  BY Zenon DEF Timer!Sink
<1>4. pos \in 0..n-1 /\ \A k \in pos+1..n-1 : vs[k] > vs[n]
  <2> HIDE DEF pos
  <2> QED BY <1>2
<1>5. \A k \in 1..pos : vs[k] <= vs[n]
  <2> SUFFICES ASSUME NEW k \in 1..pos PROVE vs[k] <= vs[n]
    OBVIOUS
  <2>1. pos - 1 \notin smaller
    <3> HIDE DEF smaller, pos
    <3> QED BY <1>2, <1>4
  <2> HIDE DEF pos
  <2>2. PICK l \in pos..n-1 : ~(vs[l] > vs[n])
    BY <1>4, <2>1
  <2>3. l = pos /\ pos \in 1..n-1 /\ k \in 1..n-1
    BY <1>4, <2>2
  <2>4. vs[k] <= vs[pos]
    BY <1>1, <2>3 DEF Sorted
  <2> QED BY <1>1, <2>2, <2>3, <2>4
<1> HIDE DEF pos, smaller
<1>6. front \in Seq(Int) /\ Len(front) = n - 1 /\ \A k \in 1..n-1 : front[k] = vs[k]
  <2>1. n - 1 \in 0..Len(vs)
    OBVIOUS
  <2> QED BY <2>1, CheckerP!Cut
<1> HIDE DEF front
<1>7. low \in Seq(Int) /\ Len(low) = pos /\ \A k \in 1..pos : low[k] = vs[k]
  <2>1. pos \in 0..Len(front)
    BY <1>4, <1>6
  <2>2. low \in Seq(Int) /\ Len(low) = pos /\ \A k \in 1..pos : low[k] = front[k]
    BY <1>6, <2>1, CheckerP!Cut
  <2>3. \A k \in 1..pos : k \in 1..n-1
    BY <1>4
  <2> QED BY <1>6, <2>2, <2>3
<1>8. high \in Seq(Int) /\ Len(high) = n - 1 - pos /\ \A k \in 1..n-1-pos : high[k] = vs[pos + k]
  <2>1. \A k \in pos+1..Len(front) : front[k] \in Int
    BY <1>1, <1>4, <1>6
  <2>2. /\ high \in Seq(Int) /\ Len(high) = IF pos + 1 <= Len(front) THEN Len(front) - (pos + 1) + 1 ELSE 0
        /\ \A k \in 1..Len(front) - (pos + 1) + 1 : high[k] = front[(pos + 1) + k - 1]
    <3> HIDE DEF high
    <3>1. pos + 1 \in Int /\ Len(front) \in Int
      BY <1>4, <1>6
    <3> QED BY <1>6, <2>1, <3>1, SubSeqProperties, SMTT(30) DEF high
  <2> HIDE DEF high
  <2>3. Len(high) = n - 1 - pos
    BY <1>4, <1>6, <2>2
  <2>4. ASSUME NEW k \in 1..n-1-pos PROVE high[k] = vs[pos + k]
    <3>1. k \in 1..Len(front) - (pos + 1) + 1 /\ (pos + 1) + k - 1 = pos + k /\ pos + k \in 1..n-1
      BY <1>4, <1>6
    <3>2. high[k] = front[pos + k]
      BY <2>2, <3>1
    <3> QED BY <1>6, <3>1, <3>2
  <2> QED BY <2>2, <2>3, <2>4
<1> HIDE DEF low, high
<1> DEFINE mid == <<vs[n]>>
           start == low \o mid
<1>9. mid \in Seq(Int) /\ Len(mid) = 1 /\ mid[1] = vs[n]
  BY <1>1
<1> HIDE DEF mid
<1>10. /\ start \in Seq(Int) /\ Len(start) = pos + 1
       /\ \A k \in 1..pos+1 : start[k] = IF k <= pos THEN low[k] ELSE mid[k - pos]
  <2>1. /\ start \in Seq(Int) /\ Len(start) = Len(low) + Len(mid)
        /\ \A k \in 1..Len(low) + Len(mid) : start[k] = IF k <= Len(low) THEN low[k] ELSE mid[k - Len(low)]
    BY <1>7, <1>9, ConcatProperties
  <2> HIDE DEF start
  <2> QED BY <1>7, <1>9, <2>1
<1> HIDE DEF start
<1>11. /\ start \o high \in Seq(Int) /\ Len(start \o high) = n
       /\ \A k \in 1..n : (start \o high)[k] = IF k <= pos + 1 THEN start[k] ELSE high[k - (pos + 1)]
  <2>1. (pos + 1) + (n - 1 - pos) = n
    BY <1>4
  <2>2. /\ start \o high \in Seq(Int) /\ Len(start \o high) = Len(start) + Len(high)
        /\ \A k \in 1..Len(start) + Len(high) :
             (start \o high)[k] = IF k <= Len(start) THEN start[k] ELSE high[k - Len(start)]
    BY <1>8, <1>10, ConcatProperties
  <2> QED BY <1>8, <1>10, <2>1, <2>2
<1>12. Timer!Sink(vs) = start \o high
  <2>1. (pos + 1) - 1 = pos
    BY <1>4
  <2> QED BY <1>3, <2>1, Zenon DEF start, mid, low, high, Timer!InsertAt
<1>13. ASSUME NEW k \in 1..n
       PROVE (start \o high)[k] = IF k <= pos THEN vs[k] ELSE IF k = pos + 1 THEN vs[n] ELSE vs[k - 1]
  <2>1. CASE k <= pos
    <3>1. k \in 1..pos /\ k \in 1..pos+1 /\ k <= pos + 1
      BY <1>4, <2>1
    <3> QED BY <1>7, <1>10, <1>11, <2>1, <3>1
  <2>2. CASE k = pos + 1
    <3>1. k \in 1..pos+1 /\ k <= pos + 1 /\ ~(k <= pos) /\ k - pos = 1
      BY <1>4, <2>2
    <3> QED BY <1>9, <1>10, <1>11, <2>2, <3>1
  <2>3. CASE k > pos + 1
    <3>1. k - (pos + 1) \in 1..n-1-pos /\ pos + (k - (pos + 1)) = k - 1 /\ ~(k <= pos + 1) /\ ~(k <= pos) /\ k # pos + 1
      BY <1>4, <2>3
    <3>2. high[k - (pos + 1)] = vs[pos + (k - (pos + 1))]
      BY <1>8, <3>1
    <3> QED BY <1>11, <3>1, <3>2
  <2>4. k <= pos \/ k = pos + 1 \/ k > pos + 1
    BY <1>4
  <2> QED BY <2>1, <2>2, <2>3, <2>4, Zenon
<1> QED BY <1>4, <1>5, <1>11, <1>12, <1>13

\* The last of a list moves to its place, and stands for the new sample.
LEMMA Joins ==
  ASSUME NEW ss \in Seq(Int), NEW t \in Int, NEW vs \in Seq(Int), NEW n \in Nat \ {0}, Len(vs) = n, vs[n] = t,
         Sorted(vs, n - 1), NEW pick, Picks(vs, n - 1, ss, pick), Leaves(vs, n - 1, ss, pick, n)
  PROVE  /\ Timer!Sink(vs) \in Seq(Int) /\ Len(Timer!Sink(vs)) = n /\ Sorted(Timer!Sink(vs), n)
         /\ \E new : Picks(Timer!Sink(vs), n, Append(ss, t), new) /\ Leaves(Timer!Sink(vs), n, Append(ss, t), new, n)
<1> DEFINE sk == Timer!Sink(vs)
           m == Len(ss)
           tt == Append(ss, t)
<1>1. PICK p \in 0..n-1 :
           /\ sk \in Seq(Int) /\ Len(sk) = n
           /\ \A k \in 1..n : sk[k] = IF k <= p THEN vs[k] ELSE IF k = p + 1 THEN vs[n] ELSE vs[k - 1]
           /\ \A k \in 1..p : vs[k] <= vs[n]
           /\ \A k \in p+1..n-1 : vs[k] > vs[n]
  BY Sinks
<1>2. tt \in Seq(Int) /\ Len(tt) = m + 1 /\ tt[m + 1] = t /\ \A l \in 1..m : tt[l] = ss[l]
  BY AppendProperties
<1>3. m \in Nat /\ (\A k \in 1..n : vs[k] \in Int) /\ (\A l \in 1..m : ss[l] \in Int)
  BY LenProperties, ElementOfSeq
<1>4. /\ pick \in [1..n-1 -> 1..m] /\ \A j, k \in 1..n-1 : pick[j] = pick[k] => j = k
      /\ \A k \in 1..n-1 : vs[k] = ss[pick[k]]
  <2>1. pick \in Injection(1..n-1, 1..m) /\ \A k \in 1..n-1 : vs[k] = ss[pick[k]]
    BY DEF Picks
  <2>2. pick \in [1..n-1 -> 1..m] /\ IsInjective(pick)
    BY <2>1, Zenon DEF Injection
  <2> QED BY <2>1, <2>2 DEF IsInjective
<1> HIDE DEF sk, tt, m
<1>5. Sorted(sk, n)
  <2> SUFFICES ASSUME NEW j \in 1..n, NEW k \in 1..n, j < k PROVE sk[j] <= sk[k]
    BY DEF Sorted
  <2>1. \A a, b \in 1..n-1 : a < b => vs[a] <= vs[b]
    BY DEF Sorted
  <2>2. CASE k <= p
    BY <1>1, <1>3, <2>1, <2>2
  <2>3. CASE k = p + 1
    BY <1>1, <1>3, <2>1, <2>3
  <2>4. CASE k > p + 1 /\ j = p + 1
    BY <1>1, <1>3, <2>1, <2>4
  <2>5. CASE k > p + 1 /\ j <= p
    BY <1>1, <1>3, <2>1, <2>5, SMTT(30)
  <2>6. CASE k > p + 1 /\ j > p + 1
    <3>1. j - 1 \in 1..n-1 /\ k - 1 \in 1..n-1 /\ j - 1 < k - 1 /\ ~(j <= p) /\ ~(k <= p) /\ j # p + 1 /\ k # p + 1
      BY <2>6
    <3>2. vs[j - 1] <= vs[k - 1]
      BY <2>1, <3>1
    <3>3. sk[j] = vs[j - 1] /\ sk[k] = vs[k - 1]
      BY <1>1, <3>1
    <3> QED BY <3>2, <3>3
  <2> QED BY <2>2, <2>3, <2>4, <2>5, <2>6
<1> DEFINE new == [k \in 1..n |-> IF k <= p THEN pick[k] ELSE IF k = p + 1 THEN m + 1 ELSE pick[k - 1]]
<1>6. /\ new \in [1..n -> 1..m+1]
      /\ \A k \in 1..n : new[k] = IF k <= p THEN pick[k] ELSE IF k = p + 1 THEN m + 1 ELSE pick[k - 1]
  BY <1>3, <1>4
<1> HIDE DEF new
<1> DEFINE old(k) == IF k <= p THEN k ELSE k - 1
<1>7. ASSUME NEW k \in 1..n, k # p + 1
       PROVE  old(k) \in 1..n-1 /\ new[k] = pick[old(k)] /\ sk[k] = vs[old(k)]
  <2>1. CASE k <= p
    <3>1. k \in 1..n-1 /\ old(k) = k
      BY <2>1
    <3> QED BY <1>1, <1>6, <2>1, <3>1
  <2>2. CASE k > p + 1
    <3>1. k - 1 \in 1..n-1 /\ ~(k <= p) /\ old(k) = k - 1
      BY <2>2
    <3> QED BY <1>1, <1>6, <2>2, <3>1
  <2> QED BY <1>7, <2>1, <2>2
<1>8. \A j, k \in 1..n : j # p + 1 /\ k # p + 1 /\ old(j) = old(k) => j = k
  OBVIOUS
<1>9. new[p + 1] = m + 1 /\ sk[p + 1] = vs[n] /\ p + 1 \in 1..n
  BY <1>1, <1>6
<1>10. \A a \in 1..n-1 : pick[a] \in 1..m /\ pick[a] # m + 1
  BY <1>3, <1>4
<1> HIDE DEF old
<1>11. new \in Injection(1..n, 1..m+1)
  <2>1. ASSUME NEW j \in 1..n, NEW k \in 1..n, new[j] = new[k] PROVE j = k
    <3>1. CASE j = p + 1 /\ k # p + 1
      BY <1>7, <1>9, <1>10, <2>1, <3>1
    <3>2. CASE k = p + 1 /\ j # p + 1
      BY <1>7, <1>9, <1>10, <2>1, <3>2
    <3>3. CASE j # p + 1 /\ k # p + 1
      <4>1. pick[old(j)] = pick[old(k)] /\ old(j) \in 1..n-1 /\ old(k) \in 1..n-1
        BY <1>7, <2>1, <3>3
      <4> QED BY <1>4, <1>8, <3>3, <4>1
    <3> QED BY <3>1, <3>2, <3>3
  <2> QED BY <1>6, <2>1, Zenon DEF Injection, IsInjective
<1>12. ASSUME NEW k \in 1..n PROVE sk[k] = tt[new[k]]
  <2>1. CASE k = p + 1
    BY <1>2, <1>9, <2>1
  <2>2. CASE k # p + 1
    <3>1. old(k) \in 1..n-1 /\ new[k] = pick[old(k)] /\ sk[k] = vs[old(k)]
      BY <1>7, <2>2
    <3>2. sk[k] = ss[pick[old(k)]] /\ pick[old(k)] \in 1..m
      BY <1>4, <1>10, <3>1
    <3> QED BY <1>2, <3>1, <3>2
  <2> QED BY <2>1, <2>2
<1>13. Picks(sk, n, tt, new)
  BY <1>2, <1>11, <1>12 DEF Picks
<1>14. Leaves(sk, n, tt, new, n)
  <2> SUFFICES ASSUME NEW l \in 1..m+1, NEW k \in 1..n, \A j \in 1..n : new[j] # l PROVE sk[k] <= tt[l]
    BY <1>2 DEF Leaves
  <2>1. l \in 1..m
    <3>1. new[p + 1] = m + 1 /\ p + 1 \in 1..n
      BY <1>6
    <3> QED BY <1>3, <3>1, SMTT(30)
  <2>2. ASSUME NEW j \in 1..n-1 PROVE pick[j] # l
    <3>1. CASE j <= p
      BY <1>6, <3>1
    <3>2. CASE j > p
      <4>1. j + 1 \in 1..n /\ ~(j + 1 <= p) /\ j + 1 # p + 1 /\ (j + 1) - 1 = j
        BY <3>2
      <4>2. new[j + 1] = pick[j]
        BY <1>6, <4>1
      <4> QED BY <4>1, <4>2
    <3> QED BY <3>1, <3>2
  <2>3. \A a \in 1..n : vs[a] <= ss[l]
    BY <2>1, <2>2 DEF Leaves, m
  <2>4. tt[l] = ss[l] /\ \E a \in 1..n : sk[k] = vs[a]
    <3>1. CASE k <= p
      BY <1>1, <3>1, <1>2, <2>1
    <3>2. CASE k = p + 1
      BY <1>1, <3>2, <1>2, <2>1
    <3>3. CASE k > p + 1
      <4>1. k - 1 \in 1..n
        BY <3>3
      <4> QED BY <1>1, <3>3, <4>1, <1>2, <2>1
    <3> QED BY <3>1, <3>2, <3>3
  <2> QED BY <2>3, <2>4
<1> QED BY <1>1, <1>5, <1>13, <1>14, Zenon DEF sk, tt

\* add_sample: the list stays that of the shortest samples.
LEMMA Adds ==
  ASSUME NEW ss \in Seq(Int), NEW t \in Int, NEW vs \in Seq(Int), NEW n \in Nat \ {0}, KBest(vs, n, ss), NEW new,
         new = IF Len(ss) < n THEN Timer!Sink(Append(vs, t)) ELSE IF t < vs[n] THEN Timer!Sink([vs EXCEPT ![n] = t]) ELSE vs
  PROVE  new \in Seq(Int) /\ KBest(new, n, Append(ss, t))
<1> DEFINE m == Len(ss)
           tt == Append(ss, t)
<1>1. tt \in Seq(Int) /\ Len(tt) = m + 1 /\ tt[m + 1] = t /\ \A l \in 1..m : tt[l] = ss[l]
  BY AppendProperties
<1>2. m \in Nat /\ (\A k \in 1..Len(vs) : vs[k] \in Int) /\ (\A l \in 1..m : ss[l] \in Int)
  BY LenProperties, ElementOfSeq
<1>3. Len(vs) = (IF n < m THEN n ELSE m) /\ Sorted(vs, Len(vs))
  BY DEF KBest
<1>4. PICK pick : Picks(vs, Len(vs), ss, pick) /\ Leaves(vs, Len(vs), ss, pick, Len(vs))
  BY DEF KBest
<1>5. /\ pick \in Injection(1..Len(vs), 1..m) /\ pick \in [1..Len(vs) -> 1..m]
      /\ \A j, k \in 1..Len(vs) : pick[j] = pick[k] => j = k
      /\ \A k \in 1..Len(vs) : vs[k] = ss[pick[k]]
  <2>1. pick \in Injection(1..Len(vs), 1..m) /\ \A k \in 1..Len(vs) : vs[k] = ss[pick[k]]
    BY <1>4 DEF Picks
  <2>2. pick \in [1..Len(vs) -> 1..m] /\ IsInjective(pick)
    BY <2>1, Zenon DEF Injection
  <2>3. \A j, k \in DOMAIN pick : pick[j] = pick[k] => j = k
    BY <2>2, Zenon DEF IsInjective
  <2> QED BY <2>1, <2>2, <2>3
<1>6. CASE m < n
  <2> DEFINE ws == Append(vs, t)
  <2>1. Len(vs) = m
    BY <1>2, <1>3, <1>6
  <2>2. ws \in Seq(Int) /\ Len(ws) = m + 1 /\ ws[m + 1] = t /\ \A k \in 1..m : ws[k] = vs[k]
    BY <2>1, AppendProperties
  <2>3. \A l \in 1..m : \E j \in 1..m : pick[j] = l
    <3>1. IsFiniteSet(1..m)
      BY <1>2, FS_Interval
    <3>2. pick \in Injection(1..m, 1..m)
      BY <1>5, <2>1
    <3>3. pick \in Surjection(1..m, 1..m)
      BY <3>1, <3>2, FS_Injection, Zenon
    <3> QED BY <3>3 DEF Surjection
  <2> HIDE DEF ws
  <2>4. (m + 1) - 1 = m /\ m + 1 \in Nat \ {0}
    BY <1>2
  <2>5. Sorted(ws, m)
    BY <1>3, <2>1, <2>2 DEF Sorted
  <2>6. Picks(ws, m, ss, pick)
    BY <1>4, <2>1, <2>2 DEF Picks
  <2>7. Leaves(ws, m, ss, pick, m + 1)
    BY <2>3 DEF Leaves
  <2>8. /\ Timer!Sink(ws) \in Seq(Int) /\ Len(Timer!Sink(ws)) = m + 1 /\ Sorted(Timer!Sink(ws), m + 1)
        /\ \E p : Picks(Timer!Sink(ws), m + 1, tt, p) /\ Leaves(Timer!Sink(ws), m + 1, tt, p, m + 1)
    <3> HIDE DEF m
    <3>1. Sorted(ws, (m + 1) - 1) /\ Picks(ws, (m + 1) - 1, ss, pick) /\ Leaves(ws, (m + 1) - 1, ss, pick, m + 1)
      BY <2>4, <2>5, <2>6, <2>7
    <3> QED BY <2>2, <2>4, <3>1, Joins
  <2>9. Len(Timer!Sink(ws)) = IF n < Len(tt) THEN n ELSE Len(tt)
    BY <1>1, <1>2, <1>6, <2>8
  <2>10. new = Timer!Sink(ws)
    BY <1>6 DEF ws
  <2> HIDE DEF m, tt
  <2>11. KBest(Timer!Sink(ws), n, tt)
    BY <2>8, <2>9 DEF KBest
  <2> QED BY <2>8, <2>10, <2>11 DEF tt
<1>7. CASE ~(m < n) /\ t < vs[n]
  <2> DEFINE ws == [vs EXCEPT ![n] = t]
  <2>1. Len(vs) = n /\ n \in 1..m
    BY <1>2, <1>3, <1>7
  <2>2. ws \in Seq(Int) /\ Len(ws) = n /\ ws[n] = t /\ \A k \in 1..n-1 : ws[k] = vs[k]
    <3>1. ws \in Seq(Int) /\ Len(ws) = n /\ \A k \in 1..Len(vs) : ws[k] = IF k = n THEN t ELSE vs[k]
      BY <2>1, ExceptSeq
    <3> QED BY <2>1, <3>1
  <2> HIDE DEF ws
  <2>3. \A a, b \in 1..n : a < b => vs[a] <= vs[b]
    BY <1>3, <2>1 DEF Sorted
  <2>4. Sorted(ws, n - 1)
    BY <2>1, <2>2, <2>3 DEF Sorted
  <2> DEFINE rest == [k \in 1..n-1 |-> pick[k]]
  <2>5. rest \in [1..n-1 -> 1..m] /\ \A k \in 1..n-1 : rest[k] = pick[k]
    BY <1>5, <2>1
  <2> HIDE DEF rest
  <2>6. Picks(ws, n - 1, ss, rest)
    <3>1. \A j, k \in 1..n-1 : rest[j] = rest[k] => j = k
      BY <1>5, <2>1, <2>5
    <3>2. rest \in Injection(1..n-1, 1..m)
      BY <2>5, <3>1, Zenon DEF Injection, IsInjective
    <3>3. \A k \in 1..n-1 : ws[k] = ss[rest[k]]
      <4>1. \A k \in 1..n-1 : k \in 1..m /\ k \in 1..n
        BY <2>1
      <4> QED BY <1>5, <2>1, <2>2, <2>5, <4>1
    <3> QED BY <3>2, <3>3 DEF Picks
  <2>7. Leaves(ws, n - 1, ss, rest, n)
    <3> SUFFICES ASSUME NEW l \in 1..m, NEW k \in 1..n, \A j \in 1..n-1 : rest[j] # l PROVE ws[k] <= ss[l]
      BY DEF Leaves
    <3>1. ws[k] <= vs[n]
      BY <1>2, <1>7, <2>1, <2>2, <2>3
    <3>2. vs[n] <= ss[l]
      <4>1. CASE pick[n] = l
        BY <1>2, <1>5, <2>1, <4>1
      <4>2. CASE pick[n] # l
        <5>1. ASSUME NEW j \in 1..n PROVE pick[j] # l
          <6>1. CASE j = n
            BY <4>2, <6>1
          <6>2. CASE j # n
            <7>1. j \in 1..n-1
              BY <6>2
            <7> QED BY <2>5, <7>1
          <6> QED BY <6>1, <6>2
        <5> QED BY <1>4, <2>1, <5>1 DEF Leaves
      <4> QED BY <4>1, <4>2
    <3>3. ws[k] \in Int /\ vs[n] \in Int /\ ss[l] \in Int
      BY <1>2, <2>1, <2>2
    <3> QED BY <3>1, <3>2, <3>3
  <2>8. /\ Timer!Sink(ws) \in Seq(Int) /\ Len(Timer!Sink(ws)) = n /\ Sorted(Timer!Sink(ws), n)
        /\ \E p : Picks(Timer!Sink(ws), n, tt, p) /\ Leaves(Timer!Sink(ws), n, tt, p, n)
    BY <2>2, <2>4, <2>6, <2>7, Joins
  <2>9. Len(Timer!Sink(ws)) = IF n < Len(tt) THEN n ELSE Len(tt)
    BY <1>1, <1>2, <1>7, <2>8
  <2>10. new = Timer!Sink(ws)
    BY <1>7 DEF ws
  <2> HIDE DEF m, tt
  <2>11. KBest(Timer!Sink(ws), n, tt)
    BY <2>8, <2>9 DEF KBest
  <2> QED BY <2>8, <2>10, <2>11 DEF tt
<1>8. CASE ~(m < n) /\ ~(t < vs[n])
  <2>1. Len(vs) = n /\ n \in 1..m /\ new = vs
    BY <1>2, <1>3, <1>8
  <2>2. \A k \in 1..n : vs[k] <= t
    BY <1>2, <1>3, <1>8, <2>1 DEF Sorted
  <2>3. Picks(vs, n, tt, pick)
    <3>1. pick \in [1..n -> 1..m+1] /\ \A j, k \in 1..n : pick[j] = pick[k] => j = k
      BY <1>5, <2>1
    <3>2. pick \in Injection(1..n, 1..m+1)
      BY <3>1, Zenon DEF Injection, IsInjective
    <3> QED BY <1>1, <1>5, <2>1, <3>2 DEF Picks
  <2>4. Leaves(vs, n, tt, pick, n)
    <3> SUFFICES ASSUME NEW l \in 1..m+1, NEW k \in 1..n, \A j \in 1..n : pick[j] # l PROVE vs[k] <= tt[l]
      BY <1>1 DEF Leaves
    <3>1. CASE l = m + 1
      BY <1>1, <2>2, <3>1
    <3>2. CASE l # m + 1
      <4>1. l \in 1..m
        BY <1>2, <3>2
      <4> QED BY <1>1, <1>4, <2>1, <4>1 DEF Leaves
    <3> QED BY <3>1, <3>2
  <2>5. Len(vs) = (IF n < Len(tt) THEN n ELSE Len(tt)) /\ Sorted(vs, n)
    BY <1>1, <1>2, <1>3, <2>1
  <2> HIDE DEF m, tt
  <2> QED BY <2>1, <2>3, <2>4, <2>5 DEF KBest, tt
<1> QED BY <1>6, <1>7, <1>8

\* Fcyc returns the shortest of the shortest.
LEMMA FirstIsBest ==
  ASSUME NEW vs \in Seq(Int), NEW n \in Nat \ {0}, NEW ss \in Seq(Int), ss # << >>, KBest(vs, n, ss)
  PROVE  vs[1] \in Int /\ KBest(<<vs[1]>>, 1, ss)
<1>1. Len(ss) \in Nat /\ Len(ss) > 0 /\ \A l \in 1..Len(ss) : ss[l] \in Int
  BY EmptySeq, LenProperties, ElementOfSeq
<1>2. Len(vs) \in Nat /\ 1 \in 1..Len(vs) /\ \A k \in 1..Len(vs) : vs[k] \in Int
  <2>1. Len(vs) = IF n < Len(ss) THEN n ELSE Len(ss)
    BY DEF KBest
  <2> QED BY <1>1, <2>1, ElementOfSeq
<1>3. \A k \in 1..Len(vs) : vs[1] <= vs[k]
  <2>1. Sorted(vs, Len(vs))
    BY DEF KBest
  <2> QED BY <1>2, <2>1 DEF Sorted
<1>4. PICK pick : Picks(vs, Len(vs), ss, pick) /\ Leaves(vs, Len(vs), ss, pick, Len(vs))
  BY DEF KBest
<1>5. pick \in [1..Len(vs) -> 1..Len(ss)] /\ \A k \in 1..Len(vs) : vs[k] = ss[pick[k]]
  BY <1>4, Zenon DEF Picks, Injection
<1> DEFINE first == <<vs[1]>>
           one == [k \in 1..1 |-> pick[1]]
<1>6. Len(first) = 1 /\ first[1] = vs[1] /\ one \in [1..1 -> 1..Len(ss)] /\ one[1] = pick[1]
  BY <1>2, <1>5, SMTT(30)
<1> HIDE DEF first, one
<1>7. Picks(first, 1, ss, one)
  <2>1. \A j, k \in 1..1 : one[j] = one[k] => j = k
    OBVIOUS
  <2>2. one \in Injection(1..1, 1..Len(ss))
    BY <1>6, <2>1, Zenon DEF Injection, IsInjective
  <2> QED BY <1>2, <1>5, <1>6, <2>2 DEF Picks
<1>8. Leaves(first, 1, ss, one, 1)
  <2> SUFFICES ASSUME NEW l \in 1..Len(ss), one[1] # l PROVE first[1] <= ss[l]
    BY DEF Leaves
  <2>1. CASE \E k \in 1..Len(vs) : pick[k] = l
    BY <1>3, <1>5, <1>6, <2>1
  <2>2. CASE \A k \in 1..Len(vs) : pick[k] # l
    BY <1>2, <1>4, <1>6, <2>2 DEF Leaves
  <2> QED BY <2>1, <2>2
<1>9. Sorted(first, 1) /\ 1 = IF 1 < Len(ss) THEN 1 ELSE Len(ss)
  <2>1. \A j, k \in 1..1 : ~(j < k)
    OBVIOUS
  <2>2. 1 = IF 1 < Len(ss) THEN 1 ELSE Len(ss)
    <3>1. \A n1 \in Nat : n1 > 0 => 1 = IF 1 < n1 THEN 1 ELSE n1
      OBVIOUS
    <3> QED BY <1>1, <3>1, Zenon
  <2> QED BY <2>1, <2>2, Zenon DEF Sorted
<1> QED BY <1>2, <1>6, <1>7, <1>8, <1>9 DEF KBest, first

\* What Timer!MeasuresBest says is what the invariant says.
LEMMA BestIsShortest == \A vs, n : KBest(vs, n, samples) <=> Timer!Shortest(vs, n)
<1> SUFFICES ASSUME NEW vs, NEW n PROVE KBest(vs, n, samples) <=> Timer!Shortest(vs, n)
  OBVIOUS
<1> QED BY Zenon DEF KBest, Timer!Shortest, Sorted, Picks, Leaves, Injection, Timer!Injection, IsInjective, Timer!IsInjective

LEMMA ImpliesMeasuresBest == TimerInv => Timer!MeasuresBest /\ Timer!ClearsInside
BY BestIsShortest, Zenon DEF TimerInv, Sampled, Clears, Timer!MeasuresBest, Timer!Faithful, Exact

-----------------------------------------------------------------------------
\* The steps of fcyc.

LEMMA Constants ==
  ASSUME Timer!FcycAssumption
  PROVE  /\ Word \in Nat \ {0} /\ TickCost \in Nat /\ Cycle \in Nat \ {0}
         /\ \A d \in Durations : d \in Nat /\ d + TickCost < Cycle
         /\ \A k \in Ks : k \in Nat \ {0}
<1>1. \A w \in Nat \ {0} : w * w \in Nat \ {0}
  OBVIOUS
<1> QED BY <1>1 DEF Timer!FcycAssumption, Cycle

\* Time passes.
LEMMA Advances ==
  ASSUME Timer!FcycAssumption, TimerTypes, NEW n \in Nat, NEW e \in Nat, Timer!Advance(n), cyc' = cyc
  PROVE  counter' \in 0..Cycle-1 /\ (Advanced(e) => Advanced(e + n)')
<1>1. Cycle \in Nat \ {0} /\ counter \in Nat
  BY Constants DEF TimerTypes
<1>2. counter' = (counter + n) % Cycle
  BY DEF Timer!Advance, Cycle
<1> DEFINE a == counter + n
           d == a \div Cycle
<1>3. a \in Nat
  BY <1>1
<1>4. counter' \in 0..Cycle-1 /\ d \in Nat /\ a = Cycle * d + counter'
  <2> HIDE DEF a
  <2> QED BY <1>1, <1>2, <1>3, Remainder DEF a
<1>5. ASSUME Advanced(e) PROVE Advanced(e + n)'
  <2>1. PICK q \in Nat : counter + q * Cycle = cyc.hi * Word + cyc.lo + e
    BY <1>5 DEF Advanced
  <2> HIDE DEF d
  <2> DEFINE s == cyc.hi * Word + cyc.lo
  <2>2. s \in Int /\ s' = s
    BY Constants DEF TimerTypes
  <2> HIDE DEF s
  <2>3. (q + d) * Cycle = q * Cycle + Cycle * d /\ q + d \in Nat
    BY <1>1, <1>4, <2>1
  <2>4. q * Cycle \in Int /\ Cycle * d \in Int
    BY <1>1, <1>4, <2>1
  <2>5. counter' + (q + d) * Cycle = s + (e + n)
    <3>1. counter + q * Cycle = s + e /\ counter + n = Cycle * d + counter'
      BY <1>4, <2>1 DEF s, a
    <3>2. \A b, b1, x, y, z, e1, n1 \in Int : b + x = z + e1 /\ b + n1 = y + b1 => b1 + (x + y) = z + (e1 + n1)
      OBVIOUS
    <3>3. counter \in Int /\ counter' \in Int /\ e \in Int /\ n \in Int
      BY <1>1, <1>4
    <3>4. counter' + (q * Cycle + Cycle * d) = s + (e + n)
      BY <2>2, <2>4, <3>1, <3>3
    <3> QED BY <2>3, <3>4, Zenon
  <2>6. Cycle' = Cycle
    BY DEF Cycle
  <2> QED BY <2>2, <2>3, <2>5, <2>6 DEF Advanced, s
<1> QED BY <1>4, <1>5

\* get_counter gets what the counter has advanced, when that is less than a
\* round of the high word.
LEMMA Gets ==
  ASSUME Timer!FcycAssumption, TimerTypes, NEW e \in Nat, e < Cycle, Advanced(e), Timer!GetCounter
  PROVE  time' = e
<1> DEFINE ch == counter \div Word
           cl == counter % Word
           s == cyc.hi * Word + cyc.lo
           c == ch * Word + cl
<1>1. time' = WordDiff(Word, ch, cl, cyc.hi, cyc.lo)
  BY DEF Timer!GetCounter, WordDiff
<1>2. Word \in Nat \ {0} /\ Cycle = Word * Word /\ Cycle \in Nat \ {0} /\ counter \in 0..Word*Word-1
  BY Constants DEF TimerTypes, Cycle
<1>3. cl \in 0..Word-1 /\ ch \in 0..Word-1 /\ counter = c
  BY <1>2, Halves
<1>4. cyc.hi \in 0..Word-1 /\ cyc.lo \in 0..Word-1
  BY DEF TimerTypes
<1> HIDE DEF ch, cl, s
<1>5. time' = IF c - s >= 0 THEN c - s ELSE c - s + Word * Word
  <2>1. WordDiff(Word, ch, cl, cyc.hi, cyc.lo) = IF (ch * Word + cl) - (cyc.hi * Word + cyc.lo) >= 0
                                                THEN (ch * Word + cl) - (cyc.hi * Word + cyc.lo)
                                                ELSE (ch * Word + cl) - (cyc.hi * Word + cyc.lo) + Word * Word
    BY <1>2, <1>3, <1>4, DoubleWord
  <2> QED BY <1>1, <2>1, Zenon DEF s
<1>6. PICK q \in Nat : counter + q * Cycle = s + e
  BY DEF Advanced, s
<1>7. s \in 0..Cycle-1
  <2>1. \A w \in Nat : \A h \in 0..w-1, l \in 0..w-1 : h * w + l \in Nat /\ h * w <= (w - 1) * w /\ (w - 1) * w = w * w - w
    OBVIOUS
  <2>2. /\ cyc.hi * Word + cyc.lo \in Nat /\ cyc.hi * Word <= (Word - 1) * Word
        /\ (Word - 1) * Word = Word * Word - Word
    BY <1>2, <1>4, <2>1
  <2> QED BY <1>2, <1>4, <2>2 DEF s
<1> HIDE DEF c
<1>8. c \in 0..Cycle-1 /\ c + q * Cycle = s + e
  BY <1>2, <1>3, <1>6
<1>9. q * Cycle \in Nat /\ q * Cycle < 2 * Cycle
  BY <1>2, <1>6, <1>7, <1>8
<1>10. q = 0 \/ q = 1
  BY <1>2, <1>9
<1>11. CASE q = 0
  <2>1. c = s + e
    BY <1>2, <1>8, <1>11
  <2> QED BY <1>5, <1>7, <1>8, <2>1
<1>12. CASE q = 1
  <2>1. c + Cycle = s + e
    BY <1>2, <1>8, <1>12
  <2> QED BY <1>2, <1>5, <1>7, <1>8, <2>1
<1> QED BY <1>10, <1>11, <1>12

USE DEF Steps, Measurement, Timer!Quiet
LEMMA InitTimer == ASSUME Timer!FcycAssumption, Timer!Init PROVE TimerInv
<1>1. TimerTypes
  <2>1. counter \in 0..Cycle-1
    BY DEF Timer!Init, Cycle
  <2>2. cyc \in [hi : 0..Word-1, lo : 0..Word-1]
    BY Constants DEF Timer!Init
  <2>3. << >> \in Seq(Int) /\ << >> \in Seq(Measurement) /\ Len(<< >>) = 0
    BY EmptySeq
  <2>4. run \in Measurement
    BY DEF Timer!Init
  <2> QED BY <2>1, <2>2, <2>3, <2>4 DEF Timer!Init, TimerTypes
<1>2. Measures
  BY DEF Timer!Init, Measures
<1>3. Sampled
  BY DEF Timer!Init, Sampled
<1>4. Clears
  BY DEF Timer!Init, Clears, Timer!ClearsInside
<1> QED BY <1>1, <1>2, <1>3, <1>4 DEF TimerInv

\* A step that measures leaves the samples alone.
LEMMA SampledKept ==
  ASSUME Sampled, step # "idle", step' # "idle", step' # "test",
         UNCHANGED <<values, kbest, samples, runs, compensate>>
  PROVE  Sampled'
<1>1. KBest(values, kbest, samples) /\ \A n \in 1..Len(samples) : Exact(samples[n], runs[n])
  BY DEF Sampled
<1>2. KBest(values, kbest, samples)'
  BY <1>1 DEF KBest, Sorted, Picks, Leaves
<1>3. (\A n \in 1..Len(samples) : Exact(samples[n], runs[n]))'
  BY <1>1 DEF Exact
<1> QED BY <1>2, <1>3 DEF Sampled

\* The Timer!settings and the Timer!cache.
LEMMA SettingStep == ASSUME TimerInv, Timer!Set \/ Timer!SetCacheSize PROVE TimerInv'
<1>1. CASE Timer!Set
  <2>1. TimerTypes'
    BY <1>1 DEF Timer!Set, TimerInv, TimerTypes, Cycle, Timer!sampler, Timer!history
  <2>2. Measures'
    BY <1>1 DEF Timer!Set, TimerInv, Measures
  <2>3. Sampled'
    BY <1>1 DEF Timer!Set, TimerInv, Sampled, KBest, Sorted, Picks, Leaves, Timer!history
  <2>4. Clears'
    BY <1>1 DEF Timer!Set, TimerInv, Clears, Timer!ClearsInside, Timer!cache
  <2> QED BY <2>1, <2>2, <2>3, <2>4 DEF TimerInv
<1>2. CASE Timer!SetCacheSize
  <2>1. TimerTypes'
    BY <1>2 DEF Timer!SetCacheSize, TimerInv, TimerTypes, Cycle, Timer!sampler, Timer!history, Timer!settings
  <2>2. Measures'
    BY <1>2 DEF Timer!SetCacheSize, TimerInv, Measures
  <2>3. Sampled'
    BY <1>2 DEF Timer!SetCacheSize, TimerInv, Sampled, KBest, Sorted, Picks, Leaves, Timer!history
  <2>4. Clears'
    BY <1>2 DEF Timer!SetCacheSize, TimerInv, Clears, Timer!ClearsInside
  <2> QED BY <2>1, <2>2, <2>3, <2>4 DEF TimerInv
<1> QED BY <1>1, <1>2

LEMMA NothingIsBest == ASSUME NEW n \in Nat \ {0} PROVE KBest(<< >>, n, << >>)
<1>1. Len(<< >>) = 0 /\ 1..0 = {}
  BY EmptySeq
<1> DEFINE none == [k \in 1..0 |-> 0]
<1>2. none \in Injection(1..0, 1..0)
  <2>1. none \in [1..0 -> 1..0] /\ DOMAIN none = {}
    BY <1>1
  <2> QED BY <2>1, Zenon DEF Injection, IsInjective
<1> HIDE DEF none
<1>3. Picks(<< >>, 0, << >>, none) /\ Leaves(<< >>, 0, << >>, none, 0) /\ Sorted(<< >>, 0)
  BY <1>1, <1>2 DEF Picks, Leaves, Sorted
<1> QED BY <1>1, <1>3 DEF KBest

LEMMA CallStep == ASSUME Timer!FcycAssumption, TimerInv, Timer!Call PROVE TimerInv'
<1>1. << >> \in Seq(Int) /\ << >> \in Seq(Measurement) /\ Len(<< >>) = 0
  BY EmptySeq
<1>2. TimerTypes'
  BY <1>1 DEF Timer!Call, Timer!NextRun, TimerInv, TimerTypes, Cycle, Timer!settings
<1>3. Measures'
  BY DEF Timer!Call, Timer!NextRun, TimerInv, Measures
<1>4. Sampled'
  <2>1. KBest(<< >>, kbest, << >>)
    BY Constants, NothingIsBest DEF TimerInv, TimerTypes
  <2>2. KBest(<< >>, kbest, << >>)'
    BY <2>1 DEF Timer!Call, Timer!settings, KBest, Sorted, Picks, Leaves
  <2>3. step' \notin {"idle", "test"} /\ values' = << >> /\ samples' = << >>
    BY DEF Timer!Call, Timer!NextRun
  <2> QED BY <1>1, <2>2, <2>3 DEF Sampled
<1>5. Clears'
  BY DEF Timer!Call, Timer!NextRun, TimerInv, Clears, Timer!ClearsInside, Timer!cache, Timer!settings
<1> QED BY <1>2, <1>3, <1>4, <1>5 DEF TimerInv

LEMMA ClearStep == ASSUME TimerInv, Timer!Clear PROVE TimerInv'
<1>1. TimerTypes'
  BY DEF Timer!Clear, TimerInv, TimerTypes, Cycle, Timer!settings, Timer!sampler, Timer!history
<1>2. Measures'
  BY DEF Timer!Clear, TimerInv, Measures
<1>3. Sampled'
  BY SampledKept DEF Timer!Clear, TimerInv, Timer!sampler, Timer!settings, Timer!history
<1>4. Clears'
  BY DEF Timer!Clear, TimerInv, Clears, Timer!ClearsInside
<1> QED BY <1>1, <1>2, <1>3, <1>4 DEF TimerInv

LEMMA StartStep == ASSUME Timer!FcycAssumption, TimerInv, Timer!StartTimes \/ Timer!StartCounter PROVE TimerInv'
<1>1. CASE Timer!StartTimes
  <2>1. TimerTypes'
    BY <1>1 DEF Timer!StartTimes, TimerInv, TimerTypes, Cycle, Timer!settings, Timer!sampler, Timer!history
  <2>2. Measures'
    BY <1>1 DEF Timer!StartTimes, TimerInv, Measures, Timer!settings
  <2>3. Sampled'
    BY <1>1, SampledKept DEF Timer!StartTimes, TimerInv, Timer!sampler, Timer!settings, Timer!history
  <2>4. Clears'
    BY <1>1 DEF Timer!StartTimes, TimerInv, Clears, Timer!ClearsInside, Timer!cache
  <2> QED BY <2>1, <2>2, <2>3, <2>4 DEF TimerInv
<1>2. CASE Timer!StartCounter
  <2>1. Word \in Nat \ {0} /\ counter \in 0..Word*Word-1
    BY Constants DEF TimerInv, TimerTypes, Cycle
  <2>2. /\ counter % Word \in 0..Word-1 /\ counter \div Word \in 0..Word-1
        /\ counter = (counter \div Word) * Word + (counter % Word)
    BY <2>1, Halves
  <2>3. TimerTypes'
    BY <1>2, <2>2 DEF Timer!StartCounter, TimerInv, TimerTypes, Cycle, Timer!settings, Timer!sampler, Timer!history
  <2>4. Measures'
    <3>1. run' = run /\ run.cycles = 0 /\ (~compensate => run.interrupts = 0) /\ (compensate => ticks = run.interrupts)
      BY <1>2 DEF Timer!StartCounter, TimerInv, Measures
    <3>2. Delay(0)'
      BY <1>2, <3>1 DEF Timer!StartCounter, Delay, Timer!settings
    <3>3. Advanced(0)'
      <4>1. cyc'.hi = counter \div Word /\ cyc'.lo = counter % Word /\ counter' = counter /\ counter \in Int
        BY <1>2, <2>1 DEF Timer!StartCounter
      <4>2. cyc'.hi * Word + cyc'.lo + 0 = counter
        BY <2>1, <2>2, <4>1
      <4>3. 0 * Cycle = 0 /\ Cycle' = Cycle
        BY Constants DEF Cycle
      <4> QED BY <4>1, <4>2, <4>3 DEF Advanced
    <3>4. run'.cycles + 0 = 0
      BY <3>1
    <3> QED BY <1>2, <3>1, <3>2, <3>3, <3>4 DEF Timer!StartCounter, Measures, Timer!settings
  <2>5. Sampled'
    BY <1>2, SampledKept DEF Timer!StartCounter, TimerInv, Timer!sampler, Timer!settings, Timer!history
  <2>6. Clears'
    BY <1>2 DEF Timer!StartCounter, TimerInv, Clears, Timer!ClearsInside, Timer!cache
  <2> QED BY <2>3, <2>4, <2>5, <2>6 DEF TimerInv
<1> QED BY <1>1, <1>2

LEMMA RunStep == ASSUME Timer!FcycAssumption, TimerInv, Timer!RunF PROVE TimerInv'
<1>1. PICK n \in Durations : Timer!Advance(n) /\ run' = [run EXCEPT !.cycles = n]
  BY DEF Timer!RunF
<1>2. n \in Nat /\ run \in Measurement /\ run' \in Measurement /\ run'.cycles = n /\ run'.interrupts = run.interrupts
  BY <1>1, Constants DEF TimerInv, TimerTypes
<1>3. PICK d \in Nat : Delay(d) /\ Advanced(run.cycles + d)
  BY DEF Timer!RunF, TimerInv, Measures
<1>4. run.cycles + d = d
  BY <1>3 DEF Timer!RunF, TimerInv, Measures
<1>5. counter' \in 0..Cycle-1 /\ Advanced(d + n)'
  BY <1>1, <1>2, <1>3, <1>4, Advances DEF Timer!RunF, TimerInv
<1>6. TimerTypes'
  <2>1. Cycle' = Cycle
    BY DEF Cycle
  <2> QED BY <1>2, <1>5, <2>1 DEF Timer!RunF, TimerInv, TimerTypes, Timer!settings, Timer!sampler, Timer!history
<1>7. Measures'
  <2>1. d + n = run'.cycles + d
    BY <1>2, <1>3
  <2>2. Delay(d)'
    BY <1>2, <1>3 DEF Delay, Timer!RunF, Timer!settings
  <2> QED BY <1>2, <1>3, <1>5, <2>1, <2>2 DEF Timer!RunF, TimerInv, Measures, Timer!settings
<1>8. Sampled'
  BY SampledKept DEF Timer!RunF, TimerInv, Timer!sampler, Timer!settings, Timer!history
<1>9. Clears'
  BY DEF Timer!RunF, TimerInv, Clears, Timer!ClearsInside, Timer!cache
<1> QED BY <1>6, <1>7, <1>8, <1>9 DEF TimerInv

\* An interrupt adds its cost to a measurement under way, if it comes before
\* the counter is read for the second time and after the first.
LEMMA TickStep == ASSUME Timer!FcycAssumption, TimerInv, Timer!Tick PROVE TimerInv'
<1>1. TickCost \in Nat /\ run \in Measurement /\ run.interrupts = 0 /\ step' = step /\ Timer!Advance(TickCost) /\ cyc' = cyc
      /\ step \in {"counter", "run", "get", "times"}
  BY Constants DEF Timer!Tick, TimerInv, TimerTypes
<1>2. run' \in Measurement /\ run'.cycles = run.cycles /\ run'.interrupts = 1 /\ run.cycles \in Nat
  BY <1>1 DEF Timer!Tick
<1>3. counter' \in 0..Cycle-1 /\ \A e \in Nat : Advanced(e) => Advanced(e + TickCost)'
  BY <1>1, Advances DEF TimerInv
<1>4. TimerTypes'
  <2>1. Cycle' = Cycle
    BY DEF Cycle
  <2>2. ticks' \in Nat
    BY DEF Timer!Tick, TimerInv, TimerTypes
  <2> QED BY <1>2, <1>3, <2>1, <2>2 DEF Timer!Tick, TimerInv, TimerTypes, Timer!settings, Timer!sampler, Timer!history
<1>5. \A d : Delay(d) => d = 0
  BY <1>1 DEF Delay
<1>6. Delay(TickCost)' /\ (compensate => Delay(0)')
  BY <1>2 DEF Delay, Timer!Tick, Timer!settings
<1>7. step \in {"run", "get"} => (\E d \in Nat : Delay(d) /\ Advanced(run.cycles + d))'
  <2> SUFFICES ASSUME step \in {"run", "get"} PROVE (\E d \in Nat : Delay(d) /\ Advanced(run.cycles + d))'
    OBVIOUS
  <2>1. Advanced(run.cycles + 0) /\ run.cycles + 0 = run.cycles
    BY <1>2, <1>5 DEF TimerInv, Measures
  <2>2. PICK q \in Nat : counter' + q * Cycle = cyc.hi * Word + cyc.lo + (run.cycles + TickCost)
    <3> DEFINE e == run.cycles
    <3> HIDE DEF e
    <3>1. \E q \in Nat : counter' + q * Cycle = cyc'.hi * Word + cyc'.lo + (e + TickCost)
      BY <1>2, <1>3, <2>1 DEF e, Advanced, Cycle
    <3> QED BY <1>1, <3>1 DEF e
  <2>3. Advanced(run.cycles + TickCost)'
    BY <1>1, <1>2, <2>2 DEF Advanced, Cycle
  <2> QED BY <1>1, <1>6, <2>3
<1>8. step = "times" => (\E d \in Nat : Delay(d) /\ time = run.cycles + d)'
  <2> SUFFICES ASSUME step = "times" PROVE (\E d \in Nat : Delay(d) /\ time = run.cycles + d)'
    OBVIOUS
  <2>1. time = run.cycles + 0 /\ compensate
    BY <1>5 DEF TimerInv, Measures
  <2> QED BY <1>2, <1>6, <2>1 DEF Timer!Tick
<1>9. compensate' = compensate /\ (compensate => ticks = 0 /\ ticks' = ticks + 1)
  BY <1>1 DEF Timer!Tick, TimerInv, Measures, Timer!settings
<1>10. Measures'
  BY <1>1, <1>2, <1>7, <1>8, <1>9 DEF TimerInv, Measures
<1>11. Sampled'
  BY <1>1, SampledKept DEF Timer!Tick, TimerInv, Timer!sampler, Timer!settings, Timer!history
<1>12. Clears'
  BY <1>1 DEF Timer!Tick, TimerInv, Clears, Timer!ClearsInside, Timer!cache
<1> QED BY <1>4, <1>10, <1>11, <1>12 DEF TimerInv

LEMMA GetStep == ASSUME Timer!FcycAssumption, TimerInv, Timer!GetCounter \/ Timer!GetTimes PROVE TimerInv'
<1>1. run \in Measurement /\ TickCost \in Nat /\ time \in Int /\ ticks \in Nat /\ run.cycles \in Nat
  BY Constants DEF TimerInv, TimerTypes
<1>2. CASE Timer!GetCounter
  <2>1. PICK d \in Nat : Delay(d) /\ Advanced(run.cycles + d)
    BY <1>2 DEF Timer!GetCounter, TimerInv, Measures
  <2>2. run.cycles + d \in Nat /\ run.cycles + d < Cycle
    <3>1. run.cycles + TickCost < Cycle /\ Cycle \in Nat
      BY <1>2, Constants DEF Timer!GetCounter, TimerInv, Measures
    <3>2. d = 0 \/ d = TickCost
      BY <2>1 DEF Delay
    <3> QED BY <1>1, <2>1, <3>1, <3>2
  <2>3. time' = run.cycles + d
    BY <1>2, <2>1, <2>2, Gets DEF TimerInv
  <2>4. TimerTypes'
    BY <1>2, <2>2, <2>3 DEF Timer!GetCounter, TimerInv, TimerTypes, Cycle, Timer!settings, Timer!sampler, Timer!history
  <2>5. Measures'
    <3>1. CASE compensate
      <4>1. Delay(d)' /\ step' = "times" /\ run' = run /\ ticks' = ticks /\ compensate' /\ ticks = run.interrupts
        BY <1>2, <2>1, <3>1 DEF Timer!GetCounter, Delay, Timer!settings, TimerInv, Measures
      <4> QED BY <2>1, <2>3, <4>1 DEF Measures
    <3>2. CASE ~compensate
      <4>1. step' = "add" /\ run' = run /\ ~compensate'
        BY <1>2, <3>2 DEF Timer!GetCounter, Timer!settings, TimerInv, TimerTypes
      <4>2. run.interrupts = 0 => d = 0
        BY <2>1 DEF Delay
      <4>3. Exact(time, run)'
        BY <1>1, <2>1, <2>3, <4>1, <4>2 DEF Exact
      <4> QED BY <4>1, <4>3 DEF Measures
    <3> QED BY <3>1, <3>2
  <2>6. Sampled'
    BY <1>2, SampledKept DEF Timer!GetCounter, TimerInv, Timer!sampler, Timer!settings, Timer!history
  <2>7. Clears'
    BY <1>2 DEF Timer!GetCounter, TimerInv, Clears, Timer!ClearsInside, Timer!cache
  <2> QED BY <2>4, <2>5, <2>6, <2>7 DEF TimerInv
<1>3. CASE Timer!GetTimes
  <2>1. PICK d \in Nat : Delay(d) /\ time = run.cycles + d
    BY <1>3 DEF Timer!GetTimes, TimerInv, Measures
  <2>2. compensate /\ ticks = run.interrupts /\ time' = time - ticks * TickCost
    BY <1>3 DEF Timer!GetTimes, TimerInv, Measures
  <2>3. time' \in Int /\ time' <= run.cycles /\ (run.interrupts = 0 => time' = run.cycles)
    <3>1. CASE run.interrupts = 0
      <4>1. 0 * TickCost = 0 /\ d = 0
        BY <1>1, <2>1, <3>1 DEF Delay
      <4> QED BY <1>1, <2>1, <2>2, <3>1, <4>1
    <3>2. CASE run.interrupts = 1
      <4>1. 1 * TickCost = TickCost /\ (d = 0 \/ d = TickCost)
        BY <1>1, <2>1 DEF Delay
      <4> QED BY <1>1, <2>1, <2>2, <3>2, <4>1
    <3> QED BY <1>1, <3>1, <3>2
  <2>4. TimerTypes'
    BY <1>3, <2>3 DEF Timer!GetTimes, TimerInv, TimerTypes, Cycle, Timer!settings, Timer!sampler, Timer!history
  <2>5. Measures'
    <3>1. step' = "add" /\ run' = run /\ compensate'
      BY <1>3, <2>2 DEF Timer!GetTimes, Timer!settings
    <3>2. Exact(time, run)'
      BY <2>3, <3>1 DEF Exact
    <3> QED BY <3>1, <3>2 DEF Measures
  <2>6. Sampled'
    BY <1>3, SampledKept DEF Timer!GetTimes, TimerInv, Timer!sampler, Timer!settings, Timer!history
  <2>7. Clears'
    BY <1>3 DEF Timer!GetTimes, TimerInv, Clears, Timer!ClearsInside, Timer!cache
  <2> QED BY <2>4, <2>5, <2>6, <2>7 DEF TimerInv
<1> QED BY <1>2, <1>3

LEMMA AddSampleStep == ASSUME Timer!FcycAssumption, TimerInv, Timer!AddSample PROVE TimerInv'
<1>1. /\ kbest \in Nat \ {0} /\ values \in Seq(Int) /\ samples \in Seq(Int) /\ time \in Int /\ run \in Measurement
      /\ runs \in Seq(Measurement) /\ Len(runs) = Len(samples) /\ samplecount = Len(samples) /\ Len(samples) \in Nat
  BY Constants, LenProperties DEF TimerInv, TimerTypes
<1>2. KBest(values, kbest, samples) /\ \A n \in 1..Len(samples) : Exact(samples[n], runs[n])
  BY DEF Timer!AddSample, TimerInv, Sampled
<1>3. values' \in Seq(Int) /\ KBest(values', kbest, Append(samples, time))
  <2>1. values' = IF Len(samples) < kbest THEN Timer!Sink(Append(values, time))
                  ELSE IF time < values[kbest] THEN Timer!Sink([values EXCEPT ![kbest] = time]) ELSE values
    BY <1>1 DEF Timer!AddSample
  <2> QED BY <1>1, <1>2, <2>1, Adds
<1>4. samples' = Append(samples, time) /\ runs' = Append(runs, run) /\ UNCHANGED <<kbest, compensate>>
  BY DEF Timer!AddSample, Timer!settings
<1>5. /\ samples' \in Seq(Int) /\ Len(samples') = Len(samples) + 1 /\ samples'[Len(samples) + 1] = time
      /\ \A n \in 1..Len(samples) : samples'[n] = samples[n]
  BY <1>1, <1>4, AppendProperties
<1>6. /\ runs' \in Seq(Measurement) /\ Len(runs') = Len(samples) + 1 /\ runs'[Len(samples) + 1] = run
      /\ \A n \in 1..Len(samples) : runs'[n] = runs[n]
  BY <1>1, <1>4, AppendProperties
<1>7. TimerTypes'
  <2>1. samplecount' = Len(samples') /\ step' \in Steps /\ run' \in Measurement
    BY <1>1, <1>5 DEF Timer!AddSample
  <2> QED BY <1>3, <1>5, <1>6, <2>1 DEF Timer!AddSample, TimerInv, TimerTypes, Cycle, Timer!settings
<1>8. Measures'
  BY DEF Timer!AddSample, Measures
<1>9. Sampled'
  <2>1. step' = "test" /\ samples' # << >>
    BY <1>1, <1>5, EmptySeq DEF Timer!AddSample
  <2>2. KBest(values, kbest, samples)'
    BY <1>3, <1>4, ZenonT(30) DEF KBest, Sorted, Picks, Leaves
  <2>3. ASSUME NEW n \in 1..Len(samples) + 1 PROVE Exact(samples[n], runs[n])'
    <3>1. CASE n = Len(samples) + 1
      <4>1. Exact(time, run)
        BY DEF Timer!AddSample, TimerInv, Measures
      <4> QED BY <1>4, <1>5, <1>6, <3>1, <4>1 DEF Exact
    <3>2. CASE n # Len(samples) + 1
      <4>1. n \in 1..Len(samples)
        BY <1>1, <3>2
      <4> QED BY <1>2, <1>4, <1>5, <1>6, <4>1 DEF Exact
    <3> QED BY <3>1, <3>2
  <2> QED BY <1>5, <2>1, <2>2, <2>3 DEF Sampled
<1>10. Clears'
  BY DEF Timer!AddSample, TimerInv, Clears, Timer!ClearsInside, Timer!cache
<1> QED BY <1>7, <1>8, <1>9, <1>10 DEF TimerInv

LEMMA LoopStep == ASSUME Timer!FcycAssumption, TimerInv, Timer!Loop PROVE TimerInv'
<1>1. kbest \in Nat \ {0} /\ values \in Seq(Int) /\ samples \in Seq(Int) /\ samples # << >> /\ KBest(values, kbest, samples)
  BY Constants DEF Timer!Loop, TimerInv, TimerTypes, Sampled
<1>2. CASE Timer!NextRun /\ UNCHANGED <<values, result>>
  <2>1. TimerTypes'
    BY <1>2 DEF Timer!Loop, Timer!NextRun, TimerInv, TimerTypes, Cycle, Timer!settings
  <2>2. Measures'
    BY <1>2 DEF Timer!Loop, Timer!NextRun, TimerInv, Measures
  <2>3. Sampled'
    BY <1>2, SampledKept DEF Timer!Loop, Timer!NextRun, TimerInv, Timer!settings
  <2>4. Clears'
    BY <1>2 DEF Timer!Loop, Timer!NextRun, TimerInv, Clears, Timer!ClearsInside, Timer!cache, Timer!settings
  <2> QED BY <2>1, <2>2, <2>3, <2>4 DEF TimerInv
<1>3. CASE step' = "idle" /\ result' = values[1] /\ values' = << >>
  <2>1. values[1] \in Int /\ KBest(<<values[1]>>, 1, samples)
    BY <1>1, FirstIsBest
  <2>2. TimerTypes'
    BY <1>3, <2>1, EmptySeq DEF Timer!Loop, TimerInv, TimerTypes, Cycle, Timer!settings
  <2>3. Measures'
    BY <1>3 DEF Timer!Loop, TimerInv, Measures
  <2>4. Sampled'
    <3>1. KBest(<<result>>, 1, samples)'
      BY <1>3, <2>1 DEF Timer!Loop, KBest, Sorted, Picks, Leaves
    <3> QED BY <1>3, <3>1 DEF Sampled
  <2>5. Clears'
    BY <1>3 DEF Timer!Loop, TimerInv, Clears, Timer!ClearsInside, Timer!cache
  <2> QED BY <2>2, <2>3, <2>4, <2>5 DEF TimerInv
<1> QED BY <1>2, <1>3 DEF Timer!Loop

LEMMA TimerStutters == ASSUME TimerInv, UNCHANGED Timer!vars PROVE TimerInv'
<1> USE DEF Timer!vars, Timer!settings, Timer!cache, Timer!sampler, Timer!history
<1>1. TimerTypes'
  BY DEF TimerInv, TimerTypes, Cycle
<1>2. Measures'
  BY DEF TimerInv, Measures, Delay, Advanced, Exact, Cycle
<1>3. Sampled'
  BY DEF TimerInv, Sampled, KBest, Sorted, Picks, Leaves, Exact
<1>4. Clears'
  BY DEF TimerInv, Clears, Timer!ClearsInside
<1> QED BY <1>1, <1>2, <1>3, <1>4 DEF TimerInv

LEMMA TimerStep == ASSUME Timer!FcycAssumption, TimerInv, [Timer!Next]_(Timer!vars) PROVE TimerInv'
BY SettingStep, CallStep, ClearStep, StartStep, RunStep, TickStep, GetStep, AddSampleStep, LoopStep, TimerStutters DEF Timer!Next

HIDE DEF Steps, Measurement, Timer!Quiet

(***************************************************************************)
(* Fcyc keeps the shortest of its measurements and returns the shortest    *)
(* one; each is exact but for an interrupt, however the words of the       *)
(* counter wrap around; and the cache is cleared inside its block.  For    *)
(* any width of the words, as long as no measurement takes a round of the  *)
(* whole counter.                                                          *)
(***************************************************************************)
THEOREM Week5MeasuresBest == Week5Spec => []MeasuresBest
<1>1. Timer!FcycAssumption
  BY DriverAssumption
<1>2. Week5Init => TimerInv
  BY <1>1, InitTimer DEF Week5Init
<1>3. TimerInv /\ [Week5Next]_<<structure, vars, mdriverVars, timerVars>> => TimerInv'
  <2>1. ASSUME [Timer!Next]_timerVars PROVE [Timer!Next]_(Timer!vars)
    BY <2>1 DEF timerVars, Timer!vars, Timer!settings, Timer!cache, Timer!sampler, Timer!history
  <2> QED BY <1>1, <2>1, StepOfOnePart, TimerStep
<1>4. TimerInv => MeasuresBest
  BY ImpliesMeasuresBest DEF MeasuresBest
<1> QED BY <1>2, <1>3, <1>4, PTL DEF Week5Spec
=============================================================================
