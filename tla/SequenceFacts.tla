----------------------------- MODULE SequenceFacts -----------------------------
(***************************************************************************)
(* Facts about sequences that are cut and joined, and about what is        *)
(* computed from one number to the next, on which the proofs of several    *)
(* components rest.                                                        *)
(***************************************************************************)
EXTENDS Sequences, Integers, SequenceTheorems, WellFoundedInduction, TLAPS

\* A sequence is what it is cut into.
LEMMA Cut ==
  ASSUME NEW S, NEW s \in Seq(S), NEW k \in 0..Len(s)
  PROVE  /\ SubSeq(s, 1, k) \in Seq(S) /\ SubSeq(s, k + 1, Len(s)) \in Seq(S)
         /\ Len(SubSeq(s, 1, k)) = k /\ Len(SubSeq(s, k + 1, Len(s))) = Len(s) - k
         /\ SubSeq(s, 1, k) \o SubSeq(s, k + 1, Len(s)) = s
         /\ \A i \in 1..k : SubSeq(s, 1, k)[i] = s[i]
<1>1. Len(s) \in Nat /\ k \in Int /\ \A i \in 1..Len(s) : s[i] \in S
  BY LenProperties, ElementOfSeq
<1>2. /\ SubSeq(s, 1, k) \in Seq(S) /\ Len(SubSeq(s, 1, k)) = k
      /\ \A i \in 1..k : SubSeq(s, 1, k)[i] = s[i]
  <2>1. \A i \in 1..k : s[i] \in S
    BY <1>1
  <2> QED BY <1>1, <2>1, SubSeqProperties
<1>3. SubSeq(s, k + 1, Len(s)) \in Seq(S) /\ Len(SubSeq(s, k + 1, Len(s))) = Len(s) - k
  <2>1. \A i \in k + 1..Len(s) : s[i] \in S
    BY <1>1
  <2> QED BY <1>1, <2>1, SubSeqProperties
<1>4. SubSeq(s, 1, k) \o SubSeq(s, k + 1, Len(s)) = SubSeq(s, 1, Len(s))
  <2>1. 1 \in 1..Len(s) + 1 /\ k \in 1 - 1..Len(s) /\ Len(s) \in k..Len(s)
    BY <1>1
  <2> QED BY <2>1, ConcatAdjacentSubSeq
<1> QED BY <1>2, <1>3, <1>4, SubSeqFull

\* What was joined can be taken apart.
LEMMA Taken ==
  ASSUME NEW S, NEW d \in Seq(S), NEW r \in Seq(S)
  PROVE  SubSeq(d \o r, 1, Len(d)) = d /\ SubSeq(d \o r, Len(d) + 1, Len(d \o r)) = r
<1> DEFINE p == d \o r
<1>1. /\ p \in Seq(S) /\ Len(p) = Len(d) + Len(r) /\ Len(d) \in Nat /\ Len(r) \in Nat
      /\ \A i \in 1..Len(p) : p[i] = IF i <= Len(d) THEN d[i] ELSE r[i - Len(d)]
  BY ConcatProperties, LenProperties
<1> HIDE DEF p
<1>2. SubSeq(p, 1, Len(d)) = d
  <2>1. /\ SubSeq(p, 1, Len(d)) \in Seq(S) /\ Len(SubSeq(p, 1, Len(d))) = Len(d)
        /\ \A i \in 1..Len(d) : SubSeq(p, 1, Len(d))[i] = p[i]
    BY <1>1, Cut
  <2>2. \A i \in 1..Len(SubSeq(p, 1, Len(d))) : SubSeq(p, 1, Len(d))[i] = d[i]
    BY <1>1, <2>1
  <2> QED BY <2>1, <2>2, SeqEqual
<1>3. SubSeq(p, Len(d) + 1, Len(p)) = r
  <2>1. \A i \in Len(d) + 1..Len(p) : p[i] \in S
    BY <1>1, ElementOfSeq
  <2>2. /\ SubSeq(p, Len(d) + 1, Len(p)) \in Seq(S)
        /\ Len(SubSeq(p, Len(d) + 1, Len(p))) = Len(r)
        /\ \A i \in 1..Len(r) : SubSeq(p, Len(d) + 1, Len(p))[i] = p[Len(d) + 1 + i - 1]
    BY <1>1, <2>1, SubSeqProperties
  <2>3. \A i \in 1..Len(SubSeq(p, Len(d) + 1, Len(p))) : SubSeq(p, Len(d) + 1, Len(p))[i] = r[i]
    BY <1>1, <2>2
  <2> QED BY <2>2, <2>3, SeqEqual
<1> QED BY <1>2, <1>3 DEF p

\* Concatenation, for three sequences over one set.
LEMMA Joined ==
  ASSUME NEW S, NEW a \in Seq(S), NEW b \in Seq(S), NEW c \in Seq(S)
  PROVE  /\ a \o b \in Seq(S) /\ (a \o b) \o c = a \o (b \o c)
         /\ << >> \o a = a /\ a \o << >> = a
BY ConcatProperties, ConcatAssociative, ConcatEmptySeq

\* A sequence that is not empty begins with its head.
LEMMA Split ==
  ASSUME NEW S, NEW s \in Seq(S), s # << >>
  PROVE  /\ Head(s) \in S /\ Tail(s) \in Seq(S)
         /\ << Head(s) >> \in Seq(S) /\ << Head(s) >> \o Tail(s) = s
<1>1. Len(s) \in Nat \ {0}
  BY EmptySeq
<1>2. SubSeq(s, 1, Len(s)) = << s[1] >> \o SubSeq(s, 1 + 1, Len(s))
  <2>1. 1 \in 1..Len(s) /\ Len(s) \in 1..Len(s)
    BY <1>1
  <2> QED BY <2>1, SubSeqRecursiveFirst
<1>3. SubSeq(s, 1 + 1, Len(s)) = Tail(s)
  BY TailIsSubSeq
<1> QED BY <1>2, <1>3, SubSeqFull, HeadTailProperties

-----------------------------------------------------------------------------
(* Recursion. *)

\* Induction over the numbers that have a property.
LEMMA Counting ==
  ASSUME NEW S, 0 \in S, \A n \in Nat \cap S : n + 1 \in S
  PROVE  Nat \subseteq S
<1> DEFINE R == OpToRel(<, Nat)
           T == Nat \ S
<1>1. SUFFICES ASSUME T # {} PROVE FALSE
  OBVIOUS
<1>2. IsWellFoundedOn(R, Nat)
  BY NatLessThanWellFounded, Zenon DEF OpToRel
<1> HIDE DEF T
<1>3. PICK x \in T : \A y \in T : ~(<<y, x>> \in R)
  <2> HIDE DEF R
  <2>1. T \subseteq Nat
    BY DEF T
  <2> QED BY <1>1, <1>2, <2>1, WFMin
<1>4. \A y \in T : ~(y < x)
  BY <1>3 DEF OpToRel, T
<1>5. x \in Nat /\ x \notin S /\ x # 0
  BY DEF T
<1>6. x - 1 \in Nat /\ x - 1 < x /\ (x - 1) + 1 = x
  BY <1>5
<1> QED BY <1>4, <1>5, <1>6 DEF T

\* What is computed from one number to the next exists.
Iterated(f, start, step, N) == f = [n \in 0..N |-> IF n = 0 THEN start ELSE step[f[n-1]]]

LEMMA Iterates ==
  ASSUME NEW S, NEW start \in S, NEW step \in [S -> S], NEW N \in Nat
  PROVE  \E f \in [0..N -> S] : Iterated(f, start, step, N)
<1> DEFINE Upto(m) == \E f \in [0..m -> S] : f = [n \in 0..m |-> IF n = 0 THEN start ELSE step[f[n-1]]]
           Done == {m \in Nat : Upto(m)}
<1>1. Upto(0)
  <2> DEFINE f == [n \in 0..0 |-> start]
  <2>1. f \in [0..0 -> S] /\ f = [n \in 0..0 |-> IF n = 0 THEN start ELSE step[f[n-1]]]
    OBVIOUS
  <2> QED BY <2>1
<1>2. ASSUME NEW m \in Nat, Upto(m) PROVE Upto(m + 1)
  <2>1. PICK f \in [0..m -> S] : f = [n \in 0..m |-> IF n = 0 THEN start ELSE step[f[n-1]]]
    BY <1>2
  <2>2. \A n \in 0..m : f[n] \in S /\ f[n] = IF n = 0 THEN start ELSE step[f[n-1]]
    BY <2>1
  <2> DEFINE g == [n \in 0..m + 1 |-> IF n = m + 1 THEN step[f[m]] ELSE f[n]]
  <2>3. g \in [0..m + 1 -> S]
    BY <2>2
  <2>4. \A n \in 0..m + 1 : g[n] = IF n = 0 THEN start ELSE step[g[n-1]]
    BY <2>2
  <2>5. g = [n \in 0..m + 1 |-> g[n]]
    BY <2>3
  <2> HIDE DEF g
  <2>6. g = [n \in 0..m + 1 |-> IF n = 0 THEN start ELSE step[g[n-1]]]
    BY <2>4, <2>5
  <2> QED BY <2>3, <2>6
<1> HIDE DEF Upto
<1>3. 0 \in Done /\ \A m \in Nat \cap Done : m + 1 \in Done
  BY <1>1, <1>2
<1>4. Nat \subseteq Done
  <2> HIDE DEF Done
  <2> QED BY <1>3, Counting
<1> QED BY <1>4 DEF Upto, Iterated

\* A set of naturals has a least element.
LEMMA LeastMember ==
  ASSUME NEW S \in SUBSET Nat, S # {}
  PROVE  \E k \in S : \A j \in S : k <= j
<1> DEFINE D == {n \in Nat : \A j \in S : n <= j}
<1>1. SUFFICES ASSUME \A k \in S : \E j \in S : ~(k <= j) PROVE FALSE
  OBVIOUS
<1>2. 0 \in D
  OBVIOUS
<1>3. ASSUME NEW n \in Nat \cap D PROVE n + 1 \in D
  <2>1. n \notin S
    BY <1>1, <1>3
  <2> QED BY <1>3, <2>1
<1>4. Nat \subseteq D
  <2> HIDE DEF D
  <2> QED BY <1>2, <1>3, Counting
<1>5. PICK j \in S : TRUE
  OBVIOUS
<1>6. j + 1 \in D
  BY <1>4
<1> QED BY <1>5, <1>6
=============================================================================
