------------------------------ MODULE Week4Proofs ------------------------------
(***************************************************************************)
(* What is proved about the linked lists of week 4: that they implement    *)
(* Deque, for any number of nodes and keys.                                *)
(*                                                                         *)
(* The invariant names the sequence of nodes that a list is: head and next *)
(* lead along it (SllAt), or next and prev are a ring through it and the   *)
(* dummy node (DllAt).  It says that nodes do not repeat, because a write  *)
(* to one node must leave the others alone; that a free node of a singly   *)
(* linked list has no successor, because pushBack relies on calloc for it; *)
(* and what size counts, because removeIdx goes by it.  Each call cuts one *)
(* node out of the sequence or puts one in, and the keys follow.  What     *)
(* Chain computes is that sequence: the only induction the proof needs.    *)
(***************************************************************************)
EXTENDS MCWeek4, SequenceFacts, FiniteSetTheorems

(***************************************************************************)
(* Of the four programs the red-black tree is the one of RbTree: what is   *)
(* proved of it alone is true of it here.                                  *)
(***************************************************************************)
THEOREM Week4IsRbTree == Week4Spec => Spec
<1>1. Week4Init => Init
  BY DEF Week4Init
<1>2. [Week4Next]_<<structure, vars, listVars>> => [Next]_vars
  BY DEF Week4Next
<1> QED BY <1>1, <1>2, PTL DEF Week4Spec, Spec

-----------------------------------------------------------------------------
(* The lists. *)

\* s is what following next from first leads through, among the nodes N.
Leads(N, first, next, s) ==
  /\ s \in Seq(N)
  /\ IF s = << >> THEN first \notin N ELSE first = s[1]
  /\ \A i \in 1..Len(s) : IF i < Len(s) THEN next[s[i]] = s[i + 1] ELSE next[s[i]] \notin N
Apart(s) == \A i, j \in 1..Len(s) : s[i] = s[j] => i = j

\* The list of a module of week 4, as its operator Chain has it.
Longer(s, first, next, N) ==
  LET n == IF s = << >> THEN first ELSE next[s[Len(s)]] IN IF n \in N THEN Append(s, n) ELSE s
Meeting(g, first, next, N, m) == [k \in 0..m |-> Longer(IF k = 0 THEN << >> ELSE g[k-1], first, next, N)]
Prefix(s, k) == SubSeq(s, 1, IF k < Len(s) THEN k ELSE Len(s))

LEMMA PrefixLonger ==
  ASSUME NEW N, NEW first, NEW next, NEW s, Leads(N, first, next, s), NEW k \in Nat
  PROVE  Longer(Prefix(s, k), first, next, N) = Prefix(s, k + 1)
<1> DEFINE t == Prefix(s, k)
<1>1. s \in Seq(N) /\ Len(s) \in Nat /\ \A i \in 1..Len(s) : s[i] \in N
  BY ElementOfSeq, LenProperties DEF Leads
<1>0. t = Prefix(s, k)
  OBVIOUS
<1>2. CASE k < Len(s)
  <2>1. t = SubSeq(s, 1, k) /\ Prefix(s, k + 1) = SubSeq(s, 1, k + 1) /\ k + 1 \in 1..Len(s) /\ k \in 0..Len(s)
    BY <1>1, <1>2 DEF Prefix
  <2>2. t \in Seq(N) /\ Len(t) = k /\ \A i \in 1..k : t[i] = s[i]
    BY <1>1, <2>1, Cut
  <2>3. Prefix(s, k + 1) = Append(t, s[k + 1])
    <3>1. SubSeq(s, 1, k + 1) = SubSeq(s, 1, (k + 1) - 1) \o <<s[k + 1]>>
      BY <1>1, <2>1, SubSeqRecursiveSecond
    <3>2. (k + 1) - 1 = k
      OBVIOUS
    <3>3. Append(t, s[k + 1]) = t \o <<s[k + 1]>>
      <4> HIDE DEF t
      <4> QED BY <1>1, <2>1, <2>2, AppendIsConcat
    <3> QED BY <2>1, <3>1, <3>2, <3>3
  <2> HIDE DEF t
  <2>4. (IF t = << >> THEN first ELSE next[t[Len(t)]]) = s[k + 1]
    <3>1. CASE k = 0
      <4>1. t = << >> /\ s # << >>
        BY <1>1, <2>1, <2>2, <3>1, EmptySeq
      <4> QED BY <3>1, <4>1 DEF Leads
    <3>2. CASE k # 0
      <4>1. t # << >> /\ k \in 1..Len(s) /\ t[Len(t)] = s[k]
        BY <1>2, <2>2, <3>2, EmptySeq
      <4> QED BY <1>2, <4>1 DEF Leads
    <3> QED BY <3>1, <3>2
  <2> QED BY <1>0, <1>1, <2>1, <2>3, <2>4 DEF Longer
<1>3. CASE ~(k < Len(s))
  <2>1. t = s /\ Prefix(s, k + 1) = s
    BY <1>1, <1>3, SubSeqFull DEF Prefix
  <2> HIDE DEF t
  <2>2. (IF s = << >> THEN first ELSE next[s[Len(s)]]) \notin N
    <3>1. CASE s = << >>
      BY <3>1 DEF Leads
    <3>2. CASE s # << >>
      <4>1. Len(s) \in 1..Len(s)
        BY <1>1, <3>2, EmptySeq
      <4> QED BY <3>2, <4>1 DEF Leads
    <3> QED BY <3>1, <3>2
  <2> QED BY <1>0, <2>1, <2>2 DEF Longer
<1> QED BY <1>2, <1>3 DEF t

\* The nodes of a sequence in which none is twice.
LEMMA CountsApart ==
  ASSUME NEW N, NEW s \in Seq(N), Apart(s)
  PROVE  Cardinality({s[i] : i \in 1..Len(s)}) = Len(s)
<1> DEFINE R == {s[i] : i \in 1..Len(s)}
           f == [i \in 1..Len(s) |-> s[i]]
<1>1. Len(s) \in Nat /\ f \in Bijection(1..Len(s), R)
  BY LenProperties DEF Apart, Bijection, Injection, Surjection, IsInjective
<1> HIDE DEF f, R
<1>2. 1 \in Int /\ Len(s) \in Int
  BY <1>1
<1>3. IsFiniteSet(1..Len(s)) /\ Cardinality(1..Len(s)) = IF 1 > Len(s) THEN 0 ELSE Len(s) - 1 + 1
  BY <1>2, FS_Interval, Zenon
<1>4. Cardinality(R) = Cardinality(1..Len(s))
  BY <1>1, <1>3, FS_Bijection DEF ExistsBijection
<1> QED BY <1>1, <1>3, <1>4 DEF R

\* The chain is that sequence, when no node is met twice.
LEMMA ChainIs ==
  ASSUME NEW N, IsFiniteSet(N), NEW first, NEW next, NEW s, Leads(N, first, next, s), Apart(s),
         NEW g, g = CHOOSE f : f = Meeting(f, first, next, N, Cardinality(N))
  PROVE  g[Cardinality(N)] = s
<1> DEFINE m == Cardinality(N)
           p == [k \in 0..m |-> Prefix(s, k + 1)]
<1>1. s \in Seq(N) /\ Len(s) \in Nat /\ m \in Nat /\ \A i \in 1..Len(s) : s[i] \in N
  BY ElementOfSeq, LenProperties, FS_CardinalityType DEF Leads
<1>2. Len(s) <= m
  <2> DEFINE f == [i \in 1..Len(s) |-> s[i]]
  <2>1. f \in Injection(1..Len(s), N)
    BY <1>1 DEF Apart, Injection, IsInjective
  <2>2. Cardinality(1..Len(s)) = Len(s)
    <3>1. 1 \in Int /\ Len(s) \in Int
      BY <1>1
    <3>2. Cardinality(1..Len(s)) = IF 1 > Len(s) THEN 0 ELSE Len(s) - 1 + 1
      BY <3>1, FS_Interval, Zenon
    <3> QED BY <1>1, <3>2
  <2> HIDE DEF f
  <2>3. Cardinality(1..Len(s)) <= Cardinality(N)
    BY <2>1, FS_Injection
  <2> QED BY <2>2, <2>3
<1>3. \A k \in Nat : Longer(Prefix(s, k), first, next, N) = Prefix(s, k + 1)
  BY PrefixLonger
<1>4. Prefix(s, 0) = << >> /\ \A k \in Nat : k >= Len(s) => Prefix(s, k) = s
  <2>1. Prefix(s, 0) = SubSeq(s, 1, 0)
    BY <1>1 DEF Prefix
  <2>2. \A k \in Nat : k >= Len(s) => Prefix(s, k) = SubSeq(s, 1, Len(s))
    BY <1>1 DEF Prefix
  <2> QED BY <1>1, <2>1, <2>2, SubSeqEmpty, SubSeqFull
<1> HIDE DEF m
<1>5. p = Meeting(p, first, next, N, m)
  <2>1. ASSUME NEW k \in 0..m PROVE p[k] = Longer(IF k = 0 THEN << >> ELSE p[k-1], first, next, N)
    <3>1. CASE k = 0
      BY <1>1, <1>3, <1>4, <3>1
    <3>2. CASE k # 0
      <4>1. k - 1 \in 0..m /\ (k - 1) + 1 = k /\ k \in Nat
        BY <1>1, <3>2
      <4>2. p[k-1] = Prefix(s, k)
        BY <4>1
      <4> QED BY <1>3, <3>2, <4>1, <4>2
    <3> QED BY <3>1, <3>2
  <2>2. p = [k \in 0..m |-> p[k]]
    OBVIOUS
  <2> HIDE DEF p
  <2> QED BY <2>1, <2>2 DEF Meeting
<1>6. g = Meeting(g, first, next, N, m)
  <2> HIDE DEF p
  <2> QED BY <1>5 DEF m
<1>7. \A k \in 0..m : g[k] = Longer(IF k = 0 THEN << >> ELSE g[k-1], first, next, N)
  BY <1>6 DEF Meeting
<1> DEFINE Done == {k \in Nat : k <= m => g[k] = Prefix(s, k + 1)}
<1>8. 0 \in Done
  <2>1. 0 \in 0..m
    BY <1>1
  <2>2. g[0] = Longer(Prefix(s, 0), first, next, N)
    BY <1>4, <1>7, <2>1
  <2>3. g[0] = Prefix(s, 0 + 1)
    BY <1>3, <2>2
  <2> QED BY <2>3
<1>9. ASSUME NEW k \in Nat \cap Done PROVE k + 1 \in Done
  <2> SUFFICES ASSUME k + 1 <= m PROVE g[k+1] = Prefix(s, (k+1) + 1)
    OBVIOUS
  <2>1. k + 1 \in 0..m /\ k + 1 # 0 /\ (k + 1) - 1 = k /\ k <= m
    BY <1>1
  <2>2. g[k] = Prefix(s, k + 1)
    BY <1>9, <2>1
  <2>3. g[k+1] = Longer(g[k], first, next, N)
    BY <1>7, <2>1
  <2> QED BY <1>3, <2>1, <2>2, <2>3
<1>10. Nat \subseteq Done
  <2> HIDE DEF Done
  <2> QED BY <1>8, <1>9, Counting
<1>11. g[m] = Prefix(s, m + 1)
  BY <1>1, <1>10
<1> QED BY <1>1, <1>2, <1>4, <1>11 DEF m

\* s without its j-th element.
Skip(s, j) == [i \in 1..Len(s) - 1 |-> IF i < j THEN s[i] ELSE s[i + 1]]

LEMMA SkipIs ==
  ASSUME NEW S, NEW s \in Seq(S), NEW j \in 1..Len(s)
  PROVE  /\ Skip(s, j) \in Seq(S) /\ Len(Skip(s, j)) = Len(s) - 1 /\ Len(s) - 1 \in Nat
         /\ \A i \in 1..Len(s) - 1 : Skip(s, j)[i] = IF i < j THEN s[i] ELSE s[i + 1]
<1>1. Len(s) \in Nat /\ Len(s) - 1 \in Nat /\ \A i \in 1..Len(s) : s[i] \in S
  BY ElementOfSeq, LenProperties
<1>2. \A i \in 1..Len(s) - 1 : (IF i < j THEN s[i] ELSE s[i + 1]) \in S
  BY <1>1
<1>3. Skip(s, j) \in [1..Len(s) - 1 -> S]
  BY <1>2 DEF Skip
<1>4. Skip(s, j) \in Seq(S) /\ Len(Skip(s, j)) = Len(s) - 1
  BY <1>1, <1>3
<1>5. \A i \in 1..Len(s) - 1 : Skip(s, j)[i] = IF i < j THEN s[i] ELSE s[i + 1]
  BY DEF Skip
<1> QED BY <1>1, <1>4, <1>5

\* The abstract list has three ways to say it.
LEMMA SkipSays ==
  ASSUME NEW S, NEW s \in Seq(S), NEW j \in 1..Len(s)
  PROVE  /\ Skip(s, j) = SubSeq(s, 1, j - 1) \o SubSeq(s, j + 1, Len(s))
         /\ j = 1 => Skip(s, j) = Tail(s)
         /\ j = Len(s) => Skip(s, j) = SubSeq(s, 1, Len(s) - 1)
<1> DEFINE a == SubSeq(s, 1, j - 1)
           b == SubSeq(s, j + 1, Len(s))
           r == Skip(s, j)
<1>1. Len(s) \in Nat /\ s # << >> /\ \A i \in 1..Len(s) : s[i] \in S
  BY ElementOfSeq, LenProperties, EmptySeq
<1>2. r \in Seq(S) /\ Len(r) = Len(s) - 1 /\ \A i \in 1..Len(s) - 1 : r[i] = IF i < j THEN s[i] ELSE s[i + 1]
  BY SkipIs
<1>3. a \in Seq(S) /\ Len(a) = j - 1 /\ \A i \in 1..j - 1 : a[i] = s[i]
  <2>1. j - 1 \in 0..Len(s)
    BY <1>1
  <2> QED BY <2>1, Cut
<1>4. b \in Seq(S) /\ Len(b) = Len(s) - j /\ \A i \in 1..Len(s) - j : b[i] = s[j + i]
  <2>1. j + 1 \in Int /\ Len(s) \in Int /\ \A i \in j + 1..Len(s) : s[i] \in S
    BY <1>1
  <2>2. /\ b \in Seq(S) /\ Len(b) = IF j + 1 <= Len(s) THEN Len(s) - (j + 1) + 1 ELSE 0
        /\ \A i \in 1..Len(s) - (j + 1) + 1 : b[i] = s[(j + 1) + i - 1]
    BY <2>1, SubSeqProperties
  <2> HIDE DEF b
  <2>3. \A i \in 1..Len(s) - j : i \in 1..Len(s) - (j + 1) + 1 /\ (j + 1) + i - 1 = j + i
    BY <1>1
  <2>4. Len(b) = Len(s) - j
    BY <1>1, <2>2
  <2> QED BY <2>2, <2>3, <2>4
<1> HIDE DEF a, b, r
<1>5. r = a \o b
  <2>1. /\ a \o b \in Seq(S) /\ Len(a \o b) = Len(s) - 1
        /\ \A i \in 1..Len(s) - 1 : (a \o b)[i] = IF i <= Len(a) THEN a[i] ELSE b[i - Len(a)]
    <3>1. /\ a \o b \in Seq(S) /\ Len(a \o b) = Len(a) + Len(b)
          /\ \A i \in 1..Len(a) + Len(b) : (a \o b)[i] = IF i <= Len(a) THEN a[i] ELSE b[i - Len(a)]
      BY <1>3, <1>4, ConcatProperties
    <3>2. Len(a) + Len(b) = Len(s) - 1
      BY <1>1, <1>3, <1>4
    <3> QED BY <3>1, <3>2
  <2>2. ASSUME NEW i \in 1..Len(s) - 1 PROVE (a \o b)[i] = r[i]
    <3>1. CASE i < j
      <4>1. i <= Len(a) /\ i \in 1..j - 1
        BY <1>1, <1>3, <3>1
      <4> QED BY <1>2, <1>3, <2>1, <3>1, <4>1
    <3>2. CASE ~(i < j)
      <4>1. ~(i <= Len(a)) /\ i - Len(a) \in 1..Len(s) - j /\ j + (i - Len(a)) = i + 1
        BY <1>1, <1>3, <3>2
      <4> QED BY <1>2, <1>4, <2>1, <3>2, <4>1
    <3> QED BY <3>1, <3>2
  <2> QED BY <1>2, <2>1, <2>2, SeqEqual
<1>6. j = 1 => r = Tail(s)
  <2> SUFFICES ASSUME j = 1 PROVE r = Tail(s)
    OBVIOUS
  <2>1. Tail(s) \in Seq(S) /\ Len(Tail(s)) = Len(s) - 1 /\ \A i \in 1..Len(Tail(s)) : Tail(s)[i] = s[i + 1]
    BY <1>1, HeadTailProperties
  <2>2. \A i \in 1..Len(r) : r[i] = Tail(s)[i]
    BY <1>1, <1>2, <2>1
  <2> QED BY <1>2, <2>1, <2>2, SeqEqual
<1>7. j = Len(s) => r = SubSeq(s, 1, Len(s) - 1)
  <2> SUFFICES ASSUME j = Len(s) PROVE r = a
    BY DEF a
  <2>1. \A i \in 1..Len(r) : r[i] = a[i]
    BY <1>1, <1>2, <1>3
  <2> QED BY <1>2, <1>3, <2>1, SeqEqual
<1> QED BY <1>5, <1>6, <1>7 DEF a, b, r

\* What the nodes of a chain hold.
Values(s, key) == [i \in DOMAIN s |-> key[s[i]]]

LEMMA ValuesAre ==
  ASSUME NEW N, NEW V, NEW s \in Seq(N), NEW key, \A x \in N : key[x] \in V
  PROVE  /\ Values(s, key) \in Seq(V) /\ Len(Values(s, key)) = Len(s) /\ Len(s) \in Nat
         /\ \A i \in 1..Len(s) : Values(s, key)[i] = key[s[i]]
<1>1. Len(s) \in Nat /\ DOMAIN s = 1..Len(s) /\ \A i \in 1..Len(s) : s[i] \in N
  BY ElementOfSeq, LenProperties
<1>2. Values(s, key) \in [1..Len(s) -> V]
  BY <1>1 DEF Values
<1>3. \A i \in 1..Len(s) : Values(s, key)[i] = key[s[i]]
  BY <1>1 DEF Values
<1>4. Values(s, key) \in Seq(V) /\ Len(Values(s, key)) = Len(s)
  BY <1>1, <1>2
<1> QED BY <1>1, <1>3, <1>4

ValuesIn(N, V, key) ==
  /\ \A x \in N : key[x] \in V
  /\ \A t \in Seq(N) : /\ Values(t, key) \in Seq(V) /\ Len(Values(t, key)) = Len(t) /\ Len(t) \in Nat
                       /\ \A i \in 1..Len(t) : Values(t, key)[i] = key[t[i]]

LEMMA ValuesAll ==
  ASSUME NEW N, NEW V, NEW key, \A x \in N : key[x] \in V
  PROVE  ValuesIn(N, V, key)
BY ValuesAre DEF ValuesIn

LEMMA ValuesBoth ==
  ASSUME NEW N, NEW key, NEW new
  PROVE  \E V : ValuesIn(N, V, key) /\ ValuesIn(N, V, new)
<1> DEFINE V == {key[x] : x \in N} \cup {new[x] : x \in N}
<1>1. (\A x \in N : key[x] \in V) /\ (\A x \in N : new[x] \in V)
  OBVIOUS
<1> HIDE DEF V
<1>2. ValuesIn(N, V, key)
  BY <1>1, ValuesAll
<1>3. ValuesIn(N, V, new)
  BY <1>1, ValuesAll
<1> QED BY <1>2, <1>3

\* A sequence with one more at its front or its end.
LEMMA FrontIs ==
  ASSUME NEW S, NEW s \in Seq(S), NEW n \in S
  PROVE  /\ <<n>> \o s \in Seq(S) /\ Len(<<n>> \o s) = Len(s) + 1 /\ Len(s) \in Nat /\ <<n>> \o s # << >>
         /\ (<<n>> \o s)[1] = n /\ \A i \in 1..Len(s) : (<<n>> \o s)[i + 1] = s[i]
<1>1. <<n>> \in Seq(S) /\ Len(<<n>>) = 1 /\ <<n>>[1] = n /\ Len(s) \in Nat
  BY LenProperties
<1> DEFINE one == <<n>>
<1> HIDE DEF one
<1>2. one \in Seq(S) /\ Len(one) = 1 /\ one[1] = n
  BY <1>1 DEF one
<1>3. /\ one \o s \in Seq(S) /\ Len(one \o s) = Len(one) + Len(s)
      /\ \A i \in 1..Len(one) + Len(s) : (one \o s)[i] = IF i <= Len(one) THEN one[i] ELSE s[i - Len(one)]
  BY <1>2, ConcatProperties
<1>4. Len(one \o s) = Len(s) + 1
  BY <1>1, <1>2, <1>3
<1>5. (one \o s)[1] = n /\ \A i \in 1..Len(s) : (one \o s)[i + 1] = s[i]
  BY <1>1, <1>2, <1>3
<1>6. one \o s # << >>
  BY <1>1, <1>4, EmptySeq
<1> QED BY <1>1, <1>3, <1>4, <1>5, <1>6 DEF one

\* The nodes of s hold the same as before.
Agree(s, key, new) == \A i \in 1..Len(s) : new[s[i]] = key[s[i]]

LEMMA ValuesFront ==
  ASSUME NEW N, NEW s \in Seq(N), NEW n \in N, NEW key, NEW new,
         Agree(s, key, new)
  PROVE  Values(<<n>> \o s, new) = <<new[n]>> \o Values(s, key)
<1> DEFINE v == Values(s, key)
           r == <<n>> \o s
<1>0. PICK V : ValuesIn(N, V, key) /\ ValuesIn(N, V, new)
  BY ValuesBoth
<1>1. v \in Seq(V) /\ Len(v) = Len(s) /\ Len(s) \in Nat /\ \A i \in 1..Len(s) : v[i] = new[s[i]]
  BY <1>0 DEF ValuesIn, Agree
<1>2. r \in Seq(N) /\ Len(r) = Len(s) + 1 /\ r[1] = n /\ \A i \in 1..Len(s) : r[i + 1] = s[i]
  BY FrontIs
<1> HIDE DEF v, r
<1>3. new[n] \in V
  BY <1>0 DEF ValuesIn
<1>4. Values(r, new) \in Seq(V) /\ Len(Values(r, new)) = Len(r) /\ \A i \in 1..Len(r) : Values(r, new)[i] = new[r[i]]
  BY <1>2, <1>0 DEF ValuesIn
<1> DEFINE w == <<new[n]>> \o v
<1>5. w \in Seq(V) /\ Len(w) = Len(v) + 1 /\ w[1] = new[n] /\ \A i \in 1..Len(v) : w[i + 1] = v[i]
  BY <1>1, <1>3, FrontIs
<1> HIDE DEF w
<1>6. ASSUME NEW i \in 1..Len(r) PROVE Values(r, new)[i] = w[i]
  <2>1. CASE i = 1
    BY <1>1, <1>2, <1>4, <1>5, <2>1
  <2>2. CASE i # 1
    <3>1. i - 1 \in 1..Len(s) /\ (i - 1) + 1 = i
      BY <1>1, <1>2, <2>2
    <3>2. r[i] = s[i - 1] /\ w[i] = v[i - 1]
      BY <1>1, <1>2, <1>5, <3>1
    <3> QED BY <1>1, <1>4, <3>1, <3>2
  <2> QED BY <2>1, <2>2
<1>7. Values(r, new) = w
  BY <1>1, <1>2, <1>4, <1>5, <1>6, SeqEqual
<1> QED BY <1>7 DEF v, r, w

LEMMA ValuesAppend ==
  ASSUME NEW N, NEW s \in Seq(N), NEW n \in N, NEW key, NEW new,
         Agree(s, key, new)
  PROVE  Values(Append(s, n), new) = Append(Values(s, key), new[n])
<1> DEFINE v == Values(s, key)
           q == Append(s, n)
<1>0. PICK V : ValuesIn(N, V, key) /\ ValuesIn(N, V, new)
  BY ValuesBoth
<1>1. v \in Seq(V) /\ Len(v) = Len(s) /\ Len(s) \in Nat /\ \A i \in 1..Len(s) : v[i] = new[s[i]]
  BY <1>0 DEF ValuesIn, Agree
<1>2. q \in Seq(N) /\ Len(q) = Len(s) + 1 /\ q[Len(s) + 1] = n /\ \A i \in 1..Len(s) : q[i] = s[i]
  BY AppendProperties
<1> HIDE DEF v, q
<1>3. new[n] \in V
  BY <1>0 DEF ValuesIn
<1>4. Values(q, new) \in Seq(V) /\ Len(Values(q, new)) = Len(q) /\ \A i \in 1..Len(q) : Values(q, new)[i] = new[q[i]]
  BY <1>2, <1>0 DEF ValuesIn
<1>5. /\ Append(v, new[n]) \in Seq(V) /\ Len(Append(v, new[n])) = Len(v) + 1
      /\ Append(v, new[n])[Len(v) + 1] = new[n] /\ \A i \in 1..Len(v) : Append(v, new[n])[i] = v[i]
  BY <1>1, <1>3, AppendProperties
<1>6. ASSUME NEW i \in 1..Len(q) PROVE Values(q, new)[i] = Append(v, new[n])[i]
  <2>1. CASE i = Len(s) + 1
    BY <1>1, <1>2, <1>4, <1>5, <2>1
  <2>2. CASE i # Len(s) + 1
    <3>1. i \in 1..Len(s)
      BY <1>1, <1>2, <2>2
    <3> QED BY <1>1, <1>2, <1>4, <1>5, <3>1
  <2> QED BY <2>1, <2>2
<1> QED BY <1>1, <1>2, <1>4, <1>5, <1>6, SeqEqual DEF v, q

LEMMA ValuesSkip ==
  ASSUME NEW N, NEW s \in Seq(N), NEW j \in 1..Len(s), NEW key, NEW new,
         \A i \in 1..Len(s) : i # j => new[s[i]] = key[s[i]]
  PROVE  Values(Skip(s, j), new) = Skip(Values(s, key), j)
<1> DEFINE v == Values(s, key)
           r == Skip(s, j)
<1>0. PICK V : ValuesIn(N, V, key) /\ ValuesIn(N, V, new)
  BY ValuesBoth
<1>1. v \in Seq(V) /\ Len(v) = Len(s) /\ Len(s) \in Nat /\ \A i \in 1..Len(s) : v[i] = key[s[i]]
  BY <1>0 DEF ValuesIn
<1>2. r \in Seq(N) /\ Len(r) = Len(s) - 1 /\ \A i \in 1..Len(s) - 1 : r[i] = IF i < j THEN s[i] ELSE s[i + 1]
  BY SkipIs
<1> HIDE DEF v, r
<1>3. Values(r, new) \in Seq(V) /\ Len(Values(r, new)) = Len(r) /\ \A i \in 1..Len(r) : Values(r, new)[i] = new[r[i]]
  BY <1>2, <1>0 DEF ValuesIn
<1>4. j \in 1..Len(v)
  BY <1>1
<1>5. /\ Skip(v, j) \in Seq(V) /\ Len(Skip(v, j)) = Len(v) - 1
      /\ \A i \in 1..Len(v) - 1 : Skip(v, j)[i] = IF i < j THEN v[i] ELSE v[i + 1]
  BY <1>1, <1>4, SkipIs
<1>6. ASSUME NEW i \in 1..Len(r) PROVE Values(r, new)[i] = Skip(v, j)[i]
  <2>1. i \in 1..Len(s) /\ i + 1 \in 1..Len(s) /\ (i < j => i # j) /\ (~(i < j) => i + 1 # j)
    BY <1>1, <1>2
  <2>2. CASE i < j
    <3>1. r[i] = s[i] /\ Skip(v, j)[i] = v[i] /\ Values(r, new)[i] = new[r[i]]
      BY <1>1, <1>2, <1>3, <1>5, <2>2
    <3> QED BY <1>1, <2>1, <2>2, <3>1
  <2>3. CASE ~(i < j)
    <3>1. r[i] = s[i + 1] /\ Skip(v, j)[i] = v[i + 1] /\ Values(r, new)[i] = new[r[i]]
      BY <1>1, <1>2, <1>3, <1>5, <2>3
    <3> QED BY <1>1, <2>1, <2>3, <3>1
  <2> QED BY <2>2, <2>3
<1> QED BY <1>1, <1>2, <1>3, <1>5, <1>6, SeqEqual DEF v, r

\* How a chain changes.
LEMMA LeadsPush ==
  ASSUME NEW N, NEW first, NEW next, NEW s, Leads(N, first, next, s), Apart(s),
         NEW n \in N, \A i \in 1..Len(s) : s[i] # n,
         NEW new, new[n] = first, \A i \in 1..Len(s) : new[s[i]] = next[s[i]]
  PROVE  Leads(N, n, new, <<n>> \o s) /\ Apart(<<n>> \o s)
<1> DEFINE r == <<n>> \o s
<1>1. /\ r \in Seq(N) /\ Len(r) = Len(s) + 1 /\ Len(s) \in Nat /\ r # << >>
      /\ r[1] = n /\ \A i \in 1..Len(s) : r[i + 1] = s[i]
  BY FrontIs DEF Leads
<1> HIDE DEF r
<1>2. ASSUME NEW i \in 1..Len(r)
      PROVE  /\ IF i < Len(r) THEN new[r[i]] = r[i + 1] ELSE new[r[i]] \notin N
             /\ i # 1 => i - 1 \in 1..Len(s) /\ r[i] = s[i - 1]
  <2>1. CASE i = 1
    <3>1. new[r[i]] = first
      BY <1>1, <2>1
    <3>2. CASE s = << >>
      <4>1. Len(s) = 0
        BY <3>2, EmptySeq
      <4> QED BY <1>1, <2>1, <3>1, <3>2, <4>1 DEF Leads
    <3>3. CASE s # << >>
      <4>1. 1 \in 1..Len(s)
        BY <3>3, EmptySeq DEF Leads
      <4>2. r[i + 1] = s[1] /\ i < Len(r)
        BY <1>1, <2>1, <4>1
      <4> QED BY <2>1, <3>1, <3>3, <4>2 DEF Leads
    <3> QED BY <3>2, <3>3
  <2>2. CASE i # 1
    <3>1. i - 1 \in 1..Len(s) /\ (i - 1) + 1 = i /\ (i - 1 < Len(s) <=> i < Len(r))
      BY <1>1, <2>2
    <3>2. r[i] = s[i - 1] /\ new[r[i]] = next[s[i - 1]]
      BY <1>1, <3>1
    <3>3. i < Len(r) => i \in 1..Len(s) /\ r[i + 1] = s[i]
      BY <1>1
    <3> QED BY <3>1, <3>2, <3>3 DEF Leads
  <2> QED BY <2>1, <2>2
<1>3. Apart(r)
  <2> SUFFICES ASSUME NEW i \in 1..Len(r), NEW j \in 1..Len(r), r[i] = r[j] PROVE i = j
    BY DEF Apart
  <2>1. \A k \in 1..Len(r) : k # 1 => k - 1 \in 1..Len(s) /\ r[k] = s[k - 1] /\ r[k] # n
    BY <1>1, <1>2
  <2>2. CASE i = 1 \/ j = 1
    BY <1>1, <2>1, <2>2
  <2>3. CASE i # 1 /\ j # 1
    BY <1>1, <2>1, <2>3 DEF Apart
  <2> QED BY <2>2, <2>3
<1> QED BY <1>1, <1>2, <1>3 DEF Leads, r

LEMMA LeadsAppend ==
  ASSUME NEW N, NEW first, NEW next, NEW s, Leads(N, first, next, s), Apart(s), s # << >>,
         NEW n \in N, \A i \in 1..Len(s) : s[i] # n,
         NEW new, new[s[Len(s)]] = n, new[n] \notin N, \A i \in 1..Len(s) - 1 : new[s[i]] = next[s[i]]
  PROVE  Leads(N, first, new, Append(s, n)) /\ Apart(Append(s, n))
<1> DEFINE r == Append(s, n)
<1>1. /\ r \in Seq(N) /\ Len(r) = Len(s) + 1 /\ Len(s) \in Nat \ {0} /\ r # << >>
      /\ r[Len(s) + 1] = n /\ \A i \in 1..Len(s) : r[i] = s[i]
  BY AppendProperties, EmptySeq DEF Leads
<1> HIDE DEF r
<1>2. ASSUME NEW i \in 1..Len(r)
      PROVE  IF i < Len(r) THEN new[r[i]] = r[i + 1] ELSE new[r[i]] \notin N
  <2>1. CASE i = Len(s) + 1
    BY <1>1, <2>1
  <2>2. CASE i = Len(s)
    BY <1>1, <2>2
  <2>3. CASE i < Len(s)
    BY <1>1, <2>3 DEF Leads
  <2> QED BY <1>1, <2>1, <2>2, <2>3
<1>3. Apart(r)
  <2> SUFFICES ASSUME NEW i \in 1..Len(r), NEW j \in 1..Len(r), r[i] = r[j] PROVE i = j
    BY DEF Apart
  <2> QED BY <1>1 DEF Apart
<1>4. r[1] = first
  BY <1>1 DEF Leads
<1> QED BY <1>1, <1>2, <1>3, <1>4 DEF Leads, r

LEMMA LeadsSkip ==
  ASSUME NEW N, NEW first, NEW next, NEW s, Leads(N, first, next, s), Apart(s), NEW j \in 1..Len(s),
         NEW other, NEW new, IF j = 1 THEN other = next[s[1]] ELSE other = first /\ new[s[j - 1]] = next[s[j]],
         \A i \in 1..Len(s) : i # j /\ i + 1 # j => new[s[i]] = next[s[i]]
  PROVE  Leads(N, other, new, Skip(s, j)) /\ Apart(Skip(s, j))
<1> DEFINE r == Skip(s, j)
<1>1. /\ r \in Seq(N) /\ Len(r) = Len(s) - 1 /\ Len(s) \in Nat /\ Len(r) \in Nat
      /\ \A i \in 1..Len(r) : r[i] = IF i < j THEN s[i] ELSE s[i + 1]
  <2>1. s \in Seq(N) /\ Len(s) \in Nat
    BY LenProperties DEF Leads
  <2>2. r \in Seq(N) /\ Len(r) = Len(s) - 1 /\ \A i \in 1..Len(s) - 1 : r[i] = IF i < j THEN s[i] ELSE s[i + 1]
    BY <2>1, SkipIs
  <2> HIDE DEF r
  <2> QED BY <2>1, <2>2
<1> HIDE DEF r
<1>2. ASSUME NEW i \in 1..Len(r)
      PROVE  IF i < Len(r) THEN new[r[i]] = r[i + 1] ELSE new[r[i]] \notin N
  <2>1. CASE i + 1 < j
    <3>1. i \in 1..Len(s) /\ i < Len(s) /\ i < Len(r) /\ r[i] = s[i] /\ r[i + 1] = s[i + 1] /\ i # j /\ i + 1 # j
      BY <1>1, <2>1
    <3> QED BY <3>1 DEF Leads
  <2>2. CASE i + 1 = j
    <3>1. j # 1 /\ r[i] = s[j - 1] /\ (i < Len(r) <=> j < Len(s)) /\ (j < Len(s) => r[i + 1] = s[j + 1])
      BY <1>1, <2>2
    <3> QED BY <3>1 DEF Leads
  <2>3. CASE ~(i < j)
    <3>1. i + 1 \in 1..Len(s) /\ r[i] = s[i + 1] /\ (i < Len(r) <=> i + 1 < Len(s)) /\ i + 1 # j /\ (i + 1) + 1 # j
      BY <1>1, <2>3
    <3>2. i < Len(r) => r[i + 1] = s[(i + 1) + 1]
      BY <1>1, <2>3
    <3> QED BY <3>1, <3>2 DEF Leads
  <2> QED BY <1>1, <2>1, <2>2, <2>3
<1>3. Apart(r)
  <2> SUFFICES ASSUME NEW i \in 1..Len(r), NEW k \in 1..Len(r), r[i] = r[k] PROVE i = k
    BY DEF Apart
  <2>1. i \in 1..Len(s) /\ i + 1 \in 1..Len(s) /\ k \in 1..Len(s) /\ k + 1 \in 1..Len(s)
    BY <1>1
  <2> QED BY <1>1, <2>1 DEF Apart
<1>4. IF r = << >> THEN other \notin N ELSE other = r[1]
  <2>1. r = << >> <=> Len(s) = 1
    BY <1>1, EmptySeq
  <2>2. s # << >> /\ first = s[1]
    BY <1>1, EmptySeq DEF Leads
  <2>3. CASE j = 1
    <3>1. CASE Len(s) = 1
      BY <2>1, <2>3, <3>1 DEF Leads
    <3>2. CASE Len(s) # 1
      <4>1. 1 < Len(s) /\ 1 \in 1..Len(s) /\ r[1] = s[1 + 1]
        BY <1>1, <2>3, <3>2
      <4> QED BY <2>1, <2>3, <3>2, <4>1 DEF Leads
    <3> QED BY <3>1, <3>2
  <2>4. CASE j # 1
    <3>1. Len(s) # 1 /\ r[1] = s[1]
      BY <1>1, <2>4
    <3> QED BY <2>1, <2>2, <2>4, <3>1
  <2> QED BY <2>3, <2>4
<1> QED BY <1>1, <1>2, <1>3, <1>4 DEF Leads, r

-----------------------------------------------------------------------------
(* The singly linked list: head and next lead along a sequence of nodes. *)

SllTyped ==
  /\ DOMAIN sll = {"head", "size", "next", "key"} /\ sll.head \in ListNodes \cup {Null} /\ sll.size \in Int
  /\ sll.next \in [ListNodes -> ListNodes \cup {Null}] /\ sll.key \in [ListNodes -> Keys \cup {0}]
  /\ sllLive \subseteq ListNodes
SllAt(s) ==
  /\ SllTyped /\ Leads(ListNodes, sll.head, sll.next, s) /\ Apart(s)
  /\ Len(s) <= sll.size /\ \A i \in 1..Len(s) : s[i] \in sllLive
  /\ \A n \in ListNodes \ sllLive : sll.next[n] = Null
SllInv == \E s : SllAt(s)
SllKeys == Sll!KeysOf(Sll!Now, sll.key)

\* What the modules of the lists say of finite sets is what is said here.
LEMMA SllSets == (\A S : Sll!Cardinality(S) = Cardinality(S)) /\ (\A S : Sll!IsFiniteSet(S) <=> IsFiniteSet(S))
BY DEF Sll!Cardinality, Cardinality, Sll!IsFiniteSet, IsFiniteSet

LEMMA SllFacts ==
  ASSUME NEW s, SllAt(s)
  PROVE  /\ s \in Seq(ListNodes) /\ Len(s) \in Nat /\ \A i \in 1..Len(s) : s[i] \in ListNodes
         /\ sll.head = IF s = << >> THEN Null ELSE s[1]
         /\ \A i \in 1..Len(s) : sll.next[s[i]] = IF i < Len(s) THEN s[i + 1] ELSE Null
         /\ IsFiniteSet(ListNodes) /\ Null \notin ListNodes
         /\ (s = << >> <=> Len(s) = 0)
<1>1. IsFiniteSet(ListNodes) /\ Null \notin ListNodes
  BY ListsAssumption, SllSets DEF Sll!ListAssumption
<1>2. s \in Seq(ListNodes) /\ Len(s) \in Nat /\ \A i \in 1..Len(s) : s[i] \in ListNodes
  BY ElementOfSeq, LenProperties DEF SllAt, Leads
<1>3. s = << >> <=> Len(s) = 0
  BY <1>2, EmptySeq
<1> QED BY <1>1, <1>2, <1>3 DEF SllAt, Leads, SllTyped

LEMMA SllFields ==
  ASSUME NEW s, SllAt(s)
  PROVE  /\ DOMAIN sll = {"head", "size", "next", "key"} /\ sll.size \in Int /\ Len(s) <= sll.size
         /\ Values(s, sll.key) \in Seq(Keys \cup {0}) /\ Len(Values(s, sll.key)) = Len(s)
<1>1. s \in Seq(ListNodes)
  BY SllFacts
<1>2. \A x \in ListNodes : sll.key[x] \in Keys \cup {0}
  BY DEF SllAt, SllTyped
<1>3. Values(s, sll.key) \in Seq(Keys \cup {0}) /\ Len(Values(s, sll.key)) = Len(s)
  BY <1>1, <1>2, ValuesAre
<1> QED BY <1>3 DEF SllAt, SllTyped

LEMMA SllSeen ==
  \A s : SllAt(s) => Sll!Now = s /\ SllKeys = Values(s, sll.key) /\ Sll!ChainSound
<1> SUFFICES ASSUME NEW s, SllAt(s) PROVE Sll!Now = s /\ SllKeys = Values(s, sll.key) /\ Sll!ChainSound
  OBVIOUS
<1>1. Sll!Now = s
  <2> DEFINE n == Cardinality(ListNodes)
             g == CHOOSE f : f = Meeting(f, sll.head, sll.next, ListNodes, n)
  <2>1. g[n] = s
    <3> HIDE DEF g
    <3> QED BY SllFacts, ChainIs DEF SllAt, g
  <2>2. ListNodes \ {Null} = ListNodes
    BY SllFacts
  <2>3. Sll!Now = g[n]
    BY <2>2, SllSets, ZenonT(60) DEF Sll!Now, Sll!Chain, Meeting, Longer
  <2> QED BY <2>1, <2>3
<1>2. SllKeys = Values(s, sll.key)
  BY <1>1 DEF SllKeys, Sll!KeysOf, Values
<1>3. Sll!ChainSound
  <2>1. Sll!NodesOf(Sll!Now) = {s[i] : i \in 1..Len(s)}
    BY <1>1, SllFacts DEF Sll!NodesOf
  <2>2. Cardinality({s[i] : i \in 1..Len(s)}) = Len(s)
    BY SllFacts, CountsApart DEF SllAt
  <2> QED BY <1>1, <2>1, <2>2, SllSets DEF Sll!ChainSound, Sll!Distinct, SllAt
<1> QED BY <1>1, <1>2, <1>3

\* A node that is taken away.
SllWithout(s, j) ==
  /\ SllTyped' /\ sllLive' = sllLive \ {s[j]} /\ sll'.size >= Len(s) - 1
  /\ IF j = 1 THEN sll'.head = sll.next[s[1]]
     ELSE sll'.head = sll.head /\ sll'.next[s[j - 1]] = sll.next[s[j]]
  /\ sll'.next[s[j]] = Null
  /\ \A n \in ListNodes \ {s[j]} : sll'.key[n] = sll.key[n]
  /\ \A n \in ListNodes \ {s[j]} : j = 1 \/ n # s[j - 1] => sll'.next[n] = sll.next[n]

LEMMA SllTaken ==
  ASSUME NEW s, SllAt(s), NEW j \in 1..Len(s), SllWithout(s, j)
  PROVE  SllAt(Skip(s, j))' /\ Values(Skip(s, j), sll'.key) = Skip(Values(s, sll.key), j)
<1> DEFINE r == Skip(s, j)
           old == sll.next
           new == sll'.next
           key == sll.key
           val == sll'.key
<1>1. /\ s \in Seq(ListNodes) /\ Len(s) \in Nat /\ \A i \in 1..Len(s) : s[i] \in ListNodes
      /\ \A i, k \in 1..Len(s) : s[i] = s[k] => i = k
  BY SllFacts DEF SllAt, Apart
<1>2. \A i \in 1..Len(s) : i # j => s[i] \in ListNodes \ {s[j]}
  BY <1>1
<1>3. /\ \A n \in ListNodes \ {s[j]} : val[n] = key[n]
      /\ \A n \in ListNodes \ {s[j]} : j = 1 \/ n # s[j - 1] => new[n] = old[n]
      /\ IF j = 1 THEN sll'.head = old[s[1]] ELSE sll'.head = sll.head /\ new[s[j - 1]] = old[s[j]]
      /\ key \in [ListNodes -> Keys \cup {0}] /\ val \in [ListNodes -> Keys \cup {0}] /\ new[s[j]] = Null
      /\ Leads(ListNodes, sll.head, old, s) /\ Apart(s)
  BY DEF SllAt, SllTyped, SllWithout
<1> HIDE DEF old, new, key, val
<1>4. Leads(ListNodes, sll'.head, new, r) /\ Apart(r)
  <2>1. ASSUME NEW i \in 1..Len(s), i # j, i + 1 # j PROVE new[s[i]] = old[s[i]]
    <3>1. j = 1 \/ (j - 1 \in 1..Len(s) /\ i # j - 1)
      BY <1>1, <2>1
    <3>2. j = 1 \/ s[i] # s[j - 1]
      BY <1>1, <3>1
    <3> QED BY <1>2, <1>3, <2>1, <3>2
  <2>2. \A i \in 1..Len(s) : i # j /\ i + 1 # j => new[s[i]] = old[s[i]]
    BY <2>1
  <2>3. IF j = 1 THEN sll'.head = old[s[1]] ELSE sll'.head = sll.head /\ new[s[j - 1]] = old[s[j]]
    BY <1>3
  <2>4. Leads(ListNodes, sll.head, old, s) /\ Apart(s)
    BY <1>3
  <2> HIDE DEF r
  <2>5. Leads(ListNodes, sll'.head, new, Skip(s, j)) /\ Apart(Skip(s, j))
    BY <2>2, <2>3, <2>4, LeadsSkip
  <2> QED BY <2>5 DEF r
<1>5. Values(r, val) = Skip(Values(s, key), j)
  <2>1. \A i \in 1..Len(s) : i # j => val[s[i]] = key[s[i]]
    BY <1>2, <1>3
  <2>2. s \in Seq(ListNodes)
    BY <1>1, <1>3
  <2> QED BY <2>1, <2>2, ValuesSkip
<1>6. /\ Len(r) = Len(s) - 1
      /\ \A i \in 1..Len(r) : r[i] = IF i < j THEN s[i] ELSE s[i + 1]
  BY <1>1, SkipIs
<1> HIDE DEF r
<1>7. ASSUME NEW i \in 1..Len(r) PROVE r[i] \in sllLive'
  <2>1. \E k \in 1..Len(s) : k # j /\ r[i] = s[k]
    <3>1. CASE i < j
      BY <1>1, <1>6, <3>1
    <3>2. CASE ~(i < j)
      <4>1. i + 1 \in 1..Len(s) /\ i + 1 # j
        BY <1>1, <1>6, <3>2
      <4> QED BY <1>6, <3>2, <4>1
    <3> QED BY <3>1, <3>2
  <2> QED BY <1>2, <2>1 DEF SllAt, SllWithout
<1>8. \A n \in ListNodes \ sllLive' : new[n] = Null
  <2> SUFFICES ASSUME NEW n \in ListNodes \ sllLive' PROVE new[n] = Null
    OBVIOUS
  <2>1. CASE n = s[j]
    BY <1>3, <2>1
  <2>2. CASE n # s[j]
    <3>1. n \notin sllLive /\ old[n] = Null
      BY <2>2 DEF SllAt, SllWithout, old
    <3>2. j = 1 \/ n # s[j - 1]
      <4>1. j = 1 \/ j - 1 \in 1..Len(s)
        BY <1>1
      <4> QED BY <3>1, <4>1 DEF SllAt
    <3> QED BY <1>3, <2>2, <3>1, <3>2
  <2> QED BY <2>1, <2>2
<1>9. SllTyped' /\ sll'.size >= Len(s) - 1
  BY DEF SllWithout
<1> QED BY <1>4, <1>5, <1>6, <1>7, <1>8, <1>9 DEF SllAt, r, new, key, val

LEMMA SllPushesFront ==
  ASSUME NEW s, SllAt(s), NEW k \in Keys, Sll!PushFront(k)
  PROVE  \E r : SllAt(r)' /\ Values(r, sll'.key) = <<k>> \o Values(s, sll.key)
<1>1. PICK n \in ListNodes \ sllLive :
        /\ sll' = [sll EXCEPT !.key[n] = k, !.next[n] = sll.head, !.head = n, !.size = @ + 1]
        /\ sllLive' = sllLive \cup {n}
  BY DEF Sll!PushFront
<1> DEFINE old == sll.next
           new == sll'.next
           key == sll.key
           val == sll'.key
<1>2. /\ DOMAIN sll = {"head", "size", "next", "key"} /\ sll.head \in ListNodes \cup {Null} /\ sll.size \in Int
      /\ old \in [ListNodes -> ListNodes \cup {Null}] /\ key \in [ListNodes -> Keys \cup {0}]
      /\ sllLive \subseteq ListNodes /\ Leads(ListNodes, sll.head, old, s) /\ Apart(s) /\ Len(s) <= sll.size
  BY DEF SllAt, SllTyped
<1>3. /\ DOMAIN sll' = {"head", "size", "next", "key"} /\ sll'.head = n /\ sll'.size = sll.size + 1
      /\ new = [old EXCEPT ![n] = sll.head] /\ val = [key EXCEPT ![n] = k]
  BY <1>1, <1>2
<1>4. /\ s \in Seq(ListNodes) /\ Len(s) \in Nat
      /\ \A i \in 1..Len(s) : s[i] \in ListNodes /\ s[i] \in sllLive /\ s[i] # n
  BY SllFacts DEF SllAt
<1> HIDE DEF old, new, key, val
<1>5. /\ new[n] = sll.head /\ val[n] = k /\ val \in [ListNodes -> Keys \cup {0}]
      /\ new \in [ListNodes -> ListNodes \cup {Null}]
      /\ \A m \in ListNodes \ {n} : new[m] = old[m] /\ val[m] = key[m]
  BY <1>2, <1>3
<1> DEFINE r == <<n>> \o s
<1>6. Leads(ListNodes, n, new, r) /\ Apart(r)
  <2>1. \A i \in 1..Len(s) : s[i] # n
    BY <1>4
  <2>2. \A i \in 1..Len(s) : new[s[i]] = old[s[i]]
    BY <1>4, <1>5
  <2>3. Leads(ListNodes, sll.head, old, s) /\ Apart(s) /\ new[n] = sll.head
    BY <1>2, <1>5
  <2> QED BY <2>1, <2>2, <2>3, LeadsPush
<1>7. Values(r, val) = <<k>> \o Values(s, key)
  <2>1. Agree(s, key, val)
    BY <1>4, <1>5 DEF Agree
  <2>2. s \in Seq(ListNodes)
    BY <1>2, <1>4, <1>5
  <2>3. Values(<<n>> \o s, val) = <<val[n]>> \o Values(s, key)
    BY <2>1, <2>2, ValuesFront
  <2> QED BY <1>5, <2>3
<1>8. Len(r) = Len(s) + 1 /\ r[1] = n /\ \A i \in 1..Len(s) : r[i + 1] = s[i]
  BY <1>4, FrontIs
<1> HIDE DEF r
<1>9. \A i \in 1..Len(r) : r[i] \in sllLive'
  <2> SUFFICES ASSUME NEW i \in 1..Len(r) PROVE r[i] \in sllLive'
    OBVIOUS
  <2>1. i = 1 \/ (i - 1 \in 1..Len(s) /\ (i - 1) + 1 = i)
    BY <1>4, <1>8
  <2> QED BY <1>1, <1>4, <1>8, <2>1
<1>10. \A m \in ListNodes \ sllLive' : new[m] = Null
  BY <1>1, <1>5 DEF SllAt, old
<1>11. SllTyped'
  BY <1>1, <1>2, <1>3, <1>5 DEF SllTyped, new, val
<1>12. SllAt(r)'
  BY <1>2, <1>3, <1>4, <1>6, <1>8, <1>9, <1>10, <1>11 DEF SllAt, new
<1> QED BY <1>7, <1>12 DEF key, val

LEMMA SllPushesBack ==
  ASSUME NEW s, SllAt(s), NEW k \in Keys, Sll!PushBack(k)
  PROVE  \E r : SllAt(r)' /\ Values(r, sll'.key) = Append(Values(s, sll.key), k)
<1>1. /\ s \in Seq(ListNodes) /\ Len(s) \in Nat /\ Sll!Now = s /\ (s = << >> <=> Len(s) = 0) /\ Null \notin ListNodes
      /\ \A i \in 1..Len(s) : s[i] \in ListNodes /\ s[i] \in sllLive
      /\ sll.head = IF s = << >> THEN Null ELSE s[1]
      /\ \A i, j \in 1..Len(s) : s[i] = s[j] => i = j
  BY SllFacts, SllSeen DEF SllAt, Apart
<1>2. PICK n \in ListNodes \ sllLive :
        /\ sll' = IF s = << >> THEN [[sll EXCEPT !.key[n] = k, !.size = @ + 1] EXCEPT !.head = n]
                  ELSE [[sll EXCEPT !.key[n] = k, !.size = @ + 1] EXCEPT !.next[s[Len(s)]] = n]
        /\ sllLive' = sllLive \cup {n}
  <2>1. PICK n \in ListNodes \ sllLive :
          /\ sll' = IF sll.head = Null THEN [[sll EXCEPT !.key[n] = k, !.size = @ + 1] EXCEPT !.head = n]
                    ELSE [[sll EXCEPT !.key[n] = k, !.size = @ + 1] EXCEPT !.next[Sll!Last] = n]
          /\ sllLive' = sllLive \cup {n}
    BY DEF Sll!PushBack
  <2>2. (sll.head = Null <=> s = << >>) /\ Sll!Last = s[Len(s)]
    <3>1. s # << >> => s[1] \in ListNodes
      BY <1>1
    <3> QED BY <1>1, <3>1 DEF Sll!Last
  <2> QED BY <2>1, <2>2
<1> DEFINE old == sll.next
           new == sll'.next
           key == sll.key
           val == sll'.key
<1>3. /\ DOMAIN sll = {"head", "size", "next", "key"} /\ sll.head \in ListNodes \cup {Null} /\ sll.size \in Int
      /\ old \in [ListNodes -> ListNodes \cup {Null}] /\ key \in [ListNodes -> Keys \cup {0}]
      /\ sllLive \subseteq ListNodes /\ Leads(ListNodes, sll.head, old, s) /\ Apart(s) /\ Len(s) <= sll.size
      /\ old[n] = Null /\ \A i \in 1..Len(s) : s[i] # n
  BY <1>1 DEF SllAt, SllTyped
<1>4. /\ DOMAIN sll' = {"head", "size", "next", "key"} /\ sll'.size = sll.size + 1 /\ val = [key EXCEPT ![n] = k]
      /\ s = << >> => sll'.head = n /\ new = old
      /\ s # << >> => sll'.head = sll.head /\ new = [old EXCEPT ![s[Len(s)]] = n]
  <2>1. CASE s = << >>
    BY <1>2, <1>3, <2>1
  <2>2. CASE s # << >>
    BY <1>2, <1>3, <2>2
  <2> QED BY <2>1, <2>2
<1> HIDE DEF old, new, key, val
<1>5. val \in [ListNodes -> Keys \cup {0}] /\ val[n] = k /\ \A m \in ListNodes \ {n} : val[m] = key[m]
  BY <1>3, <1>4
<1>6. s # << >> => /\ Len(s) \in 1..Len(s) /\ s[Len(s)] \in ListNodes
                   /\ new[s[Len(s)]] = n /\ \A m \in ListNodes \ {s[Len(s)]} : new[m] = old[m]
  BY <1>1, <1>3, <1>4
<1>7. new \in [ListNodes -> ListNodes \cup {Null}] /\ new[n] = Null
  <2>1. CASE s = << >>
    BY <1>3, <1>4, <2>1
  <2>2. CASE s # << >>
    <3>1. n # s[Len(s)]
      BY <1>3, <1>6, <2>2
    <3> QED BY <1>3, <1>4, <2>2, <3>1
  <2> QED BY <2>1, <2>2
<1> DEFINE r == Append(s, n)
<1>8. Leads(ListNodes, sll'.head, new, r) /\ Apart(r)
  <2>1. CASE s = << >>
    <3>1. r = <<n>> \o s
      BY <1>1, <2>1
    <3>2. Len(s) = 0 /\ sll'.head = n /\ sll.head = Null /\ new = old
      BY <1>1, <1>4, <2>1
    <3>3. Leads(ListNodes, sll.head, new, s) /\ Apart(s) /\ new[n] = sll.head /\ \A i \in 1..Len(s) : s[i] # n
      BY <1>3, <1>7, <3>2
    <3>4. Leads(ListNodes, n, new, <<n>> \o s) /\ Apart(<<n>> \o s)
      BY <3>3, LeadsPush
    <3> QED BY <3>1, <3>2, <3>4
  <2>2. CASE s # << >>
    <3>1. \A i \in 1..Len(s) - 1 : new[s[i]] = old[s[i]]
      <4>1. \A i \in 1..Len(s) - 1 : i \in 1..Len(s) /\ i # Len(s)
        BY <1>1
      <4>2. \A i \in 1..Len(s) - 1 : s[i] # s[Len(s)] /\ s[i] \in ListNodes
        BY <1>1, <1>6, <2>2, <4>1
      <4> QED BY <1>6, <2>2, <4>2
    <3>2. new[n] \notin ListNodes /\ new[s[Len(s)]] = n
      BY <1>1, <1>6, <1>7, <2>2
    <3>3. Leads(ListNodes, sll.head, old, s) /\ Apart(s) /\ \A i \in 1..Len(s) : s[i] # n
      BY <1>3
    <3>4. Leads(ListNodes, sll.head, new, r) /\ Apart(r)
      BY <2>2, <3>1, <3>2, <3>3, LeadsAppend
    <3> QED BY <1>4, <2>2, <3>4
  <2> QED BY <2>1, <2>2
<1>9. Values(r, val) = Append(Values(s, key), k)
  <2>1. Agree(s, key, val)
    BY <1>1, <1>3, <1>5 DEF Agree
  <2>2. s \in Seq(ListNodes)
    BY <1>1, <1>3, <1>5
  <2>3. Values(Append(s, n), val) = Append(Values(s, key), val[n])
    BY <2>1, <2>2, ValuesAppend
  <2> QED BY <1>5, <2>3
<1>10. Len(r) = Len(s) + 1 /\ r[Len(s) + 1] = n /\ \A i \in 1..Len(s) : r[i] = s[i]
  BY <1>1, AppendProperties
<1> HIDE DEF r
<1>11. \A i \in 1..Len(r) : r[i] \in sllLive'
  BY <1>1, <1>2, <1>10
<1>12. \A m \in ListNodes \ sllLive' : new[m] = Null
  <2> SUFFICES ASSUME NEW m \in ListNodes \ sllLive' PROVE new[m] = Null
    OBVIOUS
  <2>1. m \notin sllLive /\ old[m] = Null
    BY <1>2 DEF SllAt, old
  <2>2. CASE s = << >>
    BY <1>4, <2>1, <2>2
  <2>3. CASE s # << >>
    <3>1. m # s[Len(s)]
      BY <1>1, <1>6, <2>1, <2>3
    <3> QED BY <1>6, <2>1, <2>3, <3>1
  <2> QED BY <2>2, <2>3
<1>13. SllTyped'
  <2>1. sll'.head \in ListNodes \cup {Null} /\ sll'.size \in Int
    BY <1>3, <1>4
  <2> QED BY <1>2, <1>3, <1>4, <1>5, <1>7, <2>1 DEF SllTyped, new, val
<1>14. SllAt(r)'
  BY <1>1, <1>3, <1>4, <1>8, <1>10, <1>11, <1>12, <1>13 DEF SllAt, new
<1> QED BY <1>9, <1>14 DEF key, val

\* What the calls that take a node away write: the node is cut out, and forgotten.
SllCut(s, j) ==
  /\ DOMAIN sll' = {"head", "size", "next", "key"} /\ sll'.size \in Int /\ sll'.size >= Len(s) - 1
  /\ sll'.head = IF j = 1 THEN sll.next[s[1]] ELSE sll.head
  /\ sll'.next = [IF j = 1 THEN sll.next ELSE [sll.next EXCEPT ![s[j - 1]] = sll.next[s[j]]] EXCEPT ![s[j]] = Null]
  /\ sll'.key = [sll.key EXCEPT ![s[j]] = 0]
  /\ sllLive' = sllLive \ {s[j]}

LEMMA SllCuts ==
  ASSUME NEW s, SllAt(s), NEW j \in 1..Len(s), SllCut(s, j)
  PROVE  SllAt(Skip(s, j))' /\ Values(Skip(s, j), sll'.key) = Skip(Values(s, sll.key), j)
<1> DEFINE old == sll.next
           new == sll'.next
           key == sll.key
           val == sll'.key
           n == s[j]
           mid == IF j = 1 THEN old ELSE [old EXCEPT ![s[j - 1]] = old[n]]
<1>1. /\ n \in ListNodes /\ (j # 1 => s[j - 1] \in ListNodes /\ s[j - 1] # n) /\ s[1] \in ListNodes
      /\ sll.head \in ListNodes \cup {Null} /\ sllLive \subseteq ListNodes
      /\ old \in [ListNodes -> ListNodes \cup {Null}] /\ key \in [ListNodes -> Keys \cup {0}]
  <2>1. j # 1 => j - 1 \in 1..Len(s) /\ j - 1 # j
    BY SllFacts
  <2>2. 1 \in 1..Len(s)
    BY SllFacts
  <2> QED BY <2>1, <2>2, SllFacts DEF SllAt, SllTyped, Apart
<1>2. /\ DOMAIN sll' = {"head", "size", "next", "key"} /\ sll'.size \in Int /\ sll'.size >= Len(s) - 1
      /\ sll'.head = IF j = 1 THEN old[s[1]] ELSE sll.head
      /\ new = [mid EXCEPT ![n] = Null] /\ val = [key EXCEPT ![n] = 0] /\ sllLive' = sllLive \ {n}
  BY DEF SllCut
<1>3. /\ mid \in [ListNodes -> ListNodes \cup {Null}] /\ (j # 1 => mid[s[j - 1]] = old[n])
      /\ \A m \in ListNodes : j = 1 \/ m # s[j - 1] => mid[m] = old[m]
  <2>1. CASE j = 1
    BY <1>1, <2>1
  <2>2. CASE j # 1
    <3> HIDE DEF old, n
    <3> QED BY <1>1, <2>2
  <2> QED BY <2>1, <2>2
<1> HIDE DEF old, new, key, val, n, mid
<1>4. /\ new \in [ListNodes -> ListNodes \cup {Null}] /\ new[n] = Null
      /\ \A m \in ListNodes \ {n} : new[m] = mid[m]
  BY <1>1, <1>2, <1>3
<1>5. val \in [ListNodes -> Keys \cup {0}] /\ \A m \in ListNodes \ {n} : val[m] = key[m]
  BY <1>1, <1>2
<1>6. SllTyped'
  <2>1. sll'.head \in ListNodes \cup {Null}
    BY <1>1, <1>2
  <2> QED BY <1>1, <1>2, <1>4, <1>5, <2>1 DEF SllTyped, new, val
<1>7. SllWithout(s, j)
  <2>1. IF j = 1 THEN sll'.head = old[s[1]] ELSE sll'.head = sll.head /\ new[s[j - 1]] = old[n]
    BY <1>1, <1>2, <1>3, <1>4
  <2>2. \A m \in ListNodes \ {n} : j = 1 \/ m # s[j - 1] => new[m] = old[m]
    BY <1>3, <1>4
  <2> QED BY <1>2, <1>4, <1>5, <1>6, <2>1, <2>2 DEF SllWithout, old, new, key, val, n
<1> QED BY <1>7, SllTaken

LEMMA SllPopsFront ==
  ASSUME NEW s, SllAt(s), Sll!PopFront
  PROVE  s # << >> /\ \E r : SllAt(r)' /\ Values(r, sll'.key) = Tail(Values(s, sll.key))
<1>1. /\ s # << >> /\ 1 \in 1..Len(s) /\ sll.head = s[1] /\ Len(s) \in Nat /\ s \in Seq(ListNodes)
      /\ DOMAIN sll = {"head", "size", "next", "key"} /\ sll.size \in Int /\ Len(s) <= sll.size
  <2>1. sll.head # Null
    BY DEF Sll!PopFront
  <2>2. s # << >> /\ Len(s) \in Nat /\ Len(s) # 0 /\ sll.head = s[1] /\ s \in Seq(ListNodes)
    BY <2>1, SllFacts
  <2> QED BY <2>2, SllFields
<1>2. /\ sll' = [[sll EXCEPT !.head = sll.next[sll.head], !.size = @ - 1] EXCEPT !.next[sll.head] = Null, !.key[sll.head] = 0]
      /\ sllLive' = sllLive \ {sll.head}
  BY DEF Sll!PopFront, Sll!Freed
<1>3. SllCut(s, 1)
  BY <1>1, <1>2 DEF SllCut
<1>4. SllAt(Skip(s, 1))' /\ Values(Skip(s, 1), sll'.key) = Skip(Values(s, sll.key), 1)
  BY <1>1, <1>3, SllCuts
<1>5. Values(s, sll.key) \in Seq(Keys \cup {0}) /\ Len(Values(s, sll.key)) = Len(s)
  BY SllFields
<1>6. Skip(Values(s, sll.key), 1) = Tail(Values(s, sll.key))
  BY <1>1, <1>5, SkipSays
<1> QED BY <1>1, <1>4, <1>6

LEMMA SllPopsBack ==
  ASSUME NEW s, SllAt(s), Sll!PopBack
  PROVE  s # << >> /\ \E r : SllAt(r)' /\ Values(r, sll'.key) = SubSeq(Values(s, sll.key), 1, Len(s) - 1)
<1> DEFINE j == Len(s)
<1>1. /\ s # << >> /\ j \in 1..Len(s) /\ sll.head = s[1] /\ Len(s) \in Nat /\ s \in Seq(ListNodes)
      /\ DOMAIN sll = {"head", "size", "next", "key"} /\ sll.size \in Int /\ Len(s) <= sll.size
      /\ sll.next[s[j]] = Null /\ Sll!Now = s /\ Sll!Last = s[j]
  <2>1. sll.head # Null
    BY DEF Sll!PopBack
  <2>2. s # << >> /\ Len(s) \in Nat /\ Len(s) # 0 /\ sll.head = s[1] /\ s \in Seq(ListNodes)
    BY <2>1, SllFacts
  <2>3. sll.next[s[j]] = Null
    BY <2>2, SllFacts
  <2>4. Sll!Now = s /\ Sll!Last = s[j]
    BY SllSeen DEF Sll!Last
  <2> QED BY <2>2, <2>3, <2>4, SllFields
<1>2. /\ sll' = [IF j = 1 THEN [[sll EXCEPT !.size = @ - 1] EXCEPT !.head = Null]
                 ELSE [[sll EXCEPT !.size = @ - 1] EXCEPT !.next[s[j - 1]] = Null] EXCEPT !.next[s[j]] = Null, !.key[s[j]] = 0]
      /\ sllLive' = sllLive \ {s[j]}
  BY <1>1 DEF Sll!PopBack, Sll!Freed
<1>3. SllCut(s, j)
  <2>1. CASE j = 1
    BY <1>1, <1>2, <2>1 DEF SllCut
  <2>2. CASE j # 1
    BY <1>1, <1>2, <2>2 DEF SllCut
  <2> QED BY <2>1, <2>2
<1> HIDE DEF j
<1>4. SllAt(Skip(s, j))' /\ Values(Skip(s, j), sll'.key) = Skip(Values(s, sll.key), j)
  BY <1>1, <1>3, SllCuts
<1>5. Values(s, sll.key) \in Seq(Keys \cup {0}) /\ Len(Values(s, sll.key)) = Len(s)
  BY SllFields
<1>6. Skip(Values(s, sll.key), j) = SubSeq(Values(s, sll.key), 1, Len(s) - 1)
  BY <1>1, <1>5, SkipSays DEF j
<1> QED BY <1>1, <1>4, <1>6

LEMMA SllRemoves ==
  ASSUME NEW s, SllAt(s), NEW i \in Nat, Sll!RemoveIdx(i)
  PROVE  \E r : /\ SllAt(r)'
                /\ Values(r, sll'.key) = SubSeq(Values(s, sll.key), 1, i) \o SubSeq(Values(s, sll.key), i + 2, Len(s))
<1> DEFINE j == i + 1
<1>1. /\ j \in 1..Len(s) /\ j - 1 = i /\ i # 0 /\ j # 1 /\ Len(s) \in Nat /\ s \in Seq(ListNodes)
      /\ DOMAIN sll = {"head", "size", "next", "key"} /\ sll.size \in Int /\ Len(s) <= sll.size
      /\ Sll!Now = s
  <2>1. Sll!Now = s
    BY SllSeen
  <2>2. i > 0 /\ Len(s) > i
    BY <2>1 DEF Sll!RemoveIdx
  <2> QED BY <2>1, <2>2, SllFacts, SllFields
<1>2. /\ sll' = [[sll EXCEPT !.next[s[i]] = sll.next[s[i+1]]] EXCEPT !.next[s[i+1]] = Null, !.key[s[i+1]] = 0]
      /\ sllLive' = sllLive \ {s[i+1]}
  BY <1>1 DEF Sll!RemoveIdx, Sll!Freed
<1>3. /\ sll' = [[sll EXCEPT !.next[s[j - 1]] = sll.next[s[j]]] EXCEPT !.next[s[j]] = Null, !.key[s[j]] = 0]
      /\ sllLive' = sllLive \ {s[j]}
  BY <1>1, <1>2
<1> HIDE DEF j
<1>4. SllCut(s, j)
  BY <1>1, <1>3 DEF SllCut
<1>5. SllAt(Skip(s, j))' /\ Values(Skip(s, j), sll'.key) = Skip(Values(s, sll.key), j)
  BY <1>1, <1>4, SllCuts
<1> DEFINE v == Values(s, sll.key)
<1>6. v \in Seq(Keys \cup {0}) /\ Len(v) = Len(s)
  BY SllFields
<1>7. Skip(v, j) = SubSeq(v, 1, j - 1) \o SubSeq(v, j + 1, Len(v))
  <2> HIDE DEF v
  <2> QED BY <1>1, <1>6, SkipSays
<1>8. j + 1 = i + 2
  BY DEF j
<1> QED BY <1>1, <1>5, <1>6, <1>7, <1>8

SllVoid == SllTyped /\ sll.head = Null /\ (\A n \in ListNodes \ sllLive : sll.next[n] = Null) /\ sll.size >= 0

LEMMA SllEmpty == (SllVoid => SllAt(<< >>)) /\ (SllVoid' => SllAt(<< >>)')
<1>1. SllVoid => SllAt(<< >>)
  BY ListsAssumption, SllSets DEF SllVoid, SllAt, Leads, Apart, Sll!ListAssumption
<1>2. SllVoid' => SllAt(<< >>)'
  BY <1>1, PTL
<1> QED BY <1>1, <1>2

LEMMA SllRemovesFirst ==
  ASSUME NEW s, SllAt(s), NEW i \in {-1, 0}, Sll!RemoveFirst(i)
  PROVE  SllInv'
<1>1. CASE sll.head = Null
  <2>1. sll' = sll /\ sllLive' = sllLive
    BY <1>1, SllFacts DEF Sll!RemoveFirst, SllAt, SllTyped
  <2> QED BY <2>1 DEF SllInv, SllAt, SllTyped
<1>2. CASE sll.head # Null
  <2>1. /\ sll.head \in ListNodes /\ DOMAIN sll = {"head", "size", "next", "key"} /\ sll.size \in Int /\ sll.size >= 0
        /\ sll.next \in [ListNodes -> ListNodes \cup {Null}] /\ sll.key \in [ListNodes -> Keys \cup {0}]
        /\ sllLive \subseteq ListNodes /\ sllLive' = sllLive \ {sll.head}
    BY <1>2, SllFacts, SllFields DEF SllAt, SllTyped, Sll!RemoveFirst
  <2>2. sll' = [[sll EXCEPT !.head = Null] EXCEPT !.next[sll.head] = Null, !.key[sll.head] = 0]
    BY <1>2 DEF Sll!RemoveFirst, Sll!Freed
  <2>3. /\ DOMAIN sll' = {"head", "size", "next", "key"} /\ sll'.head = Null /\ sll'.size = sll.size
        /\ sll'.next = [sll.next EXCEPT ![sll.head] = Null] /\ sll'.key = [sll.key EXCEPT ![sll.head] = 0]
    BY <2>1, <2>2
  <2>4. SllTyped'
    BY <2>1, <2>3 DEF SllTyped
  <2>5. \A n \in ListNodes \ sllLive' : sll'.next[n] = Null
    BY <2>1, <2>3 DEF SllAt
  <2> QED BY <2>1, <2>3, <2>4, <2>5, SllEmpty DEF SllInv, SllVoid
<1> QED BY <1>1, <1>2

LEMMA SllStarts ==
  /\ sll = Sll!NewSll /\ sllLive \subseteq ListNodes => SllAt(<< >>)
  /\ sll' = Sll!NewSll /\ sllLive' \subseteq ListNodes => SllAt(<< >>)'
<1>1. sll = Sll!NewSll /\ sllLive \subseteq ListNodes => SllAt(<< >>)
  <2> SUFFICES ASSUME sll = Sll!NewSll, sllLive \subseteq ListNodes PROVE SllAt(<< >>)
    OBVIOUS
  <2>1. SllTyped /\ sll.head = Null /\ sll.size = 0 /\ \A n \in ListNodes : sll.next[n] = Null
    BY DEF Sll!NewSll, SllTyped
  <2> QED BY <2>1, SllEmpty DEF SllVoid
<1>2. sll' = Sll!NewSll /\ sllLive' \subseteq ListNodes => SllAt(<< >>)'
  <2> SUFFICES ASSUME sll' = Sll!NewSll, sllLive' \subseteq ListNodes PROVE SllAt(<< >>)'
    OBVIOUS
  <2>1. SllTyped' /\ sll'.head = Null /\ sll'.size = 0 /\ \A n \in ListNodes : sll'.next[n] = Null
    BY DEF Sll!NewSll, SllTyped
  <2> QED BY <2>1, SllEmpty DEF SllVoid
<1> QED BY <1>1, <1>2

LEMMA SllSteps == SllInv /\ [Sll!Next]_sllVars => SllInv'
<1> SUFFICES ASSUME SllInv, [Sll!Next]_sllVars PROVE SllInv'
  OBVIOUS
<1>0. PICK s : SllAt(s)
  BY DEF SllInv
<1>1. ASSUME NEW k \in Keys, Sll!PushFront(k) PROVE SllInv'
  BY <1>0, <1>1, SllPushesFront DEF SllInv
<1>2. ASSUME NEW k \in Keys, Sll!PushBack(k) PROVE SllInv'
  BY <1>0, <1>2, SllPushesBack DEF SllInv
<1>3. ASSUME Sll!PopFront PROVE SllInv'
  BY <1>0, <1>3, SllPopsFront DEF SllInv
<1>4. ASSUME Sll!PopBack PROVE SllInv'
  BY <1>0, <1>4, SllPopsBack DEF SllInv
<1>5. ASSUME NEW i \in {-1, 0}, Sll!RemoveFirst(i) PROVE SllInv'
  BY <1>0, <1>5, SllRemovesFirst
<1>6. ASSUME NEW i \in 1..Sll!MaxSize, Sll!RemoveIdx(i) PROVE SllInv'
  <2>1. i \in Nat
    OBVIOUS
  <2> QED BY <1>0, <1>6, <2>1, SllRemoves DEF SllInv
<1>7. ASSUME Sll!DeleteList PROVE SllInv'
  BY <1>0, <1>7, SllStarts DEF SllInv, Sll!DeleteList, SllAt, SllTyped
<1>8. ASSUME UNCHANGED <<sll, sllLive>> PROVE SllInv'
  BY <1>0, <1>8 DEF SllInv, SllAt, SllTyped
<1>9. ASSUME NEW i \in 1..Sll!MaxSize, Sll!RemovePastEnd(i) PROVE SllInv'
  BY <1>8, <1>9 DEF Sll!RemovePastEnd
<1> QED BY <1>1, <1>2, <1>3, <1>4, <1>5, <1>6, <1>7, <1>8, <1>9 DEF Sll!Next, sllVars

SllShown == \A s : SllAt(s) => SllKeys = Values(s, sll.key)
LEMMA SllShows == SllShown /\ SllShown'
<1>1. SllShown
  BY SllSeen DEF SllShown
<1>2. SllShown'
  BY <1>1, PTL
<1> QED BY <1>1, <1>2

SllCalls ==
  /\ \A k \in Keys : Sll!PushFront(k) => Sll!AsDeque!PushFront(k)
  /\ \A k \in Keys : Sll!PushBack(k) => Sll!AsDeque!PushBack(k)
  /\ Sll!PopFront => Sll!AsDeque!PopFront
  /\ Sll!PopBack => Sll!AsDeque!PopBack
  /\ \A i \in 1..Sll!MaxSize : Sll!RemoveIdx(i) => Sll!AsDeque!Remove(i)

LEMMA SllDoes == SllInv => SllCalls
<1> SUFFICES ASSUME SllInv PROVE SllCalls
  OBVIOUS
<1>0. PICK s : SllAt(s)
  BY DEF SllInv
<1> DEFINE v == Values(s, sll.key)
<1>1. SllKeys = v /\ \A r : SllAt(r)' => SllKeys' = Values(r, sll'.key)
  BY <1>0, SllShows DEF SllShown, SllKeys
<1>2. v \in Seq(Keys \cup {0}) /\ Len(v) = Len(s) /\ (s = << >> <=> Len(s) = 0)
  BY <1>0, SllFields, SllFacts
<1>3. v = << >> <=> s = << >>
  <2> HIDE DEF v
  <2> QED BY <1>2, EmptySeq
<1> HIDE DEF v
<1>4. ASSUME NEW k \in Keys, Sll!PushFront(k) PROVE Sll!AsDeque!PushFront(k)
  <2>1. SllKeys' = <<k>> \o SllKeys
    BY <1>0, <1>1, <1>4, SllPushesFront DEF v
  <2> QED BY <2>1 DEF Sll!AsDeque!PushFront, SllKeys
<1>5. ASSUME NEW k \in Keys, Sll!PushBack(k) PROVE Sll!AsDeque!PushBack(k)
  <2>1. SllKeys' = Append(SllKeys, k)
    BY <1>0, <1>1, <1>5, SllPushesBack DEF v
  <2> QED BY <2>1 DEF Sll!AsDeque!PushBack, SllKeys
<1>6. ASSUME Sll!PopFront PROVE Sll!AsDeque!PopFront
  <2>1. SllKeys # << >> /\ SllKeys' = Tail(SllKeys)
    BY <1>0, <1>1, <1>3, <1>6, SllPopsFront DEF v
  <2> QED BY <2>1 DEF Sll!AsDeque!PopFront, SllKeys
<1>7. ASSUME Sll!PopBack PROVE Sll!AsDeque!PopBack
  <2>1. SllKeys # << >> /\ SllKeys' = SubSeq(SllKeys, 1, Len(SllKeys) - 1)
    BY <1>0, <1>1, <1>2, <1>3, <1>7, SllPopsBack DEF v
  <2> QED BY <2>1 DEF Sll!AsDeque!PopBack, SllKeys
<1>8. ASSUME NEW i \in 1..Sll!MaxSize, Sll!RemoveIdx(i) PROVE Sll!AsDeque!Remove(i)
  <2>0. i \in Nat
    OBVIOUS
  <2>1. SllKeys' = SubSeq(SllKeys, 1, i) \o SubSeq(SllKeys, i + 2, Len(SllKeys))
    BY <1>0, <1>1, <1>2, <1>8, <2>0, SllRemoves DEF v
  <2> QED BY <2>1 DEF Sll!AsDeque!Remove, SllKeys
<1> QED BY <1>4, <1>5, <1>6, <1>7, <1>8 DEF SllCalls

(***************************************************************************)
(* A singly linked list leads through allocated nodes only, meets none     *)
(* twice and has at most size nodes, and every call but removeIdx(i) with  *)
(* i <= 0 does to its keys what its name says, also after removeIdx has    *)
(* left size too large: for any keys and any number of nodes.              *)
(***************************************************************************)
THEOREM SllKeepsItsPromise == Week4Spec => SllIsDeque
<1>1. Week4Init => SllInv /\ Sll!AsDeque!Init
  <2> SUFFICES ASSUME Week4Init PROVE SllInv /\ Sll!AsDeque!Init
    OBVIOUS
  <2>1. SllAt(<< >>)
    BY SllStarts DEF Week4Init, Sll!Init
  <2>2. Values(<< >>, sll.key) = << >>
    BY DEF Values
  <2>3. SllKeys = << >>
    BY <2>1, <2>2, SllSeen
  <2> QED BY <2>1, <2>3 DEF SllInv, Sll!AsDeque!Init, SllKeys
<1>2. [Week4Next]_<<structure, vars, listVars>> => [Sll!Next]_sllVars
  BY DEF Week4Next, listVars, sllVars
<1>3. SllInv /\ [Week4Next]_<<structure, vars, listVars>> => SllInv'
  BY <1>2, SllSteps
<1>4. SllInv => Sll!ChainSound
  BY SllSeen DEF SllInv
<1>5. SllInv => [SllCalls]_(Sll!vars)
  BY SllDoes
<1>6. Week4Spec => []SllInv
  BY <1>1, <1>3, PTL DEF Week4Spec
<1>7. Week4Spec => Sll!AsDeque!Init /\ [][SllCalls]_(Sll!vars) /\ []Sll!ChainSound
  BY <1>1, <1>4, <1>5, <1>6, PTL DEF Week4Spec
<1> QED BY <1>7 DEF SllIsDeque, Sll!IsDeque, SllCalls

-----------------------------------------------------------------------------
(* A ring through a dummy node: the places of the nodes of s are 1..Len(s), *)
(* the dummy node h has the places 0 and Len(s) + 1.                        *)

At(h, s, i) == IF i \in 1..Len(s) THEN s[i] ELSE h
RingOf(h, next, prev, s) ==
  \A i \in 0..Len(s) : next[At(h, s, i)] = At(h, s, i + 1) /\ prev[At(h, s, i + 1)] = At(h, s, i)

\* No two places but the two of the dummy node are the same.
LEMMA PlacesDiffer ==
  ASSUME NEW N, NEW h, h \notin N, NEW s \in Seq(N), Apart(s)
  PROVE  /\ \A i, j \in 0..Len(s) : At(h, s, i) = At(h, s, j) => i = j
         /\ \A i, j \in 1..Len(s) + 1 : At(h, s, i) = At(h, s, j) => i = j
         /\ \A i \in 0..Len(s) + 1 : At(h, s, i) \in N \cup {h}
<1>1. Len(s) \in Nat /\ \A i \in 1..Len(s) : s[i] \in N
  BY ElementOfSeq, LenProperties
<1>2. \A i \in 1..Len(s) : At(h, s, i) = s[i] /\ At(h, s, i) # h
  BY <1>1 DEF At
<1>3. At(h, s, 0) = h /\ At(h, s, Len(s) + 1) = h
  BY <1>1 DEF At
<1>4. ASSUME NEW i \in 0..Len(s), NEW j \in 0..Len(s), At(h, s, i) = At(h, s, j) PROVE i = j
  <2>1. (i = 0 \/ i \in 1..Len(s)) /\ (j = 0 \/ j \in 1..Len(s))
    BY <1>1
  <2> QED BY <1>2, <1>3, <1>4, <2>1 DEF Apart
<1>5. ASSUME NEW i \in 1..Len(s) + 1, NEW j \in 1..Len(s) + 1, At(h, s, i) = At(h, s, j) PROVE i = j
  <2>1. (i = Len(s) + 1 \/ i \in 1..Len(s)) /\ (j = Len(s) + 1 \/ j \in 1..Len(s))
    BY <1>1
  <2> QED BY <1>2, <1>3, <1>5, <2>1 DEF Apart
<1>6. ASSUME NEW i \in 0..Len(s) + 1 PROVE At(h, s, i) \in N \cup {h}
  BY <1>1 DEF At
<1> QED BY <1>4, <1>5, <1>6

LEMMA RingTake ==
  ASSUME NEW N, NEW h, h \notin N, NEW s \in Seq(N), Apart(s), NEW next, NEW prev, RingOf(h, next, prev, s),
         NEW j \in 1..Len(s), NEW nx, NEW pv,
         nx[At(h, s, j - 1)] = At(h, s, j + 1), pv[At(h, s, j + 1)] = At(h, s, j - 1),
         \A x \in N \cup {h} : x # s[j] /\ x # At(h, s, j - 1) => nx[x] = next[x],
         \A x \in N \cup {h} : x # s[j] /\ x # At(h, s, j + 1) => pv[x] = prev[x]
  PROVE  RingOf(h, nx, pv, Skip(s, j))
<1> DEFINE r == Skip(s, j)
<1>1. Len(s) \in Nat /\ s[j] = At(h, s, j) /\ Len(r) = Len(s) - 1
      /\ \A i \in 1..Len(s) - 1 : r[i] = IF i < j THEN s[i] ELSE s[i + 1]
  BY SkipIs, LenProperties DEF At
<1> HIDE DEF r
<1>2. \A i \in 0..Len(s) : At(h, r, i) = IF i < j THEN At(h, s, i) ELSE At(h, s, i + 1)
  BY <1>1 DEF At
<1>3. \A i \in 0..Len(s) : next[At(h, s, i)] = At(h, s, i + 1) /\ prev[At(h, s, i + 1)] = At(h, s, i)
  BY DEF RingOf
<1>4. /\ \A i, k \in 0..Len(s) : At(h, s, i) = At(h, s, k) => i = k
      /\ \A i, k \in 1..Len(s) + 1 : At(h, s, i) = At(h, s, k) => i = k
      /\ \A i \in 0..Len(s) + 1 : At(h, s, i) \in N \cup {h}
  BY PlacesDiffer
<1>5. \A i \in 0..Len(s) : i # j /\ i # j - 1 => nx[At(h, s, i)] = At(h, s, i + 1)
  <2> SUFFICES ASSUME NEW i \in 0..Len(s), i # j, i # j - 1 PROVE nx[At(h, s, i)] = At(h, s, i + 1)
    OBVIOUS
  <2>1. j \in 0..Len(s) /\ j - 1 \in 0..Len(s) /\ i \in 0..Len(s) + 1
    BY <1>1
  <2>2. At(h, s, i) # s[j] /\ At(h, s, i) # At(h, s, j - 1) /\ At(h, s, i) \in N \cup {h}
    BY <1>1, <1>4, <2>1
  <2> QED BY <1>3, <2>2
<1>6. \A i \in 1..Len(s) + 1 : i # j /\ i # j + 1 => pv[At(h, s, i)] = At(h, s, i - 1)
  <2> SUFFICES ASSUME NEW i \in 1..Len(s) + 1, i # j, i # j + 1 PROVE pv[At(h, s, i)] = At(h, s, i - 1)
    OBVIOUS
  <2>1. j \in 1..Len(s) + 1 /\ j + 1 \in 1..Len(s) + 1 /\ i \in 0..Len(s) + 1 /\ i - 1 \in 0..Len(s) /\ (i - 1) + 1 = i
    BY <1>1
  <2>2. At(h, s, i) # s[j] /\ At(h, s, i) # At(h, s, j + 1) /\ At(h, s, i) \in N \cup {h}
    BY <1>1, <1>4, <2>1
  <2>3. prev[At(h, s, i)] = At(h, s, i - 1)
    BY <1>3, <2>1
  <2> QED BY <2>2, <2>3
<1>7. ASSUME NEW i \in 0..Len(r) PROVE nx[At(h, r, i)] = At(h, r, i + 1) /\ pv[At(h, r, i + 1)] = At(h, r, i)
  <2>1. i \in 0..Len(s) /\ i + 1 \in 0..Len(s) /\ i + 1 \in 1..Len(s) + 1
    BY <1>1
  <2>2. CASE i + 1 < j
    <3>1. At(h, r, i) = At(h, s, i) /\ At(h, r, i + 1) = At(h, s, i + 1)
      BY <1>1, <1>2, <2>1, <2>2
    <3>2. i # j /\ i # j - 1 /\ i + 1 # j /\ i + 1 # j + 1 /\ (i + 1) - 1 = i
      BY <1>1, <2>1, <2>2
    <3>3. nx[At(h, s, i)] = At(h, s, i + 1)
      BY <1>5, <2>1, <3>2
    <3>4. pv[At(h, s, i + 1)] = At(h, s, (i + 1) - 1)
      BY <1>6, <2>1, <3>2
    <3> QED BY <3>1, <3>2, <3>3, <3>4
  <2>3. CASE i + 1 = j
    <3>1. At(h, r, i) = At(h, s, j - 1) /\ At(h, r, i + 1) = At(h, s, j + 1)
      BY <1>1, <1>2, <2>1, <2>3
    <3> QED BY <3>1
  <2>4. CASE ~(i < j)
    <3>1. At(h, r, i) = At(h, s, i + 1) /\ At(h, r, i + 1) = At(h, s, (i + 1) + 1) /\ (i + 1) + 1 \in 1..Len(s) + 1
          /\ ((i + 1) + 1) - 1 = i + 1
      BY <1>1, <1>2, <2>1, <2>4
    <3>2. nx[At(h, s, i + 1)] = At(h, s, (i + 1) + 1)
      BY <1>1, <1>5, <2>1, <2>4
    <3>3. pv[At(h, s, (i + 1) + 1)] = At(h, s, ((i + 1) + 1) - 1)
      BY <1>1, <1>6, <2>1, <2>4, <3>1
    <3> QED BY <3>1, <3>2, <3>3
  <2> QED BY <1>1, <2>1, <2>2, <2>3, <2>4
<1> QED BY <1>7 DEF RingOf, r

\* s with n put in after place p.
Put(s, p, n) == [i \in 1..Len(s) + 1 |-> IF i <= p THEN s[i] ELSE IF i = p + 1 THEN n ELSE s[i - 1]]

IsPut(S, r, s, p, n) ==
  /\ r \in Seq(S) /\ Len(r) = Len(s) + 1 /\ Len(s) \in Nat
  /\ \A i \in 1..Len(s) + 1 : r[i] = IF i <= p THEN s[i] ELSE IF i = p + 1 THEN n ELSE s[i - 1]

LEMMA PutIs ==
  ASSUME NEW S, NEW s \in Seq(S), NEW p \in 0..Len(s), NEW n \in S
  PROVE  IsPut(S, Put(s, p, n), s, p, n)
<1>1. Len(s) \in Nat /\ Len(s) + 1 \in Nat /\ \A i \in 1..Len(s) : s[i] \in S
  BY ElementOfSeq, LenProperties
<1>2. \A i \in 1..Len(s) + 1 : (IF i <= p THEN s[i] ELSE IF i = p + 1 THEN n ELSE s[i - 1]) \in S
  BY <1>1
<1>3. Put(s, p, n) \in [1..Len(s) + 1 -> S]
  BY <1>2 DEF Put
<1>4. Put(s, p, n) \in Seq(S) /\ Len(Put(s, p, n)) = Len(s) + 1
  BY <1>1, <1>3
<1>5. \A i \in 1..Len(s) + 1 : Put(s, p, n)[i] = IF i <= p THEN s[i] ELSE IF i = p + 1 THEN n ELSE s[i - 1]
  BY DEF Put
<1> QED BY <1>1, <1>4, <1>5 DEF IsPut

LEMMA PutSays ==
  ASSUME NEW S, NEW s \in Seq(S), NEW n \in S
  PROVE  Put(s, 0, n) = <<n>> \o s /\ Put(s, Len(s), n) = Append(s, n)
<1>1. Len(s) \in Nat /\ 0 \in 0..Len(s) /\ Len(s) \in 0..Len(s)
  BY LenProperties
<1>2. Put(s, 0, n) = <<n>> \o s
  <2> DEFINE a == Put(s, 0, n)
             b == <<n>> \o s
  <2>1. a \in Seq(S) /\ Len(a) = Len(s) + 1
        /\ \A i \in 1..Len(s) + 1 : a[i] = IF i <= 0 THEN s[i] ELSE IF i = 0 + 1 THEN n ELSE s[i - 1]
    <3>1. IsPut(S, Put(s, 0, n), s, 0, n)
      BY <1>1, PutIs
    <3> QED BY <3>1 DEF IsPut
  <2>2. b \in Seq(S) /\ Len(b) = Len(s) + 1 /\ b[1] = n /\ \A i \in 1..Len(s) : b[i + 1] = s[i]
    BY FrontIs
  <2> HIDE DEF a, b
  <2>3. ASSUME NEW i \in 1..Len(a) PROVE a[i] = b[i]
    <3>1. CASE i = 1
      BY <1>1, <2>1, <2>2, <3>1
    <3>2. CASE i # 1
      <4>1. i - 1 \in 1..Len(s) /\ (i - 1) + 1 = i
        BY <1>1, <2>1, <3>2
      <4> QED BY <1>1, <2>1, <2>2, <3>2, <4>1
    <3> QED BY <3>1, <3>2
  <2>4. a = b
    BY <2>1, <2>2, <2>3, SeqEqual
  <2> QED BY <2>4 DEF a, b
<1>3. Put(s, Len(s), n) = Append(s, n)
  <2> DEFINE a == Put(s, Len(s), n)
             b == Append(s, n)
  <2>1. a \in Seq(S) /\ Len(a) = Len(s) + 1
        /\ \A i \in 1..Len(s) + 1 : a[i] = IF i <= Len(s) THEN s[i] ELSE IF i = Len(s) + 1 THEN n ELSE s[i - 1]
    <3>1. IsPut(S, Put(s, Len(s), n), s, Len(s), n)
      BY <1>1, PutIs
    <3> QED BY <3>1 DEF IsPut
  <2>2. b \in Seq(S) /\ Len(b) = Len(s) + 1 /\ b[Len(s) + 1] = n /\ \A i \in 1..Len(s) : b[i] = s[i]
    BY AppendProperties
  <2> HIDE DEF a, b
  <2>3. ASSUME NEW i \in 1..Len(a) PROVE a[i] = b[i]
    BY <1>1, <2>1, <2>2
  <2>4. a = b
    BY <2>1, <2>2, <2>3, SeqEqual
  <2> QED BY <2>4 DEF a, b
<1> QED BY <1>2, <1>3

\* n is linked in after place p.
Spliced(N, h, s, p, n, next, prev, nx, pv) ==
  /\ h \notin N /\ s \in Seq(N) /\ Apart(s) /\ RingOf(h, next, prev, s)
  /\ n \in N /\ (\A i \in 1..Len(s) : s[i] # n) /\ p \in 0..Len(s)
  /\ nx[At(h, s, p)] = n /\ nx[n] = At(h, s, p + 1) /\ pv[At(h, s, p + 1)] = n /\ pv[n] = At(h, s, p)
  /\ \A x \in N \cup {h} : x # n /\ x # At(h, s, p) => nx[x] = next[x]
  /\ \A x \in N \cup {h} : x # n /\ x # At(h, s, p + 1) => pv[x] = prev[x]

LEMMA RingPut ==
  ASSUME NEW N, NEW h, NEW s, NEW p, NEW n, NEW next, NEW prev, NEW nx, NEW pv,
         Spliced(N, h, s, p, n, next, prev, nx, pv)
  PROVE  RingOf(h, nx, pv, Put(s, p, n)) /\ Apart(Put(s, p, n))
<1>0. /\ h \notin N /\ s \in Seq(N) /\ Apart(s) /\ RingOf(h, next, prev, s)
      /\ n \in N /\ (\A i \in 1..Len(s) : s[i] # n) /\ p \in 0..Len(s)
      /\ nx[At(h, s, p)] = n /\ nx[n] = At(h, s, p + 1) /\ pv[At(h, s, p + 1)] = n /\ pv[n] = At(h, s, p)
      /\ \A x \in N \cup {h} : x # n /\ x # At(h, s, p) => nx[x] = next[x]
      /\ \A x \in N \cup {h} : x # n /\ x # At(h, s, p + 1) => pv[x] = prev[x]
  BY DEF Spliced
<1> DEFINE r == Put(s, p, n)
<1>1. /\ Len(s) \in Nat /\ r \in Seq(N) /\ Len(r) = Len(s) + 1
      /\ \A i \in 1..Len(s) + 1 : r[i] = IF i <= p THEN s[i] ELSE IF i = p + 1 THEN n ELSE s[i - 1]
  <2>1. IsPut(N, Put(s, p, n), s, p, n)
    BY <1>0, PutIs
  <2> QED BY <2>1 DEF IsPut
<1> HIDE DEF r
<1>2. \A i \in 0..Len(s) + 2 : At(h, r, i) = IF i <= p THEN At(h, s, i) ELSE IF i = p + 1 THEN n ELSE At(h, s, i - 1)
  BY <1>0, <1>1 DEF At
<1>3. \A i \in 0..Len(s) : next[At(h, s, i)] = At(h, s, i + 1) /\ prev[At(h, s, i + 1)] = At(h, s, i)
  BY <1>0 DEF RingOf
<1>4. /\ \A i, k \in 0..Len(s) : At(h, s, i) = At(h, s, k) => i = k
      /\ \A i, k \in 1..Len(s) + 1 : At(h, s, i) = At(h, s, k) => i = k
      /\ \A i \in 0..Len(s) + 1 : At(h, s, i) \in N \cup {h} /\ At(h, s, i) # n
  <2>1. \A i \in 0..Len(s) + 1 : At(h, s, i) # n
    BY <1>0 DEF At
  <2> QED BY <1>0, <2>1, PlacesDiffer
<1>5. \A i \in 0..Len(s) : i # p => nx[At(h, s, i)] = At(h, s, i + 1)
  <2> SUFFICES ASSUME NEW i \in 0..Len(s), i # p PROVE nx[At(h, s, i)] = At(h, s, i + 1)
    OBVIOUS
  <2>1. At(h, s, i) # n /\ At(h, s, i) # At(h, s, p) /\ At(h, s, i) \in N \cup {h}
    BY <1>0, <1>1, <1>4
  <2> QED BY <1>0, <1>3, <2>1
<1>6. \A i \in 0..Len(s) : i # p => pv[At(h, s, i + 1)] = At(h, s, i)
  <2> SUFFICES ASSUME NEW i \in 0..Len(s), i # p PROVE pv[At(h, s, i + 1)] = At(h, s, i)
    OBVIOUS
  <2>1. i + 1 \in 1..Len(s) + 1 /\ p + 1 \in 1..Len(s) + 1 /\ i + 1 \in 0..Len(s) + 1 /\ i + 1 # p + 1
    BY <1>0, <1>1
  <2>2. At(h, s, i + 1) # n /\ At(h, s, i + 1) # At(h, s, p + 1) /\ At(h, s, i + 1) \in N \cup {h}
    BY <1>4, <2>1
  <2> QED BY <1>0, <1>3, <2>2
<1>7. ASSUME NEW i \in 0..Len(r) PROVE nx[At(h, r, i)] = At(h, r, i + 1) /\ pv[At(h, r, i + 1)] = At(h, r, i)
  <2>1. i \in 0..Len(s) + 2 /\ i + 1 \in 0..Len(s) + 2 /\ i \in 0..Len(s) + 1
    BY <1>0, <1>1
  <2>2. CASE i < p
    <3>1. At(h, r, i) = At(h, s, i) /\ At(h, r, i + 1) = At(h, s, i + 1) /\ i \in 0..Len(s)
      BY <1>0, <1>1, <1>2, <2>1, <2>2
    <3> QED BY <1>5, <1>6, <2>2, <3>1
  <2>3. CASE i = p
    <3>1. At(h, r, i) = At(h, s, p) /\ At(h, r, i + 1) = n
      BY <1>0, <1>1, <1>2, <2>1, <2>3
    <3> QED BY <1>0, <3>1
  <2>4. CASE i = p + 1
    <3>1. At(h, r, i) = n /\ At(h, r, i + 1) = At(h, s, p + 1)
      BY <1>0, <1>1, <1>2, <2>1, <2>4
    <3> QED BY <1>0, <3>1
  <2>5. CASE i > p + 1
    <3>1. At(h, r, i) = At(h, s, i - 1) /\ At(h, r, i + 1) = At(h, s, (i - 1) + 1) /\ i - 1 \in 0..Len(s) /\ i - 1 # p
      BY <1>0, <1>1, <1>2, <2>1, <2>5
    <3> QED BY <1>5, <1>6, <3>1
  <2> QED BY <1>0, <1>1, <2>1, <2>2, <2>3, <2>4, <2>5
<1>8. Apart(r)
  <2> SUFFICES ASSUME NEW i \in 1..Len(r), NEW k \in 1..Len(r), r[i] = r[k] PROVE i = k
    BY DEF Apart
  <2>1. \A m \in 1..Len(r) : (m = p + 1 /\ r[m] = n) \/ (m <= p /\ m \in 1..Len(s) /\ r[m] = s[m])
                             \/ (m > p + 1 /\ m - 1 \in 1..Len(s) /\ r[m] = s[m - 1])
    BY <1>0, <1>1
  <2>2. \A m \in 1..Len(s) : s[m] # n
    BY <1>0
  <2>3. \A a, b \in 1..Len(s) : s[a] = s[b] => a = b
    BY <1>0 DEF Apart
  <2>4. (i = p + 1 <=> k = p + 1)
    BY <1>0, <2>1, <2>2
  <2>5. CASE i = p + 1
    BY <2>4, <2>5
  <2>6. CASE i # p + 1
    <3>1. CASE i <= p /\ k <= p
      <4>1. i \in 1..Len(s) /\ r[i] = s[i] /\ k \in 1..Len(s) /\ r[k] = s[k]
        BY <1>0, <2>1, <3>1
      <4> QED BY <2>3, <4>1
    <3>2. CASE i > p + 1 /\ k > p + 1
      <4>0. i - 1 \in 1..Len(s) /\ r[i] = s[i - 1] /\ k - 1 \in 1..Len(s) /\ r[k] = s[k - 1]
        BY <1>0, <1>1, <2>1, <3>2
      <4>1. i - 1 = k - 1
        BY <2>3, <4>0
      <4> QED BY <1>0, <1>1, <4>1
    <3>3. CASE i <= p /\ k > p + 1
      <4>0. i \in 1..Len(s) /\ r[i] = s[i] /\ k - 1 \in 1..Len(s) /\ r[k] = s[k - 1]
        BY <1>0, <1>1, <2>1, <3>3
      <4>1. i = k - 1
        BY <2>3, <4>0
      <4> QED BY <1>0, <1>1, <3>3, <4>1
    <3>4. CASE i > p + 1 /\ k <= p
      <4>0. i - 1 \in 1..Len(s) /\ r[i] = s[i - 1] /\ k \in 1..Len(s) /\ r[k] = s[k]
        BY <1>0, <1>1, <2>1, <3>4
      <4>1. i - 1 = k
        BY <2>3, <4>0
      <4> QED BY <1>0, <1>1, <3>4, <4>1
    <3> QED BY <1>0, <1>1, <2>4, <2>6, <3>1, <3>2, <3>3, <3>4
  <2> QED BY <2>5, <2>6
<1> QED BY <1>7, <1>8 DEF RingOf, r

\* The ring the other way.
Turned(s) == [i \in 1..Len(s) |-> s[Len(s) + 1 - i]]

BothWays(N, h, next, prev, s) ==
  /\ Leads(N, next[h], next, s)
  /\ Leads(N, prev[h], prev, Turned(s)) /\ Apart(Turned(s)) /\ Len(Turned(s)) = Len(s)
  /\ {Turned(s)[i] : i \in 1..Len(s)} = {s[i] : i \in 1..Len(s)}

LEMMA RingLeads ==
  ASSUME NEW N, NEW h, h \notin N, NEW s \in Seq(N), Apart(s), NEW next, NEW prev, RingOf(h, next, prev, s)
  PROVE  BothWays(N, h, next, prev, s)
<1> DEFINE r == Turned(s)
<1>1. Len(s) \in Nat /\ (s = << >> <=> Len(s) = 0) /\ \A i \in 1..Len(s) : s[i] \in N
  BY ElementOfSeq, LenProperties, EmptySeq
<1>2. r \in Seq(N) /\ Len(r) = Len(s) /\ \A i \in 1..Len(s) : r[i] = s[Len(s) + 1 - i]
  <2>1. \A i \in 1..Len(s) : Len(s) + 1 - i \in 1..Len(s)
    BY <1>1
  <2>2. r \in [1..Len(s) -> N]
    BY <1>1, <2>1 DEF Turned
  <2>3. \A i \in 1..Len(s) : r[i] = s[Len(s) + 1 - i]
    BY DEF Turned
  <2> HIDE DEF r
  <2> QED BY <1>1, <2>2, <2>3
<1> HIDE DEF r
<1>3. r = << >> <=> Len(s) = 0
  BY <1>2, EmptySeq
<1>4. \A i \in 0..Len(s) : next[At(h, s, i)] = At(h, s, i + 1) /\ prev[At(h, s, i + 1)] = At(h, s, i)
  BY DEF RingOf
<1>5. At(h, s, 0) = h /\ At(h, s, Len(s) + 1) = h /\ \A i \in 1..Len(s) : At(h, s, i) = s[i]
  BY <1>1 DEF At
<1>6. Leads(N, next[h], next, s)
  <2>1. next[h] = At(h, s, 1)
    <3>1. 0 \in 0..Len(s) /\ 0 + 1 = 1
      BY <1>1
    <3> QED BY <1>4, <1>5, <3>1
  <2>2. IF s = << >> THEN next[h] \notin N ELSE next[h] = s[1]
    BY <1>1, <2>1 DEF At
  <2>3. \A i \in 1..Len(s) : IF i < Len(s) THEN next[s[i]] = s[i + 1] ELSE next[s[i]] \notin N
    <3> TAKE i \in 1..Len(s)
    <3>1. next[s[i]] = At(h, s, i + 1)
      BY <1>1, <1>4, <1>5
    <3> QED BY <1>1, <3>1 DEF At
  <2> QED BY <2>2, <2>3 DEF Leads
<1>7. Leads(N, prev[h], prev, r)
  <2>1. prev[h] = At(h, s, Len(s))
    <3>1. Len(s) \in 0..Len(s)
      BY <1>1
    <3> QED BY <1>4, <1>5, <3>1
  <2>2. IF r = << >> THEN prev[h] \notin N ELSE prev[h] = r[1]
    BY <1>1, <1>2, <1>3, <2>1 DEF At
  <2>3. \A i \in 1..Len(r) : IF i < Len(r) THEN prev[r[i]] = r[i + 1] ELSE prev[r[i]] \notin N
    <3> TAKE i \in 1..Len(r)
    <3>1. prev[r[i]] = At(h, s, Len(s) - i)
      <4>1. Len(s) - i \in 0..Len(s) /\ (Len(s) - i) + 1 = Len(s) + 1 - i /\ Len(s) + 1 - i \in 1..Len(s)
        BY <1>1, <1>2
      <4> QED BY <1>2, <1>4, <1>5, <4>1
    <3>2. i < Len(r) => r[i + 1] = s[Len(s) - i] /\ Len(s) - i \in 1..Len(s)
      <4>1. i < Len(r) => i + 1 \in 1..Len(s) /\ Len(s) + 1 - (i + 1) = Len(s) - i /\ Len(s) - i \in 1..Len(s)
        BY <1>1, <1>2
      <4> QED BY <1>2, <4>1
    <3>3. ~(i < Len(r)) => Len(s) - i = 0
      BY <1>1, <1>2
    <3> QED BY <1>5, <3>1, <3>2, <3>3
  <2> QED BY <1>2, <2>2, <2>3 DEF Leads
<1>8. Apart(r)
  <2> SUFFICES ASSUME NEW i \in 1..Len(r), NEW k \in 1..Len(r), r[i] = r[k] PROVE i = k
    BY DEF Apart
  <2>1. Len(s) + 1 - i \in 1..Len(s) /\ Len(s) + 1 - k \in 1..Len(s)
    BY <1>1, <1>2
  <2>2. Len(s) + 1 - i = Len(s) + 1 - k
    BY <1>2, <2>1 DEF Apart
  <2> QED BY <1>1, <1>2, <2>2
<1>9. {r[i] : i \in 1..Len(s)} = {s[i] : i \in 1..Len(s)}
  <2>1. \A i \in 1..Len(s) : Len(s) + 1 - i \in 1..Len(s) /\ Len(s) + 1 - (Len(s) + 1 - i) = i
    BY <1>1
  <2>2. \A i \in 1..Len(s) : r[i] = s[Len(s) + 1 - i] /\ s[i] = r[Len(s) + 1 - i]
    BY <1>2, <2>1
  <2> QED BY <2>1, <2>2
<1> QED BY <1>2, <1>6, <1>7, <1>8, <1>9 DEF BothWays, r

-----------------------------------------------------------------------------
(* The doubly linked list: next and prev are a ring through the head node. *)

Places == ListNodes \cup {HeadNode}
Links == {"next", "prev"}
OneWay(link, d) == [x \in Places |-> link[x][d]]
DllTyped ==
  /\ DOMAIN dll = {"size", "key", "link"} /\ dll.size \in Int
  /\ dll.key \in [ListNodes -> Keys \cup {0}] /\ dll.link \in [Places -> [Links -> Places \cup {Null}]]
  /\ dllLive \subseteq ListNodes
DllAt(s) ==
  /\ DllTyped /\ s \in Seq(ListNodes) /\ Apart(s) /\ dll.size = Len(s)
  /\ dllLive = {s[i] : i \in 1..Len(s)}
  /\ RingOf(HeadNode, OneWay(dll.link, "next"), OneWay(dll.link, "prev"), s)
DllInv == \E s : DllAt(s)
DllKeys == Dll!KeysOf(Dll!Now("next"), dll.key)

LEMMA DllSets ==
  /\ (\A S : Dll!Cardinality(S) = Cardinality(S)) /\ (\A S : Dll!IsFiniteSet(S) <=> IsFiniteSet(S))
  /\ IsFiniteSet(ListNodes) /\ Null \notin ListNodes /\ HeadNode \notin ListNodes /\ HeadNode # Null
<1>1. (\A S : Dll!Cardinality(S) = Cardinality(S)) /\ (\A S : Dll!IsFiniteSet(S) <=> IsFiniteSet(S))
  BY DEF Dll!Cardinality, Cardinality, Dll!IsFiniteSet, IsFiniteSet
<1> QED BY <1>1, ListsAssumption DEF Dll!RingAssumption, Dll!ListAssumption

LEMMA DllFacts ==
  ASSUME NEW s, DllAt(s)
  PROVE  /\ s \in Seq(ListNodes) /\ Len(s) \in Nat /\ (s = << >> <=> Len(s) = 0) /\ dll.size = Len(s)
         /\ \A i \in 1..Len(s) : s[i] \in ListNodes /\ s[i] \in dllLive
         /\ \A i \in 0..Len(s) + 1 : At(HeadNode, s, i) \in Places
         /\ \A i \in 0..Len(s) : /\ dll.link[At(HeadNode, s, i)]["next"] = At(HeadNode, s, i + 1)
                                 /\ dll.link[At(HeadNode, s, i + 1)]["prev"] = At(HeadNode, s, i)
         /\ DOMAIN dll = {"size", "key", "link"} /\ dll.size \in Int /\ dllLive \subseteq ListNodes
         /\ dll.key \in [ListNodes -> Keys \cup {0}] /\ dll.link \in [Places -> [Links -> Places \cup {Null}]]
         /\ Values(s, dll.key) \in Seq(Keys \cup {0}) /\ Len(Values(s, dll.key)) = Len(s)
<1>1. s \in Seq(ListNodes) /\ Len(s) \in Nat /\ (s = << >> <=> Len(s) = 0) /\ \A i \in 1..Len(s) : s[i] \in ListNodes
  BY ElementOfSeq, LenProperties, EmptySeq DEF DllAt
<1>2. \A i \in 0..Len(s) + 1 : At(HeadNode, s, i) \in Places
  BY <1>1 DEF At, Places
<1>3. \A i \in 0..Len(s) : /\ dll.link[At(HeadNode, s, i)]["next"] = At(HeadNode, s, i + 1)
                           /\ dll.link[At(HeadNode, s, i + 1)]["prev"] = At(HeadNode, s, i)
  <2> TAKE i \in 0..Len(s)
  <2>1. At(HeadNode, s, i) \in Places /\ At(HeadNode, s, i + 1) \in Places
    BY <1>1, <1>2
  <2>2. /\ OneWay(dll.link, "next")[At(HeadNode, s, i)] = At(HeadNode, s, i + 1)
        /\ OneWay(dll.link, "prev")[At(HeadNode, s, i + 1)] = At(HeadNode, s, i)
    BY DEF DllAt, RingOf
  <2> QED BY <2>1, <2>2 DEF OneWay
<1>4. DllTyped /\ \A x \in ListNodes : dll.key[x] \in Keys \cup {0}
  BY DEF DllAt, DllTyped
<1>5. Values(s, dll.key) \in Seq(Keys \cup {0}) /\ Len(Values(s, dll.key)) = Len(s)
  BY <1>1, <1>4, ValuesAre
<1> QED BY <1>1, <1>2, <1>3, <1>4, <1>5 DEF DllAt, DllTyped

LEMMA DllSeen ==
  \A s : DllAt(s) => Dll!Now("next") = s /\ DllKeys = Values(s, dll.key) /\ Dll!Ring
<1> SUFFICES ASSUME NEW s, DllAt(s) PROVE Dll!Now("next") = s /\ DllKeys = Values(s, dll.key) /\ Dll!Ring
  OBVIOUS
<1>0. s \in Seq(ListNodes) /\ Len(s) \in Nat /\ \A i \in 1..Len(s) : s[i] \in ListNodes
  BY DllFacts
<1>1. ASSUME NEW d \in Links, NEW t, Leads(ListNodes, OneWay(dll.link, d)[HeadNode], OneWay(dll.link, d), t), Apart(t)
      PROVE  Dll!Now(d) = t
  <2> DEFINE n == Cardinality(ListNodes)
             first == dll.link[HeadNode][d]
             next == [x \in ListNodes |-> dll.link[x][d]]
             g == CHOOSE f : f = Meeting(f, first, next, ListNodes, n)
  <2>1. Leads(ListNodes, first, next, t)
    <3>1. OneWay(dll.link, d)[HeadNode] = first /\ \A x \in ListNodes : OneWay(dll.link, d)[x] = next[x]
      BY DEF OneWay, Places
    <3>2. \A i \in 1..Len(t) : t[i] \in ListNodes
      BY <1>1, ElementOfSeq DEF Leads
    <3> HIDE DEF first, next
    <3> QED BY <1>1, <3>1, <3>2 DEF Leads
  <2>2. g[n] = t
    <3> HIDE DEF g, first, next
    <3> QED BY <1>1, <2>1, DllSets, ChainIs DEF g
  <2>3. ListNodes \ {HeadNode} = ListNodes
    BY DllSets
  <2>4. Dll!Now(d) = g[n]
    <3>1. Dll!Now(d) = Dll!Chain(first, next, HeadNode)
      BY DEF Dll!Now, Dll!Following
    <3>2. Dll!Cardinality(ListNodes) = n
      BY DllSets
    <3> HIDE DEF first, next, n
    <3>3. Dll!Chain(first, next, HeadNode) = g[n]
      BY <2>3, <3>2, ZenonT(60) DEF Dll!Chain, Meeting, Longer
    <3> QED BY <3>1, <3>3
  <2> QED BY <2>2, <2>4
<1>2. /\ Leads(ListNodes, OneWay(dll.link, "next")[HeadNode], OneWay(dll.link, "next"), s)
      /\ Leads(ListNodes, OneWay(dll.link, "prev")[HeadNode], OneWay(dll.link, "prev"), Turned(s))
      /\ Apart(s) /\ Apart(Turned(s)) /\ Len(Turned(s)) = Len(s)
      /\ {Turned(s)[i] : i \in 1..Len(s)} = {s[i] : i \in 1..Len(s)}
  <2>1. /\ RingOf(HeadNode, OneWay(dll.link, "next"), OneWay(dll.link, "prev"), s)
        /\ Apart(s) /\ HeadNode \notin ListNodes
    BY DllSets DEF DllAt
  <2>2. BothWays(ListNodes, HeadNode, OneWay(dll.link, "next"), OneWay(dll.link, "prev"), s)
    BY <1>0, <2>1, RingLeads
  <2> QED BY <2>1, <2>2 DEF BothWays
<1>3. Dll!Now("next") = s /\ Dll!Now("prev") = Turned(s)
  BY <1>1, <1>2 DEF Links
<1>4. DllKeys = Values(s, dll.key)
  BY <1>3 DEF DllKeys, Dll!KeysOf, Values
<1>5. Dll!NodesOf(s) = dllLive /\ Dll!NodesOf(Turned(s)) = dllLive
  <2>1. Turned(s) \in Seq(ListNodes)
    BY <1>2 DEF Leads
  <2>2. DOMAIN s = 1..Len(s) /\ DOMAIN Turned(s) = 1..Len(s)
    BY <1>0, <1>2, <2>1
  <2> QED BY <1>2, <2>2 DEF Dll!NodesOf, DllAt
<1>6. Cardinality(dllLive) = Len(s)
  BY <1>0, CountsApart DEF DllAt
<1>7. ASSUME NEW n \in dllLive \cup {HeadNode}, NEW d \in Dll!Link PROVE dll.link[dll.link[n][d]][Dll!Back(d)] = n
  <2>1. PICK i \in 0..Len(s) : n = At(HeadNode, s, i)
    <3>1. CASE n = HeadNode
      <4>1. 0 \in 0..Len(s) /\ At(HeadNode, s, 0) = HeadNode
        BY <1>0 DEF At
      <4> QED BY <3>1, <4>1
    <3>2. CASE n \in dllLive
      <4>1. PICK i \in 1..Len(s) : n = s[i]
        BY <3>2 DEF DllAt
      <4> QED BY <1>0, <4>1 DEF At
    <3> QED BY <3>1, <3>2
  <2>2. CASE d = "next"
    BY <2>1, <2>2, DllFacts DEF Dll!Back
  <2>3. CASE d = "prev"
    <3>1. PICK k \in 0..Len(s) : n = At(HeadNode, s, k + 1)
      <4>1. CASE i = 0
        <5>1. Len(s) \in 0..Len(s) /\ At(HeadNode, s, Len(s) + 1) = HeadNode /\ At(HeadNode, s, 0) = HeadNode
          BY <1>0 DEF At
        <5> QED BY <2>1, <4>1, <5>1
      <4>2. CASE i # 0
        <5>1. i - 1 \in 0..Len(s) /\ (i - 1) + 1 = i
          BY <1>0, <4>2
        <5> QED BY <2>1, <5>1
      <4> QED BY <4>1, <4>2
    <3> QED BY <2>3, <3>1, DllFacts DEF Dll!Back
  <2> QED BY <2>2, <2>3 DEF Dll!Link
<1>8. Dll!Ring
  <2>1. \A d \in Dll!Link : Dll!NodesOf(Dll!Now(d)) = dllLive /\ Dll!Distinct(Dll!Now(d))
    <3> TAKE d \in Dll!Link
    <3>1. d = "next" \/ d = "prev"
      BY DEF Dll!Link
    <3> QED BY <1>2, <1>3, <1>5, <1>6, <3>1, DllSets DEF Dll!Distinct
  <2> QED BY <1>6, <1>7, <2>1, DllSets DEF Dll!Ring, DllAt
<1> QED BY <1>3, <1>4, <1>8

\* One link each way is written.
Relinked(R, L, V, link, d, x, v, e, y, w, new) ==
  /\ new \in [R -> [L -> V]]
  /\ \A z \in R : /\ new[z][d] = IF z = x THEN v ELSE link[z][d]
                  /\ new[z][e] = IF z = y THEN w ELSE link[z][e]

LEMMA Relink ==
  ASSUME NEW R, NEW L, NEW V, NEW link \in [R -> [L -> V]], NEW d \in L, NEW e \in L, e # d,
         NEW x \in R, NEW v \in V, NEW y \in R, NEW w \in V
  PROVE  Relinked(R, L, V, link, d, x, v, e, y, w, [[link EXCEPT ![x][d] = v] EXCEPT ![y][e] = w])
<1> DEFINE mid == [link EXCEPT ![x][d] = v]
           new == [mid EXCEPT ![y][e] = w]
<1>1. mid \in [R -> [L -> V]] /\ \A z \in R, f \in L : mid[z][f] = IF z = x /\ f = d THEN v ELSE link[z][f]
  OBVIOUS
<1> HIDE DEF mid
<1>2. new \in [R -> [L -> V]] /\ \A z \in R, f \in L : new[z][f] = IF z = y /\ f = e THEN w ELSE mid[z][f]
  BY <1>1
<1> HIDE DEF new
<1>3. \A z \in R : new[z][d] = (IF z = x THEN v ELSE link[z][d]) /\ new[z][e] = IF z = y THEN w ELSE link[z][e]
  BY <1>1, <1>2
<1>4. Relinked(R, L, V, link, d, x, v, e, y, w, new)
  BY <1>2, <1>3 DEF Relinked
<1> QED BY <1>4 DEF new, mid

LEMMA SkipNodes ==
  ASSUME NEW N, NEW s \in Seq(N), Apart(s), NEW j \in 1..Len(s)
  PROVE  {Skip(s, j)[i] : i \in 1..Len(Skip(s, j))} = {s[i] : i \in 1..Len(s)} \ {s[j]} /\ Apart(Skip(s, j))
<1> DEFINE r == Skip(s, j)
<1>1. /\ Len(s) \in Nat /\ Len(r) = Len(s) - 1
      /\ \A i \in 1..Len(s) - 1 : r[i] = IF i < j THEN s[i] ELSE s[i + 1]
  BY SkipIs, LenProperties
<1>2. \A i, k \in 1..Len(s) : s[i] = s[k] => i = k
  BY DEF Apart
<1> HIDE DEF r
<1>3. ASSUME NEW i \in 1..Len(r) PROVE \E k \in 1..Len(s) : k # j /\ r[i] = s[k]
  <2>1. CASE i < j
    BY <1>1, <2>1
  <2>2. CASE ~(i < j)
    <3>1. i + 1 \in 1..Len(s) /\ i + 1 # j
      BY <1>1, <2>2
    <3> QED BY <1>1, <2>2, <3>1
  <2> QED BY <2>1, <2>2
<1>4. ASSUME NEW k \in 1..Len(s), k # j PROVE \E i \in 1..Len(r) : r[i] = s[k]
  <2>1. CASE k < j
    BY <1>1, <2>1
  <2>2. CASE ~(k < j)
    <3>1. k - 1 \in 1..Len(r) /\ ~(k - 1 < j) /\ (k - 1) + 1 = k
      BY <1>1, <1>4, <2>2
    <3> QED BY <1>1, <3>1
  <2> QED BY <2>1, <2>2
<1>5. {r[i] : i \in 1..Len(r)} = {s[i] : i \in 1..Len(s)} \ {s[j]}
  <2>1. ASSUME NEW i \in 1..Len(r) PROVE r[i] \in {s[k] : k \in 1..Len(s)} \ {s[j]}
    BY <1>2, <1>3
  <2>2. ASSUME NEW k \in 1..Len(s), s[k] # s[j] PROVE s[k] \in {r[i] : i \in 1..Len(r)}
    <3>1. k # j
      BY <2>2
    <3> QED BY <1>4, <3>1
  <2> QED BY <2>1, <2>2
<1>6. Apart(r)
  <2> SUFFICES ASSUME NEW i \in 1..Len(r), NEW k \in 1..Len(r), r[i] = r[k] PROVE i = k
    BY DEF Apart
  <2>1. i \in 1..Len(s) /\ i + 1 \in 1..Len(s) /\ k \in 1..Len(s) /\ k + 1 \in 1..Len(s)
    BY <1>1
  <2> QED BY <1>1, <1>2, <2>1
<1> QED BY <1>5, <1>6 DEF r

\* A node is cut out of the ring.
DllCut(s, j) ==
  /\ DOMAIN dll' = {"size", "key", "link"} /\ dll'.size = dll.size - 1 /\ dll'.key = [dll.key EXCEPT ![s[j]] = 0]
  /\ dll'.link \in [Places -> [Links -> Places \cup {Null}]]
  /\ \A z \in Places \ {s[j]} :
       /\ dll'.link[z]["next"] = IF z = At(HeadNode, s, j - 1) THEN At(HeadNode, s, j + 1) ELSE dll.link[z]["next"]
       /\ dll'.link[z]["prev"] = IF z = At(HeadNode, s, j + 1) THEN At(HeadNode, s, j - 1) ELSE dll.link[z]["prev"]
  /\ dllLive' = dllLive \ {s[j]}

LEMMA DllCuts ==
  ASSUME NEW s, DllAt(s), NEW j \in 1..Len(s), DllCut(s, j)
  PROVE  DllAt(Skip(s, j))' /\ Values(Skip(s, j), dll'.key) = Skip(Values(s, dll.key), j)
<1> DEFINE r == Skip(s, j)
           n == s[j]
           key == dll.key
           val == dll'.key
           next == OneWay(dll.link, "next")
           prev == OneWay(dll.link, "prev")
           nx == OneWay(dll'.link, "next")
           pv == OneWay(dll'.link, "prev")
           before == At(HeadNode, s, j - 1)
           after == At(HeadNode, s, j + 1)
<1>1. /\ s \in Seq(ListNodes) /\ Len(s) \in Nat /\ dll.size = Len(s) /\ n \in ListNodes
      /\ \A i \in 1..Len(s) : s[i] \in ListNodes
      /\ key \in [ListNodes -> Keys \cup {0}] /\ Apart(s) /\ RingOf(HeadNode, next, prev, s) /\ HeadNode \notin ListNodes
      /\ dllLive = {s[i] : i \in 1..Len(s)} /\ dllLive \subseteq ListNodes
  BY DllFacts, DllSets DEF DllAt
<1>2. before \in Places \ {n} /\ after \in Places \ {n}
  <2>1. before \in Places /\ after \in Places
    BY <1>1, DllFacts
  <2>2. before # n /\ after # n
    <3>1. j - 1 \in 1..Len(s) => s[j - 1] # n
      BY <1>1 DEF Apart
    <3>2. j + 1 \in 1..Len(s) => s[j + 1] # n
      BY <1>1 DEF Apart
    <3> QED BY <1>1, <3>1, <3>2 DEF At
  <2> QED BY <2>1, <2>2
<1>3. /\ \A z \in Places \ {n} : nx[z] = (IF z = before THEN after ELSE next[z])
      /\ \A z \in Places \ {n} : pv[z] = (IF z = after THEN before ELSE prev[z])
  BY DEF DllCut, OneWay
<1> HIDE DEF next, prev, nx, pv
<1>4. RingOf(HeadNode, nx, pv, r) /\ Apart(r) /\ r \in Seq(ListNodes) /\ Len(r) = Len(s) - 1
      /\ {r[i] : i \in 1..Len(r)} = dllLive \ {n}
  <2>1. nx[before] = after /\ pv[after] = before
    BY <1>2, <1>3
  <2>2. \A x \in ListNodes \cup {HeadNode} : x # s[j] /\ x # At(HeadNode, s, j - 1) => nx[x] = next[x]
    BY <1>3 DEF Places
  <2>3. \A x \in ListNodes \cup {HeadNode} : x # s[j] /\ x # At(HeadNode, s, j + 1) => pv[x] = prev[x]
    BY <1>3 DEF Places
  <2>4. RingOf(HeadNode, nx, pv, Skip(s, j))
    <3> HIDE DEF r, n
    <3> QED BY <1>1, <2>1, <2>2, <2>3, RingTake
  <2>5. {r[i] : i \in 1..Len(r)} = dllLive \ {n} /\ Apart(r)
    BY <1>1, SkipNodes
  <2>6. r \in Seq(ListNodes) /\ Len(r) = Len(s) - 1
    BY <1>1, SkipIs
  <2> QED BY <2>4, <2>5, <2>6
<1>5. \A i \in 1..Len(s) : i # j => val[s[i]] = key[s[i]]
  <2>1. val = [key EXCEPT ![n] = 0]
    BY DEF DllCut
  <2>2. \A i \in 1..Len(s) : i # j => s[i] # n
    BY <1>1 DEF Apart
  <2> HIDE DEF key, val, n
  <2> QED BY <1>1, <2>1, <2>2
<1>6. Values(r, val) = Skip(Values(s, key), j)
  <2> HIDE DEF key, val, r
  <2>1. Values(Skip(s, j), val) = Skip(Values(s, key), j)
    BY <1>1, <1>5, ValuesSkip
  <2> QED BY <2>1 DEF r
<1> HIDE DEF r
<1>7. DllTyped'
  BY <1>1 DEF DllTyped, DllCut
<1>8. DllAt(r)'
  BY <1>1, <1>4, <1>7 DEF DllAt, DllCut, nx, pv
<1> QED BY <1>6, <1>8 DEF r, key, val

Among(s) == {s[i] : i \in 1..Len(s)}

LEMMA PutNodes ==
  ASSUME NEW N, NEW r, NEW s, NEW p, NEW n, p \in 0..Len(s), IsPut(N, r, s, p, n)
  PROVE  Among(r) = Among(s) \cup {n}
<1>1. /\ Len(s) \in Nat /\ Len(r) = Len(s) + 1
      /\ \A i \in 1..Len(s) + 1 : r[i] = IF i <= p THEN s[i] ELSE IF i = p + 1 THEN n ELSE s[i - 1]
  BY DEF IsPut
<1>2. ASSUME NEW i \in 1..Len(r) PROVE r[i] = n \/ \E k \in 1..Len(s) : r[i] = s[k]
  <2>1. CASE i <= p
    BY <1>1, <2>1
  <2>2. CASE i = p + 1
    BY <1>1, <2>2
  <2>3. CASE i > p + 1
    <3>1. i - 1 \in 1..Len(s)
      BY <1>1, <2>3
    <3> QED BY <1>1, <2>3, <3>1
  <2> QED BY <1>1, <2>1, <2>2, <2>3
<1>3. ASSUME NEW k \in 1..Len(s) PROVE \E i \in 1..Len(r) : r[i] = s[k]
  <2>1. CASE k <= p
    BY <1>1, <2>1
  <2>2. CASE k > p
    <3>1. k + 1 \in 1..Len(s) + 1 /\ k + 1 \in 1..Len(r) /\ ~(k + 1 <= p) /\ k + 1 # p + 1 /\ (k + 1) - 1 = k
      BY <1>1, <2>2
    <3> QED BY <1>1, <3>1
  <2> QED BY <1>1, <2>1, <2>2
<1>4. \E i \in 1..Len(r) : r[i] = n
  <2>1. p + 1 \in 1..Len(s) + 1 /\ p + 1 \in 1..Len(r) /\ ~(p + 1 <= p)
    BY <1>1
  <2>2. r[p + 1] = n
    BY <1>1, <2>1
  <2> QED BY <2>1, <2>2
<1>5. \A x : x \in {r[i] : i \in 1..Len(r)} => x \in {s[i] : i \in 1..Len(s)} \cup {n}
  BY <1>2
<1>6. \A x : x \in {s[i] : i \in 1..Len(s)} \cup {n} => x \in {r[i] : i \in 1..Len(r)}
  BY <1>3, <1>4
<1> QED BY <1>5, <1>6 DEF Among

\* A node is linked into the ring.
DllJoin(s, p, n, k) ==
  /\ DOMAIN dll' = {"size", "key", "link"} /\ dll'.size = dll.size + 1 /\ dll'.key = [dll.key EXCEPT ![n] = k]
  /\ dll'.link \in [Places -> [Links -> Places \cup {Null}]]
  /\ dll'.link[n]["next"] = At(HeadNode, s, p + 1) /\ dll'.link[n]["prev"] = At(HeadNode, s, p)
  /\ \A z \in Places \ {n} :
       /\ dll'.link[z]["next"] = IF z = At(HeadNode, s, p) THEN n ELSE dll.link[z]["next"]
       /\ dll'.link[z]["prev"] = IF z = At(HeadNode, s, p + 1) THEN n ELSE dll.link[z]["prev"]
  /\ dllLive' = dllLive \cup {n}

LEMMA DllJoins ==
  ASSUME NEW s, DllAt(s), NEW p \in 0..Len(s), NEW n \in ListNodes \ dllLive, NEW k \in Keys, DllJoin(s, p, n, k)
  PROVE  /\ DllAt(Put(s, p, n))' /\ dll'.key[n] = k
         /\ \A i \in 1..Len(s) : dll'.key[s[i]] = dll.key[s[i]]
<1> DEFINE r == Put(s, p, n)
           key == dll.key
           val == dll'.key
           next == OneWay(dll.link, "next")
           prev == OneWay(dll.link, "prev")
           nx == OneWay(dll'.link, "next")
           pv == OneWay(dll'.link, "prev")
           before == At(HeadNode, s, p)
           after == At(HeadNode, s, p + 1)
<1>1. /\ s \in Seq(ListNodes) /\ Len(s) \in Nat /\ dll.size = Len(s)
      /\ \A i \in 1..Len(s) : s[i] \in ListNodes /\ s[i] # n
      /\ key \in [ListNodes -> Keys \cup {0}] /\ Apart(s) /\ RingOf(HeadNode, next, prev, s) /\ HeadNode \notin ListNodes
      /\ dllLive = {s[i] : i \in 1..Len(s)} /\ dllLive \subseteq ListNodes
  BY DllFacts, DllSets DEF DllAt
<1>2. before \in Places \ {n} /\ after \in Places \ {n} /\ n \in Places
  <2>1. before \in Places /\ after \in Places
    BY <1>1, DllFacts
  <2> QED BY <1>1, <2>1 DEF At, Places
<1>3. /\ \A z \in Places \ {n} : nx[z] = (IF z = before THEN n ELSE next[z])
      /\ \A z \in Places \ {n} : pv[z] = (IF z = after THEN n ELSE prev[z])
      /\ nx[n] = after /\ pv[n] = before
  BY <1>2 DEF DllJoin, OneWay
<1> HIDE DEF next, prev, nx, pv
<1>4. RingOf(HeadNode, nx, pv, r) /\ Apart(r)
  <2>1. nx[before] = n /\ nx[n] = after /\ pv[after] = n /\ pv[n] = before
    BY <1>2, <1>3
  <2>2. \A x \in ListNodes \cup {HeadNode} : x # n /\ x # At(HeadNode, s, p) => nx[x] = next[x]
    BY <1>3 DEF Places
  <2>3. \A x \in ListNodes \cup {HeadNode} : x # n /\ x # At(HeadNode, s, p + 1) => pv[x] = prev[x]
    BY <1>3 DEF Places
  <2> HIDE DEF r
  <2>4. /\ HeadNode \notin ListNodes /\ s \in Seq(ListNodes) /\ Apart(s) /\ RingOf(HeadNode, next, prev, s)
        /\ n \in ListNodes
    BY <1>1
  <2>5. \A i \in 1..Len(s) : s[i] # n
    BY <1>1
  <2>6. RingOf(HeadNode, nx, pv, Put(s, p, n)) /\ Apart(Put(s, p, n))
    <3>1. Spliced(ListNodes, HeadNode, s, p, n, next, prev, nx, pv)
      BY <2>1, <2>2, <2>3, <2>4, <2>5 DEF Spliced
    <3> QED BY <3>1, RingPut
  <2> QED BY <2>6 DEF r
<1>5. r \in Seq(ListNodes) /\ Len(r) = Len(s) + 1 /\ {r[i] : i \in 1..Len(r)} = dllLive \cup {n}
  <2>1. IsPut(ListNodes, Put(s, p, n), s, p, n)
    BY <1>1, PutIs
  <2>2. {r[i] : i \in 1..Len(r)} = dllLive \cup {n}
    <3> HIDE DEF r
    <3>1. Among(r) = Among(s) \cup {n}
      <4>1. p \in 0..Len(s) /\ IsPut(ListNodes, r, s, p, n)
        BY <2>1 DEF r
      <4> QED BY <4>1, PutNodes
    <3> QED BY <1>1, <3>1 DEF Among
  <2> QED BY <2>1, <2>2 DEF IsPut
<1> HIDE DEF r
<1>6. val = [key EXCEPT ![n] = k]
  BY DEF DllJoin
<1> HIDE DEF key, val
<1>7. val \in [ListNodes -> Keys \cup {0}] /\ val[n] = k /\ \A i \in 1..Len(s) : val[s[i]] = key[s[i]]
  BY <1>1, <1>6
<1>8. DllTyped'
  BY <1>1, <1>7 DEF DllTyped, DllJoin, val
<1>9. DllAt(r)'
  BY <1>1, <1>4, <1>5, <1>8 DEF DllAt, DllJoin, nx, pv
<1> QED BY <1>7, <1>9 DEF r, key, val

LEMMA DllPushes ==
  ASSUME NEW s, DllAt(s), NEW d \in Links, NEW k \in Keys, Dll!Push(d, k)
  PROVE  \E n \in ListNodes \ dllLive : DllJoin(s, IF d = "next" THEN 0 ELSE Len(s), n, k)
<1> DEFINE first == dll.link[HeadNode][d]
           e == IF d = "next" THEN "prev" ELSE "next"
           h == HeadNode
<1>1. PICK n \in ListNodes \ dllLive :
        /\ dll' = [[dll EXCEPT !.link[n][d] = first, !.link[first][e] = n]
                   EXCEPT !.key[n] = k, !.link[h][d] = n, !.link[n][e] = h, !.size = @ + 1]
        /\ dllLive' = dllLive \cup {n}
  BY DEF Dll!Push, Dll!Back
<1>2. /\ Len(s) \in Nat /\ 0 \in 0..Len(s) /\ Len(s) \in 0..Len(s)
      /\ At(h, s, 0) = h /\ At(h, s, Len(s) + 1) = h /\ h \in Places /\ n \in Places /\ n # h
      /\ At(h, s, 1) \in Places /\ At(h, s, Len(s)) \in Places
      /\ dll.link \in [Places -> [Links -> Places \cup {Null}]] /\ DOMAIN dll = {"size", "key", "link"}
  <2>1. Len(s) \in Nat /\ \A i \in 0..Len(s) + 1 : At(h, s, i) \in Places
    BY DllFacts
  <2>2. 0 \in 0..Len(s) /\ Len(s) \in 0..Len(s) /\ 1 \in 0..Len(s) + 1 /\ Len(s) \in 0..Len(s) + 1
    BY <2>1
  <2>3. At(h, s, 0) = h /\ At(h, s, Len(s) + 1) = h
    BY <2>1 DEF At
  <2>4. h \in Places /\ n \in Places /\ n # h
    BY DllSets DEF Places
  <2> QED BY <2>1, <2>2, <2>3, <2>4, DllFacts
<1>3. dll.link[h]["next"] = At(h, s, 1) /\ dll.link[h]["prev"] = At(h, s, Len(s))
  <2>1. 0 + 1 = 1
    OBVIOUS
  <2> QED BY <1>2, <2>1, DllFacts
<1>4. first \in Places /\ first # n /\ d \in Links /\ e \in Links /\ e # d
  <2>1. first \in Places
    BY <1>2, <1>3 DEF Links
  <2>2. first # n
    <3>1. \A i \in 0..Len(s) + 1 : At(h, s, i) # n
      BY <1>2, DllFacts DEF At
    <3>2. 1 \in 0..Len(s) + 1 /\ Len(s) \in 0..Len(s) + 1
      BY <1>2
    <3> QED BY <1>3, <3>1, <3>2 DEF Links
  <2> QED BY <2>1, <2>2 DEF Links
<1> DEFINE V == Places \cup {Null}
           link == dll.link
           mid == [[link EXCEPT ![n][d] = first] EXCEPT ![first][e] = n]
           new == [[mid EXCEPT ![h][d] = n] EXCEPT ![n][e] = h]
<1>5. /\ DOMAIN dll' = {"size", "key", "link"} /\ dll'.size = dll.size + 1 /\ dll'.key = [dll.key EXCEPT ![n] = k]
      /\ dll'.link = new
  <2> HIDE DEF first, e, h
  <2> QED BY <1>1, <1>2
<1> HIDE DEF first, e, link
<1>6. /\ mid \in [Places -> [Links -> V]]
      /\ \A z \in Places : /\ mid[z][d] = IF z = n THEN first ELSE link[z][d]
                           /\ mid[z][e] = IF z = first THEN n ELSE link[z][e]
  <2> HIDE DEF V
  <2>1. link \in [Places -> [Links -> V]] /\ first \in V /\ n \in V
    BY <1>2, <1>4 DEF V, link
  <2>2. Relinked(Places, Links, V, link, d, n, first, e, first, n, mid)
    BY <1>2, <1>4, <2>1, Relink
  <2> QED BY <2>2 DEF Relinked
<1> HIDE DEF mid
<1>7. /\ new \in [Places -> [Links -> V]]
      /\ \A z \in Places : /\ new[z][d] = IF z = h THEN n ELSE mid[z][d]
                           /\ new[z][e] = IF z = n THEN h ELSE mid[z][e]
  <2> HIDE DEF V, h
  <2>1. n \in V /\ h \in V
    BY <1>2 DEF V
  <2>2. Relinked(Places, Links, V, mid, d, h, n, e, n, h, new)
    BY <1>2, <1>4, <1>6, <2>1, Relink
  <2> QED BY <2>2 DEF Relinked
<1> HIDE DEF new
<1>8. /\ new[n][d] = first /\ new[n][e] = h
      /\ \A z \in Places \ {n} : /\ new[z][d] = IF z = h THEN n ELSE link[z][d]
                                 /\ new[z][e] = IF z = first THEN n ELSE link[z][e]
  BY <1>2, <1>6, <1>7
<1>9. CASE d = "next"
  <2>1. e = "prev" /\ first = At(h, s, 0 + 1)
    BY <1>3, <1>9 DEF e, first
  <2>2. DllJoin(s, 0, n, k)
    <3>1. new[n]["next"] = At(h, s, 0 + 1) /\ new[n]["prev"] = At(h, s, 0)
      BY <1>2, <1>8, <1>9, <2>1
    <3>2. \A z \in Places \ {n} :
            /\ new[z]["next"] = IF z = At(h, s, 0) THEN n ELSE link[z]["next"]
            /\ new[z]["prev"] = IF z = At(h, s, 0 + 1) THEN n ELSE link[z]["prev"]
      BY <1>2, <1>8, <1>9, <2>1
    <3> QED BY <1>1, <1>5, <1>7, <3>1, <3>2 DEF DllJoin, link
  <2> QED BY <1>9, <2>2
<1>10. CASE d = "prev"
  <2>1. e = "next" /\ first = At(h, s, Len(s))
    BY <1>3, <1>10 DEF e, first
  <2>2. DllJoin(s, Len(s), n, k)
    <3>1. new[n]["next"] = At(h, s, Len(s) + 1) /\ new[n]["prev"] = At(h, s, Len(s))
      BY <1>2, <1>8, <1>10, <2>1
    <3>2. \A z \in Places \ {n} :
            /\ new[z]["next"] = IF z = At(h, s, Len(s)) THEN n ELSE link[z]["next"]
            /\ new[z]["prev"] = IF z = At(h, s, Len(s) + 1) THEN n ELSE link[z]["prev"]
      BY <1>2, <1>8, <1>10, <2>1
    <3> QED BY <1>1, <1>5, <1>7, <3>1, <3>2 DEF DllJoin, link
  <2> QED BY <1>10, <2>2
<1> QED BY <1>9, <1>10 DEF Links

LEMMA DllPushesFront ==
  ASSUME NEW s, DllAt(s), NEW k \in Keys, Dll!Push("next", k)
  PROVE  \E r : DllAt(r)' /\ Values(r, dll'.key) = <<k>> \o Values(s, dll.key)
<1>0. "next" \in Links
  BY DEF Links
<1>1. PICK n \in ListNodes \ dllLive : DllJoin(s, 0, n, k)
  BY <1>0, DllPushes
<1>2. s \in Seq(ListNodes) /\ 0 \in 0..Len(s) /\ n \in ListNodes
  BY DllFacts
<1>3. DllAt(Put(s, 0, n))' /\ dll'.key[n] = k /\ \A i \in 1..Len(s) : dll'.key[s[i]] = dll.key[s[i]]
  BY <1>1, <1>2, DllJoins
<1>4. Values(<<n>> \o s, dll'.key) = <<dll'.key[n]>> \o Values(s, dll.key)
  <2> DEFINE key == dll.key
             val == dll'.key
  <2>1. Agree(s, key, val)
    BY <1>3 DEF Agree
  <2>2. s \in Seq(ListNodes) /\ n \in ListNodes
    BY <1>2
  <2> HIDE DEF key, val
  <2>3. Values(<<n>> \o s, val) = <<val[n]>> \o Values(s, key)
    BY <2>1, <2>2, ValuesFront
  <2> QED BY <2>3 DEF key, val
<1>5. Put(s, 0, n) = <<n>> \o s
  BY <1>2, PutSays
<1> QED BY <1>3, <1>4, <1>5

LEMMA DllPushesBack ==
  ASSUME NEW s, DllAt(s), NEW k \in Keys, Dll!Push("prev", k)
  PROVE  \E r : DllAt(r)' /\ Values(r, dll'.key) = Append(Values(s, dll.key), k)
<1>0. "prev" \in Links /\ "prev" # "next"
  BY DEF Links
<1>1. PICK n \in ListNodes \ dllLive : DllJoin(s, Len(s), n, k)
  BY <1>0, DllPushes
<1>2. s \in Seq(ListNodes) /\ Len(s) \in 0..Len(s) /\ n \in ListNodes
  BY DllFacts
<1>3. DllAt(Put(s, Len(s), n))' /\ dll'.key[n] = k /\ \A i \in 1..Len(s) : dll'.key[s[i]] = dll.key[s[i]]
  BY <1>1, <1>2, DllJoins
<1>4. Values(Append(s, n), dll'.key) = Append(Values(s, dll.key), dll'.key[n])
  <2> DEFINE key == dll.key
             val == dll'.key
  <2>1. Agree(s, key, val)
    BY <1>3 DEF Agree
  <2>2. s \in Seq(ListNodes) /\ n \in ListNodes
    BY <1>2
  <2> HIDE DEF key, val
  <2>3. Values(Append(s, n), val) = Append(Values(s, key), val[n])
    BY <2>1, <2>2, ValuesAppend
  <2> QED BY <2>3 DEF key, val
<1>5. Put(s, Len(s), n) = Append(s, n)
  BY <1>2, PutSays
<1> QED BY <1>3, <1>4, <1>5

\* Both neighbours of a node are linked to each other, in either order, and the node is forgotten.
LEMMA DllUnlinks ==
  ASSUME NEW s, DllAt(s), NEW j \in 1..Len(s), NEW d \in Links, NEW e \in Links, e # d,
         NEW x \in Places, NEW y \in Places,
         dll' = [[dll EXCEPT !.link[x][d] = y, !.link[y][e] = x, !.size = @ - 1]
                 EXCEPT !.link[s[j]] = [f \in Links |-> Null], !.key[s[j]] = 0],
         IF d = "next" THEN x = At(HeadNode, s, j - 1) /\ y = At(HeadNode, s, j + 1)
                       ELSE x = At(HeadNode, s, j + 1) /\ y = At(HeadNode, s, j - 1),
         dllLive' = dllLive \ {s[j]}
  PROVE  DllCut(s, j)
<1> DEFINE n == s[j]
           V == Places \cup {Null}
           link == dll.link
           mid == [[link EXCEPT ![x][d] = y] EXCEPT ![y][e] = x]
           new == [mid EXCEPT ![n] = [f \in Links |-> Null]]
<1>1. n \in Places /\ link \in [Places -> [Links -> V]] /\ DOMAIN dll = {"size", "key", "link"}
  BY DllFacts DEF Places
<1>2. /\ DOMAIN dll' = {"size", "key", "link"} /\ dll'.size = dll.size - 1 /\ dll'.key = [dll.key EXCEPT ![n] = 0]
      /\ dll'.link = new
  <2> HIDE DEF n
  <2> QED BY <1>1 DEF n
<1> HIDE DEF n, link
<1>3. /\ mid \in [Places -> [Links -> V]]
      /\ \A z \in Places : /\ mid[z][d] = IF z = x THEN y ELSE link[z][d]
                           /\ mid[z][e] = IF z = y THEN x ELSE link[z][e]
  <2>1. x \in V /\ y \in V
    OBVIOUS
  <2> HIDE DEF V
  <2>2. Relinked(Places, Links, V, link, d, x, y, e, y, x, mid)
    BY <1>1, <2>1, Relink
  <2> QED BY <2>2 DEF Relinked
<1> HIDE DEF mid
<1>4. new \in [Places -> [Links -> V]] /\ \A z \in Places \ {n} : new[z] = mid[z]
  BY <1>1, <1>3
<1> HIDE DEF new
<1>5. CASE d = "next"
  <2>1. e = "prev" /\ x = At(HeadNode, s, j - 1) /\ y = At(HeadNode, s, j + 1)
    BY <1>5 DEF Links
  <2>2. \A z \in Places \ {n} :
          /\ new[z]["next"] = IF z = At(HeadNode, s, j - 1) THEN At(HeadNode, s, j + 1) ELSE link[z]["next"]
          /\ new[z]["prev"] = IF z = At(HeadNode, s, j + 1) THEN At(HeadNode, s, j - 1) ELSE link[z]["prev"]
    BY <1>3, <1>4, <1>5, <2>1
  <2> QED BY <1>2, <1>4, <2>2 DEF DllCut, n, link
<1>6. CASE d # "next"
  <2>1. d = "prev" /\ e = "next" /\ x = At(HeadNode, s, j + 1) /\ y = At(HeadNode, s, j - 1)
    BY <1>6 DEF Links
  <2>2. \A z \in Places \ {n} :
          /\ new[z]["next"] = IF z = At(HeadNode, s, j - 1) THEN At(HeadNode, s, j + 1) ELSE link[z]["next"]
          /\ new[z]["prev"] = IF z = At(HeadNode, s, j + 1) THEN At(HeadNode, s, j - 1) ELSE link[z]["prev"]
    BY <1>3, <1>4, <2>1
  <2> QED BY <1>2, <1>4, <2>2 DEF DllCut, n, link
<1> QED BY <1>5, <1>6

LEMMA DllPopsFront ==
  ASSUME NEW s, DllAt(s), Dll!Pop("next")
  PROVE  s # << >> /\ \E r : DllAt(r)' /\ Values(r, dll'.key) = Tail(Values(s, dll.key))
<1> DEFINE h == HeadNode
           y == At(h, s, 1 + 1)
<1>1. /\ s # << >> /\ 1 \in 1..Len(s) /\ 0 \in 0..Len(s) /\ 1 \in 0..Len(s) /\ Len(s) \in Nat /\ s \in Seq(ListNodes)
  <2>1. Len(s) # 0
    BY DllFacts DEF Dll!Pop
  <2> QED BY <2>1, DllFacts
<1>2. At(h, s, 1 - 1) = h /\ At(h, s, 1) = s[1] /\ 0 + 1 = 1 /\ h \in Places /\ y \in Places /\ At(h, s, 0) = h
  <2>1. At(h, s, 1 - 1) = h /\ At(h, s, 1) = s[1] /\ 0 + 1 = 1 /\ At(h, s, 0) = h
    BY <1>1 DEF At
  <2>2. 0 \in 0..Len(s) + 1 /\ 1 + 1 \in 0..Len(s) + 1
    BY <1>1
  <2> QED BY <2>1, <2>2, DllFacts
<1>3. dll.link[h]["next"] = s[1] /\ dll.link[s[1]]["next"] = y
  BY <1>1, <1>2, DllFacts
<1>4. /\ dll' = [[[dll EXCEPT !.link[h]["next"] = y] EXCEPT !.link[y]["prev"] = h, !.size = @ - 1]
                 EXCEPT !.link[s[1]] = [f \in Links |-> Null], !.key[s[1]] = 0]
      /\ dllLive' = dllLive \ {s[1]}
  BY <1>3 DEF Dll!Pop, Dll!Back, Dll!Freed, Dll!Link, Links
<1> HIDE DEF y, h
<1>5. dll' = [[dll EXCEPT !.link[h]["next"] = y, !.link[y]["prev"] = h, !.size = @ - 1]
              EXCEPT !.link[s[1]] = [f \in Links |-> Null], !.key[s[1]] = 0]
  BY <1>4
<1>6. DllCut(s, 1)
  <2>1. "next" \in Links /\ "prev" \in Links /\ "prev" # "next"
    BY DEF Links
  <2>2. h = At(HeadNode, s, 1 - 1) /\ y = At(HeadNode, s, 1 + 1)
    BY <1>2 DEF h, y
  <2>3. dllLive' = dllLive \ {s[1]}
    BY <1>4
  <2> QED BY <1>1, <1>2, <1>5, <2>1, <2>2, <2>3, DllUnlinks
<1>7. DllAt(Skip(s, 1))' /\ Values(Skip(s, 1), dll'.key) = Skip(Values(s, dll.key), 1)
  BY <1>1, <1>6, DllCuts
<1>8. Values(s, dll.key) \in Seq(Keys \cup {0}) /\ Len(Values(s, dll.key)) = Len(s)
  BY DllFacts
<1>9. Skip(Values(s, dll.key), 1) = Tail(Values(s, dll.key))
  BY <1>1, <1>8, SkipSays
<1> QED BY <1>1, <1>7, <1>9

LEMMA DllPopsBack ==
  ASSUME NEW s, DllAt(s), Dll!Pop("prev")
  PROVE  s # << >> /\ \E r : DllAt(r)' /\ Values(r, dll'.key) = SubSeq(Values(s, dll.key), 1, Len(s) - 1)
<1> DEFINE h == HeadNode
           j == Len(s)
           y == At(h, s, j - 1)
<1>1. /\ s # << >> /\ j \in 1..Len(s) /\ j \in 0..Len(s) /\ j - 1 \in 0..Len(s) /\ (j - 1) + 1 = j
      /\ Len(s) \in Nat /\ s \in Seq(ListNodes)
  <2>1. Len(s) # 0
    BY DllFacts DEF Dll!Pop
  <2> QED BY <2>1, DllFacts
<1>2. At(h, s, j + 1) = h /\ At(h, s, j) = s[j] /\ h \in Places /\ y \in Places
  <2>1. At(h, s, j + 1) = h /\ At(h, s, j) = s[j]
    BY <1>1 DEF At
  <2>2. j - 1 \in 0..Len(s) + 1 /\ j + 1 \in 0..Len(s) + 1
    BY <1>1
  <2> QED BY <2>1, <2>2, DllFacts
<1>3. dll.link[h]["prev"] = s[j] /\ dll.link[s[j]]["prev"] = y
  BY <1>1, <1>2, DllFacts
<1>4. /\ dll' = [[[dll EXCEPT !.link[h]["prev"] = y] EXCEPT !.link[y]["next"] = h, !.size = @ - 1]
                 EXCEPT !.link[s[j]] = [f \in Links |-> Null], !.key[s[j]] = 0]
      /\ dllLive' = dllLive \ {s[j]}
  BY <1>3 DEF Dll!Pop, Dll!Back, Dll!Freed, Dll!Link, Links
<1> HIDE DEF y, h, j
<1>5. dll' = [[dll EXCEPT !.link[h]["prev"] = y, !.link[y]["next"] = h, !.size = @ - 1]
              EXCEPT !.link[s[j]] = [f \in Links |-> Null], !.key[s[j]] = 0]
  BY <1>4
<1>6. DllCut(s, j)
  <2>1. "next" \in Links /\ "prev" \in Links /\ "prev" # "next"
    BY DEF Links
  <2>2. h = At(HeadNode, s, j + 1) /\ y = At(HeadNode, s, j - 1)
    BY <1>2 DEF h, y
  <2>3. dllLive' = dllLive \ {s[j]}
    BY <1>4
  <2> QED BY <1>1, <1>2, <1>5, <2>1, <2>2, <2>3, DllUnlinks
<1>7. DllAt(Skip(s, j))' /\ Values(Skip(s, j), dll'.key) = Skip(Values(s, dll.key), j)
  BY <1>1, <1>6, DllCuts
<1>8. Values(s, dll.key) \in Seq(Keys \cup {0}) /\ Len(Values(s, dll.key)) = Len(s)
  BY DllFacts
<1>9. Skip(Values(s, dll.key), j) = SubSeq(Values(s, dll.key), 1, Len(s) - 1)
  BY <1>1, <1>8, SkipSays DEF j
<1> QED BY <1>1, <1>7, <1>9

LEMMA DllRemoves ==
  ASSUME NEW s, DllAt(s), NEW i \in Nat, Dll!RemoveIdx(i)
  PROVE  \E r : /\ DllAt(r)'
                /\ Values(r, dll'.key) = SubSeq(Values(s, dll.key), 1, i) \o SubSeq(Values(s, dll.key), i + 2, Len(s))
<1> DEFINE h == HeadNode
           j == i + 1
           x == At(h, s, j - 1)
           y == At(h, s, j + 1)
<1>1. /\ j \in 1..Len(s) /\ j \in 0..Len(s) /\ j - 1 \in 0..Len(s) /\ (j - 1) + 1 = j
      /\ Len(s) \in Nat /\ s \in Seq(ListNodes)
  <2>1. Len(s) > i
    BY DllFacts DEF Dll!RemoveIdx
  <2> QED BY <2>1, DllFacts
<1>2. At(h, s, j) = s[j] /\ x \in Places /\ y \in Places
  <2>1. At(h, s, j) = s[j]
    BY <1>1 DEF At
  <2>2. j - 1 \in 0..Len(s) + 1 /\ j + 1 \in 0..Len(s) + 1
    BY <1>1
  <2> QED BY <2>1, <2>2, DllFacts
<1>3. dll.link[s[j]]["next"] = y /\ dll.link[s[j]]["prev"] = x
  BY <1>1, <1>2, DllFacts
<1>4. /\ dll' = [[dll EXCEPT !.link[x]["next"] = y, !.link[y]["prev"] = x, !.size = @ - 1]
                 EXCEPT !.link[s[j]] = [f \in Links |-> Null], !.key[s[j]] = 0]
      /\ dllLive' = dllLive \ {s[j]}
  <2>1. Dll!Now("next")[i + 1] = s[j]
    BY DllSeen
  <2> HIDE DEF x, y
  <2> QED BY <1>3, <2>1 DEF Dll!RemoveIdx, Dll!Freed, Dll!Link, Links
<1> HIDE DEF x, y, j
<1>6. DllCut(s, j)
  <2>1. "next" \in Links /\ "prev" \in Links /\ "prev" # "next"
    BY DEF Links
  <2>2. x = At(HeadNode, s, j - 1) /\ y = At(HeadNode, s, j + 1)
    BY DEF x, y
  <2> QED BY <1>1, <1>2, <1>4, <2>1, <2>2, DllUnlinks
<1>7. DllAt(Skip(s, j))' /\ Values(Skip(s, j), dll'.key) = Skip(Values(s, dll.key), j)
  BY <1>1, <1>6, DllCuts
<1> DEFINE v == Values(s, dll.key)
<1>8. v \in Seq(Keys \cup {0}) /\ Len(v) = Len(s)
  BY DllFacts
<1>9. Skip(v, j) = SubSeq(v, 1, j - 1) \o SubSeq(v, j + 1, Len(v))
  <2> HIDE DEF v
  <2> QED BY <1>1, <1>8, SkipSays
<1>10. j - 1 = i /\ j + 1 = i + 2
  BY DEF j
<1> QED BY <1>1, <1>7, <1>8, <1>9, <1>10

DllNew == DllTyped /\ dll.size = 0 /\ dllLive = {} /\ \A d \in Links : dll.link[HeadNode][d] = HeadNode

LEMMA DllStarts == (DllNew => DllAt(<< >>)) /\ (DllNew' => DllAt(<< >>)')
<1>1. DllNew => DllAt(<< >>)
  <2> SUFFICES ASSUME DllNew PROVE DllAt(<< >>)
    OBVIOUS
  <2>1. << >> \in Seq(ListNodes) /\ Len(<< >>) = 0 /\ Apart(<< >>) /\ {<< >>[i] : i \in 1..0} = {}
    BY DEF Apart
  <2>2. \A i \in 0..1 : At(HeadNode, << >>, i) = HeadNode
    BY <2>1 DEF At
  <2>3. OneWay(dll.link, "next")[HeadNode] = HeadNode /\ OneWay(dll.link, "prev")[HeadNode] = HeadNode
    BY DEF DllNew, OneWay, Places, Links
  <2>4. RingOf(HeadNode, OneWay(dll.link, "next"), OneWay(dll.link, "prev"), << >>)
    BY <2>1, <2>2, <2>3 DEF RingOf
  <2> QED BY <2>1, <2>4 DEF DllNew, DllAt
<1>2. DllNew' => DllAt(<< >>)'
  BY <1>1, PTL
<1> QED BY <1>1, <1>2

LEMMA DllNews ==
  /\ dll = Dll!NewDll /\ dllLive = {} => DllNew
  /\ dll' = Dll!NewDll /\ dllLive' = {} => DllNew'
BY DllSets DEF Dll!NewDll, Dll!Link, DllNew, DllTyped, Places, Links

LEMMA DllSteps == DllInv /\ [Dll!Next]_dllVars => DllInv'
<1> SUFFICES ASSUME DllInv, [Dll!Next]_dllVars PROVE DllInv'
  OBVIOUS
<1>0. PICK s : DllAt(s)
  BY DEF DllInv
<1>1. ASSUME NEW k \in Keys, NEW d \in Dll!Link, Dll!Push(d, k) PROVE DllInv'
  <2>1. CASE d = "next"
    BY <1>0, <1>1, <2>1, DllPushesFront DEF DllInv
  <2>2. CASE d = "prev"
    BY <1>0, <1>1, <2>2, DllPushesBack DEF DllInv
  <2> QED BY <2>1, <2>2 DEF Dll!Link
<1>2. ASSUME NEW d \in Dll!Link, Dll!Pop(d) PROVE DllInv'
  <2>1. CASE d = "next"
    BY <1>0, <1>2, <2>1, DllPopsFront DEF DllInv
  <2>2. CASE d = "prev"
    BY <1>0, <1>2, <2>2, DllPopsBack DEF DllInv
  <2> QED BY <2>1, <2>2 DEF Dll!Link
<1>3. ASSUME NEW i \in Dll!Indices, Dll!RemoveIdx(i) PROVE DllInv'
  <2>1. i \in Nat
    BY DEF Dll!Indices
  <2> QED BY <1>0, <1>3, <2>1, DllRemoves DEF DllInv
<1>4. ASSUME Dll!DeleteList PROVE DllInv'
  <2>1. Dll!NodesOf(Dll!Now("next")) = dllLive
    BY <1>0, DllSeen DEF Dll!Ring, Dll!Link
  <2>2. dll' = Dll!NewDll /\ dllLive' = {}
    BY <1>4, <2>1 DEF Dll!DeleteList
  <2> QED BY <2>2, DllNews, DllStarts DEF DllInv
<1>5. ASSUME UNCHANGED dllVars PROVE DllInv'
  <2>1. dll' = dll /\ dllLive' = dllLive
    BY <1>5 DEF dllVars
  <2>2. DllAt(s)'
    BY <1>0, <2>1 DEF DllAt, DllTyped
  <2> QED BY <2>2 DEF DllInv
<1> QED BY <1>1, <1>2, <1>3, <1>4, <1>5 DEF Dll!Next

DllShown == \A s : DllAt(s) => DllKeys = Values(s, dll.key)
LEMMA DllShows == DllShown /\ DllShown'
<1>1. DllShown
  BY DllSeen DEF DllShown
<1>2. DllShown'
  BY <1>1, PTL
<1> QED BY <1>1, <1>2

DllCalls ==
  /\ \A k \in Keys : Dll!Push("next", k) => Dll!AsDeque!PushFront(k)
  /\ \A k \in Keys : Dll!Push("prev", k) => Dll!AsDeque!PushBack(k)
  /\ Dll!Pop("next") => Dll!AsDeque!PopFront
  /\ Dll!Pop("prev") => Dll!AsDeque!PopBack
  /\ \A i \in Dll!Indices : Dll!RemoveIdx(i) => Dll!AsDeque!Remove(i)

LEMMA DllDoes == DllInv => DllCalls
<1> SUFFICES ASSUME DllInv PROVE DllCalls
  OBVIOUS
<1>0. PICK s : DllAt(s)
  BY DEF DllInv
<1> DEFINE v == Values(s, dll.key)
<1>1. DllKeys = v /\ \A r : DllAt(r)' => DllKeys' = Values(r, dll'.key)
  BY <1>0, DllShows DEF DllShown, DllKeys
<1>2. v \in Seq(Keys \cup {0}) /\ Len(v) = Len(s) /\ (s = << >> <=> Len(s) = 0)
  BY <1>0, DllFacts
<1>3. v = << >> <=> s = << >>
  <2> HIDE DEF v
  <2> QED BY <1>2, EmptySeq
<1> HIDE DEF v
<1>4. ASSUME NEW k \in Keys, Dll!Push("next", k) PROVE Dll!AsDeque!PushFront(k)
  <2>1. DllKeys' = <<k>> \o DllKeys
    BY <1>0, <1>1, <1>4, DllPushesFront DEF v
  <2> QED BY <2>1 DEF Dll!AsDeque!PushFront, DllKeys
<1>5. ASSUME NEW k \in Keys, Dll!Push("prev", k) PROVE Dll!AsDeque!PushBack(k)
  <2>1. DllKeys' = Append(DllKeys, k)
    BY <1>0, <1>1, <1>5, DllPushesBack DEF v
  <2> QED BY <2>1 DEF Dll!AsDeque!PushBack, DllKeys
<1>6. ASSUME Dll!Pop("next") PROVE Dll!AsDeque!PopFront
  <2>1. DllKeys # << >> /\ DllKeys' = Tail(DllKeys)
    BY <1>0, <1>1, <1>3, <1>6, DllPopsFront DEF v
  <2> QED BY <2>1 DEF Dll!AsDeque!PopFront, DllKeys
<1>7. ASSUME Dll!Pop("prev") PROVE Dll!AsDeque!PopBack
  <2>1. DllKeys # << >> /\ DllKeys' = SubSeq(DllKeys, 1, Len(DllKeys) - 1)
    BY <1>0, <1>1, <1>2, <1>3, <1>7, DllPopsBack DEF v
  <2> QED BY <2>1 DEF Dll!AsDeque!PopBack, DllKeys
<1>8. ASSUME NEW i \in Dll!Indices, Dll!RemoveIdx(i) PROVE Dll!AsDeque!Remove(i)
  <2>0. i \in Nat
    BY DEF Dll!Indices
  <2>1. DllKeys' = SubSeq(DllKeys, 1, i) \o SubSeq(DllKeys, i + 2, Len(DllKeys))
    BY <1>0, <1>1, <1>2, <1>8, <2>0, DllRemoves DEF v
  <2> QED BY <2>1 DEF Dll!AsDeque!Remove, DllKeys
<1> QED BY <1>4, <1>5, <1>6, <1>7, <1>8 DEF DllCalls

(***************************************************************************)
(* A doubly linked list is a ring both ways through every node that is     *)
(* allocated, size counts them, and every call does to its keys what its   *)
(* name says: for any keys and any number of nodes calloc has to give.     *)
(***************************************************************************)
THEOREM DllKeepsItsPromise == Week4Spec => DllIsDeque
<1>1. Week4Init => DllInv /\ Dll!AsDeque!Init
  <2> SUFFICES ASSUME Week4Init PROVE DllInv /\ Dll!AsDeque!Init
    OBVIOUS
  <2>1. DllAt(<< >>)
    BY DllNews, DllStarts DEF Week4Init, Dll!Init
  <2>2. Values(<< >>, dll.key) = << >>
    BY DEF Values
  <2>3. DllKeys = << >>
    BY <2>1, <2>2, DllSeen
  <2> QED BY <2>1, <2>3 DEF DllInv, Dll!AsDeque!Init, DllKeys
<1>2. [Week4Next]_<<structure, vars, listVars>> => [Dll!Next]_dllVars
  BY DEF Week4Next, listVars, dllVars
<1>3. DllInv /\ [Week4Next]_<<structure, vars, listVars>> => DllInv'
  BY <1>2, DllSteps
<1>4. DllInv => Dll!Ring
  BY DllSeen DEF DllInv
<1>5. DllInv => [DllCalls]_(Dll!vars)
  BY DllDoes
<1>6. Week4Spec => []DllInv
  BY <1>1, <1>3, PTL DEF Week4Spec
<1>7. Week4Spec => Dll!AsDeque!Init /\ [][DllCalls]_(Dll!vars) /\ []Dll!Ring
  BY <1>1, <1>4, <1>5, <1>6, PTL DEF Week4Spec
<1> QED BY <1>7 DEF DllIsDeque, Dll!IsDeque, DllCalls
=============================================================================
