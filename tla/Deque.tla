--------------------------------- MODULE Deque ---------------------------------
(***************************************************************************)
(* The abstract data type the linked lists implement: a sequence of keys   *)
(* that is changed at both ends, and from which a key can be removed.      *)
(***************************************************************************)
EXTENDS Sequences, Integers

VARIABLE seq

Init == seq = << >>

PushFront(k) == seq' = <<k>> \o seq
PushBack(k) == seq' = Append(seq, k)
PopFront == seq # << >> /\ seq' = Tail(seq)
PopBack == seq # << >> /\ seq' = SubSeq(seq, 1, Len(seq) - 1)
\* The key at position i, counted from 0, is removed; nothing is when there is none.
Remove(i) == seq' = SubSeq(seq, 1, i) \o SubSeq(seq, i + 2, Len(seq))
Clear == seq' = << >>
=============================================================================
