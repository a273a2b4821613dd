------------------------------ MODULE LruCache ------------------------------
(***************************************************************************)
(* What the proxy's cache promises: at most Capacity entries, at most one  *)
(* for each path, most recently used first.  A hit moves its entry to the  *)
(* front; a new entry goes to the front and the least recently used one    *)
(* leaves when there is no room.                                           *)
(***************************************************************************)
EXTENDS Sequences, Naturals

CONSTANTS Paths, Bodies, Capacity

VARIABLE lru      \* the entries, most recently used first

Entry == [path : Paths, body : Bodies]
Keys == {lru[i].path : i \in DOMAIN lru}

Take(s, n) == SubSeq(s, 1, IF Len(s) <= n THEN Len(s) ELSE n)
RemoveAt(s, i) == SubSeq(s, 1, i - 1) \o SubSeq(s, i + 1, Len(s))

Init == lru = << >>

Hit(i) == lru' = <<lru[i]>> \o RemoveAt(lru, i)

Insert(e) ==
  /\ e.path \notin Keys
  /\ lru' = Take(<<e>> \o lru, Capacity)

Next == \/ \E i \in DOMAIN lru : Hit(i)
        \/ \E e \in Entry : Insert(e)

Spec == Init /\ [][Next]_lru
=============================================================================
