-------------------------------- MODULE KeyBag --------------------------------
(***************************************************************************)
(* The abstract data type rbtree.c implements: a multiset of keys.         *)
(***************************************************************************)
EXTENDS Naturals

CONSTANT Keys
VARIABLE count      \* how often each key is in the multiset

Init == count = [k \in Keys |-> 0]

Insert(k) == count' = [count EXCEPT ![k] = @ + 1]
Erase(k) == count[k] > 0 /\ count' = [count EXCEPT ![k] = @ - 1]
Clear == count' = [k \in Keys |-> 0]

Next == Clear \/ \E k \in Keys : Insert(k) \/ Erase(k)
Spec == Init /\ [][Next]_count
=============================================================================
