------------------------------- MODULE ListNodes -------------------------------
(***************************************************************************)
(* What the linked lists of week 4 have in common.                         *)
(***************************************************************************)
EXTENDS Integers, Sequences, FiniteSets

CONSTANTS
  Nodes,       \* the blocks calloc can return for a node
  Null,        \* the null pointer
  Keys         \* the keys programs insert

ListAssumption == IsFiniteSet(Nodes) /\ Null \notin Nodes

\* The nodes that following next from first meets before end, the first ones
\* only if end is never met.
Chain(first, next, end) ==
  LET Met[k \in 0..Cardinality(Nodes)] ==
        LET s == IF k = 0 THEN << >> ELSE Met[k-1]
            n == IF s = << >> THEN first ELSE next[s[Len(s)]]
        IN  IF n \in Nodes \ {end} THEN Append(s, n) ELSE s
  IN  Met[Cardinality(Nodes)]
NodesOf(chain) == {chain[i] : i \in DOMAIN chain}
KeysOf(chain, key) == [i \in DOMAIN chain |-> key[chain[i]]]
Distinct(chain) == Cardinality(NodesOf(chain)) = Len(chain)
=============================================================================
