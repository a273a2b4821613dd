--------------------------- MODULE BinarySearchTree ---------------------------
(***************************************************************************)
(* binarySearchTree.c, one step for each call: a tree of keys with parent  *)
(* links and no sentinel.  A side is a value, as in RbTree.  Unlike        *)
(* rbtree.c, a removal moves the successor's node and keeps its key.       *)
(***************************************************************************)
EXTENDS Integers, FiniteSets

CONSTANTS
  Nodes,       \* the blocks calloc can return for a node
  Null,        \* the null pointer
  Keys         \* the keys programs insert

VARIABLES
  tree,        \* root, and the fields of every node
  live         \* the nodes that are allocated

vars == <<tree, live>>

Side == {"left", "right"}

NewBst == [root |-> Null,
           child |-> [n \in Nodes |-> [d \in Side |-> Null]],
           parent |-> [n \in Nodes |-> Null],
           key |-> [n \in Nodes |-> 0]]

Dir(k, n) == IF k <= tree.key[n] THEN "left" ELSE "right"
\* The node the descent for k ends at.
Last(k) == LET Down[n \in Nodes] == LET c == tree.child[n][Dir(k, n)] IN IF c = Null THEN n ELSE Down[c]
           IN  Down[tree.root]

Insert(k) ==
  \E n \in Nodes \ live :
    /\ live' = live \cup {n}
    /\ LET p == Last(k)
       IN  tree' = IF tree.root = Null THEN [tree EXCEPT !.key[n] = k, !.root = n]
                   ELSE [tree EXCEPT !.key[n] = k, !.child[p][Dir(k, p)] = n, !.parent[n] = p]

\* Variant with a defect: the search has its sides exchanged.
FindWrongWay(k) ==
  LET Down[n \in Nodes \cup {Null}] ==
        IF n = Null THEN Null
        ELSE IF tree.key[n] = k THEN n
        ELSE Down[tree.child[n][IF k <= tree.key[n] THEN "right" ELSE "left"]]
  IN  Down[tree.root]

bst_find(k) ==
  LET Down[n \in Nodes \cup {Null}] ==
        IF n = Null THEN Null
        ELSE IF tree.key[n] = k THEN n ELSE Down[tree.child[n][Dir(k, n)]]
  IN  Down[tree.root]

\* r takes the place of p below the parent of p.
Hang(t, p, r) ==
  LET up == t.parent[p]
      d == IF t.child[up]["left"] = p THEN "left" ELSE "right"
      hung == IF p = t.root THEN [t EXCEPT !.root = r] ELSE [t EXCEPT !.child[up][d] = r]
  IN  IF r = Null THEN hung ELSE [hung EXCEPT !.parent[r] = up]

Successor(t, p) ==
  LET Down[n \in Nodes] == IF t.child[n]["left"] = Null THEN n ELSE Down[t.child[n]["left"]]
  IN  Down[t.child[p]["right"]]

\* Variant with a defect: the right subtree of the successor is lost.
MoveUpAlone(t, p) ==
  LET s == Successor(t, p)
      right == t.child[p]["right"]
      moved == IF s = right THEN Hang(t, p, s)
               ELSE [Hang(t, p, s) EXCEPT !.child[t.parent[s]]["left"] = Null,
                                          !.child[s]["right"] = right, !.parent[right] = s]
      left == t.child[p]["left"]
  IN  [moved EXCEPT !.child[s]["left"] = left, !.parent[left] = s]

\* p has two children: its successor takes its place.
MoveUp(t, p) ==
  LET s == Successor(t, p)
      right == t.child[p]["right"]
      left == t.child[p]["left"]
      below == t.child[s]["right"]
      hung == Hang(t, p, s)
      parted == [hung EXCEPT !.child[t.parent[s]]["left"] = below, !.child[s]["right"] = right,
                             !.parent = [n \in Nodes |-> CASE n = below -> t.parent[s]
                                                           [] n = right -> s
                                                           [] OTHER -> @[n]]]
      moved == IF s = right THEN hung ELSE parted
  IN  [moved EXCEPT !.child[s]["left"] = left, !.parent[left] = s]

\* The contents of a freed node are forgotten.
Freed(t, n) == [t EXCEPT !.child[n] = [d \in Side |-> Null], !.parent[n] = Null, !.key[n] = 0]

Delete(k) ==
  LET p == bst_find(k)
      left == tree.child[p]["left"]
      right == tree.child[p]["right"]
  IN  /\ p # Null
      /\ tree' = Freed(IF left # Null /\ right # Null THEN MoveUp(tree, p)
                       ELSE Hang(tree, p, IF left = Null THEN right ELSE left), p)
      /\ live' = live \ {p}

\* The nodes that can be reached from n through child.
Under(n) ==
  LET Reached[m \in Nodes \cup {Null}, depth \in 0..Cardinality(Nodes)] ==
        IF m = Null THEN {}
        ELSE {m} \cup IF depth = 0 THEN {} ELSE UNION {Reached[tree.child[m][d], depth - 1] : d \in Side}
  IN  Reached[n, Cardinality(Nodes)]

\* delete_tree, whose postorder frees every node, then new_bst.
DeleteTree == tree' = NewBst /\ live' = live \ Under(tree.root)

Init == tree = NewBst /\ live = {}
Next == DeleteTree \/ \E k \in Keys : Insert(k) \/ Delete(k)
Spec == Init /\ [][Next]_vars
-----------------------------------------------------------------------------

(***************************************************************************)
(* Parent and child links agree, every node in the tree is allocated, and  *)
(* every allocated node is in the tree, so that delete_tree frees them all.*)
(***************************************************************************)
Linked ==
  /\ live = Under(tree.root)
  /\ tree.root # Null => tree.parent[tree.root] = Null
  /\ \A n \in live : \A d \in Side :
       tree.child[n][d] # Null => tree.parent[tree.child[n][d]] = n
  /\ \A n \in live : tree.child[n]["left"] = tree.child[n]["right"] => tree.child[n]["left"] = Null

(***************************************************************************)
(* The tree is a multiset of keys, duplicates included: bst_delete takes   *)
(* away the key it is asked for, once, and refuses only when there is none.*)
(***************************************************************************)
AsBag == INSTANCE KeyBag
  WITH count <- [k \in Keys |-> Cardinality({n \in Under(tree.root) : tree.key[n] = k})]
IsMultiset ==
  /\ AsBag!Init
  /\ [][\A k \in Keys : /\ Insert(k) => AsBag!Insert(k)
                        /\ Delete(k) => AsBag!Erase(k)]_vars
  /\ [](\A k \in Keys : bst_find(k) = Null <=> \A n \in live : tree.key[n] # k)
=============================================================================
