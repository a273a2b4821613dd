-------------------------------- MODULE RbTree --------------------------------
(***************************************************************************)
(* The red-black tree of rbtree.c: a multiset of keys in nodes with parent *)
(* pointers and one sentinel, nil, in the place of every leaf and of the   *)
(* parent of the root.  A call is one step, except rbtree_insert and       *)
(* rbtree_erase, which end in a recursive check: each activation of the    *)
(* check is a step of its own, so that what holds between two of them can  *)
(* be stated.                                                              *)
(*                                                                         *)
(* The code writes every case twice, with left and right exchanged; here a *)
(* side is a value.  The contents of a freed node are forgotten.           *)
(***************************************************************************)
EXTENDS Integers, FiniteSets, Sequences

CONSTANTS
  Nodes,       \* the blocks calloc can return for a node
  Nil,         \* t->nil
  Null,        \* the null pointer
  Keys         \* the keys programs insert

ASSUME NodesAssumption == IsFiniteSet(Nodes) /\ Nil \notin Nodes /\ Null \notin Nodes \cup {Nil}
ASSUME KeysAssumption == Keys \subseteq Int

VARIABLES
  tree,        \* root, and the fields of every node
  live,        \* the nodes that are allocated
  running,     \* the call that is under way: "idle", "insert" or "erase"
  check        \* the node the next activation of its check is called with

vars == <<tree, live, running, check>>

Addr == Nodes \cup {Nil}
Side == {"left", "right"}
Other(d) == IF d = "left" THEN "right" ELSE "left"

\* new_rbtree: calloc leaves the links of nil null.
EmptyTree ==
  [root |-> Nil,
   child |-> [a \in Addr |-> [d \in Side |-> Null]],
   parent |-> [a \in Addr |-> Null],
   color |-> [a \in Addr |-> IF a = Nil THEN "black" ELSE "red"],
   key |-> [a \in Addr |-> 0]]

SideOf(t, a) == IF t.child[t.parent[a]]["left"] = a THEN "left" ELSE "right"
Paint(t, a, c) == [t EXCEPT !.color[a] = c]

\* Variant with a defect: the subtree that changes sides keeps its parent.
RotateNoParent(t, z, d) ==
  LET x == t.child[z][Other(d)]
      b == t.child[x][d]
      hung == IF t.parent[z] = Nil THEN t ELSE [t EXCEPT !.child[t.parent[z]][SideOf(t, z)] = x]
  IN  [hung EXCEPT !.child[x][d] = z, !.child[z][Other(d)] = b,
                   !.parent = [@ EXCEPT ![x] = t.parent[z], ![z] = x],
                   !.root = IF z = @ THEN x ELSE @]

\* rotateLeft and rotateRight: z goes down on side d, its other child up.
Rotate(t, z, d) ==
  LET x == t.child[z][Other(d)]
      b == t.child[x][d]
      hung == IF t.parent[z] = Nil THEN t ELSE [t EXCEPT !.child[t.parent[z]][SideOf(t, z)] = x]
  IN  IF z = Nil \/ x = Nil THEN t
      ELSE [hung EXCEPT !.child[x][d] = z, !.child[z][Other(d)] = b,
                        !.parent = [@ EXCEPT ![x] = t.parent[z], ![z] = x,
                                             ![b] = IF b = Nil THEN t.parent[b] ELSE z],
                        !.root = IF z = t.root THEN x ELSE t.root]

-----------------------------------------------------------------------------
(* rbtree_insert *)

Dir(t, k, a) == IF k <= t.key[a] THEN "left" ELSE "right"
\* The node the descent for k ends at.
Last(t, k) ==
  LET Down[a \in live] == LET c == t.child[a][Dir(t, k, a)] IN IF c = Nil THEN a ELSE Down[c]
  IN  IF t.root = Nil THEN Nil ELSE Down[t.root]

\* Variant with a defect: the links of the new node are left null.
BstInsertNull(t, k, n) ==
  LET p == Last(t, k)
      new == [t EXCEPT !.key[n] = k, !.parent[n] = p, !.color[n] = IF p = Nil THEN "black" ELSE "red"]
  IN  IF p = Nil THEN [new EXCEPT !.root = n] ELSE [new EXCEPT !.child[p][Dir(t, k, p)] = n]

\* Variant with a defect: a node below another one always becomes its left child.
BstInsertLeft(t, k, n) ==
  LET p == Last(t, k)
      new == [t EXCEPT !.key[n] = k, !.parent[n] = p, !.child[n] = [d \in Side |-> Nil],
                       !.color[n] = IF p = Nil THEN "black" ELSE "red"]
  IN  IF p = Nil THEN [new EXCEPT !.root = n] ELSE [new EXCEPT !.child[p]["left"] = n]

BstInsert(t, k, n) ==
  LET p == Last(t, k)
      new == [t EXCEPT !.key[n] = k, !.parent[n] = p, !.child[n] = [d \in Side |-> Nil],
                       !.color[n] = IF p = Nil THEN "black" ELSE "red"]
  IN  IF p = Nil THEN [new EXCEPT !.root = n] ELSE [new EXCEPT !.child[p][Dir(t, k, p)] = n]

Insert(k) ==
  /\ running = "idle" /\ running' = "insert"
  /\ \E n \in Nodes \ live :
       /\ tree' = BstInsert(tree, k, n)
       /\ live' = live \cup {n}
       /\ check' = n

Return(t) == tree' = t /\ running' = "idle" /\ check' = Nil /\ UNCHANGED live

Parent == tree.parent[check]
Grand == tree.parent[Parent]
Uncle == tree.child[Grand][Other(SideOf(tree, Parent))]

InsertAtRoot ==
  /\ running = "insert" /\ check = tree.root
  /\ Return(Paint(tree, check, "black"))

InsertUnderBlack ==
  /\ running = "insert" /\ check # tree.root /\ tree.color[Parent] = "black"
  /\ Return(tree)

RedRed == running = "insert" /\ check # tree.root /\ tree.color[Parent] = "red"

InsertRecolor ==
  /\ RedRed /\ tree.color[Uncle] = "red"
  /\ tree' = Paint(Paint(Paint(tree, Parent, "black"), Uncle, "black"), Grand, "red")
  /\ check' = Grand
  /\ UNCHANGED <<live, running>>

InsertRotate ==
  /\ RedRed /\ tree.color[Uncle] = "black"
  /\ LET d == SideOf(tree, Parent)
         t == Paint(tree, Grand, "red")
     IN  IF SideOf(tree, check) = d
         THEN Return(Rotate(Paint(t, Parent, "black"), Grand, Other(d)))
         ELSE Return(Rotate(Rotate(Paint(t, check, "black"), Parent, d), Grand, Other(d)))

-----------------------------------------------------------------------------
(* rbtree_erase *)

\* The node at the end of the links on side d.
Outermost(t, a, d) ==
  LET Down[b \in live] == IF t.child[b][d] = Nil THEN b ELSE Down[t.child[b][d]] IN Down[a]

HasTwo(t, p) == t.child[p]["left"] # Nil /\ t.child[p]["right"] # Nil
\* The node that is unlinked for p, and the one that takes its place.
Unlinked(t, p) == IF HasTwo(t, p) THEN Outermost(t, t.child[p]["right"], "left") ELSE p
Replacement(t, y) == t.child[y][IF t.child[y]["left"] = Nil THEN "right" ELSE "left"]

\* Variant with a defect: the successor is always taken for a left child.
BstDeleteLeft(t, p) ==
  LET y == Unlinked(t, p)
      r == Replacement(t, y)
      up == t.parent[y]
  IN  IF HasTwo(t, p)
      THEN [t EXCEPT !.child[up]["left"] = r, !.parent[r] = up, !.key[p] = t.key[y]]
      ELSE IF p = t.root
      THEN [t EXCEPT !.root = r, !.parent[r] = IF r = Nil THEN up ELSE Nil]
      ELSE [t EXCEPT !.child[up][SideOf(t, p)] = r, !.parent[r] = up]

\* Variant with a defect: the key of the successor is not moved.
BstDeleteKeepsKey(t, p) ==
  LET y == Unlinked(t, p)
      r == Replacement(t, y)
      up == t.parent[y]
  IN  IF HasTwo(t, p)
      THEN [t EXCEPT !.child[up][IF y = t.child[p]["right"] THEN "right" ELSE "left"] = r,
                     !.parent[r] = up]
      ELSE IF p = t.root
      THEN [t EXCEPT !.root = r, !.parent[r] = IF r = Nil THEN up ELSE Nil]
      ELSE [t EXCEPT !.child[up][SideOf(t, p)] = r, !.parent[r] = up]

BstDelete(t, p) ==
  LET y == Unlinked(t, p)
      r == Replacement(t, y)
      up == t.parent[y]
  IN  IF HasTwo(t, p)
      THEN [t EXCEPT !.child[up][IF y = t.child[p]["right"] THEN "right" ELSE "left"] = r,
                     !.parent[r] = up, !.key[p] = t.key[y]]
      ELSE IF p = t.root
      THEN [t EXCEPT !.root = r, !.parent[r] = IF r = Nil THEN up ELSE Nil]
      ELSE [t EXCEPT !.child[up][SideOf(t, p)] = r, !.parent[r] = up]

Freed(t, y) == [t EXCEPT !.key[y] = 0, !.parent[y] = Null, !.color[y] = "red",
                         !.child[y] = [d \in Side |-> Null]]

Erase(p) ==
  /\ running = "idle" /\ p \in live
  /\ LET y == Unlinked(tree, p)
         black == tree.color[y] = "black"
     IN  /\ tree' = Freed(BstDelete(tree, p), y)
         /\ live' = live \ {y}
         /\ running' = IF black THEN "erase" ELSE "idle"
         /\ check' = IF black THEN Replacement(tree, y) ELSE Nil

EraseAtRootOrRed ==
  /\ running = "erase" /\ (check = tree.root \/ tree.color[check] = "red")
  /\ Return(Paint(tree, check, "black"))

DoubleBlack == running = "erase" /\ check # tree.root /\ tree.color[check] = "black"

\* Case 1: a red brother goes above the parent, and a nephew becomes the brother.
BlackBrother(d) ==
  LET bro == tree.child[Parent][Other(d)]
  IN  IF tree.color[bro] = "black" THEN tree
      ELSE Rotate(Paint(Paint(tree, bro, "black"), Parent, "red"), Parent, d)

\* Variant with a defect: the brother keeps its colour.
EraseClimbBlack ==
  /\ DoubleBlack
  /\ LET t == BlackBrother(SideOf(tree, check))
         bro == t.child[Parent][Other(SideOf(tree, check))]
     IN  /\ \A d \in Side : t.color[t.child[bro][d]] = "black"
         /\ tree' = t
         /\ check' = Parent
  /\ UNCHANGED <<live, running>>

\* Case 2: the brother has no red child.
EraseClimb ==
  /\ DoubleBlack
  /\ LET t == BlackBrother(SideOf(tree, check))
         bro == t.child[Parent][Other(SideOf(tree, check))]
     IN  /\ \A d \in Side : t.color[t.child[bro][d]] = "black"
         /\ tree' = Paint(t, bro, "red")
         /\ check' = Parent
  /\ UNCHANGED <<live, running>>

\* Case 3: the far child of the brother is made red.
FarRed(t, bro, d) ==
  LET near == t.child[bro][d]
  IN  IF t.color[near] = "red" /\ t.color[t.child[bro][Other(d)]] = "black"
      THEN Rotate(Paint(Paint(t, near, "black"), bro, "red"), bro, Other(d)) ELSE t

\* Case 4, and the end of rbtree_delete_check.
EraseRotate ==
  /\ DoubleBlack
  /\ LET d == SideOf(tree, check)
         t == BlackBrother(d)
         bro == t.child[Parent][Other(d)]
         t3 == FarRed(t, bro, d)
         bro3 == t3.child[Parent][Other(d)]
         far == t3.child[bro3][Other(d)]
         t4 == Paint(Paint(Paint(t3, bro3, t3.color[Parent]), Parent, "black"), far, "black")
     IN  /\ \E e \in Side : t.color[t.child[bro][e]] = "red"
         /\ Return([Paint(Rotate(t4, Parent, d), check, "black") EXCEPT !.parent[Nil] = Nil])

-----------------------------------------------------------------------------

\* The nodes that can be reached from a through child.
Under(t, a) ==
  LET Reached[depth \in 0..Cardinality(Nodes)] ==
        [b \in Addr \cup {Null} |->
           IF b \notin Nodes THEN {}
           ELSE {b} \cup IF depth = 0 THEN {} ELSE UNION {Reached[depth - 1][t.child[b][d]] : d \in Side}]
  IN  Reached[Cardinality(Nodes)][a]

\* delete_rbtree, whose postorder_free frees every node, then new_rbtree.
Delete ==
  /\ running = "idle"
  /\ live' = live \ Under(tree, tree.root)
  /\ tree' = EmptyTree
  /\ UNCHANGED <<running, check>>

Init == tree = EmptyTree /\ live = {} /\ running = "idle" /\ check = Nil

Activation ==
  \/ InsertAtRoot \/ InsertUnderBlack \/ InsertRecolor \/ InsertRotate
  \/ EraseAtRootOrRed \/ EraseClimb \/ EraseRotate

Next ==
  \/ \E k \in Keys : Insert(k)
  \/ \E p \in Nodes : Erase(p)
  \/ Delete
  \/ Activation

Spec == Init /\ [][Next]_vars
-----------------------------------------------------------------------------
(* The functions that only read *)

rbtree_find(t, k) ==
  LET Down[a \in live \cup {Nil}] == IF a = Nil \/ t.key[a] = k THEN a ELSE Down[t.child[a][Dir(t, k, a)]]
      found == Down[t.root]
  IN  IF found = Nil THEN Null ELSE found

rbtree_min(t) == IF t.root = Nil THEN Null ELSE Outermost(t, t.root, "left")
\* Variant with a defect: copied from rbtree_min.
MaxLeft(t) == IF t.root = Nil THEN Null ELSE Outermost(t, t.root, "left")
rbtree_max(t) == IF t.root = Nil THEN Null ELSE Outermost(t, t.root, "right")

\* Variant with a defect: inorder_arr does not compare *idx with n.
ToArrayUnchecked(t, n) ==
  LET Inorder[a \in live \cup {Nil}] ==
        [arr \in Seq(Int) |->
           IF a = Nil THEN arr
           ELSE Inorder[t.child[a]["right"]][Append(Inorder[t.child[a]["left"]][arr], t.key[a])]]
  IN  Inorder[t.root][<< >>]

\* inorder_arr: *idx is the length of what has been written to arr.
rbtree_to_array(t, n) ==
  LET Inorder[a \in live \cup {Nil}] ==
        [arr \in Seq(Int) |->
           IF a = Nil \/ Len(arr) >= n THEN arr
           ELSE Inorder[t.child[a]["right"]][Append(Inorder[t.child[a]["left"]][arr], t.key[a])]]
  IN  Inorder[t.root][<< >>]
-----------------------------------------------------------------------------
(* Properties *)

TypeOK ==
  /\ tree.root \in Addr
  /\ tree.child \in [Addr -> [Side -> Addr \cup {Null}]]
  /\ tree.parent \in [Addr -> Addr \cup {Null}]
  /\ tree.color \in [Addr -> {"red", "black"}]
  /\ tree.key \in [Addr -> Int]
  /\ live \subseteq Nodes
  /\ \A a \in live : tree.parent[a] # Null /\ \A d \in Side : tree.child[a][d] # Null
  /\ running \in {"idle", "insert", "erase"} /\ check \in Addr

(***************************************************************************)
(* Parent and child links agree everywhere, after every rotation, and lead *)
(* to nodes that are allocated or to nil: no pointer to a freed node is    *)
(* left in the tree.                                                       *)
(***************************************************************************)
RootLinked ==
  /\ tree.root = Nil <=> live = {}
  /\ tree.root # Nil => tree.root \in live /\ tree.parent[tree.root] = Nil
ChildrenLinked ==
  \A a \in live :
    /\ \A d \in Side : LET c == tree.child[a][d]
                       IN  c # Nil => c \in live \ {tree.root} /\ tree.parent[c] = a
    /\ tree.child[a]["left"] = tree.child[a]["right"] => tree.child[a]["left"] = Nil
ParentsLinked ==
  \A a \in live \ {tree.root} :
    tree.parent[a] \in live /\ \E d \in Side : tree.child[tree.parent[a]][d] = a
Linked == RootLinked /\ ChildrenLinked /\ ParentsLinked

(***************************************************************************)
(* Every allocated node is in the tree, so that delete_rbtree returns all  *)
(* the memory.                                                             *)
(***************************************************************************)
NoLeak == live = Under(tree, tree.root)

(***************************************************************************)
(* The search order of test-rbtree.c, with equal keys on either side, at   *)
(* every activation.                                                       *)
(***************************************************************************)
SearchOrder ==
  \A a \in live :
    /\ \A b \in Under(tree, tree.child[a]["left"]) : tree.key[b] <= tree.key[a]
    /\ \A b \in Under(tree, tree.child[a]["right"]) : tree.key[a] <= tree.key[b]

(***************************************************************************)
(* The colour constraints of test-rbtree.c: the root and nil are black, no *)
(* red node has a red child, and every path from a node down to nil passes *)
(* the same number of black nodes.  Between two activations the node the   *)
(* check is called with may be a red root or have a red neighbour:         *)
(* above it in rbtree_insert, on either side in rbtree_erase, where it     *)
(* counts for one black node more.                                         *)
(***************************************************************************)
Excused(a) == \/ running = "insert" /\ a = check
              \/ running = "erase" /\ check \in {a, tree.parent[a]}
NoRedRed ==
  /\ tree.color[Nil] = "black"
  /\ tree.color[tree.root] = "red" => running # "idle" /\ check = tree.root
  /\ \A a \in live \ {tree.root} :
       tree.color[a] = "red" /\ tree.color[tree.parent[a]] = "red" => Excused(a)

Blacks(a) == (IF tree.color[a] = "black" THEN 1 ELSE 0)
             + (IF running = "erase" /\ a = check THEN 1 ELSE 0)
Unequal == -1
BlackHeight ==
  LET Leaf(b, d) == IF running = "erase" /\ check = Nil /\ tree.parent[Nil] = b /\ SideOf(tree, Nil) = d
                    THEN 1 ELSE 0
      Height[depth \in 0..Cardinality(Nodes)] ==
        [b \in live |->
           LET Below(d) == IF tree.child[b][d] = Nil THEN Leaf(b, d)
                           ELSE IF depth = 0 \/ tree.child[b][d] \notin live THEN Unequal
                           ELSE Height[depth - 1][tree.child[b][d]]
               left == Below("left")
               right == Below("right")
           IN  IF left = right /\ left # Unequal THEN left + Blacks(b) ELSE Unequal]
  IN  Height[Cardinality(Nodes)][tree.root]
EqualBlackHeights == tree.root # Nil => BlackHeight # Unequal

ColorConstraint == NoRedRed /\ EqualBlackHeights

(***************************************************************************)
(* The descents of rbtree_insert and rbtree_erase end where a node can be  *)
(* linked, or unlinked: at a node without a child on that side.            *)
(***************************************************************************)
DescentsEnd ==
  /\ tree.root # Nil =>
       \A k \in Keys : LET p == Last(tree, k) IN p \in live /\ tree.child[p][Dir(tree, k, p)] = Nil
  /\ \A p \in live : HasTwo(tree, p) =>
       LET y == Unlinked(tree, p)
       IN  /\ y \in live \ {p, tree.root} /\ tree.child[y]["left"] = Nil
           /\ y # tree.child[p]["right"] => tree.child[tree.parent[y]]["left"] = y

(***************************************************************************)
(* A search finds a node with its key whenever there is one, min and max   *)
(* find the ends, and the array is the sorted contents when it is as long  *)
(* as the tree or longer.                                                  *)
(***************************************************************************)
Count(k) == Cardinality({a \in live : tree.key[a] = k})
Queries ==
  running = "idle" =>
    /\ DescentsEnd
    /\ \A k \in Keys :
         IF Count(k) = 0 THEN rbtree_find(tree, k) = Null
         ELSE rbtree_find(tree, k) \in live /\ tree.key[rbtree_find(tree, k)] = k
    /\ live = {} => rbtree_min(tree) = Null /\ rbtree_max(tree) = Null
    /\ \A a \in live : tree.key[rbtree_min(tree)] <= tree.key[a]
                       /\ tree.key[a] <= tree.key[rbtree_max(tree)]
    /\ LET arr == rbtree_to_array(tree, Cardinality(live))
       IN  /\ \A i \in 2..Len(arr) : arr[i-1] <= arr[i]
           /\ \A k \in Keys : Cardinality({i \in DOMAIN arr : arr[i] = k}) = Count(k)

(***************************************************************************)
(* An array of n keys, fewer than the tree has, gets the n smallest in     *)
(* order (README.md:25).  The keys that inorder_arr then writes behind the *)
(* array (rbtree.c:391) are those of nodes above the last one that fits,   *)
(* fewer than the balanced tree is high: 2 * log2 of its size and one.     *)
(***************************************************************************)
ShortArray ==
  running = "idle" =>
    \A n \in 0..Cardinality(live)-1 :
      LET arr == rbtree_to_array(tree, n)
      IN  /\ Len(arr) >= n /\ (n = 0 => arr = << >>)
          /\ SubSeq(arr, 1, n) = SubSeq(rbtree_to_array(tree, Cardinality(live)), 1, n)
          /\ 2 ^ (Len(arr) - n + 1) <= (Cardinality(live) + 1) ^ 2

(***************************************************************************)
(* What becomes of the pointers a program holds (rbtree.c:274): a node     *)
(* keeps its key for as long as it is allocated, through every rotation,   *)
(* unless it is itself erased; and a removal frees the node it is given,   *)
(* or another one whose key that node has taken.                           *)
(***************************************************************************)
PointersKept ==
  [][/\ \A a \in live \cap live' : tree'.key[a] = tree.key[a] \/ Erase(a)
     /\ \A p \in live : Erase(p) => \E y \in live \ live' : y = p \/ tree'.key[p] = tree.key[y]]_vars

(***************************************************************************)
(* The tree is a multiset of keys: an insertion adds its key once, and the *)
(* removal of a node takes away the key that node holds, once, and nothing *)
(* but what PointersKept says happens to the pointers a program holds.     *)
(***************************************************************************)
Multiset == INSTANCE KeyBag
  WITH count <- LET all == Under(tree, tree.root)
                IN  [k \in Keys |-> Cardinality({a \in all : tree.key[a] = k})]
IsMultiset ==
  /\ Multiset!Spec
  /\ [][/\ \A k \in Keys : Insert(k) => Multiset!Insert(k)
        /\ \A p \in live : Erase(p) => Multiset!Erase(tree.key[p])]_vars
  /\ PointersKept
=============================================================================
