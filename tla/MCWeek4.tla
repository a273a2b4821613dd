------------------------------- MODULE MCWeek4 -------------------------------
(***************************************************************************)
(* The four data structures of week 4 for TLC.  They share nothing, and a  *)
(* behaviour uses one of them.                                             *)
(*                                                                         *)
(* Shape and BstShape are the states of the trees without the names of the *)
(* nodes: two states of the same shape differ in which blocks calloc       *)
(* returned, which nothing in the code or in the properties depends on,    *)
(* and in the parent of nil between calls, which is set before it is read. *)
(* A link that does not lead back, to null or to a freed node shows.       *)
(***************************************************************************)
EXTENDS RbTree

CONSTANTS
  Structures,  \* the programs behaviours may use
  ListNodes,   \* the blocks of the lists
  BstNodes,    \* the blocks of the binary search tree
  HeadNode     \* the dummy node of the doubly linked list

VARIABLES
  structure,   \* the program this behaviour uses
  sll, sllLive, sllStatus,
  dll, dllLive,
  bst, bstLive

Sll == INSTANCE SinglyLinkedList WITH Nodes <- ListNodes, list <- sll, live <- sllLive, status <- sllStatus
Dll == INSTANCE DoublyLinkedList WITH Nodes <- ListNodes, list <- dll, live <- dllLive
Bst == INSTANCE BinarySearchTree WITH Nodes <- BstNodes, tree <- bst, live <- bstLive

ASSUME ListsAssumption == Sll!ListAssumption /\ Dll!RingAssumption

sllVars == <<sll, sllLive, sllStatus>>
dllVars == <<dll, dllLive>>
bstVars == <<bst, bstLive>>
listVars == <<sllVars, dllVars, bstVars>>

Week4Init == structure \in Structures /\ Init /\ Sll!Init /\ Dll!Init /\ Bst!Init

Week4Next ==
  \/ structure = "rbtree" /\ Next /\ UNCHANGED <<structure, listVars>>
  \/ structure = "sll" /\ Sll!Next /\ UNCHANGED <<structure, vars, dllVars, bstVars>>
  \/ structure = "dll" /\ Dll!Next /\ UNCHANGED <<structure, vars, sllVars, bstVars>>
  \/ structure = "bst" /\ Bst!Next /\ UNCHANGED <<structure, vars, sllVars, dllVars>>

Week4Spec == Week4Init /\ [][Week4Next]_<<structure, vars, listVars>>

Called == IF running = "idle" THEN Null ELSE IF check = Nil THEN tree.parent[Nil] ELSE check
Shape ==
  LET Part[a \in Nodes, depth \in 0..Cardinality(Nodes)] ==
        <<tree.key[a], tree.color[a], a = Called, a \in live,
          [d \in Side |-> LET c == tree.child[a][d]
                          IN  IF c \notin Nodes \/ depth = 0 THEN <<c = Nil>>
                              ELSE <<tree.parent[c] = a, Part[c, depth - 1]>>]>>
  IN  <<running, check = Nil, tree.color[Nil], Cardinality(live),
        IF tree.root = Nil THEN << >>
        ELSE <<tree.parent[tree.root] = Nil, Part[tree.root, Cardinality(Nodes)]>>>>

BstShape ==
  LET Part[a \in BstNodes, depth \in 0..Cardinality(BstNodes)] ==
        <<bst.key[a], a \in bstLive,
          [d \in Side |-> LET c == bst.child[a][d]
                          IN  IF c = Null \/ depth = 0 THEN << >>
                              ELSE <<bst.parent[c] = a, Part[c, depth - 1]>>]>>
  IN  <<Cardinality(bstLive),
        IF bst.root = Null THEN << >>
        ELSE <<bst.parent[bst.root] = Null, Part[bst.root, Cardinality(BstNodes)]>>>>

Week4Shape == <<structure, Shape, sllVars, dllVars, BstShape>>
-----------------------------------------------------------------------------

(***************************************************************************)
(* singlyLinkedList.c: the list leads through allocated nodes only and has *)
(* at most size of them; every call but removeIdx(i), i <= 0, is a deque's.*)
(***************************************************************************)
SllIsDeque == Sll!IsDeque /\ []Sll!ChainSound

(***************************************************************************)
(* doublyLinkedList.c: the list is a ring both ways through every node it  *)
(* has allocated, and every call is that of a deque.                       *)
(***************************************************************************)
DllIsDeque == Dll!IsDeque /\ []Dll!Ring

(***************************************************************************)
(* binarySearchTree.c: links agree and nothing is lost, and the tree is a  *)
(* multiset whose removals take away the key they are asked for.           *)
(***************************************************************************)
BstIsMultiset == Bst!IsMultiset /\ []Bst!Linked
=============================================================================
